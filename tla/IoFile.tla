------------------------------- MODULE IoFile -------------------------------
(***************************************************************************)
(* The File class of io.wren over the asynchronous file operations of io.c.*)
(*                                                                         *)
(* An operation of a File reads the descriptor out of the object, submits  *)
(* a request to libuv and parks its fiber.  The requests are carried out   *)
(* by a pool of threads, in any order, and completed on the event loop,    *)
(* again in any order; until then nothing ties the descriptor number in    *)
(* the request to the File object.                                         *)
(*                                                                         *)
(* Fibers run one at a time and only park in an operation, so what a fiber *)
(* does between two parks is one step.  The kernel is external: a table of *)
(* open descriptors, allocated lowest first, and the bytes of each file,   *)
(* of which only the writer is kept.                                       *)
(***************************************************************************)
EXTENDS Naturals, Sequences, FiniteSets, FiniteSetsExt, SequencesExt

CONSTANTS
  Fibers,          (* The fibers that use files.                           *)
  Files,           (* File objects.                                        *)
  Paths,           (* Names of existing files.                             *)
  None,            (* No path, no fiber, no File.                          *)
  MaxDescriptor,   (* Bound: descriptors are 1 .. MaxDescriptor.           *)
  MaxLength,       (* Bound on the length of a file that is appended to.   *)
  Shared           (* Whether a fiber uses File objects that others opened.*)

ASSUME FilesAssumption ==
  /\ None \notin Paths \cup Files \cup Fibers /\ Shared \in BOOLEAN
  /\ MaxDescriptor \in Nat \ {0} /\ MaxLength \in Nat

(* -1 in the code: no descriptor, or closed. *)
Closed == 0
Descriptors == 1 .. MaxDescriptor

VARIABLES
  fd,          (* The foreign data of each File: its descriptor or Closed. *)
  openedBy,    (* The fiber that opened each File.                         *)
  openedPath,  (* The path each File was opened with.                      *)
  request,     (* The outstanding request of each fiber.                   *)
  kernel,      (* The path behind each descriptor.                         *)
  content,     (* The bytes of each file.                                  *)
  appended     (* Ghost: completed calls of writeBytes(bytes) per path.    *)

objects == <<fd, openedBy, openedPath>>
vars == <<objects, request, kernel, content, appended>>

Kinds == {"open", "close", "size", "write", "read"}

(* A request: the operation, its File, the descriptor (a result, for open),*)
(* the offset for write (a result, for size), and how far it is.  hit is   *)
(* the path of the file that the pool found behind the descriptor.         *)
Request(kind, file, path, d, offset) ==
  [kind |-> kind, file |-> file, path |-> path, fd |-> d, offset |-> offset,
   stage |-> "submitted", hit |-> None]

NoRequest == [kind |-> "none"]

Parked(f) == request[f] # NoRequest
Done(f) == Parked(f) /\ request[f].stage \in {"done", "failed"}

TypeOK ==
  /\ fd \in [Files -> Descriptors \cup {Closed}]
  /\ \A f \in Fibers : Parked(f) =>
       /\ request[f].kind \in Kinds /\ request[f].fd \in Descriptors \cup {Closed}
       /\ request[f].kind # "open" => request[f].fd # Closed
       /\ request[f].stage \in {"submitted", "done", "failed"}
       /\ request[f].offset \in 0 .. MaxLength
  /\ kernel \in [Descriptors -> Paths \cup {None}]
  /\ \A p \in Paths : content[p] \in Seq(Fibers) /\ Len(content[p]) <= MaxLength

Init ==
  /\ fd = [x \in Files |-> Closed]
  /\ openedBy = [x \in Files |-> None]
  /\ openedPath = [x \in Files |-> None]
  /\ request = [f \in Fibers |-> NoRequest]
  /\ kernel = [d \in Descriptors |-> None]
  /\ content = [p \in Paths |-> <<>>]
  /\ appended = [p \in Paths |-> 0]

-----------------------------------------------------------------------------
(***************************************************************************)
(* Wren code: io.wren and the foreign methods it calls.                    *)
(***************************************************************************)

(* A running fiber has a reference to the File x. *)
Uses(f, x) ==
  /\ ~Parked(f)
  /\ openedPath[x] # None
  /\ Shared \/ openedBy[x] = f

(* A foreign method submits a request and the fiber parks. *)
Submit(f, r) == request' = [request EXCEPT ![f] = r]

(* File.open(path), fileOpen *)
OpenFile(f, p) ==
  /\ ~Parked(f)
  /\ Submit(f, Request("open", None, p, Closed, 0))
  /\ UNCHANGED <<objects, kernel, content, appended>>

(* file.size, fileSize, as the first half of writeBytes(bytes). *)
AppendBytes(f, x) ==
  /\ Uses(f, x) /\ fd[x] # Closed
  /\ Len(content[openedPath[x]]) < MaxLength
  /\ Submit(f, Request("size", x, openedPath[x], fd[x], 0))
  /\ UNCHANGED <<objects, kernel, content, appended>>

(* file.readBytes(count), fileReadBytes; file.stat has the same form. *)
ReadBytes(f, x) ==
  /\ Uses(f, x) /\ fd[x] # Closed
  /\ Submit(f, Request("read", x, openedPath[x], fd[x], 0))
  /\ UNCHANGED <<objects, kernel, content, appended>>

(* Mutation: the File is marked closed when the request completes.         *)
MarkClosedLater(x) == UNCHANGED fd

(* fileClose: "Mark it closed immediately." *)
MarkClosed(x) == fd' = [fd EXCEPT ![x] = Closed]

(* file.close() of a File that is open; of a closed one it does nothing.   *)
CloseFile(f, x) ==
  /\ Uses(f, x) /\ fd[x] # Closed
  /\ Submit(f, Request("close", x, openedPath[x], fd[x], 0))
  /\ MarkClosed(x)
  /\ UNCHANGED <<openedBy, openedPath, kernel, content, appended>>

(* Mutation: a request does not keep its fiber alive.                      *)
HeldNothing == {}

(* The File objects on the stacks of parked fibers, which the handles in   *)
(* the requests keep alive (createRequest).                                *)
Held == {request[f].file : f \in {g \in Fibers : Parked(g) /\ request[g].kind # "open"}}

(* fileFinalize closes the descriptor of a File that is still open. *)
FinalizedDescriptors(x) == {fd[x]} \ {Closed}

(* The collector finds a File that no fiber refers to.                     *)
FinalizeFile(x) ==
  /\ openedPath[x] # None /\ x \notin Held
  /\ kernel' = [d \in Descriptors |->
                  IF d \in FinalizedDescriptors(x) THEN None ELSE kernel[d]]
  /\ fd' = [fd EXCEPT ![x] = Closed]
  /\ openedPath' = [openedPath EXCEPT ![x] = None]
  /\ UNCHANGED <<openedBy, request, content, appended>>

-----------------------------------------------------------------------------
(***************************************************************************)
(* The thread pool and the kernel.                                         *)
(***************************************************************************)

Executed(f, r) == request' = [request EXCEPT ![f] = r]

(* open: the lowest free descriptor, or an error. *)
ExecuteOpen(f) ==
  LET free == {d \in Descriptors : kernel[d] = None}
      r    == request[f]
  IN \/ /\ free # {}
        /\ kernel' = [kernel EXCEPT ![Min(free)] = r.path]
        /\ Executed(f, [r EXCEPT !.fd = Min(free), !.stage = "done"])
     \/ /\ UNCHANGED kernel
        /\ Executed(f, [r EXCEPT !.stage = "failed"])

ExecuteClose(f) ==
  LET r == request[f]
  IN /\ kernel' = [kernel EXCEPT ![r.fd] = None]
     /\ Executed(f, [r EXCEPT !.stage = IF kernel[r.fd] = None THEN "failed" ELSE "done",
                              !.hit = kernel[r.fd]])

(* size, read and write of whatever is behind the descriptor by now.       *)
ExecuteOnDescriptor(f) ==
  LET r    == request[f]
      p    == kernel[r.fd]
      done == [r EXCEPT !.stage = "done", !.hit = p]
  IN IF p = None
     THEN Executed(f, [r EXCEPT !.stage = "failed"]) /\ UNCHANGED content
     ELSE CASE r.kind = "size" ->
                 Executed(f, [done EXCEPT !.offset = Len(content[p])]) /\ UNCHANGED content
            [] r.kind = "read" ->
                 Executed(f, done) /\ UNCHANGED content
            [] r.kind = "write" ->
                 /\ r.offset <= Len(content[p]) /\ r.offset < MaxLength
                 /\ content' = [content EXCEPT ![p] =
                       [i \in 1 .. Max({Len(@), r.offset + 1}) |->
                          IF i = r.offset + 1 THEN f ELSE @[i]]]
                 /\ Executed(f, done)

Execute(f) ==
  /\ Parked(f) /\ request[f].stage = "submitted"
  /\ \/ request[f].kind = "open" /\ ExecuteOpen(f) /\ UNCHANGED content
     \/ request[f].kind = "close" /\ ExecuteClose(f) /\ UNCHANGED content
     \/ /\ request[f].kind \in {"size", "read", "write"}
        /\ ExecuteOnDescriptor(f) /\ UNCHANGED kernel
  /\ UNCHANGED <<objects, appended>>

-----------------------------------------------------------------------------
(***************************************************************************)
(* The callbacks, up to the next operation of the fiber they resume.       *)
(***************************************************************************)

Resume(f) == request' = [request EXCEPT ![f] = NoRequest]

(* fileOpenCallback, and File.new_(fd) in the resumed fiber. *)
OpenCompletes(f) ==
  /\ Done(f) /\ request[f].kind = "open" /\ request[f].stage = "done"
  /\ \E x \in Files :
       /\ openedPath[x] = None
       /\ fd' = [fd EXCEPT ![x] = request[f].fd]
       /\ openedBy' = [openedBy EXCEPT ![x] = f]
       /\ openedPath' = [openedPath EXCEPT ![x] = request[f].path]
  /\ Resume(f)
  /\ UNCHANGED <<kernel, content, appended>>

(* Mutation: the File is checked once, before its size is asked for.       *)
StillOpenAssumed(x) == TRUE

(* ensureOpen_ *)
StillOpen(x) == fd[x] # Closed

(* fileSizeCallback: writeBytes(bytes, offset) checks the File once more.  *)
SizeCompletes(f) ==
  /\ Done(f) /\ request[f].kind = "size" /\ request[f].stage = "done"
  /\ LET r == request[f]
     IN IF StillOpen(r.file)
        THEN Submit(f, Request("write", r.file, r.path, fd[r.file], r.offset))
        ELSE Resume(f)
  /\ UNCHANGED <<objects, kernel, content, appended>>

(* fileWriteBytesCallback, fileReadBytesCallback, fileCloseCallback *)
OtherCompletes(f) ==
  /\ Done(f) /\ request[f].kind \in {"write", "read", "close"}
  /\ request[f].stage = "done"
  /\ appended' = IF request[f].kind = "write" /\ request[f].hit = request[f].path
                 THEN [appended EXCEPT ![request[f].path] = @ + 1]
                 ELSE appended
  /\ Resume(f)
  /\ UNCHANGED <<objects, kernel, content>>

(* handleRequestError: the operation aborts in its fiber. *)
RequestFails(f) ==
  /\ Done(f) /\ request[f].stage = "failed"
  /\ Resume(f)
  /\ UNCHANGED <<objects, kernel, content, appended>>

Next ==
  \/ \E f \in Fibers :
       \/ \E p \in Paths : OpenFile(f, p)
       \/ \E x \in Files : AppendBytes(f, x) \/ ReadBytes(f, x) \/ CloseFile(f, x)
       \/ Execute(f)
       \/ OpenCompletes(f) \/ SizeCompletes(f) \/ OtherCompletes(f) \/ RequestFails(f)
  \/ \E x \in Files : FinalizeFile(x)

Spec == Init /\ [][Next]_vars

-----------------------------------------------------------------------------
(* The parties that will close the descriptor d: an open File, a request   *)
(* to close it, or the open that has just returned it.                     *)
Owners(d) ==
  {x \in Files : fd[x] = d}
    \cup {f \in Fibers : /\ Parked(f) /\ request[f].fd = d
                         /\ \/ request[f].kind = "close" /\ ~Done(f)
                            \/ request[f].kind = "open" /\ Done(f)}

(* Every open descriptor has exactly one owner, and a closed one none:     *)
(* none leaks, and none is closed twice, which could close a file that was *)
(* opened in between.                                                      *)
DescriptorsOwned ==
  \A d \in Descriptors : Cardinality(Owners(d)) = (IF kernel[d] = None THEN 0 ELSE 1)

(* "An instance of this class represents an open file with a file          *)
(* descriptor." (modules/io/file.markdown): until its File object is       *)
(* closed, an operation works on the file that the object was opened on,   *)
(* and closing it closes that file.                                        *)
OperationsHitTheirFile ==
  \A f \in Fibers :
    Parked(f) /\ request[f].hit \notin {None, request[f].path}
      => request[f].kind # "close" /\ fd[request[f].file] # request[f].fd

(* "Writes the raw bytes of the string `bytes` to the end of the file."    *)
(* (modules/io/file.markdown): what was appended stays in the file.  (Not  *)
(* when two fibers append to it, see the README.)                          *)
AppendsAreKept == \A p \in Paths : Len(content[p]) >= appended[p]

=============================================================================
