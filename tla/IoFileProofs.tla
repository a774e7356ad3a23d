---------------------------- MODULE IoFileProofs ----------------------------
(***************************************************************************)
(* The descriptors of IoFile, for any number of fibers, Files and          *)
(* descriptors: each open one has one owner, and an operation finds        *)
(* another file behind its descriptor only if its File was closed.         *)
(***************************************************************************)
EXTENDS IoFile, SmallestNatural, FiniteSetTheorems, TLAPS

(* The shape of a request, and which Files and descriptors it is about.    *)
Requests ==
  [kind : Kinds, file : Files \cup {None}, path : Paths, fd : Descriptors \cup {Closed},
   offset : 0 .. MaxLength, stage : {"submitted", "done", "failed"}, hit : Paths \cup {None}]

Shapes ==
  /\ fd \in [Files -> Descriptors \cup {Closed}]
  /\ openedPath \in [Files -> Paths \cup {None}]
  /\ request \in [Fibers -> Requests \cup {NoRequest}]
  /\ kernel \in [Descriptors -> Paths \cup {None}]
  /\ content \in [Paths -> Seq(Fibers)]
  /\ \A p \in Paths : Len(content[p]) <= MaxLength

(* A request of a File keeps it from being finalised, so that its path     *)
(* stays; an open has a descriptor exactly when it has succeeded.          *)
RequestKeepsFile(f) ==
  LET r == request[f]
  IN /\ r.kind # "open" =>
          r.file \in Files /\ openedPath[r.file] = r.path /\ r.fd # Closed
     /\ r.kind = "open" => r.hit = None /\ (r.fd # Closed <=> r.stage = "done")
     /\ r.stage = "submitted" => r.hit = None

RequestsKeepFiles == \A f \in Fibers : Parked(f) => RequestKeepsFile(f)

(* The owners of a descriptor, by kind. *)
FileHas(x, d) == fd[x] = d
RequestHas(f, d) ==
  /\ Parked(f) /\ request[f].fd = d
  /\ \/ request[f].kind = "close" /\ ~Done(f)
     \/ request[f].kind = "open" /\ Done(f)

(* An owner has the descriptor alone, and the kernel has the owner's file  *)
(* behind it.                                                              *)
OneOwner(d) ==
  /\ \A x, y \in Files : FileHas(x, d) /\ FileHas(y, d) => x = y
  /\ \A f, g \in Fibers : RequestHas(f, d) /\ RequestHas(g, d) => f = g
  /\ \A x \in Files, f \in Fibers : ~(FileHas(x, d) /\ RequestHas(f, d))
OwnersFile(d) ==
  /\ \A x \in Files : FileHas(x, d) => kernel[d] = openedPath[x]
  /\ \A f \in Fibers : RequestHas(f, d) => kernel[d] = request[f].path
SomeOwner(d) ==
  (\E x \in Files : FileHas(x, d)) \/ (\E f \in Fibers : RequestHas(f, d))

OpenFilesHavePaths == \A x \in Files : fd[x] # Closed => openedPath[x] # None

OwnersInv ==
  \A d \in Descriptors :
    OneOwner(d) /\ OwnersFile(d) /\ (kernel[d] # None => SomeOwner(d))

FileInv ==
  /\ Shapes /\ RequestsKeepFiles /\ OpenFilesHavePaths
  /\ OwnersInv /\ OperationsHitTheirFile

LEMMA NoRequestIsNoRequest == NoRequest \notin Requests
BY DEF NoRequest, Requests, Kinds

LEMMA ClosedIsNoDescriptor == Closed \notin Descriptors
BY FilesAssumption DEF Closed, Descriptors

LEMMA FileInvInit == Init => FileInv
<1> SUFFICES ASSUME Init PROVE FileInv
  OBVIOUS
<1>1. Shapes
  BY FilesAssumption DEF Init, Shapes
<1>2. \A f \in Fibers : ~Parked(f)
  BY DEF Init, Parked
<1>3. RequestsKeepFiles /\ OperationsHitTheirFile
  BY <1>2 DEF RequestsKeepFiles, OperationsHitTheirFile
<1>4. OpenFilesHavePaths
  BY DEF Init, OpenFilesHavePaths
<1>5. OwnersInv
  BY <1>2, ClosedIsNoDescriptor
  DEF Init, OwnersInv, OneOwner, OwnersFile, FileHas, RequestHas
<1> QED  BY <1>1, <1>3, <1>4, <1>5 DEF FileInv

(* What ownership means for the descriptors that nobody has.               *)
LEMMA OwnedIsOpen ==
  ASSUME FileInv, NEW d \in Descriptors, SomeOwner(d)
  PROVE  kernel[d] # None
<1>1. CASE \E x \in Files : FileHas(x, d)
  BY <1>1, ClosedIsNoDescriptor
  DEF FileInv, OwnersInv, OwnersFile, OpenFilesHavePaths, FileHas
<1>2. CASE \E f \in Fibers : RequestHas(f, d)
  <2>1. PICK f \in Fibers : RequestHas(f, d)
    BY <1>2
  <2>2. request[f] \in Requests
    BY <2>1 DEF FileInv, Shapes, RequestHas, Parked
  <2>3. kernel[d] = request[f].path
    BY <2>1 DEF FileInv, OwnersInv, OwnersFile
  <2> QED  BY <2>2, <2>3, FilesAssumption DEF Requests
<1> QED  BY <1>1, <1>2 DEF SomeOwner

(***************************************************************************)
(* Steps that change the request of one fiber, and who owns what not at    *)
(* all: only the new request has to be looked at.                          *)
(***************************************************************************)
HitIsOwn(f) ==
  Parked(f) /\ request[f].hit \notin {None, request[f].path}
    => request[f].kind # "close" /\ fd[request[f].file] # request[f].fd

LEMMA OneRequestChanges ==
  ASSUME FileInv, NEW f \in Fibers, NEW r \in Requests \cup {NoRequest},
         request' = [request EXCEPT ![f] = r],
         UNCHANGED <<fd, openedPath, kernel>>,
         content' \in [Paths -> Seq(Fibers)], \A p \in Paths : Len(content'[p]) <= MaxLength,
         \A d \in Descriptors : ~RequestHas(f, d) /\ ~RequestHas(f, d)',
         Parked(f)' => RequestKeepsFile(f)', HitIsOwn(f)'
  PROVE  FileInv'
<1>1. Shapes'
  BY DEF FileInv, Shapes
<1>2. \A g \in Fibers : g # f => request'[g] = request[g]
  BY DEF FileInv, Shapes
<1>3. RequestsKeepFiles'
  <2> SUFFICES ASSUME NEW g \in Fibers, Parked(g)' PROVE RequestKeepsFile(g)'
    BY DEF RequestsKeepFiles
  <2>1. CASE g = f   BY <2>1
  <2>2. CASE g # f
    BY <1>2, <2>2 DEF FileInv, RequestsKeepFiles, RequestKeepsFile, Parked
  <2> QED  BY <2>1, <2>2
<1>4. OpenFilesHavePaths'
  BY DEF FileInv, OpenFilesHavePaths
<1>5. \A g \in Fibers, d \in Descriptors :
        /\ RequestHas(g, d)' <=> RequestHas(g, d)
        /\ RequestHas(g, d) => request'[g].path = request[g].path
  <2> SUFFICES ASSUME NEW g \in Fibers, NEW d \in Descriptors
               PROVE  /\ RequestHas(g, d)' <=> RequestHas(g, d)
                      /\ RequestHas(g, d) => request'[g].path = request[g].path
    OBVIOUS
  <2>1. CASE g = f   BY <2>1
  <2>2. CASE g # f   BY <1>2, <2>2 DEF RequestHas, Parked, Done
  <2> QED  BY <2>1, <2>2
<1>6. OwnersInv'
  <2> SUFFICES ASSUME NEW d \in Descriptors
               PROVE  /\ OneOwner(d)' /\ OwnersFile(d)'
                      /\ kernel'[d] # None => SomeOwner(d)'
    BY DEF OwnersInv
  <2>1. OneOwner(d) /\ OwnersFile(d) /\ (kernel[d] # None => SomeOwner(d))
    BY DEF FileInv, OwnersInv
  <2>2. \A x : FileHas(x, d)' <=> FileHas(x, d)
    BY DEF FileHas
  <2> QED  BY <1>5, <2>1, <2>2 DEF OneOwner, OwnersFile, SomeOwner
<1>7. OperationsHitTheirFile'
  <2> SUFFICES ASSUME NEW g \in Fibers PROVE HitIsOwn(g)'
    BY DEF OperationsHitTheirFile, HitIsOwn
  <2>1. CASE g = f   BY <2>1
  <2>2. CASE g # f
    BY <1>2, <2>2 DEF FileInv, OperationsHitTheirFile, HitIsOwn, Parked
  <2> QED  BY <2>1, <2>2
<1> QED  BY <1>1, <1>3, <1>4, <1>6, <1>7 DEF FileInv

(* A fiber that makes a new request about a File that is open.             *)
LEMMA NewRequestOfOpenFile ==
  ASSUME FileInv, NEW f \in Fibers, NEW x \in Files, fd[x] # Closed,
         NEW kind \in Kinds \ {"open", "close"}, NEW offset \in 0 .. MaxLength,
         Submit(f, Request(kind, x, openedPath[x], fd[x], offset)),
         UNCHANGED <<fd, openedPath, kernel, content>>,
         \A d \in Descriptors : ~RequestHas(f, d)
  PROVE  FileInv'
<1> DEFINE r == Request(kind, x, openedPath[x], fd[x], offset)
<1>1. openedPath[x] \in Paths /\ fd[x] \in Descriptors
  BY DEF FileInv, Shapes, OpenFilesHavePaths
<1>2. r \in Requests /\ r # NoRequest
  BY <1>1, NoRequestIsNoRequest DEF Request, Requests
<1>3. request' = [request EXCEPT ![f] = r] /\ request'[f] = r
  BY DEF Submit, FileInv, Shapes
<1>4. /\ r.kind = kind /\ r.file = x /\ r.path = openedPath[x] /\ r.fd = fd[x]
      /\ r.stage = "submitted" /\ r.hit = None
  BY DEF Request
<1> HIDE DEF r
<1>5. \A d \in Descriptors : ~RequestHas(f, d)'
  BY <1>3, <1>4 DEF RequestHas
<1>6. RequestKeepsFile(f)' /\ HitIsOwn(f)'
  BY <1>3, <1>4 DEF RequestKeepsFile, HitIsOwn
<1>7. content' \in [Paths -> Seq(Fibers)] /\ \A p \in Paths : Len(content'[p]) <= MaxLength
  BY DEF FileInv, Shapes
<1> QED  BY <1>2, <1>3, <1>5, <1>6, <1>7, OneRequestChanges

(* A fiber that goes on after its request.                                 *)
LEMMA FiberGoesOn ==
  ASSUME FileInv, NEW f \in Fibers, Resume(f),
         UNCHANGED <<fd, openedPath, kernel, content>>,
         \A d \in Descriptors : ~RequestHas(f, d)
  PROVE  FileInv'
<1>1. request' = [request EXCEPT ![f] = NoRequest] /\ request'[f] = NoRequest
  BY DEF Resume, FileInv, Shapes
<1>2. ~Parked(f)'
  BY <1>1 DEF Parked
<1>3. HitIsOwn(f)' /\ \A d \in Descriptors : ~RequestHas(f, d)'
  BY <1>2 DEF HitIsOwn, RequestHas
<1>4. content' \in [Paths -> Seq(Fibers)] /\ \A p \in Paths : Len(content'[p]) <= MaxLength
  BY DEF FileInv, Shapes
<1> QED  BY <1>1, <1>2, <1>3, <1>4, OneRequestChanges

LEMMA FileInvOpenFile ==
  ASSUME FileInv, NEW f \in Fibers, NEW p \in Paths, OpenFile(f, p)
  PROVE  FileInv'
<1> DEFINE r == Request("open", None, p, Closed, 0)
<1>1. r \in Requests
  BY FilesAssumption DEF Request, Requests, Kinds
<1>2. request' = [request EXCEPT ![f] = r] /\ request'[f] = r
  BY DEF OpenFile, Submit, FileInv, Shapes
<1>3. r.kind = "open" /\ r.fd = Closed /\ r.stage = "submitted" /\ r.hit = None
  BY DEF Request
<1> HIDE DEF r
<1>4. \A d \in Descriptors : ~RequestHas(f, d) /\ ~RequestHas(f, d)'
  BY <1>2, <1>3 DEF OpenFile, RequestHas, Done
<1>5. RequestKeepsFile(f)' /\ HitIsOwn(f)'
  BY <1>2, <1>3 DEF RequestKeepsFile, HitIsOwn
<1>6. UNCHANGED <<fd, openedPath, kernel>> /\ content' = content
  BY DEF OpenFile, objects
<1>7. content' \in [Paths -> Seq(Fibers)] /\ \A q \in Paths : Len(content'[q]) <= MaxLength
  BY <1>6 DEF FileInv, Shapes
<1> QED  BY <1>1, <1>2, <1>4, <1>5, <1>6, <1>7, OneRequestChanges

LEMMA FileInvAppendOrRead ==
  ASSUME FileInv, NEW f \in Fibers, NEW x \in Files, AppendBytes(f, x) \/ ReadBytes(f, x)
  PROVE  FileInv'
<1>1. \A d \in Descriptors : ~RequestHas(f, d)
  BY DEF AppendBytes, ReadBytes, Uses, RequestHas
<1>2. UNCHANGED <<fd, openedPath, kernel, content>> /\ fd[x] # Closed
  BY DEF AppendBytes, ReadBytes, objects
<1>3. 0 \in 0 .. MaxLength
  BY FilesAssumption
<1>4. \E kind \in {"size", "read"} : Submit(f, Request(kind, x, openedPath[x], fd[x], 0))
  BY DEF AppendBytes, ReadBytes
<1> QED  BY <1>1, <1>2, <1>3, <1>4, NewRequestOfOpenFile DEF Kinds

LEMMA FileInvSizeCompletes ==
  ASSUME FileInv, NEW f \in Fibers, SizeCompletes(f)
  PROVE  FileInv'
<1> DEFINE r == request[f]
<1>1. r.kind = "size" /\ Parked(f) /\ r \in Requests
  BY DEF SizeCompletes, Done, Parked, FileInv, Shapes
<1>2. r.file \in Files /\ openedPath[r.file] = r.path /\ r.offset \in 0 .. MaxLength
  BY <1>1 DEF FileInv, RequestsKeepFiles, RequestKeepsFile, Requests
<1>3. \A d \in Descriptors : ~RequestHas(f, d)
  BY <1>1 DEF RequestHas
<1>4. UNCHANGED <<fd, openedPath, kernel, content>>
  BY DEF SizeCompletes, objects
<1>5. CASE StillOpen(r.file)
  <2>1. Submit(f, Request("write", r.file, openedPath[r.file], fd[r.file], r.offset))
    BY <1>2, <1>5 DEF SizeCompletes
  <2> QED  BY <1>2, <1>3, <1>4, <1>5, <2>1, NewRequestOfOpenFile DEF StillOpen, Kinds
<1>6. CASE ~StillOpen(r.file)
  <2>1. Resume(f)
    BY <1>6 DEF SizeCompletes
  <2> QED  BY <1>3, <1>4, <2>1, FiberGoesOn
<1> QED  BY <1>5, <1>6

LEMMA FileInvOtherCompletes ==
  ASSUME FileInv, NEW f \in Fibers, OtherCompletes(f) \/ RequestFails(f)
  PROVE  FileInv'
<1>1. Done(f) /\ (request[f].kind = "open" => request[f].stage = "failed")
  BY DEF OtherCompletes, RequestFails
<1>2. request[f].kind = "open" => request[f].fd = Closed
  BY <1>1 DEF FileInv, RequestsKeepFiles, RequestKeepsFile, Done
<1>3. \A d \in Descriptors : ~RequestHas(f, d)
  BY <1>1, <1>2, ClosedIsNoDescriptor DEF RequestHas
<1>4. UNCHANGED <<fd, openedPath, kernel, content>> /\ Resume(f)
  BY DEF OtherCompletes, RequestFails, objects
<1> QED  BY <1>3, <1>4, FiberGoesOn

(* The pool carries out an operation that neither opens nor closes: what   *)
(* it finds behind the descriptor is the file of the request, unless the   *)
(* File has the descriptor no more.                                        *)
LEMMA WrittenFits ==
  ASSUME NEW s \in Seq(Fibers), NEW f \in Fibers, NEW offset \in 0 .. MaxLength,
         Len(s) <= MaxLength, offset <= Len(s), offset < MaxLength
  PROVE  LET w == [i \in 1 .. Max({Len(s), offset + 1}) |-> IF i = offset + 1 THEN f ELSE s[i]]
         IN  w \in Seq(Fibers) /\ Len(w) <= MaxLength
<1> DEFINE n == Max({Len(s), offset + 1})
<1>1. Len(s) \in Nat /\ offset \in Nat /\ MaxLength \in Nat
  BY FilesAssumption
<1>2. \E x \in {Len(s), offset + 1} : \A y \in {Len(s), offset + 1} : x >= y
  BY <1>1
<1>3. n \in {Len(s), offset + 1} /\ \A y \in {Len(s), offset + 1} : n >= y
  BY <1>2 DEF Max
<1>4. n \in Nat /\ n <= MaxLength /\ (n = Len(s) \/ n = offset + 1)
  BY <1>1, <1>3
<1> HIDE DEF n
<1>5. \A i \in 1 .. n : i # offset + 1 => i \in 1 .. Len(s)
  BY <1>1, <1>4
<1>6. \A i \in 1 .. n : (IF i = offset + 1 THEN f ELSE s[i]) \in Fibers
  BY <1>5
<1>7. [i \in 1 .. n |-> IF i = offset + 1 THEN f ELSE s[i]] \in [1 .. n -> Fibers]
  BY <1>6
<1>8. \A w \in [1 .. n -> Fibers] : w \in Seq(Fibers) /\ Len(w) = n
  BY <1>4
<1> QED  BY <1>4, <1>7, <1>8 DEF n

LEMMA FileInvExecuteOnDescriptor ==
  ASSUME FileInv, NEW f \in Fibers, Parked(f), request[f].stage = "submitted",
         request[f].kind \in {"size", "read", "write"}, ExecuteOnDescriptor(f),
         UNCHANGED <<objects, kernel>>
  PROVE  FileInv'
<1> DEFINE r == request[f]
           p == kernel[r.fd]
<1>1. r \in Requests /\ r.fd \in Descriptors /\ p \in Paths \cup {None}
  BY ClosedIsNoDescriptor
  DEF FileInv, Shapes, Parked, RequestsKeepFiles, RequestKeepsFile, Requests
<1>2. r.file \in Files /\ openedPath[r.file] = r.path /\ r.hit = None
  BY DEF FileInv, RequestsKeepFiles, RequestKeepsFile
<1>3. content' \in [Paths -> Seq(Fibers)] /\ \A q \in Paths : Len(content'[q]) <= MaxLength
  <2>1. content \in [Paths -> Seq(Fibers)] /\ \A q \in Paths : Len(content[q]) <= MaxLength
    BY DEF FileInv, Shapes
  <2>2. CASE UNCHANGED content
    BY <2>1, <2>2
  <2>3. CASE content' # content
    <3>1. p \in Paths /\ r.offset <= Len(content[p]) /\ r.offset < MaxLength
      BY <1>1, <2>3 DEF ExecuteOnDescriptor
    <3>2. content' = [content EXCEPT ![p] =
                       [i \in 1 .. Max({Len(@), r.offset + 1}) |->
                          IF i = r.offset + 1 THEN f ELSE @[i]]]
      BY <1>1, <2>3 DEF ExecuteOnDescriptor
    <3>3. r.offset \in 0 .. MaxLength
      BY <1>1 DEF Requests
    <3> DEFINE w == [i \in 1 .. Max({Len(content[p]), r.offset + 1}) |->
                       IF i = r.offset + 1 THEN f ELSE content[p][i]]
    <3>4. content' = [content EXCEPT ![p] = w]
      BY <3>2
    <3>5. w \in Seq(Fibers) /\ Len(w) <= MaxLength
      BY <2>1, <3>1, <3>3, WrittenFits
    <3> HIDE DEF w
    <3> QED  BY <2>1, <3>1, <3>4, <3>5
  <2> QED  BY <2>2, <2>3
<1>4. PICK q \in Requests :
        /\ request' = [request EXCEPT ![f] = q]
        /\ q.kind = r.kind /\ q.file = r.file /\ q.path = r.path /\ q.fd = r.fd
        /\ q.stage # "submitted" /\ (q.hit = None \/ q.hit = p)
  <2>1. CASE p = None
    <3> DEFINE q == [r EXCEPT !.stage = "failed"]
    <3>1. q \in Requests
      BY <1>1 DEF Requests
    <3>2. q.kind = r.kind /\ q.file = r.file /\ q.path = r.path /\ q.fd = r.fd
      BY <1>1 DEF Requests
    <3>3. q.stage = "failed" /\ q.hit = None
      BY <1>1, <1>2 DEF Requests
    <3>4. request' = [request EXCEPT ![f] = q]
      BY <2>1 DEF ExecuteOnDescriptor, Executed
    <3> QED  BY <3>1, <3>2, <3>3, <3>4
  <2>2. CASE p # None
    <3>1. p \in Paths /\ Len(content[p]) \in 0 .. MaxLength
      BY <1>1, <2>2, FilesAssumption DEF FileInv, Shapes
    <3>2. PICK offset \in 0 .. MaxLength :
            request' = [request EXCEPT ![f] =
                          [r EXCEPT !.stage = "done", !.hit = p, !.offset = offset]]
      <4> DEFINE done == [r EXCEPT !.stage = "done", !.hit = p]
      <4>1. done = [r EXCEPT !.stage = "done", !.hit = p, !.offset = r.offset]
        BY <1>1 DEF Requests
      <4>2. r.offset \in 0 .. MaxLength
        BY <1>1 DEF Requests
      <4>3. CASE r.kind = "size"
        <5>1. request' = [request EXCEPT ![f] = [done EXCEPT !.offset = Len(content[p])]]
          BY <2>2, <4>3 DEF ExecuteOnDescriptor, Executed
        <5> QED  BY <3>1, <5>1
      <4>4. CASE r.kind \in {"read", "write"}
        <5>1. request' = [request EXCEPT ![f] = done]
          BY <2>2, <4>4 DEF ExecuteOnDescriptor, Executed
        <5> QED  BY <4>1, <4>2, <5>1
      <4> QED  BY <4>3, <4>4
    <3> DEFINE q == [r EXCEPT !.stage = "done", !.hit = p, !.offset = offset]
    <3>3. q \in Requests
      BY <1>1, <3>1 DEF Requests
    <3>4. q.kind = r.kind /\ q.file = r.file /\ q.path = r.path /\ q.fd = r.fd
      BY <1>1 DEF Requests
    <3>5. q.stage = "done" /\ q.hit = p
      BY <1>1 DEF Requests
    <3> QED  BY <3>2, <3>3, <3>4, <3>5
  <2> QED  BY <2>1, <2>2
<1>5. request'[f] = q
  BY <1>4 DEF FileInv, Shapes
<1>6. \A d \in Descriptors : ~RequestHas(f, d) /\ ~RequestHas(f, d)'
  BY <1>4, <1>5 DEF RequestHas
<1>7. UNCHANGED <<fd, openedPath, kernel>>
  BY DEF objects
<1>8. RequestKeepsFile(f)'
  BY <1>1, <1>2, <1>4, <1>5, <1>7, ClosedIsNoDescriptor DEF RequestKeepsFile
<1>9. HitIsOwn(f)'
  <2> SUFFICES ASSUME q.hit \notin {None, q.path}
               PROVE  q.kind # "close" /\ fd[q.file] # q.fd
    BY <1>5, <1>7 DEF HitIsOwn
  <2>1. p # openedPath[r.file]
    BY <1>2, <1>4
  <2>2. ~FileHas(r.file, r.fd)
    BY <1>1, <1>2, <2>1 DEF FileInv, OwnersInv, OwnersFile
  <2> QED  BY <1>4, <2>2 DEF FileHas
<1> QED  BY <1>3, <1>4, <1>6, <1>7, <1>8, <1>9, OneRequestChanges

(***************************************************************************)
(* Steps that change the owner of a descriptor.                            *)
(***************************************************************************)
(* The other fibers keep their requests and what they own. *)
LEMMA OthersKeepRequests ==
  ASSUME FileInv, NEW f \in Fibers, NEW r, request' = [request EXCEPT ![f] = r]
  PROVE  /\ request'[f] = r
         /\ \A g \in Fibers \ {f} :
              /\ request'[g] = request[g]
              /\ Parked(g)' <=> Parked(g)
              /\ \A d : RequestHas(g, d)' <=> RequestHas(g, d)
<1>1. request'[f] = r /\ \A g \in Fibers \ {f} : request'[g] = request[g]
  BY DEF FileInv, Shapes
<1> QED  BY <1>1 DEF Parked, RequestHas, Done

LEMMA FileInvCloseFile ==
  ASSUME FileInv, NEW f \in Fibers, NEW x \in Files, CloseFile(f, x)
  PROVE  FileInv'
<1> DEFINE r == Request("close", x, openedPath[x], fd[x], 0)
           d0 == fd[x]
<1>1. /\ request' = [request EXCEPT ![f] = r] /\ fd' = [fd EXCEPT ![x] = Closed]
      /\ ~Parked(f) /\ d0 # Closed
      /\ UNCHANGED <<openedPath, kernel, content>>
  BY DEF CloseFile, Uses, Submit, MarkClosed
<1>2. d0 \in Descriptors /\ openedPath[x] \in Paths
  BY <1>1 DEF FileInv, Shapes, OpenFilesHavePaths
<1>3. r \in Requests /\ r # NoRequest
  BY <1>2, FilesAssumption, NoRequestIsNoRequest DEF Request, Requests, Kinds
<1>4. /\ r.kind = "close" /\ r.file = x /\ r.path = openedPath[x] /\ r.fd = d0
      /\ r.stage = "submitted" /\ r.hit = None
  BY DEF Request
<1> HIDE DEF r
<1>5. request'[f] = r
      /\ \A g \in Fibers \ {f} : /\ request'[g] = request[g]
                                 /\ Parked(g)' <=> Parked(g)
                                 /\ \A d : RequestHas(g, d)' <=> RequestHas(g, d)
  BY <1>1, OthersKeepRequests
<1>6. fd'[x] = Closed /\ \A y \in Files \ {x} : fd'[y] = fd[y]
  BY <1>1 DEF FileInv, Shapes
<1>7. Shapes'
  BY <1>1, <1>3 DEF FileInv, Shapes
<1>8. RequestsKeepFiles'
  <2> SUFFICES ASSUME NEW g \in Fibers, Parked(g)' PROVE RequestKeepsFile(g)'
    BY DEF RequestsKeepFiles
  <2>1. CASE g = f   BY <1>1, <1>4, <1>5, <2>1 DEF RequestKeepsFile
  <2>2. CASE g # f
    BY <1>1, <1>5, <2>2 DEF FileInv, RequestsKeepFiles, RequestKeepsFile
  <2> QED  BY <2>1, <2>2
<1>9. OpenFilesHavePaths'
  BY <1>1, <1>6 DEF FileInv, OpenFilesHavePaths
<1>10. OwnersInv'
  <2> SUFFICES ASSUME NEW d \in Descriptors
               PROVE  /\ OneOwner(d)' /\ OwnersFile(d)'
                      /\ kernel'[d] # None => SomeOwner(d)'
    BY DEF OwnersInv
  <2>1. OneOwner(d) /\ OwnersFile(d) /\ (kernel[d] # None => SomeOwner(d))
    BY DEF FileInv, OwnersInv
  <2>2. /\ ~FileHas(x, d)' /\ (FileHas(x, d) <=> d = d0)
        /\ \A y \in Files \ {x} : FileHas(y, d)' <=> FileHas(y, d)
    BY <1>6, ClosedIsNoDescriptor DEF FileHas
  <2>3. ~RequestHas(f, d) /\ (RequestHas(f, d)' <=> d = d0)
    BY <1>1, <1>3, <1>4, <1>5 DEF RequestHas, Parked, Done
  <2>4. OneOwner(d)'
    BY <1>5, <2>1, <2>2, <2>3 DEF OneOwner
  <2>5. OwnersFile(d)'
    BY <1>1, <1>4, <1>5, <2>1, <2>2, <2>3 DEF OwnersFile
  <2>6. SomeOwner(d) => SomeOwner(d)'
    BY <1>5, <2>2, <2>3 DEF SomeOwner
  <2> QED  BY <1>1, <2>1, <2>4, <2>5, <2>6
<1>11. OperationsHitTheirFile'
  <2> SUFFICES ASSUME NEW g \in Fibers PROVE HitIsOwn(g)'
    BY DEF OperationsHitTheirFile, HitIsOwn
  <2>1. CASE g = f   BY <1>4, <1>5, <2>1 DEF HitIsOwn
  <2>2. CASE g # f
    <3> SUFFICES ASSUME Parked(g), request[g].hit \notin {None, request[g].path}
                 PROVE  request[g].kind # "close" /\ fd'[request[g].file] # request[g].fd
      BY <1>5, <2>2 DEF HitIsOwn
    <3>1. request[g].kind # "close" /\ fd[request[g].file] # request[g].fd
      BY DEF FileInv, OperationsHitTheirFile
    <3>2. request[g].file \in Files /\ request[g].fd # Closed
      BY DEF FileInv, RequestsKeepFiles, RequestKeepsFile
    <3> QED  BY <1>6, <3>1, <3>2
  <2> QED  BY <2>1, <2>2
<1> QED  BY <1>7, <1>8, <1>9, <1>10, <1>11 DEF FileInv

LEMMA FileInvFinalizeFile ==
  ASSUME FileInv, NEW x \in Files, FinalizeFile(x)
  PROVE  FileInv'
<1>1. /\ fd' = [fd EXCEPT ![x] = Closed] /\ openedPath' = [openedPath EXCEPT ![x] = None]
      /\ kernel' = [d \in Descriptors |-> IF d \in {fd[x]} \ {Closed} THEN None ELSE kernel[d]]
      /\ request' = request /\ content' = content /\ x \notin Held
  BY DEF FinalizeFile, FinalizedDescriptors
<1>2. /\ fd'[x] = Closed /\ openedPath'[x] = None
      /\ \A y \in Files \ {x} : fd'[y] = fd[y] /\ openedPath'[y] = openedPath[y]
      /\ \A d \in Descriptors : kernel'[d] = IF d = fd[x] THEN None ELSE kernel[d]
  BY <1>1, ClosedIsNoDescriptor DEF FileInv, Shapes
<1>3. Shapes'
  BY <1>1 DEF FileInv, Shapes
<1>4. \A g \in Fibers : Parked(g) /\ request[g].kind # "open" =>
        request[g].file \in Files \ {x} /\ request[g].fd # Closed
  BY <1>1 DEF Held, FileInv, RequestsKeepFiles, RequestKeepsFile
<1>5. RequestsKeepFiles'
  <2> SUFFICES ASSUME NEW g \in Fibers, Parked(g)' PROVE RequestKeepsFile(g)'
    BY DEF RequestsKeepFiles
  <2>1. Parked(g) /\ RequestKeepsFile(g)
    BY <1>1 DEF Parked, FileInv, RequestsKeepFiles
  <2> QED  BY <1>1, <1>2, <1>4, <2>1 DEF RequestKeepsFile
<1>6. OpenFilesHavePaths'
  BY <1>2 DEF FileInv, OpenFilesHavePaths
<1>7. OwnersInv'
  <2> SUFFICES ASSUME NEW d \in Descriptors
               PROVE  /\ OneOwner(d)' /\ OwnersFile(d)'
                      /\ kernel'[d] # None => SomeOwner(d)'
    BY DEF OwnersInv
  <2>1. OneOwner(d) /\ OwnersFile(d) /\ (kernel[d] # None => SomeOwner(d))
    BY DEF FileInv, OwnersInv
  <2>2. /\ ~FileHas(x, d)' /\ (FileHas(x, d) <=> d = fd[x])
        /\ \A y \in Files \ {x} : FileHas(y, d)' <=> FileHas(y, d)
    BY <1>2, ClosedIsNoDescriptor DEF FileHas
  <2>3. \A g \in Fibers : RequestHas(g, d)' <=> RequestHas(g, d)
    BY <1>1 DEF RequestHas, Parked, Done
  <2>4. OneOwner(d)'
    BY <2>1, <2>2, <2>3 DEF OneOwner
  <2>5. OwnersFile(d)'
    BY <1>1, <1>2, <2>1, <2>2, <2>3 DEF OwnersFile, OneOwner
  <2>6. kernel'[d] # None => SomeOwner(d)'
    BY <1>2, <2>1, <2>2, <2>3 DEF SomeOwner
  <2> QED  BY <2>4, <2>5, <2>6
<1>8. OperationsHitTheirFile'
  <2> SUFFICES ASSUME NEW g \in Fibers, Parked(g), request[g].hit \notin {None, request[g].path}
               PROVE  request[g].kind # "close" /\ fd'[request[g].file] # request[g].fd
    BY <1>1 DEF OperationsHitTheirFile, Parked
  <2>1. request[g].kind # "close" /\ fd[request[g].file] # request[g].fd
    BY DEF FileInv, OperationsHitTheirFile
  <2>2. request[g].kind # "open"
    BY DEF FileInv, RequestsKeepFiles, RequestKeepsFile
  <2> QED  BY <1>2, <1>4, <2>1, <2>2
<1> QED  BY <1>3, <1>5, <1>6, <1>7, <1>8 DEF FileInv

LEMMA FileInvOpenCompletes ==
  ASSUME FileInv, NEW f \in Fibers, OpenCompletes(f)
  PROVE  FileInv'
<1>1. PICK x \in Files :
        /\ openedPath[x] = None
        /\ fd' = [fd EXCEPT ![x] = request[f].fd]
        /\ openedPath' = [openedPath EXCEPT ![x] = request[f].path]
  BY DEF OpenCompletes
<1>2. /\ request' = [request EXCEPT ![f] = NoRequest]
      /\ UNCHANGED <<kernel, content>> /\ Parked(f) /\ Done(f)
      /\ request[f].kind = "open" /\ request[f].stage = "done"
  BY DEF OpenCompletes, Resume, Done
<1>3. /\ request[f] \in Requests /\ request[f].fd \in Descriptors /\ request[f].path \in Paths
  BY <1>2 DEF FileInv, Shapes, Parked, RequestsKeepFiles, RequestKeepsFile, Requests
<1>4. ~Parked(f)'
      /\ \A g \in Fibers \ {f} : /\ request'[g] = request[g]
                                 /\ Parked(g)' <=> Parked(g)
                                 /\ \A d : RequestHas(g, d)' <=> RequestHas(g, d)
  BY <1>2, OthersKeepRequests DEF Parked
<1>5. /\ fd'[x] = request[f].fd /\ openedPath'[x] = request[f].path /\ fd[x] = Closed
      /\ \A y \in Files \ {x} : fd'[y] = fd[y] /\ openedPath'[y] = openedPath[y]
  BY <1>1 DEF FileInv, Shapes, OpenFilesHavePaths
<1>6. Shapes'
  BY <1>1, <1>2, <1>3 DEF FileInv, Shapes
<1>7. \A g \in Fibers : Parked(g) /\ request[g].kind # "open" => request[g].file \in Files \ {x}
  <2> SUFFICES ASSUME NEW g \in Fibers, Parked(g), request[g].kind # "open"
               PROVE  request[g].file \in Files \ {x}
    OBVIOUS
  <2>1. request[g].file \in Files /\ openedPath[request[g].file] = request[g].path
    BY DEF FileInv, RequestsKeepFiles, RequestKeepsFile
  <2>2. request[g].path \in Paths
    BY DEF FileInv, Shapes, Parked, Requests
  <2> QED  BY <1>1, <2>1, <2>2, FilesAssumption
<1>8. RequestsKeepFiles'
  <2> SUFFICES ASSUME NEW g \in Fibers, Parked(g)' PROVE RequestKeepsFile(g)'
    BY DEF RequestsKeepFiles
  <2>1. g # f /\ Parked(g) /\ RequestKeepsFile(g)
    BY <1>4 DEF FileInv, RequestsKeepFiles
  <2> QED  BY <1>4, <1>5, <1>7, <2>1 DEF RequestKeepsFile
<1>9. OpenFilesHavePaths'
  BY <1>3, <1>5, FilesAssumption DEF FileInv, OpenFilesHavePaths
<1>10. OwnersInv'
  <2> SUFFICES ASSUME NEW d \in Descriptors
               PROVE  /\ OneOwner(d)' /\ OwnersFile(d)'
                      /\ kernel'[d] # None => SomeOwner(d)'
    BY DEF OwnersInv
  <2>1. OneOwner(d) /\ OwnersFile(d) /\ (kernel[d] # None => SomeOwner(d))
    BY DEF FileInv, OwnersInv
  <2>2. /\ ~FileHas(x, d) /\ (FileHas(x, d)' <=> d = request[f].fd)
        /\ \A y \in Files \ {x} : FileHas(y, d)' <=> FileHas(y, d)
    BY <1>5, ClosedIsNoDescriptor DEF FileHas
  <2>3. ~RequestHas(f, d)' /\ (RequestHas(f, d) <=> d = request[f].fd)
    BY <1>2, <1>4 DEF RequestHas
  <2>4. OneOwner(d)'
    BY <1>4, <2>1, <2>2, <2>3 DEF OneOwner
  <2>5. OwnersFile(d)'
    BY <1>2, <1>4, <1>5, <2>1, <2>2, <2>3 DEF OwnersFile
  <2>6. SomeOwner(d) => SomeOwner(d)'
    BY <1>4, <2>2, <2>3 DEF SomeOwner
  <2> QED  BY <1>2, <2>1, <2>4, <2>5, <2>6
<1>11. OperationsHitTheirFile'
  <2> SUFFICES ASSUME NEW g \in Fibers, Parked(g)', request'[g].hit \notin {None, request'[g].path}
               PROVE  request'[g].kind # "close" /\ fd'[request'[g].file] # request'[g].fd
    BY DEF OperationsHitTheirFile
  <2>1. g # f /\ Parked(g) /\ request'[g] = request[g]
    BY <1>4
  <2>2. request[g].kind # "close" /\ fd[request[g].file] # request[g].fd
    BY <2>1 DEF FileInv, OperationsHitTheirFile
  <2>3. request[g].kind # "open"
    BY <2>1 DEF FileInv, RequestsKeepFiles, RequestKeepsFile
  <2> QED  BY <1>5, <1>7, <2>1, <2>2, <2>3
<1> QED  BY <1>6, <1>8, <1>9, <1>10, <1>11 DEF FileInv

LEMMA FileInvOpenSucceeds ==
  ASSUME FileInv, NEW f \in Fibers, Parked(f), request[f].stage = "submitted",
         request[f].kind = "open", NEW d0 \in Descriptors, kernel[d0] = None,
         kernel' = [kernel EXCEPT ![d0] = request[f].path],
         Executed(f, [request[f] EXCEPT !.fd = d0, !.stage = "done"]),
         UNCHANGED <<fd, openedPath, content>>
  PROVE  FileInv'
<1> DEFINE r == [request[f] EXCEPT !.fd = d0, !.stage = "done"]
<1>1. request[f] \in Requests /\ request[f].hit = None
  BY DEF FileInv, Shapes, Parked, RequestsKeepFiles, RequestKeepsFile
<1>2. r \in Requests /\ r # NoRequest
  BY <1>1, NoRequestIsNoRequest DEF Requests
<1>3. /\ r.kind = "open" /\ r.path = request[f].path /\ r.fd = d0
      /\ r.stage = "done" /\ r.hit = None
  BY <1>1 DEF Requests
<1>4. request' = [request EXCEPT ![f] = r]
  BY DEF Executed
<1> HIDE DEF r
<1>5. request'[f] = r
      /\ \A g \in Fibers \ {f} : /\ request'[g] = request[g]
                                 /\ Parked(g)' <=> Parked(g)
                                 /\ \A d : RequestHas(g, d)' <=> RequestHas(g, d)
  BY <1>4, OthersKeepRequests
<1>6. kernel'[d0] = request[f].path /\ \A d \in Descriptors \ {d0} : kernel'[d] = kernel[d]
  BY DEF FileInv, Shapes
<1>7. Shapes'
  BY <1>1, <1>2, <1>4 DEF FileInv, Shapes, Requests
<1>8. RequestsKeepFiles'
  <2> SUFFICES ASSUME NEW g \in Fibers, Parked(g)' PROVE RequestKeepsFile(g)'
    BY DEF RequestsKeepFiles
  <2>1. CASE g = f   BY <1>3, <1>5, <2>1, ClosedIsNoDescriptor DEF RequestKeepsFile
  <2>2. CASE g # f
    BY <1>5, <2>2 DEF FileInv, RequestsKeepFiles, RequestKeepsFile
  <2> QED  BY <2>1, <2>2
<1>9. OpenFilesHavePaths'
  BY DEF FileInv, OpenFilesHavePaths
<1>10. OwnersInv'
  <2> SUFFICES ASSUME NEW d \in Descriptors
               PROVE  /\ OneOwner(d)' /\ OwnersFile(d)'
                      /\ kernel'[d] # None => SomeOwner(d)'
    BY DEF OwnersInv
  <2>1. OneOwner(d) /\ OwnersFile(d) /\ (kernel[d] # None => SomeOwner(d))
    BY DEF FileInv, OwnersInv
  <2>2. \A y : FileHas(y, d)' <=> FileHas(y, d)
    BY DEF FileHas
  <2>3. ~RequestHas(f, d) /\ (RequestHas(f, d)' <=> d = d0)
    BY <1>2, <1>3, <1>5 DEF RequestHas, Parked, Done
  <2>4. ~SomeOwner(d0)
    BY OwnedIsOpen
  <2>5. OneOwner(d)'
    BY <1>5, <2>1, <2>2, <2>3, <2>4 DEF OneOwner, SomeOwner
  <2>6. OwnersFile(d)'
    BY <1>3, <1>5, <1>6, <2>1, <2>2, <2>3, <2>4 DEF OwnersFile, SomeOwner
  <2>7. kernel'[d] # None => SomeOwner(d)'
    BY <1>5, <1>6, <2>1, <2>2, <2>3 DEF SomeOwner
  <2> QED  BY <2>5, <2>6, <2>7
<1>11. OperationsHitTheirFile'
  <2> SUFFICES ASSUME NEW g \in Fibers PROVE HitIsOwn(g)'
    BY DEF OperationsHitTheirFile, HitIsOwn
  <2>1. CASE g = f   BY <1>3, <1>5, <2>1 DEF HitIsOwn
  <2>2. CASE g # f   BY <1>5, <2>2 DEF FileInv, OperationsHitTheirFile, HitIsOwn
  <2> QED  BY <2>1, <2>2
<1> QED  BY <1>7, <1>8, <1>9, <1>10, <1>11 DEF FileInv

LEMMA FileInvExecuteOpen ==
  ASSUME FileInv, NEW f \in Fibers, Parked(f), request[f].stage = "submitted",
         request[f].kind = "open", ExecuteOpen(f), UNCHANGED <<objects, content>>
  PROVE  FileInv'
<1> DEFINE free == {d \in Descriptors : kernel[d] = None}
<1>1. request[f] \in Requests /\ RequestKeepsFile(f)
  BY DEF FileInv, Shapes, Parked, RequestsKeepFiles
<1>2. UNCHANGED <<fd, openedPath, content>>
  BY DEF objects
<1>3. CASE free # {} /\ kernel' = [kernel EXCEPT ![Min(free)] = request[f].path]
           /\ Executed(f, [request[f] EXCEPT !.fd = Min(free), !.stage = "done"])
  <2>1. free \subseteq Nat
    BY DEF Descriptors
  <2>2. Min(free) \in free
    BY <1>3, <2>1, MinIsSmallest
  <2> QED  BY <1>2, <1>3, <2>2, FileInvOpenSucceeds
<1>4. CASE kernel' = kernel /\ Executed(f, [request[f] EXCEPT !.stage = "failed"])
  <2> DEFINE r == [request[f] EXCEPT !.stage = "failed"]
  <2>1. r \in Requests
    BY <1>1 DEF Requests
  <2>2. r.kind = "open" /\ r.fd = Closed /\ r.stage = "failed" /\ r.hit = None
    BY <1>1 DEF Requests, RequestKeepsFile
  <2>3. request' = [request EXCEPT ![f] = r]
    BY <1>4 DEF Executed
  <2> HIDE DEF r
  <2>4. request'[f] = r
    BY <2>3 DEF FileInv, Shapes
  <2>5. \A d \in Descriptors : ~RequestHas(f, d) /\ ~RequestHas(f, d)'
    BY <2>2, <2>4, ClosedIsNoDescriptor DEF RequestHas, Done
  <2>6. RequestKeepsFile(f)' /\ HitIsOwn(f)'
    BY <2>2, <2>4 DEF RequestKeepsFile, HitIsOwn
  <2>7. content' \in [Paths -> Seq(Fibers)] /\ \A p \in Paths : Len(content'[p]) <= MaxLength
    BY <1>2 DEF FileInv, Shapes
  <2> QED  BY <1>2, <1>4, <2>1, <2>3, <2>5, <2>6, <2>7, OneRequestChanges
<1> QED  BY <1>3, <1>4 DEF ExecuteOpen

LEMMA FileInvExecuteClose ==
  ASSUME FileInv, NEW f \in Fibers, Parked(f), request[f].stage = "submitted",
         request[f].kind = "close", ExecuteClose(f), UNCHANGED <<objects, content>>
  PROVE  FileInv'
<1> DEFINE d0 == request[f].fd
           r == [request[f] EXCEPT !.stage = "done", !.hit = kernel[d0]]
<1>1. /\ request[f] \in Requests /\ request[f].file \in Files /\ d0 \in Descriptors
      /\ openedPath[request[f].file] = request[f].path
  BY ClosedIsNoDescriptor
  DEF FileInv, Shapes, Parked, RequestsKeepFiles, RequestKeepsFile, Requests
<1>2. RequestHas(f, d0)
  BY DEF RequestHas, Done
<1>3. kernel[d0] = request[f].path /\ kernel[d0] # None
  BY <1>1, <1>2, FilesAssumption DEF FileInv, OwnersInv, OwnersFile, Requests
<1>4. request' = [request EXCEPT ![f] = r]
  BY <1>3 DEF ExecuteClose, Executed
<1>5. r \in Requests
  BY <1>1, <1>3 DEF Requests
<1>6. /\ r.kind = "close" /\ r.file = request[f].file /\ r.path = request[f].path
      /\ r.fd = d0 /\ r.stage = "done" /\ r.hit = r.path
  BY <1>1, <1>3 DEF Requests
<1> HIDE DEF r
<1>7. request'[f] = r
      /\ \A g \in Fibers \ {f} : /\ request'[g] = request[g]
                                 /\ Parked(g)' <=> Parked(g)
                                 /\ \A d : RequestHas(g, d)' <=> RequestHas(g, d)
  BY <1>4, OthersKeepRequests
<1>8. /\ kernel' = [kernel EXCEPT ![d0] = None] /\ UNCHANGED <<fd, openedPath, content>>
      /\ kernel'[d0] = None /\ \A d \in Descriptors \ {d0} : kernel'[d] = kernel[d]
  BY <1>1 DEF ExecuteClose, objects, FileInv, Shapes
<1>9. Shapes'
  BY <1>4, <1>5, <1>8 DEF FileInv, Shapes
<1>10. RequestsKeepFiles'
  <2> SUFFICES ASSUME NEW g \in Fibers, Parked(g)' PROVE RequestKeepsFile(g)'
    BY DEF RequestsKeepFiles
  <2>1. CASE g = f   BY <1>1, <1>6, <1>7, <1>8, <2>1, ClosedIsNoDescriptor DEF RequestKeepsFile
  <2>2. CASE g # f
    BY <1>7, <1>8, <2>2 DEF FileInv, RequestsKeepFiles, RequestKeepsFile
  <2> QED  BY <2>1, <2>2
<1>11. OpenFilesHavePaths'
  BY <1>8 DEF FileInv, OpenFilesHavePaths
<1>12. OwnersInv'
  <2> SUFFICES ASSUME NEW d \in Descriptors
               PROVE  /\ OneOwner(d)' /\ OwnersFile(d)'
                      /\ kernel'[d] # None => SomeOwner(d)'
    BY DEF OwnersInv
  <2>1. OneOwner(d) /\ OwnersFile(d) /\ (kernel[d] # None => SomeOwner(d))
    BY DEF FileInv, OwnersInv
  <2>2. \A y : FileHas(y, d)' <=> FileHas(y, d)
    BY <1>8 DEF FileHas
  <2>3. ~RequestHas(f, d)' /\ (RequestHas(f, d) <=> d = d0)
    BY <1>2, <1>6, <1>7 DEF RequestHas, Parked, Done
  <2>4. OneOwner(d)'
    BY <1>7, <2>1, <2>2, <2>3 DEF OneOwner
  <2>5. CASE d = d0
    <3>1. \A y \in Files : ~FileHas(y, d)
      BY <2>1, <2>3, <2>5 DEF OneOwner
    <3>2. \A g \in Fibers : ~RequestHas(g, d)'
      BY <1>7, <2>1, <2>3, <2>5 DEF OneOwner
    <3> QED  BY <1>8, <2>2, <2>4, <2>5, <3>1, <3>2 DEF OwnersFile
  <2>6. CASE d # d0
    <3>1. OwnersFile(d)'
      BY <1>7, <1>8, <2>1, <2>2, <2>3, <2>6 DEF OwnersFile
    <3>2. SomeOwner(d) => SomeOwner(d)'
      BY <1>7, <2>2, <2>3, <2>6 DEF SomeOwner
    <3> QED  BY <1>8, <2>1, <2>4, <2>6, <3>1, <3>2
  <2> QED  BY <2>5, <2>6
<1>13. OperationsHitTheirFile'
  <2> SUFFICES ASSUME NEW g \in Fibers PROVE HitIsOwn(g)'
    BY DEF OperationsHitTheirFile, HitIsOwn
  <2>1. CASE g = f   BY <1>6, <1>7, <2>1 DEF HitIsOwn
  <2>2. CASE g # f   BY <1>7, <1>8, <2>2 DEF FileInv, OperationsHitTheirFile, HitIsOwn
  <2> QED  BY <2>1, <2>2
<1> QED  BY <1>9, <1>10, <1>11, <1>12, <1>13 DEF FileInv

-----------------------------------------------------------------------------
LEMMA FileInvNext == FileInv /\ [Next]_vars => FileInv'
<1> SUFFICES ASSUME FileInv, [Next]_vars PROVE FileInv'
  OBVIOUS
<1>1. ASSUME NEW f \in Fibers, NEW p \in Paths, OpenFile(f, p) PROVE FileInv'
  BY <1>1, FileInvOpenFile
<1>2. ASSUME NEW f \in Fibers, NEW x \in Files, AppendBytes(f, x) \/ ReadBytes(f, x)
      PROVE  FileInv'
  BY <1>2, FileInvAppendOrRead
<1>3. ASSUME NEW f \in Fibers, NEW x \in Files, CloseFile(f, x) PROVE FileInv'
  BY <1>3, FileInvCloseFile
<1>4. ASSUME NEW f \in Fibers, Execute(f) PROVE FileInv'
  <2>1. CASE request[f].kind = "open" /\ ExecuteOpen(f) /\ UNCHANGED content
    BY <1>4, <2>1, FileInvExecuteOpen DEF Execute
  <2>2. CASE request[f].kind = "close" /\ ExecuteClose(f) /\ UNCHANGED content
    BY <1>4, <2>2, FileInvExecuteClose DEF Execute
  <2>3. CASE /\ request[f].kind \in {"size", "read", "write"}
             /\ ExecuteOnDescriptor(f) /\ UNCHANGED kernel
    BY <1>4, <2>3, FileInvExecuteOnDescriptor DEF Execute
  <2> QED  BY <1>4, <2>1, <2>2, <2>3 DEF Execute
<1>5. ASSUME NEW f \in Fibers, OpenCompletes(f) PROVE FileInv'
  BY <1>5, FileInvOpenCompletes
<1>6. ASSUME NEW f \in Fibers, SizeCompletes(f) PROVE FileInv'
  BY <1>6, FileInvSizeCompletes
<1>7. ASSUME NEW f \in Fibers, OtherCompletes(f) \/ RequestFails(f) PROVE FileInv'
  BY <1>7, FileInvOtherCompletes
<1>8. ASSUME NEW x \in Files, FinalizeFile(x) PROVE FileInv'
  BY <1>8, FileInvFinalizeFile
<1>9. CASE UNCHANGED vars
  BY <1>9 DEF vars, objects, FileInv, Shapes, RequestsKeepFiles, RequestKeepsFile,
              OpenFilesHavePaths, OwnersInv, OneOwner, OwnersFile, SomeOwner, FileHas,
              RequestHas, OperationsHitTheirFile, Parked, Done
<1> QED
  BY <1>1, <1>2, <1>3, <1>4, <1>5, <1>6, <1>7, <1>8, <1>9 DEF Next

LEMMA FileInvAlways == Spec => []FileInv
BY FileInvInit, FileInvNext, PTL DEF Spec

(* The set of owners that the run counts is that of OneOwner.              *)
LEMMA OwnersAreCounted == FileInv => DescriptorsOwned
<1> SUFFICES ASSUME FileInv, NEW d \in Descriptors
             PROVE  Cardinality(Owners(d)) = (IF kernel[d] = None THEN 0 ELSE 1)
  BY DEF DescriptorsOwned
<1>1. Owners(d) = {x \in Files : FileHas(x, d)} \cup {f \in Fibers : RequestHas(f, d)}
  BY DEF Owners, FileHas, RequestHas
<1>2. CASE kernel[d] = None
  <2>1. ~SomeOwner(d)
    BY <1>2, OwnedIsOpen
  <2>2. Owners(d) = {}
    BY <1>1, <2>1 DEF SomeOwner
  <2> QED  BY <1>2, <2>2, FS_EmptySet
<1>3. CASE kernel[d] # None
  <2>1. SomeOwner(d) /\ OneOwner(d)
    BY <1>3 DEF FileInv, OwnersInv
  <2>2. \E o : Owners(d) = {o}
    BY <1>1, <2>1 DEF SomeOwner, OneOwner
  <2> QED  BY <1>3, <2>2, FS_Singleton
<1> QED  BY <1>2, <1>3

(* No file descriptor leaks, and none is closed twice, whoever opens,      *)
(* closes and drops Files while requests are in flight (fileClose,         *)
(* fileFinalize).                                                          *)
THEOREM DescriptorsOwnedAlways == Spec => []DescriptorsOwned
BY FileInvAlways, OwnersAreCounted, PTL

(* An operation on a descriptor that is no longer its File's may find      *)
(* another file, any other operation finds its own (fileReadBytes,         *)
(* fileWriteBytes, fileSize, fileClose).                                   *)
THEOREM OperationsHitTheirFileAlways == Spec => []OperationsHitTheirFile
<1>1. FileInv => OperationsHitTheirFile
  BY DEF FileInv
<1> QED  BY <1>1, FileInvAlways, PTL

(* Requests are about Files that exist, and no descriptor is submitted     *)
(* that was Closed: ensureOpen_ is asked each time before it is used.      *)
THEOREM FileTypeCorrect == Spec => []TypeOK
<1>1. FileInv => TypeOK
  <2> SUFFICES ASSUME FileInv PROVE TypeOK
    OBVIOUS
  <2>1. ASSUME NEW f \in Fibers, Parked(f)
        PROVE  /\ request[f].kind \in Kinds /\ request[f].fd \in Descriptors \cup {Closed}
               /\ request[f].kind # "open" => request[f].fd # Closed
               /\ request[f].stage \in {"submitted", "done", "failed"}
               /\ request[f].offset \in 0 .. MaxLength
    <3>1. request[f] \in Requests
      BY <2>1 DEF FileInv, Shapes, Parked
    <3> QED  BY <2>1, <3>1 DEF FileInv, RequestsKeepFiles, RequestKeepsFile, Requests
  <2> QED  BY <2>1 DEF FileInv, Shapes, TypeOK
<1> QED  BY <1>1, FileInvAlways, PTL

=============================================================================
