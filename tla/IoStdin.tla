------------------------------ MODULE IoStdin ------------------------------
(***************************************************************************)
(* Standard input of the command line host: the Stdin class of io.wren and *)
(* the stream and callbacks of io.c.                                       *)
(*                                                                         *)
(* Stdin keeps one buffer, one waiting fiber and one data handler for the  *)
(* whole program.  A fiber that cannot be served from the buffer starts    *)
(* the stream and parks; each chunk that libuv reads is given to onData_,  *)
(* which asks the handler for a result and resumes the waiting fiber.      *)
(*                                                                         *)
(* Fibers run one at a time and park only in Read, so a read, and a        *)
(* callback up to the fiber it resumes, are single steps.  Bytes are       *)
(* abstracted to "nl", the line separator, "lead" and "cont", the two      *)
(* bytes of a character that is not ASCII, and "c", any other character.   *)
(***************************************************************************)
EXTENDS Naturals, Sequences, FiniteSets, SequencesExt, FiniteSetsExt

CONSTANTS
  Readers,     (* The fibers that read from stdin.                         *)
  NoReader,    (* Wren's null.                                             *)
  MaxInput,    (* Bound on the bytes that arrive on stdin.                 *)
  MaxChunk,    (* Bound on the bytes of one read callback.                 *)
  MultiByte    (* Whether the input has characters that are not ASCII.     *)

ASSUME ReadersAssumption == NoReader \notin Readers
ASSUME InputAssumption ==
  MaxInput \in Nat /\ MaxChunk \in Nat /\ MultiByte \in BOOLEAN

VARIABLES
  stream,        (* stdinStream is not NULL.                               *)
  reading,       (* uv_read_start is in effect.                            *)
  hasBuffer,     (* __buffered is not null.                                *)
  buffered,      (* The bytes of __buffered.                               *)
  isClosed,      (* __isClosed                                             *)
  handleData,    (* The operation whose handler is in __handleData.        *)
  waitingFiber,  (* __waitingFiber                                         *)
  parked,        (* The readers that are suspended in read_.               *)
  outcome,       (* The last read of each reader, and what it came to.     *)
  input,         (* Ghost: the bytes that have arrived.                    *)
  output         (* Ghost: the bytes that the reads have consumed.         *)

buffer == <<hasBuffer, buffered, output>>
vars == <<stream, reading, buffer, isClosed, handleData, waitingFiber, parked,
          outcome, input>>

InputBytes == {"c", "nl"} \cup (IF MultiByte THEN {"lead", "cont"} ELSE {})

(* The bytes of a string; "junk" was never written. *)
Bytes == {"c", "nl", "lead", "cont", "junk"}
Operations == {"readByte", "readLine"}
Chunks == SeqOf(InputBytes, MaxChunk)

(* The input is UTF-8, although a chunk may end inside a character. *)
IsUtf8(bytes) ==
  \A i \in DOMAIN bytes :
    /\ bytes[i] = "cont" => i > 1 /\ bytes[i - 1] = "lead"
    /\ i > 1 /\ bytes[i - 1] = "lead" => bytes[i] = "cont"

(* A read: the operation, and what it came to: the bytes of its value, or  *)
(* the abort of its fiber.                                                 *)
Outcome(op, kind, value) == [op |-> op, kind |-> kind, value |-> value]
Pending(op) == Outcome(op, "none", <<>>)
Closed(op) == Outcome(op, "closed", <<>>)

TypeOK ==
  /\ stream \in BOOLEAN /\ reading \in BOOLEAN
  /\ hasBuffer \in BOOLEAN /\ buffered \in Seq(Bytes)
  /\ ~hasBuffer => buffered = <<>>
  /\ isClosed \in BOOLEAN
  /\ handleData \in Operations \cup {"none"}
  /\ waitingFiber \in Readers \cup {NoReader}
  /\ parked \in SUBSET Readers
  /\ \A r \in Readers : /\ outcome[r].op \in Operations \cup {"none"}
                        /\ outcome[r].kind \in {"none", "value", "closed"}
                        /\ outcome[r].value \in Seq(Bytes)

Init ==
  /\ stream = FALSE /\ reading = FALSE
  /\ hasBuffer = FALSE /\ buffered = <<>> /\ isClosed = FALSE
  /\ handleData = "none" /\ waitingFiber = NoReader
  /\ parked = {}
  /\ outcome = [r \in Readers |-> Pending("none")]
  /\ input = <<>> /\ output = <<>>

-----------------------------------------------------------------------------
(* The data handlers of readByte and readLine: how many bytes of the       *)
(* buffer the result takes, separator included; 0 for no result yet.  The  *)
(* handler of readByte is never called with an empty buffer here.          *)
Consumed(op, bytes) ==
  CASE op = "readByte" -> 1
    [] op = "readLine" /\ Contains(bytes, "nl") -> SelectInSeq(bytes, LAMBDA b : b = "nl")
    [] OTHER -> 0

(* string[range]: wrenNewStringFromRange copies the characters that start  *)
(* in the range.  It skips the rest of one that starts before it, and      *)
(* makes room for one that is not complete without writing it.             *)
Slice(bytes) ==
  LET Is(i, byte) == i \in DOMAIN bytes /\ bytes[i] = byte
      copied(i) == CASE Is(i, "lead") -> Is(i + 1, "cont")
                     [] Is(i, "cont") -> Is(i - 1, "lead")
                     [] OTHER -> TRUE
      broken == {i \in DOMAIN bytes : Is(i, "lead") /\ ~copied(i)}
      kept   == SetToSortSeq({i \in DOMAIN bytes : copied(i)}, <)
  IN IF \A i \in DOMAIN bytes : copied(i) THEN bytes
     ELSE [k \in DOMAIN kept |-> bytes[kept[k]]]
            \o [k \in 1 .. 2 * Cardinality(broken) |-> "junk"]

(* The value that the handler returns for n bytes of the buffer. *)
Result(op, bytes, n) ==
  IF op = "readLine" THEN Slice(SubSeq(bytes, 1, n - 1)) ELSE SubSeq(bytes, 1, n)

(* Bytes leave the buffer, by the handler of op, for the read that the     *)
(* reader r made for asked; r goes on.                                     *)
Serve(r, op, asked, bytes) ==
  LET n    == Consumed(op, bytes)
      line == IF op = "readLine" THEN <<"nl">> ELSE <<>>
  IN /\ outcome' = [outcome EXCEPT ![r] = Outcome(asked, "value", Result(op, bytes, n))]
     /\ hasBuffer' = TRUE
     /\ buffered' = Slice(SubSeq(bytes, n + 1, Len(bytes)))
     /\ output' = output \o Result(op, bytes, n) \o line

(* initStdin, in isTerminal, isRaw= and readStart_ *)
InitStdin ==
  /\ ~stream /\ stream' = TRUE
  /\ UNCHANGED <<reading, buffer, isClosed, handleData, waitingFiber, parked,
                 outcome, input>>

(* read_, when the buffer has a result already. *)
ReadBuffered(r, op) ==
  /\ r \notin parked
  /\ buffered # <<>> /\ Consumed(op, buffered) > 0
  /\ Serve(r, op, op, buffered)
  /\ UNCHANGED <<stream, reading, isClosed, handleData, waitingFiber, parked, input>>

(* read_ goes on to wait when the buffer has no result. *)
MustWait(op) == buffered = <<>> \/ Consumed(op, buffered) = 0

(* read_, after stdin was closed. *)
ReadClosed(r, op) ==
  /\ r \notin parked /\ MustWait(op) /\ isClosed
  /\ outcome' = [outcome EXCEPT ![r] = Closed(op)]
  /\ UNCHANGED <<stream, reading, buffer, isClosed, handleData, waitingFiber,
                 parked, input>>

(* Mutation: the fiber that waited before is remembered.                   *)
ParkedPrevious(r) == parked \cup {waitingFiber}

(* The readers that wait, once r does. *)
Parked(r) == parked \cup {r}

(* Mutation: the handler of a fiber that waits already is kept.            *)
HandlerOnce(op) == IF waitingFiber \in parked THEN handleData ELSE op

(* The handler is the one of the fiber that waits last. *)
Handler(op) == op

(* read_: start the stream and park. *)
ReadWaits(r, op) ==
  /\ r \notin parked /\ MustWait(op) /\ ~isClosed
  /\ handleData' = Handler(op)
  /\ stream' = TRUE /\ reading' = TRUE
  /\ waitingFiber' = r
  /\ parked' = Parked(r)
  /\ outcome' = [outcome EXCEPT ![r] = Pending(op)]
  /\ UNCHANGED <<buffer, isClosed, input>>

(* Mutation: the resumed reader does not stop the stream.                  *)
DataServesStreaming(bytes) ==
  /\ Serve(waitingFiber, handleData, outcome[waitingFiber].op, bytes)
  /\ parked' = parked \ {waitingFiber}
  /\ UNCHANGED reading

(* onData_(data), for a result: the waiting fiber goes on in read_, which  *)
(* stops the stream.                                                       *)
DataServes(bytes) ==
  /\ Serve(waitingFiber, handleData, outcome[waitingFiber].op, bytes)
  /\ parked' = parked \ {waitingFiber}
  /\ reading' = FALSE

(* Mutation: data replaces what is in the buffer.                          *)
AppendedReplaces(chunk) == chunk

(* onData_ appends the data to what is in the buffer. *)
Appended(chunk) == buffered \o chunk

(* stdinReadCallback with numRead >= 0.  An empty chunk makes the handler  *)
(* of readByte fail ("Subscript out of bounds."), which nobody looks at.   *)
StdinRead(chunk) ==
  /\ reading
  /\ Len(input) + Len(chunk) <= MaxInput /\ IsUtf8(input \o chunk)
  /\ input' = input \o chunk
  /\ IF Appended(chunk) # <<>> /\ Consumed(handleData, Appended(chunk)) > 0
     THEN DataServes(Appended(chunk))
     ELSE /\ hasBuffer' = TRUE /\ buffered' = Appended(chunk)
          /\ UNCHANGED <<output, outcome, parked, reading>>
  /\ UNCHANGED <<stream, isClosed, handleData, waitingFiber>>

(* Mutation: the stream is left running.                                   *)
ReadingAfterEofKept == reading

(* onData_(null) and the resumed reader stop the stream. *)
ReadingAfterEof == FALSE

(* Mutation: only readers with bytes in the buffer are resumed at the end. *)
ParkedAfterEofUnresumed == IF hasBuffer THEN parked \ {waitingFiber} ELSE parked

(* onData_(null) resumes the waiting fiber, whichever it is. *)
ParkedAfterEof == parked \ {waitingFiber}

(* stdinReadCallback with UV_EOF: onData_(null) gives the waiting fiber    *)
(* what is left in the buffer, or an error if there is no buffer; then     *)
(* shutdownStdin.                                                          *)
StdinEof ==
  /\ reading
  /\ isClosed' = TRUE
  /\ outcome' = [outcome EXCEPT ![waitingFiber] =
                   IF hasBuffer THEN Outcome(@.op, "value", buffered) ELSE Closed(@.op)]
  /\ hasBuffer' = FALSE /\ buffered' = <<>>
  /\ output' = output \o buffered
  /\ parked' = ParkedAfterEof
  /\ reading' = ReadingAfterEof
  /\ stream' = FALSE
  /\ UNCHANGED <<handleData, waitingFiber, input>>

Next ==
  \/ InitStdin
  \/ \E r \in Readers, op \in Operations :
       ReadBuffered(r, op) \/ ReadClosed(r, op) \/ ReadWaits(r, op)
  \/ \E chunk \in Chunks : StdinRead(chunk)
  \/ StdinEof

Spec == Init /\ [][Next]_vars

(* The other end of stdin is closed at some time, if the stream is read    *)
(* again and again.                                                        *)
FairSpec == Spec /\ SF_vars(StdinEof)

-----------------------------------------------------------------------------
(* No byte of stdin is lost, duplicated or reordered between the chunks of *)
(* libuv, the buffer and the reads, whichever fibers make them.  (Only if  *)
(* the input is ASCII: see MultiByte.)                                     *)
InputInOrder == input = output \o buffered

(* The stream runs exactly while somebody will take its next chunk: the    *)
(* waiting fiber is parked, the handler is set, and the buffer has no      *)
(* result for it already.                                                  *)
ReadingForTheWaiter ==
  reading => /\ stream /\ ~isClosed
             /\ waitingFiber \in parked /\ handleData # "none"
             /\ MustWait(handleData)

(* A read returns what it was asked for, whoever read in between and       *)
(* however the stream was cut or ended: a line has no separator in it, a   *)
(* byte is at most one byte (none at the end, see README).                 *)
ResultsFit ==
  \A r \in Readers :
    /\ outcome[r].op = "readLine" => ~Contains(outcome[r].value, "nl")
    /\ outcome[r].op = "readByte" => Len(outcome[r].value) <= 1

(* "Blocks the current fiber until a full line of input has been received."*)
(* (modules/io/stdin.markdown): the fiber that waits goes on some time,    *)
(* with a result, or at the latest when stdin is closed, unless another    *)
(* reader takes its place as the waiting fiber.                            *)
WaiterGoesOn ==
  \A r \in Readers :
    r \in parked /\ r = waitingFiber ~> r \notin parked \/ r # waitingFiber

=============================================================================
