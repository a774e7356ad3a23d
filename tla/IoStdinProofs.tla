---------------------------- MODULE IoStdinProofs ----------------------------
(***************************************************************************)
(* Standard input for any number of readers, any input and chunks of any   *)
(* length, if the input is ASCII: the bytes stay in order, the stream runs *)
(* for the waiting fiber, and reads get what they asked for.               *)
(***************************************************************************)
EXTENDS IoStdin, SmallestNatural, SequenceTheorems, TLAPS

Ascii == {"c", "nl"}

Outcomes == [op : Operations \cup {"none"}, kind : {"none", "value", "closed"}, value : Seq(Ascii)]

Shapes ==
  /\ stream \in BOOLEAN /\ reading \in BOOLEAN /\ hasBuffer \in BOOLEAN
  /\ isClosed \in BOOLEAN
  /\ buffered \in Seq(Ascii) /\ input \in Seq(Ascii) /\ output \in Seq(Ascii)
  /\ ~hasBuffer => buffered = <<>>
  /\ handleData \in Operations \cup {"none"}
  /\ waitingFiber \in Readers \cup {NoReader}
  /\ parked \in SUBSET Readers
  /\ outcome \in [Readers -> Outcomes]

(* The handler is the one of the read that the waiting fiber made.         *)
HandlerOfTheWaiter == reading => outcome[waitingFiber].op = handleData

StdinInv ==
  /\ Shapes /\ HandlerOfTheWaiter
  /\ InputInOrder /\ ReadingForTheWaiter /\ ResultsFit

LEMMA StdinInvInit == Init => StdinInv
<1> SUFFICES ASSUME Init PROVE StdinInv
  OBVIOUS
<1>1. <<>> \in Seq(Ascii) /\ <<>> \o <<>> = <<>> /\ Len(<<>>) = 0
  BY EmptySeq, ConcatEmptySeq
<1>2. Pending("none") \in Outcomes /\ Pending("none").op = "none"
  BY <1>1 DEF Pending, Outcome, Outcomes
<1>3. \A r \in Readers : outcome[r].op = "none"
  BY <1>2 DEF Init
<1>4. Shapes
  BY <1>1, <1>2 DEF Init, Shapes
<1>5. HandlerOfTheWaiter /\ ReadingForTheWaiter
  BY DEF Init, HandlerOfTheWaiter, ReadingForTheWaiter
<1>6. ResultsFit
  BY <1>3 DEF ResultsFit
<1> QED  BY <1>1, <1>4, <1>5, <1>6 DEF Init, InputInOrder, StdinInv

-----------------------------------------------------------------------------
(* ASCII characters are bytes: a range copies all that is in it.           *)
LEMMA SliceOfAscii ==
  ASSUME NEW bytes \in Seq(Ascii)
  PROVE  Slice(bytes) = bytes
<1>1. \A i \in DOMAIN bytes : bytes[i] # "lead" /\ bytes[i] # "cont"
  <2>1. \A i \in DOMAIN bytes : bytes[i] \in Ascii
    BY LenProperties, ElementOfSeq
  <2> QED  BY <2>1 DEF Ascii
<1> QED  BY <1>1 DEF Slice

(* The handlers take the first byte, or what ends with the first separator.*)
LEMMA ConsumedBytes ==
  ASSUME NEW bytes \in Seq(Ascii), bytes # <<>>, NEW op \in Operations,
         Consumed(op, bytes) > 0
  PROVE  LET n == Consumed(op, bytes)
         IN  /\ n \in 1 .. Len(bytes)
             /\ op = "readByte" => n = 1
             /\ op = "readLine" => /\ bytes[n] = "nl"
                                   /\ \A i \in 1 .. n - 1 : bytes[i] # "nl"
<1> DEFINE n == Consumed(op, bytes)
<1>1. Len(bytes) \in Nat \ {0}
  BY EmptySeq
<1>2. CASE op = "readByte"
  <2>1. n = 1
    BY <1>2 DEF Consumed
  <2> QED  BY <1>1, <1>2, <2>1
<1>3. CASE op = "readLine"
  <2> DEFINE places == {i \in 1 .. Len(bytes) : bytes[i] = "nl"}
  <2>1. Contains(bytes, "nl")
    BY <1>3 DEF Consumed
  <2>2. places # {} /\ places \subseteq Nat
    BY <1>1, <2>1 DEF Contains
  <2>3. n = SelectInSeq(bytes, LAMBDA b : b = "nl")
    BY <1>3, <2>1 DEF Consumed
  <2>4. n = Min(places)
    BY <2>2, <2>3 DEF SelectInSeq
  <2>5. n \in places /\ \A i \in places : n <= i
    BY <2>2, <2>4, MinIsSmallest
  <2> HIDE DEF n
  <2>6. \A i \in 1 .. n - 1 : i \in 1 .. Len(bytes) /\ i < n
    BY <1>1, <2>5
  <2>7. \A i \in 1 .. n - 1 : i \notin places
    BY <1>1, <2>5, <2>6
  <2> QED  BY <1>3, <2>5, <2>6, <2>7 DEF n
<1> QED  BY <1>2, <1>3 DEF Operations

(* What is left, and what was taken with its separator, are the bytes.     *)
LEMMA ServedBytes ==
  ASSUME NEW bytes \in Seq(Ascii), bytes # <<>>, NEW op \in Operations,
         Consumed(op, bytes) > 0
  PROVE  LET n     == Consumed(op, bytes)
             value == Result(op, bytes, n)
             line  == IF op = "readLine" THEN <<"nl">> ELSE <<>>
             rest  == Slice(SubSeq(bytes, n + 1, Len(bytes)))
         IN  /\ value \in Seq(Ascii) /\ rest \in Seq(Ascii) /\ line \in Seq(Ascii)
             /\ (value \o line) \o rest = bytes
             /\ op = "readLine" => ~Contains(value, "nl")
             /\ op = "readByte" => Len(value) <= 1
             /\ \A i \in 1 .. Len(rest) : rest[i] = bytes[n + i]
             /\ Len(rest) = Len(bytes) - n /\ n \in 1 .. Len(bytes)
<1> DEFINE n     == Consumed(op, bytes)
           value == Result(op, bytes, n)
           line  == IF op = "readLine" THEN <<"nl">> ELSE <<>>
           taken == SubSeq(bytes, 1, n)
           rest  == Slice(SubSeq(bytes, n + 1, Len(bytes)))
<1>1. /\ n \in 1 .. Len(bytes) /\ Len(bytes) \in Nat
      /\ op = "readByte" => n = 1
      /\ op = "readLine" => bytes[n] = "nl" /\ \A i \in 1 .. n - 1 : bytes[i] # "nl"
  BY ConsumedBytes, LenProperties
<1> HIDE DEF n
<1>2. \A i \in 1 .. Len(bytes) : bytes[i] \in Ascii
  BY ElementOfSeq
<1>3. /\ SubSeq(bytes, n + 1, Len(bytes)) \in Seq(Ascii)
      /\ Len(SubSeq(bytes, n + 1, Len(bytes))) = Len(bytes) - n
      /\ \A i \in 1 .. Len(bytes) - n : SubSeq(bytes, n + 1, Len(bytes))[i] = bytes[n + i]
  <2>1. \A i \in n + 1 .. Len(bytes) : bytes[i] \in Ascii
    BY <1>1, <1>2
  <2>2. n + 1 \in Int /\ Len(bytes) \in Int /\ Len(bytes) - (n + 1) + 1 = Len(bytes) - n
    BY <1>1
  <2>3. \A i \in 1 .. Len(bytes) - n : (n + 1) + i - 1 = n + i
    BY <1>1
  <2>4. /\ SubSeq(bytes, n + 1, Len(bytes)) \in Seq(Ascii)
        /\ Len(SubSeq(bytes, n + 1, Len(bytes))) =
             IF n + 1 <= Len(bytes) THEN Len(bytes) - (n + 1) + 1 ELSE 0
        /\ \A i \in 1 .. Len(bytes) - (n + 1) + 1 :
             SubSeq(bytes, n + 1, Len(bytes))[i] = bytes[(n + 1) + i - 1]
    BY <2>1, <2>2, SubSeqProperties
  <2>5. Len(SubSeq(bytes, n + 1, Len(bytes))) = Len(bytes) - n
    BY <1>1, <2>4
  <2>6. \A i \in 1 .. Len(bytes) - n : SubSeq(bytes, n + 1, Len(bytes))[i] = bytes[n + i]
    BY <2>2, <2>3, <2>4
  <2> QED  BY <2>4, <2>5, <2>6
<1>4. rest = SubSeq(bytes, n + 1, Len(bytes))
  BY <1>3, SliceOfAscii
<1>5. /\ taken \in Seq(Ascii) /\ SubSeq(bytes, 1, n - 1) \in Seq(Ascii)
      /\ Len(taken) = n
      /\ Len(SubSeq(bytes, 1, n - 1)) = n - 1
      /\ \A i \in 1 .. n - 1 : SubSeq(bytes, 1, n - 1)[i] = bytes[i]
  <2>1. /\ \A i \in 1 .. n : bytes[i] \in Ascii
        /\ \A i \in 1 .. n - 1 : bytes[i] \in Ascii
    BY <1>1, <1>2
  <2>2. taken \in Seq(Ascii) /\ Len(taken) = IF 1 <= n THEN n - 1 + 1 ELSE 0
    BY <1>1, <2>1, SubSeqProperties
  <2>3. /\ SubSeq(bytes, 1, n - 1) \in Seq(Ascii)
        /\ Len(SubSeq(bytes, 1, n - 1)) = IF 1 <= n - 1 THEN (n - 1) - 1 + 1 ELSE 0
        /\ \A i \in 1 .. (n - 1) - 1 + 1 : SubSeq(bytes, 1, n - 1)[i] = bytes[1 + i - 1]
    BY <1>1, <2>1, SubSeqProperties
  <2> QED  BY <1>1, <2>2, <2>3
<1>6. taken \o rest = bytes
  <2>1. taken \o SubSeq(bytes, n + 1, Len(bytes)) = SubSeq(bytes, 1, Len(bytes))
    BY <1>1, ConcatAdjacentSubSeq
  <2> QED  BY <1>4, <2>1, SubSeqFull
<1>7. <<"nl">> \in Seq(Ascii) /\ <<>> \in Seq(Ascii)
  <2>1. "nl" \in Ascii
    BY DEF Ascii
  <2> QED  BY <2>1
<1>8. CASE op = "readLine"
  <2>1. value = SubSeq(bytes, 1, n - 1) /\ line = <<"nl">>
    BY <1>5, <1>8, SliceOfAscii DEF Result
  <2>2. taken = value \o line
    BY <1>1, <1>8, <2>1, SubSeqRecursiveSecond
  <2>3. ~Contains(value, "nl")
    BY <1>1, <1>5, <1>8, <2>1 DEF Contains
  <2>4. line \in Seq(Ascii)
    BY <1>7, <2>1
  <2> QED  BY <1>1, <1>3, <1>4, <1>5, <1>6, <1>8, <2>1, <2>2, <2>3, <2>4 DEF n
<1>9. CASE op = "readByte"
  <2>1. value = taken /\ line = <<>> /\ Len(value) = 1
    BY <1>1, <1>5, <1>9 DEF Result
  <2>2. value \o line = taken
    BY <1>5, <2>1, ConcatEmptySeq
  <2>3. line \in Seq(Ascii)
    BY <1>7, <2>1
  <2> HIDE DEF value, line, taken, rest
  <2>4. value \in Seq(Ascii)
    BY <1>5, <2>1
  <2>8. Len(value) <= 1
    BY <2>1
  <2>6. (value \o line) \o rest = bytes
    BY <1>6, <2>2
  <2>7. op # "readLine"
    BY <1>9
  <2>5. rest \in Seq(Ascii) /\ Len(rest) = Len(bytes) - n
        /\ \A i \in 1 .. Len(rest) : rest[i] = bytes[n + i]
    BY <1>3, <1>4 DEF rest
  <2> QED  BY <1>1, <2>3, <2>4, <2>5, <2>6, <2>7, <2>8 DEF n, value, line, rest
<1> QED  BY <1>8, <1>9 DEF Operations

(* When there is no result yet: no byte, or no separator. *)
LEMMA ConsumedIsNat ==
  ASSUME NEW bytes \in Seq(Ascii), NEW op \in Operations
  PROVE  /\ Consumed(op, bytes) \in Nat
         /\ op = "readByte" => Consumed(op, bytes) = 1
         /\ op = "readLine" => (Consumed(op, bytes) = 0 <=> ~Contains(bytes, "nl"))
<1>1. Len(bytes) \in Nat
  BY LenProperties
<1>2. CASE op = "readByte"
  BY <1>2 DEF Consumed
<1>3. CASE op = "readLine" /\ ~Contains(bytes, "nl")
  BY <1>3 DEF Consumed
<1>4. CASE op = "readLine" /\ Contains(bytes, "nl")
  <2> DEFINE places == {i \in 1 .. Len(bytes) : bytes[i] = "nl"}
  <2>1. places # {} /\ places \subseteq Nat \ {0}
    BY <1>1, <1>4 DEF Contains
  <2>2. Consumed(op, bytes) = SelectInSeq(bytes, LAMBDA b : b = "nl")
    BY <1>4 DEF Consumed
  <2>3. Consumed(op, bytes) = Min(places)
    BY <2>1, <2>2 DEF SelectInSeq
  <2>4. Min(places) \in places
    BY <2>1, MinIsSmallest
  <2> QED  BY <1>4, <2>1, <2>3, <2>4
<1> QED  BY <1>2, <1>3, <1>4 DEF Operations

LEMMA WaitingForByteOrLine ==
  ASSUME buffered \in Seq(Ascii), NEW op \in Operations
  PROVE  MustWait(op) <=> IF op = "readByte" THEN buffered = <<>> ELSE ~Contains(buffered, "nl")
<1>1. buffered = <<>> => ~Contains(buffered, "nl")
  BY DEF Contains
<1> QED  BY <1>1, ConsumedIsNat DEF MustWait, Operations

-----------------------------------------------------------------------------
(* A value that a read may return. *)
Fits(op, value) ==
  /\ op = "readLine" => ~Contains(value, "nl")
  /\ op = "readByte" => Len(value) <= 1

LEMMA FitsEmpty ==
  ASSUME NEW op PROVE Fits(op, <<>>)
BY EmptySeq DEF Fits, Contains

(* One read gets an outcome: only that one has to be looked at.            *)
LEMMA OneOutcomeChanges ==
  ASSUME outcome \in [Readers -> Outcomes], ResultsFit, NEW r \in Readers,
         NEW op \in Operations \cup {"none"}, NEW kind \in {"none", "value", "closed"},
         NEW value \in Seq(Ascii), Fits(op, value),
         outcome' = [outcome EXCEPT ![r] = Outcome(op, kind, value)]
  PROVE  /\ outcome' \in [Readers -> Outcomes] /\ ResultsFit'
         /\ outcome'[r].op = op
         /\ \A s \in Readers : s # r => outcome'[s] = outcome[s]
<1>1. Outcome(op, kind, value) \in Outcomes
      /\ Outcome(op, kind, value).op = op /\ Outcome(op, kind, value).value = value
  BY DEF Outcome, Outcomes
<1>2. /\ outcome'[r] = Outcome(op, kind, value)
      /\ \A s \in Readers : s # r => outcome'[s] = outcome[s]
  OBVIOUS
<1>3. outcome' \in [Readers -> Outcomes]
  BY <1>1
<1>4. ResultsFit'
  <2> SUFFICES ASSUME NEW s \in Readers PROVE Fits(outcome'[s].op, outcome'[s].value)
    BY DEF ResultsFit, Fits
  <2>1. CASE s = r   BY <1>1, <1>2, <2>1
  <2>2. CASE s # r   BY <1>2, <2>2 DEF ResultsFit, Fits
  <2> QED  BY <2>1, <2>2
<1> QED  BY <1>1, <1>2, <1>3, <1>4

(* Bytes that leave the buffer move to the output, in order.               *)
LEMMA ServeMovesBytes ==
  ASSUME Shapes, ResultsFit, NEW r \in Readers, NEW op \in Operations,
         NEW bytes \in Seq(Ascii), bytes # <<>>, Consumed(op, bytes) > 0, Serve(r, op, op, bytes)
  PROVE  /\ output' \in Seq(Ascii) /\ buffered' \in Seq(Ascii) /\ hasBuffer' = TRUE
         /\ output' \o buffered' = output \o bytes
         /\ ~Contains(bytes, "nl") => ~Contains(buffered', "nl")
         /\ outcome' \in [Readers -> Outcomes] /\ ResultsFit'
         /\ \A s \in Readers : s # r => outcome'[s] = outcome[s]
<1> DEFINE n     == Consumed(op, bytes)
           value == Result(op, bytes, n)
           line  == IF op = "readLine" THEN <<"nl">> ELSE <<>>
           rest  == Slice(SubSeq(bytes, n + 1, Len(bytes)))
<1>1. /\ value \in Seq(Ascii) /\ rest \in Seq(Ascii) /\ line \in Seq(Ascii)
      /\ (value \o line) \o rest = bytes
      /\ op = "readLine" => ~Contains(value, "nl")
      /\ op = "readByte" => Len(value) <= 1
      /\ \A i \in 1 .. Len(rest) : rest[i] = bytes[n + i]
      /\ Len(rest) = Len(bytes) - n /\ n \in 1 .. Len(bytes)
  BY ServedBytes
<1>2. /\ outcome' = [outcome EXCEPT ![r] = Outcome(op, "value", value)]
      /\ hasBuffer' = TRUE /\ buffered' = rest /\ output' = (output \o value) \o line
  BY DEF Serve
<1>3. Fits(op, value)
  BY <1>1 DEF Fits
<1>4. Len(bytes) \in Nat
  BY LenProperties
<1> HIDE DEF n, value, line, rest
<1>5. output \in Seq(Ascii)
  BY DEF Shapes
<1>6. /\ output \o value \in Seq(Ascii) /\ output' \in Seq(Ascii) /\ value \o line \in Seq(Ascii)
  BY <1>1, <1>2, <1>5, ConcatProperties
<1>7. output' \o rest = output \o bytes
  <2>1. \A s, u, v \in Seq(Ascii) : (s \o u) \o v = s \o (u \o v)
    BY ConcatAssociative
  <2>2. output' = output \o (value \o line)
    BY <1>1, <1>2, <1>5, <2>1, Zenon
  <2>3. value \o line \in Seq(Ascii) /\ rest \in Seq(Ascii)
    BY <1>1, <1>6
  <2>4. (output \o (value \o line)) \o rest = output \o ((value \o line) \o rest)
    BY <1>5, <2>1, <2>3, Zenon
  <2> QED  BY <1>1, <2>2, <2>4
<1>8. ~Contains(bytes, "nl") => ~Contains(rest, "nl")
  <2> SUFFICES ASSUME NEW i \in 1 .. Len(rest), rest[i] = "nl" PROVE Contains(bytes, "nl")
    BY DEF Contains
  <2>1. n + i \in 1 .. Len(bytes) /\ bytes[n + i] = "nl"
    BY <1>1, <1>4
  <2> QED  BY <2>1 DEF Contains
<1>9. /\ outcome' \in [Readers -> Outcomes] /\ ResultsFit'
      /\ \A s \in Readers : s # r => outcome'[s] = outcome[s]
  BY <1>1, <1>2, <1>3, OneOutcomeChanges DEF Shapes
<1> QED  BY <1>1, <1>2, <1>6, <1>7, <1>8, <1>9

-----------------------------------------------------------------------------
LEMMA StdinInvReadBuffered ==
  ASSUME StdinInv, NEW r \in Readers, NEW op \in Operations, ReadBuffered(r, op)
  PROVE  StdinInv'
<1>1. /\ r \notin parked /\ buffered # <<>> /\ Consumed(op, buffered) > 0
      /\ Serve(r, op, op, buffered)
      /\ UNCHANGED <<stream, reading, isClosed, handleData, waitingFiber, parked, input>>
  BY DEF ReadBuffered
<1>2. buffered \in Seq(Ascii)
  BY DEF StdinInv, Shapes
<1>3. /\ output' \in Seq(Ascii) /\ buffered' \in Seq(Ascii) /\ hasBuffer' = TRUE
      /\ output' \o buffered' = output \o buffered
      /\ ~Contains(buffered, "nl") => ~Contains(buffered', "nl")
      /\ outcome' \in [Readers -> Outcomes] /\ ResultsFit'
      /\ \A s \in Readers : s # r => outcome'[s] = outcome[s]
  BY <1>1, <1>2, ServeMovesBytes DEF StdinInv
<1>4. Shapes'
  BY <1>1, <1>3 DEF StdinInv, Shapes
<1>5. InputInOrder'
  BY <1>1, <1>3 DEF StdinInv, InputInOrder
<1>6. ASSUME reading
      PROVE  /\ waitingFiber # r /\ waitingFiber \in Readers
             /\ MustWait(handleData)' /\ handleData \in Operations
  <2>1. /\ waitingFiber \in parked /\ parked \subseteq Readers
        /\ handleData \in Operations /\ MustWait(handleData)
    BY <1>6 DEF StdinInv, Shapes, ReadingForTheWaiter
  <2>2. handleData = "readLine" /\ ~Contains(buffered, "nl")
    BY <1>1, <1>2, <2>1, WaitingForByteOrLine DEF Operations
  <2>3. ~Contains(buffered', "nl")
    BY <1>3, <2>2
  <2>4. buffered' = <<>> \/ Consumed("readLine", buffered') = 0
    BY <1>3, <2>3, ConsumedIsNat DEF Operations
  <2>5. MustWait(handleData)'
    BY <1>1, <2>2, <2>4 DEF MustWait
  <2> QED  BY <1>1, <2>1, <2>5
<1>7. HandlerOfTheWaiter'
  BY <1>1, <1>3, <1>6 DEF StdinInv, HandlerOfTheWaiter
<1>8. ReadingForTheWaiter'
  BY <1>1, <1>6 DEF StdinInv, ReadingForTheWaiter
<1> QED  BY <1>3, <1>4, <1>5, <1>7, <1>8 DEF StdinInv

LEMMA StdinInvReadClosed ==
  ASSUME StdinInv, NEW r \in Readers, NEW op \in Operations, ReadClosed(r, op)
  PROVE  StdinInv'
<1>1. /\ r \notin parked /\ isClosed
      /\ outcome' = [outcome EXCEPT ![r] = Outcome(op, "closed", <<>>)]
      /\ UNCHANGED <<stream, reading, hasBuffer, buffered, output, isClosed, handleData,
                     waitingFiber, parked, input>>
  BY DEF ReadClosed, Closed, buffer
<1>2. <<>> \in Seq(Ascii)
  BY EmptySeq
<1>3. /\ outcome' \in [Readers -> Outcomes] /\ ResultsFit'
      /\ \A s \in Readers : s # r => outcome'[s] = outcome[s]
  BY <1>1, <1>2, FitsEmpty, OneOutcomeChanges DEF StdinInv, Shapes
<1>4. Shapes'
  BY <1>1, <1>3 DEF StdinInv, Shapes
<1>5. ~reading
  BY <1>1 DEF StdinInv, ReadingForTheWaiter
<1>6. HandlerOfTheWaiter' /\ ReadingForTheWaiter' /\ InputInOrder'
  BY <1>1, <1>5 DEF StdinInv, HandlerOfTheWaiter, ReadingForTheWaiter, InputInOrder
<1> QED  BY <1>3, <1>4, <1>6 DEF StdinInv

LEMMA StdinInvReadWaits ==
  ASSUME StdinInv, NEW r \in Readers, NEW op \in Operations, ReadWaits(r, op)
  PROVE  StdinInv'
<1>1. /\ MustWait(op) /\ ~isClosed /\ handleData' = op /\ stream' = TRUE /\ reading' = TRUE
      /\ waitingFiber' = r /\ parked' = parked \cup {r}
      /\ outcome' = [outcome EXCEPT ![r] = Outcome(op, "none", <<>>)]
      /\ UNCHANGED <<hasBuffer, buffered, output, isClosed, input>>
  BY DEF ReadWaits, Handler, Parked, Pending, buffer
<1>2. <<>> \in Seq(Ascii)
  BY EmptySeq
<1>3. outcome' \in [Readers -> Outcomes] /\ ResultsFit' /\ outcome'[r].op = op
  BY <1>1, <1>2, FitsEmpty, OneOutcomeChanges DEF StdinInv, Shapes
<1>4. Shapes'
  BY <1>1, <1>3 DEF StdinInv, Shapes
<1>5. MustWait(handleData)' /\ handleData' # "none"
  BY <1>1 DEF MustWait, Operations
<1>6. HandlerOfTheWaiter' /\ ReadingForTheWaiter' /\ InputInOrder'
  BY <1>1, <1>3, <1>5 DEF StdinInv, HandlerOfTheWaiter, ReadingForTheWaiter, InputInOrder
<1> QED  BY <1>3, <1>4, <1>6 DEF StdinInv

(* What the waiting fiber will be given next. *)
LEMMA WaiterOfTheStream ==
  ASSUME StdinInv, reading
  PROVE  /\ waitingFiber \in Readers /\ handleData \in Operations
         /\ outcome[waitingFiber].op = handleData
         /\ handleData = "readByte" => buffered = <<>>
         /\ handleData = "readLine" => ~Contains(buffered, "nl")
<1>1. /\ waitingFiber \in parked /\ parked \subseteq Readers
      /\ handleData \in Operations /\ MustWait(handleData)
  BY DEF StdinInv, Shapes, ReadingForTheWaiter
<1>2. buffered \in Seq(Ascii) /\ outcome[waitingFiber].op = handleData
  BY DEF StdinInv, Shapes, HandlerOfTheWaiter
<1> QED  BY <1>1, <1>2, WaitingForByteOrLine DEF Operations

LEMMA StdinInvStdinRead ==
  ASSUME StdinInv, NEW chunk \in Seq(Ascii), StdinRead(chunk)
  PROVE  StdinInv'
<1> DEFINE bytes == buffered \o chunk
<1>1. /\ reading /\ input' = input \o chunk
      /\ UNCHANGED <<stream, isClosed, handleData, waitingFiber>>
  BY DEF StdinRead
<1>2. /\ waitingFiber \in Readers /\ handleData \in Operations
      /\ outcome[waitingFiber].op = handleData
  BY <1>1, WaiterOfTheStream
<1>3. buffered \in Seq(Ascii) /\ output \in Seq(Ascii) /\ input \in Seq(Ascii)
  BY DEF StdinInv, Shapes
<1>4. bytes \in Seq(Ascii) /\ input' \in Seq(Ascii)
  BY <1>1, <1>3, ConcatProperties
<1>5. input' = output \o bytes
  <2>1. input' = (output \o buffered) \o chunk
    BY <1>1 DEF StdinInv, InputInOrder
  <2>2. (output \o buffered) \o chunk = output \o (buffered \o chunk)
    BY <1>3, ConcatAssociative
  <2> QED  BY <2>1, <2>2
<1>6. Appended(chunk) = bytes
  BY DEF Appended
<1> HIDE DEF bytes
<1>7. CASE bytes # <<>> /\ Consumed(handleData, bytes) > 0
  <2>1. /\ Serve(waitingFiber, handleData, handleData, bytes)
        /\ parked' = parked \ {waitingFiber} /\ reading' = FALSE
    BY <1>2, <1>6, <1>7 DEF StdinRead, DataServes
  <2>2. /\ output' \in Seq(Ascii) /\ buffered' \in Seq(Ascii) /\ hasBuffer' = TRUE
        /\ output' \o buffered' = output \o bytes
        /\ outcome' \in [Readers -> Outcomes] /\ ResultsFit'
    BY <1>2, <1>4, <1>7, <2>1, ServeMovesBytes DEF StdinInv
  <2>3. Shapes'
    BY <1>1, <1>4, <2>1, <2>2 DEF StdinInv, Shapes
  <2>4. InputInOrder'
    BY <1>5, <2>2 DEF InputInOrder
  <2>5. HandlerOfTheWaiter' /\ ReadingForTheWaiter'
    BY <2>1 DEF HandlerOfTheWaiter, ReadingForTheWaiter
  <2> QED  BY <2>2, <2>3, <2>4, <2>5 DEF StdinInv
<1>8. CASE ~(bytes # <<>> /\ Consumed(handleData, bytes) > 0)
  <2>1. hasBuffer' = TRUE /\ buffered' = bytes /\ UNCHANGED <<output, outcome, parked, reading>>
    BY <1>6, <1>8 DEF StdinRead
  <2>2. bytes = <<>> \/ Consumed(handleData, bytes) = 0
    BY <1>2, <1>4, <1>8, ConsumedIsNat
  <2>3. MustWait(handleData)'
    BY <1>1, <2>1, <2>2 DEF MustWait
  <2>4. Shapes'
    BY <1>1, <1>4, <2>1 DEF StdinInv, Shapes
  <2>5. ResultsFit' /\ HandlerOfTheWaiter'
    BY <1>1, <2>1 DEF StdinInv, ResultsFit, HandlerOfTheWaiter
  <2>6. ReadingForTheWaiter'
    BY <1>1, <2>1, <2>3 DEF StdinInv, ReadingForTheWaiter
  <2>7. InputInOrder'
    BY <1>5, <2>1 DEF InputInOrder
  <2> QED  BY <2>4, <2>5, <2>6, <2>7 DEF StdinInv
<1> QED  BY <1>7, <1>8

LEMMA StdinInvStdinEof == StdinInv /\ StdinEof => StdinInv'
<1> SUFFICES ASSUME StdinInv, StdinEof PROVE StdinInv'
  OBVIOUS
<1>1. /\ reading /\ isClosed' = TRUE /\ hasBuffer' = FALSE /\ buffered' = <<>>
      /\ output' = output \o buffered /\ parked' = parked \ {waitingFiber}
      /\ reading' = FALSE /\ stream' = FALSE
      /\ UNCHANGED <<handleData, waitingFiber, input>>
  BY DEF StdinEof, ParkedAfterEof, ReadingAfterEof
<1>2. /\ waitingFiber \in Readers /\ handleData \in Operations
      /\ outcome[waitingFiber].op = handleData
      /\ handleData = "readByte" => buffered = <<>>
      /\ handleData = "readLine" => ~Contains(buffered, "nl")
  BY <1>1, WaiterOfTheStream
<1>3. /\ buffered \in Seq(Ascii) /\ output \in Seq(Ascii)
      /\ <<>> \in Seq(Ascii) /\ Len(<<>>) = 0
  BY EmptySeq DEF StdinInv, Shapes
<1>4. Fits(handleData, buffered)
  BY <1>2, <1>3 DEF Fits, Operations
<1>5. outcome \in [Readers -> Outcomes] /\ ResultsFit
  BY DEF StdinInv, Shapes
<1>6. \E kind \in {"value", "closed"}, value \in Seq(Ascii) :
        /\ Fits(handleData, value)
        /\ outcome' = [outcome EXCEPT ![waitingFiber] = Outcome(handleData, kind, value)]
  <2>1. CASE hasBuffer
    <3>1. outcome' = [outcome EXCEPT ![waitingFiber] = Outcome(handleData, "value", buffered)]
      BY <1>2, <1>5, <2>1 DEF StdinEof
    <3> QED  BY <1>3, <1>4, <3>1
  <2>2. CASE ~hasBuffer
    <3>1. outcome' = [outcome EXCEPT ![waitingFiber] = Outcome(handleData, "closed", <<>>)]
      BY <1>2, <1>5, <2>2 DEF StdinEof, Closed
    <3> QED  BY <1>3, <3>1, FitsEmpty
  <2> QED  BY <2>1, <2>2
<1>7. outcome' \in [Readers -> Outcomes] /\ ResultsFit'
  BY <1>2, <1>5, <1>6, OneOutcomeChanges
<1>8. output' \in Seq(Ascii) /\ output' \o <<>> = output'
  BY <1>1, <1>3, ConcatProperties, ConcatEmptySeq
<1>9. Shapes'
  BY <1>1, <1>3, <1>7, <1>8 DEF StdinInv, Shapes
<1>10. InputInOrder'
  BY <1>1, <1>8 DEF StdinInv, InputInOrder
<1>11. HandlerOfTheWaiter' /\ ReadingForTheWaiter'
  BY <1>1 DEF HandlerOfTheWaiter, ReadingForTheWaiter
<1> QED  BY <1>7, <1>9, <1>10, <1>11 DEF StdinInv

LEMMA StdinInvUnchanged ==
  ASSUME StdinInv, stream' \in BOOLEAN, stream => stream',
         UNCHANGED <<reading, hasBuffer, buffered, output, isClosed, handleData, waitingFiber,
                     parked, outcome, input>>
  PROVE  StdinInv'
<1>1. Shapes' /\ InputInOrder' /\ HandlerOfTheWaiter' /\ ResultsFit'
  BY DEF StdinInv, Shapes, InputInOrder, HandlerOfTheWaiter, ResultsFit
<1>2. ReadingForTheWaiter'
  BY DEF StdinInv, ReadingForTheWaiter, MustWait
<1> QED  BY <1>1, <1>2 DEF StdinInv

-----------------------------------------------------------------------------
LEMMA StdinInvNext == MultiByte = FALSE /\ StdinInv /\ [Next]_vars => StdinInv'
<1> SUFFICES ASSUME MultiByte = FALSE, StdinInv, [Next]_vars PROVE StdinInv'
  OBVIOUS
<1>1. CASE InitStdin
  BY <1>1, StdinInvUnchanged DEF InitStdin, buffer
<1>2. ASSUME NEW r \in Readers, NEW op \in Operations,
             ReadBuffered(r, op) \/ ReadClosed(r, op) \/ ReadWaits(r, op)
      PROVE  StdinInv'
  BY <1>2, StdinInvReadBuffered, StdinInvReadClosed, StdinInvReadWaits
<1>3. ASSUME NEW chunk \in Chunks, StdinRead(chunk) PROVE StdinInv'
  <2>1. InputBytes = Ascii
    BY DEF InputBytes, Ascii
  <2>2. chunk \in Seq(Ascii)
    BY <2>1, InputAssumption DEF Chunks, SeqOf
  <2> QED  BY <1>3, <2>2, StdinInvStdinRead
<1>4. CASE StdinEof
  BY <1>4, StdinInvStdinEof
<1>5. CASE UNCHANGED vars
  BY <1>5, StdinInvUnchanged DEF vars, buffer, StdinInv, Shapes
<1> QED  BY <1>1, <1>2, <1>3, <1>4, <1>5 DEF Next

LEMMA StdinInvAlways == ASSUME MultiByte = FALSE PROVE Spec => []StdinInv
<1>1. StdinInv /\ [Next]_vars => StdinInv'
  BY StdinInvNext
<1> QED  BY <1>1, StdinInvInit, PTL DEF Spec

(* No byte of ASCII input is lost, repeated or reordered, for any number   *)
(* of readers that take turns and chunks of any length (Stdin.read_,       *)
(* Stdin.onData_).                                                         *)
THEOREM AsciiInputInOrder == ASSUME MultiByte = FALSE PROVE Spec => []InputInOrder
<1>1. StdinInv => InputInOrder
  BY DEF StdinInv
<1> QED  BY <1>1, StdinInvAlways, PTL

(* The stream runs for a parked fiber that nothing in the buffer can serve *)
(* (Stdin.read_, which starts and stops the stream).                       *)
THEOREM ReadingForTheWaiterAlways == ASSUME MultiByte = FALSE PROVE Spec => []ReadingForTheWaiter
<1>1. StdinInv => ReadingForTheWaiter
  BY DEF StdinInv
<1> QED  BY <1>1, StdinInvAlways, PTL

(* A line has no separator in it and a byte is at most one, also when the  *)
(* stream ends or another fiber has read in between (the data handlers of  *)
(* Stdin.readLine and Stdin.readByte).                                     *)
THEOREM ResultsFitAlways == ASSUME MultiByte = FALSE PROVE Spec => []ResultsFit
<1>1. StdinInv => ResultsFit
  BY DEF StdinInv
<1> QED  BY <1>1, StdinInvAlways, PTL

(* What the reads have returned, and the buffer, are bytes of the input    *)
(* (Stdin.read_, Stdin.onData_).                                           *)
THEOREM StdinTypeCorrect == ASSUME MultiByte = FALSE PROVE Spec => []TypeOK
<1>1. StdinInv => TypeOK
  <2> SUFFICES ASSUME StdinInv PROVE TypeOK
    OBVIOUS
  <2>1. \A s \in Seq(Ascii) : s \in Seq(Bytes)
    BY SeqMonotonic DEF Ascii, Bytes
  <2>2. \A r \in Readers : /\ outcome[r].op \in Operations \cup {"none"}
                           /\ outcome[r].kind \in {"none", "value", "closed"}
                           /\ outcome[r].value \in Seq(Bytes)
    BY <2>1 DEF StdinInv, Shapes, Outcomes
  <2> QED  BY <2>1, <2>2 DEF StdinInv, Shapes, TypeOK
<1> QED  BY <1>1, StdinInvAlways, PTL

=============================================================================
