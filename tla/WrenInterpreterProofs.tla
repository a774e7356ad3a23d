------------------------ MODULE WrenInterpreterProofs ------------------------
(***************************************************************************)
(* Verified bytecode is safe, for every compiler and every program: as long   *)
(* as the functions that are called are verified (CodeStaysVerified, which     *)
(* the runs check of the compiler), no instruction leaves the code of its      *)
(* function or the slots of its frame, the stack has room for every push       *)
(* (StackFits) and the open upvalues are those of the variables on the stack   *)
(* (UpvaluesSound), wherever the stack moves.  And the arithmetic of indexes,   *)
(* ranges and the string search, for all sequences.                            *)
(***************************************************************************)
EXTENDS WrenInterpreter, SmallestNatural, FiniteSetTheorems, SequenceTheorems, TLAPS

(* An index that is accepted is one of the elements.                         *)
LEMMA ValidIndexBounds ==
  ASSUME NEW n \in Nat, NEW i \in Int
  PROVE  ValidIndex(i, n) \in -1..(n - 1)
BY DEF ValidIndex, FromEnd

(***************************************************************************)
(* calculateRange: what a list or string subscript reads with a range that   *)
(* calculateRange accepts lies in the list or string, whatever the ends of    *)
(* the range, in both directions and for empty ranges.                        *)
(***************************************************************************)
THEOREM RangeStaysInside ==
  ASSUME NEW n \in Nat, NEW from \in Int, NEW to \in Int, NEW inclusive \in BOOLEAN,
         CalculateRange(from, to, inclusive, n) /= OutOfBounds,
         NEW i \in 1..CalculateRange(from, to, inclusive, n).count
  PROVE  LET slice == CalculateRange(from, to, inclusive, n)
         IN  slice.first + (i - 1) * slice.step \in 0..(n - 1)
<1> DEFINE start == ValidIndex(from, n)
           value == FromEnd(to, n)
           end == IF inclusive THEN value ELSE IF value >= start THEN value - 1 ELSE value + 1
           length == (IF start >= end THEN start - end ELSE end - start) + 1
           slice == CalculateRange(from, to, inclusive, n)
<1>1. start \in -1..(n - 1) /\ value \in Int
  BY ValidIndexBounds DEF FromEnd
<1>2. end \in Int /\ length \in Int
  BY <1>1
<1>3. slice.count \in {0, length}
  BY DEF CalculateRange, Slice, OutOfBounds
<1>4. slice.count = length =>
         /\ start /= -1 /\ end \in 0..(n - 1)
         /\ slice = Slice(start, length, IF start < end THEN 1 ELSE -1)
  BY <1>1, <1>2 DEF CalculateRange, Slice, OutOfBounds
<1>5. slice.count = length /\ length \in Nat
  BY <1>2, <1>3
<1>6. CASE start < end
  <2>1. slice.first = start /\ slice.step = 1 /\ slice.count = end - start + 1
    BY <1>1, <1>2, <1>4, <1>5, <1>6 DEF Slice
  <2>2. i - 1 \in 0..(end - start)
    BY <1>1, <1>2, <1>6, <2>1
  <2> QED  BY <1>1, <1>2, <1>4, <1>5, <2>1, <2>2
<1>7. CASE ~(start < end)
  <2>1. slice.first = start /\ slice.step = -1 /\ slice.count = start - end + 1
    BY <1>1, <1>2, <1>4, <1>5, <1>7 DEF Slice
  <2>2. i - 1 \in 0..(start - end)
    BY <1>1, <1>2, <1>7, <2>1
  <2>3. (i - 1) * (-1) = -(i - 1)
    BY <2>2
  <2> QED  BY <1>1, <1>2, <1>4, <1>5, <2>1, <2>2, <2>3
<1> QED  BY <1>6, <1>7

-----------------------------------------------------------------------------
(* A set of numbers below a bound has a largest one.                          *)
LEMMA BoundedSetHasLargest ==
  ASSUME NEW m \in Nat, NEW P, P \subseteq 0..m, P /= {}
  PROVE  \E i \in P : \A j \in P : j <= i
<1> DEFINE R == {ss \in Nat \X Nat : ss[1] < ss[2]}
           T == {m - i : i \in P}
<1>1. IsWellFoundedOn(R, Nat)
  BY NatLessThanWellFounded DEF OpToRel
<1>2. T \subseteq Nat /\ T /= {}
  <2>1. \A i \in P : m - i \in Nat
    OBVIOUS
  <2>2. PICK i \in P : TRUE
    OBVIOUS
  <2>3. m - i \in T
    BY <2>2
  <2> QED  BY <2>1, <2>3
<1>3. PICK x \in T : \A y \in T : ~(<<y, x>> \in R)
  <2> HIDE DEF R, T
  <2> QED  BY <1>1, <1>2, WFMin
<1>4. PICK i \in P : x = m - i
  BY <1>3
<1>5. ASSUME NEW j \in P PROVE j <= i
  <2>1. m - j \in T /\ m - j \in Nat /\ x \in Nat
    BY <1>2, <1>4
  <2>2. ~(m - j < x)
    BY <1>3, <2>1
  <2> QED  BY <1>4, <2>1, <2>2
<1> QED  BY <1>5

(* The shift is the distance from the end of the needle to the last place of   *)
(* the byte, or the length of the needle when it has no such place.            *)
LEMMA ShiftBounds ==
  ASSUME NEW S, NEW needle \in Seq(S), needle /= <<>>, NEW c
  PROVE  /\ Shift(needle, c) \in 1..Len(needle)
         /\ \A k \in PlacesOf(needle, c) : Shift(needle, c) <= NeedleEnd(needle) - k
<1> DEFINE P == PlacesOf(needle, c)
           last == CHOOSE i \in P : \A j \in P : j <= i
<1>1. Len(needle) \in Nat \ {0} /\ NeedleEnd(needle) \in Nat
  BY DEF NeedleEnd
<1>2. CASE P = {}
  BY <1>1, <1>2 DEF Shift
<1>3. CASE P /= {}
  <2>1. P \subseteq 0..NeedleEnd(needle)
    BY <1>1 DEF PlacesOf
  <2>2. last \in P /\ \A j \in P : j <= last
    BY <1>1, <1>3, <2>1, BoundedSetHasLargest, Zenon
  <2>3. last \in 0..(NeedleEnd(needle) - 1)
    BY <2>2 DEF PlacesOf
  <2>4. Shift(needle, c) = NeedleEnd(needle) - last
    BY <1>3 DEF Shift
  <2>5. \A k \in P : k \in Nat
    BY <1>1, <2>1
  <2> HIDE DEF last, P
  <2>6. Shift(needle, c) \in 1..Len(needle)
    BY <1>1, <2>3, <2>4 DEF NeedleEnd
  <2>7. \A k \in P : Shift(needle, c) <= NeedleEnd(needle) - k
    BY <1>1, <2>2, <2>3, <2>4, <2>5
  <2> QED  BY <2>6, <2>7 DEF P
<1> QED  BY <1>2, <1>3

(***************************************************************************)
(* wrenStringFind: when the window at i does not match, the window slides on, *)
(* by one byte at least, and the needle is at none of the places skipped, so  *)
(* the first place found is the first there is.                               *)
(***************************************************************************)
THEOREM SlideSkipsNoMatch ==
  ASSUME NEW S, NEW haystack \in Seq(S), NEW needle \in Seq(S), needle /= <<>>,
         NEW i \in Nat, i + Len(needle) <= Len(haystack)
  PROVE  /\ Slid(haystack, needle, i) \in Nat /\ Slid(haystack, needle, i) > i
         /\ \A j \in Nat : i < j /\ j < Slid(haystack, needle, i)
                          => ~MatchesAt(haystack, needle, j)
<1> DEFINE c == ByteAt(haystack, i + NeedleEnd(needle))
           slid == Slid(haystack, needle, i)
<1>1. Len(needle) \in Nat \ {0} /\ Len(haystack) \in Nat
  OBVIOUS
<1>2. Shift(needle, c) \in 1..Len(needle) /\ slid = i + Shift(needle, c)
  BY ShiftBounds DEF Slid
<1>3. ASSUME NEW j \in Nat, i < j, j < slid, MatchesAt(haystack, needle, j)
      PROVE  FALSE
  <2> DEFINE k == i + NeedleEnd(needle) - j
  <2>1. k \in 0..(NeedleEnd(needle) - 1)
    BY <1>1, <1>2, <1>3 DEF NeedleEnd
  <2>2. k + 1 \in 1..Len(needle)
    BY <1>1, <2>1 DEF NeedleEnd
  <2>3. /\ j + Len(needle) <= Len(haystack)
        /\ SubSeq(haystack, j + 1, j + Len(needle)) = needle
    BY <1>3 DEF MatchesAt, Window
  <2>4. needle[k + 1] = haystack[j + 1 + (k + 1) - 1]
    <3>1. SubSeq(haystack, j + 1, j + Len(needle))[k + 1] = haystack[j + 1 + (k + 1) - 1]
      <4> HIDE DEF k
      <4> QED  BY <1>1, <2>2, <2>3, SubSeqProperties
    <3> QED  BY <2>3, <3>1
  <2>5. j + 1 + (k + 1) - 1 = i + NeedleEnd(needle) + 1
    BY <1>1, <1>3 DEF NeedleEnd
  <2>6. ByteAt(needle, k) = c
    BY <2>4, <2>5 DEF ByteAt
  <2>7. k \in PlacesOf(needle, c)
    BY <2>1, <2>6 DEF PlacesOf
  <2>8. Shift(needle, c) <= NeedleEnd(needle) - k
    BY <2>7, ShiftBounds
  <2>9. slid <= j
    BY <1>1, <1>2, <1>3, <2>8 DEF NeedleEnd
  <2> QED  BY <1>1, <1>2, <1>3, <2>9
<1> QED  BY <1>1, <1>2, <1>3

-----------------------------------------------------------------------------
\* A finite sequence, whatever its elements are.
IsSeq(s) == Len(s) \in Nat /\ s = [i \in 1 .. Len(s) |-> s[i]]

(* Sums and differences of slots, depths and numbers of arguments.              *)
LEMMA SumIsNat ==
  ASSUME NEW a \in Nat, NEW b \in Nat
  PROVE  a + b \in Nat
OBVIOUS

LEMMA DifferenceAbove ==
  ASSUME NEW a \in Nat, NEW b \in Nat, a - b \in Nat
  PROVE  a >= b
OBVIOUS

LEMMA AtMostTrans ==
  ASSUME NEW a \in Nat, NEW b \in Nat, NEW c \in Int, a <= b, b <= c
  PROVE  a <= c
OBVIOUS

LEMMA CallLeaves ==
  ASSUME NEW start \in Nat, NEW depth \in Nat, NEW n \in Nat
  PROVE  (start + depth) - (n + 1) + 1 = start + (depth - n)
OBVIOUS

(* It is a sequence over its elements, and every sequence is one.             *)
LEMMA SeqOfElements ==
  ASSUME NEW s, IsSeq(s)
  PROVE  /\ s \in Seq({s[i] : i \in 1 .. Len(s)})
         /\ DOMAIN s = 1 .. Len(s)
<1> DEFINE S == {s[i] : i \in 1 .. Len(s)}
<1>1. s \in [1 .. Len(s) -> S] /\ Len(s) \in Nat
  BY DEF IsSeq
<1>2. DOMAIN s = 1 .. Len(s)
  BY <1>1
<1> HIDE DEF S
<1>3. s \in Seq(S)
  BY <1>1
<1> QED  BY <1>2, <1>3 DEF S

LEMMA ElementsOfSeq ==
  ASSUME NEW S, NEW s \in Seq(S)
  PROVE  IsSeq(s)
BY LenProperties DEF IsSeq

LEMMA Mapped ==
  ASSUME NEW n \in Nat, NEW t, t = [i \in 1 .. n |-> t[i]]
  PROVE  IsSeq(t) /\ Len(t) = n
<1> DEFINE S == {t[i] : i \in 1 .. n}
<1>1. t \in [1 .. n -> S]
  OBVIOUS
<1> HIDE DEF S
<1>2. t \in Seq(S)
  BY <1>1
<1>3. Len(t) = n
  BY <1>1, <1>2, LenProperties
<1> QED  BY <1>2, <1>3, ElementsOfSeq

LEMMA Replaced ==
  ASSUME NEW s, IsSeq(s), NEW i, NEW v
  PROVE  LET t == [s EXCEPT ![i] = v]
         IN  /\ IsSeq(t) /\ Len(t) = Len(s)
             /\ \A j \in 1 .. Len(s) : t[j] = IF j = i THEN v ELSE s[j]
<1> DEFINE t == [s EXCEPT ![i] = v]
<1>1. Len(s) \in Nat /\ DOMAIN s = 1 .. Len(s)
  BY SeqOfElements DEF IsSeq
<1>2. t = [j \in 1 .. Len(s) |-> IF j = i THEN v ELSE s[j]]
  BY <1>1
<1>3. \A j \in 1 .. Len(s) : t[j] = IF j = i THEN v ELSE s[j]
  BY <1>2
<1>4. t = [j \in 1 .. Len(s) |-> t[j]]
  BY <1>2
<1> HIDE DEF t
<1>5. IsSeq(t) /\ Len(t) = Len(s)
  BY <1>1, <1>4, Mapped
<1> QED  BY <1>3, <1>5 DEF t

LEMMA Appended ==
  ASSUME NEW s, IsSeq(s), NEW v
  PROVE  LET t == Append(s, v)
         IN  /\ IsSeq(t) /\ Len(t) = Len(s) + 1
             /\ \A i \in 1 .. Len(s) : t[i] = s[i]
             /\ t[Len(s) + 1] = v
<1> DEFINE S == {s[i] : i \in 1 .. Len(s)} \cup {v}
<1>1. s \in Seq({s[i] : i \in 1 .. Len(s)})
  BY SeqOfElements
<1>2. s \in Seq(S)
  BY <1>1
<1> HIDE DEF S
<1>3. v \in S
  BY DEF S
<1> DEFINE t == Append(s, v)
<1>4. /\ t \in Seq(S) /\ Len(t) = Len(s) + 1
      /\ \A i \in 1 .. Len(s) : t[i] = s[i]
      /\ t[Len(s) + 1] = v
  BY <1>2, <1>3, AppendProperties
<1> HIDE DEF t
<1>5. IsSeq(t)
  BY <1>4, ElementsOfSeq
<1> QED  BY <1>4, <1>5 DEF t

LEMMA Part ==
  ASSUME NEW s, IsSeq(s), NEW m \in Nat \ {0}, NEW n \in 0 .. Len(s), m <= n + 1
  PROVE  LET t == SubSeq(s, m, n)
         IN  /\ IsSeq(t) /\ Len(t) = n - m + 1
             /\ \A i \in 1 .. n - m + 1 : t[i] = s[m + i - 1]
<1> DEFINE S == {s[i] : i \in 1 .. Len(s)}
<1>1. Len(s) \in Nat
  BY DEF IsSeq
<1>2. \A i \in m .. n : s[i] \in S
  BY <1>1
<1> HIDE DEF S
<1>3. /\ SubSeq(s, m, n) \in Seq(S)
      /\ Len(SubSeq(s, m, n)) = IF m <= n THEN n - m + 1 ELSE 0
      /\ \A i \in 1 .. n - m + 1 : SubSeq(s, m, n)[i] = s[m + i - 1]
  BY <1>1, <1>2, SubSeqProperties
<1>4. Len(SubSeq(s, m, n)) = n - m + 1
  BY <1>1, <1>3
<1> QED  BY <1>3, <1>4, ElementsOfSeq

LEMMA Inserted ==
  ASSUME NEW s, IsSeq(s), NEW k \in 0 .. Len(s), NEW v
  PROVE  LET t == InsertAt(s, k + 1, v)
         IN  /\ IsSeq(t) /\ Len(t) = Len(s) + 1
             /\ \A i \in 1 .. Len(s) + 1 :
                   t[i] = IF i <= k THEN s[i] ELSE IF i = k + 1 THEN v ELSE s[i - 1]
<1> DEFINE S == {s[i] : i \in 1 .. Len(s)} \cup {v}
           head == SubSeq(s, 1, k)
           tail == SubSeq(s, k + 1, Len(s))
<1>1. Len(s) \in Nat /\ k \in Nat /\ k <= Len(s)
  BY DEF IsSeq
<1>2. (\A i \in 1 .. Len(s) : s[i] \in S) /\ v \in S
  OBVIOUS
<1> HIDE DEF S
<1>3. head \in Seq(S) /\ Len(head) = k /\ \A i \in 1 .. k : head[i] = s[i]
  BY <1>1, <1>2, SubSeqProperties
<1>4. /\ tail \in Seq(S) /\ Len(tail) = Len(s) - k
      /\ \A i \in 1 .. Len(s) - k : tail[i] = s[k + i]
  BY <1>1, <1>2, SubSeqProperties
<1>5. <<v>> \in Seq(S) /\ Len(<<v>>) = 1 /\ <<v>>[1] = v
  BY <1>2
<1> HIDE DEF head, tail
<1>6. /\ head \o <<v>> \in Seq(S) /\ Len(head \o <<v>>) = k + 1
      /\ \A i \in 1 .. k + 1 : (head \o <<v>>)[i] = IF i <= k THEN s[i] ELSE v
  BY <1>1, <1>3, <1>5, ConcatProperties
<1> DEFINE t == (head \o <<v>>) \o tail
<1>7. /\ t \in Seq(S) /\ Len(t) = Len(s) + 1
      /\ \A i \in 1 .. Len(s) + 1 :
            t[i] = IF i <= k + 1 THEN (head \o <<v>>)[i] ELSE tail[i - (k + 1)]
  BY <1>1, <1>4, <1>6, ConcatProperties
<1>8. \A i \in 1 .. Len(s) + 1 :
            t[i] = IF i <= k THEN s[i] ELSE IF i = k + 1 THEN v ELSE s[i - 1]
  <2> TAKE i \in 1 .. Len(s) + 1
  <2> HIDE DEF t
  <2>1. CASE i <= k + 1
    BY <1>1, <1>6, <1>7, <2>1
  <2>2. CASE i > k + 1
    <3> DEFINE r == i - (k + 1)
    <3>1. r \in 1 .. Len(s) - k /\ k + r = i - 1
      BY <1>1, <2>2
    <3>2. t[i] = tail[r]
      BY <1>1, <1>7, <2>2
    <3> HIDE DEF r
    <3>3. tail[r] = s[i - 1]
      BY <1>4, <3>1
    <3> QED  BY <1>1, <2>2, <3>2, <3>3
  <2> QED  BY <1>1, <2>1, <2>2
<1>9. t = InsertAt(s, k + 1, v)
  <2>1. (k + 1) - 1 = k
    BY <1>1
  <2> QED  BY <2>1, Zenon DEF InsertAt, head, tail, t
<1> HIDE DEF t
<1> QED  BY <1>7, <1>8, <1>9, ElementsOfSeq

-----------------------------------------------------------------------------
\* The function that PowerOf2Ceil(n) applies.
Powers(n, c) == c = [k \in 0 .. n |-> IF k <= 1 THEN 1 ELSE 2 * c[(k + 1) \div 2]]

LEMMA HalfIsLess ==
  ASSUME NEW k \in Nat, k >= 2
  PROVE  (k + 1) \div 2 \in 0 .. k - 1 /\ k <= 2 * ((k + 1) \div 2)
OBVIOUS

LEMMA PowersExist ==
  ASSUME NEW n \in Nat
  PROVE  \E c : Powers(n, c)
<1> DEFINE Bad == {m \in Nat : ~ \E c : Powers(m, c)}
<1>1. SUFFICES ASSUME Bad # {} PROVE FALSE
  OBVIOUS
<1>2. PICK m \in Bad : \A e \in Bad : m <= e
  BY <1>1, SmallestOfNaturals
<1>3. CASE m = 0
  <2> DEFINE c == [k \in 0 .. 0 |-> 1]
  <2>1. Powers(0, c)
    BY DEF Powers
  <2> QED  BY <1>2, <1>3, <2>1
<1>4. CASE m # 0
  <2>1. m - 1 \in Nat /\ m - 1 \notin Bad
    BY <1>2, <1>4
  <2>2. PICK b : Powers(m - 1, b)
    BY <2>1
  <2> DEFINE c == [k \in 0 .. m |-> IF k = m THEN IF m = 1 THEN 1 ELSE 2 * b[(m + 1) \div 2]
                                    ELSE b[k]]
  <2>3. ASSUME NEW k \in 0 .. m
        PROVE  c[k] = IF k <= 1 THEN 1 ELSE 2 * c[(k + 1) \div 2]
    <3>1. k > 1 => (k + 1) \div 2 \in 0 .. k - 1
      BY HalfIsLess
    <3>2. k > 1 => c[(k + 1) \div 2] = b[(k + 1) \div 2]
      BY <1>2, <3>1
    <3>3. k # m => b[k] = IF k <= 1 THEN 1 ELSE 2 * b[(k + 1) \div 2]
      BY <1>2, <2>2 DEF Powers
    <3> QED  BY <1>2, <1>4, <3>2, <3>3
  <2>4. Powers(m, c)
    <3>1. c = [k \in 0 .. m |-> c[k]]
      OBVIOUS
    <3> HIDE DEF c
    <3>2. [k \in 0 .. m |-> c[k]]
            = [k \in 0 .. m |-> IF k <= 1 THEN 1 ELSE 2 * c[(k + 1) \div 2]]
      BY <2>3
    <3> QED  BY <3>1, <3>2 DEF Powers
  <2> QED  BY <1>2, <2>4
<1> QED  BY <1>3, <1>4

(* wrenPowerOf2Ceil: the capacity that a stack grows to is as large as needed. *)
LEMMA PowerIsEnough ==
  ASSUME NEW n \in Nat
  PROVE  PowerOf2Ceil(n) \in Nat /\ n <= PowerOf2Ceil(n)
<1> DEFINE c == CHOOSE power : Powers(n, power)
           Bad == {k \in 0 .. n : ~(c[k] \in Nat /\ k <= c[k])}
<1>1. PowerOf2Ceil(n) = c[n]
  BY DEF PowerOf2Ceil, Powers
<1>2. Powers(n, c)
  BY PowersExist
<1> HIDE DEF c
<1>3. ASSUME Bad # {} PROVE FALSE
  <2>0. Bad \subseteq Nat
    OBVIOUS
  <2>1. PICK k \in Bad : \A e \in Bad : k <= e
    <3> HIDE DEF Bad
    <3> QED  BY <1>3, <2>0, SmallestOfNaturals
  <2>2. k \in 0 .. n /\ ~(c[k] \in Nat /\ k <= c[k])
    OBVIOUS
  <2>3. c[k] = IF k <= 1 THEN 1 ELSE 2 * c[(k + 1) \div 2]
    BY <1>2, <2>2 DEF Powers
  <2>4. k > 1
    BY <2>2, <2>3
  <2> DEFINE half == (k + 1) \div 2
  <2>5. half \in 0 .. k - 1 /\ k <= 2 * half
    BY <2>2, <2>4, HalfIsLess
  <2> HIDE DEF half
  <2>6. half \notin Bad
    BY <2>1, <2>2, <2>5
  <2>7. c[half] \in Nat /\ half <= c[half]
    BY <2>2, <2>5, <2>6
  <2>8. c[k] = 2 * c[half]
    BY <2>2, <2>3, <2>4 DEF half
  <2> QED  BY <2>2, <2>5, <2>7, <2>8
<1> QED  BY <1>1, <1>3

(* NumFrom counts a head of the list: the upvalues up to the first one below.  *)
LEMMA NumFromIsAHead ==
  ASSUME NEW h, NEW list, IsSeq(list), NEW q
  PROVE  LET m == NumFrom(h, list, q)
         IN  /\ m \in 0 .. Len(list)
             /\ \A i \in 1 .. m : h.upvalues[list[i]].at[2] >= q
             /\ m < Len(list) => ~(h.upvalues[list[m + 1]].at[2] >= q)
<1> DEFINE from(i) == h.upvalues[list[i]].at[2] >= q
           head == {i \in DOMAIN list : \A j \in 1 .. i : from(j)}
           below == {i \in 1 .. Len(list) : ~from(i)}
           m == NumFrom(h, list, q)
<1>1. Len(list) \in Nat /\ DOMAIN list = 1 .. Len(list)
  BY SeqOfElements DEF IsSeq
<1>2. m = Cardinality(head)
  BY DEF NumFrom
<1> HIDE DEF from, m
<1>3. ASSUME NEW k \in 0 .. Len(list), head = 1 .. k
      PROVE  m = k
  <2> HIDE DEF head
  <2>1. Cardinality(1 .. k) = IF 1 > k THEN 0 ELSE k - 1 + 1
    BY FS_Interval
  <2> QED  BY <1>2, <1>3, <2>1
<1>4. /\ m \in 0 .. Len(list)
      /\ \A i \in 1 .. m : from(i)
      /\ m < Len(list) => ~from(m + 1)
  <2>1. CASE below = {}
    <3>1. \A i \in 1 .. Len(list) : from(i)
      BY <2>1
    <3>2. head = 1 .. Len(list)
      BY <1>1, <3>1
    <3>3. m = Len(list)
      BY <1>1, <1>3, <3>2
    <3> QED  BY <1>1, <3>1, <3>3
  <2>2. CASE below # {}
    <3>1. below \subseteq Nat
      BY <1>1
    <3>2. PICK b \in below : \A e \in below : b <= e
      <4> HIDE DEF below
      <4> QED  BY <2>2, <3>1, SmallestOfNaturals
    <3>3. b \in 1 .. Len(list) /\ ~from(b)
      OBVIOUS
    <3>4. \A i \in 1 .. b - 1 : from(i)
      BY <1>1, <3>2, <3>3
    <3>5. head = 1 .. b - 1
      BY <1>1, <3>3, <3>4
    <3>6. m = b - 1
      BY <1>1, <1>3, <3>3, <3>5
    <3>7. m + 1 = b
      BY <3>3, <3>6
    <3> QED  BY <1>1, <3>3, <3>4, <3>6, <3>7
  <2> QED  BY <2>1, <2>2
<1> QED  BY <1>4 DEF from, m

-----------------------------------------------------------------------------
(***************************************************************************)
(* The inductive invariant, of the heap h, the machine v and the fiber f.     *)
(***************************************************************************)
\* The records and sequences that the steps update.
UpvalueShape(upvalue) ==
  /\ DOMAIN upvalue = {"open", "at", "closed"}
  /\ upvalue.open \in BOOLEAN
  /\ upvalue.at \in Nat \X Nat
FrameShape(frame) ==
  /\ DOMAIN frame = {"closure", "ip", "size", "start"}
  /\ frame.size \in Nat
  /\ frame.start \in Nat \X Nat
  /\ frame.start[2] <= frame.size
HeapShape(h) ==
  /\ DOMAIN h = {"fns", "closures", "upvalues", "classes", "objects"}
  /\ IsSeq(h.closures) /\ IsSeq(h.upvalues)
  /\ \A u \in DOMAIN h.upvalues : UpvalueShape(h.upvalues[u])
FiberShape(f) ==
  /\ DOMAIN f = {"stack", "base", "capacity", "frames", "openUpvalues"}
  /\ f.base \in Nat /\ f.capacity \in Nat
  /\ IsSeq(f.stack) /\ IsSeq(f.frames) /\ IsSeq(f.openUpvalues)
  /\ \A i \in DOMAIN f.frames : FrameShape(f.frames[i])

\* Each frame is at an instruction of the view of its function, has as many
\* slots as the view says, up to where the next frame begins or up to top, and
\* has room for all that its function pushes.
Point(h, frame) == ViewOf(h, frame)[frame.ip]
FrameFits(h, v, f, top, i) ==
  LET frame == f.frames[i]
  IN  /\ FrameVerified(h, v.modules, frame)
      /\ frame.ip \in DOMAIN ViewOf(h, frame)
      /\ frame.start[1] = f.base
      /\ frame.start[2] + Point(h, frame).depth
           = IF i = Len(f.frames) THEN top ELSE f.frames[i + 1].start[2] + 1
      /\ frame.size + h.fns[FunctionOf(h, frame)].maxSlots <= f.capacity
Ascending(f) ==
  /\ \A i, j \in DOMAIN f.frames : i <= j => f.frames[i].start[2] <= f.frames[j].start[2]
  /\ f.frames /= <<>> => f.frames[1].start[2] = 0
FramesFit(h, v, f, top) == Ascending(f) /\ \A i \in DOMAIN f.frames : FrameFits(h, v, f, top, i)

\* The list of open upvalues goes strictly down the stack, as it is now, and has
\* the open ones.
OpenList(h, list, base) ==
  /\ \A i \in DOMAIN list : list[i] \in DOMAIN h.upvalues /\ h.upvalues[list[i]].at[1] = base
  /\ \A i, j \in DOMAIN list : i < j => h.upvalues[list[j]].at[2] < h.upvalues[list[i]].at[2]
  /\ \A u \in DOMAIN h.upvalues : h.upvalues[u].open <=> \E i \in DOMAIN list : list[i] = u

\* An open upvalue points to a slot that the view of the frame it lies in allows
\* to be captured.
Within(f, i, slot) ==
  /\ f.frames[i].start[2] <= slot
  /\ i < Len(f.frames) => slot < f.frames[i + 1].start[2]
SlotOf(h, f, k) == h.upvalues[f.openUpvalues[k]].at[2]
OnlyCaptured(h, f) ==
  /\ \A k \in DOMAIN f.openUpvalues, i \in DOMAIN f.frames :
        Within(f, i, SlotOf(h, f, k)) =>
          SlotOf(h, f, k) - f.frames[i].start[2] \in Point(h, f.frames[i]).captured
  /\ f.frames = <<>> => f.openUpvalues = <<>>

Sound(h, v, f) ==
  /\ HeapShape(h) /\ FiberShape(f)
  /\ FramesFit(h, v, f, Len(f.stack))
  /\ OpenList(h, f.openUpvalues, f.base)
  /\ OnlyCaptured(h, f)

Results == {"ready", "running", "success", "error", "compile error", "assertion failed"}
MachineShape(v) ==
  /\ DOMAIN v = {"modules", "lastModule", "methodNames", "output", "result"}
  /\ v.result \in Results
  /\ v.lastModule \in DOMAIN v.modules \cup {NoModule}

IInv ==
  /\ Sound(heap, vm, fiber)
  /\ MachineShape(vm)
  /\ vm.result = "running" => fiber.frames /= <<>>
  /\ vm.result = "ready" => fiber.base = 0 /\ fiber.frames = <<>>

-----------------------------------------------------------------------------
\* One step within the frame on top.

TopOf(f) == f.frames[Len(f.frames)]
FnOf(h, f) == h.fns[FunctionOf(h, TopOf(f))]
LeadsFromTop(h, f) == Leads(h.fns, FnOf(h, f), TopOf(f).ip, Point(h, TopOf(f)))

\* The functions of the frames of f are still verified in h2, by the same views.
Carried(h, h2, v2, f) ==
  \A i \in DOMAIN f.frames :
    FrameVerified(h2, v2.modules, f.frames[i]) /\ SameCode(h, h2, f.frames[i])

\* The frames of f2 are those of f, the one on top at ip.
MovedOn(f, f2, ip) ==
  /\ Len(f2.frames) = Len(f.frames)
  /\ \A i \in 1 .. Len(f.frames) :
       f2.frames[i] = IF i = Len(f.frames) THEN [f.frames[i] EXCEPT !.ip = ip] ELSE f.frames[i]

\* What is left on the list of open upvalues points to what can be captured at q
\* or below the frame on top, where it pointed before.
LeftCaptured(h, f, h2, f2, captured) ==
  \A k \in DOMAIN f2.openUpvalues :
    \/ SlotOf(h2, f2, k) - TopOf(f).start[2] \in captured
    \/ /\ SlotOf(h2, f2, k) < TopOf(f).start[2]
       /\ \E j \in DOMAIN f.openUpvalues : SlotOf(h, f, j) = SlotOf(h2, f2, k)

(* A frame that differs from another in where it is only, or in the array of   *)
(* the stack, has the same function, view and number of values.                *)
LEMMA SameFunction ==
  ASSUME NEW frame, NEW frame2,
         frame2.closure = frame.closure, frame2.size = frame.size,
         frame2.start[2] = frame.start[2]
  PROVE  \A h : /\ FunctionOf(h, frame2) = FunctionOf(h, frame)
                /\ ViewOf(h, frame2) = ViewOf(h, frame)
                /\ \A m : FrameVerified(h, m, frame2) <=> FrameVerified(h, m, frame)
BY DEF FunctionOf, ViewOf, NumValues, FrameVerified

(* What the view says of an instruction that a frame stands at.               *)
LEMMA AtInstruction ==
  ASSUME NEW h, NEW m, NEW frame, FrameVerified(h, m, frame), NEW ip \in DOMAIN ViewOf(h, frame)
  PROVE  InstructionVerified(h.fns, h.fns[FunctionOf(h, frame)], NumValues(frame),
                             ViewOf(h, frame), ip)
BY DEF FrameVerified, Verifies

LEMMA StepInFrame ==
  ASSUME NEW h, NEW v, NEW f, Sound(h, v, f), f.frames # <<>>,
         NEW h2, NEW v2, NEW f2, NEW q \in LeadsFromTop(h, f),
         HeapShape(h2), FiberShape(f2), OpenList(h2, f2.openUpvalues, f2.base),
         Carried(h, h2, v2, f),
         f2.base = f.base, f2.capacity = f.capacity, MovedOn(f, f2, q[1]),
         LeftCaptured(h, f, h2, f2, q[2].captured)
  PROVE  /\ FramesFit(h2, v2, f2, TopOf(f).start[2] + q[2].depth)
         /\ OnlyCaptured(h2, f2)
<1> DEFINE n == Len(f.frames)
           top == TopOf(f)
           view == ViewOf(h, top)
<1>1. /\ n \in Nat \ {0} /\ DOMAIN f.frames = 1 .. n
      /\ DOMAIN f2.frames = 1 .. n /\ Len(f2.frames) = n
  <2>1. n \in Nat /\ DOMAIN f.frames = 1 .. n
    BY SeqOfElements DEF Sound, FiberShape, IsSeq
  <2>2. n # 0
    BY <2>1 DEF Sound, FiberShape, IsSeq
  <2>3. DOMAIN f2.frames = 1 .. Len(f2.frames)
    BY SeqOfElements DEF FiberShape
  <2> QED  BY <2>1, <2>2, <2>3 DEF MovedOn
<1>2. \A i \in 1 .. n : FrameFits(h, v, f, Len(f.stack), i) /\ FrameShape(f.frames[i])
  BY <1>1 DEF Sound, FramesFit, FiberShape
<1>3. \A i \in 1 .. n : /\ f2.frames[i].closure = f.frames[i].closure
                        /\ f2.frames[i].size = f.frames[i].size
                        /\ f2.frames[i].start = f.frames[i].start
                        /\ f2.frames[i].ip = IF i = n THEN q[1] ELSE f.frames[i].ip
  BY <1>1, <1>2 DEF MovedOn, FrameShape
<1>4. \A i \in 1 .. n : /\ ViewOf(h2, f2.frames[i]) = ViewOf(h, f.frames[i])
                        /\ FunctionOf(h2, f2.frames[i]) = FunctionOf(h2, f.frames[i])
                        /\ FrameVerified(h2, v2.modules, f2.frames[i])
                        /\ h2.fns[FunctionOf(h2, f2.frames[i])].maxSlots
                             = h.fns[FunctionOf(h, f.frames[i])].maxSlots
  <2> TAKE i \in 1 .. n
  <2>1. /\ FunctionOf(h2, f2.frames[i]) = FunctionOf(h2, f.frames[i])
        /\ ViewOf(h2, f2.frames[i]) = ViewOf(h2, f.frames[i])
        /\ FrameVerified(h2, v2.modules, f2.frames[i])
             <=> FrameVerified(h2, v2.modules, f.frames[i])
    <3> DEFINE a == f.frames[i]
               b == f2.frames[i]
    <3>1. b.closure = a.closure /\ b.size = a.size /\ b.start[2] = a.start[2]
      BY <1>3
    <3> HIDE DEF a, b
    <3>2. /\ FunctionOf(h2, b) = FunctionOf(h2, a) /\ ViewOf(h2, b) = ViewOf(h2, a)
          /\ FrameVerified(h2, v2.modules, b) <=> FrameVerified(h2, v2.modules, a)
      BY <3>1, SameFunction
    <3> QED  BY <3>2 DEF a, b
  <2>2. FrameVerified(h2, v2.modules, f.frames[i]) /\ SameCode(h, h2, f.frames[i])
    BY <1>1 DEF Carried
  <2> QED  BY <2>1, <2>2 DEF SameCode
<1>5. /\ q[1] \in DOMAIN view /\ view[q[1]].depth = q[2].depth
      /\ q[2].captured \subseteq view[q[1]].captured
      /\ view[q[1]].captured \subseteq Nat
  <2>1. FrameVerified(h, v.modules, top) /\ top.ip \in DOMAIN view
    BY <1>1, <1>2 DEF FrameFits, TopOf
  <2>2. InstructionVerified(h.fns, FnOf(h, f), NumValues(top), view, top.ip)
    BY <2>1, AtInstruction DEF FnOf
  <2>3. /\ q[1] \in DOMAIN view /\ view[q[1]].depth = q[2].depth
        /\ q[2].captured \subseteq view[q[1]].captured
    BY <2>2 DEF InstructionVerified, LeadsFromTop, Point
  <2>4. InstructionVerified(h.fns, FnOf(h, f), NumValues(top), view, q[1])
    BY <2>1, <2>3, AtInstruction DEF FnOf
  <2>5. view[q[1]].captured \subseteq Nat
    BY <2>4 DEF InstructionVerified
  <2> QED  BY <2>3, <2>5
<1>6. Ascending(f2)
  <2>1. Ascending(f)
    BY DEF Sound, FramesFit
  <2>2. \A i, j \in 1 .. n : i <= j => f2.frames[i].start[2] <= f2.frames[j].start[2]
    BY <1>1, <1>3, <2>1 DEF Ascending
  <2>3. f2.frames[1].start[2] = 0
    BY <1>1, <1>3, <2>1 DEF Ascending
  <2> QED  BY <1>1, <2>2, <2>3 DEF Ascending
<1>7. ASSUME NEW i \in 1 .. n
      PROVE  FrameFits(h2, v2, f2, top.start[2] + q[2].depth, i)
  <2>1. f2.frames[i].start[1] = f2.base
    BY <1>2, <1>3 DEF FrameFits
  <2>2. f2.frames[i].size + h2.fns[FunctionOf(h2, f2.frames[i])].maxSlots <= f2.capacity
    BY <1>2, <1>3, <1>4 DEF FrameFits
  <2>3. CASE i = n
    <3>1. f2.frames[i].ip \in DOMAIN ViewOf(h2, f2.frames[i])
      BY <1>3, <1>4, <1>5, <2>3 DEF TopOf
    <3>2. Point(h2, f2.frames[i]).depth = q[2].depth
      BY <1>3, <1>4, <1>5, <2>3 DEF TopOf, Point
    <3> QED  BY <1>1, <1>3, <1>4, <2>1, <2>2, <2>3, <3>1, <3>2 DEF FrameFits, TopOf
  <2>4. CASE i # n
    <3>1. i + 1 \in 1 .. n
      BY <1>1, <2>4
    <3>2. f2.frames[i] = f.frames[i] /\ f2.frames[i + 1].start = f.frames[i + 1].start
      BY <1>1, <1>3, <2>4, <3>1 DEF MovedOn
    <3>3. Point(h2, f2.frames[i]) = Point(h, f.frames[i])
      BY <1>4, <3>2 DEF Point
    <3>4. f2.frames[i].ip \in DOMAIN ViewOf(h2, f2.frames[i])
      BY <1>2, <1>4, <3>2 DEF FrameFits
    <3>5. f2.frames[i].start[2] + Point(h2, f2.frames[i]).depth = f2.frames[i + 1].start[2] + 1
      BY <1>2, <2>4, <3>2, <3>3 DEF FrameFits
    <3> QED  BY <1>1, <1>4, <2>1, <2>2, <2>4, <3>4, <3>5 DEF FrameFits
  <2> QED  BY <2>3, <2>4
<1>8. ASSUME NEW k \in DOMAIN f2.openUpvalues, NEW i \in 1 .. n, Within(f2, i, SlotOf(h2, f2, k))
      PROVE  SlotOf(h2, f2, k) - f2.frames[i].start[2] \in Point(h2, f2.frames[i]).captured
  <2> DEFINE slot == SlotOf(h2, f2, k)
  <2>0. slot \in Nat
    BY DEF OpenList, HeapShape, UpvalueShape, SlotOf
  <2>1. /\ f.frames[i].start[2] <= slot
        /\ i < n => slot < f.frames[i + 1].start[2]
    <3>1. i < n => i + 1 \in 1 .. n
      BY <1>1
    <3>2. f2.frames[i].start = f.frames[i].start
      BY <1>3
    <3>3. i < n => f2.frames[i + 1].start = f.frames[i + 1].start
      BY <1>3, <3>1
    <3> HIDE DEF slot
    <3>4. /\ f2.frames[i].start[2] <= slot
          /\ i < n => slot < f2.frames[i + 1].start[2]
      BY <1>1, <1>8 DEF Within, slot
    <3> QED  BY <3>2, <3>3, <3>4
  <2>2. \A j \in 1 .. n : f.frames[j].start[2] \in Nat /\ f.frames[j].start[2] <= top.start[2]
    <3>1. Ascending(f)
      BY DEF Sound, FramesFit
    <3>2. \A j \in 1 .. n : f.frames[j].start[2] \in Nat
      BY <1>2 DEF FrameShape
    <3>3. \A j \in 1 .. n : f.frames[j].start[2] <= f.frames[n].start[2]
      BY <1>1, <3>1 DEF Ascending
    <3> QED  BY <3>2, <3>3 DEF TopOf
  <2>5. i < n => i + 1 \in 1 .. n
    BY <1>1
  <2> HIDE DEF slot
  <2>3. CASE slot - top.start[2] \in q[2].captured
    <3>1. slot >= top.start[2]
      <4>1. slot - top.start[2] \in Nat
        BY <1>5, <2>3
      <4>2. top.start[2] \in Nat
        BY <1>1, <2>2 DEF TopOf
      <4> QED  BY <2>0, <4>1, <4>2, DifferenceAbove
    <3>2. i = n
      <4> SUFFICES ASSUME i < n PROVE FALSE
        BY <1>1
      <4> DEFINE next == f.frames[i + 1].start[2]
      <4>1. next \in Nat /\ next <= top.start[2] /\ slot < next /\ top.start[2] \in Nat
        BY <1>1, <2>1, <2>2, <2>5 DEF TopOf
      <4> QED  BY <2>0, <3>1, <4>1
    <3>3. Point(h2, f2.frames[i]) = view[q[1]]
      BY <1>3, <1>4, <3>2 DEF Point, TopOf
    <3> QED  BY <1>1, <1>3, <1>5, <2>3, <3>2, <3>3 DEF TopOf, slot
  <2>4. CASE slot < top.start[2] /\ \E j \in DOMAIN f.openUpvalues : SlotOf(h, f, j) = slot
    <3>1. PICK j \in DOMAIN f.openUpvalues : SlotOf(h, f, j) = slot
      BY <2>4
    <3>2. i # n
      BY <1>1, <2>0, <2>1, <2>2, <2>4 DEF TopOf
    <3>3. Within(f, i, slot)
      BY <1>1, <2>1 DEF Within
    <3>4. slot - f.frames[i].start[2] \in Point(h, f.frames[i]).captured
      BY <1>1, <3>1, <3>3 DEF Sound, OnlyCaptured
    <3>5. f2.frames[i] = f.frames[i]
      BY <1>1, <3>2 DEF MovedOn
    <3>6. Point(h2, f2.frames[i]) = Point(h, f.frames[i])
      BY <1>4, <3>5 DEF Point
    <3> QED  BY <3>4, <3>5, <3>6 DEF slot
  <2> QED  BY <2>3, <2>4 DEF LeftCaptured, slot
<1>9. f2.frames # <<>>
  BY <1>1
<1> QED  BY <1>1, <1>6, <1>7, <1>8, <1>9 DEF FramesFit, OnlyCaptured

-----------------------------------------------------------------------------
\* The steps of the interpreter.

Here == Point(heap, Frame)

(* The instruction that is about to run is verified.                           *)
LEMMA AtHere ==
  ASSUME IInv, vm.result = "running"
  PROVE  /\ fiber.frames # <<>> /\ Len(fiber.frames) \in Nat \ {0}
         /\ DOMAIN fiber.frames = 1 .. Len(fiber.frames)
         /\ IsSeq(fiber.frames) /\ FrameShape(Frame)
         /\ Frame = TopOf(fiber) /\ Function = FnOf(heap, fiber)
         /\ Frame.ip \in Nat
         /\ InstructionVerified(heap.fns, Function, NumValues(Frame), ViewOf(heap, Frame), Frame.ip)
         /\ Here.depth \in Nat \ {0}
         /\ Len(fiber.stack) = Frame.start[2] + Here.depth
         /\ Here.captured \subseteq 0 .. (Here.depth - 1)
         /\ IsSeq(fiber.stack) /\ Len(fiber.stack) \in Nat
         /\ Frame.start[1] = fiber.base
<1>1. /\ Sound(heap, vm, fiber) /\ fiber.frames # <<>>
  BY DEF IInv
<1>2. FiberShape(fiber) /\ FramesFit(heap, vm, fiber, Len(fiber.stack))
  BY <1>1 DEF Sound
<1>3. /\ Len(fiber.frames) \in Nat \ {0} /\ DOMAIN fiber.frames = 1 .. Len(fiber.frames)
      /\ IsSeq(fiber.frames) /\ IsSeq(fiber.stack) /\ Len(fiber.stack) \in Nat
  <2>1. /\ Len(fiber.frames) \in Nat /\ DOMAIN fiber.frames = 1 .. Len(fiber.frames)
        /\ IsSeq(fiber.frames) /\ IsSeq(fiber.stack) /\ Len(fiber.stack) \in Nat
    BY <1>2, SeqOfElements DEF FiberShape, IsSeq
  <2>2. Len(fiber.frames) # 0
    BY <1>1, <1>2 DEF FiberShape, IsSeq
  <2> QED  BY <2>1, <2>2
<1>4. Frame = TopOf(fiber) /\ Function = FnOf(heap, fiber)
  BY DEF Frame, Last, TopOf, Function, Closure, FnOf, FunctionOf
<1>5. FrameShape(Frame) /\ FrameFits(heap, vm, fiber, Len(fiber.stack), Len(fiber.frames))
  BY <1>2, <1>3, <1>4 DEF FiberShape, FramesFit, TopOf
<1>6. /\ FrameVerified(heap, vm.modules, Frame) /\ Frame.ip \in DOMAIN ViewOf(heap, Frame)
      /\ Frame.start[2] + Here.depth = Len(fiber.stack)
      /\ Frame.start[1] = fiber.base
  BY <1>4, <1>5 DEF FrameFits, TopOf, Here
<1>7. InstructionVerified(heap.fns, Function, NumValues(Frame), ViewOf(heap, Frame), Frame.ip)
  BY <1>4, <1>6, AtInstruction DEF FnOf
<1>8. /\ Frame.ip \in Nat /\ Here.depth \in Nat \ {0}
      /\ Here.captured \subseteq 0 .. (Here.depth - 1)
  <2>1. FrameVerified(heap, vm.modules, Frame)
    BY <1>6
  <2>2. heap.fns[FunctionOf(heap, Frame)].maxSlots \in Nat
    BY <2>1 DEF FrameVerified, Verifies
  <2>3. NumValues(Frame) \in Nat
    BY <1>5 DEF FrameShape, NumValues
  <2>4. /\ Frame.ip \in 0 .. (Len(Function.code) - 1)
        /\ Here.depth \in 1 .. (NumValues(Frame) + Function.maxSlots)
        /\ Here.captured \subseteq 0 .. (Here.depth - 1)
    BY <1>7 DEF InstructionVerified, Here, Point
  <2>5. Function.maxSlots \in Nat
    BY <1>4, <2>2 DEF FnOf
  <2>6. Frame.ip \in Nat
    BY <2>4
  <2>7. Here.depth \in Nat \ {0}
    BY <2>3, <2>4, <2>5
  <2> QED  BY <2>4, <2>6, <2>7
<1> QED  BY <1>1, <1>3, <1>4, <1>5, <1>6, <1>7, <1>8

(* The functions of the calls are still verified after the step.               *)
LEMMA CodeCarries ==
  ASSUME IInv, VerifiedStep, NEW h2, h2.fns = heap'.fns, h2.closures = heap'.closures,
         DOMAIN heap.closures \subseteq DOMAIN heap'.closures,
         \A c \in DOMAIN heap.closures : heap'.closures[c] = heap.closures[c],
         DOMAIN vm.modules \subseteq DOMAIN vm'.modules
  PROVE  Carried(heap, h2, vm', fiber)
<1> SUFFICES ASSUME NEW i \in DOMAIN fiber.frames
             PROVE  /\ FrameVerified(h2, vm'.modules, fiber.frames[i])
                    /\ SameCode(heap, h2, fiber.frames[i])
  BY DEF Carried
<1> DEFINE frame == fiber.frames[i]
<1>1. FrameVerified(heap, vm.modules, frame)
  BY DEF IInv, Sound, FramesFit, FrameFits
<1> HIDE DEF frame
<1>2. FunctionOf(h2, frame) = FunctionOf(heap, frame)
  BY <1>1 DEF FrameVerified, FunctionOf
<1>3. CASE heap'.fns = heap.fns
  <2>1. ViewOf(h2, frame) = ViewOf(heap, frame)
    BY <1>2, <1>3 DEF ViewOf
  <2>2. FrameVerified(h2, vm'.modules, frame)
    BY <1>1, <1>2, <1>3, <2>1 DEF FrameVerified
  <2>3. SameCode(heap, h2, frame)
    BY <1>2, <1>3, <2>1 DEF SameCode
  <2> QED  BY <2>2, <2>3 DEF frame
<1>4. CASE heap'.fns # heap.fns
  <2>1. FrameVerified(heap', vm'.modules, frame) /\ SameCode(heap, heap', frame)
    BY <1>4 DEF VerifiedStep, frame
  <2>2. FunctionOf(heap', frame) = FunctionOf(h2, frame)
    BY DEF FunctionOf
  <2>3. ViewOf(heap', frame) = ViewOf(h2, frame)
    BY <2>2 DEF ViewOf
  <2>4. FrameVerified(h2, vm'.modules, frame)
    BY <2>1, <2>2, <2>3 DEF FrameVerified
  <2>5. SameCode(heap, h2, frame)
    BY <2>1, <2>2, <2>3 DEF SameCode
  <2> QED  BY <2>4, <2>5 DEF frame
<1> QED  BY <1>3, <1>4

(* The frames when the one on top moves on.                                    *)
LEMMA AdvancedFrames ==
  ASSUME IInv, vm.result = "running", NEW n
  PROVE  /\ IsSeq(Advanced(n)) /\ Len(Advanced(n)) = Len(fiber.frames)
         /\ \A i \in 1 .. Len(fiber.frames) :
              /\ Advanced(n)[i] = IF i = Len(fiber.frames)
                                  THEN [fiber.frames[i] EXCEPT !.ip = Frame.ip + n]
                                  ELSE fiber.frames[i]
              /\ FrameShape(Advanced(n)[i])
<1> DEFINE N == Len(fiber.frames)
           moved == [fiber.frames[N] EXCEPT !.ip = Frame.ip + n]
           t == [fiber.frames EXCEPT ![N] = moved]
<1>1. /\ N \in Nat \ {0} /\ IsSeq(fiber.frames) /\ DOMAIN fiber.frames = 1 .. N
      /\ \A i \in 1 .. N : FrameShape(fiber.frames[i])
      /\ Frame = fiber.frames[N]
  BY AtHere DEF TopOf, IInv, Sound, FiberShape
<1>2. Advanced(n) = t
  BY <1>1 DEF Advanced
<1>3. IsSeq(t) /\ Len(t) = N /\ \A i \in 1 .. N : t[i] = IF i = N THEN moved ELSE fiber.frames[i]
  <2> HIDE DEF moved
  <2> QED  BY <1>1, Replaced
<1>4. FrameShape(moved)
  BY <1>1 DEF FrameShape
<1> HIDE DEF t
<1>5. \A i \in 1 .. N : i = N => moved = [fiber.frames[i] EXCEPT !.ip = Frame.ip + n]
  OBVIOUS
<1> HIDE DEF moved
<1> QED  BY <1>1, <1>2, <1>3, <1>4, <1>5

(* An open upvalue points to what the frame on top can have captured, or to a   *)
(* slot below it.                                                              *)
LEMMA OpenSlot ==
  ASSUME IInv, vm.result = "running", NEW k \in DOMAIN fiber.openUpvalues
  PROVE  LET slot == SlotOf(heap, fiber, k)
         IN  /\ slot \in Nat /\ slot < Len(fiber.stack)
             /\ slot - Frame.start[2] \in Here.captured \/ slot < Frame.start[2]
<1> DEFINE slot == SlotOf(heap, fiber, k)
           N == Len(fiber.frames)
<1>1. slot \in Nat
  BY DEF IInv, Sound, OpenList, HeapShape, UpvalueShape, SlotOf
<1>2. /\ N \in DOMAIN fiber.frames /\ Frame = fiber.frames[N] /\ Frame.start[2] \in Nat
      /\ Here.depth \in Nat \ {0} /\ Here.captured \subseteq 0 .. (Here.depth - 1)
      /\ Len(fiber.stack) = Frame.start[2] + Here.depth
  BY AtHere DEF TopOf, FrameShape
<1>3. CASE slot < Frame.start[2]
  BY <1>1, <1>2, <1>3
<1>4. CASE Frame.start[2] <= slot
  <2>1. Within(fiber, N, slot)
    BY <1>1, <1>2, <1>4 DEF Within
  <2>2. slot - Frame.start[2] \in Here.captured
    BY <1>2, <2>1 DEF IInv, Sound, OnlyCaptured, Here
  <2> HIDE DEF slot
  <2>3. slot - Frame.start[2] <= Here.depth - 1
    BY <1>1, <1>2, <2>2
  <2>4. slot < Frame.start[2] + Here.depth
    BY <1>1, <1>2, <2>3
  <2> QED  BY <1>1, <1>2, <2>2, <2>4 DEF slot
<1> QED  BY <1>1, <1>2, <1>3, <1>4

\* What the steps within the frame on top do to fiber, heap and vm.
Advances(n) ==
  /\ DOMAIN fiber' = DOMAIN fiber
  /\ fiber'.base = fiber.base /\ fiber'.capacity = fiber.capacity
  /\ fiber'.frames = Advanced(n)
  /\ IsSeq(fiber'.stack) /\ IsSeq(fiber'.openUpvalues)
ClosuresKept(h, h2) ==
  /\ DOMAIN h.closures \subseteq DOMAIN h2.closures
  /\ \A c \in DOMAIN h.closures : h2.closures[c] = h.closures[c]
MachineKept ==
  /\ MachineShape(vm') /\ vm'.result = "running"
  /\ DOMAIN vm.modules \subseteq DOMAIN vm'.modules

LEMMA StepKeepsIInv ==
  ASSUME IInv, vm.result = "running", VerifiedStep,
         NEW q \in LeadsFromTop(heap, fiber), NEW n, q[1] = Frame.ip + n, Advances(n),
         Len(fiber'.stack) = Frame.start[2] + q[2].depth,
         HeapShape(heap'), ClosuresKept(heap, heap'), MachineKept,
         OpenList(heap', fiber'.openUpvalues, fiber'.base),
         LeftCaptured(heap, fiber, heap', fiber', q[2].captured)
  PROVE  IInv'
<1>1. Carried(heap, heap', vm', fiber)
  <2>1. /\ heap'.fns = heap'.fns /\ heap'.closures = heap'.closures
    OBVIOUS
  <2> QED  BY <2>1, CodeCarries DEF ClosuresKept, MachineKept
<1>2. FiberShape(fiber') /\ MovedOn(fiber, fiber', q[1])
  <2>1. DOMAIN fiber'.frames = 1 .. Len(fiber.frames) /\ Len(fiber'.frames) = Len(fiber.frames)
    BY AdvancedFrames, SeqOfElements DEF Advances
  <2>2. FiberShape(fiber')
    <3>1. FiberShape(fiber)
      BY DEF IInv, Sound
    <3>2. IsSeq(fiber'.frames) /\ \A i \in DOMAIN fiber'.frames : FrameShape(fiber'.frames[i])
      <4>1. /\ IsSeq(Advanced(n)) /\ fiber'.frames = Advanced(n)
            /\ \A i \in 1 .. Len(fiber.frames) : FrameShape(Advanced(n)[i])
        BY AdvancedFrames DEF Advances
      <4> QED  BY <2>1, <4>1
    <3> QED  BY <3>1, <3>2 DEF Advances, FiberShape
  <2>3. MovedOn(fiber, fiber', q[1])
    BY <2>1, AdvancedFrames DEF Advances, MovedOn
  <2> QED  BY <2>2, <2>3
<1>3. fiber.frames # <<>> /\ Sound(heap, vm, fiber) /\ Frame = TopOf(fiber)
  BY AtHere DEF IInv
<1>4. /\ FramesFit(heap', vm', fiber', TopOf(fiber).start[2] + q[2].depth)
      /\ OnlyCaptured(heap', fiber')
  BY <1>1, <1>2, <1>3, StepInFrame DEF Advances
<1>5. Sound(heap', vm', fiber')
  BY <1>2, <1>3, <1>4 DEF Sound
<1>6. fiber'.frames # <<>>
  BY AtHere, AdvancedFrames DEF Advances
<1> QED  BY <1>5, <1>6 DEF IInv, MachineKept

\* Pointers of the upvalues and which are open stay as they are.
UpvaluesKept ==
  /\ DOMAIN heap'.upvalues = DOMAIN heap.upvalues
  /\ \A u \in DOMAIN heap.upvalues : /\ heap'.upvalues[u].open = heap.upvalues[u].open
                                     /\ heap'.upvalues[u].at = heap.upvalues[u].at

LEMMA SameUpvalues ==
  ASSUME IInv, vm.result = "running", UpvaluesKept, fiber'.openUpvalues = fiber.openUpvalues,
         fiber'.base = fiber.base, NEW captured, Here.captured \subseteq captured
  PROVE  /\ OpenList(heap', fiber'.openUpvalues, fiber'.base)
         /\ LeftCaptured(heap, fiber, heap', fiber', captured)
<1>1. OpenList(heap, fiber.openUpvalues, fiber.base)
  BY DEF IInv, Sound
<1>2. OpenList(heap', fiber'.openUpvalues, fiber'.base)
  BY <1>1 DEF OpenList, UpvaluesKept
<1>3. ASSUME NEW k \in DOMAIN fiber'.openUpvalues
      PROVE  \/ SlotOf(heap', fiber', k) - TopOf(fiber).start[2] \in captured
             \/ /\ SlotOf(heap', fiber', k) < TopOf(fiber).start[2]
                /\ \E j \in DOMAIN fiber.openUpvalues : SlotOf(heap, fiber, j) = SlotOf(heap', fiber', k)
  <2>1. SlotOf(heap', fiber', k) = SlotOf(heap, fiber, k)
    BY <1>1 DEF OpenList, UpvaluesKept, SlotOf
  <2>2. Frame = TopOf(fiber)
    BY AtHere
  <2> QED  BY <2>1, <2>2, OpenSlot
<1> QED  BY <1>2, <1>3 DEF LeftCaptured

(* A step that moves on within the frame on top and leaves the upvalues alone. *)
LEMMA StackedStep ==
  ASSUME IInv, vm.result = "running", VerifiedStep,
         NEW q \in LeadsFromTop(heap, fiber), NEW n, q[1] = Frame.ip + n,
         NEW stack, IsSeq(stack), Stacked(stack, n),
         Len(stack) = Frame.start[2] + q[2].depth, Here.captured \subseteq q[2].captured,
         HeapShape(heap'), ClosuresKept(heap, heap'), UpvaluesKept, MachineKept
  PROVE  IInv'
<1>1. FiberShape(fiber)
  BY DEF IInv, Sound
<1>2. /\ fiber'.stack = stack /\ fiber'.openUpvalues = fiber.openUpvalues
      /\ fiber'.base = fiber.base /\ Advances(n)
  BY <1>1 DEF Stacked, Advances, FiberShape
<1>3. /\ OpenList(heap', fiber'.openUpvalues, fiber'.base)
      /\ LeftCaptured(heap, fiber, heap', fiber', q[2].captured)
  BY <1>2, SameUpvalues
<1> QED  BY <1>2, <1>3, StepKeepsIInv

\* The instructions that do not just go on to the following one.
Branching == {"RETURN", "JUMP", "LOOP", "JUMP_IF", "AND", "OR", "CLOSE_UPVALUE", "CLOSURE"}
Follow(n) == Following(heap.fns, Function, Frame.ip) = Frame.ip + n
Effect == StackEffect(Instruction[1], Instruction[2])

LEMMA OrdinaryLead ==
  ASSUME IInv, vm.result = "running", Instruction[1] \notin Branching, NEW n, Follow(n)
  PROVE  \E q \in LeadsFromTop(heap, fiber) :
            /\ q[1] = Frame.ip + n /\ q[2].depth = Here.depth + Effect
            /\ q[2].captured = Here.captured
<1> DEFINE after == [depth |-> Here.depth + Effect,
                     captured |-> StillCaptured(Function, Frame.ip, Here)
                                  \cup LocalsCaptured(heap.fns, Function, Frame.ip)]
<1>1. LeadsFromTop(heap, fiber) = Leads(heap.fns, Function, Frame.ip, Here)
  BY AtHere DEF LeadsFromTop, Here
<1>2. Leads(heap.fns, Function, Frame.ip, Here) = {<<Following(heap.fns, Function, Frame.ip), after>>}
  BY DEF Leads, Branching, Instruction, Effect
<1>3. after.captured = Here.captured
  BY DEF StillCaptured, LocalsCaptured, Branching, Instruction
<1>4. after.depth = Here.depth + Effect
  OBVIOUS
<1> HIDE DEF after
<1> DEFINE q == <<Following(heap.fns, Function, Frame.ip), after>>
<1>5. q[1] = Frame.ip + n /\ q[2] = after
  BY DEF Follow
<1>6. q \in LeadsFromTop(heap, fiber)
  BY <1>1, <1>2
<1> HIDE DEF q
<1> QED  BY <1>3, <1>4, <1>5, <1>6

LEMMA OrdinaryStep ==
  ASSUME IInv, vm.result = "running", VerifiedStep,
         Instruction[1] \notin Branching, NEW n, Follow(n),
         NEW stack, IsSeq(stack), Stacked(stack, n), Effect \in Int,
         Len(stack) = Len(fiber.stack) + Effect,
         HeapShape(heap'), ClosuresKept(heap, heap'), UpvaluesKept, MachineKept
  PROVE  IInv'
<1>1. PICK q \in LeadsFromTop(heap, fiber) :
            /\ q[1] = Frame.ip + n /\ q[2].depth = Here.depth + Effect
            /\ q[2].captured = Here.captured
  BY OrdinaryLead
<1>2. Len(stack) = Frame.start[2] + q[2].depth
  <2>1. Len(fiber.stack) = Frame.start[2] + Here.depth /\ Here.depth \in Nat /\ Frame.start[2] \in Nat
    BY AtHere DEF FrameShape
  <2> QED  BY <1>1, <2>1
<1>3. Here.captured \subseteq q[2].captured
  BY <1>1
<1> QED  BY <1>1, <1>2, <1>3, StackedStep

-----------------------------------------------------------------------------
\* The instructions that only push, pop and replace values.

LEMMA Lengths ==
  ASSUME IInv, vm.result = "running"
  PROVE  /\ Instruction[1] \in {"NULL", "FALSE", "TRUE", "LOAD_LOCAL_n", "END_MODULE", "POP",
                                "CONSTRUCT"} => Follow(1)
         /\ Instruction[1] \in {"LOAD_LOCAL", "STORE_LOCAL", "LOAD_UPVALUE", "STORE_UPVALUE",
                                "LOAD_FIELD_THIS", "STORE_FIELD_THIS", "LOAD_FIELD",
                                "STORE_FIELD", "CLASS"} => Follow(2)
         /\ Instruction[1] \in {"CONSTANT", "LOAD_MODULE_VAR", "STORE_MODULE_VAR", "CALL",
                                "METHOD_INSTANCE", "METHOD_STATIC", "IMPORT_MODULE",
                                "IMPORT_VARIABLE"} => Follow(3)
         /\ Instruction[1] = "SUPER" => Follow(5)
<1>1. Frame.ip \in Nat
  BY AtHere
<1>2. Function.code[Frame.ip + 1][1] = Instruction[1]
  BY DEF Instruction
<1>3. ASSUME NEW k \in Nat, NumArguments(heap.fns, Function, Frame.ip) = k,
             Instruction[1] # "IMPORT_VARIABLE"
      PROVE  Follow(k + 1)
  BY <1>1, <1>2, <1>3 DEF Follow, Following
<1>4. Instruction[1] = "IMPORT_VARIABLE" => Follow(3)
  BY <1>2 DEF Follow, Following
<1> DEFINE args == NumArguments(heap.fns, Function, Frame.ip)
<1>5. /\ Instruction[1] \in {"NULL", "FALSE", "TRUE", "LOAD_LOCAL_n", "END_MODULE", "POP",
                             "CONSTRUCT"} => args = 0
      /\ Instruction[1] \in {"LOAD_LOCAL", "STORE_LOCAL", "LOAD_UPVALUE", "STORE_UPVALUE",
                             "LOAD_FIELD_THIS", "STORE_FIELD_THIS", "LOAD_FIELD",
                             "STORE_FIELD", "CLASS"} => args = 1
      /\ Instruction[1] \in {"CONSTANT", "LOAD_MODULE_VAR", "STORE_MODULE_VAR", "CALL",
                             "METHOD_INSTANCE", "METHOD_STATIC", "IMPORT_MODULE"} => args = 2
      /\ Instruction[1] = "SUPER" => args = 4
  BY <1>2 DEF NumArguments
<1> HIDE DEF args
<1>6. (args = 0 /\ Instruction[1] # "IMPORT_VARIABLE") => Follow(1)
  BY <1>3 DEF args
<1>7. (args = 1 /\ Instruction[1] # "IMPORT_VARIABLE") => Follow(2)
  BY <1>3 DEF args
<1>8. (args = 2 /\ Instruction[1] # "IMPORT_VARIABLE") => Follow(3)
  BY <1>3 DEF args
<1>9. (args = 4 /\ Instruction[1] # "IMPORT_VARIABLE") => Follow(5)
  BY <1>3 DEF args
<1> QED  BY <1>4, <1>5, <1>6, <1>7, <1>8, <1>9

LEMMA Effects ==
  /\ Instruction[1] \in {"CONSTANT", "NULL", "FALSE", "TRUE", "LOAD_LOCAL_n", "LOAD_LOCAL",
                         "LOAD_UPVALUE", "LOAD_MODULE_VAR", "LOAD_FIELD_THIS", "CLOSURE",
                         "END_MODULE", "IMPORT_MODULE", "IMPORT_VARIABLE"} => Effect = 1
  /\ Instruction[1] \in {"STORE_LOCAL", "STORE_UPVALUE", "STORE_MODULE_VAR", "STORE_FIELD_THIS",
                         "LOAD_FIELD", "JUMP", "LOOP", "CONSTRUCT"} => Effect = 0
  /\ Instruction[1] \in {"STORE_FIELD", "POP", "JUMP_IF", "AND", "OR", "CLOSE_UPVALUE",
                         "CLASS"} => Effect = -1
  /\ Instruction[1] \in {"METHOD_INSTANCE", "METHOD_STATIC"} => Effect = -2
  /\ Instruction[1] \in {"CALL", "SUPER"} => Effect = -Instruction[2]
BY DEF Effect, StackEffect

(* Steps that leave the heap, its closures and upvalues, or the machine alone.  *)
LEMMA HeapKept ==
  ASSUME IInv, DOMAIN heap' = DOMAIN heap, heap'.closures = heap.closures,
         heap'.upvalues = heap.upvalues
  PROVE  HeapShape(heap') /\ ClosuresKept(heap, heap') /\ UpvaluesKept
BY DEF IInv, Sound, HeapShape, ClosuresKept, UpvaluesKept

LEMMA VmKept ==
  ASSUME IInv, vm.result = "running", vm' = vm
  PROVE  MachineKept
BY DEF IInv, MachineKept, MachineShape

LEMMA StackOps ==
  ASSUME IInv, vm.result = "running"
  PROVE  /\ IsSeq(fiber.stack) /\ Len(fiber.stack) \in Nat
         /\ \A v : IsSeq(Append(fiber.stack, v)) /\ Len(Append(fiber.stack, v)) = Len(fiber.stack) + 1
         /\ \A n \in 0 .. Len(fiber.stack) :
              /\ IsSeq(Dropped(n)) /\ Len(Dropped(n)) = Len(fiber.stack) - n
              /\ \A v : /\ IsSeq(Append(Dropped(n), v))
                        /\ Len(Append(Dropped(n), v)) = Len(fiber.stack) - n + 1
         /\ \A p, v : IsSeq(Written(p, v)) /\ Len(Written(p, v)) = Len(fiber.stack)
<1>1. IsSeq(fiber.stack) /\ Len(fiber.stack) \in Nat
  BY AtHere
<1>2. ASSUME NEW n \in 0 .. Len(fiber.stack)
      PROVE  IsSeq(Dropped(n)) /\ Len(Dropped(n)) = Len(fiber.stack) - n
  <2> DEFINE m == Len(fiber.stack) - n
  <2>1. m \in 0 .. Len(fiber.stack) /\ 1 <= m + 1
    BY <1>1
  <2> HIDE DEF m
  <2>2. IsSeq(SubSeq(fiber.stack, 1, m)) /\ Len(SubSeq(fiber.stack, 1, m)) = m - 1 + 1
    BY <1>1, <2>1, Part
  <2> QED  BY <1>1, <2>1, <2>2 DEF Dropped, m
<1>3. \A v : IsSeq(Append(fiber.stack, v)) /\ Len(Append(fiber.stack, v)) = Len(fiber.stack) + 1
  BY <1>1, Appended
<1>4. \A n \in 0 .. Len(fiber.stack) : \A v :
            /\ IsSeq(Append(Dropped(n), v))
            /\ Len(Append(Dropped(n), v)) = Len(fiber.stack) - n + 1
  BY <1>2, Appended
<1>5. \A p, v : IsSeq(Written(p, v)) /\ Len(Written(p, v)) = Len(fiber.stack)
  <2> TAKE p, v
  <2> DEFINE i == p[2] + 1
             t == [fiber.stack EXCEPT ![i] = v]
  <2>1. IsSeq(t) /\ Len(t) = Len(fiber.stack)
    <3> HIDE DEF i
    <3> QED  BY <1>1, Replaced
  <2>2. Written(p, v) = t \/ Written(p, v) = fiber.stack
    BY DEF Written
  <2> HIDE DEF t
  <2> QED  BY <1>1, <2>1, <2>2
<1> QED  BY <1>1, <1>2, <1>3, <1>4, <1>5

LEMMA PushStep ==
  ASSUME IInv, VerifiedStep, NEW ops, NEW v, NEW n, Push(ops, v, n),
         Instruction[1] \notin Branching, Effect = 1, Follow(n)
  PROVE  IInv'
<1>1. vm.result = "running" /\ Stacked(Append(fiber.stack, v), n) /\ heap' = heap /\ vm' = vm
  BY DEF Push, Running
<1>2. /\ IsSeq(Append(fiber.stack, v))
      /\ Len(Append(fiber.stack, v)) = Len(fiber.stack) + Effect
  BY <1>1, StackOps
<1>3. HeapShape(heap') /\ ClosuresKept(heap, heap') /\ UpvaluesKept /\ MachineKept
  BY <1>1, HeapKept, VmKept
<1>4. Effect \in Int
  OBVIOUS
<1> DEFINE stack == Append(fiber.stack, v)
<1> HIDE DEF stack
<1> QED  BY <1>1, <1>2, <1>3, <1>4, OrdinaryStep DEF stack

LEMMA PushSteps ==
  ASSUME IInv, VerifiedStep,
         LoadConstant \/ LoadLocalVariable \/ LoadModuleVariable \/ LoadUpvalue
  PROVE  IInv'
<1> USE DEF Branching
<1>1. CASE LoadConstant
  <2>1. CASE Push({"CONSTANT"}, ConstantAt(Short(1)), 3)
    <3>1. Instruction[1] = "CONSTANT" /\ vm.result = "running"
      BY <2>1 DEF Push, Running
    <3>2. Effect = 1 /\ Follow(3)
      BY <3>1, Lengths, Effects
    <3> QED  BY <2>1, <3>1, <3>2, PushStep
  <2>2. CASE Push(DOMAIN Literals, Literals[Instruction[1]], 1)
    <3>1. Instruction[1] \in {"NULL", "FALSE", "TRUE"} /\ vm.result = "running"
      BY <2>2 DEF Push, Running, Literals
    <3>2. Effect = 1 /\ Follow(1)
      BY <3>1, Lengths, Effects
    <3>3. Instruction[1] \notin Branching
      BY <3>1
    <3> HIDE DEF Branching
    <3> QED  BY <2>2, <3>2, <3>3, PushStep
  <2> QED  BY <1>1, <2>1, <2>2 DEF LoadConstant
<1>2. CASE LoadLocalVariable
  <2>1. CASE Push({"LOAD_LOCAL_n"}, Read(Slot(Instruction[2])), 1)
    <3>1. Instruction[1] = "LOAD_LOCAL_n" /\ vm.result = "running"
      BY <2>1 DEF Push, Running
    <3>2. Effect = 1 /\ Follow(1)
      BY <3>1, Lengths, Effects
    <3> QED  BY <2>1, <3>1, <3>2, PushStep
  <2>2. CASE Push({"LOAD_LOCAL"}, Read(Slot(Byte(1))), 2)
    <3>1. Instruction[1] = "LOAD_LOCAL" /\ vm.result = "running"
      BY <2>2 DEF Push, Running
    <3>2. Effect = 1 /\ Follow(2)
      BY <3>1, Lengths, Effects
    <3> QED  BY <2>2, <3>1, <3>2, PushStep
  <2> QED  BY <1>2, <2>1, <2>2 DEF LoadLocalVariable
<1>3. CASE LoadModuleVariable
  <2> DEFINE v == vm.modules[Function.module][Short(1) + 1][2]
  <2>1. Push({"LOAD_MODULE_VAR"}, v, 3)
    BY <1>3 DEF LoadModuleVariable
  <2> HIDE DEF v
  <2>2. Instruction[1] = "LOAD_MODULE_VAR" /\ vm.result = "running"
    BY <2>1 DEF Push, Running
  <2>3. Effect = 1 /\ Follow(3)
    BY <2>2, Lengths, Effects
  <2> QED  BY <2>1, <2>2, <2>3, PushStep
<1>4. CASE LoadUpvalue
  <2> DEFINE v == IF Upvalue(Byte(1)).open THEN Read(Upvalue(Byte(1)).at) ELSE Upvalue(Byte(1)).closed
  <2>1. Push({"LOAD_UPVALUE"}, v, 2)
    BY <1>4 DEF LoadUpvalue
  <2> HIDE DEF v
  <2>2. Instruction[1] = "LOAD_UPVALUE" /\ vm.result = "running"
    BY <2>1 DEF Push, Running
  <2>3. Effect = 1 /\ Follow(2)
    BY <2>2, Lengths, Effects
  <2> QED  BY <2>1, <2>2, <2>3, PushStep
<1> QED  BY <1>1, <1>2, <1>3, <1>4

(* What the instruction that is about to run takes is there to take.           *)
LEMMA Available ==
  ASSUME IInv, vm.result = "running"
  PROVE  /\ Instruction[2] \in Nat /\ Instruction[1] # "END"
         /\ Taken(Instruction[1], Instruction[2]) <= Here.depth
         /\ Here.depth <= Len(fiber.stack)
         /\ Instruction[1] # "CLOSE_UPVALUE" =>
              Here.captured \subseteq 0 .. (Here.depth - Taken(Instruction[1], Instruction[2]) - 1)
         /\ Function.module \in DOMAIN vm.modules
<1>1. InstructionVerified(heap.fns, Function, NumValues(Frame), ViewOf(heap, Frame), Frame.ip)
  BY AtHere
<1>2. /\ Instruction[2] \in Nat /\ Instruction[1] # "END"
      /\ Taken(Instruction[1], Instruction[2]) <= Here.depth
  BY <1>1 DEF InstructionVerified, Instruction, Here, Point
<1>3. Instruction[1] # "CLOSE_UPVALUE" =>
         Here.captured \subseteq 0 .. (Here.depth - Taken(Instruction[1], Instruction[2]) - 1)
  BY <1>1 DEF InstructionVerified, Instruction, Here, Point, StillCaptured
<1>4. Here.depth <= Len(fiber.stack)
  BY AtHere DEF FrameShape
<1>5. Function.module \in DOMAIN vm.modules
  <2>1. FrameVerified(heap, vm.modules, Frame)
    BY AtHere DEF IInv, Sound, FramesFit, FrameFits, TopOf
  <2> QED  BY <2>1, AtHere DEF FrameVerified, FnOf
<1> QED  BY <1>2, <1>3, <1>4, <1>5

(* A module that is loaded later changes nothing for the frames.               *)
LEMMA MoreModules ==
  ASSUME NEW h, NEW v, NEW v2, NEW f, Sound(h, v, f), DOMAIN v.modules \subseteq DOMAIN v2.modules
  PROVE  Sound(h, v2, f)
<1>2. \A i \in DOMAIN f.frames : FrameVerified(h, v2.modules, f.frames[i])
  BY DEF Sound, FramesFit, FrameFits, FrameVerified
<1>3. \A i \in DOMAIN f.frames : FrameFits(h, v2, f, Len(f.stack), i)
  BY <1>2 DEF Sound, FramesFit, FrameFits
<1> QED  BY <1>3 DEF Sound, FramesFit

LEMMA StopStep ==
  ASSUME IInv, NEW result \in Results \ {"ready", "running"}, Stop(result)
  PROVE  IInv'
<1>1. /\ heap' = heap /\ fiber' = fiber /\ vm' = [vm EXCEPT !.result = result]
  BY DEF Stop
<1>2. MachineShape(vm') /\ vm'.result = result /\ vm'.modules = vm.modules
  BY <1>1 DEF IInv, MachineShape
<1>3. Sound(heap, vm', fiber)
  BY <1>2, MoreModules DEF IInv
<1> QED  BY <1>1, <1>2, <1>3 DEF IInv

LEMMA Stops ==
  ASSUME IInv, RuntimeError \/ AssertionFails
  PROVE  IInv'
BY StopStep DEF RuntimeError, AssertionFails, Results

LEMMA VariableSteps ==
  ASSUME IInv, VerifiedStep,
         EndModule \/ ImportVariable \/ StoreLocalVariable \/ StoreModuleVariable \/ Pop
  PROVE  IInv'
<1> USE DEF Branching
<1>1. CASE EndModule
  <2>1. /\ vm.result = "running" /\ Instruction[1] = "END_MODULE" /\ heap' = heap
        /\ Stacked(Append(fiber.stack, Null), 1)
        /\ vm' = [vm EXCEPT !.lastModule = Function.module]
    BY <1>1 DEF EndModule, Running
  <2>2. Effect = 1 /\ Follow(1) /\ Instruction[1] \notin Branching
    BY <2>1, Lengths, Effects
  <2>3. MachineKept
    BY <2>1, Available DEF IInv, MachineShape, MachineKept
  <2>4. HeapShape(heap') /\ ClosuresKept(heap, heap') /\ UpvaluesKept
    BY <2>1, HeapKept
  <2> DEFINE stack == Append(fiber.stack, Null)
  <2>5. IsSeq(stack) /\ Len(stack) = Len(fiber.stack) + Effect /\ Effect \in Int
    BY <2>1, <2>2, StackOps
  <2> HIDE DEF stack, Branching
  <2> QED  BY <2>1, <2>2, <2>3, <2>4, <2>5, OrdinaryStep DEF stack
<1>2. CASE ImportVariable
  <2>1. vm.result = "running" /\ Instruction[1] = "IMPORT_VARIABLE"
    BY <1>2 DEF ImportVariable, Running
  <2>2. CASE RuntimeError \/ AssertionFails
    BY <2>2, Stops
  <2>3. ASSUME NEW v, Stacked(Append(fiber.stack, v), 3), heap' = heap, vm' = vm
        PROVE  IInv'
    <3>1. Effect = 1 /\ Follow(3) /\ Instruction[1] \notin Branching
      BY <2>1, Lengths, Effects
    <3>3. HeapShape(heap') /\ ClosuresKept(heap, heap') /\ UpvaluesKept /\ MachineKept
      BY <2>1, <2>3, HeapKept, VmKept
    <3> DEFINE stack == Append(fiber.stack, v)
    <3>4. IsSeq(stack) /\ Len(stack) = Len(fiber.stack) + Effect /\ Effect \in Int
      BY <2>1, <3>1, StackOps
    <3> HIDE DEF stack, Branching
    <3> QED  BY <2>1, <2>3, <3>1, <3>3, <3>4, OrdinaryStep DEF stack
  <2> QED  BY <1>2, <2>2, <2>3 DEF ImportVariable
<1>3. CASE StoreLocalVariable
  <2> DEFINE stack == Written(Slot(Byte(1)), Peek)
  <2>1. /\ vm.result = "running" /\ Instruction[1] = "STORE_LOCAL"
        /\ Stacked(stack, 2) /\ heap' = heap /\ vm' = vm
    BY <1>3 DEF StoreLocalVariable, Running
  <2>2. Effect = 0 /\ Follow(2) /\ Instruction[1] \notin Branching
    BY <2>1, Lengths, Effects
  <2>3. HeapShape(heap') /\ ClosuresKept(heap, heap') /\ UpvaluesKept /\ MachineKept
    BY <2>1, HeapKept, VmKept
  <2>4. IsSeq(stack) /\ Len(stack) = Len(fiber.stack) + Effect /\ Effect \in Int
    BY <2>1, <2>2, StackOps
  <2> HIDE DEF stack, Branching
  <2> QED  BY <2>1, <2>2, <2>3, <2>4, OrdinaryStep
<1>4. CASE StoreModuleVariable
  <2> DEFINE stack == fiber.stack
  <2>1. /\ vm.result = "running" /\ Instruction[1] = "STORE_MODULE_VAR"
        /\ Stacked(stack, 3) /\ heap' = heap
        /\ vm' = [vm EXCEPT !.modules[Function.module][Short(1) + 1][2] = Peek]
    BY <1>4 DEF StoreModuleVariable, Running
  <2>2. Effect = 0 /\ Follow(3) /\ Instruction[1] \notin Branching
    BY <2>1, Lengths, Effects
  <2>3. MachineKept
    BY <2>1 DEF IInv, MachineShape, MachineKept
  <2>4. HeapShape(heap') /\ ClosuresKept(heap, heap') /\ UpvaluesKept
    BY <2>1, HeapKept
  <2>5. IsSeq(stack) /\ Len(stack) = Len(fiber.stack) + Effect /\ Effect \in Int
    BY <2>1, <2>2, StackOps
  <2> HIDE DEF stack, Branching
  <2> QED  BY <2>1, <2>2, <2>3, <2>4, <2>5, OrdinaryStep
<1>5. CASE Pop
  <2> DEFINE stack == Dropped(1)
  <2>1. /\ vm.result = "running" /\ Instruction[1] = "POP"
        /\ Stacked(stack, 1) /\ heap' = heap /\ vm' = vm
    BY <1>5 DEF Pop, Running
  <2>2. Effect = -1 /\ Follow(1) /\ Instruction[1] \notin Branching
    BY <2>1, Lengths, Effects
  <2>3. HeapShape(heap') /\ ClosuresKept(heap, heap') /\ UpvaluesKept /\ MachineKept
    BY <2>1, HeapKept, VmKept
  <2>4. IsSeq(stack) /\ Len(stack) = Len(fiber.stack) + Effect /\ Effect \in Int
    <3>1. 1 \in 0 .. Len(fiber.stack)
      BY <2>1, Available, AtHere
    <3> QED  BY <2>1, <2>2, <3>1, StackOps
  <2> HIDE DEF stack, Branching
  <2> QED  BY <2>1, <2>2, <2>3, <2>4, OrdinaryStep
<1> QED  BY <1>1, <1>2, <1>3, <1>4, <1>5

LEMMA ObjectSteps ==
  ASSUME IInv, VerifiedStep,
         LoadField \/ StoreField \/ MakeClass \/ BindMethod \/ Construct
  PROVE  IInv'
<1> USE DEF Branching
<1>1. CASE LoadField
  <2>1. vm.result = "running" /\ Instruction[1] \in {"LOAD_FIELD", "LOAD_FIELD_THIS"}
    BY <1>1 DEF LoadField, Running
  <2>2. ASSUME NEW v, heap' = heap, vm' = vm,
               Stacked(Append(IF Running({"LOAD_FIELD_THIS"}) THEN fiber.stack ELSE Dropped(1), v), 2)
        PROVE  IInv'
    <3> DEFINE stack == Append(IF Running({"LOAD_FIELD_THIS"}) THEN fiber.stack ELSE Dropped(1), v)
    <3>1. Follow(2) /\ Instruction[1] \notin Branching
      BY <2>1, Lengths
    <3>2. HeapShape(heap') /\ ClosuresKept(heap, heap') /\ UpvaluesKept /\ MachineKept
      BY <2>1, <2>2, HeapKept, VmKept
    <3>3. Effect \in Int /\ IsSeq(stack) /\ Len(stack) = Len(fiber.stack) + Effect
      <4>1. CASE Instruction[1] = "LOAD_FIELD_THIS"
        BY <2>1, <4>1, StackOps, Effects DEF Running
      <4>2. CASE Instruction[1] = "LOAD_FIELD"
        <5>1. 1 \in 0 .. Len(fiber.stack) /\ Effect = 0
          BY <2>1, <4>2, Available, AtHere, Effects
        <5>2. stack = Append(Dropped(1), v)
          BY <4>2 DEF Running
        <5> HIDE DEF stack
        <5> QED  BY <2>1, <5>1, <5>2, StackOps
      <4> QED  BY <2>1, <4>1, <4>2
    <3>4. Stacked(stack, 2)
      BY <2>2
    <3> HIDE DEF stack, Branching
    <3> QED  BY <2>1, <3>1, <3>2, <3>3, <3>4, OrdinaryStep
  <2> QED  BY <1>1, <2>2, Stops DEF LoadField
<1>2. CASE StoreField
  <2>1. vm.result = "running" /\ Instruction[1] \in {"STORE_FIELD", "STORE_FIELD_THIS"}
    BY <1>2 DEF StoreField, Running
  <2>2. ASSUME NEW id, NEW n, NEW v, heap' = [heap EXCEPT !.objects[id].elements[n] = v], vm' = vm,
               Stacked(IF Running({"STORE_FIELD_THIS"}) THEN fiber.stack ELSE Dropped(1), 2)
        PROVE  IInv'
    <3> DEFINE stack == IF Running({"STORE_FIELD_THIS"}) THEN fiber.stack ELSE Dropped(1)
    <3>1. Follow(2) /\ Instruction[1] \notin Branching
      BY <2>1, Lengths
    <3>2. /\ DOMAIN heap' = DOMAIN heap /\ heap'.closures = heap.closures
          /\ heap'.upvalues = heap.upvalues
      BY <2>2 DEF IInv, Sound, HeapShape
    <3>3. HeapShape(heap') /\ ClosuresKept(heap, heap') /\ UpvaluesKept /\ MachineKept
      BY <2>1, <2>2, <3>2, HeapKept, VmKept
    <3>4. Effect \in Int /\ IsSeq(stack) /\ Len(stack) = Len(fiber.stack) + Effect
      <4>1. CASE Instruction[1] = "STORE_FIELD_THIS"
        BY <2>1, <4>1, StackOps, Effects DEF Running
      <4>2. CASE Instruction[1] = "STORE_FIELD"
        <5>1. 1 \in 0 .. Len(fiber.stack) /\ Effect = -1
          BY <2>1, <4>2, Available, AtHere, Effects
        <5>2. stack = Dropped(1)
          BY <4>2 DEF Running
        <5> HIDE DEF stack
        <5> QED  BY <2>1, <5>1, <5>2, StackOps
      <4> QED  BY <2>1, <4>1, <4>2
    <3>5. Stacked(stack, 2)
      BY <2>2
    <3> HIDE DEF stack, Branching
    <3> QED  BY <2>1, <3>1, <3>3, <3>4, <3>5, OrdinaryStep
  <2> QED  BY <1>2, <2>2, Stops DEF StoreField
<1>3. CASE MakeClass
  <2>1. vm.result = "running" /\ Instruction[1] = "CLASS"
    BY <1>3 DEF MakeClass, Running
  <2>2. ASSUME NEW class, NEW id, heap' = [heap EXCEPT !.classes = Append(@, class)], vm' = vm,
               Stacked(Append(Dropped(2), <<"class", id>>), 2)
        PROVE  IInv'
    <3> DEFINE stack == Append(Dropped(2), <<"class", id>>)
    <3>1. Effect = -1 /\ Follow(2) /\ Instruction[1] \notin Branching
      BY <2>1, Lengths, Effects
    <3>2. /\ DOMAIN heap' = DOMAIN heap /\ heap'.closures = heap.closures
          /\ heap'.upvalues = heap.upvalues
      BY <2>2 DEF IInv, Sound, HeapShape
    <3>3. HeapShape(heap') /\ ClosuresKept(heap, heap') /\ UpvaluesKept /\ MachineKept
      BY <2>1, <2>2, <3>2, HeapKept, VmKept
    <3>4. IsSeq(stack) /\ Len(stack) = Len(fiber.stack) + Effect /\ Effect \in Int
      <4>1. 2 \in 0 .. Len(fiber.stack)
        BY <2>1, Available, AtHere DEF Taken
      <4> QED  BY <2>1, <3>1, <4>1, StackOps
    <3>5. Stacked(stack, 2)
      BY <2>2
    <3> HIDE DEF stack, Branching
    <3> QED  BY <2>1, <3>1, <3>3, <3>4, <3>5, OrdinaryStep
  <2> QED  BY <1>3, <2>2, Stops DEF MakeClass
<1>4. CASE BindMethod
  <2>1. vm.result = "running" /\ Instruction[1] \in {"METHOD_INSTANCE", "METHOD_STATIC"}
    BY <1>4 DEF BindMethod, Running
  <2>2. ASSUME NEW fns, NEW k, NEW class, heap' = [heap EXCEPT !.fns = fns, !.classes[k] = class],
               vm' = vm, Stacked(Dropped(2), 3)
        PROVE  IInv'
    <3> DEFINE stack == Dropped(2)
    <3>1. Effect = -2 /\ Follow(3) /\ Instruction[1] \notin Branching
      BY <2>1, Lengths, Effects
    <3>2. /\ DOMAIN heap' = DOMAIN heap /\ heap'.closures = heap.closures
          /\ heap'.upvalues = heap.upvalues
      BY <2>2 DEF IInv, Sound, HeapShape
    <3>3. HeapShape(heap') /\ ClosuresKept(heap, heap') /\ UpvaluesKept /\ MachineKept
      BY <2>1, <2>2, <3>2, HeapKept, VmKept
    <3>4. IsSeq(stack) /\ Len(stack) = Len(fiber.stack) + Effect /\ Effect \in Int
      <4>1. 2 \in 0 .. Len(fiber.stack)
        BY <2>1, Available, AtHere DEF Taken
      <4> QED  BY <2>1, <3>1, <4>1, StackOps
    <3>5. Stacked(stack, 3)
      BY <2>2
    <3> HIDE DEF stack, Branching
    <3> QED  BY <2>1, <3>1, <3>3, <3>4, <3>5, OrdinaryStep
  <2> QED  BY <1>4, <2>2, Stops DEF BindMethod
<1>5. CASE Construct
  <2>1. vm.result = "running" /\ Instruction[1] = "CONSTRUCT"
    BY <1>5 DEF Construct, Running
  <2>2. ASSUME NEW instance, NEW v, heap' = [heap EXCEPT !.objects = Append(@, instance)], vm' = vm,
               Stacked(Written(Slot(0), v), 1)
        PROVE  IInv'
    <3> DEFINE stack == Written(Slot(0), v)
    <3>1. Effect = 0 /\ Follow(1) /\ Instruction[1] \notin Branching
      BY <2>1, Lengths, Effects
    <3>2. /\ DOMAIN heap' = DOMAIN heap /\ heap'.closures = heap.closures
          /\ heap'.upvalues = heap.upvalues
      BY <2>2 DEF IInv, Sound, HeapShape
    <3>3. HeapShape(heap') /\ ClosuresKept(heap, heap') /\ UpvaluesKept /\ MachineKept
      BY <2>1, <2>2, <3>2, HeapKept, VmKept
    <3>4. IsSeq(stack) /\ Len(stack) = Len(fiber.stack) + Effect /\ Effect \in Int
      BY <2>1, <3>1, StackOps
    <3>5. Stacked(stack, 1)
      BY <2>2
    <3> HIDE DEF stack, Branching
    <3> QED  BY <2>1, <3>1, <3>3, <3>4, <3>5, OrdinaryStep
  <2> QED  BY <1>5, <2>2, Stops DEF Construct
<1> QED  BY <1>1, <1>2, <1>3, <1>4, <1>5

LEMMA OneUpvalue ==
  ASSUME NEW h, HeapShape(h), NEW id, NEW new, id \in DOMAIN h.upvalues => UpvalueShape(new),
         NEW h2, h2 = [h EXCEPT !.upvalues[id] = new]
  PROVE  /\ HeapShape(h2) /\ h2.closures = h.closures
         /\ DOMAIN h2.upvalues = DOMAIN h.upvalues
         /\ \A u \in DOMAIN h.upvalues : h2.upvalues[u] = IF u = id THEN new ELSE h.upvalues[u]
<1> DEFINE s == h.upvalues
           t == [s EXCEPT ![id] = new]
<1>1. DOMAIN h2 = DOMAIN h /\ h2.closures = h.closures /\ h2.upvalues = t
  BY DEF HeapShape
<1>2. IsSeq(s) /\ Len(s) \in Nat /\ DOMAIN s = 1 .. Len(s)
  BY SeqOfElements DEF HeapShape, IsSeq
<1>3. /\ t = [u \in 1 .. Len(s) |-> t[u]]
      /\ \A u \in 1 .. Len(s) : t[u] = IF u = id THEN new ELSE s[u]
  BY <1>2
<1>4. \A u \in DOMAIN s : UpvalueShape(s[u]) /\ (u = id => UpvalueShape(new))
  BY DEF HeapShape
<1> HIDE DEF t, s
<1>5. IsSeq(t) /\ Len(t) = Len(s)
  BY <1>2, <1>3, Mapped
<1>6. DOMAIN t = DOMAIN s
  BY <1>2, <1>5, SeqOfElements
<1>7. \A u \in DOMAIN t : UpvalueShape(t[u])
  BY <1>2, <1>3, <1>4, <1>6
<1> QED  BY <1>1, <1>2, <1>3, <1>5, <1>6, <1>7 DEF HeapShape, s

LEMMA StoreUpvalueStep ==
  ASSUME IInv, VerifiedStep, StoreUpvalue
  PROVE  IInv'
<1> DEFINE id == Closure.upvalues[Byte(1) + 1]
           stack == IF Upvalue(Byte(1)).open THEN Written(Upvalue(Byte(1)).at, Peek) ELSE fiber.stack
<1>1. /\ vm.result = "running" /\ Instruction[1] = "STORE_UPVALUE"
      /\ Stacked(stack, 2) /\ vm' = vm
      /\ heap' = heap \/ heap' = [heap EXCEPT !.upvalues[id].closed = Peek]
  BY DEF StoreUpvalue, Running
<1> HIDE DEF id
<1>2. Effect = 0 /\ Follow(2) /\ Instruction[1] \notin Branching
  BY <1>1, Lengths, Effects DEF Branching
<1>3. MachineKept
  BY <1>1, VmKept
<1>4. IsSeq(stack) /\ Len(stack) = Len(fiber.stack) + Effect /\ Effect \in Int
  <2>1. stack = Written(Upvalue(Byte(1)).at, Peek) \/ stack = fiber.stack
    OBVIOUS
  <2> HIDE DEF stack
  <2> QED  BY <1>1, <1>2, <2>1, StackOps
<1>5. HeapShape(heap') /\ ClosuresKept(heap, heap') /\ UpvaluesKept
  <2>1. CASE heap' = heap
    BY <2>1, HeapKept
  <2>2. CASE heap' = [heap EXCEPT !.upvalues[id].closed = Peek]
    <3> DEFINE new == [heap.upvalues[id] EXCEPT !.closed = Peek]
    <3>1. HeapShape(heap)
      BY DEF IInv, Sound
    <3>2. heap' = [heap EXCEPT !.upvalues[id] = new]
      BY <2>2
    <3>3. id \in DOMAIN heap.upvalues =>
             UpvalueShape(new) /\ new.open = heap.upvalues[id].open /\ new.at = heap.upvalues[id].at
      BY <3>1 DEF HeapShape, UpvalueShape
    <3> HIDE DEF new
    <3>4. /\ HeapShape(heap') /\ heap'.closures = heap.closures
          /\ DOMAIN heap'.upvalues = DOMAIN heap.upvalues
          /\ \A u \in DOMAIN heap.upvalues :
                heap'.upvalues[u] = IF u = id THEN new ELSE heap.upvalues[u]
      BY <3>1, <3>2, <3>3, OneUpvalue
    <3> QED  BY <3>3, <3>4 DEF ClosuresKept, UpvaluesKept
  <2> QED  BY <1>1, <2>1, <2>2
<1> HIDE DEF stack
<1> QED  BY <1>1, <1>2, <1>3, <1>4, <1>5, OrdinaryStep

LEMMA PrimitiveStep ==
  ASSUME IInv, VerifiedStep, vm.result = "running", Instruction[1] \in {"CALL", "SUPER"},
         NEW v, NEW objects, NEW output,
         Stacked(Append(Dropped(NumArgs), v), CallLength),
         heap' = [heap EXCEPT !.objects = objects],
         vm' = [vm EXCEPT !.output = output] \/ vm' = vm
  PROVE  IInv'
<1> DEFINE stack == Append(Dropped(NumArgs), v)
<1>1. Effect = -Instruction[2] /\ Follow(CallLength) /\ Instruction[1] \notin Branching
  BY Lengths, Effects DEF Branching, CallLength
<1>2. /\ DOMAIN heap' = DOMAIN heap /\ heap'.closures = heap.closures
      /\ heap'.upvalues = heap.upvalues
  BY DEF IInv, Sound, HeapShape
<1>3. HeapShape(heap') /\ ClosuresKept(heap, heap') /\ UpvaluesKept
  BY <1>2, HeapKept
<1>4. MachineKept
  BY DEF IInv, MachineKept, MachineShape
<1>5. IsSeq(stack) /\ Len(stack) = Len(fiber.stack) + Effect /\ Effect \in Int
  <2>1. NumArgs \in 0 .. Len(fiber.stack) /\ NumArgs = Instruction[2] + 1 /\ Instruction[2] \in Nat
    <3>1. Taken(Instruction[1], Instruction[2]) = Instruction[2] + 1
      BY DEF Taken
    <3> QED  BY <3>1, Available, AtHere DEF NumArgs
  <2>2. IsSeq(stack) /\ Len(stack) = Len(fiber.stack) - NumArgs + 1
    BY <2>1, StackOps
  <2>3. Len(fiber.stack) \in Nat
    BY AtHere
  <2> HIDE DEF stack
  <2> QED  BY <1>1, <2>1, <2>2, <2>3
<1> HIDE DEF stack
<1>6. Stacked(stack, CallLength)
  BY DEF stack
<1> QED  BY <1>1, <1>3, <1>4, <1>5, <1>6, OrdinaryStep

(* The two ways on that a jump has.                                            *)
LEMMA JumpStep ==
  ASSUME IInv, VerifiedStep, vm.result = "running",
         NEW q \in LeadsFromTop(heap, fiber), NEW n, q[1] = Frame.ip + (3 + n),
         NEW stack, IsSeq(stack), Len(stack) = Frame.start[2] + q[2].depth,
         Here.captured \subseteq q[2].captured, JumpTo(stack, n)
  PROVE  IInv'
<1>1. Stacked(stack, 3 + n) /\ heap' = heap /\ vm' = vm
  BY DEF JumpTo, Stacked
<1>2. HeapShape(heap') /\ ClosuresKept(heap, heap') /\ UpvaluesKept /\ MachineKept
  BY <1>1, HeapKept, VmKept
<1> QED  BY <1>1, <1>2, StackedStep

(* Where the branching instructions lead.                                      *)
LEMMA BranchLeads ==
  ASSUME IInv, vm.result = "running"
  PROVE  LET to(n, depth) == \E q \in LeadsFromTop(heap, fiber) :
                               /\ q[1] = Frame.ip + (3 + n) /\ q[2].depth = depth
                               /\ Here.captured \subseteq q[2].captured
         IN  /\ Instruction[1] = "JUMP" => to(Short(1), Here.depth)
             /\ Instruction[1] = "LOOP" => to(-Short(1), Here.depth)
             /\ Instruction[1] = "JUMP_IF" => to(0, Here.depth - 1) /\ to(Short(1), Here.depth - 1)
             /\ Instruction[1] \in {"AND", "OR"} =>
                  to(0, Here.depth - 1) /\ to(Short(1), Here.depth)
<1> DEFINE to(n, depth) == \E q \in LeadsFromTop(heap, fiber) :
                             /\ q[1] = Frame.ip + (3 + n) /\ q[2].depth = depth
                             /\ Here.captured \subseteq q[2].captured
           after == [depth |-> Here.depth + StackEffect(Instruction[1], Instruction[2]),
                     captured |-> StillCaptured(Function, Frame.ip, Here)
                                  \cup LocalsCaptured(heap.fns, Function, Frame.ip)]
           leads == LeadsFromTop(heap, fiber)
<1>1. leads = Leads(heap.fns, Function, Frame.ip, Here)
  BY AtHere DEF LeadsFromTop, Here
<1>2. Function.code[Frame.ip + 1] = Instruction /\ ReadShort(Function.code, Frame.ip + 1) = Short(1)
  BY DEF Instruction, Short
<1>3. Instruction[1] # "CLOSE_UPVALUE" => Here.captured \subseteq after.captured
  BY <1>2 DEF StillCaptured
<1>4. /\ Instruction[1] \in {"JUMP", "LOOP"} => after.depth = Here.depth
      /\ Instruction[1] \in {"JUMP_IF", "AND", "OR"} => after.depth = Here.depth - 1
  <2>1. after.depth = Here.depth + Effect /\ Here.depth \in Nat
    BY AtHere DEF Effect
  <2> QED  BY <2>1, Effects
<1> HIDE DEF leads
<1>5. CASE Instruction[1] = "JUMP"
  <2> DEFINE q == <<Frame.ip + (3 + Short(1)), after>>
  <2>1. q \in leads
    BY <1>1, <1>2, <1>5 DEF Leads
  <2>2. q[1] = Frame.ip + (3 + Short(1)) /\ q[2] = after
    OBVIOUS
  <2> HIDE DEF q, after
  <2> QED  BY <1>3, <1>4, <1>5, <2>1, <2>2 DEF leads
<1>6. CASE Instruction[1] = "LOOP"
  <2> DEFINE q == <<Frame.ip + (3 - Short(1)), after>>
  <2>1. q \in leads
    BY <1>1, <1>2, <1>6 DEF Leads
  <2>2. q[1] = Frame.ip + (3 + (-Short(1))) /\ q[2] = after
    OBVIOUS
  <2> HIDE DEF q, after
  <2> QED  BY <1>3, <1>4, <1>6, <2>1, <2>2 DEF leads
<1>7. CASE Instruction[1] = "JUMP_IF"
  <2> DEFINE q == <<Frame.ip + 3, after>>
             q2 == <<Frame.ip + (3 + Short(1)), after>>
  <2>1. q \in leads /\ q2 \in leads
    BY <1>1, <1>2, <1>7 DEF Leads
  <2>2. /\ q[1] = Frame.ip + (3 + 0) /\ q[2] = after
        /\ q2[1] = Frame.ip + (3 + Short(1)) /\ q2[2] = after
    OBVIOUS
  <2> HIDE DEF q, q2, after
  <2> QED  BY <1>3, <1>4, <1>7, <2>1, <2>2 DEF leads
<1>8. CASE Instruction[1] \in {"AND", "OR"}
  <2> DEFINE q == <<Frame.ip + 3, after>>
             q2 == <<Frame.ip + (3 + Short(1)), Here>>
  <2>1. q \in leads /\ q2 \in leads
    BY <1>1, <1>2, <1>8 DEF Leads
  <2>2. /\ q[1] = Frame.ip + (3 + 0) /\ q[2] = after
        /\ q2[1] = Frame.ip + (3 + Short(1)) /\ q2[2] = Here
    OBVIOUS
  <2> HIDE DEF q, q2, after
  <2> QED  BY <1>3, <1>4, <1>8, <2>1, <2>2 DEF leads
<1> QED  BY <1>5, <1>6, <1>7, <1>8

LEMMA JumpSteps ==
  ASSUME IInv, VerifiedStep, Jump \/ AndOr
  PROVE  IInv'
<1>1. /\ vm.result = "running" /\ Instruction[1] \in {"JUMP", "LOOP", "JUMP_IF", "AND", "OR"}
  BY DEF Jump, AndOr, Running
<1>2. /\ Len(fiber.stack) = Frame.start[2] + Here.depth /\ IsSeq(fiber.stack)
      /\ Frame.start[2] \in Nat /\ Here.depth \in Nat \ {0}
  BY <1>1, AtHere DEF FrameShape
<1>3. IsSeq(Dropped(1)) /\ Len(Dropped(1)) = Frame.start[2] + (Here.depth - 1)
  <2>1. 1 \in 0 .. Len(fiber.stack)
    BY <1>2
  <2>2. IsSeq(Dropped(1)) /\ Len(Dropped(1)) = Len(fiber.stack) - 1
    BY <1>1, <2>1, StackOps
  <2> QED  BY <1>2, <2>2
<1>4. ASSUME NEW n, JumpTo(fiber.stack, n),
             \E q \in LeadsFromTop(heap, fiber) :
                /\ q[1] = Frame.ip + (3 + n) /\ q[2].depth = Here.depth
                /\ Here.captured \subseteq q[2].captured
      PROVE  IInv'
  BY <1>1, <1>2, <1>4, JumpStep
<1>5. ASSUME NEW n, JumpTo(Dropped(1), n),
             \E q \in LeadsFromTop(heap, fiber) :
                /\ q[1] = Frame.ip + (3 + n) /\ q[2].depth = Here.depth - 1
                /\ Here.captured \subseteq q[2].captured
      PROVE  IInv'
  <2> DEFINE stack == Dropped(1)
  <2>1. JumpTo(stack, n) /\ IsSeq(stack) /\ Len(stack) = Frame.start[2] + (Here.depth - 1)
    BY <1>3, <1>5
  <2> HIDE DEF stack
  <2> QED  BY <1>1, <1>5, <2>1, JumpStep
<1>6. CASE Instruction[1] = "JUMP"
  <2>1. JumpTo(fiber.stack, Short(1))
    BY <1>6 DEF Jump, AndOr, Running
  <2> QED  BY <1>1, <1>4, <1>6, <2>1, BranchLeads
<1>7. CASE Instruction[1] = "LOOP"
  <2>1. JumpTo(fiber.stack, -Short(1))
    BY <1>7 DEF Jump, AndOr, Running
  <2> QED  BY <1>1, <1>4, <1>7, <2>1, BranchLeads
<1>8. CASE Instruction[1] = "JUMP_IF"
  <2>1. JumpTo(Dropped(1), 0) \/ JumpTo(Dropped(1), Short(1))
    BY <1>8 DEF Jump, AndOr, Running
  <2> QED  BY <1>1, <1>5, <1>8, <2>1, BranchLeads
<1>9. CASE Instruction[1] \in {"AND", "OR"}
  <2>1. JumpTo(Dropped(1), 0) \/ JumpTo(fiber.stack, Short(1))
    BY <1>9 DEF Jump, AndOr, Running
  <2> QED  BY <1>1, <1>4, <1>5, <1>9, <2>1, BranchLeads
<1> QED  BY <1>1, <1>6, <1>7, <1>8, <1>9

-----------------------------------------------------------------------------
\* Closing and capturing.

(* What closeUpvalues leaves: the list from the first upvalue below the slot.   *)
LEMMA Closed ==
  ASSUME IInv, NEW p, p[2] \in Nat
  PROVE  LET h2 == CloseUpvalues(p)
             rest == StillOpen(p)
             list == fiber.openUpvalues
         IN  /\ HeapShape(h2) /\ h2.fns = heap.fns /\ h2.closures = heap.closures
             /\ IsSeq(rest) /\ OpenList(h2, rest, fiber.base)
             /\ \A k \in DOMAIN rest : \E j \in DOMAIN list :
                   /\ h2.upvalues[rest[k]].at[2] = heap.upvalues[list[j]].at[2]
                   /\ heap.upvalues[list[j]].at[2] < p[2]
<1> DEFINE list == fiber.openUpvalues
           up == heap.upvalues
           L == Len(list)
           m == Closing(p)
           h2 == CloseUpvalues(p)
           rest == StillOpen(p)
<1>1. /\ HeapShape(heap) /\ IsSeq(list) /\ OpenList(heap, list, fiber.base)
  BY DEF IInv, Sound, FiberShape
<1>2. L \in Nat /\ DOMAIN list = 1 .. L
  BY <1>1, SeqOfElements DEF IsSeq
<1>3. /\ m \in 0 .. L
      /\ \A i \in 1 .. m : heap.upvalues[list[i]].at[2] >= p[2]
      /\ m < L => ~(heap.upvalues[list[m + 1]].at[2] >= p[2])
  <2> HIDE DEF list
  <2> QED  BY <1>1, NumFromIsAHead DEF Closing, list
<1>4. \A i \in 1 .. L : list[i] \in DOMAIN up /\ up[list[i]].at[2] \in Nat
  BY <1>1, <1>2 DEF OpenList, HeapShape, UpvalueShape
<1>5. \A i, j \in 1 .. L : i < j => up[list[j]].at[2] < up[list[i]].at[2]
  BY <1>1, <1>2 DEF OpenList
<1> DEFINE s(u) == IF \E i \in 1 .. m : list[i] = u
                   THEN [up[u] EXCEPT !.open = FALSE, !.closed = Read(up[u].at)] ELSE up[u]
           t == [u \in DOMAIN up |-> s(u)]
<1>6. h2 = [heap EXCEPT !.upvalues = t]
  BY DEF CloseUpvalues
<1>7. /\ DOMAIN h2 = DOMAIN heap /\ h2.fns = heap.fns /\ h2.closures = heap.closures
      /\ h2.upvalues = t
  <2> HIDE DEF t, h2
  <2> QED  BY <1>1, <1>6 DEF HeapShape
<1>8. IsSeq(up) /\ Len(up) \in Nat /\ DOMAIN up = 1 .. Len(up)
  BY <1>1, SeqOfElements DEF HeapShape, IsSeq
<1>9. \A u \in DOMAIN up :
        /\ t[u] = s(u)
        /\ UpvalueShape(s(u)) /\ s(u).at = up[u].at
        /\ s(u).open <=> (up[u].open /\ ~ \E i \in 1 .. m : list[i] = u)
  <2> TAKE u \in DOMAIN up
  <2>1. UpvalueShape(up[u])
    BY <1>1 DEF HeapShape
  <2>2. t[u] = s(u)
    OBVIOUS
  <2> DEFINE closed == Read(up[u].at)
             in == \E i \in 1 .. m : list[i] = u
  <2> HIDE DEF closed, t, in
  <2>3. CASE in
    <3>1. s(u) = [up[u] EXCEPT !.open = FALSE, !.closed = closed]
      BY <2>3 DEF in, closed
    <3> HIDE DEF s
    <3> QED  BY <2>1, <2>2, <2>3, <3>1 DEF UpvalueShape, in
  <2>4. CASE ~in
    <3>1. s(u) = up[u]
      BY <2>4 DEF in
    <3> HIDE DEF s
    <3> QED  BY <2>1, <2>2, <2>4, <3>1 DEF in
  <2> QED  BY <2>3, <2>4
<1>10. IsSeq(t) /\ DOMAIN t = DOMAIN up
  <2>1. t = [u \in 1 .. Len(up) |-> t[u]] /\ DOMAIN t = DOMAIN up
    BY <1>8
  <2> HIDE DEF t
  <2> QED  BY <1>8, <2>1, Mapped
<1> HIDE DEF t, s, h2, m
<1>11. HeapShape(h2)
  <2>1. \A u \in DOMAIN t : UpvalueShape(t[u])
    BY <1>9, <1>10
  <2> QED  BY <1>1, <1>7, <1>10, <2>1 DEF HeapShape
<1>12. /\ IsSeq(rest) /\ Len(rest) = L - m /\ DOMAIN rest = 1 .. L - m
       /\ \A i \in 1 .. L - m : rest[i] = list[m + i]
  <2> DEFINE k == m + 1
  <2>1. k \in Nat \ {0} /\ k <= L + 1 /\ L \in 0 .. L /\ L - k + 1 = L - m
    BY <1>2, <1>3
  <2>2. rest = SubSeq(list, k, L)
    BY DEF StillOpen, m
  <2> HIDE DEF k, rest, list
  <2>3. /\ IsSeq(rest) /\ Len(rest) = L - k + 1
        /\ \A i \in 1 .. L - k + 1 : rest[i] = list[k + i - 1]
    BY <1>1, <2>1, <2>2, Part
  <2>4. \A i \in 1 .. L - m : k + i - 1 = m + i
    BY <1>2, <1>3 DEF k
  <2> QED  BY <2>1, <2>3, <2>4, SeqOfElements
<1> HIDE DEF rest, up, list, L
<1>13. \A k \in 1 .. L - m : m + k \in 1 .. L /\ (k > 1 => m + 1 < m + k) /\ m < L
  BY <1>2, <1>3
<1>14. ASSUME NEW k \in 1 .. L - m
       PROVE  up[list[m + k]].at[2] < p[2]
  <2>1. m + 1 \in 1 .. L /\ up[list[m + 1]].at[2] < p[2]
    BY <1>2, <1>3, <1>4, <1>13 DEF up
  <2>2. k = 1 \/ up[list[m + k]].at[2] < up[list[m + 1]].at[2]
    BY <1>5, <1>13, <2>1
  <2> QED  BY <1>4, <1>13, <2>1, <2>2
<1>15. \A k \in DOMAIN rest : \E j \in DOMAIN list :
          /\ h2.upvalues[rest[k]].at[2] = heap.upvalues[list[j]].at[2]
          /\ heap.upvalues[list[j]].at[2] < p[2]
  <2> TAKE k \in DOMAIN rest
  <2>1. rest[k] = list[m + k] /\ m + k \in DOMAIN list
    BY <1>2, <1>12, <1>13
  <2>2. list[m + k] \in DOMAIN up
    BY <1>4, <1>12, <1>13
  <2>3. h2.upvalues[list[m + k]].at = up[list[m + k]].at
    BY <1>7, <1>9, <2>2
  <2> QED  BY <1>12, <1>14, <2>1, <2>3 DEF up
<1>16. OpenList(h2, rest, fiber.base)
  <2>1. \A i \in DOMAIN rest : rest[i] \in DOMAIN t /\ t[rest[i]].at[1] = fiber.base
    <3> TAKE i \in DOMAIN rest
    <3>1. rest[i] = list[m + i] /\ m + i \in DOMAIN list
      BY <1>2, <1>12, <1>13
    <3>2. list[m + i] \in DOMAIN up /\ up[list[m + i]].at[1] = fiber.base
      BY <1>1, <3>1 DEF OpenList, up
    <3> QED  BY <1>9, <1>10, <3>1, <3>2
  <2>2. ASSUME NEW i \in DOMAIN rest, NEW j \in DOMAIN rest, i < j
        PROVE  t[rest[j]].at[2] < t[rest[i]].at[2]
    <3>1. /\ rest[i] = list[m + i] /\ m + i \in 1 .. L
          /\ rest[j] = list[m + j] /\ m + j \in 1 .. L
      BY <1>2, <1>12, <1>13
    <3>2. m + i < m + j
      BY <1>2, <1>3, <1>12, <2>2
    <3>3. up[list[m + j]].at[2] < up[list[m + i]].at[2]
      BY <1>5, <3>1, <3>2
    <3> QED  BY <1>4, <1>9, <3>1, <3>3
  <2>3. ASSUME NEW u \in DOMAIN t
        PROVE  t[u].open <=> \E i \in DOMAIN rest : rest[i] = u
    <3>1. u \in DOMAIN up /\ (t[u].open <=> (up[u].open /\ ~ \E i \in 1 .. m : list[i] = u))
      BY <1>9, <1>10
    <3>2. up[u].open <=> \E i \in 1 .. L : list[i] = u
      BY <1>1, <1>2, <3>1 DEF OpenList, up
    <3>3. ASSUME t[u].open PROVE \E i \in DOMAIN rest : rest[i] = u
      <4>1. PICK i \in 1 .. L : list[i] = u
        BY <3>1, <3>2, <3>3
      <4>2. i > m
        BY <1>2, <1>3, <3>1, <3>3, <4>1
      <4>3. i - m \in 1 .. L - m /\ m + (i - m) = i
        BY <1>2, <1>3, <4>2
      <4> QED  BY <1>12, <4>1, <4>3
    <3>4. ASSUME NEW k \in DOMAIN rest, rest[k] = u PROVE t[u].open
      <4>1. list[m + k] = u /\ m + k \in 1 .. L /\ m < m + k
        BY <1>2, <1>3, <1>12, <1>13, <3>4
      <4>2. \A i \in 1 .. m : list[i] # u
        <5> SUFFICES ASSUME NEW i \in 1 .. m, list[i] = u PROVE FALSE
          OBVIOUS
        <5>1. i \in 1 .. L /\ i < m + k
          BY <1>2, <1>3, <4>1
        <5>2. up[list[m + k]].at[2] < up[list[i]].at[2]
          BY <1>5, <4>1, <5>1
        <5> QED  BY <1>4, <4>1, <5>1, <5>2
      <4> QED  BY <3>1, <3>2, <4>1, <4>2
    <3> QED  BY <3>3, <3>4
  <2> QED  BY <1>7, <2>1, <2>2, <2>3 DEF OpenList
<1> QED  BY <1>7, <1>11, <1>12, <1>15, <1>16 DEF h2, rest, list

LEMMA CloseUpvalueStep ==
  ASSUME IInv, VerifiedStep, CloseUpvalue
  PROVE  IInv'
<1> DEFINE top == <<fiber.base, Len(fiber.stack) - 1>>
           stack == Dropped(1)
           rest == StillOpen(top)
           after == [depth |-> Here.depth - 1, captured |-> Here.captured \ {Here.depth - 1}]
           q == <<Frame.ip + 1, after>>
<1>1. /\ vm.result = "running" /\ Instruction[1] = "CLOSE_UPVALUE"
      /\ heap' = CloseUpvalues(top) /\ vm' = vm
      /\ fiber' = [fiber EXCEPT !.stack = stack, !.frames = Advanced(1), !.openUpvalues = rest]
  BY DEF CloseUpvalue, Running
<1>2. /\ Len(fiber.stack) = Frame.start[2] + Here.depth /\ Here.depth \in Nat \ {0}
      /\ Frame.start[2] \in Nat /\ Frame.ip \in Nat /\ Frame = TopOf(fiber)
  BY <1>1, AtHere DEF FrameShape
<1>3. top[2] = Len(fiber.stack) - 1 /\ top[2] \in Nat
  BY <1>2
<1>4. q \in LeadsFromTop(heap, fiber)
  <2>1. LeadsFromTop(heap, fiber) = Leads(heap.fns, Function, Frame.ip, Here)
    BY <1>1, AtHere DEF LeadsFromTop, Here
  <2>2. Function.code[Frame.ip + 1] = Instruction
    BY DEF Instruction
  <2>3. Following(heap.fns, Function, Frame.ip) = Frame.ip + 1
    <3>1. NumArguments(heap.fns, Function, Frame.ip) = 0
      BY <1>1, <2>2 DEF NumArguments
    <3> QED  BY <1>1, <1>2, <2>2, <3>1 DEF Following
  <2>4. Here.depth + StackEffect(Instruction[1], Instruction[2]) = Here.depth - 1
    BY <1>1, <1>2 DEF StackEffect
  <2>5. StillCaptured(Function, Frame.ip, Here) \cup LocalsCaptured(heap.fns, Function, Frame.ip)
           = Here.captured \ {Here.depth - 1}
    BY <1>1, <2>2 DEF StillCaptured, LocalsCaptured
  <2> QED  BY <1>1, <2>1, <2>2, <2>3, <2>4, <2>5 DEF Leads
<1>5. q[1] = Frame.ip + 1 /\ q[2] = after
  OBVIOUS
<1> HIDE DEF q, rest, top, stack
<1>6. /\ HeapShape(heap') /\ heap'.closures = heap.closures
      /\ IsSeq(rest) /\ OpenList(heap', rest, fiber.base)
      /\ \A k \in DOMAIN rest : \E j \in DOMAIN fiber.openUpvalues :
            /\ heap'.upvalues[rest[k]].at[2] = heap.upvalues[fiber.openUpvalues[j]].at[2]
            /\ heap.upvalues[fiber.openUpvalues[j]].at[2] < top[2]
  BY <1>1, <1>3, Closed DEF rest
<1>7. /\ Advances(1) /\ fiber'.stack = stack /\ fiber'.openUpvalues = rest /\ fiber'.base = fiber.base
  <2>1. FiberShape(fiber)
    BY DEF IInv, Sound
  <2>2. IsSeq(stack)
    <3>1. 1 \in 0 .. Len(fiber.stack)
      BY <1>2
    <3> QED  BY <1>1, <3>1, StackOps DEF stack
  <2> QED  BY <1>1, <1>6, <2>1, <2>2 DEF Advances, FiberShape
<1>8. Len(stack) = Frame.start[2] + q[2].depth
  <2>1. 1 \in 0 .. Len(fiber.stack)
    BY <1>2
  <2>2. Len(stack) = Len(fiber.stack) - 1
    BY <1>1, <2>1, StackOps DEF stack
  <2>3. q[2].depth = Here.depth - 1
    BY <1>5
  <2> QED  BY <1>2, <2>2, <2>3
<1>9. LeftCaptured(heap, fiber, heap', fiber', q[2].captured)
  <2>1. ASSUME NEW k \in DOMAIN fiber'.openUpvalues
        PROVE  \/ SlotOf(heap', fiber', k) - TopOf(fiber).start[2] \in q[2].captured
               \/ /\ SlotOf(heap', fiber', k) < TopOf(fiber).start[2]
                  /\ \E j \in DOMAIN fiber.openUpvalues : SlotOf(heap, fiber, j) = SlotOf(heap', fiber', k)
    <3> DEFINE slot == SlotOf(heap', fiber', k)
    <3>1. PICK j \in DOMAIN fiber.openUpvalues : slot = SlotOf(heap, fiber, j) /\ slot < top[2]
      BY <1>6, <1>7 DEF SlotOf
    <3> HIDE DEF slot
    <3>2. slot \in Nat /\ (slot - Frame.start[2] \in Here.captured \/ slot < Frame.start[2])
      BY <1>1, <3>1, OpenSlot
    <3>3. slot - Frame.start[2] # Here.depth - 1
      BY <1>2, <1>3, <3>1, <3>2
    <3> QED  BY <1>2, <1>5, <3>1, <3>2, <3>3 DEF slot
  <2> QED  BY <2>1 DEF LeftCaptured
<1>10. MachineKept
  BY <1>1, VmKept
<1>11. ClosuresKept(heap, heap')
  BY <1>6 DEF ClosuresKept
<1> QED  BY <1>1, <1>4, <1>5, <1>6, <1>7, <1>8, <1>9, <1>10, <1>11, StepKeepsIInv

LEMMA OneValue ==
  ASSUME NEW v
  PROVE  IsSeq(<<v>>) /\ Len(<<v>>) = 1 /\ <<v>>[1] = v
<1>1. <<v>> \in Seq({v}) /\ Len(<<v>>) = 1 /\ <<v>>[1] = v
  OBVIOUS
<1> QED  BY <1>1, ElementsOfSeq

LEMMA ReturnStep ==
  ASSUME IInv, VerifiedStep, Return
  PROVE  IInv'
<1> DEFINE N == Len(fiber.frames)
           start == Frame.start
           rest == StillOpen(start)
<1>1. vm.result = "running" /\ Instruction[1] \in {"RETURN", "END"}
  BY DEF Return, Running
<1>2. CASE Instruction[1] = "END"
  BY <1>1, <1>2, Available
<1>3. CASE Instruction[1] = "RETURN"
  <2>1. heap' = CloseUpvalues(start) /\ Instruction[1] # "END"
    BY <1>3 DEF Return
  <2>2. /\ N \in Nat \ {0} /\ DOMAIN fiber.frames = 1 .. N /\ IsSeq(fiber.frames)
        /\ Frame = fiber.frames[N] /\ start[2] \in Nat /\ IsSeq(fiber.stack)
        /\ Here.depth \in Nat \ {0} /\ Len(fiber.stack) = start[2] + Here.depth
    BY <1>1, AtHere DEF TopOf, FrameShape
  <2>3. /\ FiberShape(fiber) /\ FramesFit(heap, vm, fiber, Len(fiber.stack))
        /\ OnlyCaptured(heap, fiber) /\ MachineShape(vm) /\ OpenList(heap, fiber.openUpvalues, fiber.base)
        /\ HeapShape(heap)
    BY DEF IInv, Sound
  <2> HIDE DEF rest, start
  <2>4. /\ HeapShape(heap') /\ heap'.fns = heap.fns /\ heap'.closures = heap.closures
        /\ IsSeq(rest) /\ OpenList(heap', rest, fiber.base)
        /\ \A k \in DOMAIN rest : \E j \in DOMAIN fiber.openUpvalues :
              /\ heap'.upvalues[rest[k]].at[2] = heap.upvalues[fiber.openUpvalues[j]].at[2]
              /\ heap.upvalues[fiber.openUpvalues[j]].at[2] < start[2]
    BY <2>1, <2>2, Closed DEF rest
  <2>5. \A j \in DOMAIN fiber.openUpvalues : heap.upvalues[fiber.openUpvalues[j]].at[2] \in Nat
    BY <2>3 DEF OpenList, HeapShape, UpvalueShape
  <2>6. CASE N = 1
    <3>1. /\ fiber' = [fiber EXCEPT !.stack = <<Peek>>, !.frames = <<>>, !.openUpvalues = rest]
          /\ vm' = [vm EXCEPT !.result = "success"]
      BY <2>1, <2>6 DEF Return, start, rest
    <3>2. start[2] = 0
      BY <2>2, <2>3, <2>6 DEF FramesFit, Ascending, start
    <3>3. DOMAIN rest = {}
      <4> SUFFICES ASSUME NEW k \in DOMAIN rest PROVE FALSE
        OBVIOUS
      <4>1. PICK j \in DOMAIN fiber.openUpvalues :
               heap.upvalues[fiber.openUpvalues[j]].at[2] < start[2]
        BY <2>4
      <4> QED  BY <2>5, <3>2, <4>1
    <3>4. rest = <<>>
      BY <2>4, <3>3, SeqOfElements DEF IsSeq
    <3>5. /\ DOMAIN fiber' = DOMAIN fiber /\ fiber'.base = fiber.base /\ fiber'.capacity = fiber.capacity
          /\ fiber'.stack = <<Peek>> /\ fiber'.frames = <<>> /\ fiber'.openUpvalues = rest
      BY <2>3, <3>1 DEF FiberShape
    <3>6. FiberShape(fiber')
      <4>1. IsSeq(<<>>)
        <5>1. <<>> \in Seq({})
          OBVIOUS
        <5> QED  BY <5>1, ElementsOfSeq
      <4>2. DOMAIN fiber'.frames = {}
        BY <3>5
      <4>3. IsSeq(fiber'.stack) /\ IsSeq(fiber'.frames) /\ IsSeq(fiber'.openUpvalues)
        BY <2>4, <3>5, <4>1, OneValue
      <4> QED  BY <2>3, <3>5, <4>2, <4>3 DEF FiberShape
    <3>7. FramesFit(heap', vm', fiber', Len(fiber'.stack)) /\ OnlyCaptured(heap', fiber')
      BY <3>4, <3>5 DEF FramesFit, Ascending, OnlyCaptured
    <3>8. MachineShape(vm') /\ vm'.result = "success"
      BY <2>3, <3>1 DEF MachineShape, Results
    <3>9. Sound(heap', vm', fiber')
      BY <2>4, <3>5, <3>6, <3>7 DEF Sound
    <3> QED  BY <3>8, <3>9 DEF IInv
  <2>7. CASE N # 1
    <3> DEFINE stack == Append(SubSeq(fiber.stack, 1, start[2]), Peek)
               M == N - 1
               frames == SubSeq(fiber.frames, 1, M)
    <3>1. /\ fiber' = [fiber EXCEPT !.stack = stack, !.frames = Front(fiber.frames), !.openUpvalues = rest]
          /\ vm' = vm
      BY <2>1, <2>7 DEF Return, start, rest
    <3>2. Front(fiber.frames) = frames
      BY DEF Front
    <3>3. M \in Nat \ {0} /\ M \in 0 .. N /\ M + 1 = N
      BY <2>2, <2>7
    <3> HIDE DEF M, frames, stack
    <3>4. /\ IsSeq(frames) /\ Len(frames) = M /\ DOMAIN frames = 1 .. M
          /\ \A i \in 1 .. M : frames[i] = fiber.frames[i] /\ i \in DOMAIN fiber.frames
      <4>1. /\ IsSeq(frames) /\ Len(frames) = M - 1 + 1
            /\ \A i \in 1 .. M - 1 + 1 : frames[i] = fiber.frames[1 + i - 1]
        BY <2>2, <3>3, Part DEF frames
      <4>2. M - 1 + 1 = M /\ \A i \in 1 .. M : 1 + i - 1 = i /\ i \in 1 .. N
        BY <2>2, <3>3
      <4> QED  BY <2>2, <4>1, <4>2, SeqOfElements
    <3>5. IsSeq(stack) /\ Len(stack) = start[2] + 1
      <4> DEFINE kept == SubSeq(fiber.stack, 1, start[2])
      <4>1. start[2] \in 0 .. Len(fiber.stack) /\ 1 <= start[2] + 1
        BY <2>2
      <4>2. IsSeq(kept) /\ Len(kept) = start[2] - 1 + 1
        BY <2>2, <4>1, Part
      <4> HIDE DEF kept
      <4>3. IsSeq(Append(kept, Peek)) /\ Len(Append(kept, Peek)) = Len(kept) + 1
        BY <4>2, Appended
      <4> QED  BY <2>2, <4>2, <4>3 DEF stack, kept
    <3>6. /\ DOMAIN fiber' = DOMAIN fiber /\ fiber'.base = fiber.base /\ fiber'.capacity = fiber.capacity
          /\ fiber'.stack = stack /\ fiber'.frames = frames /\ fiber'.openUpvalues = rest
      BY <2>3, <3>1, <3>2 DEF FiberShape
    <3>7. FiberShape(fiber')
      BY <2>3, <2>4, <3>4, <3>5, <3>6 DEF FiberShape
    <3>8. Ascending(fiber')
      <4>1. Ascending(fiber) /\ frames # <<>>
        BY <2>3, <3>3, <3>4 DEF FramesFit
      <4>2. \A i, j \in 1 .. M : i <= j => frames[i].start[2] <= frames[j].start[2]
        BY <3>4, <4>1 DEF Ascending
      <4>3. frames[1].start[2] = 0
        BY <2>3, <2>2, <3>3, <3>4, <4>1 DEF Ascending
      <4> QED  BY <3>4, <3>6, <4>2, <4>3 DEF Ascending
    <3>9. \A i \in 1 .. M : Point(heap', frames[i]) = Point(heap, fiber.frames[i])
      BY <2>4, <3>4 DEF Point, ViewOf, FunctionOf
    <3>10. ASSUME NEW i \in 1 .. M
           PROVE  FrameFits(heap', vm', fiber', Len(fiber'.stack), i)
      <4> DEFINE frame == fiber.frames[i]
      <4>1. FrameFits(heap, vm, fiber, Len(fiber.stack), i) /\ fiber'.frames[i] = frame
        BY <2>3, <3>4, <3>6 DEF FramesFit
      <4>2. i # N /\ i + 1 \in 1 .. N /\ (i # M => i + 1 \in 1 .. M) /\ (i = M => i + 1 = N)
        BY <2>2, <3>3
      <4>3. /\ FunctionOf(heap', frame) = FunctionOf(heap, frame)
            /\ ViewOf(heap', frame) = ViewOf(heap, frame)
        BY <2>4 DEF ViewOf, FunctionOf
      <4>4. FrameVerified(heap', vm'.modules, frame)
        BY <2>4, <3>1, <4>1, <4>3 DEF FrameFits, FrameVerified
      <4>5. frame.start[2] + Point(heap', frame).depth = fiber.frames[i + 1].start[2] + 1
        BY <3>4, <3>9, <4>1, <4>2 DEF FrameFits
      <4>6. frame.start[2] + Point(heap', frame).depth
              = IF i = Len(fiber'.frames) THEN Len(fiber'.stack) ELSE fiber'.frames[i + 1].start[2] + 1
        BY <2>2, <3>4, <3>5, <3>6, <4>2, <4>5 DEF start
      <4> HIDE DEF frame
      <4> QED  BY <2>4, <3>6, <4>1, <4>3, <4>4, <4>6 DEF FrameFits, frame
    <3>11. OnlyCaptured(heap', fiber')
      <4>1. ASSUME NEW k \in DOMAIN rest, NEW i \in 1 .. M, Within(fiber', i, SlotOf(heap', fiber', k))
            PROVE  SlotOf(heap', fiber', k) - frames[i].start[2] \in Point(heap', frames[i]).captured
        <5> DEFINE slot == SlotOf(heap', fiber', k)
        <5>1. PICK j \in DOMAIN fiber.openUpvalues : slot = SlotOf(heap, fiber, j) /\ slot < start[2]
          BY <2>4, <3>6 DEF SlotOf
        <5> HIDE DEF slot
        <5>2. /\ i + 1 \in 1 .. N /\ (i # M => i + 1 \in 1 .. M) /\ (i = M => i + 1 = N)
              /\ i < N /\ (i # M => i < M)
          BY <2>2, <3>3
        <5>3. Within(fiber, i, slot)
          BY <2>2, <3>4, <3>6, <4>1, <5>1, <5>2 DEF Within, slot, start
        <5>4. slot - fiber.frames[i].start[2] \in Point(heap, fiber.frames[i]).captured
          BY <2>3, <3>4, <5>1, <5>3 DEF OnlyCaptured
        <5> QED  BY <3>4, <3>9, <5>4 DEF slot
      <4>2. frames # <<>>
        BY <3>3, <3>4
      <4> QED  BY <3>4, <3>6, <4>1, <4>2 DEF OnlyCaptured
    <3>12. Sound(heap', vm', fiber')
      BY <2>4, <3>4, <3>6, <3>7, <3>8, <3>10, <3>11 DEF Sound, FramesFit
    <3>13. fiber'.frames # <<>>
      BY <3>3, <3>4, <3>6
    <3> QED  BY <1>1, <2>3, <3>1, <3>12, <3>13 DEF IInv
  <2> QED  BY <2>6, <2>7
<1> QED  BY <1>1, <1>2, <1>3

\* Capturing, from a list that is right: c is [heap, open, captured].
CaptureShape(c, base) ==
  /\ DOMAIN c = {"heap", "open", "captured"}
  /\ HeapShape(c.heap) /\ c.heap.fns = heap.fns /\ c.heap.closures = heap.closures
  /\ IsSeq(c.open) /\ OpenList(c.heap, c.open, base)

\* From c to d, the only new slot in the list of open upvalues is slot.
OnlyNewSlot(c, d, slot) ==
  \A k \in DOMAIN d.open :
     \/ d.heap.upvalues[d.open[k]].at[2] = slot
     \/ \E j \in DOMAIN c.open : d.heap.upvalues[d.open[k]].at[2]
                                   = c.heap.upvalues[c.open[j]].at[2]

(* captureUpvalue keeps the order of the list and adds no slot but the one.      *)
LEMMA CaptureKeeps ==
  ASSUME NEW c, NEW base \in Nat, CaptureShape(c, base), NEW slot \in Nat,
         NEW d, d = Capture(c, <<base, slot>>)
  PROVE  CaptureShape(d, base) /\ OnlyNewSlot(c, d, slot)
<1> DEFINE p == <<base, slot>>
           up == c.heap.upvalues
           list == c.open
           above == NumFrom(c.heap, list, p[2] + 1)
           new == Len(up) + 1
           L == Len(list)
           fresh == [open |-> TRUE, at |-> p, closed |-> Null]
           captured == c.captured
<1>1. /\ HeapShape(c.heap) /\ IsSeq(list) /\ OpenList(c.heap, list, base)
  BY DEF CaptureShape
<1>2. /\ L \in Nat /\ DOMAIN list = 1 .. L
      /\ IsSeq(up) /\ Len(up) \in Nat /\ DOMAIN up = 1 .. Len(up)
  BY <1>1, SeqOfElements DEF IsSeq, HeapShape
<1>3. p[1] = base /\ p[2] = slot
  OBVIOUS
<1>4. /\ above \in 0 .. L
      /\ \A i \in 1 .. above : up[list[i]].at[2] >= slot + 1
      /\ above < L => ~(up[list[above + 1]].at[2] >= slot + 1)
  <2> HIDE DEF list, p
  <2> QED  BY <1>1, <1>3, NumFromIsAHead
<1>5. \A i \in 1 .. L : /\ list[i] \in DOMAIN up /\ up[list[i]].at \in Nat \X Nat
                        /\ up[list[i]].at[1] = base /\ up[list[i]].at[2] \in Nat
  BY <1>1, <1>2 DEF OpenList, HeapShape, UpvalueShape
<1>6. \A i, j \in 1 .. L : i < j => up[list[j]].at[2] < up[list[i]].at[2]
  BY <1>1, <1>2 DEF OpenList
<1> DEFINE found == above < L /\ up[list[above + 1]].at = p
           found_c == [c EXCEPT !.captured = Append(@, list[above + 1])]
           t == Append(up, fresh)
           list2 == InsertAt(list, above + 1, new)
           new_c == [heap |-> [c.heap EXCEPT !.upvalues = t], open |-> list2,
                     captured |-> Append(captured, new)]
<1>7. d = IF found THEN found_c ELSE new_c
  BY DEF Capture
<1>8. CASE found
  <2>1. DOMAIN d = DOMAIN c /\ d.heap = c.heap /\ d.open = c.open
    BY <1>7, <1>8 DEF CaptureShape
  <2>2. CaptureShape(d, base)
    BY <2>1 DEF CaptureShape
  <2>3. OnlyNewSlot(c, d, slot)
    BY <2>1 DEF OnlyNewSlot
  <2> QED  BY <2>2, <2>3
<1>9. CASE ~found
  <2> HIDE DEF found, p
  <2>1. d = new_c
    BY <1>7, <1>9
  <2> HIDE DEF above, fresh
  <2>2. /\ IsSeq(t) /\ Len(t) = Len(up) + 1 /\ t[Len(up) + 1] = fresh
        /\ \A u \in 1 .. Len(up) : t[u] = up[u]
    <3> HIDE DEF up
    <3> QED  BY <1>2, Appended
  <2>3. DOMAIN t = 1 .. Len(up) + 1
    <3> HIDE DEF t
    <3> QED  BY <2>2, SeqOfElements
  <2>4. /\ IsSeq(list2) /\ Len(list2) = L + 1
        /\ \A i \in 1 .. L + 1 :
              list2[i] = IF i <= above THEN list[i] ELSE IF i = above + 1 THEN new ELSE list[i - 1]
    <3> HIDE DEF list, new
    <3> QED  BY <1>1, <1>4, Inserted
  <2>5. DOMAIN list2 = 1 .. L + 1
    <3> HIDE DEF list2
    <3> QED  BY <2>4, SeqOfElements
  <2> HIDE DEF t, list2
  <2>6. /\ DOMAIN d = {"heap", "open", "captured"} /\ d.open = list2
        /\ d.heap = [c.heap EXCEPT !.upvalues = t]
    BY <2>1
  <2>7. /\ DOMAIN d.heap = DOMAIN c.heap /\ d.heap.upvalues = t /\ d.heap.fns = c.heap.fns
        /\ d.heap.closures = c.heap.closures
    BY <1>1, <2>6 DEF HeapShape
  <2>8. fresh.at = p /\ fresh.open = TRUE /\ UpvalueShape(fresh)
    BY DEF fresh, UpvalueShape, p
  <2>9. HeapShape(d.heap)
    <3>1. \A u \in DOMAIN t : UpvalueShape(t[u])
      <4>1. \A u \in 1 .. Len(up) : UpvalueShape(up[u])
        BY <1>1, <1>2 DEF HeapShape
      <4> QED  BY <1>2, <2>2, <2>3, <2>8, <4>1
    <3> QED  BY <1>1, <2>2, <2>7, <3>1 DEF HeapShape
  <2>10. above < L => up[list[above + 1]].at[2] < slot
    <3> SUFFICES ASSUME above < L PROVE up[list[above + 1]].at[2] < slot
      OBVIOUS
    <3>1. above + 1 \in 1 .. L
      BY <1>2, <1>4
    <3> DEFINE at == up[list[above + 1]].at
    <3>2. at \in Nat \X Nat /\ at[1] = base /\ at # p /\ ~(at[2] >= slot + 1)
      BY <1>4, <1>5, <1>9, <3>1 DEF found
    <3> HIDE DEF at
    <3>3. at = <<at[1], at[2]>> /\ at[2] \in Nat
      BY <3>2
    <3>4. at[2] # slot
      BY <3>2, <3>3 DEF p
    <3>5. at[2] < slot
      BY <3>2, <3>3, <3>4
    <3> QED  BY <3>5 DEF at
  <2> DEFINE S(i) == t[list2[i]].at[2]
             O(i) == up[list[i]].at[2]
  <2>11. \A i \in 1 .. L : t[list[i]] = up[list[i]]
    BY <1>2, <1>5, <2>2
  <2> HIDE DEF S, O
  <2>12. ASSUME NEW i \in 1 .. L + 1
         PROVE  /\ i <= above => /\ i \in 1 .. L /\ list2[i] = list[i] /\ S(i) = O(i) /\ slot < O(i)
                /\ i = above + 1 => list2[i] = new /\ S(i) = slot
                /\ i > above + 1 => /\ i - 1 \in 1 .. L /\ list2[i] = list[i - 1]
                                    /\ S(i) = O(i - 1) /\ O(i - 1) < slot
    <3>1. CASE i <= above
      <4>1. i \in 1 .. L
        BY <1>2, <1>4, <3>1
      <4>2. list2[i] = list[i]
        BY <2>4, <3>1
      <4>3. O(i) >= slot + 1 /\ O(i) \in Nat
        <5>1. i \in 1 .. above
          BY <1>4, <3>1
        <5> QED  BY <1>4, <1>5, <4>1, <5>1 DEF O
      <4>4. slot < O(i)
        BY <4>3
      <4>5. S(i) = O(i)
        BY <2>11, <4>1, <4>2 DEF S, O
      <4>6. ~(i = above + 1) /\ ~(i > above + 1)
        BY <1>2, <1>4, <3>1
      <4> QED  BY <4>1, <4>2, <4>4, <4>5, <4>6
    <3>2. CASE i = above + 1
      <4>1. list2[i] = new
        BY <1>4, <2>4, <3>2
      <4>2. S(i) = slot
        BY <1>3, <2>2, <2>8, <4>1 DEF S
      <4>3. ~(i <= above) /\ ~(i > above + 1)
        BY <1>2, <1>4, <3>2
      <4> QED  BY <4>1, <4>2, <4>3
    <3>3. CASE i > above + 1
      <4>1. i - 1 \in 1 .. L /\ above + 1 \in 1 .. L /\ above < L /\ ~(i <= above) /\ i # above + 1
        <5>1. L \in Nat /\ above \in 0 .. L
          BY <1>2, <1>4
        <5> QED  BY <3>3, <5>1
      <4>2. list2[i] = list[i - 1]
        BY <2>4, <4>1
      <4>3. i - 1 = above + 1 \/ O(i - 1) < O(above + 1)
        <5>1. i - 1 = above + 1 \/ above + 1 < i - 1
          BY <1>4, <3>3
        <5> QED  BY <1>6, <4>1, <5>1 DEF O
      <4>4. O(i - 1) < slot
        <5>1. O(i - 1) \in Nat /\ O(above + 1) \in Nat /\ O(above + 1) < slot
          BY <1>5, <2>10, <4>1 DEF O
        <5> QED  BY <4>3, <5>1
      <4>5. S(i) = O(i - 1)
        BY <2>11, <4>1, <4>2 DEF S, O
      <4> QED  BY <4>1, <4>2, <4>4, <4>5
    <3>4. i <= above \/ i = above + 1 \/ i > above + 1
      BY <1>2, <1>4
    <3> QED  BY <3>1, <3>2, <3>3, <3>4
  <2>13. \A i, j \in 1 .. L : i < j => O(j) < O(i)
    BY <1>6 DEF O
  <2>14. \A i \in 1 .. L : O(i) \in Nat
    BY <1>5 DEF O
  <2>15. ASSUME NEW i \in 1 .. L + 1, NEW j \in 1 .. L + 1, i < j
         PROVE  S(j) < S(i)
    <3>0. /\ i \in Int /\ j \in Int /\ above \in Int
      BY <1>2, <1>4
    <3>1. CASE j <= above
      BY <2>12, <2>13, <2>15, <3>0, <3>1
    <3>2. CASE j = above + 1
      <4>1. i <= above
        BY <2>15, <3>0, <3>2
      <4> QED  BY <2>12, <2>14, <3>2, <4>1
    <3>3. CASE j > above + 1 /\ i <= above
      <4>1. S(i) = O(i) /\ slot < O(i) /\ O(i) \in Nat
        BY <2>12, <2>14, <3>3
      <4>2. S(j) = O(j - 1) /\ O(j - 1) < slot /\ O(j - 1) \in Nat
        BY <2>12, <2>14, <3>3
      <4> QED  BY <4>1, <4>2
    <3>4. CASE j > above + 1 /\ i = above + 1
      BY <2>12, <2>14, <3>4
    <3>5. CASE i > above + 1
      <4>1. j > above + 1 /\ i - 1 < j - 1
        BY <2>15, <3>0, <3>5
      <4> QED  BY <2>12, <2>13, <3>5, <4>1
    <3> QED  BY <3>0, <3>1, <3>2, <3>3, <3>4, <3>5
  <2>16. \A i \in 1 .. L + 1 : list2[i] \in DOMAIN t /\ t[list2[i]].at[1] = base
    <3> TAKE i \in 1 .. L + 1
    <3>1. list2[i] = new \/ \E j \in 1 .. L : list2[i] = list[j]
      BY <1>2, <1>4, <2>12
    <3>2. CASE list2[i] = new
      BY <1>2, <1>3, <2>2, <2>3, <2>8, <3>2
    <3>3. CASE \E j \in 1 .. L : list2[i] = list[j]
      <4>1. PICK j \in 1 .. L : list2[i] = list[j]
        BY <3>3
      <4>2. list[j] \in 1 .. Len(up) /\ up[list[j]].at[1] = base /\ t[list[j]] = up[list[j]]
        BY <1>2, <1>5, <2>11
      <4>3. list[j] \in 1 .. Len(up) + 1
        BY <1>2, <4>2
      <4> QED  BY <2>3, <4>1, <4>2, <4>3
    <3> QED  BY <3>1, <3>2, <3>3
  <2>17. ASSUME NEW u \in DOMAIN t
         PROVE  t[u].open <=> \E i \in 1 .. L + 1 : list2[i] = u
    <3>1. above + 1 \in 1 .. L + 1 /\ list2[above + 1] = new
      BY <1>2, <1>4, <2>12
    <3>2. CASE u = new
      BY <2>2, <2>8, <3>1, <3>2
    <3>3. CASE u # new
      <4>1. u \in 1 .. Len(up) /\ t[u] = up[u]
        BY <1>2, <2>2, <2>3, <3>3
      <4>2. up[u].open <=> \E i \in 1 .. L : list[i] = u
        BY <1>1, <1>2, <4>1 DEF OpenList
      <4>3. ASSUME NEW i \in 1 .. L PROVE \E k \in 1 .. L + 1 : list2[k] = list[i]
        <5>1. CASE i <= above
          <6>1. i \in 1 .. L + 1 /\ list2[i] = list[i]
            <7>1. i \in 1 .. L + 1
              BY <1>2
            <7> QED  BY <2>4, <5>1, <7>1
          <6> QED  BY <6>1
        <5>2. CASE i > above
          <6>1. /\ i + 1 \in 1 .. L + 1 /\ ~(i + 1 <= above) /\ i + 1 # above + 1
                /\ (i + 1) - 1 = i
            BY <1>2, <1>4, <5>2
          <6>2. list2[i + 1] = list[i]
            BY <2>4, <6>1
          <6> QED  BY <6>1, <6>2
        <5> QED  BY <1>2, <1>4, <5>1, <5>2
      <4>4. ASSUME NEW k \in 1 .. L + 1, list2[k] = u PROVE \E i \in 1 .. L : list[i] = u
        <5>1. k <= above \/ k > above + 1
          BY <1>2, <1>4, <2>12, <3>3, <4>4
        <5>2. k <= above => k \in 1 .. L /\ list[k] = u
          BY <2>12, <4>4
        <5>3. k > above + 1 => k - 1 \in 1 .. L /\ list[k - 1] = u
          BY <2>12, <4>4
        <5> HIDE DEF list
        <5> QED  BY <5>1, <5>2, <5>3
      <4> QED  BY <4>1, <4>2, <4>3, <4>4
    <3> QED  BY <3>2, <3>3
  <2>18. OpenList(d.heap, d.open, base)
    <3>1. \A i \in DOMAIN d.open :
             d.open[i] \in DOMAIN d.heap.upvalues /\ d.heap.upvalues[d.open[i]].at[1] = base
      BY <2>5, <2>6, <2>7, <2>16
    <3>2. \A i, k \in DOMAIN d.open :
             i < k => d.heap.upvalues[d.open[k]].at[2] < d.heap.upvalues[d.open[i]].at[2]
      BY <2>5, <2>6, <2>7, <2>15 DEF S
    <3>3. \A u \in DOMAIN d.heap.upvalues :
             d.heap.upvalues[u].open <=> \E i \in DOMAIN d.open : d.open[i] = u
      <4>1. d.heap.upvalues = t /\ d.open = list2 /\ DOMAIN list2 = 1 .. L + 1
        BY <2>5, <2>6, <2>7
      <4> QED  BY <2>17, <4>1
    <3> QED  BY <3>1, <3>2, <3>3 DEF OpenList
  <2>19. CaptureShape(d, base)
    BY <2>4, <2>6, <2>7, <2>9, <2>18 DEF CaptureShape
  <2>20. \A k \in 1 .. L + 1 : S(k) = slot \/ \E j \in 1 .. L : S(k) = O(j)
    BY <1>2, <1>4, <2>12
  <2>21. OnlyNewSlot(c, d, slot)
    <3> SUFFICES ASSUME NEW k \in DOMAIN d.open
                 PROVE  \/ d.heap.upvalues[d.open[k]].at[2] = slot
                        \/ \E j \in DOMAIN c.open : d.heap.upvalues[d.open[k]].at[2]
                                                      = c.heap.upvalues[c.open[j]].at[2]
      BY DEF OnlyNewSlot
    <3>1. k \in 1 .. L + 1 /\ d.heap.upvalues[d.open[k]].at[2] = S(k)
      BY <2>5, <2>6, <2>7 DEF S
    <3>2. CASE S(k) = slot
      BY <3>1, <3>2
    <3>3. CASE \E j \in 1 .. L : S(k) = O(j)
      <4>1. PICK j \in 1 .. L : S(k) = O(j)
        BY <3>3
      <4>2. j \in DOMAIN c.open /\ d.heap.upvalues[d.open[k]].at[2] = c.heap.upvalues[c.open[j]].at[2]
        BY <1>2, <3>1, <4>1 DEF O
      <4> QED  BY <4>2
    <3> QED  BY <2>20, <3>1, <3>2, <3>3
  <2> HIDE DEF up, list, new
  <2> QED  BY <2>19, <2>21
<1> QED  BY <1>8, <1>9

\* The list after the captures: its slots are old ones or captured locals.
Captured(c) ==
  /\ CaptureShape(c, fiber.base)
  /\ \A k \in DOMAIN c.open :
       \/ \E j \in DOMAIN fiber.openUpvalues :
            SlotOf(heap, fiber, j) = c.heap.upvalues[c.open[k]].at[2]
       \/ c.heap.upvalues[c.open[k]].at[2] - Frame.start[2]
            \in LocalsCaptured(heap.fns, Function, Frame.ip)

LEMMA CaptureOneKeeps ==
  ASSUME IInv, vm.result = "running", Instruction[1] = "CLOSURE", NEW c, Captured(c),
         NEW k \in 1 .. NumCaptured(heap.fns, Function, Frame.ip)
  PROVE  Captured(CaptureOne(c, k))
<1> DEFINE index == CapturedIndex(Function, Frame.ip, k)
           slot == Frame.start[2] + index
           locals == LocalsCaptured(heap.fns, Function, Frame.ip)
           d == CaptureOne(c, k)
<1>1. CaptureShape(c, fiber.base)
  BY DEF Captured
<1>2. CASE CapturesLocal(Function, Frame.ip, k)
  <2>1. Instruction = Function.code[Frame.ip + 1]
    BY DEF Instruction
  <2>2. index \in locals
    BY <1>2, <2>1 DEF LocalsCaptured
  <2>3. LocalsNamed(heap.fns, Function, Frame.ip) \subseteq 0 .. (Here.depth - 1)
    BY AtHere DEF InstructionVerified, Here, Point
  <2>4. LocalsNamed(heap.fns, Function, Frame.ip) = locals
    BY <2>1 DEF LocalsNamed
  <2>5. /\ fiber.base \in Nat /\ Frame.start[2] \in Nat /\ Frame.start[1] = fiber.base
    BY AtHere DEF IInv, Sound, FiberShape, FrameShape
  <2> HIDE DEF index, locals
  <2>6. index \in Nat /\ slot \in Nat /\ slot - Frame.start[2] = index
    BY <2>2, <2>3, <2>4, <2>5
  <2>7. d = Capture(c, <<fiber.base, slot>>)
    BY <1>2, <2>5 DEF CaptureOne, Slot, index
  <2> HIDE DEF d, slot
  <2>8. CaptureShape(d, fiber.base) /\ OnlyNewSlot(c, d, slot)
    <3>1. fiber.base \in Nat /\ slot \in Nat
      BY <2>5, <2>6
    <3> QED  BY <1>1, <2>7, <3>1, CaptureKeeps
  <2>9. Captured(d)
    BY <2>2, <2>6, <2>8 DEF Captured, OnlyNewSlot, locals
  <2> QED  BY <2>9 DEF d
<1>3. CASE ~CapturesLocal(Function, Frame.ip, k)
  <2>1. d = [c EXCEPT !.captured = Append(@, Closure.upvalues[index + 1])]
    BY <1>3 DEF CaptureOne
  <2> HIDE DEF d
  <2>2. DOMAIN d = DOMAIN c /\ d.heap = c.heap /\ d.open = c.open
    BY <1>1, <2>1 DEF CaptureShape
  <2>3. Captured(d)
    BY <2>2 DEF Captured, CaptureShape
  <2> QED  BY <2>3 DEF d
<1> QED  BY <1>2, <1>3

\* The function that CaptureAll(n) applies.
Uncaptured == [heap |-> heap, open |-> fiber.openUpvalues, captured |-> <<>>]
Captures(n, a) ==
  a = [k \in 0 .. n |-> IF k = 0 THEN Uncaptured ELSE CaptureOne(a[k - 1], k)]

LEMMA CapturesExist ==
  ASSUME NEW n \in Nat
  PROVE  \E a : Captures(n, a)
<1> DEFINE Bad == {m \in Nat : ~ \E a : Captures(m, a)}
<1>1. SUFFICES ASSUME Bad # {} PROVE FALSE
  OBVIOUS
<1>2. PICK m \in Bad : \A e \in Bad : m <= e
  BY <1>1, SmallestOfNaturals
<1>3. CASE m = 0
  <2> DEFINE a == [k \in 0 .. 0 |-> Uncaptured]
  <2>1. Captures(0, a)
    BY DEF Captures
  <2> QED  BY <1>2, <1>3, <2>1
<1>4. CASE m # 0
  <2>1. m - 1 \in Nat /\ m - 1 \notin Bad
    BY <1>2, <1>4
  <2>2. PICK b : Captures(m - 1, b)
    BY <2>1
  <2> DEFINE a == [k \in 0 .. m |-> IF k = m THEN CaptureOne(b[m - 1], m) ELSE b[k]]
  <2>3. ASSUME NEW k \in 0 .. m
        PROVE  a[k] = IF k = 0 THEN Uncaptured ELSE CaptureOne(a[k - 1], k)
    <3>1. k # m => b[k] = IF k = 0 THEN Uncaptured ELSE CaptureOne(b[k - 1], k)
      BY <1>2, <2>2 DEF Captures
    <3>2. k # 0 => k - 1 \in 0 .. m /\ k - 1 # m
      BY <1>2
    <3>3. k # 0 => a[k - 1] = b[k - 1]
      BY <3>2
    <3> QED  BY <1>4, <3>1, <3>3
  <2>4. Captures(m, a)
    <3>1. a = [k \in 0 .. m |-> a[k]]
      OBVIOUS
    <3> HIDE DEF a
    <3>2. [k \in 0 .. m |-> a[k]]
            = [k \in 0 .. m |-> IF k = 0 THEN Uncaptured ELSE CaptureOne(a[k - 1], k)]
      BY <2>3
    <3> QED  BY <3>1, <3>2 DEF Captures
  <2> QED  BY <1>2, <2>4
<1> QED  BY <1>3, <1>4

LEMMA CaptureAllKeeps ==
  ASSUME IInv, vm.result = "running", Instruction[1] = "CLOSURE",
         NumCaptured(heap.fns, Function, Frame.ip) \in Nat
  PROVE  Captured(CaptureAll(NumCaptured(heap.fns, Function, Frame.ip)))
<1> DEFINE n == NumCaptured(heap.fns, Function, Frame.ip)
           a == CHOOSE after : Captures(n, after)
           Bad == {k \in 0 .. n : ~Captured(a[k])}
<1>1. CaptureAll(n) = a[n]
  BY DEF CaptureAll, Captures, Uncaptured
<1>2. Captures(n, a)
  BY CapturesExist
<1> HIDE DEF a, n
<1>3. n \in Nat
  BY DEF n
<1>4. Captured(Uncaptured)
  <2>1. /\ DOMAIN Uncaptured = {"heap", "open", "captured"}
        /\ Uncaptured.heap = heap /\ Uncaptured.open = fiber.openUpvalues
    BY DEF Uncaptured
  <2>2. CaptureShape(Uncaptured, fiber.base)
    BY <2>1 DEF IInv, Sound, FiberShape, CaptureShape
  <2> QED  BY <2>1, <2>2 DEF Captured, SlotOf
<1>5. ASSUME Bad # {} PROVE FALSE
  <2>0. Bad \subseteq Nat
    OBVIOUS
  <2>1. PICK k \in Bad : \A e \in Bad : k <= e
    <3> HIDE DEF Bad
    <3> QED  BY <1>5, <2>0, SmallestOfNaturals
  <2>2. k \in 0 .. n /\ ~Captured(a[k])
    OBVIOUS
  <2>3. a[k] = IF k = 0 THEN Uncaptured ELSE CaptureOne(a[k - 1], k)
    BY <1>2, <2>2 DEF Captures
  <2>4. k # 0
    BY <1>4, <2>2, <2>3
  <2>5. k - 1 \in 0 .. n /\ k - 1 < k /\ k \in 1 .. n
    BY <1>3, <2>2, <2>4
  <2>6. k - 1 \notin Bad
    BY <2>0, <2>1, <2>5
  <2>7. Captured(a[k - 1])
    BY <2>5, <2>6
  <2>8. Captured(CaptureOne(a[k - 1], k))
    BY <2>5, <2>7, CaptureOneKeeps DEF n
  <2> QED  BY <2>2, <2>3, <2>4, <2>8
<1>6. Captured(a[n])
  BY <1>3, <1>5
<1> QED  BY <1>1, <1>6 DEF n

LEMMA MakeClosureStep ==
  ASSUME IInv, VerifiedStep, MakeClosure
  PROVE  IInv'
<1> DEFINE n == NumCaptured(heap.fns, Function, Frame.ip)
           c == CaptureAll(n)
           stack == Append(fiber.stack, <<"closure", Len(heap.closures) + 1>>)
           locals == LocalsCaptured(heap.fns, Function, Frame.ip)
           after == [depth |-> Here.depth + 1, captured |-> Here.captured \cup locals]
           q == <<Frame.ip + (3 + 2 * n), after>>
           closure == [fn |-> ConstantAt(Short(1))[2], upvalues |-> c.captured]
<1>1. /\ vm.result = "running" /\ Instruction[1] = "CLOSURE"
      /\ heap' = [c.heap EXCEPT !.closures = Append(@, closure)] /\ vm' = vm
      /\ fiber' = [fiber EXCEPT !.stack = stack, !.frames = Advanced(3 + 2 * n),
                                !.openUpvalues = c.open]
  BY DEF MakeClosure, Running, NewClosure
<1> HIDE DEF n, c, closure
<1>2. Instruction = Function.code[Frame.ip + 1]
  BY DEF Instruction
<1>3. n \in Nat
  BY <1>1, <1>2, AtHere DEF InstructionVerified, n
<1>4. Captured(c)
  BY <1>1, <1>3, CaptureAllKeeps DEF n, c
<1>5. /\ Len(fiber.stack) = Frame.start[2] + Here.depth /\ Here.depth \in Nat
      /\ Frame.start[2] \in Nat /\ Frame.ip \in Nat /\ Frame = TopOf(fiber)
  BY <1>1, AtHere DEF FrameShape
<1>6. q \in LeadsFromTop(heap, fiber)
  <2>1. LeadsFromTop(heap, fiber) = Leads(heap.fns, Function, Frame.ip, Here)
    BY <1>1, AtHere DEF LeadsFromTop, Here
  <2>2. Following(heap.fns, Function, Frame.ip) = Frame.ip + (3 + 2 * n)
    <3>1. NumArguments(heap.fns, Function, Frame.ip) = 2 + 2 * n
      BY <1>1, <1>2 DEF NumArguments, n
    <3>2. Following(heap.fns, Function, Frame.ip) = Frame.ip + (1 + (2 + 2 * n))
      BY <1>1, <1>2, <3>1 DEF Following
    <3> QED  BY <1>3, <1>5, <3>2
  <2>3. Here.depth + StackEffect(Instruction[1], Instruction[2]) = Here.depth + 1
    BY <1>1, <1>5 DEF StackEffect
  <2>4. StillCaptured(Function, Frame.ip, Here) = Here.captured
    BY <1>1, <1>2 DEF StillCaptured
  <2> HIDE DEF locals
  <2> QED  BY <1>1, <1>2, <2>1, <2>2, <2>3, <2>4 DEF Leads, locals
<1>7. q[1] = Frame.ip + (3 + 2 * n) /\ q[2].depth = Here.depth + 1
      /\ q[2].captured = Here.captured \cup locals
  OBVIOUS
<1> HIDE DEF q, stack
<1>8. CaptureShape(c, fiber.base)
  BY <1>4 DEF Captured
<1>9. /\ HeapShape(heap') /\ ClosuresKept(heap, heap') /\ heap'.upvalues = c.heap.upvalues
  <2> DEFINE t == Append(heap.closures, closure)
  <2>1. /\ IsSeq(heap.closures) /\ Len(heap.closures) \in Nat
        /\ DOMAIN heap.closures = 1 .. Len(heap.closures)
    BY SeqOfElements DEF IInv, Sound, HeapShape, IsSeq
  <2>2. /\ IsSeq(t) /\ Len(t) = Len(heap.closures) + 1
        /\ \A i \in 1 .. Len(heap.closures) : t[i] = heap.closures[i]
    BY <2>1, Appended
  <2>3. heap' = [c.heap EXCEPT !.closures = t]
    BY <1>1, <1>8 DEF CaptureShape
  <2> HIDE DEF t
  <2>4. DOMAIN t = 1 .. Len(heap.closures) + 1
    BY <2>2, SeqOfElements
  <2>5. DOMAIN heap' = DOMAIN c.heap /\ heap'.closures = t /\ heap'.upvalues = c.heap.upvalues
    BY <1>8, <2>3 DEF CaptureShape, HeapShape
  <2>6. HeapShape(heap')
    BY <1>8, <2>2, <2>5 DEF CaptureShape, HeapShape
  <2>7. 1 .. Len(heap.closures) \subseteq 1 .. Len(heap.closures) + 1
    BY <2>1
  <2> QED  BY <2>1, <2>2, <2>4, <2>5, <2>6, <2>7 DEF ClosuresKept
<1>10. /\ Advances(3 + 2 * n) /\ fiber'.stack = stack /\ fiber'.openUpvalues = c.open
       /\ fiber'.base = fiber.base
  <2>1. FiberShape(fiber)
    BY DEF IInv, Sound
  <2>2. IsSeq(stack)
    BY <1>1, StackOps DEF stack
  <2> QED  BY <1>1, <1>8, <2>1, <2>2 DEF Advances, FiberShape, CaptureShape
<1>11. Len(fiber'.stack) = Frame.start[2] + q[2].depth
  <2>1. Len(stack) = Len(fiber.stack) + 1
    BY <1>1, StackOps DEF stack
  <2> QED  BY <1>5, <1>7, <1>10, <2>1
<1>12. OpenList(heap', fiber'.openUpvalues, fiber'.base)
  <2>1. OpenList(c.heap, c.open, fiber.base)
    BY <1>8 DEF CaptureShape
  <2>2. OpenList(heap', c.open, fiber.base)
    BY <1>9, <2>1 DEF OpenList
  <2> QED  BY <1>10, <2>2
<1>13. LeftCaptured(heap, fiber, heap', fiber', q[2].captured)
  <2>1. ASSUME NEW k \in DOMAIN fiber'.openUpvalues
        PROVE  \/ SlotOf(heap', fiber', k) - TopOf(fiber).start[2] \in q[2].captured
               \/ /\ SlotOf(heap', fiber', k) < TopOf(fiber).start[2]
                  /\ \E j \in DOMAIN fiber.openUpvalues : SlotOf(heap, fiber, j) = SlotOf(heap', fiber', k)
    <3> DEFINE slot == SlotOf(heap', fiber', k)
    <3>1. slot = c.heap.upvalues[c.open[k]].at[2] /\ k \in DOMAIN c.open
      BY <1>9, <1>10 DEF SlotOf
    <3>2. (\E j \in DOMAIN fiber.openUpvalues : SlotOf(heap, fiber, j) = slot)
             \/ slot - Frame.start[2] \in locals
      BY <1>4, <3>1 DEF Captured
    <3> HIDE DEF slot, locals
    <3>3. CASE slot - Frame.start[2] \in locals
      BY <1>5, <1>7, <3>3 DEF slot
    <3>4. CASE \E j \in DOMAIN fiber.openUpvalues : SlotOf(heap, fiber, j) = slot
      <4>1. slot - Frame.start[2] \in Here.captured \/ slot < Frame.start[2]
        BY <1>1, <3>4, OpenSlot
      <4> QED  BY <1>5, <1>7, <3>4, <4>1 DEF slot
    <3> QED  BY <3>2, <3>3, <3>4
  <2> QED  BY <2>1 DEF LeftCaptured
<1>14. MachineKept
  BY <1>1, VmKept
<1> QED  BY <1>1, <1>6, <1>7, <1>9, <1>10, <1>11, <1>12, <1>13, <1>14, StepKeepsIInv

-----------------------------------------------------------------------------
\* Calls.

\* Frame b is frame a where the stack has moved to base.
SameBut(a, b, base) ==
  b.closure = a.closure /\ b.ip = a.ip /\ b.size = a.size /\ b.start = <<base, a.start[2]>>
FramesMoved(f, g) == \A i \in 1 .. Len(f.frames) : SameBut(f.frames[i], g.frames[i], g.base)
OnBase(f) == \A i \in DOMAIN f.frames : f.frames[i].start[1] = f.base

\* The upvalues of h2 are those of h, the ones on the list of fiber f at base.
Followed(h, h2, f, base) ==
  /\ h2.fns = h.fns /\ h2.closures = h.closures
  /\ DOMAIN h2.upvalues = DOMAIN h.upvalues
  /\ \A u \in DOMAIN h.upvalues :
       /\ h2.upvalues[u].open = h.upvalues[u].open
       /\ h2.upvalues[u].at[2] = h.upvalues[u].at[2]
       /\ (\E i \in DOMAIN f.openUpvalues : f.openUpvalues[i] = u) => h2.upvalues[u].at[1] = base

\* The frames of f begin below a slot, which the open upvalues do not reach.
Under(h, f, slot) ==
  /\ \A i \in DOMAIN f.frames : f.frames[i].start[2] <= slot
  /\ \A k \in DOMAIN f.openUpvalues : SlotOf(h, f, k) < slot

(* wrenEnsureStack keeps the frames, on a stack that is large enough.            *)
LEMMA Grown ==
  ASSUME NEW f, FiberShape(f), OnBase(f),
         NEW needed \in Nat, NEW moves \in BOOLEAN, NEW g, g = EnsureStack(f, needed, moves)
  PROVE  /\ FiberShape(g) /\ g.stack = f.stack /\ g.openUpvalues = f.openUpvalues
         /\ f.capacity <= g.capacity /\ needed <= g.capacity
         /\ Len(g.frames) = Len(f.frames) /\ FramesMoved(f, g)
<1> DEFINE N == Len(f.frames)
<1>1. N \in Nat /\ DOMAIN f.frames = 1 .. N /\ f.capacity \in Nat /\ f.base \in Nat
  BY SeqOfElements DEF FiberShape, IsSeq
<1>2. CASE f.capacity >= needed
  <2>1. g = f
    BY <1>2 DEF EnsureStack
  <2>2. \A i \in 1 .. N : f.frames[i].start \in Nat \X Nat /\ f.frames[i].start[1] = f.base
    BY <1>1 DEF FiberShape, FrameShape, OnBase
  <2>3. \A i \in 1 .. N : f.frames[i].start = <<f.base, f.frames[i].start[2]>>
    BY <2>2
  <2> QED  BY <1>1, <1>2, <2>1, <2>3 DEF SameBut, FramesMoved
<1>3. CASE ~(f.capacity >= needed)
  <2> DEFINE base == IF moves THEN f.base + 1 ELSE f.base
             new(i) == [f.frames[i] EXCEPT !.start = Moved(f.frames[i].start, base)]
             t == [i \in DOMAIN f.frames |-> new(i)]
             capacity == PowerOf2Ceil(needed)
  <2>1. g = [f EXCEPT !.capacity = capacity, !.base = base, !.frames = t]
    BY <1>3, Zenon DEF EnsureStack
  <2>2. base \in Nat
    BY <1>1
  <2>3. capacity \in Nat /\ needed <= capacity
    BY PowerIsEnough
  <2> HIDE DEF base, capacity
  <2>4. \A i \in 1 .. N : FrameShape(new(i)) /\ SameBut(f.frames[i], new(i), base) /\ t[i] = new(i)
    <3> TAKE i \in 1 .. N
    <3>1. FrameShape(f.frames[i])
      BY <1>1 DEF FiberShape
    <3>2. t[i] = new(i)
      BY <1>1
    <3> HIDE DEF t
    <3>3. /\ DOMAIN new(i) = DOMAIN f.frames[i]
          /\ SameBut(f.frames[i], new(i), base)
      BY <3>1 DEF FrameShape, SameBut, Moved
    <3>4. new(i).start \in Nat \X Nat /\ new(i).start[2] = f.frames[i].start[2]
      BY <2>2, <3>1, <3>3 DEF FrameShape, SameBut
    <3> HIDE DEF new
    <3> QED  BY <3>1, <3>2, <3>3, <3>4 DEF FrameShape, SameBut
  <2>5. t = [i \in 1 .. N |-> t[i]]
    BY <1>1
  <2> HIDE DEF t, new
  <2>6. IsSeq(t) /\ Len(t) = N
    BY <1>1, <2>5, Mapped
  <2>7. DOMAIN t = 1 .. N
    BY <2>6, SeqOfElements
  <2>8. /\ DOMAIN g = DOMAIN f /\ g.frames = t /\ g.base = base /\ g.capacity = capacity
        /\ g.stack = f.stack /\ g.openUpvalues = f.openUpvalues
    BY <2>1 DEF FiberShape
  <2>9. FiberShape(g)
    BY <2>2, <2>3, <2>4, <2>6, <2>7, <2>8 DEF FiberShape
  <2>10. FramesMoved(f, g)
    BY <2>4, <2>8 DEF FramesMoved
  <2> QED  BY <1>1, <1>3, <2>3, <2>6, <2>8, <2>9, <2>10
<1> QED  BY <1>2, <1>3

(* and the open upvalues follow the stack.                                       *)
LEMMA UpvaluesFollow ==
  ASSUME NEW h, HeapShape(h), NEW f, IsSeq(f.openUpvalues), NEW base \in Nat,
         NEW h2, h2 = MoveUpvalues(h, f, base)
  PROVE  HeapShape(h2) /\ Followed(h, h2, f, base)
<1> DEFINE up == h.upvalues
           open(u) == Contains(f.openUpvalues, u)
           moved(u) == [up[u] EXCEPT !.at = Moved(up[u].at, base)]
           t == [u \in DOMAIN up |-> IF open(u) THEN moved(u) ELSE up[u]]
<1>1. DOMAIN f.openUpvalues = 1 .. Len(f.openUpvalues)
  BY SeqOfElements
<1>2. h2 = [h EXCEPT !.upvalues = t]
  BY Zenon DEF MoveUpvalues
<1>3. IsSeq(up) /\ Len(up) \in Nat /\ DOMAIN up = 1 .. Len(up)
  BY SeqOfElements DEF HeapShape, IsSeq
<1>4. \A u \in DOMAIN up : t[u] = IF open(u) THEN moved(u) ELSE up[u]
  OBVIOUS
<1>5. t = [u \in 1 .. Len(up) |-> t[u]]
  BY <1>3
<1> HIDE DEF t
<1>6. IsSeq(t) /\ Len(t) = Len(up)
  BY <1>3, <1>5, Mapped
<1>7. DOMAIN t = DOMAIN up
  BY <1>3, <1>6, SeqOfElements
<1>8. /\ DOMAIN h2 = DOMAIN h /\ h2.upvalues = t /\ h2.fns = h.fns /\ h2.closures = h.closures
  BY <1>2 DEF HeapShape
<1>9. ASSUME NEW u \in DOMAIN up
      PROVE  /\ UpvalueShape(t[u]) /\ t[u].open = up[u].open /\ t[u].at[2] = up[u].at[2]
             /\ open(u) => t[u].at[1] = base
  <2>1. UpvalueShape(up[u])
    BY DEF HeapShape
  <2>2. /\ DOMAIN moved(u) = DOMAIN up[u] /\ moved(u).open = up[u].open
        /\ moved(u).at = <<base, up[u].at[2]>>
    BY <2>1 DEF UpvalueShape, Moved
  <2> HIDE DEF moved, open
  <2>3. UpvalueShape(moved(u)) /\ moved(u).at[2] = up[u].at[2] /\ moved(u).at[1] = base
    BY <2>1, <2>2 DEF UpvalueShape
  <2> QED  BY <1>4, <2>1, <2>2, <2>3
<1> HIDE DEF open
<1>10. HeapShape(h2)
  BY <1>6, <1>7, <1>8, <1>9 DEF HeapShape
<1>11. \A u : (\E i \in DOMAIN f.openUpvalues : f.openUpvalues[i] = u) => open(u)
  BY <1>1 DEF open, Contains
<1>12. Followed(h, h2, f, base)
  BY <1>7, <1>8, <1>9, <1>11 DEF Followed
<1> QED  BY <1>10, <1>12

(* A frame on top of frames that fit.                                          *)
LEMMA FramePushed ==
  ASSUME NEW h, NEW v, NEW f, NEW top \in Nat \ {0}, HeapShape(h), FiberShape(f),
         FramesFit(h, v, f, top), OnlyCaptured(h, f), OpenList(h, f.openUpvalues, f.base),
         f.frames # <<>>, Under(h, f, top - 1),
         NEW h2, HeapShape(h2), NEW f2, FiberShape(f2), Followed(h, h2, f, f2.base),
         f2.openUpvalues = f.openUpvalues, f.capacity <= f2.capacity,
         Len(f2.frames) = Len(f.frames) + 1, FramesMoved(f, f2),
         FrameFits(h2, v, f2, Len(f2.stack), Len(f2.frames)),
         f2.frames[Len(f2.frames)].start[2] = top - 1
  PROVE  /\ FramesFit(h2, v, f2, Len(f2.stack)) /\ OnlyCaptured(h2, f2)
         /\ OpenList(h2, f2.openUpvalues, f2.base)
<1> DEFINE N == Len(f.frames)
<1>1. /\ N \in Nat \ {0} /\ DOMAIN f.frames = 1 .. N /\ DOMAIN f2.frames = 1 .. N + 1
      /\ Len(f2.frames) = N + 1
  <2>1. IsSeq(f.frames) /\ IsSeq(f2.frames)
    BY DEF FiberShape
  <2>2. N \in Nat /\ DOMAIN f.frames = 1 .. N /\ DOMAIN f2.frames = 1 .. Len(f2.frames)
    BY <2>1, SeqOfElements DEF IsSeq
  <2>3. N # 0
    BY <2>1 DEF IsSeq
  <2> QED  BY <2>2, <2>3
<1>2. \A i \in 1 .. N : /\ f2.frames[i].closure = f.frames[i].closure
                        /\ f2.frames[i].ip = f.frames[i].ip
                        /\ f2.frames[i].size = f.frames[i].size
                        /\ f2.frames[i].start[1] = f2.base
                        /\ f2.frames[i].start[2] = f.frames[i].start[2]
                        /\ f.frames[i].start[2] \in Nat /\ f.frames[i].start[2] <= top - 1
  <2> TAKE i \in 1 .. N
  <2>1. SameBut(f.frames[i], f2.frames[i], f2.base)
    BY DEF FramesMoved
  <2>2. FrameShape(f.frames[i])
    BY <1>1 DEF FiberShape
  <2>3. f.frames[i].start[2] <= top - 1
    BY <1>1 DEF Under
  <2>4. f.frames[i].start[2] \in Nat
    BY <2>2 DEF FrameShape
  <2> QED  BY <2>1, <2>3, <2>4 DEF SameBut
<1>3. ASSUME NEW i \in 1 .. N
      PROVE  /\ FunctionOf(h2, f2.frames[i]) = FunctionOf(h, f.frames[i])
             /\ ViewOf(h2, f2.frames[i]) = ViewOf(h, f.frames[i])
             /\ FrameVerified(h2, v.modules, f2.frames[i])
             /\ Point(h2, f2.frames[i]) = Point(h, f.frames[i])
  <2> DEFINE a == f.frames[i]
             b == f2.frames[i]
  <2>1. b.closure = a.closure /\ b.size = a.size /\ b.start[2] = a.start[2] /\ b.ip = a.ip
    BY <1>2
  <2>2. FrameVerified(h, v.modules, a)
    BY <1>1 DEF FramesFit, FrameFits
  <2> HIDE DEF a, b
  <2>3. FunctionOf(h2, b) = FunctionOf(h, a)
    BY <2>1 DEF FunctionOf, Followed
  <2>4. NumValues(b) = NumValues(a)
    BY <2>1 DEF NumValues
  <2>5. ViewOf(h2, b) = ViewOf(h, a)
    BY <2>3, <2>4 DEF ViewOf, Followed
  <2>6. FrameVerified(h2, v.modules, b)
    BY <2>1, <2>2, <2>3, <2>4, <2>5 DEF FrameVerified, Followed
  <2>7. Point(h2, b) = Point(h, a)
    BY <2>1, <2>5 DEF Point
  <2> QED  BY <2>3, <2>5, <2>6, <2>7 DEF a, b
<1>4. Ascending(f2)
  <2>1. Ascending(f)
    BY DEF FramesFit
  <2>2. ASSUME NEW i \in 1 .. N + 1, NEW j \in 1 .. N + 1, i <= j
        PROVE  f2.frames[i].start[2] <= f2.frames[j].start[2]
    <3>1. CASE j <= N
      <4>1. i \in 1 .. N /\ j \in 1 .. N
        BY <1>1, <2>2, <3>1
      <4> QED  BY <1>1, <1>2, <2>1, <2>2, <4>1 DEF Ascending
    <3>2. CASE j = N + 1 /\ i <= N
      BY <1>1, <1>2, <3>2
    <3>3. CASE j = N + 1 /\ i = N + 1
      BY <1>1, <3>3
    <3> QED  BY <1>1, <2>2, <3>1, <3>2, <3>3
  <2>3. 1 \in 1 .. N
    BY <1>1
  <2>4. f2.frames[1].start[2] = 0
    BY <1>1, <1>2, <2>1, <2>3 DEF Ascending
  <2> QED  BY <1>1, <2>2, <2>4 DEF Ascending
<1>5. ASSUME NEW i \in 1 .. N + 1
      PROVE  FrameFits(h2, v, f2, Len(f2.stack), i)
  <2>1. CASE i = N + 1
    BY <1>1, <2>1
  <2>2. CASE i # N + 1
    <3>1. i \in 1 .. N /\ i # Len(f2.frames) /\ i + 1 \in 1 .. N + 1 /\ (i # N => i + 1 \in 1 .. N)
      BY <1>1, <2>2
    <3>2. FrameFits(h, v, f, top, i)
      BY <1>1, <3>1 DEF FramesFit
    <3>3. f.frames[i].start[2] + Point(h, f.frames[i]).depth
             = IF i = N THEN top ELSE f.frames[i + 1].start[2] + 1
      BY <3>2 DEF FrameFits
    <3>4. f2.frames[i].start[2] + Point(h2, f2.frames[i]).depth = f2.frames[i + 1].start[2] + 1
      <4>1. /\ f2.frames[i].start[2] = f.frames[i].start[2]
            /\ Point(h2, f2.frames[i]) = Point(h, f.frames[i])
        BY <1>2, <1>3, <3>1
      <4>2. CASE i = N
        <5>1. f2.frames[i + 1].start[2] = top - 1
          BY <1>1, <4>2
        <5> QED  BY <3>3, <4>1, <4>2, <5>1
      <4>3. CASE i # N
        <5>1. f2.frames[i + 1].start[2] = f.frames[i + 1].start[2]
          BY <1>2, <3>1, <4>3
        <5> QED  BY <3>3, <4>1, <4>3, <5>1
      <4> QED  BY <4>2, <4>3
    <3>5. f2.frames[i].size + h2.fns[FunctionOf(h2, f2.frames[i])].maxSlots <= f2.capacity
      <4> DEFINE room == f.frames[i].size + h.fns[FunctionOf(h, f.frames[i])].maxSlots
      <4>1. room <= f.capacity
        BY <3>2 DEF FrameFits
      <4>2. room = f2.frames[i].size + h2.fns[FunctionOf(h2, f2.frames[i])].maxSlots
        BY <1>2, <1>3, <3>1 DEF Followed
      <4>3. room \in Nat
        <5>1. h.fns[FunctionOf(h, f.frames[i])].maxSlots \in Nat
          BY <3>2 DEF FrameFits, FrameVerified, Verifies
        <5>2. f.frames[i].size \in Nat
          BY <1>1, <3>1 DEF FiberShape, FrameShape
        <5> QED  BY <5>1, <5>2, SumIsNat
      <4>4. f.capacity \in Nat /\ f2.capacity \in Nat
        BY DEF FiberShape
      <4> HIDE DEF room
      <4> QED  BY <4>1, <4>2, <4>3, <4>4
    <3>6. f2.frames[i].ip \in DOMAIN ViewOf(h2, f2.frames[i])
      BY <1>2, <1>3, <3>1, <3>2 DEF FrameFits
    <3> QED  BY <1>2, <1>3, <3>1, <3>4, <3>5, <3>6 DEF FrameFits
  <2> QED  BY <2>1, <2>2
<1>6. ASSUME NEW k \in DOMAIN f.openUpvalues
      PROVE  /\ f.openUpvalues[k] \in DOMAIN h.upvalues
             /\ SlotOf(h2, f2, k) = SlotOf(h, f, k) /\ SlotOf(h, f, k) \in Nat
             /\ h2.upvalues[f.openUpvalues[k]].at[1] = f2.base
  <2> DEFINE u == f.openUpvalues[k]
  <2>1. u \in DOMAIN h.upvalues
    BY DEF OpenList
  <2>2. UpvalueShape(h.upvalues[u])
    BY <2>1 DEF HeapShape
  <2>3. h.upvalues[u].at[2] \in Nat
    BY <2>2 DEF UpvalueShape
  <2>4. h2.upvalues[u].at[2] = h.upvalues[u].at[2] /\ h2.upvalues[u].at[1] = f2.base
    BY <2>1 DEF Followed
  <2> QED  BY <2>1, <2>3, <2>4 DEF SlotOf
<1>7. OnlyCaptured(h2, f2)
  <2>1. ASSUME NEW k \in DOMAIN f.openUpvalues, NEW i \in 1 .. N + 1,
               Within(f2, i, SlotOf(h2, f2, k))
        PROVE  SlotOf(h2, f2, k) - f2.frames[i].start[2] \in Point(h2, f2.frames[i]).captured
    <3> DEFINE slot == SlotOf(h2, f2, k)
    <3>1. slot = SlotOf(h, f, k) /\ slot \in Nat /\ slot < top - 1
      BY <1>6 DEF Under
    <3>2. f2.frames[i].start[2] <= slot /\ (i < N + 1 => slot < f2.frames[i + 1].start[2])
      BY <1>1, <2>1 DEF Within
    <3> HIDE DEF slot
    <3>3. i # N + 1
      BY <1>1, <3>1, <3>2
    <3>4. i \in 1 .. N /\ i < N + 1 /\ (i < N => i + 1 \in 1 .. N)
      BY <1>1, <3>3
    <3>5. Within(f, i, slot)
      BY <1>1, <1>2, <3>2, <3>4 DEF Within
    <3>6. slot - f.frames[i].start[2] \in Point(h, f.frames[i]).captured
      BY <1>1, <3>1, <3>4, <3>5 DEF OnlyCaptured
    <3> QED  BY <1>2, <1>3, <3>4, <3>6 DEF slot
  <2>2. f2.frames # <<>>
    BY <1>1
  <2> QED  BY <1>1, <2>1, <2>2 DEF OnlyCaptured
<1>8. OpenList(h2, f2.openUpvalues, f2.base)
  <2> DEFINE list == f.openUpvalues
  <2>1. \A i \in DOMAIN list : list[i] \in DOMAIN h2.upvalues /\ h2.upvalues[list[i]].at[1] = f2.base
    BY <1>6 DEF Followed
  <2>2. \A i, j \in DOMAIN list : i < j => h2.upvalues[list[j]].at[2] < h2.upvalues[list[i]].at[2]
    <3>1. \A i \in DOMAIN list : h2.upvalues[list[i]].at[2] = h.upvalues[list[i]].at[2]
      BY <1>6 DEF SlotOf
    <3>2. \A i, j \in DOMAIN list : i < j => h.upvalues[list[j]].at[2] < h.upvalues[list[i]].at[2]
      BY DEF OpenList
    <3> QED  BY <3>1, <3>2
  <2>3. \A u \in DOMAIN h2.upvalues :
           h2.upvalues[u].open <=> \E i \in DOMAIN list : list[i] = u
    BY DEF OpenList, Followed
  <2> QED  BY <2>1, <2>2, <2>3 DEF OpenList
<1> QED  BY <1>1, <1>4, <1>5, <1>7, <1>8 DEF FramesFit

LEMMA GrownFrames ==
  ASSUME NEW f, FiberShape(f), NEW needed, NEW moves, NEW g, g = EnsureStack(f, needed, moves)
  PROVE  DOMAIN g = DOMAIN f /\ IsSeq(g.frames) /\ Len(g.frames) = Len(f.frames) /\ g.base \in Nat
<1> DEFINE N == Len(f.frames)
           base == IF moves THEN f.base + 1 ELSE f.base
           t == [i \in DOMAIN f.frames |-> [f.frames[i] EXCEPT !.start = Moved(f.frames[i].start, base)]]
<1>1. IsSeq(f.frames) /\ N \in Nat /\ DOMAIN f.frames = 1 .. N /\ f.base \in Nat
  BY SeqOfElements DEF FiberShape, IsSeq
<1>2. CASE f.capacity >= needed
  <2>1. g = f
    BY <1>2 DEF EnsureStack
  <2> QED  BY <1>1, <2>1
<1>3. CASE ~(f.capacity >= needed)
  <2>1. g = [f EXCEPT !.capacity = PowerOf2Ceil(needed), !.base = base, !.frames = t]
    BY <1>3, Zenon DEF EnsureStack
  <2>2. base \in Nat
    BY <1>1
  <2>3. t = [i \in 1 .. N |-> t[i]]
    BY <1>1
  <2> HIDE DEF t, base
  <2>4. IsSeq(t) /\ Len(t) = N
    BY <1>1, <2>3, Mapped
  <2>5. DOMAIN g = DOMAIN f /\ g.frames = t /\ g.base = base
    BY <2>1 DEF FiberShape
  <2> QED  BY <2>2, <2>4, <2>5
<1> QED  BY <1>2, <1>3

(* wrenCallFunction: the frame that called stands where it goes on after the    *)
(* call, q, and the new one has its arguments on top of the stack.             *)
LEMMA CallStep ==
  ASSUME IInv, vm.result = "running", VerifiedStep,
         NEW q \in LeadsFromTop(heap, fiber), NEW n, q[1] = Frame.ip + n,
         NEW numArgs \in Nat \ {0}, NEW moves \in BOOLEAN, NEW closure,
         NEW h, HeapShape(h), h.upvalues = heap.upvalues, ClosuresKept(heap, h),
         NEW f, DOMAIN f = DOMAIN fiber, f.base = fiber.base, f.capacity = fiber.capacity,
         f.frames = Advanced(n), f.openUpvalues = fiber.openUpvalues, IsSeq(f.stack),
         q[2].depth \in Nat \ {0}, Len(f.stack) - numArgs + 1 = Frame.start[2] + q[2].depth,
         Here.captured \subseteq q[2].captured, Here.captured \subseteq 0 .. (q[2].depth - 2),
         CallFunction(h, f, closure, numArgs, moves), MachineKept
  PROVE  IInv'
<1> DEFINE size == Len(f.stack)
           top == size - numArgs + 1
           needed == size + h.fns[h.closures[closure].fn].maxSlots
           grown == EnsureStack(f, needed, moves)
           frame == [closure |-> closure, ip |-> 0, size |-> size,
                     start |-> <<grown.base, size - numArgs>>]
           N == Len(fiber.frames)
<1>1. heap' = MoveUpvalues(h, f, grown.base) /\ fiber' = [grown EXCEPT !.frames = Append(@, frame)]
  BY DEF CallFunction
<1>2. /\ Sound(heap, vm, fiber) /\ FiberShape(fiber) /\ fiber.frames # <<>>
      /\ N \in Nat \ {0} /\ DOMAIN fiber.frames = 1 .. N /\ Frame = TopOf(fiber)
      /\ Frame.start[2] \in Nat /\ Frame.start[1] = fiber.base
  BY AtHere DEF IInv, Sound, FrameShape
<1>3. size \in Nat /\ top \in Nat \ {0} /\ Frame.start[2] <= top - 1 /\ size - numArgs = top - 1
  <2>1. size \in Nat
    BY DEF IsSeq
  <2>2. top = Frame.start[2] + q[2].depth /\ q[2].depth \in Nat /\ q[2].depth >= 1
    OBVIOUS
  <2>3. numArgs \in Nat /\ top = size - numArgs + 1
    OBVIOUS
  <2> HIDE DEF top, size
  <2>4. \A start, depth, a \in Nat :
          (top = start + depth /\ depth >= 1 /\ top = size - a + 1)
             => top \in Nat \ {0} /\ start <= top - 1 /\ size - a = top - 1
    BY <2>1
  <2> QED  BY <1>2, <2>1, <2>2, <2>3, <2>4
<1>4. FiberShape(f) /\ MovedOn(fiber, f, q[1]) /\ Len(f.frames) = N /\ DOMAIN f.frames = 1 .. N
  <2>1. /\ IsSeq(f.frames) /\ Len(f.frames) = N
        /\ \A i \in 1 .. N : FrameShape(f.frames[i])
    <3>1. /\ IsSeq(Advanced(n)) /\ Len(Advanced(n)) = N
          /\ \A i \in 1 .. N : FrameShape(Advanced(n)[i])
      BY AdvancedFrames
    <3> QED  BY <3>1
  <2>2. DOMAIN f.frames = 1 .. N
    BY <2>1, SeqOfElements
  <2>3. FiberShape(f)
    BY <1>2, <2>1, <2>2 DEF FiberShape
  <2>4. MovedOn(fiber, f, q[1])
    BY <2>1, AdvancedFrames DEF MovedOn
  <2> QED  BY <2>1, <2>2, <2>3, <2>4
<1>5. \A i \in 1 .. N : f.frames[i].start = fiber.frames[i].start
  <2> TAKE i \in 1 .. N
  <2>1. FrameShape(fiber.frames[i])
    BY <1>2 DEF FiberShape
  <2> QED  BY <1>2, <1>4, <2>1 DEF MovedOn, FrameShape
<1>6. \A i \in DOMAIN f.frames : f.frames[i].start[1] = f.base /\ f.frames[i].start[2] <= top - 1
  <2>1. \A i \in 1 .. N : fiber.frames[i].start[1] = fiber.base
    BY <1>2 DEF Sound, FramesFit, FrameFits
  <2>2. \A i \in 1 .. N : fiber.frames[i].start[2] <= Frame.start[2]
    <3>1. Ascending(fiber)
      BY <1>2 DEF Sound, FramesFit
    <3>2. \A i \in 1 .. N : i <= N /\ N \in 1 .. N
      BY <1>2
    <3> QED  BY <1>2, <3>1, <3>2 DEF Ascending, TopOf
  <2>3. \A i \in 1 .. N : fiber.frames[i].start[2] \in Nat
    BY <1>2 DEF FiberShape, FrameShape
  <2> HIDE DEF top, size
  <2>4. \A i \in 1 .. N : fiber.frames[i].start[2] <= top - 1
    <3> TAKE i \in 1 .. N
    <3>1. Frame.start[2] \in Nat /\ top - 1 \in Int /\ Frame.start[2] <= top - 1
      BY <1>2, <1>3
    <3>2. fiber.frames[i].start[2] \in Nat /\ fiber.frames[i].start[2] <= Frame.start[2]
      BY <2>2, <2>3
    <3> QED  BY <3>1, <3>2, AtMostTrans
  <2> QED  BY <1>4, <1>5, <2>1, <2>4
<1> HIDE DEF top
<1>7. OpenList(h, f.openUpvalues, f.base)
  BY <1>2 DEF Sound, OpenList
<1>8. ASSUME NEW k \in DOMAIN f.openUpvalues
      PROVE  /\ SlotOf(h, f, k) = SlotOf(heap, fiber, k)
             /\ SlotOf(h, f, k) - Frame.start[2] \in Here.captured \/ SlotOf(h, f, k) < Frame.start[2]
             /\ SlotOf(h, f, k) < top - 1
  <2> DEFINE slot == SlotOf(heap, fiber, k)
  <2>1. SlotOf(h, f, k) = slot
    BY DEF SlotOf
  <2>2. slot \in Nat /\ (slot - Frame.start[2] \in Here.captured \/ slot < Frame.start[2])
    BY OpenSlot
  <2> HIDE DEF slot
  <2>3. slot < top - 1
    <3>1. top = Frame.start[2] + q[2].depth
      BY DEF top
    <3>2. CASE slot - Frame.start[2] \in Here.captured
      <4>1. slot - Frame.start[2] <= q[2].depth - 2
        BY <1>2, <2>2, <3>2
      <4>2. q[2].depth \in Nat
        OBVIOUS
      <4> HIDE DEF top, size
      <4>3. \A start, depth \in Nat :
              (top = start + depth /\ slot - start <= depth - 2) => slot < top - 1
        BY <2>2
      <4> QED  BY <1>2, <3>1, <4>1, <4>2, <4>3
    <3>3. CASE slot < Frame.start[2]
      <4> HIDE DEF top, size
      <4> QED  BY <1>2, <1>3, <2>2, <3>3
    <3> QED  BY <2>2, <3>2, <3>3
  <2> HIDE DEF top, size
  <2> QED  BY <2>1, <2>2, <2>3 DEF slot
<1>9. LeftCaptured(heap, fiber, h, f, q[2].captured)
  BY <1>2, <1>8 DEF LeftCaptured
<1> HIDE DEF grown, frame, needed
<1>10. DOMAIN grown = DOMAIN f /\ IsSeq(grown.frames) /\ Len(grown.frames) = N /\ grown.base \in Nat
  BY <1>4, GrownFrames DEF grown
<1>11. /\ heap'.fns = h.fns /\ heap'.closures = h.closures /\ HeapShape(heap')
       /\ Followed(h, heap', f, grown.base)
  <2>1. IsSeq(f.openUpvalues)
    BY <1>4 DEF FiberShape
  <2>2. HeapShape(heap') /\ Followed(h, heap', f, grown.base)
    BY <1>1, <1>10, <2>1, UpvaluesFollow
  <2> QED  BY <2>2 DEF Followed
<1>12. /\ DOMAIN fiber' = DOMAIN f /\ IsSeq(fiber'.frames) /\ Len(fiber'.frames) = N + 1
       /\ DOMAIN fiber'.frames = 1 .. N + 1 /\ fiber'.frames[N + 1] = frame
       /\ \A i \in 1 .. N : fiber'.frames[i] = grown.frames[i]
       /\ fiber'.stack = grown.stack /\ fiber'.base = grown.base
       /\ fiber'.capacity = grown.capacity /\ fiber'.openUpvalues = grown.openUpvalues
  <2> DEFINE frames == Append(grown.frames, frame)
  <2>1. fiber' = [grown EXCEPT !.frames = frames]
    BY <1>1
  <2>2. /\ IsSeq(frames) /\ Len(frames) = N + 1 /\ frames[N + 1] = frame
        /\ \A i \in 1 .. N : frames[i] = grown.frames[i]
    BY <1>10, Appended
  <2> HIDE DEF frames
  <2>3. DOMAIN frames = 1 .. N + 1
    BY <2>2, SeqOfElements
  <2>4. DOMAIN fiber' = DOMAIN f /\ fiber'.frames = frames
        /\ fiber'.stack = grown.stack /\ fiber'.base = grown.base
        /\ fiber'.capacity = grown.capacity /\ fiber'.openUpvalues = grown.openUpvalues
    BY <1>4, <1>10, <2>1 DEF FiberShape
  <2> QED  BY <2>2, <2>3, <2>4
<1>13. /\ frame.closure = closure /\ frame.ip = 0 /\ frame.size = size
       /\ frame.start[1] = grown.base /\ frame.start[2] = top - 1 /\ FrameShape(frame)
  <2>1. size - numArgs \in Nat /\ size - numArgs <= size
    BY <1>3
  <2> QED  BY <1>3, <1>10, <2>1 DEF frame, FrameShape
<1>14. NumValues(frame) = numArgs
  BY <1>3, <1>13 DEF NumValues
<1>15. FrameVerified(heap', vm'.modules, frame)
  <2>1. Len(fiber'.frames) > Len(fiber.frames) /\ Last(fiber'.frames) = frame
    BY <1>2, <1>12 DEF Last
  <2> QED  BY <2>1 DEF VerifiedStep
<1>16. needed \in Nat /\ needed = frame.size + heap'.fns[FunctionOf(heap', frame)].maxSlots
  <2>1. heap'.fns[FunctionOf(heap', frame)].maxSlots \in Nat
    BY <1>15 DEF FrameVerified, Verifies
  <2>2. FunctionOf(heap', frame) = h.closures[closure].fn
    BY <1>11, <1>13 DEF FunctionOf
  <2>3. needed = frame.size + heap'.fns[FunctionOf(heap', frame)].maxSlots
    BY <1>11, <1>13, <2>2 DEF needed, Followed
  <2> HIDE DEF size
  <2> QED  BY <1>3, <1>13, <2>1, <2>3
<1>17. /\ FiberShape(grown) /\ grown.stack = f.stack /\ grown.openUpvalues = f.openUpvalues
       /\ f.capacity <= grown.capacity /\ needed <= grown.capacity
       /\ FramesMoved(f, grown)
  <2>1. OnBase(f)
    BY <1>6 DEF OnBase
  <2> QED  BY <1>4, <1>16, <2>1, Grown DEF grown
<1>18. FiberShape(fiber')
  <2>1. DOMAIN grown.frames = 1 .. N
    BY <1>10, SeqOfElements
  <2>2. \A i \in 1 .. N + 1 : FrameShape(fiber'.frames[i])
    <3> TAKE i \in 1 .. N + 1
    <3>1. i \in 1 .. N \/ i = N + 1
      BY <1>2
    <3> QED  BY <1>12, <1>13, <1>17, <2>1, <3>1 DEF FiberShape
  <2> QED  BY <1>4, <1>12, <1>17, <2>2 DEF FiberShape
<1>19. FrameFits(heap', vm', fiber', Len(fiber'.stack), N + 1)
  <2>1. /\ 0 \in DOMAIN ViewOf(heap', frame) /\ Point(heap', frame).depth = numArgs
    BY <1>13, <1>14, <1>15 DEF FrameVerified, Verifies, Point
  <2>2. frame.start[2] + Point(heap', frame).depth = Len(fiber'.stack)
    <3>1. Len(fiber'.stack) = size
      BY <1>12, <1>17
    <3> QED  BY <1>3, <1>13, <2>1, <3>1
  <2>3. frame.size + heap'.fns[FunctionOf(heap', frame)].maxSlots <= fiber'.capacity
    BY <1>12, <1>16, <1>17
  <2> QED  BY <1>12, <1>13, <1>15, <2>1, <2>2, <2>3 DEF FrameFits
<1>20. FramesFit(h, vm', f, top) /\ OnlyCaptured(h, f)
  <2>1. Carried(heap, h, vm', fiber)
    <3>1. DOMAIN heap.closures \subseteq DOMAIN heap'.closures
      BY <1>11 DEF ClosuresKept
    <3>2. \A c \in DOMAIN heap.closures : heap'.closures[c] = heap.closures[c]
      BY <1>11 DEF ClosuresKept
    <3>3. h.fns = heap'.fns /\ h.closures = heap'.closures
      BY <1>11
    <3> QED  BY <3>1, <3>2, <3>3, CodeCarries DEF MachineKept
  <2>2. top = TopOf(fiber).start[2] + q[2].depth
    BY <1>2 DEF top
  <2> QED  BY <1>2, <1>4, <1>7, <1>9, <2>1, <2>2, StepInFrame
<1>21. Sound(heap', vm', fiber')
  <2>1. FramesMoved(f, fiber')
    BY <1>4, <1>12, <1>17 DEF FramesMoved
  <2>2. f.frames # <<>> /\ Len(fiber'.frames) = Len(f.frames) + 1
    BY <1>2, <1>4, <1>12
  <2>3. fiber'.openUpvalues = f.openUpvalues /\ f.capacity <= fiber'.capacity
    BY <1>12, <1>17
  <2>4. fiber'.frames[Len(fiber'.frames)].start[2] = top - 1
    BY <1>12, <1>13
  <2>5. FrameFits(heap', vm', fiber', Len(fiber'.stack), Len(fiber'.frames))
    BY <1>12, <1>19
  <2>6. Followed(h, heap', f, fiber'.base)
    BY <1>11, <1>12
  <2>7. Under(h, f, top - 1)
    BY <1>6, <1>8 DEF Under
  <2>8. top \in Nat \ {0}
    BY <1>3
  <2>9. /\ FramesFit(heap', vm', fiber', Len(fiber'.stack)) /\ OnlyCaptured(heap', fiber')
        /\ OpenList(heap', fiber'.openUpvalues, fiber'.base)
    BY <1>4, <1>7, <1>11, <1>18, <1>20, <2>1, <2>2, <2>3, <2>4, <2>5, <2>6, <2>7, <2>8, FramePushed
  <2> QED  BY <1>11, <1>18, <2>9 DEF Sound
<1>22. fiber'.frames # <<>>
  BY <1>2, <1>12
<1> QED  BY <1>21, <1>22 DEF IInv, MachineKept

(* A call of a block, or of a function object: its arguments are on the stack.  *)
LEMMA CallMade ==
  ASSUME IInv, VerifiedStep, vm.result = "running", Instruction[1] \in {"CALL", "SUPER"},
         NEW closure, NEW moves \in Moves, vm' = vm,
         CallFunction(heap, [fiber EXCEPT !.frames = Advanced(CallLength)], closure, NumArgs, moves)
  PROVE  IInv'
<1> DEFINE f == [fiber EXCEPT !.frames = Advanced(CallLength)]
<1>1. Effect = -Instruction[2] /\ Follow(CallLength) /\ Instruction[1] \notin Branching
  BY Lengths, Effects DEF Branching, CallLength
<1>2. PICK q \in LeadsFromTop(heap, fiber) :
            /\ q[1] = Frame.ip + CallLength /\ q[2].depth = Here.depth + Effect
            /\ q[2].captured = Here.captured
  BY <1>1, OrdinaryLead
<1>3. /\ Instruction[2] \in Nat /\ Instruction[2] + 1 <= Here.depth
      /\ Here.captured \subseteq 0 .. (Here.depth - (Instruction[2] + 1) - 1)
  <2>1. Taken(Instruction[1], Instruction[2]) = Instruction[2] + 1 /\ Instruction[1] # "CLOSE_UPVALUE"
    BY DEF Taken
  <2> QED  BY <2>1, Available
<1>4. Here.depth \in Nat /\ Len(fiber.stack) = Frame.start[2] + Here.depth /\ Frame.start[2] \in Nat
  BY AtHere DEF FrameShape
<1>5. /\ q[2].depth = Here.depth - Instruction[2] /\ q[2].depth \in Nat \ {0}
      /\ NumArgs = Instruction[2] + 1 /\ NumArgs \in Nat \ {0}
  BY <1>1, <1>2, <1>3, <1>4 DEF NumArgs
<1>6. Len(fiber.stack) - NumArgs + 1 = Frame.start[2] + q[2].depth
  <2>1. /\ Len(fiber.stack) = Frame.start[2] + Here.depth /\ q[2].depth = Here.depth - Instruction[2]
        /\ NumArgs = Instruction[2] + 1
    BY <1>4, <1>5
  <2>2. Instruction[2] \in Nat /\ Here.depth \in Nat /\ Frame.start[2] \in Nat
    BY <1>3, <1>4
  <2>3. (Frame.start[2] + Here.depth) - (Instruction[2] + 1) + 1
          = Frame.start[2] + (Here.depth - Instruction[2])
    BY <2>2, CallLeaves
  <2> QED  BY <2>1, <2>3, Zenon
<1>7. Here.captured \subseteq 0 .. (q[2].depth - 2)
  <2>1. Here.depth - (Instruction[2] + 1) - 1 = q[2].depth - 2
    BY <1>3, <1>4, <1>5
  <2> QED  BY <1>3, <2>1
<1>8. /\ DOMAIN f = DOMAIN fiber /\ f.base = fiber.base /\ f.capacity = fiber.capacity
      /\ f.frames = Advanced(CallLength) /\ f.openUpvalues = fiber.openUpvalues
      /\ f.stack = fiber.stack
  BY DEF IInv, Sound, FiberShape
<1>9. CallFunction(heap, f, closure, NumArgs, moves)
  OBVIOUS
<1> HIDE DEF f
<1>10. /\ HeapShape(heap) /\ IsSeq(f.stack) /\ ClosuresKept(heap, heap) /\ moves \in BOOLEAN
  BY <1>8, InterpreterAssumption DEF IInv, Sound, FiberShape, ClosuresKept
<1>11. MachineKept
  BY VmKept
<1>12. Here.captured \subseteq q[2].captured /\ Len(f.stack) - NumArgs + 1 = Frame.start[2] + q[2].depth
  BY <1>2, <1>6, <1>8
<1> HIDE <1>6
<1> QED  BY <1>2, <1>5, <1>7, <1>8, <1>9, <1>10, <1>11, <1>12, CallStep

LEMMA CallSteps ==
  ASSUME IInv, VerifiedStep, CallBlock \/ CallPrimitive \/ MethodNotFound
  PROVE  IInv'
<1>1. CASE CallBlock
  <2>1. /\ vm.result = "running" /\ Instruction[1] \in {"CALL", "SUPER"} /\ vm' = vm
        /\ \E moves \in Moves :
              CallFunction(heap, [fiber EXCEPT !.frames = Advanced(CallLength)],
                           MethodTable[CallSymbol][2], NumArgs, moves)
    BY <1>1 DEF CallBlock, Running
  <2> QED  BY <2>1, CallMade
<1>2. CASE CallPrimitive
  <2> DEFINE name == MethodTable[CallSymbol][2]
             outcome == Primitive(name, Args)
  <2>1. vm.result = "running" /\ Instruction[1] \in {"CALL", "SUPER"}
    BY <1>2 DEF CallPrimitive, Running
  <2>2. CASE CallFn
    <3>1. CASE RuntimeError
      BY <3>1, Stops
    <3>2. CASE /\ vm' = vm
               /\ \E moves \in Moves :
                     CallFunction(heap, [fiber EXCEPT !.frames = Advanced(CallLength)],
                                  Args[1][2], NumArgs, moves)
      BY <2>1, <3>2, CallMade
    <3> QED  BY <2>2, <3>1, <3>2 DEF CallFn
  <2>3. CASE RuntimeError
    BY <2>3, Stops
  <2>4. CASE /\ Stacked(Append(Dropped(NumArgs), outcome.value), CallLength)
             /\ heap' = [heap EXCEPT !.objects = outcome.objects]
             /\ vm' = IF name = "print" THEN [vm EXCEPT !.output = Append(@, Pieces(Args[2]))]
                      ELSE vm
    <3> DEFINE output == Append(vm.output, Pieces(Args[2]))
    <3>1. vm' = [vm EXCEPT !.output = output] \/ vm' = vm
      BY <2>4
    <3> HIDE DEF output, name, outcome
    <3> QED  BY <2>1, <2>4, <3>1, PrimitiveStep
  <2> QED  BY <1>2, <2>2, <2>3, <2>4 DEF CallPrimitive
<1>3. CASE MethodNotFound
  BY <1>3, Stops DEF MethodNotFound
<1> QED  BY <1>1, <1>2, <1>3

-----------------------------------------------------------------------------
\* Modules: what compiling one changes.

LEMMA CompiledVm ==
  ASSUME IInv, NEW name, NEW c, NEW v, v = Compiled(name, c)
  PROVE  /\ DOMAIN v = DOMAIN vm /\ v.result = vm.result /\ v.lastModule = vm.lastModule
         /\ DOMAIN vm.modules \subseteq DOMAIN v.modules
<1> DEFINE modules == [m \in DOMAIN vm.modules \cup {name} |->
                          IF m = name THEN c.vars ELSE vm.modules[m]]
<1>1. DOMAIN vm.modules \subseteq DOMAIN modules
  OBVIOUS
<1> HIDE DEF modules
<1>2. v = [vm EXCEPT !.modules = modules, !.methodNames = c.methodNames]
  BY DEF Compiled, modules
<1> QED  BY <1>1, <1>2 DEF IInv, MachineShape

LEMMA CompilationStops ==
  ASSUME IInv, NEW name, NEW c, NEW result \in Results \ {"ready", "running"},
         vm' = [Compiled(name, c) EXCEPT !.result = result], heap' = heap, fiber' = fiber
  PROVE  IInv'
<1> DEFINE v == Compiled(name, c)
<1>1. /\ DOMAIN v = DOMAIN vm /\ v.lastModule = vm.lastModule
      /\ DOMAIN vm.modules \subseteq DOMAIN v.modules
  BY CompiledVm
<1> HIDE DEF v
<1>2. vm' = [v EXCEPT !.result = result]
  BY DEF v
<1>3. /\ DOMAIN vm' = DOMAIN vm /\ vm'.result = result /\ vm'.lastModule = vm.lastModule
      /\ vm'.modules = v.modules
  BY <1>1, <1>2 DEF IInv, MachineShape
<1>4. MachineShape(vm')
  BY <1>1, <1>3 DEF IInv, MachineShape
<1>5. Sound(heap, vm', fiber)
  BY <1>1, <1>3, MoreModules DEF IInv
<1> QED  BY <1>3, <1>4, <1>5 DEF IInv

LEMMA ModuleClosure ==
  ASSUME IInv, NEW c, NEW h, h = WithClosure(c)
  PROVE  /\ HeapShape(h) /\ h.upvalues = heap.upvalues /\ ClosuresKept(heap, h) /\ h.fns = c.fns
         /\ h.closures[Len(heap.closures) + 1].fn = Len(c.fns)
<1> DEFINE new == [fn |-> Len(c.fns), upvalues |-> <<>>]
           t == Append(heap.closures, new)
<1>1. HeapShape(heap) /\ IsSeq(heap.closures)
  BY DEF IInv, Sound, HeapShape
<1>2. Len(heap.closures) \in Nat /\ DOMAIN heap.closures = 1 .. Len(heap.closures)
  BY <1>1, SeqOfElements DEF IsSeq
<1>3. /\ IsSeq(t) /\ Len(t) = Len(heap.closures) + 1 /\ t[Len(heap.closures) + 1] = new
      /\ \A i \in 1 .. Len(heap.closures) : t[i] = heap.closures[i]
  <2> HIDE DEF new
  <2> QED  BY <1>1, Appended
<1>4. DOMAIN h = DOMAIN heap /\ h.upvalues = heap.upvalues /\ h.fns = c.fns /\ h.closures = t
  BY <1>1 DEF WithClosure, NewClosure, HeapShape
<1>5. new.fn = Len(c.fns)
  OBVIOUS
<1> HIDE DEF t, new
<1>6. DOMAIN t = 1 .. Len(heap.closures) + 1
  BY <1>3, SeqOfElements
<1>7. 1 .. Len(heap.closures) \subseteq 1 .. Len(heap.closures) + 1
  BY <1>2
<1> QED  BY <1>1, <1>2, <1>3, <1>4, <1>5, <1>6, <1>7 DEF HeapShape, ClosuresKept

LEMMA ImportModuleStep ==
  ASSUME IInv, VerifiedStep, ImportModule
  PROVE  IInv'
<1> DEFINE name == ModuleNamed(Short(1))
           closure == Len(heap.closures) + 1
           value == <<"closure", closure>>
           pushed == [fiber EXCEPT !.stack = Append(@, value), !.frames = Advanced(3)]
<1>1. vm.result = "running" /\ Instruction[1] = "IMPORT_MODULE"
  BY DEF ImportModule, Running
<1>2. Effect = 1 /\ Follow(3) /\ Instruction[1] \notin Branching /\ Effect \in Int
  BY <1>1, Lengths, Effects DEF Branching
<1>3. CASE /\ name \in DOMAIN vm.modules
           /\ Stacked(Append(fiber.stack, <<"module", name>>), 3)
           /\ vm' = [vm EXCEPT !.lastModule = name] /\ heap' = heap
  <2> DEFINE stack == Append(fiber.stack, <<"module", name>>)
  <2>1. Stacked(stack, 3)
    BY <1>3
  <2> HIDE DEF name
  <2>2. MachineKept
    BY <1>1, <1>3 DEF IInv, MachineShape, MachineKept
  <2>3. HeapShape(heap') /\ ClosuresKept(heap, heap') /\ UpvaluesKept
    BY <1>3, HeapKept
  <2>4. IsSeq(stack) /\ Len(stack) = Len(fiber.stack) + Effect
    BY <1>1, <1>2, StackOps
  <2> HIDE DEF stack
  <2> QED  BY <1>1, <1>2, <2>1, <2>2, <2>3, <2>4, OrdinaryStep
<1>4. CASE RuntimeError
  BY <1>4, Stops
<1>5. ASSUME NEW c,
             vm' = [Compiled(name, c) EXCEPT
                      !.result = IF c.misread THEN "assertion failed" ELSE "error"],
             heap' = heap, fiber' = fiber
      PROVE  IInv'
  <2> DEFINE result == IF c.misread THEN "assertion failed" ELSE "error"
  <2>1. result \in Results \ {"ready", "running"}
    BY DEF Results
  <2>2. vm' = [Compiled(name, c) EXCEPT !.result = result]
    BY <1>5
  <2> HIDE DEF result, name
  <2> QED  BY <1>5, <2>1, <2>2, CompilationStops
<1>6. ASSUME NEW c, vm' = Compiled(name, c), NEW moves \in Moves,
             CallFunction(WithClosure(c), pushed, closure, 1, moves)
      PROVE  IInv'
  <2> DEFINE h == WithClosure(c)
             stack == Append(fiber.stack, value)
  <2>1. PICK q \in LeadsFromTop(heap, fiber) :
              /\ q[1] = Frame.ip + 3 /\ q[2].depth = Here.depth + 1
              /\ q[2].captured = Here.captured
    BY <1>1, <1>2, OrdinaryLead
  <2>2. /\ HeapShape(h) /\ h.upvalues = heap.upvalues /\ ClosuresKept(heap, h)
    BY ModuleClosure
  <2>3. /\ DOMAIN pushed = DOMAIN fiber /\ pushed.base = fiber.base
        /\ pushed.capacity = fiber.capacity /\ pushed.frames = Advanced(3)
        /\ pushed.openUpvalues = fiber.openUpvalues /\ pushed.stack = stack
    BY DEF IInv, Sound, FiberShape
  <2>4. CallFunction(h, pushed, closure, 1, moves)
    BY <1>6
  <2> HIDE DEF h, pushed, closure, value
  <2>5. IsSeq(stack) /\ Len(stack) = Len(fiber.stack) + 1
    BY <1>1, StackOps
  <2>6. MachineKept
    <3>1. /\ DOMAIN vm' = DOMAIN vm /\ vm'.result = "running" /\ vm'.lastModule = vm.lastModule
          /\ DOMAIN vm.modules \subseteq DOMAIN vm'.modules
      <4> HIDE DEF name
      <4> QED  BY <1>1, <1>6, CompiledVm
    <3> QED  BY <3>1 DEF IInv, MachineShape, MachineKept, Results
  <2>7. /\ Here.depth \in Nat \ {0} /\ Len(fiber.stack) = Frame.start[2] + Here.depth
        /\ Frame.start[2] \in Nat /\ Here.captured \subseteq 0 .. (Here.depth - 1)
    BY <1>1, AtHere DEF FrameShape
  <2>8. /\ q[2].depth \in Nat \ {0} /\ Len(pushed.stack) - 1 + 1 = Frame.start[2] + q[2].depth
    <3>1. Len(pushed.stack) = Len(fiber.stack) + 1
      BY <2>3, <2>5
    <3>2. Len(pushed.stack) = Frame.start[2] + q[2].depth
      BY <2>1, <2>7, <3>1
    <3>3. Len(pushed.stack) \in Nat /\ q[2].depth \in Nat \ {0}
      BY <2>1, <2>7, <3>1
    <3> QED  BY <3>2, <3>3
  <2>9. Here.captured \subseteq 0 .. (q[2].depth - 2)
    <3>1. Here.depth - 1 = q[2].depth - 2
      BY <2>1, <2>7
    <3> QED  BY <2>7, <3>1
  <2>10. Here.captured \subseteq q[2].captured /\ IsSeq(pushed.stack) /\ moves \in BOOLEAN
         /\ 1 \in Nat \ {0}
    BY <2>1, <2>3, <2>5, InterpreterAssumption
  <2> QED  BY <1>1, <2>1, <2>2, <2>3, <2>4, <2>6, <2>8, <2>9, <2>10, CallStep
<1> QED  BY <1>3, <1>4, <1>5, <1>6 DEF ImportModule

(* The first call: wrenInterpret makes a fiber for the closure of the module.   *)
LEMMA InterpretStep ==
  ASSUME IInv, VerifiedStep, Interpret
  PROVE  IInv'
<1> DEFINE closure == Len(heap.closures) + 1
           value == <<"closure", closure>>
           frame == [closure |-> closure, ip |-> 0, size |-> 1, start |-> <<0, 0>>]
<1>1. vm.result = "ready" /\ fiber.base = 0 /\ fiber.frames = <<>> /\ fiber.openUpvalues = <<>>
  BY DEF Interpret, IInv, Sound, OnlyCaptured
<1>2. ASSUME NEW c, c.err \/ c.misread,
             vm' = [Compiled("main", c) EXCEPT !.result = Failure(c)],
             heap' = heap, fiber' = fiber
      PROVE  IInv'
  <2>1. Failure(c) \in Results \ {"ready", "running"}
    BY DEF Results, Failure
  <2> QED  BY <1>2, <2>1, CompilationStops
<1>3. ASSUME NEW c, vm' = [Compiled("main", c) EXCEPT !.result = "running"],
             heap' = WithClosure(c),
             fiber' = [fiber EXCEPT !.stack = <<value>>,
                                    !.capacity = PowerOf2Ceil(Last(c.fns).maxSlots + 1),
                                    !.frames = <<frame>>]
      PROVE  IInv'
  <2> DEFINE capacity == PowerOf2Ceil(Last(c.fns).maxSlots + 1)
  <2>1. /\ HeapShape(heap') /\ heap'.upvalues = heap.upvalues /\ heap'.fns = c.fns
        /\ heap'.closures[closure].fn = Len(c.fns)
    BY <1>3, ModuleClosure
  <2>2. /\ MachineShape(vm') /\ vm'.result = "running"
    <3> DEFINE v == Compiled("main", c)
    <3>1. /\ DOMAIN v = DOMAIN vm /\ v.lastModule = vm.lastModule
          /\ DOMAIN vm.modules \subseteq DOMAIN v.modules
      BY CompiledVm
    <3> HIDE DEF v
    <3>2. vm' = [v EXCEPT !.result = "running"]
      BY <1>3 DEF v
    <3> QED  BY <3>1, <3>2 DEF IInv, MachineShape, Results
  <2>3. /\ DOMAIN fiber' = DOMAIN fiber /\ fiber'.stack = <<value>> /\ fiber'.frames = <<frame>>
        /\ fiber'.capacity = capacity /\ fiber'.base = 0 /\ fiber'.openUpvalues = <<>>
    BY <1>1, <1>3 DEF IInv, Sound, FiberShape
  <2>4. /\ frame.closure = closure /\ frame.ip = 0 /\ frame.size = 1
        /\ frame.start[1] = 0 /\ frame.start[2] = 0 /\ FrameShape(frame)
    BY DEF FrameShape
  <2> HIDE DEF frame, value, closure, capacity
  <2>5. /\ Len(fiber'.frames) = 1 /\ DOMAIN fiber'.frames = {1} /\ fiber'.frames[1] = frame
        /\ Len(fiber'.stack) = 1 /\ Last(fiber'.frames) = frame
        /\ DOMAIN fiber'.openUpvalues = {} /\ fiber'.frames # <<>>
    BY <2>3 DEF Last
  <2>6. FrameVerified(heap', vm'.modules, frame)
    <3>1. Len(fiber'.frames) > Len(fiber.frames)
      BY <1>1, <2>5
    <3> QED  BY <2>5, <3>1 DEF VerifiedStep
  <2>7. NumValues(frame) = 1
    BY <2>4 DEF NumValues
  <2>8. 0 \in DOMAIN ViewOf(heap', frame) /\ Point(heap', frame).depth = 1
    BY <2>4, <2>6, <2>7 DEF FrameVerified, Verifies, Point
  <2>9. capacity \in Nat /\ frame.size + heap'.fns[FunctionOf(heap', frame)].maxSlots <= capacity
    <3> DEFINE maxSlots == heap'.fns[FunctionOf(heap', frame)].maxSlots
    <3>1. maxSlots \in Nat
      BY <2>6 DEF FrameVerified, Verifies
    <3>2. maxSlots = Last(c.fns).maxSlots
      BY <2>1, <2>4 DEF FunctionOf, Last
    <3> HIDE DEF maxSlots
    <3>3. capacity = PowerOf2Ceil(maxSlots + 1) /\ maxSlots + 1 \in Nat
      BY <3>1, <3>2 DEF capacity
    <3>4. capacity \in Nat /\ maxSlots + 1 <= capacity
      BY <3>3, PowerIsEnough
    <3> QED  BY <2>4, <3>1, <3>4 DEF maxSlots
  <2>10. FrameFits(heap', vm', fiber', Len(fiber'.stack), 1)
    BY <2>3, <2>4, <2>5, <2>6, <2>8, <2>9 DEF FrameFits
  <2>11. Ascending(fiber')
    BY <2>4, <2>5 DEF Ascending
  <2>12. FiberShape(fiber')
    <3>1. IsSeq(<<value>>) /\ IsSeq(<<frame>>) /\ IsSeq(<<>>)
      BY DEF IsSeq
    <3>2. FiberShape(fiber)
      BY DEF IInv, Sound
    <3> QED  BY <2>3, <2>4, <2>5, <2>9, <3>1, <3>2 DEF FiberShape
  <2>13. OpenList(heap', fiber'.openUpvalues, fiber'.base)
    <3>1. \A u \in DOMAIN heap.upvalues : ~heap.upvalues[u].open
      <4>1. OpenList(heap, <<>>, 0)
        BY <1>1 DEF IInv, Sound
      <4> QED  BY <4>1 DEF OpenList, IInv, Sound, HeapShape, UpvalueShape
    <3> QED  BY <2>1, <2>5, <3>1 DEF OpenList
  <2>14. OnlyCaptured(heap', fiber')
    BY <2>5 DEF OnlyCaptured
  <2>15. Sound(heap', vm', fiber')
    BY <2>1, <2>5, <2>10, <2>11, <2>12, <2>13, <2>14 DEF Sound, FramesFit
  <2> QED  BY <2>2, <2>5, <2>15 DEF IInv
<1> QED  BY <1>2, <1>3 DEF Interpret

-----------------------------------------------------------------------------
(***************************************************************************)
(* The invariant holds, and what follows from it.                            *)
(***************************************************************************)
LEMMA InitInv ==
  Init => IInv
<1> SUFFICES ASSUME Init PROVE IInv
  OBVIOUS
<1>1. /\ HeapShape(heap) /\ FiberShape(fiber) /\ MachineShape(vm)
      /\ fiber.frames = <<>> /\ fiber.openUpvalues = <<>> /\ fiber.base = 0
      /\ heap.upvalues = <<>> /\ vm.result = "ready"
  <2>1. IsSeq(<<>>)
    BY DEF IsSeq
  <2> QED  BY <2>1 DEF Init, HeapShape, FiberShape, MachineShape, Results
<1>2. DOMAIN fiber.frames = {} /\ DOMAIN fiber.openUpvalues = {} /\ DOMAIN heap.upvalues = {}
  BY <1>1
<1>3. FramesFit(heap, vm, fiber, Len(fiber.stack))
  BY <1>1, <1>2 DEF FramesFit, Ascending
<1>4. OpenList(heap, fiber.openUpvalues, fiber.base) /\ OnlyCaptured(heap, fiber)
  BY <1>1, <1>2 DEF OpenList, OnlyCaptured
<1> QED  BY <1>1, <1>3, <1>4 DEF IInv, Sound

(* As long as the code that is called is verified, every step keeps IInv.       *)
LEMMA NextInv ==
  IInv /\ [Next]_vars /\ [VerifiedStep]_vars => IInv'
<1> SUFFICES ASSUME IInv, [Next]_vars, [VerifiedStep]_vars
             PROVE  IInv'
  OBVIOUS
<1>1. CASE UNCHANGED vars
  BY <1>1 DEF vars, IInv
<1>2. CASE Next /\ VerifiedStep
  <2> USE <1>2
  <2>1. CASE Interpret
    BY <2>1, InterpretStep
  <2>2. CASE ImportModule
    BY <2>2, ImportModuleStep
  <2>3. CASE EndModule \/ ImportVariable \/ StoreLocalVariable \/ StoreModuleVariable \/ Pop
    BY <2>3, VariableSteps
  <2>4. CASE LoadConstant \/ LoadLocalVariable \/ LoadModuleVariable \/ LoadUpvalue
    BY <2>4, PushSteps
  <2>5. CASE StoreUpvalue
    BY <2>5, StoreUpvalueStep
  <2>6. CASE LoadField \/ StoreField \/ MakeClass \/ BindMethod \/ Construct
    BY <2>6, ObjectSteps
  <2>7. CASE MakeClosure
    BY <2>7, MakeClosureStep
  <2>8. CASE CloseUpvalue
    BY <2>8, CloseUpvalueStep
  <2>9. CASE Jump \/ AndOr
    BY <2>9, JumpSteps
  <2>10. CASE CallBlock \/ CallPrimitive \/ MethodNotFound
    BY <2>10, CallSteps
  <2>11. CASE Return
    BY <2>11, ReturnStep
  <2>12. CASE Ended
    BY <1>1, <2>12 DEF Ended
  <2> QED  BY <2>1, <2>2, <2>3, <2>4, <2>5, <2>6, <2>7, <2>8, <2>9, <2>10, <2>11, <2>12 DEF Next
<1> QED  BY <1>1, <1>2

LEMMA InvTypeOK ==
  IInv => TypeOK
<1> SUFFICES ASSUME IInv PROVE TypeOK
  OBVIOUS
<1> DEFINE N == Len(fiber.frames)
<1>1. /\ N \in Nat /\ DOMAIN fiber.frames = 1 .. N /\ Len(fiber.stack) \in Nat
      /\ Ascending(fiber)
      /\ \A i \in 1 .. N : FrameFits(heap, vm, fiber, Len(fiber.stack), i) /\ FrameShape(fiber.frames[i])
  <2>1. IsSeq(fiber.frames) /\ IsSeq(fiber.stack)
    BY DEF IInv, Sound, FiberShape
  <2>2. DOMAIN fiber.frames = 1 .. N
    BY <2>1, SeqOfElements
  <2> QED  BY <2>1, <2>2 DEF IInv, Sound, FiberShape, FramesFit, IsSeq
<1>2. ASSUME NEW i \in 1 .. N
      PROVE  /\ InstructionVerified(heap.fns, heap.fns[FunctionOf(heap, fiber.frames[i])],
                                    NumValues(fiber.frames[i]), ViewOf(heap, fiber.frames[i]),
                                    fiber.frames[i].ip)
             /\ FrameVerified(heap, vm.modules, fiber.frames[i])
             /\ fiber.frames[i].start[1] = fiber.base
  <2>1. /\ FrameVerified(heap, vm.modules, fiber.frames[i])
        /\ fiber.frames[i].ip \in DOMAIN ViewOf(heap, fiber.frames[i])
        /\ fiber.frames[i].start[1] = fiber.base
    BY <1>1 DEF FrameFits
  <2> QED  BY <2>1, AtInstruction
<1>3. ASSUME NEW i \in 1 .. N
      PROVE  fiber.frames[i].start[2] < Len(fiber.stack)
  <2> DEFINE top == fiber.frames[N]
             depth == Point(heap, top).depth
             maxSlots == heap.fns[FunctionOf(heap, top)].maxSlots
  <2>1. N \in 1 .. N /\ i <= N
    BY <1>1
  <2>2. top.start[2] + depth = Len(fiber.stack)
    BY <1>1, <2>1 DEF FrameFits
  <2>3. depth \in 1 .. (NumValues(top) + maxSlots)
    BY <1>2, <2>1 DEF InstructionVerified, Point
  <2>4. maxSlots \in Nat
    BY <1>2, <2>1 DEF FrameVerified, Verifies
  <2>5. top.start[2] \in Nat /\ NumValues(top) \in Nat /\ fiber.frames[i].start[2] \in Nat
    BY <1>1, <2>1 DEF FrameShape, NumValues
  <2>6. fiber.frames[i].start[2] <= top.start[2]
    BY <1>1, <2>1 DEF Ascending
  <2> HIDE DEF depth, maxSlots
  <2>7. depth \in Nat /\ depth >= 1
    BY <2>3, <2>4, <2>5
  <2>8. \A a, b \in Nat : (a <= b /\ b + depth = Len(fiber.stack)) => a < Len(fiber.stack)
    BY <1>1, <2>7
  <2> QED  BY <2>2, <2>5, <2>6, <2>8
<1>4. ASSUME NEW i \in 1 .. N
      PROVE  FrameOK(i)
  <2> DEFINE frame == fiber.frames[i]
             fn == heap.fns[heap.closures[frame.closure].fn]
  <2>1. fn = heap.fns[FunctionOf(heap, frame)]
    BY DEF FunctionOf
  <2>2. frame.ip \in 0 .. (Len(fn.code) - 1) /\ fn.code[frame.ip + 1][1] # "byte"
    BY <1>2, <2>1 DEF InstructionVerified
  <2>3. fn.module \in DOMAIN vm.modules
    BY <1>2, <2>1 DEF FrameVerified
  <2>4. i > 1 => frame.start[2] >= fiber.frames[i - 1].start[2]
    <3>1. i > 1 => i - 1 \in 1 .. N /\ i - 1 <= i
      BY <1>1
    <3>2. \A j \in 1 .. N : fiber.frames[j].start[2] \in Nat
      BY <1>1 DEF FrameShape
    <3> QED  BY <1>1, <3>1, <3>2 DEF Ascending
  <2> QED  BY <1>2, <1>3, <2>2, <2>3, <2>4 DEF FrameOK
<1> QED  BY <1>1, <1>4 DEF TypeOK, IInv, MachineShape, Results

LEMMA InvStackFits ==
  IInv => StackFits
<1> SUFFICES ASSUME IInv, vm.result = "running"
             PROVE  LET depth == Len(fiber.stack) - Frame.start[2]
                    IN  /\ Len(fiber.stack) <= fiber.capacity
                        /\ Len(fiber.stack) <= Frame.size + Function.maxSlots
                        /\ Taken(Instruction[1], Instruction[2]) <= depth
                        /\ LocalsNamed(heap.fns, Function, Frame.ip) \subseteq 0..(depth - 1)
  BY DEF StackFits
<1>1. /\ FrameShape(Frame) /\ Here.depth \in Nat \ {0} /\ Len(fiber.stack) \in Nat
      /\ Len(fiber.stack) = Frame.start[2] + Here.depth
      /\ InstructionVerified(heap.fns, Function, NumValues(Frame), ViewOf(heap, Frame), Frame.ip)
  BY AtHere
<1>2. /\ Here.depth \in 1 .. (NumValues(Frame) + Function.maxSlots)
      /\ Taken(Instruction[1], Instruction[2]) <= Here.depth
      /\ LocalsNamed(heap.fns, Function, Frame.ip) \subseteq 0 .. (Here.depth - 1)
  BY <1>1 DEF InstructionVerified, Here, Point, Instruction
<1>3. Frame.size + Function.maxSlots <= fiber.capacity /\ Function.maxSlots \in Nat
  <2>1. FrameFits(heap, vm, fiber, Len(fiber.stack), Len(fiber.frames))
    BY AtHere DEF IInv, Sound, FramesFit
  <2>2. /\ Frame.size + heap.fns[FunctionOf(heap, Frame)].maxSlots <= fiber.capacity
        /\ FrameVerified(heap, vm.modules, Frame)
    BY <2>1, AtHere DEF FrameFits, TopOf
  <2>3. Function = heap.fns[FunctionOf(heap, Frame)]
    BY DEF Function, Closure, FunctionOf
  <2> QED  BY <2>2, <2>3 DEF FrameVerified, Verifies
<1>4. /\ Frame.start[2] \in Nat /\ Frame.size \in Nat /\ NumValues(Frame) = Frame.size - Frame.start[2]
      /\ fiber.capacity \in Nat
  BY <1>1 DEF FrameShape, NumValues, IInv, Sound, FiberShape
<1>5. Len(fiber.stack) - Frame.start[2] = Here.depth
  BY <1>1, <1>4
<1>6. Len(fiber.stack) <= Frame.size + Function.maxSlots
  BY <1>1, <1>2, <1>3, <1>4
<1>7. Len(fiber.stack) <= fiber.capacity
  BY <1>1, <1>3, <1>4, <1>6
<1> QED  BY <1>2, <1>5, <1>6, <1>7

LEMMA InvUpvaluesSound ==
  IInv => UpvaluesSound
<1> SUFFICES ASSUME IInv PROVE UpvaluesSound
  OBVIOUS
<1> DEFINE open == fiber.openUpvalues
           N == Len(fiber.frames)
<1>1. /\ OpenList(heap, open, fiber.base) /\ OnlyCaptured(heap, fiber) /\ HeapShape(heap)
      /\ IsSeq(open) /\ DOMAIN open = 1 .. Len(open) /\ Len(open) \in Nat
  <2>1. IsSeq(open)
    BY DEF IInv, Sound, FiberShape
  <2>2. DOMAIN open = 1 .. Len(open)
    BY <2>1, SeqOfElements
  <2> QED  BY <2>1, <2>2 DEF IInv, Sound, IsSeq
<1>2. ASSUME NEW k \in DOMAIN open
      PROVE  SlotOf(heap, fiber, k) < Len(fiber.stack)
  <2> DEFINE slot == SlotOf(heap, fiber, k)
             top == fiber.frames[N]
             depth == Point(heap, top).depth
             captured == Point(heap, top).captured
  <2>1. fiber.frames # <<>>
    BY <1>1, <1>2 DEF OnlyCaptured
  <2>2. N \in Nat \ {0} /\ N \in DOMAIN fiber.frames
    <3>1. IsSeq(fiber.frames)
      BY DEF IInv, Sound, FiberShape
    <3>2. DOMAIN fiber.frames = 1 .. N /\ N \in Nat
      BY <3>1, SeqOfElements DEF IsSeq
    <3>3. N # 0
      BY <2>1, <3>1 DEF IsSeq
    <3> QED  BY <3>2, <3>3
  <2>3. FrameFits(heap, vm, fiber, Len(fiber.stack), N) /\ FrameShape(top)
    BY <2>2 DEF IInv, Sound, FramesFit, FiberShape
  <2>4. /\ FrameVerified(heap, vm.modules, top) /\ top.ip \in DOMAIN ViewOf(heap, top)
        /\ top.start[2] + depth = Len(fiber.stack) /\ top.start[2] \in Nat
    BY <2>3 DEF FrameFits, FrameShape
  <2>5. InstructionVerified(heap.fns, heap.fns[FunctionOf(heap, top)], NumValues(top),
                            ViewOf(heap, top), top.ip)
    BY <2>4, AtInstruction
  <2>6. /\ captured \subseteq 0 .. (depth - 1)
        /\ depth \in 1 .. (NumValues(top) + heap.fns[FunctionOf(heap, top)].maxSlots)
    BY <2>5 DEF InstructionVerified, Point
  <2>7. depth \in Nat /\ depth >= 1
    <3>1. heap.fns[FunctionOf(heap, top)].maxSlots \in Nat
      BY <2>4 DEF FrameVerified, Verifies
    <3>2. NumValues(top) \in Nat
      BY <2>3 DEF FrameShape, NumValues
    <3> HIDE DEF top
    <3> QED  BY <2>6, <3>1, <3>2
  <2>8. slot \in Nat
    <3>1. open[k] \in DOMAIN heap.upvalues
      BY <1>1 DEF OpenList
    <3>2. UpvalueShape(heap.upvalues[open[k]])
      BY <1>1, <3>1 DEF HeapShape
    <3> QED  BY <3>2 DEF UpvalueShape, SlotOf
  <2>9. top.start[2] <= slot => slot - top.start[2] \in captured
    <3>1. top.start[2] <= slot => Within(fiber, N, slot)
      BY <2>2 DEF Within
    <3> QED  BY <1>1, <1>2, <2>2, <3>1 DEF OnlyCaptured
  <2> HIDE DEF slot, top, depth, captured
  <2>10. slot - top.start[2] \in captured => slot - top.start[2] <= depth - 1
    BY <2>4, <2>6, <2>7, <2>8
  <2>11. slot < Len(fiber.stack)
    BY <2>4, <2>7, <2>8, <2>9, <2>10
  <2> QED  BY <2>11 DEF slot
<1>3. ASSUME NEW i \in DOMAIN open
      PROVE  /\ heap.upvalues[open[i]].at[1] = fiber.base
             /\ heap.upvalues[open[i]].at[2] < Len(fiber.stack)
             /\ i > 1 => heap.upvalues[open[i]].at[2] < heap.upvalues[open[i - 1]].at[2]
  <2>1. i > 1 => i - 1 \in DOMAIN open /\ i - 1 < i
    BY <1>1
  <2>2. heap.upvalues[open[i]].at[2] < Len(fiber.stack)
    BY <1>2 DEF SlotOf
  <2> QED  BY <1>1, <2>1, <2>2 DEF OpenList
<1>4. ASSUME NEW u \in DOMAIN heap.upvalues
      PROVE  heap.upvalues[u].open <=> Contains(open, u)
  <2>1. heap.upvalues[u].open <=> \E i \in DOMAIN open : open[i] = u
    BY <1>1 DEF OpenList
  <2> QED  BY <1>1, <2>1 DEF Contains
<1> QED  BY <1>3, <1>4 DEF UpvaluesSound

LEMMA VerifiedCodeInv ==
  Spec /\ CodeStaysVerified => []IInv
BY InitInv, NextInv, PTL DEF Spec, CodeStaysVerified

(***************************************************************************)
(* Verified code is type safe (runInterpreter): if every function that is      *)
(* called is verified bytecode of a loaded module and stays that, each frame    *)
(* stands at an instruction of its function in every state, never at an         *)
(* argument or past the end, whatever the program, its modules and its values.  *)
(***************************************************************************)
THEOREM VerifiedCodeTypeOK ==
  Spec /\ CodeStaysVerified => []TypeOK
BY VerifiedCodeInv, InvTypeOK, PTL

(***************************************************************************)
(* Verified code fits the stack (wrenCallFunction, wrenEnsureStack): the room   *)
(* made once, when a call begins, is enough for every push of the function,     *)
(* however many frames are above it and wherever the stack has moved; no pop    *)
(* goes below the frame and no instruction names a slot that is not in use.     *)
(***************************************************************************)
THEOREM VerifiedCodeFits ==
  Spec /\ CodeStaysVerified => []StackFits
BY VerifiedCodeInv, InvStackFits, PTL

(***************************************************************************)
(* Closures share variables soundly (captureUpvalue, closeUpvalues, and the     *)
(* corrections of wrenEnsureStack): the open upvalues are one for each captured  *)
(* variable, in the order of the stack, and none is left pointing to a slot      *)
(* that was popped or to a stack that moved.                                   *)
(***************************************************************************)
THEOREM VerifiedCodeUpvalues ==
  Spec /\ CodeStaysVerified => []UpvaluesSound
BY VerifiedCodeInv, InvUpvaluesSound, PTL
=============================================================================
