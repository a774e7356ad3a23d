---------------------------- MODULE WrenSequences ----------------------------
(***************************************************************************)
(* What lists and strings share: indexes and ranges into them, which count    *)
(* from 0 and may count from the end (wren_primitive.c), and the search in a   *)
(* string (wren_value.c).  A string is a sequence of bytes.                    *)
(***************************************************************************)
EXTENDS Integers, Sequences

\* validateIndexValue: the index in n elements that a number stands for, -1 when
\* it is out of bounds.
FromEnd(i, n) == IF i < 0 THEN n + i ELSE i
ValidIndex(i, n) == IF FromEnd(i, n) \in 0..(n - 1) THEN FromEnd(i, n) ELSE -1

\* calculateRange: the elements of a sequence of n that a range selects, as the
\* first of them, how many they are and the step between them; first -1 when the
\* range is out of bounds.
Slice(first, count, step) == [first |-> first, count |-> count, step |-> step]
OutOfBounds == Slice(-1, 0, 0)
CalculateRange(from, to, inclusive, n) ==
    LET start == ValidIndex(from, n)
        value == FromEnd(to, n)
        end == IF inclusive THEN value ELSE IF value >= start THEN value - 1 ELSE value + 1
        length == (IF start >= end THEN start - end ELSE end - start) + 1
    IN  IF from = n /\ to = (IF inclusive THEN -1 ELSE n) THEN Slice(0, 0, 0)
        ELSE IF start = -1 THEN OutOfBounds
        ELSE IF ~inclusive /\ value = start THEN Slice(start, 0, 0)
        ELSE IF end \notin 0..(n - 1) THEN OutOfBounds
        ELSE Slice(start, length, IF start < end THEN 1 ELSE -1)
Selected(elements, slice) ==
    [i \in 1..slice.count |-> elements[slice.first + (i - 1) * slice.step + 1]]

-----------------------------------------------------------------------------
(***************************************************************************)
(* wrenStringFind: the algorithm of Boyer, Moore and Horspool.  The needle is *)
(* compared with a window of the haystack; after a mismatch the window slides *)
(* on as far as its last byte allows.                                         *)
(***************************************************************************)
ByteAt(string, i) == string[i + 1]
Window(haystack, needle, i) == SubSeq(haystack, i + 1, i + Len(needle))
MatchesAt(haystack, needle, i) ==
    /\ i + Len(needle) <= Len(haystack)
    /\ Window(haystack, needle, i) = needle

\* The table shift at a byte: the distance of its last place in the needle,
\* without the end of the needle, from that end.
NeedleEnd(needle) == Len(needle) - 1
PlacesOf(needle, c) == {i \in 0..(NeedleEnd(needle) - 1) : ByteAt(needle, i) = c}
Shift(needle, c) ==
    IF PlacesOf(needle, c) = {} THEN Len(needle)
    ELSE NeedleEnd(needle) - CHOOSE i \in PlacesOf(needle, c) : \A j \in PlacesOf(needle, c) : j <= i
Slid(haystack, needle, i) == i + Shift(needle, ByteAt(haystack, i + NeedleEnd(needle)))

\* The index of the needle in the haystack from start on, -1 when there is none.
StringFind(haystack, needle, start) ==
    LET range == Len(haystack) - Len(needle)
        search[i \in Nat] ==
            IF i > range THEN -1
            ELSE IF MatchesAt(haystack, needle, i) THEN i
            ELSE search[Slid(haystack, needle, i)]
    IN  IF needle = <<>> THEN start
        ELSE IF start + Len(needle) > Len(haystack) THEN -1
        ELSE search[start]
=============================================================================
