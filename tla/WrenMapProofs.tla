---------------------------- MODULE WrenMapProofs ----------------------------
(***************************************************************************)
(* The table of a map is sound, and implements a dictionary.               *)
(*                                                                         *)
(* The invariant, MapInv, is about the array: an entry for each key, with  *)
(* no empty slot on the way from where the search for the key starts       *)
(* (Sound), counted by count, and within the load that the size allows.    *)
(* Each lemma on an operator of WrenMap says what it does to the array     *)
(* (FindEntryFinds, InsertEntryInserts, RemovalKeeps, ResizedKeeps) or to  *)
(* its size (GrownHasRoom, ShrunkHasRoom); what an operation does to the   *)
(* set of entries (MapSetKeeps, MapRemoveKeyKeeps) is then what the        *)
(* dictionary does.                                                        *)
(***************************************************************************)
EXTENDS WrenMap, SmallestNatural, FiniteSetTheorems, TLAPS

(* Remainders of the numbers that Distance divides. *)
LEMMA Modulo ==
  ASSUME NEW n \in Nat, NEW m \in Nat \ {0}
  PROVE  /\ n % m \in 0 .. m - 1
         /\ n < m => n % m = n
         /\ m <= n /\ n < 2 * m => n % m = n - m
<1>1. n % m \in 0 .. m - 1
  OBVIOUS
<1>2. n < m => n % m = n
  OBVIOUS
<1>3. m <= n /\ n < 2 * m => n % m = n - m
  OBVIOUS
<1> QED  BY <1>1, <1>2, <1>3

(* A distance is a way forward, around the end of the array. *)
LEMMA Distances ==
  ASSUME NEW cap \in Nat \ {0}, NEW k \in Keys, hash[k] \in Nat, NEW i \in Slots(cap)
  PROVE  LET start == hash[k] % cap
         IN /\ start \in Slots(cap)
            /\ Distance(cap, k, i) \in Slots(cap)
            /\ Distance(cap, k, i) = IF start <= i THEN i - start ELSE i + cap - start
<1> DEFINE start == hash[k] % cap
           n == i + cap - start
<1>1. start \in 0 .. cap - 1
  BY Modulo
<1>2. n \in Nat /\ n < 2 * cap
  BY <1>1 DEF Slots
<1>3. /\ n < cap => n % cap = n
      /\ cap <= n => n % cap = n - cap
  BY <1>2, Modulo
<1>4. start <= i <=> cap <= n
  BY <1>1 DEF Slots
<1> HIDE DEF start
<1>5. Distance(cap, k, i) = n % cap
  BY DEF start, Distance
<1> QED  BY <1>1, <1>2, <1>3, <1>4, <1>5 DEF Slots, start

(* No two slots are at the same distance from where a search starts. *)
LEMMA DistancesDiffer ==
  ASSUME NEW cap \in Nat \ {0}, NEW k \in Keys, hash[k] \in Nat,
         NEW i \in Slots(cap), NEW j \in Slots(cap),
         Distance(cap, k, i) = Distance(cap, k, j)
  PROVE  i = j
<1> DEFINE start == hash[k] % cap
<1>1. /\ start \in Slots(cap)
      /\ Distance(cap, k, i) = IF start <= i THEN i - start ELSE i + cap - start
      /\ Distance(cap, k, j) = IF start <= j THEN j - start ELSE j + cap - start
  BY Distances
<1>2. /\ start \in Int /\ 0 <= start /\ start < cap
      /\ i \in Int /\ 0 <= i /\ i < cap /\ j \in Int /\ 0 <= j /\ j < cap
  BY <1>1 DEF Slots
<1>3. (IF start <= i THEN i - start ELSE i + cap - start)
        = (IF start <= j THEN j - start ELSE j + cap - start)
  BY <1>1
<1> HIDE DEF start
<1>4. CASE start <= i /\ start <= j
  BY <1>2, <1>3, <1>4
<1>5. CASE start <= i /\ ~(start <= j)
  BY <1>2, <1>3, <1>5
<1>6. CASE ~(start <= i) /\ start <= j
  BY <1>2, <1>3, <1>6
<1>7. CASE ~(start <= i) /\ ~(start <= j)
  BY <1>2, <1>3, <1>7
<1> QED  BY <1>4, <1>5, <1>6, <1>7

(* There is a nearest slot, and First is it. *)
LEMMA FirstIsNearest ==
  ASSUME NEW cap \in Nat \ {0}, NEW k \in Keys, hash[k] \in Nat,
         NEW S \in SUBSET Slots(cap), S # {}
  PROVE  /\ First(cap, k, S) \in S
         /\ \A j \in S : Distance(cap, k, First(cap, k, S)) <= Distance(cap, k, j)
<1> DEFINE D == {Distance(cap, k, j) : j \in S}
<1>1. \A j \in S : Distance(cap, k, j) \in Nat
  BY Distances DEF Slots
<1>2. D \in SUBSET Nat /\ D # {}
  BY <1>1
<1>3. PICK d \in D : \A e \in D : d <= e
  <2> HIDE DEF D
  <2> QED  BY <1>2, SmallestOfNaturals
<1>4. PICK i \in S : Distance(cap, k, i) = d
  BY <1>3
<1>5. \A j \in S : Distance(cap, k, i) <= Distance(cap, k, j)
  BY <1>3, <1>4
<1> QED  BY <1>5 DEF First

-----------------------------------------------------------------------------
(***************************************************************************)
(* Arrays of entries.                                                      *)
(***************************************************************************)
UsedOf(es, cap) == {i \in Slots(cap) : ~IsVacant(es[i])}

Contents(es, cap) == {es[i] : i \in UsedOf(es, cap)}

(* Every key has one entry, and the search for it meets no empty slot      *)
(* before that entry.                                                      *)
Sound(es, cap) ==
  /\ es \in [Slots(cap) -> Entries]
  /\ \A i, j \in UsedOf(es, cap) : es[i].key = es[j].key => i = j
  /\ \A i \in UsedOf(es, cap), j \in Slots(cap) :
       Distance(cap, es[i].key, j) < Distance(cap, es[i].key, i) => es[j] # Empty

LEMMA EntryParts ==
  /\ \A k \in Keys, v \in Values :
       /\ Entry(k, v) \in Entries /\ ~IsVacant(Entry(k, v))
       /\ Entry(k, v).key = k /\ Entry(k, v).value = v
  /\ \A e \in Entries : ~IsVacant(e) => /\ e.key \in Keys /\ e.value \in Values
                                        /\ e = Entry(e.key, e.value)
  /\ IsVacant(Empty) /\ IsVacant(Tombstone) /\ Empty # Tombstone
  /\ Empty \in Entries /\ Tombstone \in Entries
  /\ \A e \in Entries : IsVacant(e) => e \in {Empty, Tombstone}
  /\ \A k \in Keys : Empty.key # k /\ Tombstone.key # k
<1>1. \A k \in Keys, v \in Values :
        /\ Entry(k, v) \in Entries /\ ~IsVacant(Entry(k, v))
        /\ Entry(k, v).key = k /\ Entry(k, v).value = v
  BY MapAssumption DEF Entries, Entry, IsVacant
<1>2. /\ IsVacant(Empty) /\ IsVacant(Tombstone)
      /\ Empty \in Entries /\ Tombstone \in Entries
  BY DEF Entries, IsVacant, Empty, Tombstone
<1>3. Empty # Tombstone
  <2>1. Empty.value = FALSE /\ Tombstone.value = TRUE
    BY DEF Empty, Tombstone
  <2> QED  BY <2>1, Zenon
<1>4. \A k \in Keys : Empty.key # k /\ Tombstone.key # k
  BY MapAssumption DEF Empty, Tombstone
<1>5. \A e \in Entries : e \in {Empty, Tombstone} \/ \E k \in Keys, v \in Values : e = Entry(k, v)
  BY DEF Entries
<1> QED  BY <1>1, <1>2, <1>3, <1>4, <1>5

LEMMA FindEntryFinds ==
  ASSUME hash \in [Keys -> Nat], NEW cap \in Nat, NEW es, Sound(es, cap),
         NEW k \in Keys
  PROVE  /\ FindEntry(es, cap, k) = NoSlot
              <=> \A i \in UsedOf(es, cap) : es[i].key # k
         /\ FindEntry(es, cap, k) # NoSlot
              => /\ FindEntry(es, cap, k) \in UsedOf(es, cap)
                 /\ es[FindEntry(es, cap, k)].key = k
<1> DEFINE ends == {i \in Slots(cap) : EndsSearch(es[i], k)}
           f == First(cap, k, ends)
<1>0. /\ NoSlot \notin Slots(cap) /\ UsedOf(es, cap) \subseteq Slots(cap)
      /\ hash[k] \in Nat
      /\ \A i \in Slots(cap) : es[i].key = k => i \in UsedOf(es, cap)
  BY MapAssumption DEF NoSlot, Slots, UsedOf, IsVacant
<1>1. CASE \A i \in UsedOf(es, cap) : es[i].key # k
  <2>1. ends # {} => f \in ends
    <3>1. ends # {} => cap \in Nat \ {0}
      BY DEF Slots
    <3> QED  BY <3>1, <1>0, FirstIsNearest
  <2>2. ends # {} => es[f].key # k
    BY <2>1, <1>0, <1>1
  <2> QED  BY <2>2, <1>1 DEF FindEntry
<1>2. ASSUME NEW i \in UsedOf(es, cap), es[i].key = k
      PROVE  FindEntry(es, cap, k) = i
  <2>1. i \in ends /\ i \in Slots(cap) /\ cap \in Nat \ {0}
    BY <1>0, <1>2 DEF EndsSearch, Slots
  <2>2. f \in ends /\ Distance(cap, k, f) <= Distance(cap, k, i)
    <3> HIDE DEF ends
    <3>1. ends \in SUBSET Slots(cap)
      BY DEF ends
    <3> QED  BY <2>1, <3>1, <1>0, FirstIsNearest
  <2>3. f \in Slots(cap) /\ (es[f] = Empty \/ es[f].key = k)
    BY <2>2 DEF EndsSearch
  <2> HIDE DEF f
  <2>4. CASE Distance(cap, k, f) < Distance(cap, k, i)
    <3>1. es[f] # Empty
      BY <2>3, <2>4, <1>2 DEF Sound
    <3>2. f = i
      BY <3>1, <2>3, <1>0, <1>2 DEF Sound
    <3> QED  BY <3>2, <2>1, <1>2 DEF FindEntry, f
  <2>5. CASE ~(Distance(cap, k, f) < Distance(cap, k, i))
    <3>1. Distance(cap, k, f) = Distance(cap, k, i)
      <4>1. Distance(cap, k, f) \in Nat /\ Distance(cap, k, i) \in Nat
        BY <2>1, <2>3, <1>0, Distances DEF Slots
      <4> QED  BY <4>1, <2>2, <2>5
    <3>2. f = i
      BY <3>1, <2>1, <2>3, <1>0, DistancesDiffer
    <3> QED  BY <3>2, <2>1, <1>2 DEF FindEntry, f
  <2> QED  BY <2>4, <2>5
<1> QED  BY <1>0, <1>1, <1>2


(* An entry that takes the slot of its key, or a vacant slot that a search *)
(* for the key would come to first, keeps every search working.            *)
LEMMA InsertEntryInserts ==
  ASSUME hash \in [Keys -> Nat], NEW cap \in Nat, NEW es, Sound(es, cap),
         NEW k \in Keys, NEW v \in Values,
         \E i \in Slots(cap) : IsVacant(es[i])
  PROVE  LET after == InsertEntry(es, cap, k, v)
         IN /\ Sound(after, cap)
            /\ Contents(after, cap)
                 = {e \in Contents(es, cap) : e.key # k} \cup {Entry(k, v)}
            /\ FindEntry(es, cap, k) = NoSlot
                 => \E s \in Slots(cap) \ UsedOf(es, cap) :
                      UsedOf(after, cap) = UsedOf(es, cap) \cup {s}
            /\ FindEntry(es, cap, k) # NoSlot
                 => UsedOf(after, cap) = UsedOf(es, cap)
<1> DEFINE after == InsertEntry(es, cap, k, v)
           vacant == {i \in Slots(cap) : IsVacant(es[i])}
           s == IF FindEntry(es, cap, k) # NoSlot
                THEN FindEntry(es, cap, k) ELSE First(cap, k, vacant)
<1>1. after = [es EXCEPT ![s] = Entry(k, v)]
  BY DEF InsertEntry
<1>2. /\ cap \in Nat \ {0} /\ \A key \in Keys : hash[key] \in Nat
      /\ vacant \in SUBSET Slots(cap) /\ vacant # {}
      /\ es \in [Slots(cap) -> Entries]
  BY DEF Slots, Sound
<1>3. \/ /\ FindEntry(es, cap, k) # NoSlot
         /\ s \in UsedOf(es, cap) /\ es[s].key = k
      \/ /\ FindEntry(es, cap, k) = NoSlot
         /\ \A i \in UsedOf(es, cap) : es[i].key # k
         /\ s \in vacant
         /\ \A j \in vacant : Distance(cap, k, s) <= Distance(cap, k, j)
  <2>1. CASE FindEntry(es, cap, k) # NoSlot
    BY <2>1, FindEntryFinds
  <2>2. CASE FindEntry(es, cap, k) = NoSlot
    <3>1. s = First(cap, k, vacant)
      BY <2>2
    <3>2. /\ First(cap, k, vacant) \in vacant
          /\ \A j \in vacant : Distance(cap, k, First(cap, k, vacant)) <= Distance(cap, k, j)
      <4> HIDE DEF vacant
      <4> QED  BY <1>2, FirstIsNearest
    <3>3. \A i \in UsedOf(es, cap) : es[i].key # k
      BY <2>2, FindEntryFinds
    <3> QED  BY <2>2, <3>1, <3>2, <3>3
  <2> QED  BY <2>1, <2>2
<1> HIDE DEF s, after
<1>4. s \in Slots(cap)
  BY <1>3 DEF UsedOf
<1>5. /\ after \in [Slots(cap) -> Entries] /\ after[s] = Entry(k, v)
      /\ \A i \in Slots(cap) \ {s} : after[i] = es[i]
  BY <1>1, <1>2, <1>4, EntryParts
<1>6. /\ UsedOf(after, cap) = UsedOf(es, cap) \cup {s}
      /\ UsedOf(es, cap) \subseteq Slots(cap)
  BY <1>4, <1>5, EntryParts DEF UsedOf
<1>7. \A i \in UsedOf(es, cap) \ {s} : es[i].key # k /\ after[i] = es[i]
  BY <1>3, <1>5, <1>6 DEF Sound
<1>8. Contents(after, cap) = {e \in Contents(es, cap) : e.key # k} \cup {Entry(k, v)}
  <2>1. ASSUME NEW i \in UsedOf(after, cap)
        PROVE  after[i] = Entry(k, v) \/ after[i] \in {e \in Contents(es, cap) : e.key # k}
    <3>1. CASE i = s
      BY <3>1, <1>5
    <3>2. CASE i # s
      BY <3>2, <1>6, <1>7 DEF Contents
    <3> QED  BY <3>1, <3>2
  <2>2. ASSUME NEW i \in UsedOf(es, cap), es[i].key # k
        PROVE  es[i] \in Contents(after, cap)
    <3>1. i # s
      BY <1>3, <2>2 DEF UsedOf
    <3> QED  BY <3>1, <1>6, <1>7 DEF Contents
  <2>3. Entry(k, v) \in Contents(after, cap)
    BY <1>5, <1>6 DEF Contents
  <2> QED  BY <2>1, <2>2, <2>3 DEF Contents
<1>9. Sound(after, cap)
  <2>1. ASSUME NEW i \in UsedOf(after, cap), NEW j \in UsedOf(after, cap),
               after[i].key = after[j].key
        PROVE  i = j
    BY <2>1, <1>5, <1>6, <1>7, <1>2, EntryParts DEF Sound
  <2>2. ASSUME NEW i \in UsedOf(after, cap), NEW j \in Slots(cap),
               Distance(cap, after[i].key, j) < Distance(cap, after[i].key, i)
        PROVE  after[j] # Empty
    <3>1. CASE j = s
      BY <3>1, <1>5, EntryParts
    <3>2. CASE j # s /\ i # s
      BY <3>2, <2>2, <1>5, <1>6 DEF Sound
    <3>3. CASE j # s /\ i = s
      <4>1. after[j] = es[j] /\ Distance(cap, k, j) < Distance(cap, k, s)
        BY <3>3, <2>2, <1>5, EntryParts
      <4>2. CASE s \in UsedOf(es, cap) /\ es[s].key = k
        BY <4>1, <4>2 DEF Sound
      <4>3. CASE \A m \in vacant : Distance(cap, k, s) <= Distance(cap, k, m)
        <5>1. Distance(cap, k, j) \in Nat /\ Distance(cap, k, s) \in Nat
          <6>1. hash[k] \in Nat
            BY <1>2
          <6>2. Distance(cap, k, j) \in Slots(cap) /\ Distance(cap, k, s) \in Slots(cap)
            BY <6>1, <2>2, <1>2, <1>4, Distances
          <6> QED  BY <6>2 DEF Slots
        <5>2. ~IsVacant(es[j])
          BY <4>1, <4>3, <5>1
        <5> QED  BY <4>1, <5>2, EntryParts
      <4> QED  BY <4>2, <4>3, <1>3
    <3> QED  BY <3>1, <3>2, <3>3
  <2> QED  BY <2>1, <2>2, <1>5 DEF Sound
<1>10. FindEntry(es, cap, k) = NoSlot => s \notin UsedOf(es, cap)
  BY <1>3 DEF UsedOf
<1>11. FindEntry(es, cap, k) # NoSlot => s \in UsedOf(es, cap)
  BY <1>3
<1> QED  BY <1>4, <1>6, <1>8, <1>9, <1>10, <1>11 DEF after

(* A tombstone in the place of an entry keeps every search working. *)
LEMMA RemovalKeeps ==
  ASSUME hash \in [Keys -> Nat], NEW cap \in Nat, NEW es, Sound(es, cap),
         NEW s \in UsedOf(es, cap)
  PROVE  LET without == [es EXCEPT ![s] = Tombstone]
         IN /\ Sound(without, cap)
            /\ Contents(without, cap)
                 = {e \in Contents(es, cap) : e.key # es[s].key}
            /\ UsedOf(without, cap) = UsedOf(es, cap) \ {s}
<1> DEFINE without == [es EXCEPT ![s] = Tombstone]
<1>1. /\ s \in Slots(cap) /\ without \in [Slots(cap) -> Entries]
      /\ without[s] = Tombstone /\ \A i \in Slots(cap) \ {s} : without[i] = es[i]
      /\ es \in [Slots(cap) -> Entries]
  BY EntryParts DEF UsedOf, Sound
<1> HIDE DEF without
<1>2. UsedOf(without, cap) = UsedOf(es, cap) \ {s}
  BY <1>1, EntryParts DEF UsedOf
<1>3. Sound(without, cap)
  <2>1. \A i, j \in UsedOf(without, cap) : without[i].key = without[j].key => i = j
    BY <1>1, <1>2 DEF Sound, UsedOf
  <2>2. ASSUME NEW i \in UsedOf(without, cap), NEW j \in Slots(cap),
               Distance(cap, without[i].key, j) < Distance(cap, without[i].key, i)
        PROVE  without[j] # Empty
    <3>1. without[i] = es[i] /\ i \in UsedOf(es, cap)
      BY <1>1, <1>2 DEF UsedOf
    <3>2. CASE j = s
      BY <3>2, <1>1, EntryParts
    <3>3. CASE j # s
      BY <3>1, <3>3, <2>2, <1>1 DEF Sound
    <3> QED  BY <3>2, <3>3
  <2> QED  BY <2>1, <2>2, <1>1 DEF Sound
<1>4. Contents(without, cap) = {e \in Contents(es, cap) : e.key # es[s].key}
  <2>1. \A i \in UsedOf(without, cap) :
          i \in UsedOf(es, cap) /\ without[i] = es[i] /\ es[i].key # es[s].key
    BY <1>1, <1>2 DEF Sound, UsedOf
  <2>2. \A i \in UsedOf(es, cap) : es[i].key # es[s].key => i \in UsedOf(without, cap)
    BY <1>2
  <2> QED  BY <2>1, <2>2 DEF Contents
<1> QED  BY <1>2, <1>3, <1>4 DEF without


-----------------------------------------------------------------------------
(***************************************************************************)
(* resizeMap.                                                              *)
(***************************************************************************)
NewArray(cap) == [i \in Slots(cap) |-> Empty]

(* The array before, with the entry of slot i of es, if there is one. *)
CopyOne(es, cap, before, i) ==
  IF IsVacant(es[i]) THEN before ELSE InsertEntry(before, cap, es[i].key, es[i].value)

(* c is the sequence of arrays that the first n rounds of the loop make. *)
Copies(es, cap, n, c) ==
  c = [m \in 0 .. n |-> IF m = 0 THEN NewArray(cap) ELSE CopyOne(es, cap, c[m - 1], m - 1)]

LEMMA CopiesExist ==
  ASSUME NEW es, NEW cap, NEW from \in Nat
  PROVE  \E c : Copies(es, cap, from, c)
<1> DEFINE Bad == {n \in Nat : ~ \E c : Copies(es, cap, n, c)}
<1>1. SUFFICES ASSUME Bad # {} PROVE FALSE
  OBVIOUS
<1>2. PICK n \in Bad : \A m \in Bad : n <= m
  <2>1. Bad \in SUBSET Nat
    OBVIOUS
  <2> HIDE DEF Bad
  <2> QED  BY <1>1, <2>1, SmallestOfNaturals
<1>3. CASE n = 0
  <2> DEFINE c == [m \in 0 .. 0 |-> NewArray(cap)]
  <2>1. Copies(es, cap, 0, c)
    BY DEF Copies
  <2> QED  BY <1>2, <1>3, <2>1
<1>4. CASE n # 0
  <2>1. n - 1 \in Nat /\ n - 1 \notin Bad
    BY <1>2, <1>4
  <2>2. PICK b : Copies(es, cap, n - 1, b)
    BY <2>1
  <2> DEFINE c == [m \in 0 .. n |-> IF m = n THEN CopyOne(es, cap, b[n - 1], n - 1) ELSE b[m]]
  <2>3. ASSUME NEW m \in 0 .. n
        PROVE  c[m] = IF m = 0 THEN NewArray(cap) ELSE CopyOne(es, cap, c[m - 1], m - 1)
    <3>1. CASE m = n
      <4>1. c[m] = CopyOne(es, cap, b[n - 1], n - 1) /\ c[n - 1] = b[n - 1]
        BY <3>1, <1>2, <1>4
      <4> QED  BY <4>1, <3>1, <1>4
    <3>2. CASE m # n
      <4>1. m \in 0 .. n - 1 /\ n \in Nat
        BY <3>2, <1>2
      <4>2. b[m] = IF m = 0 THEN NewArray(cap) ELSE CopyOne(es, cap, b[m - 1], m - 1)
        BY <4>1, <2>2 DEF Copies
      <4>3. c[m] = b[m] /\ (m # 0 => c[m - 1] = b[m - 1])
        BY <4>1
      <4> QED  BY <4>2, <4>3
    <3> QED  BY <3>1, <3>2
  <2>4. Copies(es, cap, n, c)
    <3>1. c = [m \in 0 .. n |-> c[m]]
      OBVIOUS
    <3> HIDE DEF c
    <3>2. [m \in 0 .. n |-> c[m]]
            = [m \in 0 .. n |-> IF m = 0 THEN NewArray(cap) ELSE CopyOne(es, cap, c[m - 1], m - 1)]
      BY <2>3
    <3> QED  BY <3>1, <3>2 DEF Copies
  <2> QED  BY <1>2, <2>4
<1> QED  BY <1>3, <1>4

LEMMA ResizedIsTheLastCopy ==
  ASSUME NEW es, NEW cap, NEW from \in Nat
  PROVE  \E c : /\ Resized(es, from, cap) = c[from]
                /\ c[0] = NewArray(cap)
                /\ \A n \in 1 .. from : c[n] = CopyOne(es, cap, c[n - 1], n - 1)
<1> DEFINE c == CHOOSE copied : Copies(es, cap, from, copied)
<1>1. Resized(es, from, cap) = c[from]
  BY DEF Resized, Copies, CopyOne, NewArray
<1>2. Copies(es, cap, from, c)
  BY CopiesExist
<1> HIDE DEF c
<1>3. c[0] = NewArray(cap) /\ \A n \in 1 .. from : c[n] = CopyOne(es, cap, c[n - 1], n - 1)
  BY <1>2 DEF Copies
<1> QED  BY <1>1, <1>3

LEMMA UsedIsFinite ==
  ASSUME NEW cap \in Nat, NEW es
  PROVE  /\ IsFiniteSet(UsedOf(es, cap)) /\ Cardinality(UsedOf(es, cap)) \in 0 .. cap
         /\ (\A i \in Slots(cap) : ~IsVacant(es[i])) <=> Cardinality(UsedOf(es, cap)) = cap
<1>1. IsFiniteSet(Slots(cap)) /\ Cardinality(Slots(cap)) = cap
  BY FS_Interval DEF Slots
<1>2. UsedOf(es, cap) \in SUBSET Slots(cap)
  BY DEF UsedOf
<1>3. /\ IsFiniteSet(UsedOf(es, cap)) /\ Cardinality(UsedOf(es, cap)) <= cap
      /\ Cardinality(UsedOf(es, cap)) = cap => UsedOf(es, cap) = Slots(cap)
      /\ Cardinality(UsedOf(es, cap)) \in Nat
  BY <1>1, <1>2, FS_Subset, FS_CardinalityType
<1> QED  BY <1>1, <1>3 DEF UsedOf

(* A new array with room for the entries gets them all. *)
LEMMA ResizedKeeps ==
  ASSUME hash \in [Keys -> Nat], NEW from \in Nat, NEW cap \in Nat, NEW es,
         Sound(es, from), Cardinality(UsedOf(es, from)) <= cap
  PROVE  /\ Sound(Resized(es, from, cap), cap)
         /\ Contents(Resized(es, from, cap), cap) = Contents(es, from)
         /\ Cardinality(UsedOf(Resized(es, from, cap), cap))
              = Cardinality(UsedOf(es, from))
<1>1. PICK c : /\ Resized(es, from, cap) = c[from]
               /\ c[0] = NewArray(cap)
               /\ \A n \in 1 .. from : c[n] = CopyOne(es, cap, c[n - 1], n - 1)
  BY ResizedIsTheLastCopy
<1> DEFINE done(n) == {i \in UsedOf(es, from) : i < n}
           Good(n) == /\ Sound(c[n], cap)
                      /\ Contents(c[n], cap) = {es[i] : i \in done(n)}
                      /\ Cardinality(UsedOf(c[n], cap)) = Cardinality(done(n))
           Bad == {n \in 0 .. from : ~Good(n)}
<1>2. /\ UsedOf(es, from) \subseteq 0 .. from - 1
      /\ \A n : IsFiniteSet(done(n)) /\ Cardinality(done(n)) \in Nat
      /\ \A n : Cardinality(done(n)) <= Cardinality(UsedOf(es, from))
  <2>1. UsedOf(es, from) \subseteq 0 .. from - 1
    BY DEF UsedOf, Slots
  <2>2. IsFiniteSet(UsedOf(es, from))
    BY UsedIsFinite
  <2>3. ASSUME NEW n
        PROVE  /\ IsFiniteSet(done(n)) /\ Cardinality(done(n)) \in Nat
               /\ Cardinality(done(n)) <= Cardinality(UsedOf(es, from))
    <3>1. done(n) \in SUBSET UsedOf(es, from)
      OBVIOUS
    <3> HIDE DEF done
    <3> QED  BY <2>2, <3>1, FS_Subset, FS_CardinalityType
  <2> QED  BY <2>1, <2>2, <2>3
<1>3. Good(0)
  <2>1. UsedOf(c[0], cap) = {}
    BY <1>1, EntryParts DEF UsedOf, NewArray
  <2>2. done(0) = {}
    BY <1>2
  <2>3. c[0] \in [Slots(cap) -> Entries]
    BY <1>1, EntryParts DEF NewArray
  <2>4. Contents(c[0], cap) = {} /\ {es[i] : i \in done(0)} = {}
    BY <2>1, <2>2 DEF Contents
  <2> QED  BY <2>1, <2>2, <2>3, <2>4 DEF Sound
<1>4. ASSUME NEW n \in 1 .. from, Good(n - 1) PROVE Good(n)
  <2>1. c[n] = CopyOne(es, cap, c[n - 1], n - 1)
    BY <1>1
  <2>2. n - 1 \in Slots(from)
    BY DEF Slots
  <2>3. CASE IsVacant(es[n - 1])
    <3>1. done(n) = done(n - 1)
      BY <1>2, <2>3 DEF UsedOf
    <3>2. c[n] = c[n - 1]
      BY <2>1, <2>3 DEF CopyOne
    <3> QED  BY <3>1, <3>2, <1>4
  <2>4. CASE ~IsVacant(es[n - 1])
    <3> DEFINE k == es[n - 1].key
               v == es[n - 1].value
    <3>1. /\ n - 1 \in UsedOf(es, from)
          /\ k \in Keys /\ v \in Values /\ es[n - 1] = Entry(k, v)
      BY <2>2, <2>4, EntryParts DEF UsedOf, Sound
    <3>2. done(n) = done(n - 1) \cup {n - 1} /\ n - 1 \notin done(n - 1)
      BY <1>2, <3>1
    <3>3. Cardinality(done(n)) = Cardinality(done(n - 1)) + 1
      <4> HIDE DEF done
      <4> QED  BY <1>2, <3>2, FS_AddElement
    <3>4. \E i \in Slots(cap) : IsVacant(c[n - 1][i])
      <4>1. Cardinality(UsedOf(c[n - 1], cap)) < cap
        <5> HIDE DEF done
        <5>1. /\ Cardinality(done(n)) <= Cardinality(UsedOf(es, from))
              /\ Cardinality(done(n - 1)) \in Nat
              /\ Cardinality(UsedOf(c[n - 1], cap)) = Cardinality(done(n - 1))
          BY <1>2, <1>4
        <5>2. Cardinality(UsedOf(es, from)) \in Nat
          BY UsedIsFinite
        <5> QED  BY <3>3, <5>1, <5>2
      <4> QED  BY <4>1, UsedIsFinite
    <3>5. \A e \in Contents(c[n - 1], cap) : e.key # k
      <4>1. \A i \in done(n - 1) : es[i].key # k
        BY <3>1, <1>2 DEF Sound
      <4> QED  BY <4>1, <1>4
    <3>6. FindEntry(c[n - 1], cap, k) = NoSlot
      <4>1. \A i \in UsedOf(c[n - 1], cap) : c[n - 1][i].key # k
        BY <3>5 DEF Contents
      <4> QED  BY <4>1, <3>1, <1>4, FindEntryFinds
    <3>7. c[n] = InsertEntry(c[n - 1], cap, k, v)
      BY <2>1, <2>4 DEF CopyOne
    <3> HIDE DEF k, v
    <3>8. /\ Sound(c[n], cap)
          /\ Contents(c[n], cap) = {e \in Contents(c[n - 1], cap) : e.key # k} \cup {Entry(k, v)}
          /\ \E s \in Slots(cap) \ UsedOf(c[n - 1], cap) :
               UsedOf(c[n], cap) = UsedOf(c[n - 1], cap) \cup {s}
      BY <3>1, <3>4, <3>6, <3>7, <1>4, InsertEntryInserts
    <3>9. Contents(c[n], cap) = {es[i] : i \in done(n)}
      <4>1. Contents(c[n], cap) = {es[i] : i \in done(n - 1)} \cup {es[n - 1]}
        BY <3>1, <3>5, <3>8, <1>4
      <4> HIDE DEF done
      <4> QED  BY <4>1, <3>2
    <3>10. Cardinality(UsedOf(c[n], cap)) = Cardinality(UsedOf(c[n - 1], cap)) + 1
      BY <3>8, UsedIsFinite, FS_AddElement
    <3> QED  BY <3>3, <3>8, <3>9, <3>10, <1>4
  <2> QED  BY <2>3, <2>4
<1>5. Good(from)
  <2> HIDE DEF Good
  <2>1. SUFFICES ASSUME Bad # {} PROVE FALSE
    OBVIOUS
  <2>2. PICK n \in Bad : \A m \in Bad : n <= m
    <3>1. Bad \in SUBSET Nat
      OBVIOUS
    <3> HIDE DEF Bad
    <3> QED  BY <2>1, <3>1, SmallestOfNaturals
  <2>3. n # 0
    BY <1>3, <2>2
  <2>4. n \in 1 .. from /\ n - 1 \in 0 .. from /\ n - 1 \notin Bad
    BY <2>2, <2>3
  <2> QED  BY <2>2, <2>4, <1>4
<1>6. done(from) = UsedOf(es, from)
  BY <1>2
<1> QED  BY <1>1, <1>5, <1>6 DEF Contents


-----------------------------------------------------------------------------
(***************************************************************************)
(* The load of the array.                                                  *)
(***************************************************************************)
Load(cap) == (cap * LoadPercent) \div 100

LEMMA Products ==
  ASSUME NEW a \in Nat, NEW b \in Nat, NEW c \in Nat, a <= b
  PROVE  a * c \in Nat /\ b * c \in Nat /\ a * c <= b * c
OBVIOUS

LEMMA Quotients ==
  ASSUME NEW a \in Nat, NEW g \in Nat \ {0}
  PROVE  /\ a \div g \in Nat /\ g * (a \div g) <= a
         /\ (a * g) \div g = a
         /\ g > 1 => 2 * (a \div g) <= a
<1>1. a \div g \in Nat /\ g * (a \div g) <= a
  OBVIOUS
<1>2. (a * g) \div g = a
  OBVIOUS
<1>3. g > 1 => 2 * (a \div g) <= g * (a \div g)
  <2> DEFINE q == a \div g
  <2>1. q \in Nat
    BY <1>1
  <2> HIDE DEF q
  <2>2. g > 1 => 2 * q <= g * q
    BY <2>1, Products
  <2> QED  BY <2>2 DEF q
<1>4. g * (a \div g) \in Nat
  BY <1>1
<1> QED  BY <1>1, <1>2, <1>3, <1>4

LEMMA Loads ==
  ASSUME NEW a \in Nat, NEW b \in Nat
  PROVE  /\ Load(a) \in Nat
         /\ a > 0 => Load(a) < a
         /\ a <= b => Load(a) <= Load(b)
         /\ a >= MinCapacity => Load(a) >= 1
         /\ 2 * a <= b /\ b >= MinCapacity => Load(a) + 1 <= Load(b)
         /\ Load(0) = 0
<1>1. /\ LoadPercent \in Nat /\ LoadPercent <= 99 /\ LoadPercent >= 1
      /\ MinCapacity \in Nat /\ MinCapacity * LoadPercent >= 100
  BY MapAssumption
<1>2. /\ a * LoadPercent \in Nat /\ b * LoadPercent \in Nat
      /\ a * LoadPercent <= 99 * a
      /\ a <= b => a * LoadPercent <= b * LoadPercent
      /\ a >= MinCapacity => a * LoadPercent >= 100
      /\ b >= MinCapacity => b * LoadPercent >= 100
      /\ 2 * a <= b => 2 * (a * LoadPercent) <= b * LoadPercent
  <2>1. LoadPercent * a <= 99 * a
    BY <1>1, Products
  <2>2. a >= MinCapacity => a * LoadPercent >= MinCapacity * LoadPercent
    BY <1>1, Products
  <2>3. b >= MinCapacity => b * LoadPercent >= MinCapacity * LoadPercent
    BY <1>1, Products
  <2>4. 2 * a <= b => (2 * a) * LoadPercent <= b * LoadPercent
    <3>1. 2 * a \in Nat
      OBVIOUS
    <3> QED  BY <1>1, <3>1, Products
  <2>5. a <= b => a * LoadPercent <= b * LoadPercent
    BY <1>1, Products
  <2> QED  BY <1>1, <2>1, <2>2, <2>3, <2>4, <2>5
<1> DEFINE x == a * LoadPercent
           y == b * LoadPercent
<1> HIDE DEF x, y
<1>3. /\ x \in Nat /\ y \in Nat /\ Load(a) = x \div 100 /\ Load(b) = y \div 100
      /\ x <= 99 * a /\ (a <= b => x <= y)
      /\ (a >= MinCapacity => x >= 100) /\ (b >= MinCapacity => y >= 100)
      /\ (2 * a <= b => 2 * x <= y)
  BY <1>2 DEF x, y, Load
<1>4. Load(0) = 0
  BY <1>1 DEF Load
<1> QED  BY <1>3, <1>4

(* The capacities that a map may have. *)
Capacity(cap) == cap \in Nat /\ (cap = 0 \/ cap >= MinCapacity)

LEMMA GrownHasRoom ==
  ASSUME Capacity(capacity)
  PROVE  /\ Capacity(Grown) /\ Grown > 0 /\ capacity <= Grown
         /\ Load(capacity) + 1 <= Load(Grown)
         /\ Grown > MinCapacity => Grown \div GrowFactor = capacity
<1>1. /\ capacity \in Nat /\ GrowFactor \in Nat \ {0} /\ GrowFactor >= 2
      /\ MinCapacity \in Nat \ {0}
  BY MapAssumption DEF Capacity
<1>2. 2 * capacity <= capacity * GrowFactor
  BY <1>1, Products
<1>3. /\ Grown \in Nat /\ Grown >= MinCapacity /\ 2 * capacity <= Grown
      /\ Grown > MinCapacity => Grown = capacity * GrowFactor
  BY <1>1, <1>2 DEF Grown
<1>4. Load(capacity) + 1 <= Load(Grown)
  BY <1>1, <1>3, Loads
<1>5. (capacity * GrowFactor) \div GrowFactor = capacity
  BY <1>1, Quotients
<1> QED  BY <1>1, <1>3, <1>4, <1>5 DEF Capacity

LEMMA ShrunkHasRoom ==
  ASSUME Capacity(capacity), capacity > MinCapacity, NEW n \in Nat,
         n < Load(capacity \div GrowFactor), n + 1 >= Load(capacity \div GrowFactor)
  PROVE  /\ Capacity(Shrunk) /\ Shrunk > 0
         /\ n <= Load(Shrunk)
         /\ Shrunk > MinCapacity => n >= Load(Shrunk \div GrowFactor)
<1> DEFINE q == capacity \div GrowFactor
<1>1. /\ capacity \in Nat /\ GrowFactor \in Nat \ {0} /\ GrowFactor >= 2
      /\ MinCapacity \in Nat \ {0} /\ q \in Nat
  BY MapAssumption, Quotients DEF Capacity
<1> HIDE DEF q
<1>2. /\ Shrunk = IF q < MinCapacity THEN MinCapacity ELSE q
      /\ n < Load(q) /\ n + 1 >= Load(q)
  BY DEF Shrunk, q
<1>3. /\ Shrunk \in Nat /\ Shrunk >= MinCapacity /\ q <= Shrunk
      /\ Shrunk > MinCapacity => Shrunk = q
  BY <1>1, <1>2
<1>4. n <= Load(Shrunk)
  BY <1>1, <1>2, <1>3, Loads
<1>5. ASSUME Shrunk > MinCapacity PROVE n >= Load(Shrunk \div GrowFactor)
  <2>1. 2 * (q \div GrowFactor) <= q /\ q \div GrowFactor \in Nat /\ q = Shrunk
    BY <1>1, <1>3, <1>5, Quotients
  <2>2. Load(q \div GrowFactor) + 1 <= Load(q)
    BY <2>1, <1>1, <1>3, Loads
  <2>3. Load(q \div GrowFactor) \in Nat /\ Load(q) \in Nat
    BY <2>1, <1>1, Loads
  <2> QED  BY <1>2, <2>1, <2>2, <2>3
<1> QED  BY <1>1, <1>3, <1>4, <1>5 DEF Capacity


-----------------------------------------------------------------------------
(***************************************************************************)
(* The invariant.                                                          *)
(***************************************************************************)
MapInv ==
  /\ Capacity(capacity)
  /\ hash \in [Keys -> Hashes] /\ cursor \in Slots(capacity) \cup {NoCursor}
  /\ Sound(entries, capacity)
  /\ count = Cardinality(UsedOf(entries, capacity))
  /\ count <= Load(capacity)
  /\ SizeIsBounded

LEMMA MapInvInit == Init => MapInv
<1> SUFFICES ASSUME Init PROVE MapInv
  OBVIOUS
<1>1. /\ capacity = 0 /\ count = 0 /\ Slots(0) = {} /\ UsedOf(entries, 0) = {}
      /\ entries \in [Slots(0) -> Entries]
  BY EntryParts DEF Init, Slots, UsedOf
<1>2. Load(0) = 0
  BY Loads
<1>3. ~(0 > MinCapacity)
  BY MapAssumption
<1>4. Sound(entries, capacity) /\ Capacity(capacity)
  BY <1>1 DEF Sound, Capacity
<1>5. count = Cardinality(UsedOf(entries, capacity)) /\ count <= Load(capacity)
  BY <1>1, <1>2, FS_EmptySet
<1> QED  BY <1>1, <1>3, <1>4, <1>5 DEF Init, MapInv, SizeIsBounded

(* What the invariant says in terms of the array. *)
LEMMA MapInvFacts ==
  ASSUME MapInv
  PROVE  /\ hash \in [Keys -> Nat] /\ capacity \in Nat /\ Capacity(capacity)
         /\ Sound(entries, capacity)
         /\ count = Cardinality(UsedOf(entries, capacity)) /\ count \in Nat
         /\ count <= Load(capacity)
         /\ capacity > MinCapacity => count >= Load(capacity \div GrowFactor)
         /\ count = 0 => capacity = 0
         /\ IsFiniteSet(UsedOf(entries, capacity))
         /\ capacity > 0 => \E i \in Slots(capacity) : IsVacant(entries[i])
<1>1. capacity \in Nat /\ Capacity(capacity) /\ hash \in [Keys -> Nat]
  BY MapAssumption DEF MapInv, Capacity
<1>2. /\ IsFiniteSet(UsedOf(entries, capacity))
      /\ Cardinality(UsedOf(entries, capacity)) \in Nat
      /\ Cardinality(UsedOf(entries, capacity)) # capacity
           => \E i \in Slots(capacity) : IsVacant(entries[i])
  BY <1>1, UsedIsFinite
<1>3. capacity > 0 => Load(capacity) < capacity /\ Load(capacity) \in Nat
  BY <1>1, Loads
<1> QED  BY <1>1, <1>2, <1>3 DEF MapInv, SizeIsBounded, Load

(* A sound array of the right size makes the invariant true again. *)
LEMMA MapInvAfter ==
  ASSUME MapInv, UNCHANGED hash, cursor' = NoCursor, Capacity(capacity'),
         Sound(entries', capacity'),
         count' = Cardinality(UsedOf(entries', capacity')),
         count' <= Load(capacity'),
         capacity' > MinCapacity => count' >= Load(capacity' \div GrowFactor),
         count' = 0 => capacity' = 0
  PROVE  MapInv'
<1>1. Sound(entries, capacity)'
  BY DEF Sound, UsedOf, Distance
<1> QED  BY <1>1 DEF MapInv, SizeIsBounded, Load, Capacity, UsedOf

LEMMA MapSetKeeps ==
  ASSUME MapInv, NEW k \in Keys, NEW v \in Values, MapSet(k, v)
  PROVE  /\ MapInv' /\ cursor' = NoCursor
         /\ Contents(entries', capacity')
              = {e \in Contents(entries, capacity) : e.key # k} \cup {Entry(k, v)}
<1> DEFINE cap == IF MustGrow THEN Grown ELSE capacity
           es == IF MustGrow THEN Resized(entries, capacity, cap) ELSE entries
<1>1. /\ capacity' = cap /\ entries' = InsertEntry(es, cap, k, v)
      /\ count' = IF FindEntry(es, cap, k) = NoSlot THEN count + 1 ELSE count
      /\ cursor' = NoCursor /\ hash' = hash
  BY DEF MapSet
<1>2. /\ Capacity(cap) /\ cap > 0 /\ cap \in Nat /\ count + 1 <= Load(cap)
      /\ cap > MinCapacity => count >= Load(cap \div GrowFactor)
  <2>1. CASE MustGrow
    <3>1. /\ Capacity(Grown) /\ Grown > 0 /\ Load(capacity) + 1 <= Load(Grown)
          /\ Grown > MinCapacity => Grown \div GrowFactor = capacity
      BY MapInvFacts, GrownHasRoom
    <3>2. Load(capacity) \in Nat /\ Load(Grown) \in Nat
      BY <3>1, MapInvFacts, Loads DEF Capacity
    <3>3. count >= Load(capacity)
      BY <2>1, <3>2, MapInvFacts DEF MustGrow, Load
    <3>4. count \in Nat /\ count <= Load(capacity)
      BY MapInvFacts
    <3> QED  BY <2>1, <3>1, <3>2, <3>3, <3>4 DEF Capacity
  <2>2. CASE ~MustGrow
    <3>1. /\ count \in Nat /\ capacity \in Nat /\ Capacity(capacity)
          /\ Load(capacity) \in Nat /\ Load(0) = 0
          /\ capacity > MinCapacity => count >= Load(capacity \div GrowFactor)
      BY MapInvFacts, Loads
    <3>2. count + 1 <= Load(capacity)
      BY <2>2, <3>1 DEF MustGrow, Load
    <3>3. capacity > 0
      BY <3>1, <3>2
    <3> QED  BY <2>2, <3>1, <3>2, <3>3
  <2> QED  BY <2>1, <2>2
<1>3. /\ Sound(es, cap) /\ Contents(es, cap) = Contents(entries, capacity)
      /\ Cardinality(UsedOf(es, cap)) = count
  <2>1. CASE MustGrow
    <3>1. Cardinality(UsedOf(entries, capacity)) <= cap
      <4>1. Load(cap) < cap /\ Load(cap) \in Nat
        BY <1>2, Loads
      <4>2. count \in Nat /\ count = Cardinality(UsedOf(entries, capacity))
        BY MapInvFacts
      <4> HIDE DEF cap
      <4> QED  BY <4>1, <4>2, <1>2
    <3>2. es = Resized(entries, capacity, cap)
      BY <2>1
    <3> HIDE DEF cap, es
    <3> QED  BY <3>1, <3>2, <1>2, MapInvFacts, ResizedKeeps
  <2>2. CASE ~MustGrow
    BY <2>2, MapInvFacts
  <2> QED  BY <2>1, <2>2
<1> HIDE DEF cap, es
<1>4. \E i \in Slots(cap) : IsVacant(es[i])
  <2>1. Load(cap) < cap /\ Load(cap) \in Nat /\ count \in Nat
    BY <1>2, Loads, MapInvFacts
  <2>2. Cardinality(UsedOf(es, cap)) # cap
    BY <2>1, <1>2, <1>3
  <2> QED  BY <2>2, <1>2, UsedIsFinite
<1>5. /\ Sound(entries', cap)
      /\ Contents(entries', cap)
           = {e \in Contents(entries, capacity) : e.key # k} \cup {Entry(k, v)}
      /\ FindEntry(es, cap, k) = NoSlot
           => \E s \in Slots(cap) \ UsedOf(es, cap) :
                UsedOf(entries', cap) = UsedOf(es, cap) \cup {s}
      /\ FindEntry(es, cap, k) # NoSlot => UsedOf(entries', cap) = UsedOf(es, cap)
  BY <1>1, <1>2, <1>3, <1>4, MapInvFacts, InsertEntryInserts
<1>6. count' = Cardinality(UsedOf(entries', cap)) /\ count' # 0
  <2>1. IsFiniteSet(UsedOf(es, cap)) /\ count \in Nat
    BY <1>2, UsedIsFinite, MapInvFacts
  <2>2. CASE FindEntry(es, cap, k) = NoSlot
    BY <2>1, <2>2, <1>1, <1>3, <1>5, FS_AddElement
  <2>3. CASE FindEntry(es, cap, k) # NoSlot
    <3>1. UsedOf(es, cap) # {}
      BY <2>3, <1>2, <1>3, MapInvFacts, FindEntryFinds
    <3> QED  BY <2>1, <2>3, <3>1, <1>1, <1>3, <1>5, FS_EmptySet
  <2> QED  BY <2>2, <2>3
<1>7. count' \in {count, count + 1} /\ count \in Nat
  BY <1>1, MapInvFacts
<1>8. Load(cap) \in Nat /\ Load(cap \div GrowFactor) \in Nat
  <2>1. cap \div GrowFactor \in Nat
    BY <1>2, MapAssumption, Quotients
  <2> QED  BY <2>1, <1>2, Loads
<1>9. count' <= Load(cap) /\ (cap > MinCapacity => count' >= Load(cap \div GrowFactor))
  BY <1>2, <1>7, <1>8
<1>10. MapInv'
  BY <1>1, <1>2, <1>5, <1>6, <1>9, MapInvAfter
<1> QED  BY <1>1, <1>5, <1>10

LEMMA MapClearKeeps ==
  ASSUME MapInv, MapClear
  PROVE  MapInv' /\ cursor' = NoCursor /\ Contents(entries', capacity') = {}
<1>1. /\ capacity' = 0 /\ count' = 0 /\ Slots(0) = {} /\ UsedOf(entries', 0) = {}
      /\ entries' \in [Slots(0) -> Entries] /\ cursor' = NoCursor /\ hash' = hash
  BY EntryParts DEF MapClear, Slots, UsedOf
<1>2. Load(0) = 0 /\ Capacity(0) /\ ~(0 > MinCapacity)
  BY Loads, MapAssumption DEF Capacity
<1>3. Sound(entries', 0) /\ Contents(entries', 0) = {}
  BY <1>1 DEF Sound, Contents
<1>4. MapInv'
  BY <1>1, <1>2, <1>3, FS_EmptySet, MapInvAfter
<1> QED  BY <1>1, <1>3, <1>4

LEMMA MapRemoveKeyKeeps ==
  ASSUME MapInv, NEW k \in Keys, MapRemoveKey(k)
  PROVE  /\ MapInv' /\ cursor' = NoCursor
         /\ Contents(entries', capacity')
              = {e \in Contents(entries, capacity) : e.key # k}
<1> DEFINE slot == FindEntry(entries, capacity, k)
           without == [entries EXCEPT ![slot] = Tombstone]
<1>1. /\ slot # NoSlot
      /\ slot \in UsedOf(entries, capacity) /\ entries[slot].key = k
  BY MapInvFacts, FindEntryFinds DEF MapRemoveKey
<1>2. /\ Sound(without, capacity)
      /\ Contents(without, capacity) = {e \in Contents(entries, capacity) : e.key # k}
      /\ UsedOf(without, capacity) = UsedOf(entries, capacity) \ {slot}
  <2> HIDE DEF slot
  <2>1. /\ Sound(without, capacity)
        /\ Contents(without, capacity)
             = {e \in Contents(entries, capacity) : e.key # entries[slot].key}
        /\ UsedOf(without, capacity) = UsedOf(entries, capacity) \ {slot}
    BY <1>1, MapInvFacts, RemovalKeeps
  <2> HIDE DEF without
  <2> QED  BY <1>1, <2>1
<1>3. count >= 1 /\ Cardinality(UsedOf(without, capacity)) = count - 1
  <2> HIDE DEF slot, without
  <2>1. Cardinality(UsedOf(without, capacity)) = count - 1
    <3>1. IsFiniteSet(UsedOf(entries, capacity)) /\ count = Cardinality(UsedOf(entries, capacity))
      BY MapInvFacts
    <3> QED  BY <1>1, <1>2, <3>1, FS_RemoveElement
  <2>2. count # 0 /\ count \in Nat
    BY <1>1, MapInvFacts, FS_EmptySet
  <2> QED  BY <2>1, <2>2
<1>4. CASE count = 1
  <2>1. MapClear
    BY <1>4 DEF MapRemoveKey
  <2>2. UsedOf(without, capacity) = {}
    <3> HIDE DEF without
    <3>1. IsFiniteSet(UsedOf(without, capacity))
      BY MapInvFacts, UsedIsFinite
    <3> QED  BY <3>1, <1>3, <1>4, FS_EmptySet
  <2>3. {e \in Contents(entries, capacity) : e.key # k} = {}
    <3> HIDE DEF without
    <3> QED  BY <2>2, <1>2 DEF Contents
  <2> QED  BY <2>1, <2>3, MapClearKeeps
<1>5. CASE count # 1
  <2>1. /\ count' = count - 1 /\ cursor' = NoCursor /\ hash' = hash
        /\ IF MustShrink(count - 1)
           THEN capacity' = Shrunk /\ entries' = Resized(without, capacity, Shrunk)
           ELSE entries' = without /\ capacity' = capacity
    BY <1>5 DEF MapRemoveKey
  <2> HIDE DEF slot, without
  <2>2. count - 1 \in Nat \ {0} /\ count \in Nat /\ capacity \in Nat
    BY <1>3, <1>5, MapInvFacts
  <2>3. CASE MustShrink(count - 1)
    <3>1. capacity > MinCapacity /\ count - 1 < Load(capacity \div GrowFactor)
      BY <2>3 DEF MustShrink, Load
    <3>2. /\ Capacity(Shrunk) /\ Shrunk > 0 /\ count - 1 <= Load(Shrunk)
          /\ Shrunk > MinCapacity => count - 1 >= Load(Shrunk \div GrowFactor)
      <4>1. (count - 1) + 1 >= Load(capacity \div GrowFactor)
        BY <3>1, <2>2, MapInvFacts
      <4> DEFINE n == count - 1
      <4>2. n \in Nat /\ n < Load(capacity \div GrowFactor) /\ n + 1 >= Load(capacity \div GrowFactor)
        BY <2>2, <3>1, <4>1
      <4> HIDE DEF n
      <4>3. /\ Capacity(Shrunk) /\ Shrunk > 0 /\ n <= Load(Shrunk)
            /\ Shrunk > MinCapacity => n >= Load(Shrunk \div GrowFactor)
        BY <4>2, <3>1, MapInvFacts, ShrunkHasRoom
      <4> QED  BY <4>3 DEF n
    <3>3. Cardinality(UsedOf(without, capacity)) <= Shrunk
      <4>1. Shrunk \in Nat /\ Load(Shrunk) < Shrunk /\ Load(Shrunk) \in Nat
        BY <3>2, Loads DEF Capacity
      <4> QED  BY <4>1, <3>2, <1>3, <2>2
    <3>4. /\ Sound(entries', Shrunk)
          /\ Contents(entries', Shrunk) = Contents(without, capacity)
          /\ Cardinality(UsedOf(entries', Shrunk)) = count - 1
      <4>1. entries' = Resized(without, capacity, Shrunk) /\ Shrunk \in Nat
        BY <2>1, <2>3, <3>2 DEF Capacity
      <4>2. /\ Sound(Resized(without, capacity, Shrunk), Shrunk)
            /\ Contents(Resized(without, capacity, Shrunk), Shrunk) = Contents(without, capacity)
            /\ Cardinality(UsedOf(Resized(without, capacity, Shrunk), Shrunk))
                 = Cardinality(UsedOf(without, capacity))
        BY <1>2, <2>2, <3>3, <4>1, MapInvFacts, ResizedKeeps
      <4> QED  BY <1>3, <4>1, <4>2
    <3>5. capacity' = Shrunk
      BY <2>1, <2>3
    <3>6. MapInv'
      BY <2>1, <2>2, <3>2, <3>4, <3>5, MapInvAfter
    <3> QED  BY <1>2, <2>1, <3>4, <3>5, <3>6
  <2>4. CASE ~MustShrink(count - 1)
    <3>1. entries' = without /\ capacity' = capacity
      BY <2>1, <2>4
    <3>2. capacity > MinCapacity => count - 1 >= Load(capacity \div GrowFactor)
      <4>1. capacity \div GrowFactor \in Nat
        BY <2>2, MapAssumption, Quotients
      <4>2. Load(capacity \div GrowFactor) \in Nat
        BY <4>1, Loads
      <4> QED  BY <4>2, <2>2, <2>4 DEF MustShrink, Load
    <3>3. count - 1 <= Load(capacity)
      <4>1. Load(capacity) \in Nat /\ count <= Load(capacity)
        BY <2>2, Loads, MapInvFacts
      <4> QED  BY <4>1, <2>2
    <3>4. MapInv'
      BY <1>2, <1>3, <2>1, <2>2, <3>1, <3>2, <3>3, MapInvFacts, MapInvAfter
    <3> QED  BY <1>2, <2>1, <3>1, <3>4
  <2> QED  BY <2>3, <2>4
<1> QED  BY <1>4, <1>5

(* The iteration goes to the next entry, or to the end. *)
LEMMA MapIterateKeeps ==
  ASSUME MapInv, MapIterate
  PROVE  /\ MapInv' /\ UNCHANGED <<entries, capacity>>
         /\ \/ /\ cursor' = NoCursor
               /\ \A i \in UsedOf(entries, capacity) : i <= cursor
            \/ /\ cursor' \in UsedOf(entries, capacity) /\ cursor < cursor'
               /\ \A i \in UsedOf(entries, capacity) : cursor < i => cursor' <= i
<1> DEFINE rest == {i \in Slots(capacity) : i > cursor /\ ~IsVacant(entries[i])}
<1>1. /\ cursor' = IF rest = {} THEN NoCursor ELSE CHOOSE i \in rest : \A j \in rest : i <= j
      /\ UNCHANGED <<entries, capacity, count, hash>>
  BY DEF MapIterate
<1>2. /\ capacity \in Nat /\ cursor \in Int
      /\ \A i \in UsedOf(entries, capacity) : i \in Nat
      /\ \A i \in rest : i \in UsedOf(entries, capacity) /\ cursor < i
      /\ \A i \in UsedOf(entries, capacity) : cursor < i => i \in rest
  BY MapInvFacts DEF MapInv, UsedOf, Slots, NoCursor
<1> HIDE DEF rest
<1>3. CASE rest = {}
  <2>1. \A i \in UsedOf(entries, capacity) : i <= cursor
    BY <1>2, <1>3
  <2>2. cursor' = NoCursor
    BY <1>1, <1>3
  <2>3. MapInv'
    BY <1>1, <2>2 DEF MapInv, Sound, UsedOf, Distance, SizeIsBounded, Load, Capacity
  <2> QED  BY <1>1, <2>1, <2>2, <2>3
<1>4. CASE rest # {}
  <2>1. rest \in SUBSET Nat
    BY <1>2
  <2>2. \E i \in rest : \A j \in rest : i <= j
    BY <1>4, <2>1, SmallestOfNaturals
  <2>3. cursor' \in rest /\ \A j \in rest : cursor' <= j
    BY <1>1, <1>4, <2>2
  <2>4. cursor' \in UsedOf(entries, capacity) /\ cursor < cursor'
    BY <1>2, <2>3
  <2>5. \A i \in UsedOf(entries, capacity) : cursor < i => cursor' <= i
    BY <1>2, <2>3
  <2>6. cursor' \in Slots(capacity)
    BY <2>4 DEF UsedOf
  <2>7. MapInv'
    BY <1>1, <2>6 DEF MapInv, Sound, UsedOf, Distance, SizeIsBounded, Load, Capacity
  <2> QED  BY <1>1, <2>4, <2>5, <2>7
<1> QED  BY <1>3, <1>4

LEMMA MapInvNext == MapInv /\ [Next]_vars => MapInv'
<1> SUFFICES ASSUME MapInv, [Next]_vars PROVE MapInv'
  OBVIOUS
<1>1. CASE \E k \in Keys : MapRemoveKey(k)
  BY <1>1, MapRemoveKeyKeeps
<1>2. CASE \E k \in Keys, v \in Values : MapSet(k, v)
  BY <1>2, MapSetKeeps
<1>3. CASE MapClear
  BY <1>3, MapClearKeeps
<1>4. CASE MapIterate
  BY <1>4, MapIterateKeeps
<1>5. CASE UNCHANGED vars
  BY <1>5 DEF vars, MapInv, Sound, UsedOf, Distance, SizeIsBounded, Load, Capacity
<1> QED  BY <1>1, <1>2, <1>3, <1>4, <1>5 DEF Next

LEMMA MapInvAlways == Spec => []MapInv
<1> QED  BY MapInvInit, MapInvNext, PTL DEF Spec

(* The array, the count and the iterator of a map stay within each other.  *)
THEOREM MapTypeCorrect == Spec => []TypeOK
<1>1. ASSUME MapInv PROVE TypeOK
  <2>1. count \in 0 .. capacity
    <3>1. /\ count \in Nat /\ count <= Load(capacity) /\ capacity \in Nat
          /\ capacity > 0 => Load(capacity) < capacity
          /\ Load(0) = 0 /\ Load(capacity) \in Nat
      BY <1>1, MapInvFacts, Loads
    <3> QED  BY <3>1
  <2> QED  BY <1>1, <2>1, MapInvFacts DEF MapInv, TypeOK, Sound
<1> QED  BY <1>1, MapInvAlways, PTL

(* However keys are set and removed and the array resized, the search for  *)
(* every key of the map comes to its entry, findEntry and insertEntry find *)
(* the slot without a key that they assert there is, and the array is as   *)
(* small as the entries allow: for any number of keys, any hash codes and  *)
(* collisions among them, and any constants of the growth policy.          *)
THEOREM TableIsSoundAlways == Spec => []TableIsSound
<1>1. ASSUME MapInv PROVE TableIsSound
  <2>1. Used = UsedOf(entries, capacity)
    BY DEF Used, UsedOf
  <2>2. EveryKeyIsFound
    <3> SUFFICES ASSUME NEW i \in UsedOf(entries, capacity)
                 PROVE  FindEntry(entries, capacity, entries[i].key) = i
      BY <2>1 DEF EveryKeyIsFound
    <3> DEFINE k == entries[i].key
               f == FindEntry(entries, capacity, k)
    <3>1. k \in Keys
      BY <1>1, MapInvFacts, EntryParts DEF Sound, UsedOf
    <3>2. /\ f = NoSlot <=> \A j \in UsedOf(entries, capacity) : entries[j].key # k
          /\ f # NoSlot => f \in UsedOf(entries, capacity) /\ entries[f].key = k
      <4> HIDE DEF k
      <4> QED  BY <1>1, <3>1, MapInvFacts, FindEntryFinds
    <3>3. f \in UsedOf(entries, capacity) /\ entries[f].key = entries[i].key
      BY <3>2
    <3> QED  BY <1>1, <3>3, MapInvFacts DEF Sound
  <2>3. LoadIsBounded
    BY <1>1, <2>1, MapInvFacts DEF LoadIsBounded, Load
  <2> QED  BY <1>1, <2>2, <2>3 DEF TableIsSound, MapInv
<1> QED  BY <1>1, MapInvAlways, PTL

-----------------------------------------------------------------------------
(***************************************************************************)
(* The array implements a dictionary.                                      *)
(***************************************************************************)
(* The function that a set of entries stands for. *)
Meaning(C) == [k \in {e.key : e \in C} |-> (CHOOSE e \in C : e.key = k).value]

OneEntryEach(C) == \A e, f \in C : e.key = f.key => e = f

LEMMA MeaningIsUnique ==
  ASSUME NEW C, OneEntryEach(C), NEW F, F = [k \in {e.key : e \in C} |-> F[k]],
         \A e \in C : F[e.key] = e.value
  PROVE  F = Meaning(C)
<1>1. ASSUME NEW k \in {e.key : e \in C} PROVE F[k] = (CHOOSE e \in C : e.key = k).value
  <2>1. PICK f \in C : f.key = k
    OBVIOUS
  <2>2. (CHOOSE e \in C : e.key = k) = f
    BY <2>1 DEF OneEntryEach
  <2> QED  BY <2>1, <2>2
<1> QED  BY <1>1 DEF Meaning

LEMMA MeaningOfEntry ==
  ASSUME NEW C, OneEntryEach(C), NEW f \in C
  PROVE  /\ f.key \in DOMAIN Meaning(C)
         /\ Meaning(C)[f.key] = f.value
<1>1. (CHOOSE e \in C : e.key = f.key) = f
  BY DEF OneEntryEach
<1> QED  BY <1>1 DEF Meaning

LEMMA MeaningOfPut ==
  ASSUME NEW C, OneEntryEach(C), NEW k \in Keys, NEW v \in Values
  PROVE  Meaning({e \in C : e.key # k} \cup {Entry(k, v)})
           = [x \in DOMAIN Meaning(C) \cup {k} |-> IF x = k THEN v ELSE Meaning(C)[x]]
<1> DEFINE E == {e \in C : e.key # k} \cup {Entry(k, v)}
           D == DOMAIN Meaning(C) \cup {k}
           F == [x \in D |-> IF x = k THEN v ELSE Meaning(C)[x]]
<1>1. Entry(k, v).key = k /\ Entry(k, v).value = v
  BY EntryParts
<1>2. OneEntryEach(E)
  BY <1>1 DEF OneEntryEach
<1>3. D = {e.key : e \in E}
  BY <1>1 DEF Meaning
<1>4. ASSUME NEW e \in E PROVE F[e.key] = e.value
  <2>1. CASE e.key = k
    BY <2>1, <1>1
  <2>2. CASE e.key # k
    <3>1. e \in C
      BY <2>2, <1>1
    <3>2. e.key \in DOMAIN Meaning(C) /\ Meaning(C)[e.key] = e.value
      BY <3>1, MeaningOfEntry
    <3> QED  BY <2>2, <3>2
  <2> QED  BY <2>1, <2>2
<1>5. F = [x \in {e.key : e \in E} |-> F[x]]
  BY <1>3
<1> HIDE DEF E, F
<1>6. F = Meaning(E)
  BY <1>2, <1>4, <1>5, MeaningIsUnique
<1> QED  BY <1>6 DEF E, F

LEMMA MeaningOfDelete ==
  ASSUME NEW C, OneEntryEach(C), NEW k \in Keys
  PROVE  Meaning({e \in C : e.key # k})
           = [x \in DOMAIN Meaning(C) \ {k} |-> Meaning(C)[x]]
<1> DEFINE E == {e \in C : e.key # k}
           F == [x \in DOMAIN Meaning(C) \ {k} |-> Meaning(C)[x]]
<1>1. OneEntryEach(E)
  BY DEF OneEntryEach
<1>2. DOMAIN Meaning(C) \ {k} = {e.key : e \in E}
  BY DEF Meaning
<1>3. ASSUME NEW e \in E PROVE F[e.key] = e.value
  BY MeaningOfEntry
<1>4. F = [x \in {e.key : e \in E} |-> F[x]]
  BY <1>2
<1> HIDE DEF E, F
<1>5. F = Meaning(E)
  BY <1>1, <1>3, <1>4, MeaningIsUnique
<1> QED  BY <1>5 DEF E, F

(* The refinement mapping of WrenMap, in terms of the entries. *)
Dict == Meaning(Contents(entries, capacity))

Seen == {entries[i].key : i \in {j \in UsedOf(entries, capacity) : j <= cursor}}

LEMMA MappingFacts ==
  ASSUME MapInv
  PROVE  /\ OneEntryEach(Contents(entries, capacity))
         /\ DOMAIN Dict = {entries[i].key : i \in UsedOf(entries, capacity)}
         /\ DOMAIN Dict \subseteq Keys
         /\ cursor = NoCursor => Seen = {}
<1>1. OneEntryEach(Contents(entries, capacity))
  BY MapInvFacts DEF OneEntryEach, Contents, Sound
<1>2. DOMAIN Dict = {entries[i].key : i \in UsedOf(entries, capacity)}
  BY DEF Dict, Meaning, Contents
<1>3. \A i \in UsedOf(entries, capacity) : entries[i].key \in Keys
  BY MapInvFacts, EntryParts DEF Sound, UsedOf
<1>4. \A i \in UsedOf(entries, capacity) : ~(i <= NoCursor)
  BY MapInvFacts DEF UsedOf, Slots, NoCursor
<1> QED  BY <1>1, <1>2, <1>3, <1>4 DEF Seen

(* Everything that the primitives of Map do to the array, growing,         *)
(* shrinking and tombstones included, is what they would do to a function  *)
(* from keys to values, and an iteration over an unchanged map comes to    *)
(* every key exactly once.                                                 *)
THEOREM MapIsADictionary == Spec => ImplementsDictionary
<1> DEFINE Put(k, v) == /\ Dict' = [x \in DOMAIN Dict \cup {k} |->
                                      IF x = k THEN v ELSE Dict[x]]
                        /\ Seen' = {}
           Delete(k) == Dict' = [x \in DOMAIN Dict \ {k} |-> Dict[x]] /\ Seen' = {}
           Visit(k)  == /\ k \in DOMAIN Dict \ Seen
                        /\ Seen' = Seen \cup {k} /\ Dict' = Dict
<1>1. /\ Dict = [k \in {entries[i].key : i \in Used} |->
                   (CHOOSE e \in {entries[i] : i \in Used} : e.key = k).value]
      /\ Seen = {entries[i].key : i \in {j \in Used : j <= cursor}}
  <2>1. UsedOf(entries, capacity) = Used
    BY DEF Used, UsedOf
  <2>2. Contents(entries, capacity) = {entries[i] : i \in Used}
    BY <2>1 DEF Contents
  <2>3. {e.key : e \in {entries[i] : i \in Used}} = {entries[i].key : i \in Used}
    OBVIOUS
  <2> QED  BY <2>1, <2>2, <2>3 DEF Dict, Seen, Meaning
<1>2. ASSUME MapInv', cursor' = NoCursor PROVE Seen' = {}
  <2>1. capacity' \in Nat
    BY <1>2 DEF MapInv, Capacity
  <2>2. \A i \in UsedOf(entries', capacity') : ~(i <= cursor')
    BY <1>2, <2>1 DEF UsedOf, Slots, NoCursor
  <2> QED  BY <2>2 DEF Seen, UsedOf, IsVacant
<1>3. Dict' = Meaning(Contents(entries', capacity'))
  BY DEF Dict
<1>4. ASSUME MapInv, NEW k \in Keys, NEW v \in Values, MapSet(k, v) PROVE Put(k, v)
  <2>1. /\ MapInv' /\ cursor' = NoCursor
        /\ Contents(entries', capacity')
              = {e \in Contents(entries, capacity) : e.key # k} \cup {Entry(k, v)}
    BY <1>4, MapSetKeeps
  <2>2. Dict' = [x \in DOMAIN Dict \cup {k} |-> IF x = k THEN v ELSE Dict[x]]
    BY <1>3, <1>4, <2>1, MappingFacts, MeaningOfPut DEF Dict
  <2> QED  BY <1>2, <2>1, <2>2
<1>5. ASSUME MapInv, NEW k \in Keys, MapRemoveKey(k) PROVE Delete(k)
  <2>1. /\ MapInv' /\ cursor' = NoCursor
        /\ Contents(entries', capacity') = {e \in Contents(entries, capacity) : e.key # k}
    BY <1>5, MapRemoveKeyKeeps
  <2>2. Dict' = [x \in DOMAIN Dict \ {k} |-> Dict[x]]
    BY <1>3, <1>5, <2>1, MappingFacts, MeaningOfDelete DEF Dict
  <2> QED  BY <1>2, <2>1, <2>2
<1>6. Meaning({}) = [k \in {} |-> k]
  BY DEF Meaning
<1>7. ASSUME MapInv, MapClear PROVE Dict' = [k \in {} |-> k] /\ Seen' = {}
  BY <1>2, <1>3, <1>6, <1>7, MapClearKeeps
<1>8. ASSUME MapInv, MapIterate
      PROVE  \/ \E k \in Keys : Visit(k)
             \/ Seen = DOMAIN Dict /\ Seen' = {} /\ Dict' = Dict
  <2>1. /\ MapInv' /\ UNCHANGED <<entries, capacity>>
        /\ \/ /\ cursor' = NoCursor
              /\ \A i \in UsedOf(entries, capacity) : i <= cursor
           \/ /\ cursor' \in UsedOf(entries, capacity) /\ cursor < cursor'
              /\ \A i \in UsedOf(entries, capacity) : cursor < i => cursor' <= i
    BY <1>8, MapIterateKeeps
  <2>2. /\ DOMAIN Dict = {entries[i].key : i \in UsedOf(entries, capacity)}
        /\ DOMAIN Dict \subseteq Keys /\ Dict' = Dict
    BY <1>8, <2>1, MappingFacts DEF Dict
  <2>3. CASE /\ cursor' = NoCursor
             /\ \A i \in UsedOf(entries, capacity) : i <= cursor
    BY <1>2, <2>1, <2>2, <2>3 DEF Seen
  <2>4. CASE /\ cursor' \in UsedOf(entries, capacity) /\ cursor < cursor'
             /\ \A i \in UsedOf(entries, capacity) : cursor < i => cursor' <= i
    <3> DEFINE k == entries[cursor'].key
               upTo(c) == {j \in UsedOf(entries, capacity) : j <= c}
    <3>1. /\ \A i \in UsedOf(entries, capacity) : i \in Int
          /\ cursor \in Int /\ cursor' \in Int
      BY <1>8, <2>4, MapInvFacts DEF MapInv, UsedOf, Slots, NoCursor
    <3>2. upTo(cursor') = upTo(cursor) \cup {cursor'}
      <4>1. \A j \in UsedOf(entries, capacity) : j <= cursor' <=> j <= cursor \/ j = cursor'
        BY <2>4, <3>1
      <4> QED  BY <2>4, <4>1
    <3>3. Seen = {entries[i].key : i \in upTo(cursor)}
          /\ Seen' = {entries[i].key : i \in upTo(cursor')}
      BY <2>1 DEF Seen, UsedOf, IsVacant
    <3>4. cursor' \notin upTo(cursor)
      BY <2>4, <3>1
    <3>5. k \notin Seen
      <4>1. \A i \in upTo(cursor) : entries[i].key = k => i = cursor'
        BY <1>8, <2>4, MapInvFacts DEF Sound
      <4> QED  BY <3>3, <3>4, <4>1
    <3>6. k \in DOMAIN Dict
      BY <2>2, <2>4
    <3>7. Seen' = Seen \cup {k}
      BY <3>2, <3>3
    <3>8. k \in Keys /\ Visit(k)
      BY <2>2, <3>5, <3>6, <3>7
    <3> QED  BY <3>8
  <2> QED  BY <2>1, <2>3, <2>4
<1> HIDE DEF Put, Delete, Visit
<1>9. Init => DictionaryOfEntries!DictionaryInit
  <2> SUFFICES ASSUME Init PROVE Dict = [k \in {} |-> k] /\ Seen = {}
    BY <1>1 DEF DictionaryOfEntries!DictionaryInit
  <2>1. UsedOf(entries, capacity) = {}
    BY DEF Init, UsedOf, Slots
  <2> QED  BY <2>1, <1>6 DEF Dict, Seen, Contents
<1>10. ASSUME MapInv, [Next]_vars
       PROVE  \/ \E k \in Keys : Delete(k) \/ Visit(k) \/ \E v \in Values : Put(k, v)
              \/ Dict' = [k \in {} |-> k] /\ Seen' = {}
              \/ Seen = DOMAIN Dict /\ Seen' = {} /\ Dict' = Dict
              \/ Dict' = Dict /\ Seen' = Seen
  <2>1. CASE UNCHANGED vars
    BY <2>1 DEF vars, Dict, Seen, Contents, UsedOf
  <2>2. CASE Next
    BY <2>2, <1>4, <1>5, <1>7, <1>8, <1>10 DEF Next
  <2> QED  BY <1>10, <2>1, <2>2
<1> DEFINE dict == [k \in {entries[i].key : i \in Used} |->
                     (CHOOSE e \in {entries[i] : i \in Used} : e.key = k).value]
           seen == {entries[i].key : i \in {j \in Used : j <= cursor}}
<1>11. dict = Dict /\ seen = Seen
  BY <1>1
<1>12. (dict = Dict /\ seen = Seen)'
  BY <1>11, PTL
<1>13. ASSUME MapInv, [Next]_vars
       PROVE  [DictionaryOfEntries!DictionaryNext]_<<dict, seen>>
  <2>1. dict = Dict /\ seen = Seen /\ dict' = Dict' /\ seen' = Seen'
    BY <1>11, <1>12
  <2>2. CASE \E k \in Keys : Delete(k) \/ Visit(k) \/ \E v \in Values : Put(k, v)
    <3>1. ASSUME NEW k \in Keys, Delete(k) PROVE DictionaryOfEntries!Delete(k)
      <4> HIDE DEF dict, seen
      <4>1. dict' = [x \in DOMAIN dict \ {k} |-> dict[x]] /\ seen' = {}
        BY <2>1, <3>1 DEF Delete
      <4> QED  BY <4>1 DEF dict, seen, DictionaryOfEntries!Delete
    <3>2. ASSUME NEW k \in Keys, Visit(k) PROVE DictionaryOfEntries!Visit(k)
      BY <2>1, <3>2 DEF Visit, DictionaryOfEntries!Visit
    <3>3. ASSUME NEW k \in Keys, NEW v \in Values, Put(k, v)
          PROVE  DictionaryOfEntries!Put(k, v)
      <4> HIDE DEF dict, seen
      <4>1. /\ dict' = [x \in DOMAIN dict \cup {k} |-> IF x = k THEN v ELSE dict[x]]
            /\ seen' = {}
        BY <2>1, <3>3 DEF Put
      <4> QED  BY <4>1 DEF dict, seen, DictionaryOfEntries!Put
    <3> QED  BY <2>2, <3>1, <3>2, <3>3 DEF DictionaryOfEntries!DictionaryNext
  <2>3. CASE Dict' = [k \in {} |-> k] /\ Seen' = {}
    BY <2>1, <2>3 DEF DictionaryOfEntries!DictionaryNext, DictionaryOfEntries!DeleteAll
  <2>4. CASE Seen = DOMAIN Dict /\ Seen' = {} /\ Dict' = Dict
    BY <2>1, <2>4 DEF DictionaryOfEntries!DictionaryNext, DictionaryOfEntries!Exhausted
  <2>5. CASE Dict' = Dict /\ Seen' = Seen
    BY <2>1, <2>5
  <2> QED  BY <1>10, <1>13, <2>2, <2>3, <2>4, <2>5
<1> QED
  BY <1>9, <1>13, MapInvAlways, PTL
     DEF Spec, ImplementsDictionary, DictionaryOfEntries!DictionarySpec

=============================================================================
