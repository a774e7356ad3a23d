------------------------------- MODULE WrenMap -------------------------------
(***************************************************************************)
(* Maps (wren_value.c, and the primitives of Map in wren_core.c): an open  *)
(* addressing hash table with linear probing and tombstones, that grows    *)
(* and shrinks.  The VM also keeps its modules, and the compiler its       *)
(* constants, in such maps.                                                *)
(*                                                                         *)
(* Abstracted: the values; hash codes, of which a run considers some; the  *)
(* memory management, which WrenHeap models.  The width of the integers is *)
(* not modelled: capacity * LoadPercent overflows only beyond 57 million   *)
(* slots.                                                                  *)
(***************************************************************************)
EXTENDS Integers, FiniteSets

CONSTANTS
  Keys, Values,   (* Values of Wren.                                       *)
  Undefined,      (* UNDEFINED_VAL                                         *)
  Hashes,         (* The hash codes that keys may have.                    *)
  MinCapacity,    (* MIN_CAPACITY, 16                                      *)
  GrowFactor,     (* GROW_FACTOR, 2                                        *)
  LoadPercent     (* MAP_LOAD_PERCENT, 75                                  *)

ASSUME MapAssumption ==
  /\ Undefined \notin Keys /\ Hashes \subseteq Nat
  /\ MinCapacity \in Nat \ {0} /\ GrowFactor \in Nat \ {0, 1}
  /\ LoadPercent \in 1 .. 99
  /\ MinCapacity * LoadPercent >= 100

VARIABLES
  entries,    (* ObjMap.entries                                            *)
  capacity,   (* ObjMap.capacity                                           *)
  count,      (* ObjMap.count                                              *)
  hash,       (* The hash code of each key.                                *)
  cursor      (* The iterator of a loop over the map, or NoCursor.         *)

vars == <<entries, capacity, count, hash, cursor>>

Slots(cap) == 0 .. cap - 1
NoSlot == -1
NoCursor == -1

(* A slot without a key says whether it ever had one. *)
Empty == [key |-> Undefined, value |-> FALSE]
Tombstone == [key |-> Undefined, value |-> TRUE]
Entry(k, v) == [key |-> k, value |-> v]
Entries == {Empty, Tombstone} \cup {Entry(k, v) : k \in Keys, v \in Values}

IsVacant(entry) == entry.key = Undefined

TypeOK ==
  /\ capacity \in Nat
  /\ entries \in [Slots(capacity) -> Entries]
  /\ count \in 0 .. capacity
  /\ hash \in [Keys -> Hashes]
  /\ cursor \in Slots(capacity) \cup {NoCursor}

Init ==
  /\ entries = [i \in Slots(0) |-> Empty] /\ capacity = 0 /\ count = 0
  /\ hash \in [Keys -> Hashes]
  /\ cursor = NoCursor

-----------------------------------------------------------------------------
(***************************************************************************)
(* The array of entries.                                                   *)
(***************************************************************************)

(* How many slots a search for k looks at before slot i. *)
Distance(cap, k, i) == (i + cap - (hash[k] % cap)) % cap

(* The slot of S, which is not empty, that a search for k meets first. *)
First(cap, k, S) == CHOOSE i \in S : \A j \in S : Distance(cap, k, i) <= Distance(cap, k, j)

(* Mutation: tombstones end the search.                                    *)
EndsSearchEarly(entry, k) == IsVacant(entry) \/ entry.key = k

(* A search for k ends at k or at an empty slot, not at a tombstone. *)
EndsSearch(entry, k) == entry = Empty \/ entry.key = k

(* findEntry: the slot of k, or NoSlot. *)
FindEntry(es, cap, k) ==
  LET ends == {i \in Slots(cap) : EndsSearch(es[i], k)}
  IN IF ends # {} /\ es[First(cap, k, ends)].key = k THEN First(cap, k, ends) ELSE NoSlot

(* insertEntry: over the entry of k, or else into the first slot without a *)
(* key, tombstone or empty, that the search came by.                       *)
InsertEntry(es, cap, k, v) ==
  LET vacant == {i \in Slots(cap) : IsVacant(es[i])}
      slot   == IF FindEntry(es, cap, k) # NoSlot
                THEN FindEntry(es, cap, k) ELSE First(cap, k, vacant)
  IN [es EXCEPT ![slot] = Entry(k, v)]

(* Mutation: the last slot is not copied.                                  *)
ResizedShort(es, from, cap) ==
  LET copied[n \in 0 .. from] ==
        IF n = 0 THEN [i \in Slots(cap) |-> Empty]
        ELSE IF IsVacant(es[n - 1]) \/ n = from THEN copied[n - 1]
        ELSE InsertEntry(copied[n - 1], cap, es[n - 1].key, es[n - 1].value)
  IN copied[from]

(* resizeMap: the entries es of an array of length from, in a new array of *)
(* length cap, without the tombstones.                                     *)
Resized(es, from, cap) ==
  LET copied[n \in 0 .. from] ==
        IF n = 0 THEN [i \in Slots(cap) |-> Empty]
        ELSE IF IsVacant(es[n - 1]) THEN copied[n - 1]
        ELSE InsertEntry(copied[n - 1], cap, es[n - 1].key, es[n - 1].value)
  IN copied[from]

-----------------------------------------------------------------------------
(***************************************************************************)
(* The operations.                                                         *)
(***************************************************************************)

MustGrow == count + 1 > (capacity * LoadPercent) \div 100

Grown == IF capacity * GrowFactor < MinCapacity THEN MinCapacity ELSE capacity * GrowFactor

(* wrenMapSet, for map[k] = v and for the entries of a literal: room is    *)
(* made even if k is there already.                                        *)
MapSet(k, v) ==
  LET cap == IF MustGrow THEN Grown ELSE capacity
      es  == IF MustGrow THEN Resized(entries, capacity, cap) ELSE entries
  IN /\ capacity' = cap
     /\ entries' = InsertEntry(es, cap, k, v)
     /\ count' = IF FindEntry(es, cap, k) = NoSlot THEN count + 1 ELSE count
     /\ cursor' = NoCursor
     /\ UNCHANGED hash

(* With n entries left, the array is too large. *)
MustShrink(n) ==
  /\ capacity > MinCapacity
  /\ n < ((capacity \div GrowFactor) * LoadPercent) \div 100

Shrunk == IF capacity \div GrowFactor < MinCapacity THEN MinCapacity ELSE capacity \div GrowFactor

(* Mutation: the entries are freed, and not counted down.                  *)
MapClearCounted ==
  /\ entries' = [i \in Slots(0) |-> Empty] /\ capacity' = 0
  /\ cursor' = NoCursor
  /\ UNCHANGED <<count, hash>>

(* wrenMapClear *)
MapClear ==
  /\ entries' = [i \in Slots(0) |-> Empty] /\ capacity' = 0 /\ count' = 0
  /\ cursor' = NoCursor
  /\ UNCHANGED hash

(* wrenMapRemoveKey, of a key that is there. *)
MapRemoveKey(k) ==
  LET slot    == FindEntry(entries, capacity, k)
      without == [entries EXCEPT ![slot] = Tombstone]
  IN /\ slot # NoSlot
     /\ IF count = 1
        THEN MapClear
        ELSE /\ count' = count - 1
             /\ IF MustShrink(count - 1)
                THEN capacity' = Shrunk /\ entries' = Resized(without, capacity, Shrunk)
                ELSE entries' = without /\ UNCHANGED capacity
             /\ cursor' = NoCursor
             /\ UNCHANGED hash

(* map_iterate, from the start or from the last entry: the next slot with  *)
(* a key, or false.  A program that changes the map in between is not      *)
(* promised anything; here it starts over.                                 *)
MapIterate ==
  LET rest == {i \in Slots(capacity) : i > cursor /\ ~IsVacant(entries[i])}
  IN /\ cursor' = IF rest = {} THEN NoCursor ELSE CHOOSE i \in rest : \A j \in rest : i <= j
     /\ UNCHANGED <<entries, capacity, count, hash>>

Next ==
  \/ \E k \in Keys : MapRemoveKey(k) \/ \E v \in Values : MapSet(k, v)
  \/ MapClear \/ MapIterate

Spec == Init /\ [][Next]_vars

-----------------------------------------------------------------------------
Used == {i \in Slots(capacity) : ~IsVacant(entries[i])}

(* Whatever was removed, and however the array was resized, the search for *)
(* a key of the map comes to its entry: no empty slot was left or made on  *)
(* the way to it, and there is no second entry.                            *)
EveryKeyIsFound == \A i \in Used : FindEntry(entries, capacity, entries[i].key) = i

(* The count is that of the entries in use, and stays under the load that  *)
(* leaves a slot to end every search and to take the next insertion: "Map  *)
(* should have tombstones or empty entries." (findEntry).                  *)
LoadIsBounded ==
  /\ count = Cardinality(Used)
  /\ count <= (capacity * LoadPercent) \div 100
  /\ capacity > 0 => \E i \in Slots(capacity) : IsVacant(entries[i])

(* "if the map gets empty enough, it will be resized to a smaller array"   *)
(* (wren_value.h): memory is bounded by the number of entries, and a map   *)
(* that shrinks does not grow at the next insertion.                       *)
SizeIsBounded ==
  /\ capacity > MinCapacity =>
       count >= ((capacity \div GrowFactor) * LoadPercent) \div 100
  /\ count = 0 => capacity = 0

(* A search comes to the entry of its key or to the end, and the array is  *)
(* neither too full for that nor larger than its entries justify.          *)
TableIsSound == EveryKeyIsFound /\ LoadIsBounded /\ SizeIsBounded

(* Everything that Map does, and its iteration, is that of a dictionary.   *)
DictionaryOfEntries ==
  INSTANCE Dictionary WITH
    dict <- [k \in {entries[i].key : i \in Used} |->
               (CHOOSE e \in {entries[i] : i \in Used} : e.key = k).value],
    seen <- {entries[i].key : i \in {j \in Used : j <= cursor}}

ImplementsDictionary == DictionaryOfEntries!DictionarySpec

=============================================================================
