--------------------------- MODULE ValueFlowProofs ---------------------------
(***************************************************************************)
(* What ValueFlow.cfg checks for one small function, for any number of     *)
(* locals, any operand stack, pool, arena and memory limit.  The inductive *)
(* invariant adds to the exactness of the counts what the release cascade  *)
(* relies on: an object on a pending reclaim has no reference left, a slot *)
(* that is not in use has no count, and what an opcode has left to do lies *)
(* below the cascade it started.                                           *)
(***************************************************************************)
EXTENDS ValueFlow, BasicLemmas, FiniteSetTheorems, TLAPS

(***************************************************************************)
(* The allocator, for every chunk size, object size and number of chunks.  *)
(* The inductive invariant is the conjunction of the type invariant, the   *)
(* exactness of the free list and the agreement of the flags: neither half *)
(* of FreeListIsExact is inductive alone, since a held slot with a link    *)
(* would be dropped by release and leave the list short.                   *)
(***************************************************************************)
ListInv == ArenaTypeOK /\ FreeListIsExact
ArenaInv == ListInv /\ FlagsAgree

(* The witness of FreeListIsExact, named.                                  *)
Lists(q, n) ==
    /\ n \in 0 .. countObject
    /\ q \in [1 .. n -> Slots \ held]
    /\ IsFreeList(q, n)
    /\ \A s \in Slots \ held : \E i \in 1 .. n : q[i] = s

(* The free list there is, with its length, is such a witness.             *)
LEMMA ListExists ==
    ASSUME FreeListIsExact
    PROVE  \E n, q : Lists(q, n)
  BY DEF FreeListIsExact, Lists

(* A witness, with the slots handed out all valid, makes the list exact.   *)
LEMMA ListsMakeItExact ==
    ASSUME NEW n, NEW q, Lists(q, n)', (\A s \in held : nextFree[s] = Null)'
    PROVE  FreeListIsExact'
  <1>1. n \in 0 .. countObject' /\ q \in [1 .. n -> Slots' \ held']
    BY DEF Lists
  <1>2. IsFreeList(q, n)' /\ \A s \in Slots' \ held' : \E i \in 1 .. n : q[i] = s
    BY DEF Lists
  <1> QED BY <1>1, <1>2 DEF FreeListIsExact

(* An empty list means every slot is held; a non-empty one starts with a   *)
(* slot nobody holds.                                                      *)
LEMMA HeadIsFree ==
    ASSUME ArenaTypeOK, FreeListIsExact
    PROVE  /\ freeSlot = Null => held = Slots
           /\ freeSlot # Null => freeSlot \in Slots \ held
  <1>1. PICK n, q : Lists(q, n)
    BY ListExists
  <1>2. n \in Nat
    BY <1>1 DEF ArenaTypeOK, Lists
  <1>3. CASE n = 0
    <2>1. freeSlot = Null
      BY <1>1, <1>3 DEF Lists, IsFreeList
    <2>2. \A i \in 1 .. n : FALSE
      BY <1>3
    <2>3. held = Slots
      BY <1>1, <2>2 DEF Lists, ArenaTypeOK
    <2> QED BY <2>1, <2>3
  <1>4. CASE n # 0
    <2>1. freeSlot = q[n] /\ n \in 1 .. n
      BY <1>1, <1>2, <1>4 DEF Lists, IsFreeList
    <2>2. q[n] \in Slots \ held
      BY <2>1, <1>1 DEF Lists
    <2>3. Null \notin Slots
      BY ArenaAssumption DEF Slots, ArenaTypeOK
    <2> QED BY <2>1, <2>2, <2>3
  <1> QED BY <1>3, <1>4

(* Popping the head leaves a list of the other free slots.                 *)
LEMMA PopKeepsList ==
    ASSUME ListInv, NEW o, PopFreeSlot(o), held' = held \cup {o}
    PROVE  FreeListIsExact' /\ o \in Slots \ held
  <1> USE DEF ListInv
  <1>1. PICK n, q : Lists(q, n)
    BY ListExists
  <1>2. n \in Nat /\ countObject \in Nat /\ n > 0 /\ countObject' = countObject
    BY <1>1 DEF ArenaTypeOK, PopFreeSlot, Lists, IsFreeList
  <1>3. o = q[n] /\ o \in Slots \ held /\ Slots' = Slots
    BY <1>1, <1>2, HeadIsFree DEF PopFreeSlot, Lists, IsFreeList, Slots
  <1>4. nextFree[o] = IF n = 1 THEN Null ELSE q[n - 1]
    BY <1>1, <1>2, <1>3 DEF Lists, IsFreeList
  <1>5. \A i \in 1 .. n - 1 : i \in 1 .. n /\ q[i] # o
    BY <1>1, <1>2, <1>3 DEF Lists, IsFreeList
  <1>6. \A s \in Slots : nextFree'[s] = IF s = o THEN Null ELSE nextFree[s]
    BY <1>3 DEF PopFreeSlot, LinksAfterPop, ArenaTypeOK
  <1> DEFINE r == [i \in 1 .. n - 1 |-> q[i]]
  <1>7. r \in [1 .. n - 1 -> Slots' \ held']
    BY <1>1, <1>3, <1>5 DEF Lists
  <1>8. freeSlot' = IF n - 1 = 0 THEN Null ELSE r[n - 1]
    BY <1>2, <1>4 DEF PopFreeSlot
  <1>9. \A i \in 1 .. n - 1 :
           /\ r[i] \notin held'
           /\ nextFree'[r[i]] = IF i = 1 THEN Null ELSE r[i - 1]
    <2> SUFFICES ASSUME NEW i \in 1 .. n - 1
                 PROVE  /\ r[i] \notin held'
                        /\ nextFree'[r[i]] = IF i = 1 THEN Null ELSE r[i - 1]
      OBVIOUS
    <2>1. r[i] = q[i] /\ q[i] \in Slots \ held /\ q[i] # o
      BY <1>1, <1>5 DEF Lists
    <2>2. nextFree[q[i]] = IF i = 1 THEN Null ELSE q[i - 1]
      BY <1>1, <1>5 DEF Lists, IsFreeList
    <2>3. i # 1 => r[i - 1] = q[i - 1]
      BY <1>2
    <2> QED BY <2>1, <2>2, <2>3, <1>6
  <1>10. \A i, j \in 1 .. n - 1 : r[i] = r[j] => i = j
    BY <1>1, <1>5 DEF Lists, IsFreeList
  <1>11. \A s \in Slots' \ held' : \E i \in 1 .. n - 1 : r[i] = s
    <2> SUFFICES ASSUME NEW s \in Slots' \ held'
                 PROVE  \E i \in 1 .. n - 1 : r[i] = s
      OBVIOUS
    <2>1. PICK i \in 1 .. n : q[i] = s
      BY <1>1, <1>3 DEF Lists
    <2>2. i # n
      BY <2>1, <1>3
    <2> QED BY <2>1, <2>2, <1>2
  <1>12. \A s \in held' : nextFree'[s] = Null
    BY <1>3, <1>6 DEF FreeListIsExact, ArenaTypeOK
  <1>13. n - 1 \in 0 .. countObject'
    BY <1>1, <1>2 DEF Lists
  <1> HIDE DEF r
  <1>14. IsFreeList(r, n - 1)'
    BY <1>8, <1>9, <1>10 DEF IsFreeList
  <1>15. Lists(r, n - 1)'
    BY <1>7, <1>11, <1>13, <1>14 DEF Lists
  <1> QED BY <1>3, <1>12, <1>15, ListsMakeItExact

(* A held slot leaves room on the list: the free slots are a proper part   *)
(* of the slots, and the list has no repetition.                           *)
LEMMA RoomForAHeldSlot ==
    ASSUME ArenaTypeOK, NEW n, NEW q, Lists(q, n), NEW o \in held
    PROVE  n + 1 \in 0 .. countObject
  <1>1. countObject \in Nat /\ n \in Nat /\ o \in Slots
    BY DEF ArenaTypeOK, Lists
  <1>2. IsFiniteSet(Slots) /\ Cardinality(Slots) = countObject
    BY <1>1, FS_Interval DEF Slots
  <1>3. /\ IsFiniteSet(Slots \ {o})
        /\ Cardinality(Slots \ {o}) = countObject - 1
    BY <1>1, <1>2, FS_RemoveElement
  <1>4. q \in Injection(1 .. n, Slots \ {o})
    BY DEF Injection, IsInjective, Lists, IsFreeList
  <1>5. Cardinality(1 .. n) <= Cardinality(Slots \ {o})
    BY <1>3, <1>4, FS_Injection
  <1>6. Cardinality(1 .. n) = n
    BY <1>1, FS_Interval
  <1> QED BY <1>1, <1>3, <1>5, <1>6

(* A held slot is not taken for one released before.                       *)
LEMMA HeldIsNotAlreadyReleased ==
    ASSUME ArenaTypeOK, FreeListIsExact, NEW o \in held
    PROVE  ~AlreadyReleased(o)
  <1>1. nextFree[o] = Null
    BY DEF FreeListIsExact
  <1>2. o # freeSlot
    <2>1. o # Null
      BY ArenaAssumption DEF ArenaTypeOK, Slots
    <2> QED BY <2>1, HeadIsFree
  <1> QED BY <1>1, <1>2 DEF AlreadyReleased

(* Putting a held slot back makes it the head of the list.                 *)
LEMMA PutKeepsList ==
    ASSUME ListInv, NEW o \in held,
           nextFree' = [nextFree EXCEPT ![o] = freeSlot], freeSlot' = o,
           held' = held \ {o}, countObject' = countObject
    PROVE  FreeListIsExact'
  <1> USE DEF ListInv
  <1>1. PICK n, q : Lists(q, n)
    BY ListExists
  <1>2. /\ n \in Nat /\ o \in Slots /\ Slots' = Slots
        /\ \A i \in 1 .. n : q[i] \in Slots \ held /\ q[i] # o
    BY <1>1 DEF ArenaTypeOK, Lists, Slots
  <1>3. \A s \in Slots : nextFree'[s] = IF s = o THEN freeSlot ELSE nextFree[s]
    BY <1>2 DEF ArenaTypeOK
  <1> DEFINE r == [i \in 1 .. n + 1 |-> IF i = n + 1 THEN o ELSE q[i]]
  <1>4. r \in [1 .. n + 1 -> Slots' \ held']
    BY <1>2
  <1>5. freeSlot' = IF n + 1 = 0 THEN Null ELSE r[n + 1]
    BY <1>2
  <1>6. \A i \in 1 .. n + 1 :
           /\ r[i] \notin held'
           /\ nextFree'[r[i]] = IF i = 1 THEN Null ELSE r[i - 1]
    <2> SUFFICES ASSUME NEW i \in 1 .. n + 1
                 PROVE  /\ r[i] \notin held'
                        /\ nextFree'[r[i]] = IF i = 1 THEN Null ELSE r[i - 1]
      OBVIOUS
    <2>1. CASE i = n + 1
      <3>1. freeSlot = IF n = 0 THEN Null ELSE q[n]
        BY <1>1 DEF Lists, IsFreeList
      <3>2. r[i] = o /\ (i # 1 => r[i - 1] = q[n])
        BY <2>1, <1>2
      <3> QED BY <2>1, <3>1, <3>2, <1>2, <1>3
    <2>2. CASE i # n + 1
      <3>1. i \in 1 .. n /\ r[i] = q[i] /\ (i # 1 => r[i - 1] = q[i - 1])
        BY <2>2, <1>2
      <3>2. nextFree[q[i]] = IF i = 1 THEN Null ELSE q[i - 1]
        BY <1>1, <3>1 DEF Lists, IsFreeList
      <3> QED BY <3>1, <3>2, <1>2, <1>3
    <2> QED BY <2>1, <2>2
  <1>7. \A i, j \in 1 .. n + 1 : r[i] = r[j] => i = j
    BY <1>1, <1>2 DEF Lists, IsFreeList
  <1>8. \A s \in Slots' \ held' : \E i \in 1 .. n + 1 : r[i] = s
    <2> SUFFICES ASSUME NEW s \in Slots' \ held'
                 PROVE  \E i \in 1 .. n + 1 : r[i] = s
      OBVIOUS
    <2>1. CASE s = o
      BY <2>1, <1>2
    <2>2. CASE s # o
      <3>1. PICK i \in 1 .. n : q[i] = s
        BY <2>2, <1>1, <1>2 DEF Lists
      <3> QED BY <3>1, <1>2
    <2> QED BY <2>1, <2>2
  <1>9. \A s \in held' : nextFree'[s] = Null
    BY <1>3 DEF FreeListIsExact, ArenaTypeOK
  <1>10. n + 1 \in 0 .. countObject'
    BY <1>1, RoomForAHeldSlot
  <1> HIDE DEF r
  <1>11. IsFreeList(r, n + 1)'
    BY <1>5, <1>6, <1>7 DEF IsFreeList
  <1>12. Lists(r, n + 1)'
    BY <1>4, <1>8, <1>10, <1>11 DEF Lists
  <1> QED BY <1>9, <1>12, ListsMakeItExact

(* A chunk is added only when every slot is held; slots 1 .. ChunkSize-1   *)
(* of the new chunk are the new list.                                      *)
LEMMA AddChunkMakesList ==
    ASSUME ListInv, NEW o, AddChunk(o), held' = held \cup {o}
    PROVE  FreeListIsExact' /\ held = Slots /\ o = countObject
  <1> USE DEF ListInv
  <1>1. held = Slots /\ o = countObject /\ countObject \in Nat
    BY HeadIsFree DEF AddChunk, ArenaTypeOK
  <1>2. ChunkSize \in Nat /\ ChunkSize >= 2 /\ Null \notin Nat
    BY ArenaAssumption
  <1>3. countObject' = o + ChunkSize
    BY <1>1 DEF AddChunk
  <1>4. Slots' = 0 .. o + ChunkSize - 1 /\ Slots = 0 .. o - 1
    BY <1>1, <1>2, <1>3 DEF Slots
  <1>5. \A s \in 0 .. o + ChunkSize - 1 :
           nextFree'[s] = IF s < o THEN nextFree[s]
                          ELSE IF s = o \/ s = o + ChunkSize - 1 THEN Null ELSE s + 1
    <2>1. nextFree' = [s \in 0 .. countObject + ChunkSize - 1 |->
                         IF s < countObject THEN nextFree[s]
                         ELSE IF s = countObject \/ s = countObject + ChunkSize - 1
                              THEN Null ELSE s + 1]
      BY DEF AddChunk, ChunkLink
    <2> QED BY <1>1, <2>1
  <1> DEFINE n == ChunkSize - 1
             r == [i \in 1 .. n |-> o + ChunkSize - i]
  <1>6. r \in [1 .. n -> Slots' \ held']
    BY <1>1, <1>2, <1>4
  <1>7. freeSlot' = IF n = 0 THEN Null ELSE r[n]
    BY <1>1, <1>2 DEF AddChunk, HeadOfChunk
  <1>8. \A i \in 1 .. n :
           /\ r[i] \notin held'
           /\ nextFree'[r[i]] = IF i = 1 THEN Null ELSE r[i - 1]
    <2> SUFFICES ASSUME NEW i \in 1 .. n
                 PROVE  /\ r[i] \notin held'
                        /\ nextFree'[r[i]] = IF i = 1 THEN Null ELSE r[i - 1]
      OBVIOUS
    <2>1. r[i] = o + ChunkSize - i /\ r[i] > o /\ r[i] <= o + ChunkSize - 1
      BY <1>1, <1>2
    <2>2. nextFree'[r[i]] = IF i = 1 THEN Null ELSE r[i] + 1
      BY <2>1, <1>1, <1>2, <1>5
    <2>3. i # 1 => r[i - 1] = r[i] + 1
      BY <1>1, <1>2
    <2> QED BY <2>1, <2>2, <2>3, <1>1, <1>4
  <1>9. \A i, j \in 1 .. n : r[i] = r[j] => i = j
    BY <1>1, <1>2
  <1>10. \A s \in Slots' \ held' : \E i \in 1 .. n : r[i] = s
    <2> SUFFICES ASSUME NEW s \in Slots' \ held'
                 PROVE  \E i \in 1 .. n : r[i] = s
      OBVIOUS
    <2>1. s \in Nat /\ s > o /\ s <= o + ChunkSize - 1
      BY <1>1, <1>2, <1>4
    <2>2. o + ChunkSize - s \in 1 .. n /\ r[o + ChunkSize - s] = s
      BY <2>1, <1>1, <1>2
    <2> QED BY <2>2
  <1>11. \A s \in held' : nextFree'[s] = Null
    BY <1>1, <1>2, <1>4, <1>5 DEF FreeListIsExact
  <1>12. n \in 0 .. countObject'
    BY <1>1, <1>2, <1>3
  <1> HIDE DEF r
  <1>13. IsFreeList(r, n)'
    BY <1>7, <1>8, <1>9 DEF IsFreeList
  <1>14. Lists(r, n)'
    BY <1>6, <1>10, <1>12, <1>13 DEF Lists
  <1> QED BY <1>1, <1>11, <1>14, ListsMakeItExact

(* A step that leaves the slots alone leaves the list alone.               *)
LEMMA SlotsUntouched ==
    ASSUME ListInv, UNCHANGED <<countObject, freeSlot, nextFree, held>>,
           isFree' \in SUBSET Slots,
           currentManagedMemory' \in Nat, changedMemory' \in BOOLEAN
    PROVE  ListInv'
  <1> USE DEF ListInv
  <1>1. PICK n, q : Lists(q, n)
    BY ListExists
  <1>2. Lists(q, n)'
    BY <1>1 DEF Lists, IsFreeList, Slots
  <1>3. (\A s \in held : nextFree[s] = Null)'
    BY DEF FreeListIsExact
  <1>4. ArenaTypeOK'
    BY DEF ArenaTypeOK, Slots
  <1> QED BY <1>2, <1>3, <1>4, ListsMakeItExact

(* getObject takes a slot nobody holds, whatever else the step does.       *)
LEMMA TakeKeepsList ==
    ASSUME ListInv, NEW o, TakeSlot(o), held' = held \cup {o},
           currentManagedMemory' \in Nat, changedMemory' \in BOOLEAN
    PROVE  /\ ListInv'
           /\ o \in Slots' \ held /\ Slots \subseteq Slots'
           /\ Slots' \ isFree' = (Slots \ isFree) \cup {o}
  <1> USE DEF ListInv
  <1>0. /\ ChunkSize \in Nat /\ ChunkSize >= 2 /\ countObject \in Nat
    BY ArenaAssumption DEF ArenaTypeOK
  <1>1. CASE PopFreeSlot(o)
    <2>1. FreeListIsExact' /\ o \in Slots \ held
      BY <1>1, PopKeepsList
    <2>2. Slots' = Slots /\ countObject' = countObject /\ isFree' = isFree \ {o}
      BY <1>1 DEF PopFreeSlot, FlagsAfterPop, Slots
    <2>3. nextFree[o] \in Slots \cup {Null}
      BY <2>1 DEF ArenaTypeOK
    <2>4. nextFree' \in [Slots -> Slots \cup {Null}]
      BY <1>1 DEF PopFreeSlot, LinksAfterPop, ArenaTypeOK
    <2>5. ArenaTypeOK'
      BY <1>1, <2>1, <2>2, <2>3, <2>4 DEF PopFreeSlot, ArenaTypeOK
    <2> QED BY <2>1, <2>2, <2>5
  <1>2. CASE AddChunk(o)
    <2>1. FreeListIsExact' /\ held = Slots /\ o = countObject
      BY <1>2, AddChunkMakesList
    <2>2. /\ countObject' = countObject + ChunkSize
          /\ Slots' = 0 .. countObject + ChunkSize - 1
          /\ Slots = 0 .. countObject - 1
      BY <1>0, <1>2 DEF AddChunk, Slots
    <2>3. nextFree' \in [Slots' -> Slots' \cup {Null}]
      BY <1>0, <1>2, <2>2 DEF AddChunk, ChunkLink, ArenaTypeOK
    <2>4. /\ freeSlot' = countObject + 1
          /\ isFree' = isFree \cup (countObject + 1 .. countObject + ChunkSize - 1)
      BY <1>2 DEF AddChunk, HeadOfChunk
    <2>5. ArenaTypeOK'
      BY <1>0, <2>1, <2>2, <2>3, <2>4 DEF ArenaTypeOK
    <2>6. isFree \subseteq Slots
      BY DEF ArenaTypeOK
    <2>7. Slots' \ isFree' = (Slots \ isFree) \cup {o}
      BY <1>0, <2>1, <2>2, <2>4, <2>6
    <2> QED BY <1>0, <2>1, <2>2, <2>5, <2>7
  <1> QED BY <1>1, <1>2 DEF TakeSlot

(* release puts a held slot back, and never takes it for one released      *)
(* before.                                                                 *)
LEMMA PutSlotKeepsList ==
    ASSUME ListInv, NEW o \in held, NEW memory \in Nat, PutSlot(o, memory),
           held' = held \ {o}, isFree' = isFree \cup {o},
           UNCHANGED countObject
    PROVE  /\ ListInv'
           /\ currentManagedMemory' = Minus(memory, ObjectSize)
           /\ changedMemory' = TRUE
           /\ nextFree' = [nextFree EXCEPT ![o] = freeSlot] /\ freeSlot' = o
  <1> USE DEF ListInv
  <1>1. /\ currentManagedMemory' = Minus(memory, ObjectSize)
        /\ nextFree' = [nextFree EXCEPT ![o] = freeSlot]
        /\ freeSlot' = o
        /\ changedMemory' = TRUE
    BY HeldIsNotAlreadyReleased DEF PutSlot, SlotUncharged
  <1>2. FreeListIsExact'
    BY <1>1, PutKeepsList
  <1>3. Slots' = Slots /\ o \in Slots
    BY DEF Slots, ArenaTypeOK
  <1>4. Minus(memory, ObjectSize) \in Nat
    BY ArenaAssumption DEF Minus
  <1>5. ArenaTypeOK'
    BY <1>1, <1>3, <1>4 DEF ArenaTypeOK
  <1> QED BY <1>1, <1>2, <1>5


(* Every step keeps the invariant.                                         *)
LEMMA InvInit == ArenaInit => ArenaInv
  <1> SUFFICES ASSUME ArenaInit PROVE ArenaInv
    OBVIOUS
  <1>0. Slots = {}
    BY DEF ArenaInit, AllocatorInit, Slots
  <1>1. ArenaTypeOK /\ FlagsAgree
    BY <1>0 DEF ArenaInit, AllocatorInit, ArenaTypeOK, FlagsAgree
  <1> DEFINE q == [i \in 1 .. 0 |-> Null]
  <1>2. q \in [1 .. 0 -> Slots \ held]
    OBVIOUS
  <1>3. IsFreeList(q, 0)
    BY DEF ArenaInit, AllocatorInit, IsFreeList
  <1>4. 0 \in 0 .. countObject /\ held = {}
    BY DEF ArenaInit, AllocatorInit
  <1>5. (\A s \in Slots \ held : \E i \in 1 .. 0 : q[i] = s) /\ \A s \in held : nextFree[s] = Null
    BY <1>0, <1>4
  <1> HIDE DEF q
  <1>6. FreeListIsExact
    BY <1>2, <1>3, <1>4, <1>5 DEF FreeListIsExact
  <1> QED BY <1>1, <1>6 DEF ArenaInv, ListInv

(* Every operation on the arena preserves the invariant.                   *)
LEMMA InvNext == ArenaInv /\ [ArenaNext]_allocVars => ArenaInv'
  <1> SUFFICES ASSUME ArenaInv, [ArenaNext]_allocVars PROVE ArenaInv'
    OBVIOUS
  <1>0. /\ ListInv /\ ObjectSize \in Nat /\ currentManagedMemory \in Nat
        /\ isFree = Slots \ held /\ held \subseteq Slots
    BY ArenaAssumption DEF ArenaInv, ListInv, ArenaTypeOK, FlagsAgree
  <1>1. ASSUME NEW o \in 0 .. countObject, GetObject(o)
        PROVE  ArenaInv'
    <2>1. /\ TakeSlot(o) /\ held' = held \cup {o}
          /\ currentManagedMemory' \in Nat /\ changedMemory' \in BOOLEAN
      BY <1>0, <1>1 DEF GetObject
    <2>2. /\ ListInv' /\ o \in Slots' \ held /\ Slots \subseteq Slots'
          /\ Slots' \ isFree' = (Slots \ isFree) \cup {o}
      BY <1>0, <2>1, TakeKeepsList
    <2>3. isFree' \subseteq Slots'
      BY <2>2 DEF ListInv, ArenaTypeOK
    <2>4. isFree' = Slots' \ held'
      BY <1>0, <2>1, <2>2, <2>3
    <2> QED BY <2>2, <2>4 DEF ArenaInv, FlagsAgree
  <1>2. ASSUME NEW o \in 0 .. countObject, Release(o)
        PROVE  ArenaInv'
    <2>1. ListInv' /\ o \in held /\ Slots' = Slots
      BY <1>0, <1>2, PutSlotKeepsList DEF Release, Slots
    <2>2. isFree' = Slots' \ held'
      BY <1>0, <1>2, <2>1 DEF Release
    <2> QED BY <2>1, <2>2 DEF ArenaInv, FlagsAgree
  <1>3. CASE Destroy
    <2>1. ArenaInit'
      BY <1>3 DEF Destroy, ArenaDestroy, ArenaInit, AllocatorInit
    <2> QED BY <2>1, InvInit, PTL
  <1>4. CASE MemoryChecked \/ UNCHANGED allocVars
    <2>1. /\ UNCHANGED <<countObject, freeSlot, nextFree, isFree, held, currentManagedMemory>>
          /\ changedMemory' \in BOOLEAN /\ isFree' \in SUBSET Slots
      BY <1>0, <1>4 DEF MemoryChecked, allocVars, arenaVars, ListInv, ArenaTypeOK
    <2>2. ListInv'
      BY <1>0, <2>1, SlotsUntouched
    <2> QED BY <1>0, <2>1, <2>2 DEF ArenaInv, FlagsAgree, Slots
  <1> QED BY <1>1, <1>2, <1>3, <1>4 DEF ArenaNext

(* The allocator never loses a slot, never hands out a slot that is in     *)
(* use, and its flags say which slots are in use: proved of getObject,     *)
(* release and destroy for every chunk size (AreaAllocator.hpp:38-76).     *)
THEOREM FreeListSafety == ArenaSpec => [](ArenaTypeOK /\ FreeListIsExact /\ FlagsAgree)
  <1>1. ArenaInv => ArenaTypeOK /\ FreeListIsExact /\ FlagsAgree
    BY DEF ArenaInv, ListInv
  <1> QED BY InvInit, InvNext, <1>1, PTL DEF ArenaSpec

(* The counter the VM's memory limit is compared with is exactly the       *)
(* memory of the slots handed out: release never takes the saturating      *)
(* branch (AreaAllocator.hpp:67-71), so no use is forgotten.               *)
LEMMA HeldIsFinite ==
    ASSUME ArenaTypeOK
    PROVE  IsFiniteSet(held) /\ Cardinality(held) \in Nat
  <1>1. IsFiniteSet(Slots)
    BY FS_Interval DEF Slots, ArenaTypeOK
  <1>2. IsFiniteSet(held)
    BY <1>1, FS_Subset DEF ArenaTypeOK
  <1> QED BY <1>2, FS_CardinalityType

(* The slot that an object gives back was paid for when it was handed out. *)
LEMMA HeldPaysForASlot ==
    ASSUME ArenaTypeOK, MemoryIsExact, NEW o \in held
    PROVE  currentManagedMemory >= ObjectSize
  <1>1. IsFiniteSet(held) /\ Cardinality(held) \in Nat /\ ObjectSize \in Nat
    BY HeldIsFinite, ArenaAssumption
  <1>2. Cardinality(held) # 0
    BY <1>1, FS_EmptySet
  <1>3. PICK k \in Nat : Cardinality(held) = k + 1
    BY <1>1, <1>2
  <1>4. ObjectSize * (k + 1) = ObjectSize * k + ObjectSize /\ ObjectSize * k \in Nat
    BY <1>1, <1>3
  <1> QED BY <1>1, <1>3, <1>4 DEF MemoryIsExact

(* Every operation on the arena keeps the sum exact.                       *)
LEMMA MemoryNext == ArenaInv /\ MemoryIsExact /\ [ArenaNext]_allocVars => MemoryIsExact'
  <1> SUFFICES ASSUME ArenaInv, MemoryIsExact, [ArenaNext]_allocVars PROVE MemoryIsExact'
    OBVIOUS
  <1> USE DEF ArenaInv, ListInv
  <1> DEFINE c == Cardinality(held)
  <1>0. /\ c \in Nat /\ IsFiniteSet(held) /\ ObjectSize \in Nat
        /\ currentManagedMemory = ObjectSize * c
    BY HeldIsFinite, ArenaAssumption DEF MemoryIsExact
  <1>1. ASSUME NEW o \in 0 .. countObject, GetObject(o)
        PROVE  MemoryIsExact'
    <2>1. o \notin held
      <3>1. CASE PopFreeSlot(o)
        BY <1>1, <3>1, PopKeepsList DEF GetObject
      <3>2. CASE AddChunk(o)
        BY <1>1, <3>2, AddChunkMakesList DEF GetObject, Slots, ArenaTypeOK
      <3> QED BY <1>1, <3>1, <3>2 DEF GetObject, TakeSlot
    <2>2. Cardinality(held') = c + 1
      BY <1>0, <1>1, <2>1, FS_AddElement DEF GetObject
    <2>3. currentManagedMemory' = ObjectSize * c + ObjectSize
      BY <1>0, <1>1 DEF GetObject
    <2>4. ObjectSize * (c + 1) = ObjectSize * c + ObjectSize
      BY <1>0
    <2> HIDE DEF c
    <2> QED BY <2>2, <2>3, <2>4 DEF MemoryIsExact
  <1>2. ASSUME NEW o \in 0 .. countObject, Release(o)
        PROVE  MemoryIsExact'
    <2>1. o \in held /\ ~AlreadyReleased(o)
      BY <1>2, HeldIsNotAlreadyReleased DEF Release
    <2>2. /\ currentManagedMemory' = Minus(currentManagedMemory, ObjectSize)
          /\ held' = held \ {o}
      BY <1>2, <2>1 DEF Release, PutSlot, SlotUncharged
    <2>3. Cardinality(held') = c - 1 /\ c >= 1
      <3>1. Cardinality(held') = c - 1 /\ IsFiniteSet(held')
        BY <1>0, <2>1, <2>2, FS_RemoveElement
      <3>2. Cardinality(held') \in Nat
        BY <3>1, FS_CardinalityType
      <3> QED BY <1>0, <3>1, <3>2
    <2> HIDE DEF c
    <2>4. PICK k \in Nat : c = k + 1
      BY <1>0, <2>3
    <2>5. ObjectSize * c = ObjectSize * k + ObjectSize /\ ObjectSize * k \in Nat
      BY <1>0, <2>4
    <2>6. Minus(currentManagedMemory, ObjectSize) = ObjectSize * k
      BY <1>0, <2>5 DEF Minus
    <2>7. Cardinality(held') = k
      BY <2>3, <2>4
    <2> QED BY <2>2, <2>6, <2>7 DEF MemoryIsExact
  <1>3. CASE Destroy
    <2>1. Cardinality(held') = 0 /\ currentManagedMemory' = 0
      BY <1>3, FS_EmptySet DEF Destroy, ArenaDestroy
    <2> QED BY <1>0, <2>1 DEF MemoryIsExact
  <1>4. CASE MemoryChecked
    BY <1>4 DEF MemoryChecked, MemoryIsExact
  <1>5. CASE UNCHANGED allocVars
    BY <1>5 DEF allocVars, arenaVars, MemoryIsExact
  <1> QED BY <1>1, <1>2, <1>3, <1>4, <1>5 DEF ArenaNext

(* The bytes an arena counts are those of the objects it has handed out,   *)
(* exactly, so the limit that is tested against them is on the real use.   *)
THEOREM MemoryAccounting == ArenaSpec => []MemoryIsExact
  <1>1. ArenaInit => MemoryIsExact
    BY FS_EmptySet, ArenaAssumption DEF ArenaInit, AllocatorInit, MemoryIsExact
  <1> QED BY InvInit, InvNext, <1>1, MemoryNext, PTL DEF ArenaSpec

(* The allocator with its free list implements the pool of slots: initial  *)
(* states map to initial states and every step to a pool step or none.     *)
THEOREM ImplementsPool == ArenaSpec => PoolRefinement
  <1>1. ArenaInit => Pool!PoolInit
    BY DEF ArenaInit, AllocatorInit, Pool!PoolInit
  <1>2. ArenaInv /\ MemoryIsExact /\ [ArenaNext]_allocVars => [Pool!PoolNext]_(Pool!poolVars)
    <2> SUFFICES ASSUME ArenaInv, MemoryIsExact, [ArenaNext]_allocVars
                 PROVE  Pool!PoolNext \/ UNCHANGED Pool!poolVars
      OBVIOUS
    <2> USE DEF ArenaInv, ListInv
    <2>1. ASSUME NEW o \in 0 .. countObject, GetObject(o)
          PROVE  Pool!PoolNext
      <3>1. CASE PopFreeSlot(o)
        <4>1. o \in Slots \ held
          BY <2>1, <3>1, PopKeepsList DEF GetObject
        <4>2. Pool!Acquire(o)
          BY <2>1, <3>1, <4>1 DEF GetObject, PopFreeSlot, Slots, Pool!Acquire
        <4> QED BY <4>2 DEF Pool!PoolNext
      <3>2. CASE AddChunk(o)
        <4>1. held = Slots /\ o = countObject
          BY <2>1, <3>2, AddChunkMakesList DEF GetObject
        <4>2. Pool!Grow(o)
          BY <2>1, <3>2, <4>1 DEF GetObject, AddChunk, Slots, Pool!Grow
        <4> QED BY <4>2 DEF Pool!PoolNext
      <3> QED BY <2>1, <3>1, <3>2 DEF GetObject, TakeSlot
    <2>2. ASSUME NEW o \in 0 .. countObject, Release(o)
          PROVE  Pool!PoolNext
      <3>1. o \in held /\ ~AlreadyReleased(o)
        BY <2>2, HeldIsNotAlreadyReleased DEF Release
      <3>2. currentManagedMemory' = Minus(currentManagedMemory, ObjectSize)
        BY <2>2, <3>1 DEF Release, PutSlot, SlotUncharged
      <3>3. currentManagedMemory >= ObjectSize
        BY <3>1, HeldPaysForASlot
      <3>4. Pool!GiveBack(o)
        BY <2>2, <3>1, <3>2, <3>3 DEF Release, Minus, Pool!GiveBack
      <3> QED BY <3>4 DEF Pool!PoolNext
    <2>3. CASE Destroy
      BY <2>3 DEF Destroy, ArenaDestroy, Pool!PoolNext, Pool!Reset
    <2>4. CASE MemoryChecked
      BY <2>4 DEF MemoryChecked, Pool!poolVars
    <2>5. CASE UNCHANGED allocVars
      BY <2>5 DEF allocVars, arenaVars, Pool!poolVars
    <2> QED BY <2>1, <2>2, <2>3, <2>4, <2>5 DEF ArenaNext
  <1> QED BY InvInit, InvNext, <1>1, <1>2, MemoryAccounting, PTL
          DEF ArenaSpec, PoolRefinement, Pool!PoolSpec

(***************************************************************************)
(* The opcodes, the counts and the reclaims.                               *)
(***************************************************************************)

Replacing == {"setLocal", "cloneInto", "setMember"}
Clearing == {"clearLocals", "dropOperands"}
Ops == {"release", "tryRelease", "reclaim"} \cup Replacing \cup Clearing
Calls == [op : Ops, obj : Values, at : Nat]

(* The store: slots, pool, classes and members.  The pool keeps slots that *)
(* are flagged free and still charged; a slot that is not in use looks as  *)
(* the allocator's reset leaves it.                                        *)
PoolInv ==
    /\ pool \in Seq(Addresses) /\ Len(pool) <= PoolSize
    /\ \A m, n \in DOMAIN pool : pool[m] = pool[n] => m = n
    /\ \A n \in DOMAIN pool : pool[n] \in held \cap isFree

StoreTypes ==
    /\ ListInv
    /\ \E c \in 0 .. MaxChunks : countObject = c * ChunkSize
    /\ kind \in [Addresses -> Kinds]
    /\ member \in [Addresses -> Values]

StoreInv ==
    /\ StoreTypes
    /\ PoolInv
    /\ \A o \in Addresses \ InUse : kind[o] = "int"
    /\ \A o \in Addresses : kind[o] = "int" => member[o] = Null
    /\ MemoryMatchesObjects

FrameTypes ==
    /\ refCount \in [Addresses -> Nat]
    /\ local \in [Locals -> Values]
    /\ stack \in Seq(Objects)
    /\ exception \in Values
    /\ forgotten \in [Addresses -> Nat]
    /\ phase \in {"run", "fatal", "ended"}
    /\ todo \in Seq(Calls)

IdleInv == \A o \in Addresses \ InUse : refCount[o] = 0
CountInv == \A o \in Addresses : refCount[o] = References(o) + forgotten[o]

(* What an opcode has left to do lies below its cascade.                   *)
CallInv(n) ==
    LET call == todo[n] IN
    /\ call.op \in Replacing => n = 1
    /\ call.op \in {"setLocal", "cloneInto"} => call.obj \in Objects /\ call.at \in Locals
    /\ call.op = "setMember" =>
          call.obj \in Addresses /\ kind[call.obj] = "obj" /\ stack # <<>>
    /\ call.op \in Clearing => n = 1 \/ (n = 2 /\ todo[1].op \in Clearing)
    /\ call.op = "clearLocals" => call.at > 0
    /\ call.op = "tryRelease" => Len(todo) = 1
    /\ call.op = "tryRelease" /\ call.obj \in Addresses => call.obj \in InUse
    /\ call.op = "reclaim" => call.obj \in InUse /\ refCount[call.obj] = 0

TodoInv ==
    /\ \A n \in DOMAIN todo : CallInv(n)
    /\ \A m, n \in DOMAIN todo :
          /\ todo[m].op = "reclaim" /\ todo[n].op = "reclaim"
          /\ todo[m].obj = todo[n].obj
          => m = n

LiveInv ==
    \A o \in InUse : refCount[o] = 0 => Dying(o) \/ PendingOn("tryRelease", o)

LimitInv == phase = "run" /\ ~changedMemory => currentManagedMemory <= MaxMemory

FlowInv ==
    StoreInv /\ FrameTypes /\ IdleInv /\ CountInv /\ TodoInv /\ LiveInv /\ LimitInv

(***************************************************************************)
(* References.                                                             *)
(***************************************************************************)
RefsAreFinite ==
    \A o : /\ IsFiniteSet(LocalRefs(o)) /\ IsFiniteSet(StackRefs(o))
           /\ IsFiniteSet(MemberRefs(o)) /\ IsFiniteSet(CallRefs(o))

(* Addresses are finitely many numbers; null and constants have none.      *)
LEMMA AddressesAreFinite ==
    /\ IsFiniteSet(Addresses) /\ Addresses \subseteq Nat
    /\ Null \notin Addresses /\ Const \notin Addresses /\ Const # Null
  <1>1. MaxChunks * ChunkSize - 1 \in Int
    BY ArenaAssumption
  <1>2. IsFiniteSet(Addresses)
    BY <1>1, FS_Interval DEF Addresses
  <1>3. Addresses \subseteq Nat
    BY <1>1 DEF Addresses
  <1> QED BY <1>2, <1>3, ArenaAssumption, ObjectAssumption

(* Every object has finitely many references.                              *)
LEMMA FiniteRefs == FrameTypes => RefsAreFinite
  <1> SUFFICES ASSUME FrameTypes, NEW o
               PROVE  /\ IsFiniteSet(LocalRefs(o)) /\ IsFiniteSet(StackRefs(o))
                      /\ IsFiniteSet(MemberRefs(o)) /\ IsFiniteSet(CallRefs(o))
    BY DEF RefsAreFinite
  <1>1. /\ stack \in Seq(Objects) /\ todo \in Seq(Calls)
        /\ NumLocals \in Nat
    BY FlowAssumption DEF FrameTypes
  <1>2. /\ Len(stack) \in Nat /\ DOMAIN stack = 1 .. Len(stack)
        /\ Len(todo) \in Nat /\ DOMAIN todo = 1 .. Len(todo)
    BY <1>1, LenProperties
  <1>3. IsFiniteSet(Locals) /\ IsFiniteSet(DOMAIN stack) /\ IsFiniteSet(DOMAIN todo)
    BY <1>1, <1>2, FS_Interval DEF Locals
  <1>4. /\ LocalRefs(o) \in SUBSET Locals /\ StackRefs(o) \in SUBSET DOMAIN stack
        /\ MemberRefs(o) \in SUBSET Addresses /\ CallRefs(o) \in SUBSET DOMAIN todo
    BY DEF LocalRefs, StackRefs, MemberRefs, CallRefs
  <1> QED BY <1>3, <1>4, FS_Subset, AddressesAreFinite

(* The same after a step.                                                  *)
LEMMA FiniteRefsNext == FrameTypes' => RefsAreFinite'
  BY FiniteRefs, PTL

(* So their number is a number.                                            *)
LEMMA RefNumbers ==
    ASSUME RefsAreFinite, NEW o
    PROVE  /\ Cardinality(LocalRefs(o)) \in Nat /\ Cardinality(StackRefs(o)) \in Nat
           /\ Cardinality(MemberRefs(o)) \in Nat /\ Cardinality(CallRefs(o)) \in Nat
           /\ References(o) \in Nat
  <1>1. /\ Cardinality(LocalRefs(o)) \in Nat /\ Cardinality(StackRefs(o)) \in Nat
        /\ Cardinality(MemberRefs(o)) \in Nat /\ Cardinality(CallRefs(o)) \in Nat
    BY FS_CardinalityType DEF RefsAreFinite
  <1> QED BY <1>1 DEF References

(* An object somebody refers to is counted, in use and not being           *)
(* reclaimed.                                                              *)
LEMMA Referenced ==
    ASSUME FlowInv, NEW o \in Addresses,
           \/ LocalRefs(o) # {} \/ StackRefs(o) # {} \/ MemberRefs(o) # {}
           \/ CallRefs(o) # {} \/ exception = o
    PROVE  refCount[o] > 0 /\ o \in InUse /\ ~Dying(o)
  <1>1. RefsAreFinite
    BY FiniteRefs DEF FlowInv
  <1>2. /\ refCount[o] \in Nat /\ forgotten[o] \in Nat
        /\ refCount[o] = References(o) + forgotten[o]
    BY DEF FlowInv, FrameTypes, CountInv
  <1>3. References(o) > 0
    <2> DEFINE l == Cardinality(LocalRefs(o))
               s == Cardinality(StackRefs(o))
               m == Cardinality(MemberRefs(o))
               c == Cardinality(CallRefs(o))
    <2>1. l \in Nat /\ s \in Nat /\ m \in Nat /\ c \in Nat
      BY <1>1, RefNumbers
    <2>2. /\ LocalRefs(o) # {} => l > 0
          /\ StackRefs(o) # {} => s > 0
          /\ MemberRefs(o) # {} => m > 0
          /\ CallRefs(o) # {} => c > 0
      BY <1>1, <2>1, FS_EmptySet DEF RefsAreFinite
    <2>3. References(o) = l + s + m + c + (IF exception = o THEN 1 ELSE 0)
      BY DEF References
    <2> HIDE DEF l, s, m, c
    <2> QED BY <2>1, <2>2, <2>3
  <1>4. refCount[o] > 0
    BY <1>1, <1>2, <1>3, RefNumbers
  <1>5. o \in InUse
    BY <1>4 DEF FlowInv, IdleInv
  <1>6. ~Dying(o)
    BY <1>4 DEF FlowInv, TodoInv, CallInv, Dying, PendingOn
  <1> QED BY <1>4, <1>5, <1>6

(***************************************************************************)
(* Counting in a stack of values and in a stack of calls.                  *)
(***************************************************************************)
ValueRefs(s, o) == {n \in DOMAIN s : s[n] = o}
OwnedBy(c, o) == c.obj = o /\ CallOwns(c)
OwningCalls(t, o) == {n \in DOMAIN t : OwnedBy(t[n], o)}

(* The references of the operands, counted in the sequence stack.          *)
LEMMA StackRefsOf == \A o : StackRefs(o) = ValueRefs(stack, o)
  BY DEF StackRefs, ValueRefs

(* The references of the pending calls, counted in the sequence todo.      *)
LEMMA CallRefsOf == \A o : CallRefs(o) = OwningCalls(todo, o)
  BY DEF CallRefs, OwningCalls, OwnedBy

(* No operands, no references.                                             *)
LEMMA ValueRefsOfNone == \A o : ValueRefs(<<>>, o) = {} /\ Cardinality(ValueRefs(<<>>, o)) = 0
  BY FS_EmptySet DEF ValueRefs

(* No pending calls, no references.                                        *)
LEMMA OwningNone == \A o : OwningCalls(<<>>, o) = {} /\ Cardinality(OwningCalls(<<>>, o)) = 0
  BY FS_EmptySet DEF OwningCalls

(* Pushing a value adds one reference to it.                               *)
LEMMA ValuePushed ==
    ASSUME NEW S, NEW s \in Seq(S), NEW v \in S, NEW o
    PROVE  /\ Cardinality(ValueRefs(s, o)) \in Nat
           /\ Cardinality(ValueRefs(Append(s, v), o))
                  = Cardinality(ValueRefs(s, o)) + Bit(v = o)
  <1> DEFINE n == Len(s) + 1
             long == Append(s, v)
  <1>1. Len(s) \in Nat /\ DOMAIN s = 1 .. Len(s)
    BY LenProperties
  <1>2. /\ DOMAIN long = 1 .. n /\ long[n] = v
        /\ \A i \in 1 .. Len(s) : long[i] = s[i]
    <2>1. long \in Seq(S) /\ Len(long) = n
      BY AppendProperties
    <2>2. long[n] = v /\ \A i \in 1 .. Len(s) : long[i] = s[i]
      BY AppendProperties
    <2> QED BY <2>1, <2>2, LenProperties
  <1>3. ValueRefs(s, o) \in SUBSET (1 .. Len(s))
    BY <1>1 DEF ValueRefs
  <1>4. IsFiniteSet(ValueRefs(s, o)) /\ n \notin ValueRefs(s, o)
    <2>1. IsFiniteSet(1 .. Len(s))
      BY <1>1, FS_Interval
    <2>2. n \notin 1 .. Len(s)
      BY <1>1
    <2> QED BY <1>3, <2>1, <2>2, FS_Subset
  <1>5. ValueRefs(long, o) = IF v = o THEN ValueRefs(s, o) \cup {n} ELSE ValueRefs(s, o)
    BY <1>1, <1>2 DEF ValueRefs
  <1>6. Cardinality(ValueRefs(s, o)) \in Nat
    BY <1>4, FS_CardinalityType
  <1> HIDE DEF n, long
  <1>7. /\ Cardinality(ValueRefs(s, o)) \in Nat
        /\ Cardinality(ValueRefs(long, o)) = Cardinality(ValueRefs(s, o)) + Bit(v = o)
    <2>1. CASE v = o
      BY <1>4, <1>5, <2>1, AddOne DEF Bit
    <2>2. CASE ~(v = o)
      BY <1>5, <1>6, <2>2 DEF Bit
    <2> QED BY <2>1, <2>2
  <1> QED BY <1>7 DEF long

(* Taking the last one off takes its reference off.                        *)
LEMMA ValuePopped ==
    ASSUME NEW S, NEW s \in Seq(S), s # <<>>, NEW o
    PROVE  /\ Cardinality(ValueRefs(Front(s), o)) \in Nat
           /\ Cardinality(ValueRefs(s, o))
                  = Cardinality(ValueRefs(Front(s), o)) + Bit(Last(s) = o)
  <1>1. Front(s) \in Seq(S) /\ Last(s) \in S /\ s = Append(Front(s), Last(s))
    BY FrontAndLast
  <1>2. /\ Cardinality(ValueRefs(Front(s), o)) \in Nat
        /\ Cardinality(ValueRefs(Append(Front(s), Last(s)), o))
              = Cardinality(ValueRefs(Front(s), o)) + Bit(Last(s) = o)
    BY <1>1, ValuePushed
  <1> QED BY <1>1, <1>2

(* The same of the calls that own a reference.                             *)
LEMMA CallPushed ==
    ASSUME NEW t \in Seq(Calls), NEW c \in Calls, NEW o
    PROVE  /\ Cardinality(OwningCalls(t, o)) \in Nat
           /\ Cardinality(OwningCalls(Append(t, c), o))
                  = Cardinality(OwningCalls(t, o)) + Bit(OwnedBy(c, o))
  <1> DEFINE n == Len(t) + 1
             long == Append(t, c)
  <1>1. Len(t) \in Nat /\ DOMAIN t = 1 .. Len(t)
    BY LenProperties
  <1>2. /\ DOMAIN long = 1 .. n /\ long[n] = c
        /\ \A i \in 1 .. Len(t) : long[i] = t[i]
    <2>1. long \in Seq(Calls) /\ Len(long) = n
      BY AppendProperties
    <2>2. long[n] = c /\ \A i \in 1 .. Len(t) : long[i] = t[i]
      BY AppendProperties
    <2> QED BY <2>1, <2>2, LenProperties
  <1>3. OwningCalls(t, o) \in SUBSET (1 .. Len(t))
    BY <1>1 DEF OwningCalls
  <1>4. IsFiniteSet(OwningCalls(t, o)) /\ n \notin OwningCalls(t, o)
    <2>1. IsFiniteSet(1 .. Len(t))
      BY <1>1, FS_Interval
    <2>2. n \notin 1 .. Len(t)
      BY <1>1
    <2> QED BY <1>3, <2>1, <2>2, FS_Subset
  <1>5. OwningCalls(long, o) = IF OwnedBy(c, o) THEN OwningCalls(t, o) \cup {n}
                                                ELSE OwningCalls(t, o)
    BY <1>1, <1>2 DEF OwningCalls
  <1>6. Cardinality(OwningCalls(t, o)) \in Nat
    BY <1>4, FS_CardinalityType
  <1> HIDE DEF n, long
  <1>7. /\ Cardinality(OwningCalls(t, o)) \in Nat
        /\ Cardinality(OwningCalls(long, o)) = Cardinality(OwningCalls(t, o)) + Bit(OwnedBy(c, o))
    <2>1. CASE OwnedBy(c, o)
      BY <1>4, <1>5, <2>1, AddOne DEF Bit
    <2>2. CASE ~(OwnedBy(c, o))
      BY <1>5, <1>6, <2>2 DEF Bit
    <2> QED BY <2>1, <2>2
  <1> QED BY <1>7 DEF long

(* Taking the last call off takes off what it owns.                        *)
LEMMA CallPopped ==
    ASSUME NEW t \in Seq(Calls), t # <<>>, NEW o
    PROVE  /\ Cardinality(OwningCalls(Front(t), o)) \in Nat
           /\ Cardinality(OwningCalls(t, o))
                  = Cardinality(OwningCalls(Front(t), o)) + Bit(OwnedBy(Last(t), o))
  <1>1. Front(t) \in Seq(Calls) /\ Last(t) \in Calls /\ t = Append(Front(t), Last(t))
    BY FrontAndLast
  <1>2. /\ Cardinality(OwningCalls(Front(t), o)) \in Nat
        /\ Cardinality(OwningCalls(Append(Front(t), Last(t)), o))
              = Cardinality(OwningCalls(Front(t), o)) + Bit(OwnedBy(Last(t), o))
    BY <1>1, CallPushed
  <1> QED BY <1>1, <1>2

(***************************************************************************)
(* Counting in the locals and in the members: only one place changes.      *)
(***************************************************************************)
LocalRef(i, o) == local[i] = o /\ LocalOwns(i)
MemberRef(p, o) == member[p] = o /\ kind[p] = "obj" /\ MemberOwns(p)

(* When one local changes, its references change by what it held and       *)
(* holds.                                                                  *)
LEMMA LocalChanges ==
    ASSUME RefsAreFinite, NEW i \in Locals, NEW o,
           \A j \in Locals \ {i} : LocalRef(j, o) <=> LocalRef(j, o)'
    PROVE  /\ Cardinality(LocalRefs(o)) \in Nat /\ Cardinality(LocalRefs(o)') \in Nat
           /\ Cardinality(LocalRefs(o)') + Bit(LocalRef(i, o))
                 = Cardinality(LocalRefs(o)) + Bit(LocalRef(i, o)')
  <1> DEFINE P == LocalRefs(o)
             Q == LocalRefs(o)'
  <1>1. IsFiniteSet(P)
    BY DEF RefsAreFinite
  <1>2. P = {j \in Locals : LocalRef(j, o)} /\ Q = {j \in Locals : LocalRef(j, o)'}
    BY DEF LocalRefs, LocalRef
  <1>3. P \ {i} = Q \ {i} /\ (i \in P <=> LocalRef(i, o)) /\ (i \in Q <=> LocalRef(i, o)')
    BY <1>2
  <1> HIDE DEF P, Q
  <1>4. /\ Cardinality(P) \in Nat /\ Cardinality(Q) \in Nat
        /\ Cardinality(Q) + Bit(i \in P) = Cardinality(P) + Bit(i \in Q)
    BY <1>1, <1>3, SetsDiffer
  <1>5. Bit(i \in P) = Bit(LocalRef(i, o)) /\ Bit(i \in Q) = Bit(LocalRef(i, o)')
    BY <1>3 DEF Bit
  <1> QED BY <1>4, <1>5 DEF P, Q

(* When one object's member changes, the members' references change by     *)
(* what it held and holds.                                                 *)
LEMMA MemberChanges ==
    ASSUME RefsAreFinite, NEW p \in Addresses, NEW o,
           \A q \in Addresses \ {p} : MemberRef(q, o) <=> MemberRef(q, o)'
    PROVE  /\ Cardinality(MemberRefs(o)) \in Nat /\ Cardinality(MemberRefs(o)') \in Nat
           /\ Cardinality(MemberRefs(o)') + Bit(MemberRef(p, o))
                 = Cardinality(MemberRefs(o)) + Bit(MemberRef(p, o)')
  <1> DEFINE P == MemberRefs(o)
             Q == MemberRefs(o)'
  <1>1. IsFiniteSet(P)
    BY DEF RefsAreFinite
  <1>2. /\ P = {q \in Addresses : MemberRef(q, o)}
        /\ Q = {q \in Addresses : MemberRef(q, o)'}
    BY DEF MemberRefs, MemberRef
  <1>3. P \ {p} = Q \ {p} /\ (p \in P <=> MemberRef(p, o)) /\ (p \in Q <=> MemberRef(p, o)')
    BY <1>2
  <1> HIDE DEF P, Q
  <1>4. /\ Cardinality(P) \in Nat /\ Cardinality(Q) \in Nat
        /\ Cardinality(Q) + Bit(p \in P) = Cardinality(P) + Bit(p \in Q)
    BY <1>1, <1>3, SetsDiffer
  <1>5. Bit(p \in P) = Bit(MemberRef(p, o)) /\ Bit(p \in Q) = Bit(MemberRef(p, o)')
    BY <1>3 DEF Bit
  <1> QED BY <1>4, <1>5 DEF P, Q

(* When no local changes owner or value, nothing changes.                  *)
LEMMA LocalsKept ==
    ASSUME NEW o, \A i \in Locals : LocalRef(i, o) <=> LocalRef(i, o)'
    PROVE  LocalRefs(o)' = LocalRefs(o)
  BY DEF LocalRefs, LocalRef

(* The same of the members.                                                *)
LEMMA MembersKept ==
    ASSUME NEW o, \A p \in Addresses : MemberRef(p, o) <=> MemberRef(p, o)'
    PROVE  MemberRefs(o)' = MemberRefs(o)
  BY DEF MemberRefs, MemberRef

(***************************************************************************)
(* The store: what creating and reclaiming an object does to it.           *)
(***************************************************************************)
Composites == {o \in InUse : kind[o] = "obj"}

(* A multiple of s below another multiple of s is at least s below it.     *)
LEMMA NextMultiple ==
    ASSUME NEW m \in Nat, NEW s \in Nat, NEW c \in 0 .. m, c * s < m * s
    PROVE  c + 1 \in 0 .. m /\ (c + 1) * s = c * s + s
  <1>1. c # m
    OBVIOUS
  <1> QED BY <1>1

(* What the store's invariant says of its numbers and sets.                *)
LEMMA StoreNumbers ==
    ASSUME StoreInv
    PROVE  /\ ObjectSize \in Nat /\ ObjectSize > 0 /\ MemberMemory \in Nat
           /\ currentManagedMemory \in Nat /\ changedMemory \in BOOLEAN
           /\ IsFiniteSet(held) /\ Cardinality(held) \in Nat
           /\ IsFiniteSet(Composites) /\ Cardinality(Composites) \in Nat
           /\ currentManagedMemory = ObjectSize * Cardinality(held)
                                     + MemberMemory * Cardinality(Composites)
           /\ Slots \in SUBSET Addresses /\ held \in SUBSET Slots
           /\ InUse \in SUBSET Addresses
  <1>1. /\ ObjectSize \in Nat /\ ObjectSize > 0 /\ MemberMemory \in Nat
        /\ ArenaTypeOK
    BY ArenaAssumption, ObjectAssumption DEF StoreInv, StoreTypes, ListInv
  <1>2. IsFiniteSet(held) /\ Cardinality(held) \in Nat
    BY <1>1, HeldIsFinite
  <1>3. IsFiniteSet(Composites) /\ Cardinality(Composites) \in Nat
    <2>1. Composites \in SUBSET held
      BY DEF Composites, InUse
    <2>2. IsFiniteSet(Composites)
      BY <1>2, <2>1, FS_Subset
    <2> QED BY <2>2, FS_CardinalityType
  <1>4. currentManagedMemory = ObjectSize * Cardinality(held)
                               + MemberMemory * Cardinality(Composites)
    BY DEF StoreInv, MemoryMatchesObjects, Composites
  <1>5. Slots \in SUBSET Addresses
    <2>1. PICK c \in 0 .. MaxChunks : countObject = c * ChunkSize
      BY DEF StoreInv, StoreTypes
    <2>2. c \in Nat /\ MaxChunks \in Nat /\ ChunkSize \in Nat /\ c <= MaxChunks
      BY ArenaAssumption
    <2>3. PICK d \in Nat : MaxChunks = c + d
      BY <2>2
    <2>4. /\ c * ChunkSize \in Nat /\ d * ChunkSize \in Nat
          /\ (c + d) * ChunkSize = c * ChunkSize + d * ChunkSize
      BY <2>2, <2>3
    <2>5. countObject \in Nat /\ MaxChunks * ChunkSize \in Nat
          /\ countObject <= MaxChunks * ChunkSize
      BY <2>1, <2>3, <2>4
    <2> QED BY <2>5 DEF Slots, Addresses
  <1>6. held \in SUBSET Slots
    BY <1>1 DEF ArenaTypeOK
  <1> QED BY <1>1, <1>2, <1>3, <1>4, <1>5, <1>6 DEF ArenaTypeOK, InUse

(* A step that leaves the slots and members alone keeps the store.         *)
LEMMA StoreKept ==
    ASSUME StoreInv, Unmanaged
    PROVE  StoreInv' /\ InUse' = InUse
  <1>1. /\ UNCHANGED <<countObject, freeSlot, nextFree, isFree, held,
                       currentManagedMemory, changedMemory>>
        /\ UNCHANGED <<kind, member, pool>>
    BY DEF Unmanaged, allocVars, arenaVars
  <1>2. ListInv' /\ Slots' = Slots
    <2>1. ListInv /\ isFree' \in SUBSET Slots
      BY <1>1 DEF StoreInv, StoreTypes, ListInv, ArenaTypeOK
    <2>2. currentManagedMemory' \in Nat /\ changedMemory' \in BOOLEAN
      BY <1>1, StoreNumbers
    <2>3. ListInv'
      BY <1>1, <2>1, <2>2, SlotsUntouched
    <2> QED BY <1>1, <2>3 DEF Slots
  <1>3. InUse' = InUse
    BY <1>1 DEF InUse
  <1>4. StoreTypes' /\ PoolInv'
    BY <1>1, <1>2 DEF StoreInv, StoreTypes, PoolInv
  <1>5. MemoryMatchesObjects'
    BY <1>1, <1>3 DEF StoreInv, MemoryMatchesObjects
  <1> QED BY <1>1, <1>3, <1>4, <1>5 DEF StoreInv

(* A new object was not in use before, whether it comes from the pool or   *)
(* from the arena; the memory counter moves only if the VM is told.        *)
LEMMA FromPoolStore ==
    ASSUME StoreInv, NEW o, FromPool(o)
    PROVE  /\ ListInv' /\ PoolInv' /\ UNCHANGED countObject
           /\ o \in Addresses \ InUse /\ InUse' = InUse \cup {o}
           /\ UNCHANGED <<held, currentManagedMemory, changedMemory>>
  <1>1. /\ pool \in Seq(Addresses) /\ pool # <<>> /\ o = Last(pool) /\ pool' = Front(pool)
        /\ Len(pool) <= PoolSize /\ PoolSize \in Nat
    BY ObjectAssumption DEF StoreInv, PoolInv, FromPool
  <1>2. /\ Len(pool) \in Nat \ {0} /\ DOMAIN pool = 1 .. Len(pool)
        /\ pool' \in Seq(Addresses) /\ Len(pool') = Len(pool) - 1
        /\ o = pool[Len(pool)]
        /\ \A i \in 1 .. Len(pool) - 1 : pool'[i] = pool[i]
    BY <1>1, FrontAndLast, LenProperties
  <1>3. DOMAIN pool' = 1 .. Len(pool) - 1
    BY <1>2, LenProperties
  <1>4. o \in held \cap isFree
    BY <1>2 DEF StoreInv, PoolInv
  <1>5. o \in Addresses \ InUse
    BY <1>4, StoreNumbers DEF InUse
  <1>6. /\ UNCHANGED <<countObject, freeSlot, nextFree, held,
                       currentManagedMemory, changedMemory>>
        /\ isFree' = isFree \ {o}
    BY DEF FromPool
  <1>7. ListInv'
    <2>1. isFree' \in SUBSET Slots /\ ListInv
      BY <1>6 DEF StoreInv, StoreTypes, ListInv, ArenaTypeOK
    <2>2. currentManagedMemory' \in Nat /\ changedMemory' \in BOOLEAN
      BY <1>6, StoreNumbers
    <2> QED BY <1>6, <2>1, <2>2, SlotsUntouched
  <1>8. InUse' = InUse \cup {o}
    BY <1>4, <1>6 DEF InUse
  <1>9. \A i \in 1 .. Len(pool) - 1 : pool[i] \in held \cap isFree /\ pool[i] # o
    <2> SUFFICES ASSUME NEW i \in 1 .. Len(pool) - 1
                 PROVE  pool[i] \in held \cap isFree /\ pool[i] # o
      OBVIOUS
    <2> DEFINE l == Len(pool)
    <2>1. l \in Nat \ {0} /\ DOMAIN pool = 1 .. l /\ i \in 1 .. l - 1
      BY <1>2
    <2> HIDE DEF l
    <2>2. i \in DOMAIN pool /\ l \in DOMAIN pool /\ i # l
      BY <2>1
    <2> QED BY <1>2, <2>2 DEF StoreInv, PoolInv, l
  <1>10. \A m, n \in DOMAIN pool' : pool'[m] = pool'[n] => m = n
    <2>1. \A m \in DOMAIN pool' : m \in DOMAIN pool /\ pool'[m] = pool[m]
      BY <1>2, <1>3
    <2> QED BY <2>1 DEF StoreInv, PoolInv
  <1>11. \A n \in DOMAIN pool' : pool'[n] \in held' \cap isFree'
    BY <1>2, <1>3, <1>6, <1>9
  <1>12. Len(pool') <= PoolSize
    BY <1>1, <1>2
  <1> QED BY <1>2, <1>5, <1>6, <1>7, <1>8, <1>10, <1>11, <1>12 DEF PoolInv

(* The same of the arena, which charges for the slot and for the           *)
(* members.                                                                *)
LEMMA FromArenaStore ==
    ASSUME StoreInv, NEW k \in Kinds, NEW o, FromArena(k, o)
    PROVE  /\ ListInv' /\ PoolInv'
           /\ \E c \in 0 .. MaxChunks : countObject' = c * ChunkSize
           /\ o \in Addresses \ InUse /\ InUse' = InUse \cup {o}
           /\ o \notin held /\ held' = held \cup {o}
           /\ currentManagedMemory' = currentManagedMemory + ObjectSize + Extra(k)
           /\ changedMemory'
  <1>1. /\ TakeSlot(o) /\ held' = held \cup {o} /\ UNCHANGED pool
        /\ currentManagedMemory' = currentManagedMemory + ObjectSize + Extra(k)
        /\ changedMemory' = TRUE
    BY DEF FromArena, MemoryMoved
  <1>2. Extra(k) \in Nat
    BY StoreNumbers DEF Extra
  <1>3. currentManagedMemory' \in Nat /\ changedMemory' \in BOOLEAN
    BY <1>1, <1>2, StoreNumbers
  <1>4. ListInv /\ isFree \in SUBSET Slots /\ held \in SUBSET Slots
    BY DEF StoreInv, StoreTypes, ListInv, ArenaTypeOK
  <1>5. /\ ListInv'
        /\ o \in Slots' \ held /\ Slots \subseteq Slots'
        /\ Slots' \ isFree' = (Slots \ isFree) \cup {o}
    BY <1>1, <1>3, <1>4, TakeKeepsList
  <1>6. InUse' = InUse \cup {o} /\ o \notin InUse
    BY <1>1, <1>4, <1>5 DEF InUse
  <1>7. \E c \in 0 .. MaxChunks : countObject' = c * ChunkSize
    <2>1. PICK c \in 0 .. MaxChunks : countObject = c * ChunkSize
      BY DEF StoreInv, StoreTypes
    <2>2. CASE PopFreeSlot(o)
      BY <2>1, <2>2 DEF PopFreeSlot
    <2>3. CASE AddChunk(o)
      <3>1. MaxChunks \in Nat /\ ChunkSize \in Nat /\ c * ChunkSize < MaxChunks * ChunkSize
        BY <2>1, <2>3, ArenaAssumption DEF AddChunk
      <3>2. c + 1 \in 0 .. MaxChunks /\ (c + 1) * ChunkSize = c * ChunkSize + ChunkSize
        BY <3>1, NextMultiple
      <3>3. countObject' = c * ChunkSize + ChunkSize
        BY <2>1, <2>3 DEF AddChunk
      <3> QED BY <3>2, <3>3
    <2> QED BY <1>1, <2>2, <2>3 DEF TakeSlot
  <1>8. o \in Addresses
    <2>1. PICK c \in 0 .. MaxChunks : countObject' = c * ChunkSize
      BY <1>7
    <2>2. c \in Nat /\ MaxChunks \in Nat /\ ChunkSize \in Nat
      BY ArenaAssumption
    <2>3. PICK d \in Nat : MaxChunks = c + d
      BY <2>2
    <2>4. /\ c * ChunkSize \in Nat /\ d * ChunkSize \in Nat
          /\ (c + d) * ChunkSize = c * ChunkSize + d * ChunkSize
      BY <2>2, <2>3
    <2>5. MaxChunks * ChunkSize \in Nat /\ countObject' \in Nat
          /\ countObject' <= MaxChunks * ChunkSize
      BY <2>1, <2>3, <2>4
    <2>6. o \in Nat /\ o < countObject'
      BY <1>5, <2>5 DEF Slots
    <2> DEFINE m == MaxChunks * ChunkSize
    <2>7. o \in 0 .. m - 1
      <3>1. m \in Nat /\ o < m /\ o \in Nat
        BY <2>5, <2>6
      <3> HIDE DEF m
      <3> QED BY <3>1
    <2> QED BY <2>7 DEF Addresses
  <1>9. PoolInv'
    <2>1. \A n \in DOMAIN pool : pool[n] \in held' \cap isFree'
      <3> SUFFICES ASSUME NEW n \in DOMAIN pool PROVE pool[n] \in held' \cap isFree'
        OBVIOUS
      <3>1. pool[n] \in held \cap isFree
        BY DEF StoreInv, PoolInv
      <3>2. pool[n] \in Slots' /\ pool[n] \notin (Slots \ isFree) \cup {o}
        BY <1>4, <1>5, <3>1
      <3>3. pool[n] \in isFree'
        BY <1>5, <3>2
      <3> QED BY <1>1, <3>1, <3>3
    <2> QED BY <1>1, <2>1 DEF StoreInv, PoolInv
  <1> QED BY <1>1, <1>5, <1>6, <1>7, <1>8, <1>9

(* Creating an object keeps the store's invariant.                         *)
LEMMA NewStore ==
    ASSUME StoreInv, NEW k \in Kinds, NEW o, NEW m \in Values, k = "int" => m = Null,
           New(k, o, m)
    PROVE  /\ StoreInv'
           /\ o \in Addresses \ InUse /\ InUse' = InUse \cup {o}
           /\ kind' = [kind EXCEPT ![o] = k] /\ member' = [member EXCEPT ![o] = m]
           /\ ~changedMemory' => UNCHANGED <<currentManagedMemory, changedMemory>>
  <1> DEFINE h == Cardinality(held)
             b == Cardinality(Composites)
  <1>1. kind' = [kind EXCEPT ![o] = k] /\ member' = [member EXCEPT ![o] = m]
    BY DEF New
  <1>2. /\ ListInv' /\ PoolInv'
        /\ \E c \in 0 .. MaxChunks : countObject' = c * ChunkSize
        /\ o \in Addresses \ InUse /\ InUse' = InUse \cup {o}
        /\ ~changedMemory' => UNCHANGED <<currentManagedMemory, changedMemory>>
        /\ \/ /\ k = "int" /\ UNCHANGED <<held, currentManagedMemory>>
           \/ /\ o \notin held /\ held' = held \cup {o}
              /\ currentManagedMemory' = currentManagedMemory + ObjectSize + Extra(k)
    <2>1. CASE k = "int" /\ pool # <<>>
      <3>1. FromPool(o)
        BY <2>1 DEF New
      <3>2. /\ ListInv' /\ PoolInv' /\ UNCHANGED countObject
            /\ o \in Addresses \ InUse /\ InUse' = InUse \cup {o}
            /\ UNCHANGED <<held, currentManagedMemory, changedMemory>>
        BY <3>1, FromPoolStore
      <3>3. \E c \in 0 .. MaxChunks : countObject' = c * ChunkSize
        BY <3>2 DEF StoreInv, StoreTypes
      <3> QED BY <2>1, <3>2, <3>3
    <2>2. CASE ~(k = "int" /\ pool # <<>>)
      <3>1. FromArena(k, o)
        BY <2>2 DEF New
      <3> QED BY <3>1, FromArenaStore
    <2> QED BY <2>1, <2>2
  <1>3. kind \in [Addresses -> Kinds] /\ member \in [Addresses -> Values]
    BY DEF StoreInv, StoreTypes
  <1>4. StoreTypes'
    BY <1>1, <1>2, <1>3 DEF StoreTypes
  <1>5. \A p \in Addresses : kind'[p] = (IF p = o THEN k ELSE kind[p])
                             /\ member'[p] = (IF p = o THEN m ELSE member[p])
    BY <1>1, <1>3
  <1>6. /\ \A p \in Addresses \ InUse' : kind'[p] = "int"
        /\ \A p \in Addresses : kind'[p] = "int" => member'[p] = Null
    BY <1>2, <1>5 DEF StoreInv
  <1>7. Cardinality(Composites') = b + Bit(k = "obj")
    <2>1. o \notin Composites
      BY <1>2 DEF Composites
    <2>2. CASE k = "obj"
      <3>1. Composites' = Composites \cup {o}
        BY <1>2, <1>5, <2>2, StoreNumbers DEF Composites
      <3> QED BY <2>1, <2>2, <3>1, StoreNumbers, AddOne DEF Bit
    <2>3. CASE k # "obj"
      <3>1. Composites' = Composites
        BY <1>2, <1>5, <2>3, StoreNumbers DEF Composites
      <3> QED BY <2>3, <3>1, StoreNumbers DEF Bit
    <2> QED BY <2>2, <2>3
  <1>8. /\ h \in Nat /\ b \in Nat /\ ObjectSize \in Nat /\ MemberMemory \in Nat
        /\ currentManagedMemory = ObjectSize * h + MemberMemory * b
        /\ IsFiniteSet(held)
    BY StoreNumbers
  <1>9. MemoryMatchesObjects'
    <2>0. MemoryMatchesObjects' <=>
             currentManagedMemory' = ObjectSize * Cardinality(held')
                                     + MemberMemory * Cardinality(Composites')
      BY DEF MemoryMatchesObjects, Composites
    <2>1. CASE k = "int" /\ UNCHANGED <<held, currentManagedMemory>>
      <3>1. Cardinality(Composites') = b /\ Cardinality(held') = h
        BY <1>7, <1>8, <2>1 DEF Bit
      <3> HIDE DEF h, b
      <3> QED BY <1>8, <2>0, <2>1, <3>1
    <2>2. CASE /\ o \notin held /\ held' = held \cup {o}
               /\ currentManagedMemory' = currentManagedMemory + ObjectSize + Extra(k)
      <3>1. Cardinality(held') = h + 1
        BY <1>8, <2>2, AddOne
      <3> HIDE DEF h, b
      <3>2. ObjectSize * (h + 1) = ObjectSize * h + ObjectSize
        BY <1>8
      <3>3. MemberMemory * (b + Bit(k = "obj")) = MemberMemory * b + Extra(k)
        BY <1>8 DEF Bit, Extra
      <3>4. /\ ObjectSize * h \in Nat /\ MemberMemory * b \in Nat /\ Extra(k) \in Nat
        BY <1>8 DEF Extra
      <3>5. /\ ObjectSize * Cardinality(held') = ObjectSize * h + ObjectSize
            /\ MemberMemory * Cardinality(Composites') = MemberMemory * b + Extra(k)
        BY <1>7, <3>1, <3>2, <3>3
      <3>6. currentManagedMemory' = ObjectSize * h + MemberMemory * b + ObjectSize + Extra(k)
        BY <1>8, <2>2
      <3> QED BY <1>8, <2>0, <3>4, <3>5, <3>6
    <2> QED BY <1>2, <2>1, <2>2
  <1> QED BY <1>1, <1>2, <1>4, <1>6, <1>9 DEF StoreInv

(* Reclaiming an object in use gives back exactly what it was charged: no  *)
(* subtraction saturates.                                                  *)
LEMMA ReclaimStore ==
    ASSUME StoreInv, NEW o \in InUse, Reclaim(o)
    PROVE  /\ StoreInv' /\ InUse' = InUse \ {o}
           /\ kind' = [kind EXCEPT ![o] = "int"] /\ member' = [member EXCEPT ![o] = Null]
           /\ ~changedMemory' => UNCHANGED <<currentManagedMemory, changedMemory>>
  <1> DEFINE h == Cardinality(held)
             b == Cardinality(Composites)
             e == Extra(kind[o])
  <1>1. /\ kind' = [kind EXCEPT ![o] = "int"] /\ member' = [member EXCEPT ![o] = Null]
        /\ isFree' = isFree \cup {o} /\ UNCHANGED countObject
    BY DEF Reclaim
  <1>2. /\ o \in Addresses /\ o \in held /\ o \in Slots /\ o \notin isFree
        /\ isFree \in SUBSET Slots /\ ListInv
        /\ kind \in [Addresses -> Kinds] /\ member \in [Addresses -> Values]
    BY StoreNumbers DEF InUse, StoreInv, StoreTypes, ListInv, ArenaTypeOK
  <1>3. /\ h \in Nat /\ b \in Nat /\ ObjectSize \in Nat /\ MemberMemory \in Nat
        /\ currentManagedMemory = ObjectSize * h + MemberMemory * b
        /\ IsFiniteSet(held) /\ IsFiniteSet(Composites) /\ currentManagedMemory \in Nat
        /\ changedMemory \in BOOLEAN
    BY StoreNumbers
  <1>4. \A p \in Addresses : kind'[p] = (IF p = o THEN "int" ELSE kind[p])
                             /\ member'[p] = (IF p = o THEN Null ELSE member[p])
    BY <1>1, <1>2
  <1>5. h > 0 /\ Cardinality(held \ {o}) = h - 1
    BY <1>2, <1>3, TakeOne
  <1>6. Cardinality(Composites \ {o}) \in Nat
        /\ b = Cardinality(Composites \ {o}) + Bit(kind[o] = "obj")
    <2>1. o \in Composites <=> kind[o] = "obj"
      BY DEF Composites
    <2>2. CASE kind[o] = "obj"
      BY <1>3, <2>1, <2>2, TakeOne DEF Bit
    <2>3. CASE kind[o] # "obj"
      <3>1. Composites \ {o} = Composites
        BY <2>1, <2>3
      <3>2. Bit(kind[o] = "obj") = 0
        BY <2>3 DEF Bit
      <3>3. b \in Nat /\ Cardinality(Composites \ {o}) = b
        BY <1>3, <3>1
      <3> HIDE DEF b
      <3> QED BY <3>2, <3>3
    <2> QED BY <2>2, <2>3
  <1>7. /\ ListInv' /\ PoolInv' /\ InUse' = InUse \ {o}
        /\ ~changedMemory' => UNCHANGED <<currentManagedMemory, changedMemory>>
        /\ \/ /\ kind[o] = "int" /\ UNCHANGED <<held, currentManagedMemory>>
           \/ /\ held' = held \ {o}
              /\ currentManagedMemory'
                     = Minus(Minus(currentManagedMemory, Extra(kind[o])), ObjectSize)
    <2>1. CASE kind[o] = "int" /\ PoolHasRoom
      <3>1. /\ pool' = Append(pool, o) /\ UNCHANGED held
            /\ UNCHANGED <<freeSlot, nextFree, currentManagedMemory, changedMemory>>
        BY <2>1 DEF Reclaim, ToPool
      <3>2. ListInv'
        <4>1. isFree' \in SUBSET Slots
          BY <1>1, <1>2
        <4>2. currentManagedMemory' \in Nat /\ changedMemory' \in BOOLEAN
          BY <1>3, <3>1
        <4> QED BY <1>1, <1>2, <3>1, <4>1, <4>2, SlotsUntouched
      <3>3. PoolInv'
        <4>1. /\ pool \in Seq(Addresses) /\ Len(pool) <= PoolSize /\ Len(pool) # PoolSize
              /\ PoolSize \in Nat
          BY <2>1, ObjectAssumption DEF StoreInv, PoolInv, PoolHasRoom
        <4>2. /\ Len(pool) \in Nat /\ DOMAIN pool = 1 .. Len(pool)
              /\ pool' \in Seq(Addresses) /\ Len(pool') = Len(pool) + 1
              /\ pool'[Len(pool) + 1] = o
              /\ \A i \in 1 .. Len(pool) : pool'[i] = pool[i]
          BY <1>2, <3>1, <4>1, AppendProperties, LenProperties
        <4>3. DOMAIN pool' = 1 .. Len(pool) + 1
          BY <4>2, LenProperties
        <4>4. \A i \in 1 .. Len(pool) : pool[i] \in held \cap isFree
          BY <4>2 DEF StoreInv, PoolInv
        <4>5. \A i \in DOMAIN pool' : i = Len(pool) + 1 \/ i \in 1 .. Len(pool)
          BY <4>2, <4>3
        <4>6. \A n \in DOMAIN pool' : pool'[n] \in held' \cap isFree'
          BY <1>1, <1>2, <3>1, <4>2, <4>4, <4>5
        <4>7. ASSUME NEW m \in DOMAIN pool', NEW n \in DOMAIN pool', pool'[m] = pool'[n]
              PROVE  m = n
          <5>1. CASE m \in 1 .. Len(pool) /\ n \in 1 .. Len(pool)
            BY <4>2, <4>7, <5>1 DEF StoreInv, PoolInv
          <5>2. CASE ~(m \in 1 .. Len(pool) /\ n \in 1 .. Len(pool))
            BY <1>2, <4>2, <4>4, <4>5, <4>7, <5>2
          <5> QED BY <5>1, <5>2
        <4>8. Len(pool') <= PoolSize
          <5> DEFINE l == Len(pool)
          <5>1. l \in Nat /\ l <= PoolSize /\ l # PoolSize /\ PoolSize \in Nat
                /\ Len(pool') = l + 1
            BY <4>1, <4>2
          <5> HIDE DEF l
          <5> QED BY <5>1
        <4> QED BY <4>2, <4>6, <4>7, <4>8 DEF PoolInv
      <3>4. InUse' = InUse \ {o}
        BY <1>1, <3>1 DEF InUse
      <3> QED BY <2>1, <3>1, <3>2, <3>3, <3>4
    <2>2. CASE ~(kind[o] = "int" /\ PoolHasRoom)
      <3>1. /\ PutSlot(o, MemoryAfterFree(o)) /\ held' = held \ {o} /\ UNCHANGED pool
        BY <2>2 DEF Reclaim, ToArena
      <3>2. MemoryAfterFree(o) \in Nat
        BY <1>3 DEF MemoryAfterFree, Minus, Extra
      <3>3. /\ ListInv' /\ changedMemory' = TRUE
            /\ currentManagedMemory' = Minus(MemoryAfterFree(o), ObjectSize)
        BY <1>1, <1>2, <3>1, <3>2, PutSlotKeepsList
      <3>4. InUse' = InUse \ {o}
        BY <1>1, <3>1 DEF InUse
      <3>5. PoolInv'
        BY <1>1, <1>2, <3>1 DEF StoreInv, PoolInv
      <3> QED BY <3>1, <3>3, <3>4, <3>5 DEF MemoryAfterFree
    <2> QED BY <2>1, <2>2
  <1>8. StoreTypes'
    BY <1>1, <1>2, <1>7 DEF StoreTypes, StoreInv, Values, Kinds
  <1>9. /\ \A p \in Addresses \ InUse' : kind'[p] = "int"
        /\ \A p \in Addresses : kind'[p] = "int" => member'[p] = Null
    BY <1>4, <1>7 DEF StoreInv
  <1>10. Composites' = Composites \ {o}
    BY <1>4, <1>7, StoreNumbers DEF Composites
  <1>11. MemoryMatchesObjects'
    <2> DEFINE c == Cardinality(Composites \ {o})
    <2>0. MemoryMatchesObjects' <=>
             currentManagedMemory' = ObjectSize * Cardinality(held') + MemberMemory * c
      BY <1>10 DEF MemoryMatchesObjects, Composites
    <2>1. CASE kind[o] = "int" /\ UNCHANGED <<held, currentManagedMemory>>
      <3>1. c = b /\ Cardinality(held') = h
        BY <1>3, <1>6, <2>1 DEF Bit
      <3> HIDE DEF h, b, c
      <3> QED BY <1>3, <2>0, <2>1, <3>1
    <2>2. CASE /\ held' = held \ {o}
               /\ currentManagedMemory'
                      = Minus(Minus(currentManagedMemory, Extra(kind[o])), ObjectSize)
      <3>1. Cardinality(held') = h - 1
        BY <1>5, <2>2
      <3>2. c \in Nat /\ b = c + Bit(kind[o] = "obj")
        BY <1>6
      <3> HIDE DEF h, b, c
      <3>3. PICK g \in Nat : h = g + 1
        BY <1>3, <1>5
      <3>4. /\ ObjectSize * h = ObjectSize * g + ObjectSize /\ ObjectSize * g \in Nat
        BY <1>3, <3>3
      <3>5. /\ MemberMemory * b = MemberMemory * c + Extra(kind[o])
            /\ MemberMemory * c \in Nat /\ Extra(kind[o]) \in Nat
        BY <1>3, <3>2 DEF Bit, Extra
      <3>6. Minus(Minus(currentManagedMemory, Extra(kind[o])), ObjectSize)
               = ObjectSize * g + MemberMemory * c
        BY <1>3, <3>4, <3>5 DEF Minus
      <3>7. Cardinality(held') = g
        BY <3>1, <3>3
      <3> QED BY <2>0, <2>2, <3>6, <3>7
    <2> QED BY <1>7, <2>1, <2>2
  <1> QED BY <1>1, <1>7, <1>8, <1>9, <1>11 DEF StoreInv

(***************************************************************************)
(* The count of an object, part by part.                                   *)
(***************************************************************************)
InLocals(o) == Cardinality(LocalRefs(o))
OnStack(o) == Cardinality(StackRefs(o))
InMembers(o) == Cardinality(MemberRefs(o))
InCalls(o) == Cardinality(CallRefs(o))

(* Each part of the sum of references is a number.                         *)
LEMMA PartsAreNumbers ==
    FrameTypes =>
        \A o : /\ InLocals(o) \in Nat /\ OnStack(o) \in Nat
               /\ InMembers(o) \in Nat /\ InCalls(o) \in Nat
  BY FiniteRefs, RefNumbers DEF InLocals, OnStack, InMembers, InCalls

(* The same after a step.                                                  *)
LEMMA PartsAreNumbersNext ==
    FrameTypes' =>
        \A o : /\ InLocals(o)' \in Nat /\ OnStack(o)' \in Nat
               /\ InMembers(o)' \in Nat /\ InCalls(o)' \in Nat
  BY FiniteRefsNext, FS_CardinalityType
  DEF RefsAreFinite, InLocals, OnStack, InMembers, InCalls

(* References is their sum.                                                *)
LEMMA SumOfParts ==
    \A o : References(o) = InLocals(o) + OnStack(o) + InMembers(o) + InCalls(o)
                           + Bit(exception = o)
  BY DEF References, InLocals, OnStack, InMembers, InCalls, Bit

(* The same after a step.                                                  *)
LEMMA SumOfPartsNext ==
    \A o : References(o)' = InLocals(o)' + OnStack(o)' + InMembers(o)' + InCalls(o)'
                            + Bit(exception' = o)
  BY DEF References, InLocals, OnStack, InMembers, InCalls, Bit

(* The exactness of the counts, from what each part gained and lost.       *)
LEMMA CountsFollow ==
    ASSUME FlowInv, FrameTypes',
           \A o \in Addresses :
              refCount'[o] + InLocals(o) + OnStack(o) + InMembers(o) + InCalls(o)
                  + Bit(exception = o) + forgotten[o]
              = refCount[o] + InLocals(o)' + OnStack(o)' + InMembers(o)' + InCalls(o)'
                  + Bit(exception' = o) + forgotten'[o]
    PROVE  CountInv'
  <1> SUFFICES ASSUME NEW o \in Addresses
               PROVE  refCount'[o] = References(o)' + forgotten'[o]
    BY DEF CountInv
  <1> DEFINE l == InLocals(o)  s == OnStack(o)  m == InMembers(o)  c == InCalls(o)
             ln == InLocals(o)'  sn == OnStack(o)'  mn == InMembers(o)'  cn == InCalls(o)'
             e == Bit(exception = o)  en == Bit(exception' = o)
             r == refCount[o]  rn == refCount'[o]  f == forgotten[o]  fn == forgotten'[o]
  <1>1. /\ l \in Nat /\ s \in Nat /\ m \in Nat /\ c \in Nat
        /\ ln \in Nat /\ sn \in Nat /\ mn \in Nat /\ cn \in Nat
    BY PartsAreNumbers, PartsAreNumbersNext DEF FlowInv
  <1>2. /\ e \in Nat /\ en \in Nat /\ r \in Nat /\ rn \in Nat /\ f \in Nat /\ fn \in Nat
    BY DEF FlowInv, FrameTypes, Bit
  <1>3. r = l + s + m + c + e + f
    BY SumOfParts DEF FlowInv, CountInv
  <1>4. rn + l + s + m + c + e + f = r + ln + sn + mn + cn + en + fn
    OBVIOUS
  <1>5. References(o)' = ln + sn + mn + cn + en
    BY SumOfPartsNext
  <1> HIDE DEF l, s, m, c, ln, sn, mn, cn, e, en, r, rn, f, fn
  <1>6. rn = ln + sn + mn + cn + en + fn
    BY <1>1, <1>2, <1>3, <1>4
  <1>7. References(o)' + fn = ln + sn + mn + cn + en + fn
    BY <1>1, <1>2, <1>5
  <1> QED BY <1>6, <1>7 DEF rn, fn

(* What the operands' count becomes.                                       *)
LEMMA StackPushed ==
    ASSUME FrameTypes, NEW v \in Objects, stack' = Append(stack, v)
    PROVE  /\ stack' \in Seq(Objects) /\ stack' # <<>>
           /\ \A o : OnStack(o)' = OnStack(o) + Bit(v = o)
  <1>1. stack \in Seq(Objects)
    BY DEF FrameTypes
  <1>2. stack' \in Seq(Objects) /\ stack' # <<>>
    <2>1. /\ stack' \in Seq(Objects) /\ Len(stack') = Len(stack) + 1 /\ Len(stack) \in Nat
      BY <1>1, AppendProperties, LenProperties
    <2> QED BY <2>1, EmptySeq
  <1>3. \A o : StackRefs(o)' = ValueRefs(stack', o) /\ StackRefs(o) = ValueRefs(stack, o)
    BY DEF StackRefs, ValueRefs
  <1>4. \A o : Cardinality(ValueRefs(Append(stack, v), o))
                  = Cardinality(ValueRefs(stack, o)) + Bit(v = o)
    BY <1>1, ValuePushed
  <1> QED BY <1>2, <1>3, <1>4 DEF OnStack

(* Popping an operand gives up one reference.                              *)
LEMMA StackPopped ==
    ASSUME FrameTypes, stack # <<>>, stack' = Below
    PROVE  /\ stack' \in Seq(Objects) /\ Top \in Objects
           /\ \A o : OnStack(o)' \in Nat /\ OnStack(o) = OnStack(o)' + Bit(Top = o)
  <1>1. stack \in Seq(Objects)
    BY DEF FrameTypes
  <1>2. stack' \in Seq(Objects) /\ Top \in Objects
    BY <1>1, FrontAndLast DEF Top, Below
  <1>3. \A o : StackRefs(o)' = ValueRefs(stack', o) /\ StackRefs(o) = ValueRefs(stack, o)
    BY DEF StackRefs, ValueRefs
  <1>4. \A o : /\ Cardinality(ValueRefs(Front(stack), o)) \in Nat
               /\ Cardinality(ValueRefs(stack, o))
                  = Cardinality(ValueRefs(Front(stack), o)) + Bit(Last(stack) = o)
    BY <1>1, ValuePopped
  <1> QED BY <1>2, <1>3, <1>4 DEF OnStack, Top, Below

(* CLONE and LOAD_MEMBER put a value in the place of the top.              *)
LEMMA TopReplaced ==
    ASSUME FrameTypes, stack # <<>>, NEW v \in Objects, stack' = Append(Below, v)
    PROVE  /\ stack' \in Seq(Objects) /\ Top \in Objects
           /\ \A o : OnStack(o)' + Bit(Top = o) = OnStack(o) + Bit(v = o)
  <1>1. stack \in Seq(Objects)
    BY DEF FrameTypes
  <1>2. Below \in Seq(Objects) /\ Top \in Objects
    BY <1>1, FrontAndLast DEF Top, Below
  <1>3. stack' \in Seq(Objects)
    BY <1>2, AppendProperties
  <1>4. \A o : StackRefs(o)' = ValueRefs(stack', o) /\ StackRefs(o) = ValueRefs(stack, o)
    BY DEF StackRefs, ValueRefs
  <1>5. ASSUME NEW o
        PROVE  OnStack(o)' + Bit(Top = o) = OnStack(o) + Bit(v = o)
    <2> DEFINE c == Cardinality(ValueRefs(Below, o))
               a == Bit(Top = o)
               b == Bit(v = o)
    <2>1. c \in Nat /\ OnStack(o) = c + a
      BY <1>1, <1>4, ValuePopped DEF OnStack, Top, Below
    <2>2. OnStack(o)' = c + b
      BY <1>2, <1>4, ValuePushed DEF OnStack
    <2>3. a \in Nat /\ b \in Nat
      BY DEF Bit
    <2> HIDE DEF a, b, c
    <2>4. OnStack(o)' + a = OnStack(o) + b
      BY <2>1, <2>2, <2>3
    <2> QED BY <2>4 DEF a, b
  <1> QED BY <1>2, <1>3, <1>5

(***************************************************************************)
(* The calls an opcode leaves to do, from none.                            *)
(***************************************************************************)
LEMMA NoCalls == todo = <<>> => DOMAIN todo = {} /\ \A o : InCalls(o) = 0
  BY OwningNone, CallRefsOf DEF InCalls

(* The same after a step.                                                  *)
LEMMA NoCallsNext == todo' = <<>> => DOMAIN todo' = {} /\ \A o : InCalls(o)' = 0
  <1> SUFFICES ASSUME todo' = <<>> PROVE DOMAIN todo' = {} /\ \A o : InCalls(o)' = 0
    OBVIOUS
  <1>1. \A o : CallRefs(o)' = {}
    BY DEF CallRefs
  <1> QED BY <1>1, FS_EmptySet DEF InCalls

(* A single pending call owns what it releases and nothing else.           *)
LEMMA OneCall ==
    ASSUME NEW a \in Calls, todo' = <<a>>
    PROVE  /\ todo' \in Seq(Calls) /\ Len(todo') = 1 /\ DOMAIN todo' = {1} /\ todo'[1] = a
           /\ \A o : InCalls(o)' = Bit(OwnedBy(a, o))
  <1>1. <<>> \in Seq(Calls) /\ todo' = Append(<<>>, a)
    BY EmptySeq
  <1>2. \A o : CallRefs(o)' = OwningCalls(todo', o)
    BY DEF CallRefs, OwningCalls, OwnedBy
  <1>3. ASSUME NEW o PROVE InCalls(o)' = Bit(OwnedBy(a, o))
    <2>1. Cardinality(OwningCalls(Append(<<>>, a), o)) = 0 + Bit(OwnedBy(a, o))
      BY <1>1, CallPushed, OwningNone
    <2>2. 0 + Bit(OwnedBy(a, o)) = Bit(OwnedBy(a, o))
      BY DEF Bit
    <2> QED BY <1>1, <1>2, <2>1, <2>2 DEF InCalls
  <1> QED BY <1>3

(* Two pending calls own what each of them releases.                       *)
LEMMA TwoCalls ==
    ASSUME NEW a \in Calls, NEW b \in Calls, todo' = <<a, b>>
    PROVE  /\ todo' \in Seq(Calls) /\ Len(todo') = 2 /\ DOMAIN todo' = {1, 2}
           /\ todo'[1] = a /\ todo'[2] = b
           /\ \A o : InCalls(o)' = Bit(OwnedBy(a, o)) + Bit(OwnedBy(b, o))
  <1>0. <<>> \in Seq(Calls)
    BY EmptySeq
  <1>1. <<>> \in Seq(Calls) /\ <<a>> \in Seq(Calls) /\ <<a>> = Append(<<>>, a)
    BY EmptySeq
  <1>2. todo' = Append(<<a>>, b)
    <2>1. <<>> \o <<a, b>> = Append(Append(<<>>, a), b)
      BY <1>1, ConcatTwo
    <2>2. <<a, b>> \in Seq(Calls)
      OBVIOUS
    <2>3. <<>> \o <<a, b>> = <<a, b>>
      BY <2>2, ConcatEmptySeq
    <2> QED BY <1>1, <2>1, <2>3
  <1>3. \A o : CallRefs(o)' = OwningCalls(todo', o)
    BY DEF CallRefs, OwningCalls, OwnedBy
  <1>4. ASSUME NEW o PROVE InCalls(o)' = Bit(OwnedBy(a, o)) + Bit(OwnedBy(b, o))
    <2>1. Cardinality(OwningCalls(<<a>>, o)) = 0 + Bit(OwnedBy(a, o))
      <3>1. Cardinality(OwningCalls(Append(<<>>, a), o)) = 0 + Bit(OwnedBy(a, o))
        BY <1>0, CallPushed, OwningNone
      <3> QED BY <1>1, <3>1
    <2>2. Cardinality(OwningCalls(Append(<<a>>, b), o))
             = Cardinality(OwningCalls(<<a>>, o)) + Bit(OwnedBy(b, o))
      BY <1>1, CallPushed
    <2>3. 0 + Bit(OwnedBy(a, o)) = Bit(OwnedBy(a, o))
      BY DEF Bit
    <2> QED BY <1>2, <1>3, <2>1, <2>2, <2>3 DEF InCalls
  <1>5. DOMAIN todo' = {1, 2}
    <2>1. DOMAIN <<a, b>> = 1 .. 2 /\ 1 .. 2 = {1, 2}
      OBVIOUS
    <2> QED BY <2>1
  <1> QED BY <1>4, <1>5

(***************************************************************************)
(* While no call that is about to overwrite or reclaim something is        *)
(* pending, every local and every object in use owns what it holds.        *)
(***************************************************************************)
Plain == \A n \in DOMAIN todo : todo[n].op \notin Replacing \cup {"reclaim"}

(* When no call replaces anything, locals own what they hold and members   *)
(* of objects in use too.                                                  *)
LEMMA PlainOwns ==
    Plain => /\ \A i : LocalOwns(i)
             /\ \A p : MemberOwns(p) <=> p \in InUse
             /\ \A o : ~Dying(o)
  BY DEF Plain, LocalOwns, MemberOwns, Dying, PendingAt, PendingOn, Replacing

(* The same after a step.                                                  *)
LEMMA PlainOwnsNext ==
    Plain' => /\ \A i : LocalOwns(i)'
              /\ \A p : MemberOwns(p)' <=> p \in InUse'
              /\ \A o : ~Dying(o)'
  BY DEF Plain, LocalOwns, MemberOwns, Dying, PendingAt, PendingOn, Replacing

(* Between opcodes every object in use has a count.                        *)
LEMMA AtRest ==
    ASSUME FlowInv, todo = <<>>
    PROVE  /\ Plain
           /\ \A o \in InUse : refCount[o] > 0 /\ refCount[o] \in Nat
           /\ \A o \in Addresses \ InUse : refCount[o] = 0
           /\ \A o : InCalls(o) = 0
  <1>1. DOMAIN todo = {}
    BY NoCalls
  <1>2. Plain
    BY <1>1 DEF Plain
  <1>3. \A o \in InUse : refCount[o] \in Nat /\ refCount[o] # 0
    <2>1. \A o \in InUse : o \in Addresses
      BY StoreNumbers DEF FlowInv
    <2> QED BY <1>1, <2>1 DEF FlowInv, LiveInv, Dying, PendingOn, FrameTypes
  <1> QED BY <1>2, <1>3, NoCalls DEF FlowInv, IdleInv

(***************************************************************************)
(* An opcode creates at most one object, N, and leaves every other alone.  *)
(***************************************************************************)
StoreStep(N) ==
    /\ StoreInv'
    /\ N \in SUBSET (Addresses \ InUse) /\ InUse' = InUse \cup N
    /\ \A p \in Addresses \ N : kind'[p] = kind[p] /\ member'[p] = member[p]
    /\ \A p \in N : member'[p] \notin Addresses
    /\ phase' = "run" /\ ~changedMemory' => currentManagedMemory' <= MaxMemory

(* An opcode that leaves the slots alone keeps the store and what is in    *)
(* use.                                                                    *)
LEMMA UnmanagedStep ==
    ASSUME FlowInv, Unmanaged, phase' = "run" => phase = "run"
    PROVE  StoreStep({}) /\ InUse' = InUse
  <1>1. StoreInv' /\ InUse' = InUse
    BY StoreKept DEF FlowInv
  <1>2. UNCHANGED <<kind, member, changedMemory, currentManagedMemory>>
    BY DEF Unmanaged, allocVars, arenaVars
  <1> QED BY <1>1, <1>2 DEF StoreStep, FlowInv, LimitInv

(* An opcode that creates keeps the store and adds one object to those     *)
(* in use.                                                                 *)
LEMMA NewStep ==
    ASSUME FlowInv, NEW k \in Kinds, NEW o, NEW m \in {Null, Const}, k = "int" => m = Null,
           New(k, o, m), phase' = "run" => phase = "run"
    PROVE  /\ StoreStep({o}) /\ InUse' = InUse \cup {o}
           /\ o \in Addresses \ InUse /\ o \in Objects /\ o \in Values
  <1>1. m \in Values /\ m \notin Addresses
    BY AddressesAreFinite DEF Values, Objects
  <1>2. /\ StoreInv'
        /\ o \in Addresses \ InUse /\ InUse' = InUse \cup {o}
        /\ kind' = [kind EXCEPT ![o] = k] /\ member' = [member EXCEPT ![o] = m]
        /\ ~changedMemory' => UNCHANGED <<currentManagedMemory, changedMemory>>
    BY <1>1, NewStore DEF FlowInv
  <1>3. kind \in [Addresses -> Kinds] /\ member \in [Addresses -> Values]
    BY DEF FlowInv, StoreInv, StoreTypes
  <1>4. \A p \in Addresses : kind'[p] = (IF p = o THEN k ELSE kind[p])
                             /\ member'[p] = (IF p = o THEN m ELSE member[p])
    BY <1>2, <1>3
  <1>5. phase' = "run" /\ ~changedMemory' => currentManagedMemory' <= MaxMemory
    BY <1>2 DEF FlowInv, LimitInv
  <1>6. \A p \in Addresses \ {o} : kind'[p] = kind[p] /\ member'[p] = member[p]
    BY <1>4
  <1>7. member'[o] \notin Addresses
    BY <1>1, <1>2, <1>4
  <1> QED BY <1>2, <1>5, <1>6, <1>7 DEF StoreStep, Objects, Values

(* Retaining a value counts it once more.                                  *)
LEMMA RetainedCounts ==
    ASSUME FrameTypes, NEW v, refCount' = Retained(v, refCount)
    PROVE  /\ refCount' \in [Addresses -> Nat]
           /\ \A o \in Addresses : refCount'[o] = refCount[o] + Bit(v = o)
  <1>1. refCount \in [Addresses -> Nat]
    BY DEF FrameTypes
  <1>2. CASE v \in Addresses
    <2>1. refCount' = [refCount EXCEPT ![v] = @ + 1]
      BY <1>2 DEF Retained, Counted
    <2>2. refCount[v] + 1 \in Nat
      BY <1>1, <1>2
    <2>3. refCount' \in [Addresses -> Nat]
      BY <1>1, <2>1, <2>2
    <2>4. ASSUME NEW o \in Addresses PROVE refCount'[o] = refCount[o] + Bit(v = o)
      <3>1. refCount[o] \in Nat /\ refCount'[o] = IF v = o THEN refCount[o] + 1 ELSE refCount[o]
        BY <1>1, <2>1
      <3> QED BY <3>1 DEF Bit
    <2> QED BY <2>3, <2>4
  <1>3. CASE v \notin Addresses
    <2>1. refCount' = refCount
      BY <1>3 DEF Retained, Counted
    <2>2. \A o \in Addresses : refCount[o] \in Nat /\ Bit(v = o) = 0
      BY <1>1, <1>3 DEF Bit
    <2> QED BY <1>1, <2>1, <2>2
  <1> QED BY <1>2, <1>3

(* What an opcode that moves references between the operands, the          *)
(* exception and the calls it leaves to do has to keep.                    *)
LEMMA OpcodeKeeps ==
    ASSUME FlowInv, todo = <<>>, NEW N, StoreStep(N), FrameTypes', Plain', UNCHANGED local,
           \A o \in Addresses :
              refCount'[o] + OnStack(o) + Bit(exception = o) + forgotten[o]
              = refCount[o] + OnStack(o)' + InCalls(o)' + Bit(exception' = o) + forgotten'[o],
           \A o \in Addresses \ InUse' : refCount'[o] = 0,
           \A o \in InUse' : refCount'[o] = 0 => PendingOn("tryRelease", o)',
           TodoInv'
    PROVE  FlowInv'
  <1>1. /\ \A i : LocalOwns(i) /\ LocalOwns(i)'
        /\ \A p : (MemberOwns(p) <=> p \in InUse) /\ (MemberOwns(p)' <=> p \in InUse')
        /\ \A o : InCalls(o) = 0
    BY AtRest, PlainOwns, PlainOwnsNext
  <1>2. ASSUME NEW o \in Addresses PROVE InLocals(o)' = InLocals(o)
    <2>1. \A i \in Locals : LocalRef(i, o) <=> LocalRef(i, o)'
      BY <1>1 DEF LocalRef
    <2> QED BY <2>1, LocalsKept DEF InLocals
  <1>3. ASSUME NEW o \in Addresses PROVE InMembers(o)' = InMembers(o)
    <2>1. ASSUME NEW p \in Addresses PROVE MemberRef(p, o) <=> MemberRef(p, o)'
      <3>1. CASE p \in N
        <4>1. p \notin InUse /\ member'[p] # o
          BY <3>1 DEF StoreStep
        <4> QED BY <1>1, <4>1 DEF MemberRef
      <3>2. CASE p \notin N
        <4>1. /\ kind'[p] = kind[p] /\ member'[p] = member[p]
              /\ p \in InUse' <=> p \in InUse
          BY <3>2 DEF StoreStep
        <4> QED BY <1>1, <4>1 DEF MemberRef
      <3> QED BY <3>1, <3>2
    <2> QED BY <2>1, MembersKept DEF InMembers
  <1>4. CountInv'
    <2> SUFFICES ASSUME NEW o \in Addresses
                 PROVE  refCount'[o] + InLocals(o) + OnStack(o) + InMembers(o) + InCalls(o)
                            + Bit(exception = o) + forgotten[o]
                        = refCount[o] + InLocals(o)' + OnStack(o)' + InMembers(o)' + InCalls(o)'
                            + Bit(exception' = o) + forgotten'[o]
      BY CountsFollow
    <2> DEFINE l == InLocals(o)  s == OnStack(o)  m == InMembers(o)
               sn == OnStack(o)'  cn == InCalls(o)'
               e == Bit(exception = o)  en == Bit(exception' = o)
               r == refCount[o]  rn == refCount'[o]  f == forgotten[o]  fn == forgotten'[o]
    <2>1. /\ l \in Nat /\ s \in Nat /\ m \in Nat /\ sn \in Nat /\ cn \in Nat
      BY PartsAreNumbers, PartsAreNumbersNext DEF FlowInv
    <2>2. /\ e \in Nat /\ en \in Nat /\ r \in Nat /\ rn \in Nat /\ f \in Nat /\ fn \in Nat
      BY DEF FlowInv, FrameTypes, Bit
    <2>3. rn + s + e + f = r + sn + cn + en + fn
      OBVIOUS
    <2>4. InLocals(o)' = l /\ InMembers(o)' = m /\ InCalls(o) = 0
      BY <1>1, <1>2, <1>3
    <2> HIDE DEF l, s, m, sn, cn, e, en, r, rn, f, fn
    <2>5. rn + l + s + m + 0 + e + f = r + l + sn + m + cn + en + fn
      BY <2>1, <2>2, <2>3
    <2> QED BY <2>4, <2>5 DEF l, s, m, sn, cn, e, en, r, rn, f, fn
  <1>5. IdleInv' /\ LiveInv' /\ StoreInv' /\ LimitInv'
    BY DEF IdleInv, LiveInv, StoreStep, LimitInv
  <1> QED BY <1>4, <1>5 DEF FlowInv

(* An opcode with nothing left to do meets OpcodeKeeps's condition on      *)
(* todo.                                                                   *)
LEMMA NoneLeft ==
    ASSUME todo' = <<>>
    PROVE  Plain' /\ TodoInv' /\ todo' \in Seq(Calls) /\ \A o : InCalls(o)' = 0
  <1>1. DOMAIN todo' = {} /\ \A o : InCalls(o)' = 0
    BY NoCallsNext
  <1>2. todo' \in Seq(Calls)
    BY EmptySeq
  <1> QED BY <1>1, <1>2 DEF Plain, TodoInv

(* So does one that has only releases left to do.                          *)
LEMMA ReleasesLeft ==
    ASSUME \A n \in DOMAIN todo' : todo'[n].op = "release"
    PROVE  Plain' /\ TodoInv'
  <1>1. Plain'
    BY DEF Plain, Replacing
  <1>2. \A n \in DOMAIN todo' : CallInv(n)'
    BY DEF CallInv, Replacing, Clearing
  <1> QED BY <1>1, <1>2 DEF TodoInv

(* Whatever a local, the operands, a member or the exception refers to is  *)
(* in use between opcodes.                                                 *)
LEMMA ValuesInUse ==
    ASSUME FlowInv, todo = <<>>
    PROVE  /\ \A i \in Locals : local[i] \in Addresses => local[i] \in InUse
           /\ \A n \in DOMAIN stack : stack[n] \in Addresses => stack[n] \in InUse
           /\ stack # <<>> => Top \in Objects /\ (Top \in Addresses => Top \in InUse)
           /\ \A p \in Addresses : kind[p] = "obj" =>
                 /\ p \in InUse
                 /\ member[p] \in Addresses => member[p] \in InUse
           /\ exception \in Addresses => exception \in InUse
  <1>1. (\A i : LocalOwns(i)) /\ \A p : MemberOwns(p) <=> p \in InUse
    BY AtRest, PlainOwns
  <1>2. ASSUME NEW i \in Locals, local[i] \in Addresses PROVE local[i] \in InUse
    <2>1. LocalRefs(local[i]) # {}
      BY <1>1 DEF LocalRefs
    <2> QED BY <1>2, <2>1, Referenced
  <1>3. ASSUME NEW n \in DOMAIN stack, stack[n] \in Addresses PROVE stack[n] \in InUse
    <2>1. StackRefs(stack[n]) # {}
      BY DEF StackRefs
    <2> QED BY <1>3, <2>1, Referenced
  <1>4. ASSUME stack # <<>>
        PROVE  Top \in Objects /\ (Top \in Addresses => Top \in InUse)
    <2>1. stack \in Seq(Objects)
      BY DEF FlowInv, FrameTypes
    <2>2. Top \in Objects /\ Top = stack[Len(stack)] /\ Len(stack) \in Nat \ {0}
      BY <1>4, <2>1, FrontAndLast DEF Top
    <2>3. DOMAIN stack = 1 .. Len(stack)
      BY <2>1, LenProperties
    <2>4. Len(stack) \in DOMAIN stack
      BY <2>2, <2>3
    <2> QED BY <1>3, <2>2, <2>4
  <1>5. ASSUME NEW p \in Addresses, kind[p] = "obj"
        PROVE  p \in InUse /\ (member[p] \in Addresses => member[p] \in InUse)
    <2>1. p \in InUse
      BY <1>5 DEF FlowInv, StoreInv
    <2>2. member[p] \in Addresses => MemberRefs(member[p]) # {}
      BY <1>1, <1>5, <2>1 DEF MemberRefs
    <2> QED BY <2>1, <2>2, Referenced
  <1>6. exception \in Addresses => exception \in InUse
    BY Referenced
  <1> QED BY <1>2, <1>3, <1>4, <1>5, <1>6

(* Retaining a value that is in use, or the object the opcode creates,     *)
(* leaves a count on the objects in use and on no other.                   *)
LEMMA RetainedInUse ==
    ASSUME FlowInv, todo = <<>>, NEW v, NEW N \in SUBSET {v}, StoreStep(N),
           v \in Addresses => v \in InUse', refCount' = Retained(v, refCount)
    PROVE  /\ \A o \in Addresses \ InUse' : refCount'[o] = 0
           /\ \A o \in InUse' : refCount'[o] # 0
  <1>1. FrameTypes
    BY DEF FlowInv
  <1>2. \A o \in Addresses : refCount'[o] = refCount[o] + Bit(v = o)
    BY <1>1, RetainedCounts
  <1>7. \A o \in Addresses \ InUse' : refCount'[o] = 0
    <2> SUFFICES ASSUME NEW o \in Addresses \ InUse' PROVE refCount'[o] = 0
      OBVIOUS
    <2>1. o \notin InUse /\ v # o
      BY DEF StoreStep
    <2> QED BY <1>2, <2>1, AtRest DEF Bit
  <1>8. \A o \in InUse' : refCount'[o] # 0
    <2> SUFFICES ASSUME NEW o \in InUse' PROVE refCount'[o] # 0
      OBVIOUS
    <2>1. o \in Addresses
      BY StoreNumbers DEF FlowInv, StoreStep
    <2>2. refCount[o] \in Nat /\ refCount'[o] = refCount[o] + Bit(v = o)
      BY <1>1, <1>2, <2>1 DEF FrameTypes
    <2>3. o \in InUse \/ v = o
      BY DEF StoreStep
    <2> QED BY <2>2, <2>3, AtRest DEF Bit
  <1> QED BY <1>7, <1>8

(* An opcode that pushes a value and retains it.                           *)
LEMMA PushKeeps ==
    ASSUME FlowInv, todo = <<>>, NEW v \in Objects, NEW N \in SUBSET {v}, StoreStep(N),
           v \in Addresses => v \in InUse',
           stack' = Append(stack, v), refCount' = Retained(v, refCount),
           UNCHANGED <<todo, local, exception, forgotten, phase>>
    PROVE  FlowInv'
  <1>1. FrameTypes
    BY DEF FlowInv
  <1>2. /\ refCount' \in [Addresses -> Nat]
        /\ \A o \in Addresses : refCount'[o] = refCount[o] + Bit(v = o)
    BY <1>1, RetainedCounts
  <1>3. stack' \in Seq(Objects) /\ \A o : OnStack(o)' = OnStack(o) + Bit(v = o)
    BY <1>1, StackPushed
  <1>4. Plain' /\ TodoInv' /\ \A o : InCalls(o)' = 0
    BY NoneLeft
  <1>5. FrameTypes'
    BY <1>1, <1>2, <1>3 DEF FrameTypes
  <1>6. ASSUME NEW o \in Addresses
        PROVE  refCount'[o] + OnStack(o) + Bit(exception = o) + forgotten[o]
               = refCount[o] + OnStack(o)' + InCalls(o)' + Bit(exception' = o) + forgotten'[o]
    <2>1. OnStack(o) \in Nat /\ Bit(v = o) \in Nat /\ Bit(exception = o) \in Nat
      BY <1>1, PartsAreNumbers DEF Bit
    <2>2. refCount[o] \in Nat /\ forgotten[o] \in Nat
      BY <1>1 DEF FrameTypes
    <2> QED BY <1>2, <1>3, <1>4, <2>1, <2>2
  <1>7. /\ \A o \in Addresses \ InUse' : refCount'[o] = 0
        /\ \A o \in InUse' : refCount'[o] # 0
    BY RetainedInUse
  <1> QED BY <1>4, <1>5, <1>6, <1>7, OpcodeKeeps

(* LOAD_CONST of a constant.                                               *)
LEMMA PushConst ==
    FlowInv /\ LoadConst /\ UNCHANGED forgotten => FlowInv'
  <1> SUFFICES ASSUME FlowInv, LoadConst, UNCHANGED forgotten PROVE FlowInv'
    OBVIOUS
  <1>1. /\ todo = <<>> /\ Unmanaged /\ stack' = Append(stack, Const)
        /\ UNCHANGED <<refCount, todo, local, exception, phase>>
    BY DEF LoadConst, AtOpcode, Checked, Looping, Push
  <1>2. StoreStep({})
    BY <1>1, UnmanagedStep
  <1>3. Const \in Objects /\ Const \notin Addresses
    BY AddressesAreFinite DEF Objects
  <1>4. refCount' = Retained(Const, refCount)
    BY <1>1, <1>3 DEF Retained, Counted
  <1> QED BY <1>1, <1>2, <1>3, <1>4, PushKeeps

(* LOAD_CONST of a number and CREATE_OBJECT.                               *)
LEMMA PushNew ==
    ASSUME FlowInv, NEW o, LoadNumber(o) \/ CreateObject(o), UNCHANGED forgotten
    PROVE  FlowInv'
  <1>1. /\ todo = <<>> /\ stack' = Append(stack, o) /\ refCount' = Retained(o, refCount)
        /\ New("int", o, Null) \/ New("obj", o, Null)
        /\ UNCHANGED <<todo, local, exception, phase>>
    BY DEF LoadNumber, CreateObject, AtOpcode, Checked, Looping, Push, NewReference
  <1>2. StoreStep({o}) /\ InUse' = InUse \cup {o} /\ o \in Objects
    BY <1>1, NewStep DEF Kinds
  <1> QED BY <1>1, <1>2, PushKeeps

(* LOAD_LOCAL, LOCAL_LOAD_MEMBER and DUP push what something in use refers *)
(* to.                                                                     *)
LEMMA PushKnown ==
    ASSUME FlowInv, UNCHANGED forgotten,
           Dup \/ \E i \in Locals : LoadLocal(i) \/ LocalLoadMember(i)
    PROVE  FlowInv'
  <1>1. \E v \in Objects :
           /\ todo = <<>> /\ Unmanaged /\ (v \in Addresses => v \in InUse)
           /\ stack' = Append(stack, v) /\ refCount' = Retained(v, refCount)
           /\ UNCHANGED <<todo, local, exception, phase>>
    <2>1. CASE Dup
      <3>1. todo = <<>> /\ stack # <<>>
        BY <2>1 DEF Dup, AtOpcode, Checked, Looping
      <3>2. Top \in Objects /\ (Top \in Addresses => Top \in InUse)
        BY <3>1, ValuesInUse
      <3> QED BY <2>1, <3>1, <3>2 DEF Dup, Push, NewReference
    <2>2. ASSUME NEW i \in Locals, LoadLocal(i)
          PROVE  \E v \in Objects :
                    /\ todo = <<>> /\ Unmanaged /\ (v \in Addresses => v \in InUse)
                    /\ stack' = Append(stack, v) /\ refCount' = Retained(v, refCount)
                    /\ UNCHANGED <<todo, local, exception, phase>>
      <3>1. todo = <<>> /\ local[i] # Null
        BY <2>2 DEF LoadLocal, AtOpcode, Checked, Looping
      <3>2. local[i] \in Objects
        BY <3>1 DEF FlowInv, FrameTypes, Values
      <3>3. local[i] \in Addresses => local[i] \in InUse
        BY <3>1, ValuesInUse
      <3> QED BY <2>2, <3>1, <3>2, <3>3 DEF LoadLocal, Push, NewReference
    <2>3. ASSUME NEW i \in Locals, LocalLoadMember(i)
          PROVE  \E v \in Objects :
                    /\ todo = <<>> /\ Unmanaged /\ (v \in Addresses => v \in InUse)
                    /\ stack' = Append(stack, v) /\ refCount' = Retained(v, refCount)
                    /\ UNCHANGED <<todo, local, exception, phase>>
      <3> DEFINE p == local[i]
      <3>1. todo = <<>> /\ p \in Addresses /\ kind[p] = "obj" /\ member[p] # Null
        BY <2>3 DEF LocalLoadMember, AtOpcode, Checked, Looping, IsParent, Counted
      <3>2. member[p] \in Objects
        BY <3>1 DEF FlowInv, StoreInv, StoreTypes, Values
      <3>3. member[p] \in Addresses => member[p] \in InUse
        BY <3>1, ValuesInUse
      <3> QED BY <2>3, <3>1, <3>2, <3>3 DEF LocalLoadMember, Push, NewReference
    <2> QED BY <2>1, <2>2, <2>3
  <1>2. PICK v \in Objects :
           /\ todo = <<>> /\ Unmanaged /\ (v \in Addresses => v \in InUse)
           /\ stack' = Append(stack, v) /\ refCount' = Retained(v, refCount)
           /\ UNCHANGED <<todo, local, exception, phase>>
    BY <1>1
  <1>3. StoreStep({}) /\ InUse' = InUse
    BY <1>2, UnmanagedStep
  <1> QED BY <1>2, <1>3, PushKeeps

(* Forgetting a reference raises the forgotten count of its object by one. *)
LEMMA ForgettingCounts ==
    ASSUME FrameTypes, NEW v
    PROVE  /\ Forgetting(v) \in [Addresses -> Nat]
           /\ \A o \in Addresses : Forgetting(v)[o] = forgotten[o] + Bit(v = o)
  <1>1. CASE v \in Addresses
    BY <1>1 DEF FrameTypes, Forgetting, Counted, Bit
  <1>2. CASE v \notin Addresses
    BY <1>2 DEF FrameTypes, Forgetting, Counted, Bit
  <1> QED BY <1>1, <1>2

(* Exceptions: created, thrown from the operands, loaded by a catch clause *)
(* or raised by the memory limit.                                          *)
LEMMA ExceptionKeeps ==
    ASSUME FlowInv, todo = <<>>, NEW v \in Objects \cup {Null}, NEW N \in SUBSET {v},
           StoreStep(N), FrameTypes',
           v \in Addresses => v \in InUse',
           refCount' = Retained(v, refCount),
           exception' = v, forgotten' = Forgetting(exception), UNCHANGED <<todo, local, stack>>
    PROVE  FlowInv'
  <1>1. FrameTypes
    BY DEF FlowInv
  <1>2. \A o \in Addresses : refCount'[o] = refCount[o] + Bit(v = o)
    BY <1>1, RetainedCounts
  <1>4. Plain' /\ TodoInv' /\ \A o : InCalls(o)' = 0
    BY NoneLeft
  <1>6. ASSUME NEW o \in Addresses
        PROVE  refCount'[o] + OnStack(o) + Bit(exception = o) + forgotten[o]
               = refCount[o] + OnStack(o)' + InCalls(o)' + Bit(exception' = o) + forgotten'[o]
    <2>1. OnStack(o) \in Nat /\ Bit(v = o) \in Nat
      BY <1>1, PartsAreNumbers DEF Bit
    <2>2. refCount[o] \in Nat /\ forgotten[o] \in Nat
      BY <1>1 DEF FrameTypes
    <2>3. OnStack(o)' = OnStack(o)
      BY DEF OnStack, StackRefs
    <2>4. Bit(exception = o) \in Nat /\ forgotten'[o] = forgotten[o] + Bit(exception = o)
      BY <1>1, ForgettingCounts DEF Bit
    <2> QED BY <1>2, <1>4, <2>1, <2>2, <2>3, <2>4
  <1>7. /\ \A o \in Addresses \ InUse' : refCount'[o] = 0
        /\ \A o \in InUse' : refCount'[o] # 0
    BY RetainedInUse
  <1> QED BY <1>4, <1>6, <1>7, OpcodeKeeps

(* The VM's own exceptions and those of the limits, which forget the one   *)
(* they overwrite.                                                         *)
LEMMA ExceptionCreated ==
    ASSUME FlowInv, NEW o,
           \/ ThrowException(o) /\ UNCHANGED forgotten
           \/ MemoryLimitExceeded(o)
           \/ OtherLimitExceeded(o)
    PROVE  FlowInv'
  <1>1. /\ todo = <<>> /\ exception' = o
        /\ New("obj", o, Const) /\ refCount' = Retained(o, refCount)
        /\ UNCHANGED <<todo, local, stack>>
        /\ phase = "run" /\ phase' \in {"run", "fatal"}
    BY DEF ThrowException, MemoryLimitExceeded, OtherLimitExceeded, ThrowFatal, AtOpcode,
           Checked, Looping, CreateException, NewReference
  <1>5. forgotten' = Forgetting(exception)
    <2>1. CASE ThrowException(o) /\ UNCHANGED forgotten
      BY <2>1, AddressesAreFinite DEF ThrowException, AtOpcode, Forgetting, Counted
    <2>2. CASE MemoryLimitExceeded(o) \/ OtherLimitExceeded(o)
      BY <2>2 DEF MemoryLimitExceeded, OtherLimitExceeded, ThrowFatal
    <2> QED BY <2>1, <2>2
  <1>6. forgotten' \in [Addresses -> Nat]
    BY <1>5, ForgettingCounts DEF FlowInv
  <1>2. /\ StoreStep({o}) /\ InUse' = InUse \cup {o}
        /\ o \in Objects /\ o \in Values /\ o \in Addresses
    BY <1>1, NewStep DEF Kinds
  <1>3. refCount' \in [Addresses -> Nat]
    BY <1>1, RetainedCounts DEF FlowInv
  <1>4. FrameTypes'
    BY <1>1, <1>2, <1>3, <1>6 DEF FlowInv, FrameTypes
  <1> QED BY <1>1, <1>2, <1>4, <1>5, ExceptionKeeps

(* LOAD_EXCEPTION moves the exception to the stack and forgets one         *)
(* count.                                                                  *)
LEMMA ExceptionLoaded ==
    ASSUME FlowInv, LoadException
    PROVE  FlowInv'
  <1> DEFINE v == exception
  <1>1. /\ todo = <<>> /\ exception # Null /\ Unmanaged /\ phase' = phase
        /\ stack' = Append(stack, v) /\ refCount' = Retained(v, refCount)
        /\ exception' = Null /\ forgotten' = Forgetting(v)
        /\ UNCHANGED <<todo, local, phase>>
    BY DEF LoadException, Checked, Looping, Push, NewReference
  <1>2. /\ FrameTypes /\ v \in Objects /\ (v \in Addresses => v \in InUse)
        /\ forgotten \in [Addresses -> Nat]
    BY <1>1, ValuesInUse DEF FlowInv, FrameTypes, Values
  <1>3. StoreStep({}) /\ InUse' = InUse
    BY <1>1, UnmanagedStep
  <1>4. /\ refCount' \in [Addresses -> Nat]
        /\ \A o \in Addresses : refCount'[o] = refCount[o] + Bit(v = o)
    BY <1>1, <1>2, RetainedCounts
  <1>5. stack' \in Seq(Objects) /\ \A o : OnStack(o)' = OnStack(o) + Bit(v = o)
    BY <1>1, <1>2, StackPushed
  <1>6. Plain' /\ TodoInv' /\ \A o : InCalls(o)' = 0
    BY <1>1, NoneLeft
  <1>7. /\ forgotten' \in [Addresses -> Nat]
        /\ \A o \in Addresses : forgotten'[o] = forgotten[o] + Bit(v = o)
    BY <1>1, <1>2, ForgettingCounts
  <1>8. FrameTypes'
    BY <1>1, <1>2, <1>4, <1>5, <1>7 DEF FrameTypes, Values
  <1> HIDE DEF v
  <1>9. ASSUME NEW o \in Addresses
        PROVE  refCount'[o] + OnStack(o) + Bit(exception = o) + forgotten[o]
               = refCount[o] + OnStack(o)' + InCalls(o)' + Bit(exception' = o) + forgotten'[o]
    <2>1. OnStack(o) \in Nat /\ Bit(v = o) \in Nat /\ Bit(exception = o) = Bit(v = o)
      BY <1>2, PartsAreNumbers DEF Bit, v
    <2>2. refCount[o] \in Nat /\ forgotten[o] \in Nat
      BY <1>2 DEF FrameTypes
    <2>3. Bit(exception' = o) = 0
      BY <1>1, AddressesAreFinite DEF Bit
    <2> QED BY <1>4, <1>5, <1>6, <1>7, <2>1, <2>2, <2>3
  <1>10. /\ \A o \in Addresses \ InUse' : refCount'[o] = 0
         /\ \A o \in InUse' : refCount'[o] # 0
    BY <1>1, <1>2, <1>3, RetainedInUse
  <1> QED BY <1>1, <1>3, <1>6, <1>8, <1>9, <1>10, OpcodeKeeps

(* An opcode that changes no count leaves a count on the objects in use.   *)
LEMMA CountsUnchanged ==
    ASSUME FlowInv, todo = <<>>, InUse' = InUse, UNCHANGED refCount
    PROVE  /\ \A o \in Addresses \ InUse' : refCount'[o] = 0
           /\ \A o \in InUse' : refCount'[o] # 0
  BY AtRest

(* THROW moves the operand to the frame's exception.                       *)
LEMMA ThrowKeeps ==
    ASSUME FlowInv, ThrowOperand, UNCHANGED forgotten
    PROVE  FlowInv'
  <1>1. /\ todo = <<>> /\ stack # <<>> /\ exception = Null
        /\ exception' = Top /\ stack' = Below /\ Unmanaged
        /\ UNCHANGED <<refCount, todo, local, phase>>
    BY DEF ThrowOperand, AtOpcode, Checked, Looping
  <1>2. StoreStep({}) /\ InUse' = InUse
    BY <1>1, UnmanagedStep
  <1>3. /\ stack' \in Seq(Objects) /\ Top \in Objects
        /\ \A o : OnStack(o) = OnStack(o)' + Bit(Top = o)
    BY <1>1, StackPopped DEF FlowInv
  <1>4. Plain' /\ TodoInv' /\ \A o : InCalls(o)' = 0
    BY <1>1, NoneLeft
  <1>5. FrameTypes'
    BY <1>1, <1>3 DEF FlowInv, FrameTypes, Values
  <1>6. ASSUME NEW o \in Addresses
        PROVE  refCount'[o] + OnStack(o) + Bit(exception = o) + forgotten[o]
               = refCount[o] + OnStack(o)' + InCalls(o)' + Bit(exception' = o) + forgotten'[o]
    <2>1. OnStack(o)' \in Nat /\ Bit(Top = o) \in Nat /\ Bit(exception = o) = 0
      BY <1>1, <1>5, PartsAreNumbersNext, AddressesAreFinite DEF Bit
    <2>2. refCount[o] \in Nat /\ forgotten[o] \in Nat
      BY DEF FlowInv, FrameTypes
    <2>3. Bit(exception' = o) = Bit(Top = o)
      BY <1>1
    <2> QED BY <1>1, <1>3, <1>4, <2>1, <2>2, <2>3
  <1>7. /\ \A o \in Addresses \ InUse' : refCount'[o] = 0
        /\ \A o \in InUse' : refCount'[o] # 0
    BY <1>1, <1>2, CountsUnchanged
  <1> QED BY <1>1, <1>2, <1>4, <1>5, <1>6, <1>7, OpcodeKeeps

(* The memory check clears the flag only when the limit is kept.           *)
LEMMA CheckKeeps ==
    ASSUME FlowInv, CheckMemory, UNCHANGED forgotten
    PROVE  FlowInv'
  <1>1. /\ todo = <<>> /\ currentManagedMemory <= MaxMemory /\ changedMemory' = FALSE
        /\ UNCHANGED <<countObject, freeSlot, nextFree, isFree, currentManagedMemory, held>>
        /\ UNCHANGED <<kind, refCount, member, pool, todo>>
        /\ UNCHANGED <<local, stack, exception, phase>>
    BY DEF CheckMemory, Looping, MemoryChecked, objectVars, frameVars
  <1>2. StoreInv' /\ InUse' = InUse
    <2>1. ListInv /\ isFree' \in SUBSET Slots
      BY <1>1 DEF FlowInv, StoreInv, StoreTypes, ListInv, ArenaTypeOK
    <2>2. currentManagedMemory' \in Nat /\ changedMemory' \in BOOLEAN
      BY <1>1, StoreNumbers DEF FlowInv
    <2>3. ListInv'
      BY <1>1, <2>1, <2>2, SlotsUntouched
    <2>4. InUse' = InUse
      BY <1>1 DEF InUse
    <2>5. StoreTypes' /\ PoolInv'
      BY <1>1, <2>3 DEF FlowInv, StoreInv, StoreTypes, PoolInv
    <2>6. MemoryMatchesObjects'
      BY <1>1, <2>4 DEF FlowInv, StoreInv, MemoryMatchesObjects
    <2> QED BY <1>1, <2>4, <2>5, <2>6 DEF FlowInv, StoreInv
  <1>3. StoreStep({})
    BY <1>1, <1>2 DEF StoreStep
  <1>4. Plain' /\ TodoInv' /\ \A o : InCalls(o)' = 0
    BY <1>1, NoneLeft
  <1>5. FrameTypes'
    BY <1>1 DEF FlowInv, FrameTypes
  <1>6. ASSUME NEW o \in Addresses
        PROVE  refCount'[o] + OnStack(o) + Bit(exception = o) + forgotten[o]
               = refCount[o] + OnStack(o)' + InCalls(o)' + Bit(exception' = o) + forgotten'[o]
    <2>1. OnStack(o) \in Nat /\ OnStack(o)' = OnStack(o)
      BY <1>1, PartsAreNumbers DEF FlowInv, OnStack, StackRefs
    <2>2. refCount[o] \in Nat /\ forgotten[o] \in Nat /\ Bit(exception = o) \in Nat
      BY DEF FlowInv, FrameTypes, Bit
    <2>3. Bit(exception' = o) = Bit(exception = o)
      BY <1>1
    <2> QED BY <1>1, <1>4, <2>1, <2>2, <2>3
  <1>7. /\ \A o \in Addresses \ InUse' : refCount'[o] = 0
        /\ \A o \in InUse' : refCount'[o] # 0
    BY <1>1, <1>2, CountsUnchanged
  <1> QED BY <1>1, <1>3, <1>4, <1>5, <1>6, <1>7, OpcodeKeeps

(***************************************************************************)
(* Opcodes that release: the operands' references pass to the calls.       *)
(***************************************************************************)
LEMMA ReleaseCall ==
    ASSUME NEW v \in Values, NEW at \in Nat
    PROVE  /\ Call("release", v, at) \in Calls
           /\ Call("release", v, at).op = "release" /\ Call("release", v, at).obj = v
           /\ \A o : OwnedBy(Call("release", v, at), o) <=> v = o
  BY DEF Call, Calls, Ops, OwnedBy, CallOwns

(* CLONE and LOAD_MEMBER: the top's reference passes to its release, and   *)
(* the value that takes its place is retained.                             *)
LEMMA ReplaceTopKeeps ==
    ASSUME FlowInv, todo = <<>>, NEW v \in Objects, NEW N \in SUBSET {v}, StoreStep(N),
           v \in Addresses => v \in InUse', refCount' = Retained(v, refCount),
           stack # <<>>, stack' = Append(Below, v),
           todo' = <<Call("release", Top, 0)>>,
           UNCHANGED <<local, exception, phase, forgotten>>
    PROVE  FlowInv'
  <1>1. FrameTypes
    BY DEF FlowInv
  <1>2. /\ refCount' \in [Addresses -> Nat]
        /\ \A o \in Addresses : refCount'[o] = refCount[o] + Bit(v = o)
    BY <1>1, RetainedCounts
  <1>3. /\ stack' \in Seq(Objects) /\ Top \in Objects
        /\ \A o : OnStack(o)' + Bit(Top = o) = OnStack(o) + Bit(v = o)
    BY <1>1, TopReplaced
  <1> DEFINE call == Call("release", Top, 0)
  <1>4. call \in Calls /\ call.op = "release" /\ \A o : OwnedBy(call, o) <=> Top = o
    BY <1>3, ReleaseCall DEF Values
  <1>5. /\ todo' \in Seq(Calls) /\ DOMAIN todo' = {1} /\ todo'[1] = call
        /\ \A o : InCalls(o)' = Bit(OwnedBy(call, o))
    BY <1>4, OneCall
  <1>6. Plain' /\ TodoInv'
    BY <1>4, <1>5, ReleasesLeft
  <1>7. FrameTypes'
    BY <1>1, <1>2, <1>3, <1>5 DEF FrameTypes
  <1>8. \A o : InCalls(o)' = Bit(Top = o)
    BY <1>4, <1>5 DEF Bit
  <1>9. ASSUME NEW o \in Addresses
        PROVE  refCount'[o] + OnStack(o) + Bit(exception = o) + forgotten[o]
               = refCount[o] + OnStack(o)' + InCalls(o)' + Bit(exception' = o) + forgotten'[o]
    <2> DEFINE a == Bit(Top = o)  b == Bit(v = o)  e == Bit(exception = o)
    <2>1. /\ OnStack(o) \in Nat /\ OnStack(o)' \in Nat
          /\ a \in Nat /\ b \in Nat /\ e \in Nat
      BY <1>1, <1>7, PartsAreNumbers, PartsAreNumbersNext DEF Bit
    <2>2. refCount[o] \in Nat /\ forgotten[o] \in Nat
      BY <1>1 DEF FrameTypes
    <2>3. /\ OnStack(o)' + a = OnStack(o) + b /\ refCount'[o] = refCount[o] + b
          /\ InCalls(o)' = a /\ Bit(exception' = o) = e
      BY <1>2, <1>3, <1>8
    <2> HIDE DEF a, b, e
    <2>4. refCount'[o] + OnStack(o) + e + forgotten[o]
          = refCount[o] + OnStack(o)' + InCalls(o)' + e + forgotten'[o]
      BY <2>1, <2>2, <2>3
    <2> QED BY <2>3, <2>4 DEF e
  <1>10. /\ \A o \in Addresses \ InUse' : refCount'[o] = 0
         /\ \A o \in InUse' : refCount'[o] # 0
    BY RetainedInUse
  <1> QED BY <1>6, <1>7, <1>9, <1>10, OpcodeKeeps

(* CLONE.                                                                  *)
LEMMA CloneKeeps ==
    ASSUME FlowInv, NEW o, Clone(o), UNCHANGED forgotten
    PROVE  FlowInv'
  <1>1. /\ todo = <<>> /\ stack # <<>> /\ New("int", o, Null)
        /\ refCount' = Retained(o, refCount) /\ stack' = Append(Below, o)
        /\ todo' = <<Call("release", Top, 0)>>
        /\ UNCHANGED <<local, exception, phase>>
    BY DEF Clone, AtOpcode, Checked, Looping, NewReference
  <1>2. StoreStep({o}) /\ InUse' = InUse \cup {o} /\ o \in Objects
    BY <1>1, NewStep DEF Kinds
  <1> QED BY <1>1, <1>2, ReplaceTopKeeps

(* LOAD_MEMBER.                                                            *)
LEMMA LoadMemberKeeps ==
    ASSUME FlowInv, LoadMember, UNCHANGED forgotten
    PROVE  FlowInv'
  <1> DEFINE v == member[Top]
  <1>1. /\ todo = <<>> /\ stack # <<>> /\ Unmanaged
        /\ Top \in Addresses /\ kind[Top] = "obj" /\ v # Null
        /\ refCount' = Retained(v, refCount) /\ stack' = Append(Below, v)
        /\ todo' = <<Call("release", Top, 0)>>
        /\ UNCHANGED <<local, exception, phase>>
    BY DEF LoadMember, AtOpcode, Checked, Looping, IsParent, Counted, LoadMemberRetained
  <1>2. StoreStep({}) /\ InUse' = InUse
    BY <1>1, UnmanagedStep
  <1>3. v \in Objects /\ (v \in Addresses => v \in InUse)
    BY <1>1, ValuesInUse DEF FlowInv, StoreInv, StoreTypes, Values
  <1> HIDE DEF v
  <1> QED BY <1>1, <1>2, <1>3, ReplaceTopKeeps

(* operate: both operands pass to their releases, the result is new.       *)
LEMMA OperateKeeps ==
    ASSUME FlowInv, NEW v, Operate(v), UNCHANGED forgotten
    PROVE  FlowInv'
  <1> DEFINE second == Last(Below)
             a == Call("release", second, 0)
             b == Call("release", Top, 0)
             rest == Front(Below)
  <1>1. /\ todo = <<>> /\ Len(stack) >= 2 /\ New("int", v, Null)
        /\ refCount' = Retained(v, refCount) /\ stack' = Append(rest, v)
        /\ todo' = <<a, b>>
        /\ UNCHANGED <<local, exception, phase>>
    BY DEF Operate, AtOpcode, Checked, Looping, NewReference
  <1>2. StoreStep({v}) /\ InUse' = InUse \cup {v} /\ v \in Objects
    BY <1>1, NewStep DEF Kinds
  <1>3. FrameTypes /\ stack \in Seq(Objects)
    BY DEF FlowInv, FrameTypes
  <1>4. /\ Top \in Objects /\ Below \in Seq(Objects) /\ Below # <<>>
        /\ second \in Objects /\ rest \in Seq(Objects)
    <2>1. stack # <<>>
      BY <1>1, <1>3, EmptySeq
    <2>2. Top \in Objects /\ Below \in Seq(Objects) /\ Len(Below) = Len(stack) - 1
          /\ Len(stack) \in Nat
      BY <1>3, <2>1, FrontAndLast DEF Top, Below
    <2>3. Below # <<>>
      BY <1>1, <2>2, EmptySeq
    <2> QED BY <2>2, <2>3, FrontAndLast
  <1>5. /\ refCount' \in [Addresses -> Nat]
        /\ \A o \in Addresses : refCount'[o] = refCount[o] + Bit(v = o)
    BY <1>1, <1>3, RetainedCounts
  <1>6. stack' \in Seq(Objects)
    BY <1>1, <1>2, <1>4, AppendProperties
  <1>7. ASSUME NEW o
        PROVE  OnStack(o)' + Bit(second = o) + Bit(Top = o) = OnStack(o) + Bit(v = o)
    <2> DEFINE c == Cardinality(ValueRefs(rest, o))
               x == Bit(second = o)  y == Bit(Top = o)  z == Bit(v = o)
               d == Cardinality(ValueRefs(Below, o))
    <2>1. StackRefs(o)' = ValueRefs(stack', o) /\ StackRefs(o) = ValueRefs(stack, o)
      BY DEF StackRefs, ValueRefs
    <2>2. stack # <<>>
      BY <1>1, <1>3, EmptySeq
    <2>3. OnStack(o) = d + y
      BY <1>3, <2>1, <2>2, ValuePopped DEF OnStack, Top, Below
    <2>4. c \in Nat /\ d = c + x
      BY <1>4, ValuePopped
    <2>5. OnStack(o)' = c + z
      BY <1>1, <1>2, <1>4, <2>1, ValuePushed DEF OnStack
    <2>6. x \in Nat /\ y \in Nat /\ z \in Nat
      BY DEF Bit
    <2> HIDE DEF c, d, x, y, z
    <2>7. OnStack(o)' + x + y = OnStack(o) + z
      BY <2>3, <2>4, <2>5, <2>6
    <2> QED BY <2>7 DEF x, y, z
  <1>8. /\ a \in Calls /\ a.op = "release" /\ b \in Calls /\ b.op = "release"
        /\ \A o : (OwnedBy(a, o) <=> second = o) /\ (OwnedBy(b, o) <=> Top = o)
    BY <1>4, ReleaseCall DEF Values
  <1> HIDE DEF a, b, rest, second
  <1>9. /\ todo' \in Seq(Calls) /\ DOMAIN todo' = {1, 2} /\ todo'[1] = a /\ todo'[2] = b
        /\ \A o : InCalls(o)' = Bit(OwnedBy(a, o)) + Bit(OwnedBy(b, o))
    BY <1>1, <1>8, TwoCalls
  <1>10. Plain' /\ TodoInv'
    BY <1>8, <1>9, ReleasesLeft
  <1>11. FrameTypes'
    BY <1>1, <1>3, <1>5, <1>6, <1>9 DEF FrameTypes
  <1>12. \A o : InCalls(o)' = Bit(second = o) + Bit(Top = o)
    BY <1>8, <1>9 DEF Bit
  <1>13. ASSUME NEW o \in Addresses
        PROVE  refCount'[o] + OnStack(o) + Bit(exception = o) + forgotten[o]
               = refCount[o] + OnStack(o)' + InCalls(o)' + Bit(exception' = o) + forgotten'[o]
    <2> DEFINE x == Bit(second = o)  y == Bit(Top = o)  z == Bit(v = o)  e == Bit(exception = o)
    <2>1. /\ OnStack(o) \in Nat /\ OnStack(o)' \in Nat
          /\ x \in Nat /\ y \in Nat /\ z \in Nat /\ e \in Nat
      BY <1>3, <1>11, PartsAreNumbers, PartsAreNumbersNext DEF Bit
    <2>2. refCount[o] \in Nat /\ forgotten[o] \in Nat
      BY <1>3 DEF FrameTypes
    <2>3. /\ OnStack(o)' + x + y = OnStack(o) + z /\ refCount'[o] = refCount[o] + z
          /\ InCalls(o)' = x + y /\ Bit(exception' = o) = e
      BY <1>1, <1>5, <1>7, <1>12
    <2> HIDE DEF x, y, z, e
    <2>4. refCount'[o] + OnStack(o) + e + forgotten[o]
          = refCount[o] + OnStack(o)' + InCalls(o)' + e + forgotten'[o]
      BY <2>1, <2>2, <2>3
    <2> QED BY <2>3, <2>4 DEF e
  <1>14. /\ \A o \in Addresses \ InUse' : refCount'[o] = 0
         /\ \A o \in InUse' : refCount'[o] # 0
    BY <1>1, <1>2, RetainedInUse
  <1> QED BY <1>1, <1>2, <1>10, <1>11, <1>13, <1>14, OpcodeKeeps

(* POP uncounts the top at once; its object may have no count left until   *)
(* tryRelease has looked at it.                                            *)
LEMMA PopKeeps ==
    ASSUME FlowInv, Pop, UNCHANGED forgotten
    PROVE  FlowInv'
  <1> DEFINE call == Call("tryRelease", Top, 0)
  <1>1. /\ todo = <<>> /\ stack # <<>> /\ stack' = Below /\ Unmanaged
        /\ refCount' = (IF Top \in Addresses THEN [refCount EXCEPT ![Top] = @ - 1] ELSE refCount)
        /\ todo' = <<call>>
        /\ UNCHANGED <<local, exception, phase>>
    BY DEF Pop, AtOpcode, Checked, Looping, PopUncounted, Counted, AfterPop
  <1>2. StoreStep({}) /\ InUse' = InUse
    BY <1>1, UnmanagedStep
  <1>3. FrameTypes /\ refCount \in [Addresses -> Nat]
    BY DEF FlowInv, FrameTypes
  <1>4. /\ stack' \in Seq(Objects) /\ Top \in Objects
        /\ \A o : OnStack(o) = OnStack(o)' + Bit(Top = o)
    BY <1>1, <1>3, StackPopped
  <1>5. Top \in Addresses => Top \in InUse /\ refCount[Top] > 0
    BY <1>1, ValuesInUse, AtRest
  <1>6. /\ call \in Calls /\ call.op = "tryRelease" /\ call.obj = Top
        /\ \A o : ~OwnedBy(call, o)
    BY <1>4 DEF Call, Calls, Ops, OwnedBy, CallOwns, Values
  <1>7. ASSUME NEW o \in Addresses
        PROVE  refCount'[o] \in Nat /\ refCount[o] \in Nat /\ refCount[o] = refCount'[o] + Bit(Top = o)
    <2>1. CASE Top = o
      BY <1>1, <1>3, <1>5, <2>1 DEF Bit
    <2>2. CASE Top # o
      BY <1>1, <1>3, <2>2 DEF Bit
    <2> QED BY <2>1, <2>2
  <1>8. refCount' \in [Addresses -> Nat]
    <2>1. CASE Top \in Addresses
      BY <1>1, <1>3, <1>5, <2>1
    <2>2. CASE Top \notin Addresses
      BY <1>1, <1>3, <2>2
    <2> QED BY <2>1, <2>2
  <1> HIDE DEF call
  <1>9. /\ todo' \in Seq(Calls) /\ Len(todo') = 1 /\ DOMAIN todo' = {1} /\ todo'[1] = call
        /\ \A o : InCalls(o)' = Bit(OwnedBy(call, o))
    BY <1>1, <1>6, OneCall
  <1>10. Plain'
    BY <1>6, <1>9 DEF Plain, Replacing
  <1>11. TodoInv'
    <2>1. CallInv(1)'
      BY <1>2, <1>5, <1>6, <1>9 DEF CallInv, Replacing, Clearing
    <2> QED BY <1>9, <2>1 DEF TodoInv
  <1>12. FrameTypes'
    BY <1>1, <1>3, <1>4, <1>8, <1>9 DEF FrameTypes
  <1>13. \A o : InCalls(o)' = 0
    BY <1>6, <1>9 DEF Bit
  <1>14. ASSUME NEW o \in Addresses
        PROVE  refCount'[o] + OnStack(o) + Bit(exception = o) + forgotten[o]
               = refCount[o] + OnStack(o)' + InCalls(o)' + Bit(exception' = o) + forgotten'[o]
    <2> DEFINE x == Bit(Top = o)  e == Bit(exception = o)
    <2>1. /\ OnStack(o) \in Nat /\ OnStack(o)' \in Nat /\ x \in Nat /\ e \in Nat
      BY <1>3, <1>12, PartsAreNumbers, PartsAreNumbersNext DEF Bit
    <2>2. refCount[o] \in Nat /\ forgotten[o] \in Nat /\ refCount'[o] \in Nat
      BY <1>3, <1>7 DEF FrameTypes
    <2>3. /\ OnStack(o) = OnStack(o)' + x /\ refCount[o] = refCount'[o] + x
          /\ InCalls(o)' = 0 /\ Bit(exception' = o) = e
      BY <1>1, <1>4, <1>7, <1>13
    <2> HIDE DEF x, e
    <2>4. refCount'[o] + OnStack(o) + e + forgotten[o]
          = refCount[o] + OnStack(o)' + InCalls(o)' + e + forgotten'[o]
      BY <2>1, <2>2, <2>3
    <2> QED BY <2>3, <2>4 DEF e
  <1>15. \A o \in Addresses \ InUse' : refCount'[o] = 0
    <2> SUFFICES ASSUME NEW o \in Addresses \ InUse' PROVE refCount'[o] = 0
      OBVIOUS
    <2>1. refCount[o] = 0 /\ Top # o
      BY <1>1, <1>2, <1>5, AtRest
    <2> QED BY <1>7, <2>1 DEF Bit
  <1>16. \A o \in InUse' : refCount'[o] = 0 => PendingOn("tryRelease", o)'
    <2> SUFFICES ASSUME NEW o \in InUse', refCount'[o] = 0 PROVE PendingOn("tryRelease", o)'
      OBVIOUS
    <2>1. o \in InUse /\ o \in Addresses
      BY <1>2, StoreNumbers DEF FlowInv
    <2>2. refCount[o] > 0
      BY <1>1, <2>1, AtRest
    <2>3. Top = o
      BY <1>7, <2>1, <2>2 DEF Bit
    <2> QED BY <1>6, <1>9, <2>3 DEF PendingOn
  <1> QED BY <1>1, <1>2, <1>10, <1>11, <1>12, <1>14, <1>15, <1>16, OpcodeKeeps

(* The end of the frame leaves both clearings to do.                       *)
LEMMA EndKeeps ==
    ASSUME FlowInv, Unwind \/ EndFunction, UNCHANGED forgotten
    PROVE  FlowInv'
  <1>1. /\ todo = <<>> /\ Unmanaged /\ phase' = "ended"
        /\ UNCHANGED <<refCount, local, stack, exception>>
    BY DEF Unwind, EndFunction, AtOpcode, Checked, Looping
  <1>2. PICK a, b : /\ a \in Calls /\ b \in Calls /\ todo' = <<a, b>>
                    /\ a.op \in Clearing /\ b.op \in Clearing
                    /\ a.op = "clearLocals" => a.at = 1
                    /\ b.op = "clearLocals" => b.at = 1
    <2> DEFINE c == Call("clearLocals", Null, 1)
               d == Call("dropOperands", Null, 0)
    <2>1. /\ c \in Calls /\ d \in Calls /\ c.op = "clearLocals" /\ d.op = "dropOperands"
          /\ c.at = 1
      BY DEF Call, Calls, Ops, Clearing, Values
    <2>2. todo' = <<c, d>> \/ todo' = <<d, c>>
      BY DEF Unwind, EndFunction
    <2> HIDE DEF c, d
    <2> QED BY <2>1, <2>2 DEF Clearing
  <1>3. StoreStep({}) /\ InUse' = InUse
    BY <1>1, UnmanagedStep
  <1>4. FrameTypes
    BY DEF FlowInv
  <1>5. /\ todo' \in Seq(Calls) /\ Len(todo') = 2 /\ DOMAIN todo' = {1, 2}
        /\ todo'[1] = a /\ todo'[2] = b
        /\ \A o : InCalls(o)' = Bit(OwnedBy(a, o)) + Bit(OwnedBy(b, o))
    BY <1>2, TwoCalls
  <1>6. Plain'
    BY <1>2, <1>5 DEF Plain, Replacing, Clearing
  <1>7. TodoInv'
    <2>1. CallInv(1)' /\ CallInv(2)'
      BY <1>2, <1>5 DEF CallInv, Replacing, Clearing
    <2>2. a.op # "reclaim" /\ b.op # "reclaim"
      BY <1>2 DEF Clearing
    <2> QED BY <1>5, <2>1, <2>2 DEF TodoInv
  <1>8. FrameTypes'
    BY <1>1, <1>4, <1>5 DEF FrameTypes
  <1>9. \A o : InCalls(o)' = 0
    <2>1. \A o : ~OwnedBy(a, o) /\ ~OwnedBy(b, o)
      BY <1>2 DEF OwnedBy, CallOwns, Clearing
    <2> QED BY <1>5, <2>1 DEF Bit
  <1>10. ASSUME NEW o \in Addresses
        PROVE  refCount'[o] + OnStack(o) + Bit(exception = o) + forgotten[o]
               = refCount[o] + OnStack(o)' + InCalls(o)' + Bit(exception' = o) + forgotten'[o]
    <2>1. OnStack(o) \in Nat /\ OnStack(o)' = OnStack(o)
      BY <1>1, <1>4, PartsAreNumbers DEF OnStack, StackRefs
    <2>2. refCount[o] \in Nat /\ forgotten[o] \in Nat /\ Bit(exception = o) \in Nat
      BY <1>4 DEF FrameTypes, Bit
    <2> QED BY <1>1, <1>9, <2>1, <2>2
  <1>11. /\ \A o \in Addresses \ InUse' : refCount'[o] = 0
         /\ \A o \in InUse' : refCount'[o] # 0
    BY <1>1, <1>3, CountsUnchanged
  <1> QED BY <1>1, <1>3, <1>6, <1>7, <1>8, <1>10, <1>11, OpcodeKeeps

(***************************************************************************)
(* Opcodes that overwrite a local: from the moment the release of its old  *)
(* value is pending until the new one is written it owns nothing.          *)
(***************************************************************************)
LEMMA OverwriteKeeps ==
    ASSUME FlowInv, todo = <<>>, Unmanaged, NEW i \in Locals, NEW v \in Objects,
           NEW op \in {"setLocal", "cloneInto"},
           todo' = <<Call(op, v, i), Call("release", local[i], i)>>,
           UNCHANGED <<local, exception, phase, forgotten>>,
           refCount' \in [Addresses -> Nat], stack' \in Seq(Objects),
           \A o \in Addresses : refCount'[o] + OnStack(o)
                = refCount[o] + OnStack(o)' + Bit(op = "setLocal" /\ v = o),
           \A o \in Addresses \ InUse : refCount'[o] = 0,
           \A o \in InUse : refCount'[o] # 0
    PROVE  FlowInv'
  <1> DEFINE a == Call(op, v, i)
             b == Call("release", local[i], i)
  <1>1. FrameTypes
    BY DEF FlowInv
  <1>2. i \in Nat /\ local[i] \in Values
    BY <1>1, FlowAssumption DEF FrameTypes, Locals
  <1>3. StoreStep({}) /\ InUse' = InUse /\ UNCHANGED <<kind, member>>
    BY UnmanagedStep DEF Unmanaged
  <1>4. /\ a \in Calls /\ a.op = op /\ a.obj = v /\ a.at = i
        /\ b \in Calls /\ b.op = "release" /\ b.obj = local[i] /\ b.at = i
        /\ \A o : /\ OwnedBy(a, o) <=> op = "setLocal" /\ v = o
                  /\ OwnedBy(b, o) <=> local[i] = o
    BY <1>2 DEF Call, Calls, Ops, OwnedBy, CallOwns, Replacing, Values
  <1>5. todo' = <<a, b>>
    OBVIOUS
  <1> HIDE DEF a, b
  <1>6. /\ todo' \in Seq(Calls) /\ Len(todo') = 2 /\ DOMAIN todo' = {1, 2}
        /\ todo'[1] = a /\ todo'[2] = b
        /\ \A o : InCalls(o)' = Bit(OwnedBy(a, o)) + Bit(OwnedBy(b, o))
    BY <1>4, <1>5, TwoCalls
  <1>7. \A o : InCalls(o)' = Bit(op = "setLocal" /\ v = o) + Bit(local[i] = o)
    BY <1>4, <1>6 DEF Bit
  <1>8. FrameTypes'
    BY <1>1, <1>6 DEF FrameTypes
  <1>9. /\ \A j : LocalOwns(j)' <=> j # i
        /\ \A p : MemberOwns(p)' <=> p \in InUse
    <2>1. \A j : LocalOwns(j)' <=> j # i
      BY <1>4, <1>6 DEF LocalOwns, PendingAt
    <2>2. \A p : ~Dying(p)' /\ ~PendingOn("setMember", p)'
      BY <1>4, <1>6 DEF Dying, PendingOn
    <2> QED BY <1>3, <2>1, <2>2 DEF MemberOwns
  <1>10. /\ \A j : LocalOwns(j)
         /\ \A p : MemberOwns(p) <=> p \in InUse
         /\ \A o : InCalls(o) = 0
    BY AtRest, PlainOwns
  <1>11. ASSUME NEW o \in Addresses PROVE InLocals(o)' + Bit(local[i] = o) = InLocals(o)
    <2>1. \A j \in Locals \ {i} : LocalRef(j, o) <=> LocalRef(j, o)'
      BY <1>9, <1>10 DEF LocalRef
    <2>2. /\ LocalRef(i, o) <=> local[i] = o
          /\ ~LocalRef(i, o)'
      BY <1>9, <1>10 DEF LocalRef
    <2>3. Cardinality(LocalRefs(o)') + Bit(LocalRef(i, o))
             = Cardinality(LocalRefs(o)) + Bit(LocalRef(i, o)')
      BY <1>1, <2>1, FiniteRefs, LocalChanges
    <2>4. Bit(LocalRef(i, o)) = Bit(local[i] = o) /\ Bit(LocalRef(i, o)') = 0
      BY <2>2 DEF Bit
    <2>5. InLocals(o) \in Nat
      BY <1>1, PartsAreNumbers
    <2> QED BY <2>3, <2>4, <2>5 DEF InLocals
  <1>12. ASSUME NEW o \in Addresses PROVE InMembers(o)' = InMembers(o)
    <2>1. \A p \in Addresses : MemberRef(p, o) <=> MemberRef(p, o)'
      BY <1>3, <1>9, <1>10 DEF MemberRef
    <2> QED BY <2>1, MembersKept DEF InMembers
  <1>13. CountInv'
    <2> SUFFICES ASSUME NEW o \in Addresses
                 PROVE  refCount'[o] + InLocals(o) + OnStack(o) + InMembers(o) + InCalls(o)
                            + Bit(exception = o) + forgotten[o]
                        = refCount[o] + InLocals(o)' + OnStack(o)' + InMembers(o)' + InCalls(o)'
                            + Bit(exception' = o) + forgotten'[o]
      BY <1>8, CountsFollow
    <2> DEFINE l == InLocals(o)  s == OnStack(o)  m == InMembers(o)
               ln == InLocals(o)'  sn == OnStack(o)'
               e == Bit(exception = o)  r == refCount[o]  rn == refCount'[o]  f == forgotten[o]
               x == Bit(op = "setLocal" /\ v = o)  y == Bit(local[i] = o)
    <2>1. /\ l \in Nat /\ s \in Nat /\ m \in Nat /\ ln \in Nat /\ sn \in Nat
      BY <1>1, <1>8, PartsAreNumbers, PartsAreNumbersNext
    <2>2. /\ e \in Nat /\ r \in Nat /\ rn \in Nat /\ f \in Nat /\ x \in Nat /\ y \in Nat
      BY <1>1 DEF FrameTypes, Bit
    <2>3. /\ rn + s = r + sn + x /\ ln + y = l
          /\ InMembers(o)' = m /\ Bit(exception' = o) = e /\ forgotten'[o] = f
      BY <1>11, <1>12
    <2>4. InCalls(o) = 0 /\ InCalls(o)' = x + y
      BY <1>7, <1>10
    <2> HIDE DEF l, s, m, ln, sn, e, r, rn, f, x, y
    <2>5. rn + l + s + m + 0 + e + f = r + ln + sn + m + (x + y) + e + f
      BY <2>1, <2>2, <2>3
    <2> QED BY <2>3, <2>4, <2>5 DEF l, s, m, ln, sn, e, r, rn, f
  <1>14. TodoInv'
    <2>1. CallInv(1)' /\ CallInv(2)'
      BY <1>4, <1>6 DEF CallInv, Replacing, Clearing
    <2> QED BY <1>4, <1>6, <2>1 DEF TodoInv
  <1>15. IdleInv' /\ LiveInv' /\ StoreInv' /\ LimitInv'
    BY <1>3 DEF IdleInv, LiveInv, StoreStep, LimitInv
  <1> QED BY <1>8, <1>13, <1>14, <1>15 DEF FlowInv

(* STORE_LOCAL.                                                            *)
LEMMA StoreLocalKeeps ==
    ASSUME FlowInv, NEW i \in Locals, StoreLocal(i), UNCHANGED forgotten
    PROVE  FlowInv'
  <1>1. /\ todo = <<>> /\ stack # <<>> /\ stack' = Below /\ Unmanaged
        /\ todo' = <<Call("setLocal", Top, i), Call("release", local[i], i)>>
        /\ UNCHANGED <<refCount, local, exception, phase>>
    BY DEF StoreLocal, AtOpcode, Checked, Looping, Overwrite
  <1>2. FrameTypes /\ refCount \in [Addresses -> Nat]
    BY DEF FlowInv, FrameTypes
  <1>3. /\ stack' \in Seq(Objects) /\ Top \in Objects
        /\ \A o : OnStack(o) = OnStack(o)' + Bit(Top = o)
    BY <1>1, <1>2, StackPopped
  <1>4. ASSUME NEW o \in Addresses
        PROVE  refCount'[o] + OnStack(o)
                  = refCount[o] + OnStack(o)' + Bit("setLocal" = "setLocal" /\ Top = o)
    <2> DEFINE x == Bit("setLocal" = "setLocal" /\ Top = o)
    <2>1. OnStack(o) \in Nat /\ x \in Nat /\ refCount[o] \in Nat /\ x = Bit(Top = o)
      BY <1>2, PartsAreNumbers DEF Bit
    <2>2. OnStack(o)' \in Nat
      BY <1>1, <1>2, StackPopped
    <2> HIDE DEF x
    <2>3. refCount'[o] + OnStack(o) = refCount[o] + OnStack(o)' + x
      BY <1>1, <1>3, <2>1, <2>2
    <2> QED BY <2>3 DEF x
  <1>5. /\ \A o \in Addresses \ InUse : refCount'[o] = 0
        /\ \A o \in InUse : refCount'[o] # 0
    BY <1>1, AtRest
  <1> QED BY <1>1, <1>2, <1>3, <1>4, <1>5, OverwriteKeeps

(* LOCAL_STORE_LOCAL.                                                      *)
LEMMA LocalStoreLocalKeeps ==
    ASSUME FlowInv, NEW i \in Locals, NEW j \in Locals, LocalStoreLocal(i, j),
           UNCHANGED forgotten
    PROVE  FlowInv'
  <1> DEFINE v == local[j]
  <1>1. /\ todo = <<>> /\ v # Null /\ Unmanaged /\ refCount' = Retained(v, refCount)
        /\ todo' = <<Call("setLocal", v, i), Call("release", local[i], i)>>
        /\ UNCHANGED <<local, stack, exception, phase>>
    BY DEF LocalStoreLocal, AtOpcode, Checked, Looping, Overwrite, NewReference, frameVars
  <1>2. FrameTypes /\ refCount \in [Addresses -> Nat] /\ v \in Objects
        /\ stack \in Seq(Objects)
    BY <1>1 DEF FlowInv, FrameTypes, Values
  <1>3. StoreStep({}) /\ InUse' = InUse
    BY <1>1, UnmanagedStep
  <1>4. v \in Addresses => v \in InUse
    BY <1>1, ValuesInUse
  <1> HIDE DEF v
  <1>5. /\ refCount' \in [Addresses -> Nat]
        /\ \A o \in Addresses : refCount'[o] = refCount[o] + Bit(v = o)
    BY <1>1, <1>2, RetainedCounts
  <1>6. ASSUME NEW o \in Addresses
        PROVE  refCount'[o] + OnStack(o)
                  = refCount[o] + OnStack(o)' + Bit("setLocal" = "setLocal" /\ v = o)
    <2> DEFINE x == Bit("setLocal" = "setLocal" /\ v = o)
    <2>1. OnStack(o) \in Nat /\ x \in Nat /\ refCount[o] \in Nat /\ x = Bit(v = o)
      BY <1>2, PartsAreNumbers DEF Bit
    <2>2. OnStack(o)' = OnStack(o)
      BY <1>1 DEF OnStack, StackRefs
    <2> HIDE DEF x
    <2>3. refCount'[o] + OnStack(o) = refCount[o] + OnStack(o)' + x
      BY <1>5, <2>1, <2>2
    <2> QED BY <2>3 DEF x
  <1>7. /\ \A o \in Addresses \ InUse' : refCount'[o] = 0
        /\ \A o \in InUse' : refCount'[o] # 0
    BY <1>1, <1>3, <1>4, RetainedInUse
  <1>8. stack' \in Seq(Objects)
    BY <1>1, <1>2
  <1> QED BY <1>1, <1>2, <1>3, <1>5, <1>6, <1>7, <1>8, OverwriteKeeps

(* LOCAL_STORE_LOCAL_CLONE.                                                *)
LEMMA LocalStoreLocalCloneKeeps ==
    ASSUME FlowInv, NEW i \in Locals, NEW j \in Locals, LocalStoreLocalClone(i, j),
           UNCHANGED forgotten
    PROVE  FlowInv'
  <1> DEFINE v == local[j]
  <1>1. /\ todo = <<>> /\ v # Null /\ Unmanaged
        /\ todo' = <<Call("cloneInto", v, i), Call("release", local[i], i)>>
        /\ UNCHANGED <<refCount, local, stack, exception, phase>>
    BY DEF LocalStoreLocalClone, AtOpcode, Checked, Looping, frameVars
  <1>2. FrameTypes /\ refCount \in [Addresses -> Nat] /\ v \in Objects
        /\ stack \in Seq(Objects)
    BY <1>1 DEF FlowInv, FrameTypes, Values
  <1> HIDE DEF v
  <1>3. ASSUME NEW o \in Addresses
        PROVE  refCount'[o] + OnStack(o)
                  = refCount[o] + OnStack(o)' + Bit("cloneInto" = "setLocal" /\ v = o)
    <2> DEFINE x == Bit("cloneInto" = "setLocal" /\ v = o)
    <2>1. OnStack(o) \in Nat /\ refCount[o] \in Nat /\ x = 0
      BY <1>2, PartsAreNumbers DEF Bit
    <2>2. OnStack(o)' = OnStack(o)
      BY <1>1 DEF OnStack, StackRefs
    <2> HIDE DEF x
    <2>3. refCount'[o] + OnStack(o) = refCount[o] + OnStack(o)' + x
      BY <1>1, <2>1, <2>2
    <2> QED BY <2>3 DEF x
  <1>4. /\ \A o \in Addresses \ InUse : refCount'[o] = 0
        /\ \A o \in InUse : refCount'[o] # 0
    BY <1>1, AtRest
  <1>5. refCount' \in [Addresses -> Nat] /\ stack' \in Seq(Objects)
    BY <1>1, <1>2
  <1> QED BY <1>1, <1>2, <1>3, <1>4, <1>5, OverwriteKeeps

(***************************************************************************)
(* Opcodes that overwrite a member.                                        *)
(***************************************************************************)
LEMMA StoreMemberKeeps ==
    ASSUME FlowInv, StoreMember, UNCHANGED forgotten
    PROVE  FlowInv'
  <1>0. PICK p : p = Top
    OBVIOUS
  <1> DEFINE a == Call("setMember", p, 0)
             b == Call("release", member[p], 0)
  <1>1. /\ todo = <<>> /\ Len(stack) >= 2 /\ p \in Addresses /\ kind[p] = "obj"
        /\ stack' = Below /\ todo' = <<a, b>> /\ Unmanaged
        /\ UNCHANGED <<refCount, local, exception, phase>>
    BY <1>0 DEF StoreMember, AtOpcode, Checked, Looping, IsParent, Counted
  <1>2. /\ FrameTypes /\ stack \in Seq(Objects) /\ stack # <<>>
        /\ refCount \in [Addresses -> Nat] /\ member[p] \in Values
    <2>1. stack \in Seq(Objects)
      BY DEF FlowInv, FrameTypes
    <2> QED BY <1>1, <2>1, EmptySeq DEF FlowInv, FrameTypes, StoreInv, StoreTypes
  <1>3. /\ stack' \in Seq(Objects) /\ stack' # <<>>
        /\ \A o : OnStack(o)' \in Nat /\ OnStack(o) = OnStack(o)' + Bit(p = o)
    <2>1. Len(Below) = Len(stack) - 1 /\ Below \in Seq(Objects) /\ Len(stack) \in Nat
      BY <1>2, FrontAndLast DEF Below
    <2>2. Below # <<>>
      BY <1>1, <2>1, EmptySeq
    <2>3. /\ stack' \in Seq(Objects)
          /\ \A o : OnStack(o)' \in Nat /\ OnStack(o) = OnStack(o)' + Bit(Top = o)
      BY <1>1, <1>2, StackPopped
    <2> QED BY <1>0, <1>1, <2>2, <2>3
  <1>4. StoreStep({}) /\ InUse' = InUse /\ UNCHANGED <<kind, member>>
    BY <1>1, UnmanagedStep DEF Unmanaged
  <1>5. /\ a \in Calls /\ a.op = "setMember" /\ a.obj = p
        /\ b \in Calls /\ b.op = "release" /\ b.obj = member[p]
        /\ \A o : /\ OwnedBy(a, o) <=> p = o
                  /\ OwnedBy(b, o) <=> member[p] = o
    BY <1>1, <1>2 DEF Call, Calls, Ops, OwnedBy, CallOwns, Replacing, Values, Objects
  <1> HIDE DEF a, b
  <1>6. /\ todo' \in Seq(Calls) /\ Len(todo') = 2 /\ DOMAIN todo' = {1, 2}
        /\ todo'[1] = a /\ todo'[2] = b
        /\ \A o : InCalls(o)' = Bit(OwnedBy(a, o)) + Bit(OwnedBy(b, o))
    BY <1>1, <1>5, TwoCalls
  <1>7. \A o : InCalls(o)' = Bit(p = o) + Bit(member[p] = o)
    BY <1>5, <1>6 DEF Bit
  <1>8. FrameTypes'
    BY <1>1, <1>2, <1>3, <1>6 DEF FrameTypes
  <1>9. /\ \A j : LocalOwns(j)'
        /\ \A q : MemberOwns(q)' <=> q \in InUse /\ q # p
    <2>1. \A j : LocalOwns(j)'
      BY <1>5, <1>6 DEF LocalOwns, PendingAt
    <2>2. \A q : ~Dying(q)' /\ (PendingOn("setMember", q)' <=> q = p)
      BY <1>5, <1>6 DEF Dying, PendingOn
    <2> QED BY <1>4, <2>1, <2>2 DEF MemberOwns
  <1>10. /\ \A j : LocalOwns(j)
         /\ \A q : MemberOwns(q) <=> q \in InUse
         /\ \A o : InCalls(o) = 0
    BY <1>1, AtRest, PlainOwns
  <1>11. ASSUME NEW o \in Addresses PROVE InLocals(o)' = InLocals(o)
    <2>1. \A j \in Locals : LocalRef(j, o) <=> LocalRef(j, o)'
      BY <1>1, <1>9, <1>10 DEF LocalRef
    <2> QED BY <2>1, LocalsKept DEF InLocals
  <1>12. ASSUME NEW o \in Addresses PROVE InMembers(o)' + Bit(member[p] = o) = InMembers(o)
    <2>1. \A q \in Addresses \ {p} : MemberRef(q, o) <=> MemberRef(q, o)'
      BY <1>4, <1>9, <1>10 DEF MemberRef
    <2>2. p \in InUse
      BY <1>1, ValuesInUse
    <2>3. /\ MemberRef(p, o) <=> member[p] = o
          /\ ~MemberRef(p, o)'
      BY <1>1, <1>9, <1>10, <2>2 DEF MemberRef
    <2>4. Cardinality(MemberRefs(o)') + Bit(MemberRef(p, o))
             = Cardinality(MemberRefs(o)) + Bit(MemberRef(p, o)')
      BY <1>1, <1>2, <2>1, FiniteRefs, MemberChanges
    <2>5. Bit(MemberRef(p, o)) = Bit(member[p] = o) /\ Bit(MemberRef(p, o)') = 0
      BY <2>3 DEF Bit
    <2>6. InMembers(o) \in Nat
      BY <1>2, PartsAreNumbers
    <2> QED BY <2>4, <2>5, <2>6 DEF InMembers
  <1>13. CountInv'
    <2> SUFFICES ASSUME NEW o \in Addresses
                 PROVE  refCount'[o] + InLocals(o) + OnStack(o) + InMembers(o) + InCalls(o)
                            + Bit(exception = o) + forgotten[o]
                        = refCount[o] + InLocals(o)' + OnStack(o)' + InMembers(o)' + InCalls(o)'
                            + Bit(exception' = o) + forgotten'[o]
      BY <1>8, CountsFollow
    <2> DEFINE l == InLocals(o)  s == OnStack(o)  m == InMembers(o)
               mn == InMembers(o)'  sn == OnStack(o)'
               e == Bit(exception = o)  r == refCount[o]  f == forgotten[o]
               x == Bit(p = o)  y == Bit(member[p] = o)
    <2>1. /\ l \in Nat /\ s \in Nat /\ m \in Nat /\ mn \in Nat /\ sn \in Nat
      BY <1>2, <1>8, PartsAreNumbers, PartsAreNumbersNext
    <2>2. /\ e \in Nat /\ r \in Nat /\ f \in Nat /\ x \in Nat /\ y \in Nat
      BY <1>2 DEF FrameTypes, Bit
    <2>3. /\ s = sn + x /\ mn + y = m /\ refCount'[o] = r
          /\ InLocals(o)' = l /\ Bit(exception' = o) = e /\ forgotten'[o] = f
      BY <1>1, <1>3, <1>11, <1>12
    <2>4. InCalls(o) = 0 /\ InCalls(o)' = x + y
      BY <1>7, <1>10
    <2> HIDE DEF l, s, m, mn, sn, e, r, f, x, y
    <2>5. r + l + s + m + 0 + e + f = r + l + sn + mn + (x + y) + e + f
      BY <2>1, <2>2, <2>3
    <2> QED BY <2>3, <2>4, <2>5 DEF l, s, m, mn, sn, e, r, f
  <1>14. TodoInv'
    <2>1. CallInv(1)' /\ CallInv(2)'
      BY <1>1, <1>3, <1>4, <1>5, <1>6 DEF CallInv, Replacing, Clearing
    <2> QED BY <1>5, <1>6, <2>1 DEF TodoInv
  <1>15. IdleInv' /\ LiveInv' /\ StoreInv' /\ LimitInv'
    <2>1. /\ \A o \in Addresses \ InUse' : refCount'[o] = 0
          /\ \A o \in InUse' : refCount'[o] # 0
      BY <1>1, <1>4, CountsUnchanged
    <2> QED BY <1>4, <2>1 DEF IdleInv, LiveInv, StoreStep, LimitInv
  <1> QED BY <1>8, <1>13, <1>14, <1>15 DEF FlowInv

(* Writing a member moves no memory.                                       *)
LEMMA MemberStore ==
    ASSUME StoreInv, NEW p \in Addresses, kind[p] = "obj", NEW v \in Objects,
           member' = [member EXCEPT ![p] = v], UNCHANGED <<allocVars, kind, pool>>
    PROVE  StoreInv' /\ InUse' = InUse
  <1>1. /\ UNCHANGED <<countObject, freeSlot, nextFree, isFree, held,
                       currentManagedMemory, changedMemory>>
        /\ InUse' = InUse /\ kind' = kind /\ pool' = pool
    BY DEF allocVars, arenaVars, InUse
  <1>2. /\ member' \in [Addresses -> Values]
        /\ \A q \in Addresses : member'[q] = IF q = p THEN v ELSE member[q]
    <2>1. member \in [Addresses -> Values] /\ v \in Values
      BY DEF StoreInv, StoreTypes, Values
    <2> QED BY <2>1
  <1>3. ListInv'
    <2>1. ListInv /\ isFree' \in SUBSET Slots
      BY <1>1 DEF StoreInv, StoreTypes, ListInv, ArenaTypeOK
    <2>2. currentManagedMemory' \in Nat /\ changedMemory' \in BOOLEAN
      BY <1>1, StoreNumbers
    <2> QED BY <1>1, <2>1, <2>2, SlotsUntouched
  <1>4. StoreTypes' /\ PoolInv'
    BY <1>1, <1>2, <1>3 DEF StoreInv, StoreTypes, PoolInv
  <1>5. MemoryMatchesObjects'
    BY <1>1 DEF StoreInv, MemoryMatchesObjects
  <1>6. \A o \in Addresses : kind'[o] = "int" => member'[o] = Null
    BY <1>1, <1>2 DEF StoreInv
  <1> QED BY <1>1, <1>4, <1>5, <1>6 DEF StoreInv

(* LOCAL_LOAD_MEMBER_AND_STORE: the reference the member held is released  *)
(* by nothing; the operand's passes to the member.                         *)
LEMMA InitializeMemberKeeps ==
    ASSUME FlowInv, NEW i \in Locals, LocalLoadMemberAndStore(i)
    PROVE  FlowInv'
  <1>0. PICK p, v, old : p = local[i] /\ v = Top /\ old = member[p]
    OBVIOUS
  <1>1. /\ todo = <<>> /\ stack # <<>> /\ p \in Addresses /\ kind[p] = "obj"
        /\ stack' = Below /\ member' = [member EXCEPT ![p] = v]
        /\ forgotten' = Forgetting(old)
        /\ UNCHANGED <<allocVars, kind, pool, refCount, todo, local, exception, phase>>
    BY <1>0 DEF LocalLoadMemberAndStore, AtOpcode, Checked, Looping, IsParent, Counted
  <1>2. /\ FrameTypes /\ member \in [Addresses -> Values] /\ old \in Values
        /\ forgotten \in [Addresses -> Nat] /\ todo' = <<>>
    BY <1>0, <1>1 DEF FlowInv, FrameTypes, StoreInv, StoreTypes
  <1>3. /\ stack' \in Seq(Objects) /\ v \in Objects
        /\ \A o : OnStack(o)' \in Nat /\ OnStack(o) = OnStack(o)' + Bit(v = o)
    BY <1>0, <1>1, <1>2, StackPopped
  <1>4. \A q \in Addresses : member'[q] = IF q = p THEN v ELSE member[q]
    BY <1>1, <1>2
  <1>5. /\ forgotten' \in [Addresses -> Nat]
        /\ \A o \in Addresses : forgotten'[o] = forgotten[o] + Bit(old = o)
    <2>1. CASE old \in Addresses
      BY <1>1, <1>2, <2>1 DEF Forgetting, Counted, Bit
    <2>2. CASE old \notin Addresses
      BY <1>1, <1>2, <2>2 DEF Forgetting, Counted, Bit
    <2> QED BY <2>1, <2>2
  <1>6. /\ UNCHANGED <<countObject, freeSlot, nextFree, isFree, held,
                       currentManagedMemory, changedMemory>>
        /\ InUse' = InUse
    BY <1>1 DEF allocVars, arenaVars, InUse
  <1>7. StoreInv'
    BY <1>1, <1>3, MemberStore DEF FlowInv
  <1>8. FrameTypes'
    BY <1>1, <1>2, <1>3, <1>5 DEF FrameTypes
  <1>9. Plain' /\ TodoInv' /\ \A o : InCalls(o)' = 0
    BY <1>2, NoneLeft
  <1>10. /\ \A j : LocalOwns(j) /\ LocalOwns(j)'
         /\ \A q : (MemberOwns(q) <=> q \in InUse) /\ (MemberOwns(q)' <=> q \in InUse)
         /\ \A o : InCalls(o) = 0
    BY <1>1, <1>6, <1>9, AtRest, PlainOwns, PlainOwnsNext
  <1>11. ASSUME NEW o \in Addresses PROVE InLocals(o)' = InLocals(o)
    <2>1. \A j \in Locals : LocalRef(j, o) <=> LocalRef(j, o)'
      BY <1>1, <1>10 DEF LocalRef
    <2> QED BY <2>1, LocalsKept DEF InLocals
  <1>12. ASSUME NEW o \in Addresses
         PROVE  InMembers(o)' + Bit(old = o) = InMembers(o) + Bit(v = o)
    <2>1. \A q \in Addresses \ {p} : MemberRef(q, o) <=> MemberRef(q, o)'
      BY <1>1, <1>4, <1>10 DEF MemberRef
    <2>2. p \in InUse
      BY <1>1, ValuesInUse
    <2>3. (MemberRef(p, o) <=> old = o) /\ (MemberRef(p, o)' <=> v = o)
      BY <1>0, <1>1, <1>4, <1>10, <2>2 DEF MemberRef
    <2>4. Cardinality(MemberRefs(o)') + Bit(MemberRef(p, o))
             = Cardinality(MemberRefs(o)) + Bit(MemberRef(p, o)')
      BY <1>1, <1>2, <2>1, FiniteRefs, MemberChanges
    <2>5. Bit(MemberRef(p, o)) = Bit(old = o) /\ Bit(MemberRef(p, o)') = Bit(v = o)
      BY <2>3 DEF Bit
    <2> QED BY <2>4, <2>5 DEF InMembers
  <1>13. CountInv'
    <2> SUFFICES ASSUME NEW o \in Addresses
                 PROVE  refCount'[o] + InLocals(o) + OnStack(o) + InMembers(o) + InCalls(o)
                            + Bit(exception = o) + forgotten[o]
                        = refCount[o] + InLocals(o)' + OnStack(o)' + InMembers(o)' + InCalls(o)'
                            + Bit(exception' = o) + forgotten'[o]
      BY <1>8, CountsFollow
    <2> DEFINE l == InLocals(o)  s == OnStack(o)  m == InMembers(o)
               mn == InMembers(o)'  sn == OnStack(o)'
               e == Bit(exception = o)  r == refCount[o]  f == forgotten[o]
               x == Bit(v = o)  y == Bit(old = o)
    <2>1. /\ l \in Nat /\ s \in Nat /\ m \in Nat /\ mn \in Nat /\ sn \in Nat
      BY <1>2, <1>8, PartsAreNumbers, PartsAreNumbersNext
    <2>2. /\ e \in Nat /\ r \in Nat /\ f \in Nat /\ x \in Nat /\ y \in Nat
      BY <1>2 DEF FrameTypes, Bit
    <2>3. /\ s = sn + x /\ mn + y = m + x /\ refCount'[o] = r
          /\ InLocals(o)' = l /\ Bit(exception' = o) = e /\ forgotten'[o] = f + y
      BY <1>1, <1>3, <1>5, <1>11, <1>12
    <2>4. InCalls(o) = 0 /\ InCalls(o)' = 0
      BY <1>9, <1>10
    <2> HIDE DEF l, s, m, mn, sn, e, r, f, x, y
    <2>5. r + l + s + m + 0 + e + f = r + l + sn + mn + 0 + e + (f + y)
      BY <2>1, <2>2, <2>3
    <2> QED BY <2>3, <2>4, <2>5 DEF l, s, m, mn, sn, e, r, f
  <1>14. IdleInv' /\ LiveInv' /\ LimitInv'
    <2>1. /\ \A o \in Addresses \ InUse' : refCount'[o] = 0
          /\ \A o \in InUse' : refCount'[o] # 0
      BY <1>1, <1>6, CountsUnchanged
    <2> QED BY <1>1, <1>6, <2>1 DEF IdleInv, LiveInv, LimitInv, FlowInv
  <1> QED BY <1>7, <1>8, <1>9, <1>13, <1>14 DEF FlowInv

(***************************************************************************)
(* A call of the cascade returns, after making the calls in then.          *)
(***************************************************************************)
LEMMA Returned ==
    ASSUME FrameTypes, todo # <<>>, NEW then \in Seq(Calls), Return(then)
    PROVE  /\ todo \in Seq(Calls) /\ Len(todo) \in Nat \ {0} /\ DOMAIN todo = 1 .. Len(todo)
           /\ Last(todo) \in Calls /\ todo[Len(todo)] = Last(todo)
           /\ todo' \in Seq(Calls) /\ Len(todo') = Len(todo) - 1 + Len(then)
           /\ DOMAIN todo' = 1 .. Len(todo) - 1 + Len(then)
           /\ \A n \in 1 .. Len(todo) - 1 : todo'[n] = todo[n]
           /\ \A n \in 1 .. Len(then) : todo'[Len(todo) - 1 + n] = then[n]
  <1>1. /\ todo \in Seq(Calls) /\ Len(todo) \in Nat \ {0} /\ DOMAIN todo = 1 .. Len(todo)
        /\ Last(todo) \in Calls /\ todo[Len(todo)] = Last(todo)
        /\ Front(todo) \in Seq(Calls) /\ Len(Front(todo)) = Len(todo) - 1
        /\ \A n \in 1 .. Len(todo) - 1 : Front(todo)[n] = todo[n]
    <2>1. todo \in Seq(Calls)
      BY DEF FrameTypes
    <2> QED BY <2>1, FrontAndLast, LenProperties
  <1> DEFINE front == Front(todo)
             both == front \o then
  <1>2. front \in Seq(Calls) /\ then \in Seq(Calls) /\ todo' = both
    BY <1>1 DEF Return
  <1>3. Len(front) \in Nat /\ Len(then) \in Nat /\ Len(front) = Len(todo) - 1
    BY <1>1, <1>2, LenProperties
  <1> HIDE DEF front
  <1>4. /\ both \in Seq(Calls) /\ Len(both) = Len(front) + Len(then)
        /\ \A i \in 1 .. Len(front) + Len(then) :
              both[i] = IF i <= Len(front) THEN front[i] ELSE then[i - Len(front)]
    BY <1>2, ConcatProperties
  <1> HIDE DEF both
  <1>5. \A n \in 1 .. Len(front) : both[n] = front[n]
    BY <1>3, <1>4
  <1>6. \A n \in 1 .. Len(then) : both[Len(front) + n] = then[n]
    <2> SUFFICES ASSUME NEW n \in 1 .. Len(then) PROVE both[Len(front) + n] = then[n]
      OBVIOUS
    <2> DEFINE f == Len(front)
    <2>1. f \in Nat /\ f + n \in 1 .. f + Len(then) /\ ~(f + n <= f) /\ f + n - f = n
      BY <1>3
    <2> HIDE DEF f
    <2> QED BY <1>4, <2>1 DEF f
  <1>7. DOMAIN both = 1 .. Len(front) + Len(then)
    BY <1>4, LenProperties
  <1> QED BY <1>1, <1>2, <1>3, <1>4, <1>5, <1>6, <1>7 DEF front

(* The references calls own, when the last call returns and makes none,    *)
(* one or two.                                                             *)
LEMMA CallsAfterNone ==
    ASSUME FrameTypes, todo # <<>>, Return(<<>>)
    PROVE  \A o : InCalls(o)' \in Nat /\ InCalls(o)' + Bit(OwnedBy(Last(todo), o)) = InCalls(o)
  <1>1. todo \in Seq(Calls) /\ Front(todo) \in Seq(Calls)
    BY FrontAndLast DEF FrameTypes
  <1>2. todo' = Front(todo)
    BY <1>1, ConcatEmptySeq DEF Return
  <1>3. \A o : CallRefs(o)' = OwningCalls(todo', o) /\ CallRefs(o) = OwningCalls(todo, o)
    BY DEF CallRefs, OwningCalls, OwnedBy
  <1> QED BY <1>1, <1>2, <1>3, CallPopped DEF InCalls

(* The references of the pending calls when the call at hand makes one     *)
(* more.                                                                   *)
LEMMA CallsAfterOne ==
    ASSUME FrameTypes, todo # <<>>, NEW a \in Calls, Return(<<a>>)
    PROVE  \A o : InCalls(o)' + Bit(OwnedBy(Last(todo), o)) = InCalls(o) + Bit(OwnedBy(a, o))
  <1>1. todo \in Seq(Calls) /\ Front(todo) \in Seq(Calls)
    BY FrontAndLast DEF FrameTypes
  <1>2. todo' = Append(Front(todo), a)
    BY <1>1, ConcatOne DEF Return
  <1>3. \A o : CallRefs(o)' = OwningCalls(todo', o) /\ CallRefs(o) = OwningCalls(todo, o)
    BY DEF CallRefs, OwningCalls, OwnedBy
  <1>4. ASSUME NEW o
        PROVE  InCalls(o)' + Bit(OwnedBy(Last(todo), o)) = InCalls(o) + Bit(OwnedBy(a, o))
    <2> DEFINE c == Cardinality(OwningCalls(Front(todo), o))
               x == Bit(OwnedBy(Last(todo), o))
               y == Bit(OwnedBy(a, o))
    <2>1. c \in Nat /\ InCalls(o) = c + x
      BY <1>1, <1>3, CallPopped DEF InCalls
    <2>2. InCalls(o)' = c + y
      BY <1>1, <1>2, <1>3, CallPushed DEF InCalls
    <2>3. x \in Nat /\ y \in Nat
      BY DEF Bit
    <2> HIDE DEF c, x, y
    <2>4. InCalls(o)' + x = InCalls(o) + y
      BY <2>1, <2>2, <2>3
    <2> QED BY <2>4 DEF x, y
  <1> QED BY <1>4

(* The same when it makes two.                                             *)
LEMMA CallsAfterTwo ==
    ASSUME FrameTypes, todo # <<>>, NEW a \in Calls, NEW b \in Calls, Return(<<a, b>>)
    PROVE  \A o : InCalls(o)' + Bit(OwnedBy(Last(todo), o))
                  = InCalls(o) + Bit(OwnedBy(a, o)) + Bit(OwnedBy(b, o))
  <1>1. todo \in Seq(Calls) /\ Front(todo) \in Seq(Calls)
    BY FrontAndLast DEF FrameTypes
  <1> DEFINE mid == Append(Front(todo), a)
  <1>2. mid \in Seq(Calls) /\ todo' = Append(mid, b)
    BY <1>1, ConcatTwo, AppendProperties DEF Return
  <1>3. \A o : CallRefs(o)' = OwningCalls(todo', o) /\ CallRefs(o) = OwningCalls(todo, o)
    BY DEF CallRefs, OwningCalls, OwnedBy
  <1>4. ASSUME NEW o
        PROVE  InCalls(o)' + Bit(OwnedBy(Last(todo), o))
               = InCalls(o) + Bit(OwnedBy(a, o)) + Bit(OwnedBy(b, o))
    <2> DEFINE c == Cardinality(OwningCalls(Front(todo), o))
               d == Cardinality(OwningCalls(mid, o))
               x == Bit(OwnedBy(Last(todo), o))
               y == Bit(OwnedBy(a, o))
               z == Bit(OwnedBy(b, o))
    <2>1. c \in Nat /\ InCalls(o) = c + x
      BY <1>1, <1>3, CallPopped DEF InCalls
    <2>2. d = c + y
      BY <1>1, CallPushed
    <2> HIDE DEF mid
    <2>3. InCalls(o)' = d + z
      BY <1>2, <1>3, CallPushed DEF InCalls
    <2>4. x \in Nat /\ y \in Nat /\ z \in Nat
      BY DEF Bit
    <2> HIDE DEF c, d, x, y, z
    <2>5. InCalls(o)' + x = InCalls(o) + y + z
      BY <2>1, <2>2, <2>3, <2>4
    <2> QED BY <2>5 DEF x, y, z
  <1> QED BY <1>4

(* What is pending after a call returned.                                  *)
LEMMA PendingAfter ==
    ASSUME FrameTypes, todo # <<>>, NEW then \in Seq(Calls), Return(then), NEW op, NEW x
    PROVE  /\ PendingOn(op, x)' <=>
                 \/ \E n \in 1 .. Len(todo) - 1 : todo[n].op = op /\ todo[n].obj = x
                 \/ \E n \in 1 .. Len(then) : then[n].op = op /\ then[n].obj = x
           /\ PendingOn(op, x) <=>
                 \/ \E n \in 1 .. Len(todo) - 1 : todo[n].op = op /\ todo[n].obj = x
                 \/ Last(todo).op = op /\ Last(todo).obj = x
           /\ PendingAt(op, x)' <=>
                 \/ \E n \in 1 .. Len(todo) - 1 : todo[n].op = op /\ todo[n].at = x
                 \/ \E n \in 1 .. Len(then) : then[n].op = op /\ then[n].at = x
           /\ PendingAt(op, x) <=>
                 \/ \E n \in 1 .. Len(todo) - 1 : todo[n].op = op /\ todo[n].at = x
                 \/ Last(todo).op = op /\ Last(todo).at = x
  <1> DEFINE l == Len(todo)
             k == Len(then)
  <1>1. /\ l \in Nat \ {0} /\ DOMAIN todo = 1 .. l /\ todo[l] = Last(todo)
        /\ DOMAIN todo' = 1 .. l - 1 + k
        /\ \A n \in 1 .. l - 1 : todo'[n] = todo[n]
        /\ \A n \in 1 .. k : todo'[l - 1 + n] = then[n]
    BY Returned
  <1>2. k \in Nat
    BY LenProperties
  <1> HIDE DEF l, k
  <1>3. \A n \in 1 .. l - 1 + k : n \in 1 .. l - 1 \/ \E m \in 1 .. k : n = l - 1 + m
    <2> SUFFICES ASSUME NEW n \in 1 .. l - 1 + k, n \notin 1 .. l - 1
                 PROVE  \E m \in 1 .. k : n = l - 1 + m
      OBVIOUS
    <2>1. n - (l - 1) \in 1 .. k /\ n = l - 1 + (n - (l - 1))
      BY <1>1, <1>2
    <2> QED BY <2>1
  <1>4. /\ \A n \in 1 .. l - 1 : n \in DOMAIN todo /\ n \in DOMAIN todo'
        /\ \A m \in 1 .. k : l - 1 + m \in DOMAIN todo'
        /\ l \in DOMAIN todo
    BY <1>1, <1>2
  <1>5. \A n \in DOMAIN todo : n \in 1 .. l - 1 \/ n = l
    BY <1>1
  <1>6. \A n \in DOMAIN todo' : n \in 1 .. l - 1 \/ \E m \in 1 .. k : n = l - 1 + m
    BY <1>1, <1>3
  <1>7. /\ \A n \in 1 .. l - 1 : todo'[n] = todo[n]
        /\ \A n \in 1 .. k : todo'[l - 1 + n] = then[n]
        /\ todo[l] = Last(todo)
    BY <1>1
  <1>8. PendingOn(op, x)' <=>
           \/ \E n \in 1 .. l - 1 : todo[n].op = op /\ todo[n].obj = x
           \/ \E n \in 1 .. k : then[n].op = op /\ then[n].obj = x
    BY <1>4, <1>6, <1>7 DEF PendingOn
  <1>9. PendingOn(op, x) <=>
           \/ \E n \in 1 .. l - 1 : todo[n].op = op /\ todo[n].obj = x
           \/ Last(todo).op = op /\ Last(todo).obj = x
    BY <1>4, <1>5, <1>7 DEF PendingOn
  <1>10. PendingAt(op, x)' <=>
           \/ \E n \in 1 .. l - 1 : todo[n].op = op /\ todo[n].at = x
           \/ \E n \in 1 .. k : then[n].op = op /\ then[n].at = x
    BY <1>4, <1>6, <1>7 DEF PendingAt
  <1>11. PendingAt(op, x) <=>
           \/ \E n \in 1 .. l - 1 : todo[n].op = op /\ todo[n].at = x
           \/ Last(todo).op = op /\ Last(todo).at = x
    BY <1>4, <1>5, <1>7 DEF PendingAt
  <1> QED BY <1>8, <1>9, <1>10, <1>11 DEF l, k

(***************************************************************************)
(* Steps of the cascade.                                                   *)
(***************************************************************************)
CascadeOps == {"release", "tryRelease", "reclaim"}

(* They do not change what is about to be overwritten.                     *)
LEMMA OwnersAfter ==
    ASSUME FrameTypes, todo # <<>>, NEW then \in Seq(Calls), Return(then),
           Last(todo).op \in CascadeOps,
           \A k \in 1 .. Len(then) : then[k].op \in {"release", "reclaim"}
    PROVE  /\ \A i : LocalOwns(i)' <=> LocalOwns(i)
           /\ \A p : PendingOn("setMember", p)' <=> PendingOn("setMember", p)
  <1>1. \A p : PendingOn("setMember", p)' <=> PendingOn("setMember", p)
    BY PendingAfter DEF CascadeOps
  <1>2. \A i : /\ PendingAt("setLocal", i)' <=> PendingAt("setLocal", i)
               /\ PendingAt("cloneInto", i)' <=> PendingAt("cloneInto", i)
    BY PendingAfter DEF CascadeOps
  <1> QED BY <1>1, <1>2 DEF LocalOwns

(* The calls below the one that returns keep what they need.               *)
LEMMA CallsBelow ==
    ASSUME FlowInv, todo # <<>>, NEW then \in Seq(Calls), Return(then), UNCHANGED stack,
           \A n \in 1 .. Len(todo) - 1 :
              /\ todo[n].op = "setMember" => kind'[todo[n].obj] = "obj"
              /\ todo[n].op = "reclaim" =>
                    todo[n].obj \in InUse' /\ refCount'[todo[n].obj] = 0
    PROVE  \A n \in 1 .. Len(todo) - 1 : todo[n].op # "tryRelease" /\ CallInv(n)'
  <1> SUFFICES ASSUME NEW n \in 1 .. Len(todo) - 1
               PROVE  todo[n].op # "tryRelease" /\ CallInv(n)'
    OBVIOUS
  <1>1. /\ Len(todo) \in Nat \ {0} /\ DOMAIN todo = 1 .. Len(todo)
        /\ \A m \in 1 .. Len(todo) - 1 : todo'[m] = todo[m]
    BY Returned DEF FlowInv
  <1>2. n \in DOMAIN todo /\ todo'[n] = todo[n] /\ Len(todo) # 1
        /\ (n = 2 => todo'[1] = todo[1])
    <2> DEFINE l == Len(todo)
    <2>1. l \in Nat \ {0} /\ DOMAIN todo = 1 .. l /\ n \in 1 .. l - 1
      BY <1>1
    <2> HIDE DEF l
    <2>2. n \in DOMAIN todo /\ l # 1 /\ (n = 2 => 1 \in 1 .. l - 1)
      BY <2>1
    <2> QED BY <1>1, <2>2 DEF l
  <1>3. CallInv(n)
    BY <1>2 DEF FlowInv, TodoInv
  <1>4. todo[n].op # "tryRelease"
    BY <1>2, <1>3 DEF CallInv
  <1> QED BY <1>2, <1>3, <1>4 DEF CallInv

(* A release or tryRelease that finds nothing to reclaim.                  *)
LEMMA CallReturnsKeeps ==
    ASSUME FlowInv, todo # <<>>, Return(<<>>), Last(todo).op \in {"release", "tryRelease"},
           UNCHANGED <<allocVars, pool, kind, member, frameVars, forgotten>>,
           refCount' \in [Addresses -> Nat],
           \A o \in Addresses : refCount'[o] + Bit(OwnedBy(Last(todo), o)) = refCount[o],
           \A o \in InUse : refCount'[o] = 0 =>
              refCount[o] = 0 /\ ~(Last(todo).op = "tryRelease" /\ Last(todo).obj = o)
    PROVE  FlowInv'
  <1> DEFINE then == <<>>
  <1>0. /\ FrameTypes /\ UNCHANGED <<local, stack, exception, phase>>
        /\ Unmanaged /\ then \in Seq(Calls) /\ Len(then) = 0
        /\ refCount \in [Addresses -> Nat]
    BY DEF FlowInv, frameVars, FrameTypes, Unmanaged
  <1>1. StoreStep({}) /\ InUse' = InUse
    BY <1>0, UnmanagedStep
  <1>2. /\ Len(todo) \in Nat \ {0} /\ DOMAIN todo = 1 .. Len(todo)
        /\ todo[Len(todo)] = Last(todo) /\ todo' \in Seq(Calls)
        /\ DOMAIN todo' = 1 .. Len(todo) - 1
        /\ \A m \in 1 .. Len(todo) - 1 : todo'[m] = todo[m]
    <2>1. /\ Len(todo) \in Nat \ {0} /\ DOMAIN todo = 1 .. Len(todo)
          /\ todo[Len(todo)] = Last(todo) /\ todo' \in Seq(Calls)
          /\ DOMAIN todo' = 1 .. Len(todo) - 1 + Len(then)
          /\ \A m \in 1 .. Len(todo) - 1 : todo'[m] = todo[m]
      BY <1>0, Returned
    <2> QED BY <1>0, <2>1
  <1> HIDE DEF then
  <1>3. FrameTypes'
    BY <1>0, <1>2 DEF FrameTypes
  <1>4. \A o : InCalls(o)' + Bit(OwnedBy(Last(todo), o)) = InCalls(o)
    BY <1>0, CallsAfterNone
  <1>5. /\ \A i : LocalOwns(i)' <=> LocalOwns(i)
        /\ \A p : PendingOn("setMember", p)' <=> PendingOn("setMember", p)
    <2>1. Return(then) /\ Last(todo).op \in CascadeOps
      BY DEF then, CascadeOps
    <2>2. \A k \in 1 .. Len(then) : then[k].op \in {"release", "reclaim"}
      BY <1>0
    <2> QED BY <1>0, <2>1, <2>2, OwnersAfter
  <1>6. \A p : Dying(p)' <=> Dying(p)
    <2>1. Return(then) /\ \A k \in 1 .. Len(then) : FALSE
      BY <1>0 DEF then
    <2> QED BY <1>0, <2>1, PendingAfter DEF Dying
  <1>7. \A p : MemberOwns(p)' <=> MemberOwns(p)
    BY <1>1, <1>5, <1>6 DEF MemberOwns
  <1>8. ASSUME NEW o \in Addresses
        PROVE  InLocals(o)' = InLocals(o) /\ InMembers(o)' = InMembers(o)
               /\ OnStack(o)' = OnStack(o)
    <2>1. \A i \in Locals : LocalRef(i, o) <=> LocalRef(i, o)'
      BY <1>0, <1>5 DEF LocalRef
    <2>2. \A p \in Addresses : MemberRef(p, o) <=> MemberRef(p, o)'
      BY <1>7 DEF MemberRef
    <2>3. OnStack(o)' = OnStack(o)
      BY <1>0 DEF OnStack, StackRefs
    <2> QED BY <2>1, <2>2, <2>3, LocalsKept, MembersKept DEF InLocals, InMembers
  <1>9. CountInv'
    <2> SUFFICES ASSUME NEW o \in Addresses
                 PROVE  refCount'[o] + InLocals(o) + OnStack(o) + InMembers(o) + InCalls(o)
                            + Bit(exception = o) + forgotten[o]
                        = refCount[o] + InLocals(o)' + OnStack(o)' + InMembers(o)' + InCalls(o)'
                            + Bit(exception' = o) + forgotten'[o]
      BY <1>3, CountsFollow
    <2> DEFINE l == InLocals(o)  s == OnStack(o)  m == InMembers(o)  c == InCalls(o)
               cn == InCalls(o)'  rn == refCount'[o]
               e == Bit(exception = o)  r == refCount[o]  f == forgotten[o]
               x == Bit(OwnedBy(Last(todo), o))
    <2>1. /\ l \in Nat /\ s \in Nat /\ m \in Nat /\ c \in Nat /\ cn \in Nat
      BY <1>0, <1>3, PartsAreNumbers, PartsAreNumbersNext
    <2>2. /\ e \in Nat /\ r \in Nat /\ rn \in Nat /\ f \in Nat /\ x \in Nat
      BY <1>0 DEF FrameTypes, Bit
    <2>3. /\ rn + x = r /\ cn + x = c
      BY <1>4
    <2>4. /\ InLocals(o)' = l /\ OnStack(o)' = s /\ InMembers(o)' = m
          /\ Bit(exception' = o) = e /\ forgotten'[o] = f
      BY <1>0, <1>8
    <2> HIDE DEF l, s, m, c, cn, rn, e, r, f, x
    <2>5. rn + l + s + m + c + e + f = r + l + s + m + cn + e + f
      BY <2>1, <2>2, <2>3
    <2> QED BY <2>4, <2>5 DEF l, s, m, c, cn, rn, e, r, f
  <1>10. \A o \in Addresses : refCount[o] = 0 => refCount'[o] = 0
    <2> SUFFICES ASSUME NEW o \in Addresses, refCount[o] = 0 PROVE refCount'[o] = 0
      OBVIOUS
    <2>1. refCount'[o] \in Nat /\ Bit(OwnedBy(Last(todo), o)) \in Nat
      BY DEF Bit
    <2>2. refCount'[o] + Bit(OwnedBy(Last(todo), o)) = 0
      OBVIOUS
    <2> QED BY <2>1, <2>2
  <1>11. TodoInv'
    <2>1. ASSUME NEW n \in 1 .. Len(todo) - 1
          PROVE  /\ todo[n].op = "setMember" => kind'[todo[n].obj] = "obj"
                 /\ todo[n].op = "reclaim" =>
                       todo[n].obj \in InUse' /\ refCount'[todo[n].obj] = 0
      <3>1. n \in DOMAIN todo
        BY <1>2
      <3>2. CallInv(n)
        BY <3>1 DEF FlowInv, TodoInv
      <3>3. \A o \in InUse : o \in Addresses
        BY StoreNumbers DEF FlowInv
      <3> QED BY <1>1, <1>10, <3>2, <3>3 DEF CallInv
    <2>2. \A n \in 1 .. Len(todo) - 1 : CallInv(n)'
      <3>1. Return(then)
        BY DEF then
      <3> QED BY <1>0, <2>1, <3>1, CallsBelow
    <2>3. \A n \in 1 .. Len(todo) - 1 : n \in DOMAIN todo
      BY <1>2
    <2> QED BY <1>2, <2>2, <2>3 DEF TodoInv, FlowInv
  <1>12. LiveInv'
    <2> SUFFICES ASSUME NEW o \in InUse, refCount'[o] = 0
                 PROVE  Dying(o)' \/ PendingOn("tryRelease", o)'
      BY <1>1 DEF LiveInv
    <2>1. Dying(o) \/ PendingOn("tryRelease", o)
      BY DEF FlowInv, LiveInv
    <2>2. PendingOn("tryRelease", o) => PendingOn("tryRelease", o)'
      <3>1. Return(then) /\ \A k \in 1 .. Len(then) : FALSE
        BY <1>0 DEF then
      <3> QED BY <1>0, <3>1, PendingAfter
    <2> QED BY <1>6, <2>1, <2>2
  <1>13. IdleInv' /\ StoreInv' /\ LimitInv'
    BY <1>1, <1>10 DEF IdleInv, StoreStep, LimitInv, FlowInv
  <1> QED BY <1>3, <1>9, <1>11, <1>12, <1>13 DEF FlowInv

(* A release is always of something that is counted and in use.            *)
LEMMA ReleaseIsOfUsed ==
    ASSUME FlowInv, todo # <<>>, Last(todo).op = "release", Last(todo).obj \in Addresses
    PROVE  /\ Last(todo).obj \in InUse /\ Last(todo).obj \notin isFree
           /\ ~Dying(Last(todo).obj)
           /\ refCount[Last(todo).obj] \in Nat /\ refCount[Last(todo).obj] > 0
  <1>1. /\ Len(todo) \in DOMAIN todo /\ todo[Len(todo)] = Last(todo)
    <2>1. todo \in Seq(Calls)
      BY DEF FlowInv, FrameTypes
    <2>2. Len(todo) \in Nat \ {0} /\ Last(todo) = todo[Len(todo)] /\ DOMAIN todo = 1 .. Len(todo)
      BY <2>1, FrontAndLast, LenProperties
    <2>3. \A n \in Nat \ {0} : n \in 1 .. n
      OBVIOUS
    <2> QED BY <2>2, <2>3
  <1>2. CallRefs(Last(todo).obj) # {}
    BY <1>1 DEF CallRefs, CallOwns
  <1>3. /\ Last(todo).obj \in InUse /\ ~Dying(Last(todo).obj)
        /\ refCount[Last(todo).obj] > 0
    BY <1>2, Referenced
  <1> QED BY <1>3 DEF InUse, FlowInv, FrameTypes

(* release of null or of a literal, and of an object with references left. *)
LEMMA ReleaseReturnsKeeps ==
    ASSUME FlowInv, todo # <<>>, Last(todo).op = "release", ReleaseStep(Last(todo).obj),
           Ignored(Last(todo).obj) \/ HasOtherReferences(Last(todo).obj),
           UNCHANGED <<allocVars, pool, kind, member, frameVars, forgotten>>
    PROVE  FlowInv'
  <1>0. PICK o : o = Last(todo).obj
    OBVIOUS
  <1>1. refCount \in [Addresses -> Nat] /\ \A x : OwnedBy(Last(todo), x) <=> x = o
    BY <1>0 DEF FlowInv, FrameTypes, OwnedBy, CallOwns
  <1>2. \A x \in InUse : x \in Addresses
    BY StoreNumbers DEF FlowInv
  <1>3. CASE o \notin Addresses
    <2>1. Return(<<>>) /\ refCount' = refCount
      BY <1>0, <1>3 DEF ReleaseStep, Ignored
    <2>2. \A x \in Addresses : Bit(OwnedBy(Last(todo), x)) = 0
      BY <1>1, <1>3 DEF Bit
    <2>3. \A x \in Addresses : refCount'[x] + Bit(OwnedBy(Last(todo), x)) = refCount[x]
      BY <1>1, <2>1, <2>2
    <2> QED BY <1>1, <2>1, <2>3, CallReturnsKeeps
  <1>4. CASE o \in Addresses
    <2>1. o \in InUse /\ o \notin isFree /\ refCount[o] \in Nat
      BY <1>0, <1>4, ReleaseIsOfUsed
    <2>2. HasOtherReferences(o) /\ refCount' = [refCount EXCEPT ![o] = @ - 1] /\ Return(<<>>)
      BY <1>0, <1>4, <2>1 DEF ReleaseStep, Ignored
    <2>3. refCount[o] > 1 /\ refCount[o] - 1 \in Nat /\ refCount[o] - 1 # 0
      BY <2>1, <2>2 DEF HasOtherReferences
    <2>4. refCount' \in [Addresses -> Nat]
      BY <1>1, <2>2, <2>3
    <2>5. ASSUME NEW x \in Addresses
          PROVE  /\ refCount'[x] + Bit(OwnedBy(Last(todo), x)) = refCount[x]
                 /\ refCount'[x] = 0 => refCount[x] = 0
      <3>1. CASE x = o
        <4>1. refCount'[x] = refCount[o] - 1 /\ Bit(OwnedBy(Last(todo), x)) = 1
          BY <1>1, <1>4, <2>2, <3>1 DEF Bit
        <4> QED BY <2>1, <2>3, <3>1, <4>1
      <3>2. CASE x # o
        <4>1. refCount'[x] = refCount[x] /\ Bit(OwnedBy(Last(todo), x)) = 0
              /\ refCount[x] \in Nat
          BY <1>1, <1>4, <2>2, <3>2 DEF Bit
        <4> QED BY <4>1
      <3> QED BY <3>1, <3>2
    <2> QED BY <1>2, <2>2, <2>4, <2>5, CallReturnsKeeps
  <1> QED BY <1>3, <1>4

(* tryRelease of null or of a literal, and of an object with references.   *)
LEMMA TryReleaseReturnsKeeps ==
    ASSUME FlowInv, todo # <<>>, Last(todo).op = "tryRelease",
           TryReleaseStep(Last(todo).obj),
           Ignored(Last(todo).obj) \/ refCount[Last(todo).obj] # 0,
           UNCHANGED <<allocVars, pool, kind, member, frameVars, forgotten>>
    PROVE  FlowInv'
  <1>0. PICK o : o = Last(todo).obj
    OBVIOUS
  <1>1. /\ refCount \in [Addresses -> Nat] /\ refCount' = refCount /\ Return(<<>>)
        /\ \A x : ~OwnedBy(Last(todo), x)
    BY <1>0 DEF FlowInv, FrameTypes, OwnedBy, CallOwns, TryReleaseStep
  <1>2. \A x \in InUse : x \in Addresses
    BY StoreNumbers DEF FlowInv
  <1>3. \A x \in Addresses : refCount'[x] + Bit(OwnedBy(Last(todo), x)) = refCount[x]
    BY <1>1 DEF Bit
  <1>4. o \in InUse => refCount[o] # 0
    <2> SUFFICES ASSUME o \in InUse PROVE refCount[o] # 0
      OBVIOUS
    <2>1. ~Ignored(o)
      BY <1>2 DEF Ignored, InUse
    <2> QED BY <1>0, <2>1
  <1> QED BY <1>0, <1>1, <1>2, <1>3, <1>4, CallReturnsKeeps

(* Tearing an object down makes a call that reclaims it and, before that   *)
(* one, a call that releases its member.                                   *)
LEMMA TearDownCalls ==
    ASSUME FrameTypes, StoreTypes, todo # <<>>, NEW o \in Addresses, Return(TearDown(o))
    PROVE  /\ TearDown(o) \in Seq(Calls)
           /\ Len(TearDown(o)) \in Nat \ {0}
           /\ TearDown(o)[1].op = "reclaim" /\ TearDown(o)[1].obj = o
           /\ \A k \in 1 .. Len(TearDown(o)) : k = 1 \/ TearDown(o)[k].op = "release"
           /\ \A x \in Addresses :
                 InCalls(x)' + Bit(OwnedBy(Last(todo), x))
                 = InCalls(x) + Bit(kind[o] = "obj" /\ member[o] = x)
  <1> DEFINE a == Call("reclaim", o, 0)
             b == Call("release", member[o], 0)
             has == kind[o] = "obj" /\ member[o] # Null
  <1>1. /\ a \in Calls /\ a.op = "reclaim" /\ a.obj = o
        /\ \A x : ~OwnedBy(a, x)
    BY DEF Call, Calls, Ops, OwnedBy, CallOwns, Values, Objects
  <1>2. /\ b \in Calls /\ b.op = "release"
        /\ \A x : OwnedBy(b, x) <=> member[o] = x
    BY ReleaseCall DEF StoreTypes
  <1>3. \A x \in Addresses : InCalls(x) \in Nat /\ InCalls(x) + 0 = InCalls(x)
    BY PartsAreNumbers
  <1>4. \A x : Bit(OwnedBy(a, x)) = 0
    BY <1>1 DEF Bit
  <1>5. CASE has
    <2>1. TearDown(o) = <<a>> \o <<b>>
      BY <1>5 DEF TearDown
    <2>2. <<a>> \o <<b>> = <<a, b>>
      BY <1>1, <1>2, JoinOnes
    <2>3. TearDown(o) = <<a, b>>
      BY <2>1, <2>2
    <2> HIDE DEF a, b
    <2>4. \A x : InCalls(x)' + Bit(OwnedBy(Last(todo), x))
                    = InCalls(x) + Bit(OwnedBy(a, x)) + Bit(OwnedBy(b, x))
      BY <1>1, <1>2, <2>3, CallsAfterTwo
    <2>5. ASSUME NEW x \in Addresses
          PROVE  InCalls(x)' + Bit(OwnedBy(Last(todo), x))
                 = InCalls(x) + Bit(kind[o] = "obj" /\ member[o] = x)
      <3>1. Bit(OwnedBy(b, x)) = Bit(kind[o] = "obj" /\ member[o] = x)
        BY <1>2, <1>5 DEF Bit
      <3>2. InCalls(x)' + Bit(OwnedBy(Last(todo), x)) = InCalls(x) + 0 + Bit(OwnedBy(b, x))
        BY <1>4, <2>4
      <3> QED BY <1>3, <3>1, <3>2
    <2>6. /\ <<a, b>> \in Seq(Calls) /\ Len(<<a, b>>) = 2
          /\ <<a, b>>[1] = a /\ <<a, b>>[2] = b
      BY <1>1, <1>2
    <2>7. \A k \in 1 .. 2 : k = 1 \/ <<a, b>>[k].op = "release"
      <3>1. \A k \in 1 .. 2 : k = 1 \/ k = 2
        OBVIOUS
      <3> QED BY <1>2, <2>6, <3>1
    <2> QED BY <1>1, <2>3, <2>5, <2>6, <2>7
  <1>6. CASE ~has
    <2>1. TearDown(o) = <<a>> \o <<>>
      BY <1>6 DEF TearDown
    <2> HIDE DEF a, b
    <2>2. <<a>> \in Seq(Calls) /\ Len(<<a>>) = 1 /\ <<a>>[1] = a
      BY <1>1
    <2>3. TearDown(o) = <<a>>
      BY <2>1, <2>2, ConcatEmptySeq
    <2>4. \A x : InCalls(x)' + Bit(OwnedBy(Last(todo), x)) = InCalls(x) + Bit(OwnedBy(a, x))
      BY <1>1, <2>3, CallsAfterOne
    <2>5. \A x \in Addresses : Bit(kind[o] = "obj" /\ member[o] = x) = 0
      BY <1>6, AddressesAreFinite DEF Bit
    <2>6. \A k \in 1 .. 1 : k = 1
      OBVIOUS
    <2> QED BY <1>1, <1>4, <2>2, <2>3, <2>4, <2>5, <2>6
  <1> QED BY <1>5, <1>6

(* release of the last reference and tryRelease of an object without one:  *)
(* the object is to be reclaimed once, and gives up its member first.      *)
LEMMA TearDownKeeps ==
    ASSUME FlowInv, todo # <<>>, NEW o \in InUse, Last(todo).obj = o,
           Last(todo).op \in {"release", "tryRelease"}, Return(TearDown(o)),
           ~Dying(o), ~PendingOn("setMember", o),
           UNCHANGED <<allocVars, pool, kind, member, frameVars, forgotten>>,
           refCount' \in [Addresses -> Nat], refCount'[o] = 0,
           \A x \in Addresses : refCount'[x] + Bit(OwnedBy(Last(todo), x)) = refCount[x]
    PROVE  FlowInv'
  <1>0. PICK then : then = TearDown(o)
    OBVIOUS
  <1>1. /\ FrameTypes /\ StoreTypes /\ UNCHANGED <<local, stack, exception, phase>>
        /\ Unmanaged /\ refCount \in [Addresses -> Nat] /\ o \in Addresses
        /\ \A x \in InUse : x \in Addresses
    BY StoreNumbers DEF FlowInv, StoreInv, frameVars, FrameTypes, Unmanaged
  <1>2. StoreStep({}) /\ InUse' = InUse
    BY <1>1, UnmanagedStep
  <1>3. /\ then \in Seq(Calls) /\ Len(then) \in Nat \ {0} /\ Return(then)
        /\ then[1].op = "reclaim" /\ then[1].obj = o
        /\ \A k \in 1 .. Len(then) : k = 1 \/ then[k].op = "release"
        /\ \A x \in Addresses :
              InCalls(x)' + Bit(OwnedBy(Last(todo), x))
              = InCalls(x) + Bit(kind[o] = "obj" /\ member[o] = x)
    BY <1>0, <1>1, TearDownCalls
  <1>4. /\ Len(todo) \in Nat \ {0} /\ DOMAIN todo = 1 .. Len(todo)
        /\ todo' \in Seq(Calls) /\ DOMAIN todo' = 1 .. Len(todo) - 1 + Len(then)
        /\ \A n \in 1 .. Len(todo) - 1 : todo'[n] = todo[n]
        /\ \A n \in 1 .. Len(then) : todo'[Len(todo) - 1 + n] = then[n]
    BY <1>1, <1>3, Returned
  <1>5. FrameTypes'
    BY <1>1, <1>4 DEF FrameTypes
  <1>6. /\ \A i : LocalOwns(i)' <=> LocalOwns(i)
        /\ \A p : PendingOn("setMember", p)' <=> PendingOn("setMember", p)
    <2>1. Last(todo).op \in CascadeOps
      BY DEF CascadeOps
    <2>2. \A k \in 1 .. Len(then) : then[k].op \in {"release", "reclaim"}
      BY <1>3
    <2> QED BY <1>1, <1>3, <2>1, <2>2, OwnersAfter
  <1>7. \A x : Dying(x)' <=> Dying(x) \/ x = o
    <2> SUFFICES ASSUME NEW x PROVE Dying(x)' <=> Dying(x) \/ x = o
      OBVIOUS
    <2>1. 1 \in 1 .. Len(then)
      BY <1>3
    <2>2. (\E k \in 1 .. Len(then) : then[k].op = "reclaim" /\ then[k].obj = x) <=> x = o
      BY <1>3, <2>1
    <2> QED BY <1>1, <1>3, <2>2, PendingAfter DEF Dying
  <1>8. MemberOwns(o) /\ \A p : MemberOwns(p)' <=> MemberOwns(p) /\ p # o
    BY <1>2, <1>6, <1>7 DEF MemberOwns
  <1>9. ASSUME NEW x \in Addresses
        PROVE  /\ InLocals(x)' = InLocals(x) /\ OnStack(x)' = OnStack(x)
               /\ InMembers(x)' + Bit(kind[o] = "obj" /\ member[o] = x) = InMembers(x)
    <2>1. \A i \in Locals : LocalRef(i, x) <=> LocalRef(i, x)'
      BY <1>1, <1>6 DEF LocalRef
    <2>2. \A p \in Addresses \ {o} : MemberRef(p, x) <=> MemberRef(p, x)'
      BY <1>8 DEF MemberRef
    <2>3. (MemberRef(o, x) <=> kind[o] = "obj" /\ member[o] = x) /\ ~MemberRef(o, x)'
      BY <1>8 DEF MemberRef
    <2>4. Cardinality(MemberRefs(x)') + Bit(MemberRef(o, x))
             = Cardinality(MemberRefs(x)) + Bit(MemberRef(o, x)')
      BY <1>1, <2>2, FiniteRefs, MemberChanges
    <2>5. Bit(MemberRef(o, x)) = Bit(kind[o] = "obj" /\ member[o] = x) /\ Bit(MemberRef(o, x)') = 0
      BY <2>3 DEF Bit
    <2>6. OnStack(x)' = OnStack(x) /\ InMembers(x) \in Nat
      BY <1>1, PartsAreNumbers DEF OnStack, StackRefs
    <2>7. InMembers(x)' + Bit(kind[o] = "obj" /\ member[o] = x) = InMembers(x)
      BY <2>4, <2>5, <2>6 DEF InMembers
    <2> QED BY <2>1, <2>6, <2>7, LocalsKept DEF InLocals
  <1>10. CountInv'
    <2> SUFFICES ASSUME NEW x \in Addresses
                 PROVE  refCount'[x] + InLocals(x) + OnStack(x) + InMembers(x) + InCalls(x)
                            + Bit(exception = x) + forgotten[x]
                        = refCount[x] + InLocals(x)' + OnStack(x)' + InMembers(x)' + InCalls(x)'
                            + Bit(exception' = x) + forgotten'[x]
      BY <1>5, CountsFollow
    <2> DEFINE l == InLocals(x)  s == OnStack(x)  m == InMembers(x)  c == InCalls(x)
               mn == InMembers(x)'  cn == InCalls(x)'  rn == refCount'[x]
               e == Bit(exception = x)  r == refCount[x]  f == forgotten[x]
               y == Bit(OwnedBy(Last(todo), x))
               z == Bit(kind[o] = "obj" /\ member[o] = x)
    <2>1. /\ l \in Nat /\ s \in Nat /\ m \in Nat /\ c \in Nat /\ mn \in Nat /\ cn \in Nat
      BY <1>1, <1>5, PartsAreNumbers, PartsAreNumbersNext
    <2>2. /\ e \in Nat /\ r \in Nat /\ rn \in Nat /\ f \in Nat /\ y \in Nat /\ z \in Nat
      BY <1>1 DEF FrameTypes, Bit
    <2>3. rn + y = r /\ cn + y = c + z /\ mn + z = m
      BY <1>3, <1>9
    <2>4. /\ InLocals(x)' = l /\ OnStack(x)' = s
          /\ Bit(exception' = x) = e /\ forgotten'[x] = f
      BY <1>1, <1>9
    <2> HIDE DEF l, s, m, c, mn, cn, rn, e, r, f, y, z
    <2>5. rn + l + s + m + c + e + f = r + l + s + mn + cn + e + f
      BY <2>1, <2>2, <2>3
    <2> QED BY <2>4, <2>5 DEF l, s, m, c, mn, cn, rn, e, r, f
  <1>11. /\ \A x \in Addresses : refCount[x] = 0 => refCount'[x] = 0
         /\ \A x \in Addresses \ {o} : refCount'[x] = refCount[x]
    <2> SUFFICES ASSUME NEW x \in Addresses
                 PROVE  /\ refCount[x] = 0 => refCount'[x] = 0
                        /\ x # o => refCount'[x] = refCount[x]
      OBVIOUS
    <2>1. refCount'[x] \in Nat /\ Bit(OwnedBy(Last(todo), x)) \in Nat
          /\ (x # o => Bit(OwnedBy(Last(todo), x)) = 0)
      BY DEF Bit, OwnedBy
    <2>2. refCount'[x] + Bit(OwnedBy(Last(todo), x)) = refCount[x]
      OBVIOUS
    <2> QED BY <2>1, <2>2
  <1>12. TodoInv'
    <2> DEFINE l == Len(todo)
    <2>1. ASSUME NEW n \in 1 .. l - 1
          PROVE  /\ n \in DOMAIN todo
                 /\ todo[n].op = "setMember" => kind'[todo[n].obj] = "obj"
                 /\ todo[n].op = "reclaim" =>
                       todo[n].obj \in InUse' /\ refCount'[todo[n].obj] = 0
      <3>1. n \in DOMAIN todo
        BY <1>4
      <3>2. CallInv(n)
        BY <3>1 DEF FlowInv, TodoInv
      <3> QED BY <1>1, <1>2, <1>11, <3>1, <3>2 DEF CallInv
    <2>2. \A n \in 1 .. l - 1 : CallInv(n)'
      BY <1>1, <1>3, <2>1, CallsBelow
    <2>3. \A n \in DOMAIN todo' :
             \/ n \in 1 .. l - 1 /\ todo'[n] = todo[n]
             \/ n = l /\ todo'[n] = then[1]
             \/ n # l /\ todo'[n].op = "release"
      <3> SUFFICES ASSUME NEW n \in DOMAIN todo', n \notin 1 .. l - 1
                   PROVE  \/ n = l /\ todo'[n] = then[1]
                          \/ n # l /\ todo'[n].op = "release"
        BY <1>4
      <3> DEFINE j == n - (l - 1)
                 k == Len(then)
      <3>1. l \in Nat \ {0} /\ k \in Nat /\ n \in 1 .. l - 1 + k
        BY <1>3, <1>4
      <3>2. j \in 1 .. k /\ l - 1 + j = n /\ (n = l <=> j = 1)
        <4> HIDE DEF l, k
        <4> QED BY <3>1
      <3>3. todo'[n] = then[j]
        BY <1>4, <3>2
      <3>4. j = 1 \/ then[j].op = "release"
        BY <1>3, <3>2
      <3> HIDE DEF j
      <3> QED BY <3>2, <3>3, <3>4
    <2> HIDE DEF l
    <2>4. \A n \in DOMAIN todo' : CallInv(n)'
      <3> SUFFICES ASSUME NEW n \in DOMAIN todo' PROVE CallInv(n)'
        OBVIOUS
      <3>1. CASE n = l /\ todo'[n] = then[1]
        BY <1>2, <1>3, <3>1 DEF CallInv, Replacing, Clearing
      <3>2. CASE n # l /\ todo'[n].op = "release"
        BY <3>2 DEF CallInv, Replacing, Clearing
      <3> QED BY <2>2, <2>3, <3>1, <3>2
    <2>5. \A n \in 1 .. l - 1 : ~(todo[n].op = "reclaim" /\ todo[n].obj = o)
      BY <2>1 DEF Dying, PendingOn
    <2>6. ASSUME NEW m \in DOMAIN todo', NEW n \in DOMAIN todo',
                 todo'[m].op = "reclaim", todo'[n].op = "reclaim",
                 todo'[m].obj = todo'[n].obj
          PROVE  m = n
      <3>0. \A k \in DOMAIN todo' : todo'[k].op = "reclaim" =>
               \/ k \in 1 .. l - 1 /\ todo'[k] = todo[k]
               \/ k = l /\ todo'[k].obj = o
        <4> SUFFICES ASSUME NEW k \in DOMAIN todo', todo'[k].op = "reclaim"
                     PROVE  \/ k \in 1 .. l - 1 /\ todo'[k] = todo[k]
                            \/ k = l /\ todo'[k].obj = o
          OBVIOUS
        <4>1. todo'[k].op # "release"
          OBVIOUS
        <4> QED BY <1>3, <2>3, <4>1
      <3>1. /\ \/ m \in 1 .. l - 1 /\ todo'[m] = todo[m]
               \/ m = l /\ todo'[m].obj = o
            /\ \/ n \in 1 .. l - 1 /\ todo'[n] = todo[n]
               \/ n = l /\ todo'[n].obj = o
        BY <2>6, <3>0
      <3>2. CASE m \in 1 .. l - 1 /\ n \in 1 .. l - 1 /\ todo'[m] = todo[m] /\ todo'[n] = todo[n]
        BY <2>1, <2>6, <3>2 DEF FlowInv, TodoInv
      <3> QED BY <2>5, <2>6, <3>1, <3>2
    <2> QED BY <2>4, <2>6 DEF TodoInv
  <1>13. LiveInv'
    <2> SUFFICES ASSUME NEW x \in InUse, refCount'[x] = 0
                 PROVE  Dying(x)' \/ PendingOn("tryRelease", x)'
      BY <1>2 DEF LiveInv
    <2>1. CASE x = o
      BY <1>7, <2>1
    <2>2. CASE x # o
      <3>1. Dying(x) \/ PendingOn("tryRelease", x)
        BY <1>1, <1>11, <2>2 DEF FlowInv, LiveInv
      <3>2. PendingOn("tryRelease", x) => PendingOn("tryRelease", x)'
        BY <1>1, <1>3, <2>2, PendingAfter
      <3> QED BY <1>7, <3>1, <3>2
    <2> QED BY <2>1, <2>2
  <1>14. IdleInv' /\ StoreInv' /\ LimitInv'
    BY <1>2, <1>11 DEF IdleInv, StoreStep, LimitInv, FlowInv
  <1> QED BY <1>5, <1>10, <1>12, <1>13, <1>14 DEF FlowInv

(* release keeps the invariant, whichever branch it takes.                 *)
LEMMA ReleaseKeeps ==
    ASSUME FlowInv, todo # <<>>, Last(todo).op = "release", ReleaseStep(Last(todo).obj),
           UNCHANGED <<allocVars, pool, kind, member, frameVars, forgotten>>
    PROVE  FlowInv'
  <1>0. PICK o : o = Last(todo).obj
    OBVIOUS
  <1>1. CASE Ignored(o) \/ HasOtherReferences(o)
    BY <1>0, <1>1, ReleaseReturnsKeeps
  <1>2. CASE ~Ignored(o) /\ ~HasOtherReferences(o)
    <2>1. /\ refCount' = [refCount EXCEPT ![o] = 0] /\ Return(TearDown(o))
          /\ o \in Addresses
      BY <1>0, <1>2 DEF ReleaseStep, Ignored
    <2>2. o \in InUse /\ ~Dying(o) /\ refCount[o] \in Nat /\ refCount[o] > 0
      BY <1>0, <2>1, ReleaseIsOfUsed
    <2>3. refCount[o] = 1
      BY <1>2, <2>2 DEF HasOtherReferences
    <2>4. FrameTypes /\ refCount \in [Addresses -> Nat]
      BY DEF FlowInv, FrameTypes
    <2>5. ~PendingOn("setMember", o)
      <3> SUFFICES ASSUME PendingOn("setMember", o) PROVE FALSE
        OBVIOUS
      <3>1. PICK n \in DOMAIN todo : todo[n].op = "setMember" /\ todo[n].obj = o
        BY DEF PendingOn
      <3>2. Len(todo) \in DOMAIN todo /\ todo[Len(todo)] = Last(todo)
        <4>1. todo \in Seq(Calls)
          BY <2>4 DEF FrameTypes
        <4>2. Len(todo) \in Nat \ {0} /\ todo[Len(todo)] = Last(todo) /\ DOMAIN todo = 1 .. Len(todo)
          BY <4>1, FrontAndLast, LenProperties
        <4>3. \A l \in Nat \ {0} : l \in 1 .. l
          OBVIOUS
        <4> QED BY <4>2, <4>3
      <3>3. n # Len(todo) /\ n \in CallRefs(o) /\ Len(todo) \in CallRefs(o)
        BY <1>0, <3>1, <3>2 DEF CallRefs, CallOwns
      <3>4. InCalls(o) \in Nat /\ InCalls(o) >= 2
        BY <2>4, <3>3, FiniteRefs, TakeTwo DEF RefsAreFinite, InCalls
      <3> DEFINE l == InLocals(o)  s == OnStack(o)  m == InMembers(o)  c == InCalls(o)
                 e == Bit(exception = o)  f == forgotten[o]
      <3>5. /\ l \in Nat /\ s \in Nat /\ m \in Nat /\ e \in Nat /\ f \in Nat
        BY <2>1, <2>4, PartsAreNumbers DEF Bit, FrameTypes
      <3>6. refCount[o] = l + s + m + c + e + f
        BY <2>1, SumOfParts DEF FlowInv, CountInv
      <3> HIDE DEF l, s, m, e, f
      <3> QED BY <2>3, <3>4, <3>5, <3>6
    <2>6. refCount' \in [Addresses -> Nat] /\ refCount'[o] = 0
      BY <2>1, <2>4
    <2>7. ASSUME NEW x \in Addresses
          PROVE  refCount'[x] + Bit(OwnedBy(Last(todo), x)) = refCount[x]
      <3>1. OwnedBy(Last(todo), x) <=> x = o
        BY <1>0 DEF OwnedBy, CallOwns
      <3>2. CASE x = o
        <4>1. refCount'[x] = 0 /\ refCount[x] = 1 /\ Bit(OwnedBy(Last(todo), x)) = 1
          BY <2>3, <2>6, <3>1, <3>2 DEF Bit
        <4> QED BY <4>1
      <3>3. CASE x # o
        <4>1. refCount'[x] = refCount[x] /\ refCount[x] \in Nat
              /\ Bit(OwnedBy(Last(todo), x)) = 0
          BY <2>1, <2>4, <3>1, <3>3 DEF Bit
        <4> QED BY <4>1
      <3> QED BY <3>2, <3>3
    <2> QED BY <1>0, <2>1, <2>2, <2>5, <2>6, <2>7, TearDownKeeps
  <1> QED BY <1>1, <1>2

(* So does tryRelease.                                                     *)
LEMMA TryReleaseKeeps ==
    ASSUME FlowInv, todo # <<>>, Last(todo).op = "tryRelease",
           TryReleaseStep(Last(todo).obj),
           UNCHANGED <<allocVars, pool, kind, member, frameVars, forgotten>>
    PROVE  FlowInv'
  <1>0. PICK o : o = Last(todo).obj
    OBVIOUS
  <1>1. CASE Ignored(o) \/ refCount[o] # 0
    BY <1>0, <1>1, TryReleaseReturnsKeeps
  <1>2. CASE ~Ignored(o) /\ refCount[o] = 0
    <2>1. /\ refCount' = refCount /\ Return(TearDown(o)) /\ o \in Addresses
      BY <1>0, <1>2 DEF TryReleaseStep, Ignored
    <2>2. FrameTypes /\ refCount \in [Addresses -> Nat]
      BY DEF FlowInv, FrameTypes
    <2>3. /\ Len(todo) \in Nat \ {0} /\ todo[Len(todo)] = Last(todo)
          /\ DOMAIN todo = 1 .. Len(todo)
      <3>1. todo \in Seq(Calls)
        BY <2>2 DEF FrameTypes
      <3> QED BY <3>1, FrontAndLast, LenProperties
    <2>4. Len(todo) \in DOMAIN todo
      <3>1. \A l \in Nat \ {0} : l \in 1 .. l
        OBVIOUS
      <3> QED BY <2>3, <3>1
    <2>5. CallInv(Len(todo))
      BY <2>4 DEF FlowInv, TodoInv
    <2>6. Len(todo) = 1 /\ o \in InUse
      BY <1>0, <2>1, <2>3, <2>5 DEF CallInv
    <2>7. \A n \in DOMAIN todo : todo[n] = Last(todo)
      <3>1. \A n \in 1 .. 1 : n = 1
        OBVIOUS
      <3> QED BY <2>3, <2>6, <3>1
    <2>8. ~Dying(o) /\ ~PendingOn("setMember", o)
      BY <2>7 DEF Dying, PendingOn
    <2>9. ASSUME NEW x \in Addresses
          PROVE  refCount'[x] + Bit(OwnedBy(Last(todo), x)) = refCount[x]
      <3>1. refCount[x] \in Nat /\ Bit(OwnedBy(Last(todo), x)) = 0
        BY <2>2 DEF Bit, OwnedBy, CallOwns
      <3> QED BY <2>1, <3>1
    <2> QED BY <1>0, <1>2, <2>1, <2>2, <2>6, <2>8, <2>9, TearDownKeeps
  <1> QED BY <1>1, <1>2

(* The object goes back to the pool or the arena: its last reference is    *)
(* gone and its member was given up before, so nothing loses what it held. *)
LEMMA ReclaimKeeps ==
    ASSUME FlowInv, todo # <<>>, NEW o, Last(todo).op = "reclaim", Last(todo).obj = o,
           Reclaim(o), Return(<<>>), UNCHANGED <<refCount, frameVars, forgotten>>
    PROVE  FlowInv'
  <1> DEFINE then == <<>>
  <1>0. /\ FrameTypes /\ UNCHANGED <<local, stack, exception, phase>> /\ todo \in Seq(Calls)
        /\ then \in Seq(Calls) /\ Len(then) = 0 /\ \A k \in 1 .. Len(then) : FALSE
    BY DEF FlowInv, frameVars, FrameTypes
  <1>1. Return(then)
    OBVIOUS
  <1> HIDE DEF then
  <1>2. /\ Len(todo) \in Nat \ {0} /\ DOMAIN todo = 1 .. Len(todo)
        /\ todo[Len(todo)] = Last(todo) /\ todo' \in Seq(Calls)
        /\ DOMAIN todo' = 1 .. Len(todo) - 1
        /\ \A m \in 1 .. Len(todo) - 1 : todo'[m] = todo[m]
    <2>1. /\ Len(todo) \in Nat \ {0} /\ DOMAIN todo = 1 .. Len(todo)
          /\ todo[Len(todo)] = Last(todo) /\ todo' \in Seq(Calls)
          /\ DOMAIN todo' = 1 .. Len(todo) - 1 + Len(then)
          /\ \A m \in 1 .. Len(todo) - 1 : todo'[m] = todo[m]
      BY <1>0, <1>1, Returned
    <2> QED BY <1>0, <2>1
  <1>3. /\ Len(todo) \in DOMAIN todo
        /\ \A n \in 1 .. Len(todo) - 1 : n \in DOMAIN todo /\ n # Len(todo)
    <2> DEFINE l == Len(todo)
    <2>1. l \in Nat \ {0} /\ DOMAIN todo = 1 .. l
      BY <1>2
    <2> HIDE DEF l
    <2>2. l \in DOMAIN todo /\ \A n \in 1 .. l - 1 : n \in DOMAIN todo /\ n # l
      BY <2>1
    <2> QED BY <2>2 DEF l
  <1>4. o \in InUse /\ refCount[o] = 0 /\ Dying(o) /\ o \in Addresses
        /\ \A x \in InUse : x \in Addresses
    <2>1. CallInv(Len(todo))
      BY <1>3 DEF FlowInv, TodoInv
    <2>2. o \in InUse /\ refCount[o] = 0
      BY <1>2, <2>1 DEF CallInv
    <2>3. Dying(o)
      BY <1>2, <1>3 DEF Dying, PendingOn
    <2> QED BY <2>2, <2>3, StoreNumbers DEF FlowInv
  <1>5. /\ StoreInv' /\ InUse' = InUse \ {o}
        /\ \A p \in Addresses \ {o} : kind'[p] = kind[p] /\ member'[p] = member[p]
        /\ ~changedMemory' => UNCHANGED <<currentManagedMemory, changedMemory>>
    <2>1. /\ StoreInv' /\ InUse' = InUse \ {o}
          /\ kind' = [kind EXCEPT ![o] = "int"] /\ member' = [member EXCEPT ![o] = Null]
          /\ ~changedMemory' => UNCHANGED <<currentManagedMemory, changedMemory>>
      BY <1>4, ReclaimStore DEF FlowInv
    <2>2. kind \in [Addresses -> Kinds] /\ member \in [Addresses -> Values]
      BY DEF FlowInv, StoreInv, StoreTypes
    <2> QED BY <2>1, <2>2
  <1>6. FrameTypes'
    BY <1>0, <1>2 DEF FrameTypes
  <1>7. \A n \in 1 .. Len(todo) - 1 : ~(todo[n].op = "reclaim" /\ todo[n].obj = o)
    BY <1>2, <1>3 DEF FlowInv, TodoInv
  <1>8. \A x : Dying(x)' <=> Dying(x) /\ x # o
    <2> SUFFICES ASSUME NEW x PROVE Dying(x)' <=> Dying(x) /\ x # o
      OBVIOUS
    <2> DEFINE below == \E n \in 1 .. Len(todo) - 1 : todo[n].op = "reclaim" /\ todo[n].obj = x
               made == \E n \in 1 .. Len(then) : then[n].op = "reclaim" /\ then[n].obj = x
    <2>0. FrameTypes /\ then \in Seq(Calls)
      BY <1>0
    <2>1. /\ PendingOn("reclaim", x)' <=> below \/ made
          /\ PendingOn("reclaim", x) <=> below \/ (Last(todo).op = "reclaim" /\ Last(todo).obj = x)
      BY <2>0, <1>1, PendingAfter
    <2>2. ~made
      BY <1>0
    <2>3. below => x # o
      BY <1>7
    <2> HIDE DEF below
    <2> QED BY <2>1, <2>2, <2>3 DEF Dying
  <1>9. /\ \A i : LocalOwns(i)' <=> LocalOwns(i)
        /\ \A p : PendingOn("setMember", p)' <=> PendingOn("setMember", p)
    <2>1. Last(todo).op \in CascadeOps
      BY DEF CascadeOps
    <2>2. \A k \in 1 .. Len(then) : then[k].op \in {"release", "reclaim"}
      BY <1>0
    <2> QED BY <1>0, <1>1, <2>1, <2>2, OwnersAfter
  <1>10. ~MemberOwns(o) /\ \A p : MemberOwns(p)' <=> MemberOwns(p)
    BY <1>4, <1>5, <1>8, <1>9 DEF MemberOwns
  <1>11. ASSUME NEW x \in Addresses
         PROVE  /\ InLocals(x)' = InLocals(x) /\ OnStack(x)' = OnStack(x)
                /\ InMembers(x)' = InMembers(x) /\ InCalls(x)' = InCalls(x)
    <2>1. \A i \in Locals : LocalRef(i, x) <=> LocalRef(i, x)'
      BY <1>0, <1>9 DEF LocalRef
    <2>2. \A p \in Addresses : MemberRef(p, x) <=> MemberRef(p, x)'
      BY <1>5, <1>10 DEF MemberRef
    <2>3. OnStack(x)' = OnStack(x)
      BY <1>0 DEF OnStack, StackRefs
    <2>4. InCalls(x)' = InCalls(x)
      <3>1. InCalls(x)' \in Nat /\ InCalls(x)' + Bit(OwnedBy(Last(todo), x)) = InCalls(x)
        BY <1>0, CallsAfterNone
      <3>2. Bit(OwnedBy(Last(todo), x)) = 0
        BY DEF Bit, OwnedBy, CallOwns
      <3> QED BY <3>1, <3>2
    <2> QED BY <2>1, <2>2, <2>3, <2>4, LocalsKept, MembersKept DEF InLocals, InMembers
  <1>12. CountInv'
    <2>1. \A x \in Addresses : References(x)' = References(x)
      BY <1>0, <1>11, SumOfParts, SumOfPartsNext
    <2> QED BY <2>1 DEF CountInv, FlowInv
  <1>13. TodoInv'
    <2>1. ASSUME NEW n \in 1 .. Len(todo) - 1
          PROVE  /\ todo[n].op = "setMember" => kind'[todo[n].obj] = "obj"
                 /\ todo[n].op = "reclaim" =>
                       todo[n].obj \in InUse' /\ refCount'[todo[n].obj] = 0
      <3>1. n \in DOMAIN todo /\ CallInv(n)
        BY <1>3 DEF FlowInv, TodoInv
      <3>2. CASE todo[n].op = "setMember"
        <4>1. todo[n].obj \in Addresses /\ kind[todo[n].obj] = "obj"
          BY <3>1, <3>2 DEF CallInv
        <4>2. n \in CallRefs(todo[n].obj)
          BY <3>1, <3>2 DEF CallRefs, CallOwns
        <4>3. refCount[todo[n].obj] > 0
          BY <4>1, <4>2, Referenced
        <4>4. todo[n].obj # o
          BY <1>4, <4>3
        <4> QED BY <1>5, <3>2, <4>1, <4>4
      <3>3. CASE todo[n].op = "reclaim"
        BY <1>5, <1>7, <3>1, <3>3 DEF CallInv
      <3> QED BY <3>2, <3>3
    <2>2. \A n \in 1 .. Len(todo) - 1 : CallInv(n)'
      BY <1>0, <1>1, <2>1, CallsBelow
    <2> QED BY <1>2, <1>3, <2>2 DEF TodoInv, FlowInv
  <1>14. LiveInv'
    <2> SUFFICES ASSUME NEW x \in InUse, x # o, refCount[x] = 0
                 PROVE  Dying(x)' \/ PendingOn("tryRelease", x)'
      BY <1>5 DEF LiveInv
    <2>1. Dying(x) \/ PendingOn("tryRelease", x)
      BY DEF FlowInv, LiveInv
    <2>2. PendingOn("tryRelease", x) => PendingOn("tryRelease", x)'
      BY <1>0, <1>1, PendingAfter
    <2> QED BY <1>8, <2>1, <2>2
  <1>15. IdleInv' /\ LimitInv'
    BY <1>0, <1>4, <1>5 DEF IdleInv, LimitInv, FlowInv
  <1> QED BY <1>5, <1>6, <1>12, <1>13, <1>14, <1>15 DEF FlowInv

(* Every step of a cascade keeps the invariant.                            *)
LEMMA CascadeKeeps ==
    ASSUME FlowInv, CascadeStep
    PROVE  FlowInv'
  <1>1. todo # <<>> /\ UNCHANGED <<frameVars, forgotten>>
    BY DEF CascadeStep, Cascade
  <1>2. \/ /\ Last(todo).op = "release" /\ ReleaseStep(Last(todo).obj)
           /\ UNCHANGED <<allocVars, pool, kind, member>>
        \/ /\ Last(todo).op = "tryRelease" /\ TryReleaseStep(Last(todo).obj)
           /\ UNCHANGED <<allocVars, pool, kind, member>>
        \/ /\ Last(todo).op = "reclaim" /\ Reclaim(Last(todo).obj) /\ Return(<<>>)
           /\ UNCHANGED refCount
    BY DEF CascadeStep, Cascade
  <1> QED BY <1>1, <1>2, ReleaseKeeps, TryReleaseKeeps, ReclaimKeeps

(***************************************************************************)
(* What is left of an opcode.  A call that is about to overwrite something *)
(* is the only one: the cascade above it has returned.                     *)
(***************************************************************************)
LEMMA OnlyCall ==
    ASSUME FlowInv, todo # <<>>, Last(todo).op \in Replacing
    PROVE  /\ Last(todo) \in Calls /\ DOMAIN todo = {1} /\ todo[1] = Last(todo) /\ CallInv(1)
           /\ \A o : InCalls(o) = Bit(OwnedBy(Last(todo), o))
           /\ \A then \in Seq(Calls) : Return(then) => todo' = then
           /\ \A o \in InUse : o \in Addresses /\ refCount[o] # 0
           /\ \A o \in Addresses \ InUse : refCount[o] = 0
  <1>1. todo \in Seq(Calls)
    BY DEF FlowInv, FrameTypes
  <1>2. /\ Len(todo) \in Nat \ {0} /\ DOMAIN todo = 1 .. Len(todo)
        /\ todo[Len(todo)] = Last(todo) /\ Last(todo) \in Calls
        /\ Front(todo) \in Seq(Calls) /\ Len(Front(todo)) = Len(todo) - 1
    BY <1>1, FrontAndLast, LenProperties
  <1>3. Len(todo) \in DOMAIN todo
    <2>1. \A l \in Nat \ {0} : l \in 1 .. l
      OBVIOUS
    <2> QED BY <1>2, <2>1
  <1>4. Len(todo) = 1
    BY <1>2, <1>3 DEF FlowInv, TodoInv, CallInv
  <1>5. DOMAIN todo = {1} /\ todo[1] = Last(todo) /\ CallInv(1) /\ Front(todo) = <<>>
    <2>1. 1 .. 1 = {1}
      OBVIOUS
    <2>2. Front(todo) = <<>>
      BY <1>2, <1>4, EmptySeq
    <2>3. CallInv(1)
      BY <1>3, <1>4 DEF FlowInv, TodoInv
    <2> QED BY <1>2, <1>4, <2>1, <2>2, <2>3
  <1>6. ASSUME NEW o PROVE InCalls(o) = Bit(OwnedBy(Last(todo), o))
    <2>1. Cardinality(OwningCalls(todo, o))
             = Cardinality(OwningCalls(Front(todo), o)) + Bit(OwnedBy(Last(todo), o))
      BY <1>1, CallPopped
    <2>2. Cardinality(OwningCalls(Front(todo), o)) = 0
      BY <1>5, OwningNone
    <2>3. Bit(OwnedBy(Last(todo), o)) \in Nat
      BY DEF Bit
    <2> QED BY <2>1, <2>2, <2>3, CallRefsOf DEF InCalls
  <1>7. \A then \in Seq(Calls) : Return(then) => todo' = then
    BY <1>5, ConcatEmptySeq DEF Return
  <1>8. ASSUME NEW o \in InUse PROVE o \in Addresses /\ refCount[o] # 0
    <2>1. ~Dying(o) /\ ~PendingOn("tryRelease", o)
      BY <1>5 DEF Dying, PendingOn, Replacing
    <2> QED BY <2>1, StoreNumbers DEF FlowInv, LiveInv
  <1> QED BY <1>2, <1>5, <1>6, <1>7, <1>8 DEF FlowInv, IdleInv

(* The rest of a store to local i: the local takes w and owns it.          *)
LEMMA LocalSetKeeps ==
    ASSUME FlowInv, todo # <<>>, Last(todo).op \in {"setLocal", "cloneInto"},
           NEW i \in Locals, Last(todo).at = i, NEW w \in Objects, NEW N, StoreStep(N),
           local' = [local EXCEPT ![i] = w], Return(<<>>),
           UNCHANGED <<stack, exception, phase, forgotten>>,
           refCount' \in [Addresses -> Nat],
           \A x \in Addresses : refCount'[x] + Bit(OwnedBy(Last(todo), x))
                                = refCount[x] + Bit(w = x),
           \A x \in Addresses \ InUse' : refCount'[x] = 0,
           \A x \in InUse' : refCount'[x] # 0
    PROVE  FlowInv'
  <1>1. /\ FrameTypes /\ local \in [Locals -> Values] /\ w \in Values
        /\ Last(todo).op \in Replacing
    BY DEF FlowInv, FrameTypes, Values, Replacing
  <1>2. /\ DOMAIN todo = {1} /\ todo[1] = Last(todo) /\ todo' = <<>>
        /\ \A x : InCalls(x) = Bit(OwnedBy(Last(todo), x))
    BY <1>1, OnlyCall, EmptySeq
  <1>3. Plain' /\ TodoInv' /\ todo' \in Seq(Calls) /\ \A x : InCalls(x)' = 0
    BY <1>2, NoneLeft
  <1>4. FrameTypes'
    BY <1>1, <1>3 DEF FrameTypes
  <1>5. /\ \A j : LocalOwns(j) <=> j # i
        /\ \A j : LocalOwns(j)'
        /\ \A p : (MemberOwns(p) <=> p \in InUse) /\ (MemberOwns(p)' <=> p \in InUse')
    <2>1. \A j : LocalOwns(j) <=> j # i
      BY <1>2 DEF LocalOwns, PendingAt
    <2>2. \A p : MemberOwns(p) <=> p \in InUse
      BY <1>2 DEF MemberOwns, Dying, PendingOn
    <2> QED BY <1>3, <2>1, <2>2, PlainOwnsNext
  <1>6. ASSUME NEW x \in Addresses PROVE InLocals(x)' = InLocals(x) + Bit(w = x)
    <2>1. \A j \in Locals \ {i} : LocalRef(j, x) <=> LocalRef(j, x)'
      BY <1>1, <1>5 DEF LocalRef
    <2>2. ~LocalRef(i, x) /\ (LocalRef(i, x)' <=> w = x)
      BY <1>1, <1>5 DEF LocalRef
    <2>3. /\ Cardinality(LocalRefs(x)') \in Nat
          /\ Cardinality(LocalRefs(x)') + Bit(LocalRef(i, x))
             = Cardinality(LocalRefs(x)) + Bit(LocalRef(i, x)')
      BY <1>1, <2>1, FiniteRefs, LocalChanges
    <2>4. Bit(LocalRef(i, x)) = 0 /\ Bit(LocalRef(i, x)') = Bit(w = x)
      BY <2>2 DEF Bit
    <2> QED BY <2>3, <2>4 DEF InLocals
  <1>7. ASSUME NEW x \in Addresses PROVE InMembers(x)' = InMembers(x) /\ OnStack(x)' = OnStack(x)
    <2>1. ASSUME NEW p \in Addresses PROVE MemberRef(p, x) <=> MemberRef(p, x)'
      <3>1. CASE p \in N
        <4>1. p \notin InUse /\ member'[p] # x
          BY <3>1 DEF StoreStep
        <4> QED BY <1>5, <4>1 DEF MemberRef
      <3>2. CASE p \notin N
        <4>1. /\ kind'[p] = kind[p] /\ member'[p] = member[p]
              /\ p \in InUse' <=> p \in InUse
          BY <3>2 DEF StoreStep
        <4> QED BY <1>5, <4>1 DEF MemberRef
      <3> QED BY <3>1, <3>2
    <2>2. OnStack(x)' = OnStack(x)
      BY DEF OnStack, StackRefs
    <2> QED BY <2>1, <2>2, MembersKept DEF InMembers
  <1>8. CountInv'
    <2> SUFFICES ASSUME NEW x \in Addresses
                 PROVE  refCount'[x] + InLocals(x) + OnStack(x) + InMembers(x) + InCalls(x)
                            + Bit(exception = x) + forgotten[x]
                        = refCount[x] + InLocals(x)' + OnStack(x)' + InMembers(x)' + InCalls(x)'
                            + Bit(exception' = x) + forgotten'[x]
      BY <1>4, CountsFollow
    <2> DEFINE l == InLocals(x)  s == OnStack(x)  m == InMembers(x)  rn == refCount'[x]
               e == Bit(exception = x)  r == refCount[x]  f == forgotten[x]
               y == Bit(OwnedBy(Last(todo), x))  z == Bit(w = x)
    <2>1. /\ l \in Nat /\ s \in Nat /\ m \in Nat
      BY <1>1, PartsAreNumbers
    <2>2. /\ e \in Nat /\ r \in Nat /\ rn \in Nat /\ f \in Nat /\ y \in Nat /\ z \in Nat
      BY <1>1 DEF FrameTypes, Bit
    <2>3. /\ rn + y = r + z /\ InLocals(x)' = l + z /\ InMembers(x)' = m /\ OnStack(x)' = s
          /\ InCalls(x) = y /\ InCalls(x)' = 0 /\ Bit(exception' = x) = e /\ forgotten'[x] = f
      BY <1>2, <1>3, <1>6, <1>7
    <2> HIDE DEF l, s, m, rn, e, r, f, y, z
    <2>4. rn + l + s + m + y + e + f = r + (l + z) + s + m + 0 + e + f
      BY <2>1, <2>2, <2>3
    <2> QED BY <2>3, <2>4 DEF l, s, m, rn, e, r, f
  <1>9. IdleInv' /\ LiveInv' /\ StoreInv' /\ LimitInv'
    BY DEF IdleInv, LiveInv, StoreStep, LimitInv
  <1> QED BY <1>3, <1>4, <1>8, <1>9 DEF FlowInv

(* A local is written when its old value has been released.                *)
LEMMA SetLocalKeeps ==
    ASSUME FlowInv, todo # <<>>, FinishSetLocal(Last(todo)), UNCHANGED forgotten
    PROVE  FlowInv'
  <1>0. PICK i, w : i = Last(todo).at /\ w = Last(todo).obj
    OBVIOUS
  <1>1. /\ Last(todo).op = "setLocal" /\ local' = [local EXCEPT ![i] = w] /\ Return(<<>>)
        /\ Unmanaged /\ UNCHANGED <<refCount, stack, exception, phase>>
    BY <1>0 DEF FinishSetLocal
  <1>2. /\ todo[1] = Last(todo) /\ CallInv(1)
        /\ \A o \in InUse : o \in Addresses /\ refCount[o] # 0
        /\ \A o \in Addresses \ InUse : refCount[o] = 0
    <2>1. Last(todo).op \in Replacing
      BY <1>1 DEF Replacing
    <2> QED BY <2>1, OnlyCall
  <1>3. i \in Locals /\ w \in Objects
    BY <1>0, <1>1, <1>2 DEF CallInv
  <1>4. StoreStep({}) /\ InUse' = InUse
    BY <1>1, UnmanagedStep
  <1>5. refCount' \in [Addresses -> Nat]
    BY <1>1 DEF FlowInv, FrameTypes
  <1>6. \A x \in Addresses : refCount'[x] + Bit(OwnedBy(Last(todo), x)) = refCount[x] + Bit(w = x)
    BY <1>0, <1>1 DEF Bit, OwnedBy, CallOwns
  <1>7. (\A x \in Addresses \ InUse' : refCount'[x] = 0) /\ (\A x \in InUse' : refCount'[x] # 0)
    BY <1>1, <1>2, <1>4
  <1> QED BY <1>0, <1>1, <1>3, <1>4, <1>5, <1>6, <1>7, LocalSetKeeps

(* The same with a copy of the number.                                     *)
LEMMA CloneIntoKeeps ==
    ASSUME FlowInv, todo # <<>>, NEW o, FinishClone(Last(todo), o), UNCHANGED forgotten
    PROVE  FlowInv'
  <1>0. PICK i, v : i = Last(todo).at /\ v = Last(todo).obj
    OBVIOUS
  <1>1. /\ Last(todo).op = "cloneInto" /\ Return(<<>>) /\ UNCHANGED <<stack, exception, phase>>
        /\ FrameTypes /\ refCount \in [Addresses -> Nat]
    BY DEF FinishClone, FlowInv, FrameTypes
  <1>2. /\ todo[1] = Last(todo) /\ CallInv(1)
        /\ \A x \in InUse : x \in Addresses /\ refCount[x] # 0
        /\ \A x \in Addresses \ InUse : refCount[x] = 0
    <2>1. Last(todo).op \in Replacing
      BY <1>1 DEF Replacing
    <2> QED BY <2>1, OnlyCall
  <1>3. i \in Locals /\ v \in Objects
    BY <1>0, <1>1, <1>2 DEF CallInv
  <1>4. \A x : Bit(OwnedBy(Last(todo), x)) = 0
    BY <1>1 DEF Bit, OwnedBy, CallOwns
  <1>5. PICK w, N : /\ w \in Objects /\ StoreStep(N) /\ N \subseteq {w}
                    /\ InUse' = InUse \cup N /\ (w \in Addresses => w \in N)
                    /\ local' = [local EXCEPT ![i] = w] /\ refCount' = Retained(w, refCount)
    <2>1. CASE v \in Addresses
      <3>1. /\ New("int", o, Null) /\ refCount' = Retained(o, refCount)
            /\ local' = [local EXCEPT ![i] = o]
        BY <1>0, <2>1 DEF FinishClone, Counted, NewReference
      <3>2. StoreStep({o}) /\ InUse' = InUse \cup {o} /\ o \in Objects
        BY <1>1, <3>1, NewStep DEF Kinds
      <3> QED BY <3>1, <3>2
    <2>2. CASE v \notin Addresses
      <3>1. Unmanaged /\ refCount' = refCount /\ local' = [local EXCEPT ![i] = v]
        BY <1>0, <2>2 DEF FinishClone, Counted
      <3>2. StoreStep({}) /\ InUse' = InUse /\ refCount' = Retained(v, refCount)
        BY <1>1, <2>2, <3>1, UnmanagedStep DEF Retained, Counted
      <3> QED BY <1>3, <2>2, <3>1, <3>2
    <2> QED BY <2>1, <2>2
  <1>6. /\ refCount' \in [Addresses -> Nat]
        /\ \A x \in Addresses : refCount'[x] = refCount[x] + Bit(w = x)
    BY <1>1, <1>5, RetainedCounts
  <1>7. \A x \in Addresses : refCount'[x] + Bit(OwnedBy(Last(todo), x)) = refCount[x] + Bit(w = x)
    BY <1>4, <1>6
  <1>8. \A x \in Addresses \ InUse' : refCount'[x] = 0
    <2> SUFFICES ASSUME NEW x \in Addresses \ InUse' PROVE refCount'[x] = 0
      OBVIOUS
    <2>1. refCount[x] = 0 /\ w # x
      BY <1>2, <1>5
    <2> QED BY <1>6, <2>1 DEF Bit
  <1>9. \A x \in InUse' : refCount'[x] # 0
    <2> SUFFICES ASSUME NEW x \in InUse' PROVE refCount'[x] # 0
      OBVIOUS
    <2>1. x \in Addresses
      BY <1>2, <1>5 DEF StoreStep
    <2>2. refCount[x] \in Nat /\ refCount'[x] = refCount[x] + Bit(w = x)
      BY <1>1, <1>6, <2>1
    <2>3. w = x \/ refCount[x] # 0
      BY <1>2, <1>5
    <2> QED BY <2>2, <2>3 DEF Bit
  <1> QED BY <1>0, <1>1, <1>3, <1>5, <1>6, <1>7, <1>8, <1>9, LocalSetKeeps

(* The rest of STORE_MEMBER: the operand becomes the parent's member; the  *)
(* parent's own reference passes to its release.                           *)
LEMMA SetMemberKeeps ==
    ASSUME FlowInv, todo # <<>>, FinishSetMember(Last(todo)), UNCHANGED forgotten
    PROVE  FlowInv'
  <1>0. PICK p, v : p = Last(todo).obj /\ v = Top
    OBVIOUS
  <1> DEFINE b == Call("release", p, 0)
  <1>1. /\ Last(todo).op = "setMember" /\ member' = [member EXCEPT ![p] = v]
        /\ stack' = Below /\ Return(<<b>>)
        /\ UNCHANGED <<allocVars, kind, pool, refCount, local, exception, phase>>
    BY <1>0 DEF FinishSetMember
  <1>2. /\ DOMAIN todo = {1} /\ todo[1] = Last(todo) /\ CallInv(1)
        /\ \A x : InCalls(x) = Bit(OwnedBy(Last(todo), x))
        /\ \A then \in Seq(Calls) : Return(then) => todo' = then
        /\ \A x \in InUse : x \in Addresses /\ refCount[x] # 0
        /\ \A x \in Addresses \ InUse : refCount[x] = 0
    <2>1. Last(todo).op \in Replacing
      BY <1>1 DEF Replacing
    <2> QED BY <2>1, OnlyCall
  <1>3. p \in Addresses /\ kind[p] = "obj" /\ stack # <<>> /\ p \in InUse
    <2>1. p \in Addresses /\ kind[p] = "obj" /\ stack # <<>>
      BY <1>0, <1>1, <1>2 DEF CallInv
    <2>2. CallRefs(p) # {}
      BY <1>0, <1>1, <1>2 DEF CallRefs, CallOwns
    <2> QED BY <2>1, <2>2, Referenced
  <1>4. FrameTypes /\ member \in [Addresses -> Values]
    BY DEF FlowInv, StoreInv, StoreTypes
  <1>5. /\ stack' \in Seq(Objects) /\ v \in Objects
        /\ \A o : OnStack(o)' \in Nat /\ OnStack(o) = OnStack(o)' + Bit(v = o)
    BY <1>0, <1>1, <1>3, <1>4, StackPopped
  <1>6. StoreInv' /\ InUse' = InUse
    BY <1>1, <1>3, <1>5, MemberStore DEF FlowInv
  <1>7. b \in Calls /\ b.op = "release" /\ (\A x : OwnedBy(b, x) <=> p = x)
    BY <1>3, ReleaseCall DEF Values, Objects
  <1> HIDE DEF b
  <1>8. todo' = <<b>>
    <2>1. <<b>> \in Seq(Calls)
      BY <1>7
    <2> QED BY <1>1, <1>2, <2>1
  <1>9. /\ todo' \in Seq(Calls) /\ DOMAIN todo' = {1} /\ todo'[1] = b
        /\ \A x : InCalls(x)' = Bit(OwnedBy(b, x))
    BY <1>7, <1>8, OneCall
  <1>10. Plain' /\ TodoInv'
    BY <1>7, <1>9, ReleasesLeft
  <1>11. FrameTypes'
    BY <1>1, <1>4, <1>5, <1>9 DEF FrameTypes
  <1>12. \A x : InCalls(x)' = InCalls(x)
    BY <1>0, <1>1, <1>2, <1>7, <1>9 DEF Bit, OwnedBy, CallOwns
  <1>13. /\ \A j : LocalOwns(j) /\ LocalOwns(j)'
         /\ \A q : (MemberOwns(q) <=> q \in InUse /\ q # p) /\ (MemberOwns(q)' <=> q \in InUse)
    <2>1. \A j : LocalOwns(j)
      BY <1>1, <1>2 DEF LocalOwns, PendingAt
    <2>2. \A q : MemberOwns(q) <=> q \in InUse /\ q # p
      BY <1>0, <1>1, <1>2 DEF MemberOwns, Dying, PendingOn
    <2> QED BY <1>6, <1>10, <2>1, <2>2, PlainOwnsNext
  <1>14. ASSUME NEW x \in Addresses
         PROVE  InLocals(x)' = InLocals(x) /\ InMembers(x)' = InMembers(x) + Bit(v = x)
    <2>1. \A j \in Locals : LocalRef(j, x) <=> LocalRef(j, x)'
      BY <1>1, <1>13 DEF LocalRef
    <2>2. \A q \in Addresses \ {p} : MemberRef(q, x) <=> MemberRef(q, x)'
      BY <1>1, <1>4, <1>13 DEF MemberRef
    <2>3. ~MemberRef(p, x) /\ (MemberRef(p, x)' <=> v = x)
      BY <1>1, <1>3, <1>4, <1>13 DEF MemberRef
    <2>4. /\ Cardinality(MemberRefs(x)') \in Nat
          /\ Cardinality(MemberRefs(x)') + Bit(MemberRef(p, x))
             = Cardinality(MemberRefs(x)) + Bit(MemberRef(p, x)')
      BY <1>3, <1>4, <2>2, FiniteRefs, MemberChanges
    <2>5. Bit(MemberRef(p, x)) = 0 /\ Bit(MemberRef(p, x)') = Bit(v = x)
      BY <2>3 DEF Bit
    <2>6. InMembers(x)' = InMembers(x) + Bit(v = x)
      BY <2>4, <2>5 DEF InMembers
    <2> QED BY <2>1, <2>6, LocalsKept DEF InLocals
  <1>15. CountInv'
    <2> SUFFICES ASSUME NEW x \in Addresses
                 PROVE  refCount'[x] + InLocals(x) + OnStack(x) + InMembers(x) + InCalls(x)
                            + Bit(exception = x) + forgotten[x]
                        = refCount[x] + InLocals(x)' + OnStack(x)' + InMembers(x)' + InCalls(x)'
                            + Bit(exception' = x) + forgotten'[x]
      BY <1>11, CountsFollow
    <2> DEFINE l == InLocals(x)  sn == OnStack(x)'  m == InMembers(x)  c == InCalls(x)
               e == Bit(exception = x)  r == refCount[x]  f == forgotten[x]  z == Bit(v = x)
    <2>1. /\ l \in Nat /\ sn \in Nat /\ m \in Nat /\ c \in Nat
      BY <1>4, <1>11, PartsAreNumbers, PartsAreNumbersNext
    <2>2. /\ e \in Nat /\ r \in Nat /\ f \in Nat /\ z \in Nat
      BY <1>4 DEF FrameTypes, Bit
    <2>3. /\ refCount'[x] = r /\ InLocals(x)' = l /\ InMembers(x)' = m + z
          /\ OnStack(x) = sn + z /\ InCalls(x)' = c
          /\ Bit(exception' = x) = e /\ forgotten'[x] = f
      BY <1>1, <1>5, <1>12, <1>14
    <2> HIDE DEF l, sn, m, c, e, r, f, z
    <2>4. r + l + (sn + z) + m + c + e + f = r + l + sn + (m + z) + c + e + f
      BY <2>1, <2>2
    <2> QED BY <2>3, <2>4 DEF l, sn, m, c, e, r, f
  <1>16. IdleInv' /\ LiveInv' /\ LimitInv'
    <2>1. UNCHANGED <<changedMemory, currentManagedMemory>>
      BY <1>1 DEF allocVars, arenaVars
    <2> QED BY <1>1, <1>2, <1>6, <2>1 DEF IdleInv, LiveInv, LimitInv, FlowInv
  <1> QED BY <1>6, <1>10, <1>11, <1>15, <1>16 DEF FlowInv

(***************************************************************************)
(* The end of a frame gives up its locals and operands one by one.         *)
(***************************************************************************)
LEMMA ClearingIsAlone ==
    ASSUME FlowInv, todo # <<>>, Last(todo).op \in Clearing
    PROVE  /\ todo \in Seq(Calls) /\ Last(todo) \in Calls /\ CallInv(Len(todo))
           /\ Len(todo) \in Nat \ {0} /\ todo[Len(todo)] = Last(todo)
           /\ \A n \in DOMAIN todo : todo[n].op \in Clearing /\ CallInv(n)
           /\ Plain
           /\ \A o \in InUse : o \in Addresses /\ refCount[o] # 0
           /\ \A o \in Addresses \ InUse : refCount[o] = 0
  <1>1. todo \in Seq(Calls)
    BY DEF FlowInv, FrameTypes
  <1>2. /\ Len(todo) \in Nat \ {0} /\ DOMAIN todo = 1 .. Len(todo)
        /\ todo[Len(todo)] = Last(todo) /\ Last(todo) \in Calls
    BY <1>1, FrontAndLast, LenProperties
  <1>3. Len(todo) \in DOMAIN todo
    <2>1. \A l \in Nat \ {0} : l \in 1 .. l
      OBVIOUS
    <2> QED BY <1>2, <2>1
  <1>4. \A n \in DOMAIN todo : CallInv(n)
    BY DEF FlowInv, TodoInv
  <1>5. Len(todo) = 1 \/ (Len(todo) = 2 /\ todo[1].op \in Clearing)
    BY <1>2, <1>3, <1>4 DEF CallInv
  <1>6. \A n \in DOMAIN todo : todo[n].op \in Clearing
    <2>1. /\ \A n \in 1 .. 1 : n = 1
          /\ \A n \in 1 .. 2 : n = 1 \/ n = 2
      OBVIOUS
    <2> QED BY <1>2, <1>5, <2>1
  <1>7. Plain
    BY <1>6 DEF Plain, Replacing, Clearing
  <1>8. ASSUME NEW o \in InUse PROVE o \in Addresses /\ refCount[o] # 0
    <2>1. ~Dying(o) /\ ~PendingOn("tryRelease", o)
      BY <1>6 DEF Dying, PendingOn, Clearing
    <2> QED BY <2>1, StoreNumbers DEF FlowInv, LiveInv
  <1> QED BY <1>1, <1>2, <1>3, <1>4, <1>6, <1>7, <1>8 DEF FlowInv, IdleInv

(* A reference moves from a local or the operands to a release.            *)
LEMMA ClearKeeps ==
    ASSUME FlowInv, todo # <<>>, Last(todo).op \in Clearing,
           NEW then \in Seq(Calls), Return(then),
           \A k \in 1 .. Len(then) :
              \/ then[k].op = "release"
              \/ k = 1 /\ then[k].op = Last(todo).op /\ (then[k].op = "clearLocals" => then[k].at > 0),
           Unmanaged, UNCHANGED <<refCount, exception, phase, forgotten>>,
           local' \in [Locals -> Values], stack' \in Seq(Objects),
           \A x \in Addresses : InLocals(x)' + OnStack(x)' + InCalls(x)'
                                = InLocals(x) + OnStack(x) + InCalls(x)
    PROVE  FlowInv'
  <1>1. /\ CallInv(Len(todo)) /\ Plain
        /\ todo[Len(todo)] = Last(todo)
        /\ \A n \in DOMAIN todo : todo[n].op \in Clearing /\ CallInv(n)
        /\ \A o \in InUse : o \in Addresses /\ refCount[o] # 0
        /\ \A o \in Addresses \ InUse : refCount[o] = 0
    BY ClearingIsAlone
  <1>2. FrameTypes /\ StoreStep({}) /\ InUse' = InUse /\ UNCHANGED <<kind, member>>
    BY UnmanagedStep DEF FlowInv, Unmanaged
  <1>3. /\ Len(todo) \in Nat \ {0} /\ DOMAIN todo = 1 .. Len(todo)
        /\ todo' \in Seq(Calls) /\ DOMAIN todo' = 1 .. Len(todo) - 1 + Len(then)
        /\ \A n \in 1 .. Len(todo) - 1 : todo'[n] = todo[n]
        /\ \A n \in 1 .. Len(then) : todo'[Len(todo) - 1 + n] = then[n]
    BY <1>2, Returned
  <1>4. FrameTypes'
    BY <1>2, <1>3 DEF FrameTypes
  <1>5. \A n \in DOMAIN todo' :
           \/ n \in 1 .. Len(todo) - 1 /\ todo'[n] = todo[n] /\ n \in DOMAIN todo
           \/ todo'[n].op = "release"
           \/ /\ n = Len(todo) /\ todo'[n].op = Last(todo).op
              /\ todo'[n].op = "clearLocals" => todo'[n].at > 0
    <2> DEFINE l == Len(todo)
               t == Len(then)
    <2>1. /\ l \in Nat \ {0} /\ DOMAIN todo = 1 .. l /\ DOMAIN todo' = 1 .. l - 1 + t
          /\ \A n \in 1 .. l - 1 : todo'[n] = todo[n]
          /\ \A n \in 1 .. t : todo'[l - 1 + n] = then[n]
          /\ \A k \in 1 .. t :
                \/ then[k].op = "release"
                \/ /\ k = 1 /\ then[k].op = Last(todo).op
                   /\ then[k].op = "clearLocals" => then[k].at > 0
      BY <1>3
    <2>2. t \in Nat
      BY LenProperties
    <2> HIDE DEF l, t
    <2> SUFFICES ASSUME NEW n \in DOMAIN todo'
                 PROVE  \/ n \in 1 .. l - 1 /\ todo'[n] = todo[n] /\ n \in DOMAIN todo
                        \/ todo'[n].op = "release"
                        \/ /\ n = l /\ todo'[n].op = Last(todo).op
                           /\ todo'[n].op = "clearLocals" => todo'[n].at > 0
      BY DEF l
    <2>3. CASE n \in 1 .. l - 1
      BY <2>1, <2>3
    <2>4. CASE n \notin 1 .. l - 1
      <3> DEFINE k == n - (l - 1)
      <3>1. k \in 1 .. t /\ l - 1 + k = n /\ (k = 1 => n = l)
        BY <2>1, <2>2, <2>4
      <3>2. todo'[n] = then[k]
        BY <2>1, <3>1
      <3> HIDE DEF k
      <3> QED BY <2>1, <3>1, <3>2
    <2> QED BY <2>3, <2>4
  <1>6. Plain' /\ TodoInv'
    <2>1. ASSUME NEW n \in DOMAIN todo'
          PROVE  /\ todo'[n].op \in Clearing \cup {"release"}
                 /\ CallInv(n)'
      <3>1. CASE todo'[n].op = "release"
        BY <3>1 DEF CallInv, Replacing, Clearing
      <3>2. CASE n \in 1 .. Len(todo) - 1 /\ todo'[n] = todo[n] /\ n \in DOMAIN todo
        <4>1. todo[n].op \in Clearing /\ CallInv(n)
          BY <1>1, <3>2
        <4>2. n = 2 => todo'[1] = todo[1]
          <5>1. 2 \in 1 .. Len(todo) - 1 => 1 \in 1 .. Len(todo) - 1
            BY <1>3
          <5> QED BY <1>3, <3>2, <5>1
        <4> QED BY <3>2, <4>1, <4>2 DEF CallInv, Replacing, Clearing
      <3>3. CASE /\ n = Len(todo) /\ todo'[n].op = Last(todo).op
                 /\ todo'[n].op = "clearLocals" => todo'[n].at > 0
        <4>1. n = 1 \/ (n = 2 /\ todo[1].op \in Clearing)
          BY <1>1, <3>3 DEF CallInv
        <4>2. n = 2 => todo'[1] = todo[1]
          <5>1. Len(todo) = 2 => 1 \in 1 .. Len(todo) - 1
            OBVIOUS
          <5> QED BY <1>3, <3>3, <5>1
        <4> QED BY <3>3, <4>1, <4>2 DEF CallInv, Replacing, Clearing
      <3> QED BY <1>5, <3>1, <3>2, <3>3
    <2> QED BY <2>1 DEF Plain, TodoInv, Replacing, Clearing
  <1>7. \A p : (MemberOwns(p) <=> p \in InUse) /\ (MemberOwns(p)' <=> p \in InUse)
    BY <1>1, <1>2, <1>6, PlainOwns, PlainOwnsNext
  <1>8. ASSUME NEW x \in Addresses PROVE InMembers(x)' = InMembers(x)
    <2>1. \A p \in Addresses : MemberRef(p, x) <=> MemberRef(p, x)'
      BY <1>2, <1>7 DEF MemberRef
    <2> QED BY <2>1, MembersKept DEF InMembers
  <1>9. CountInv'
    <2> SUFFICES ASSUME NEW x \in Addresses
                 PROVE  refCount'[x] + InLocals(x) + OnStack(x) + InMembers(x) + InCalls(x)
                            + Bit(exception = x) + forgotten[x]
                        = refCount[x] + InLocals(x)' + OnStack(x)' + InMembers(x)' + InCalls(x)'
                            + Bit(exception' = x) + forgotten'[x]
      BY <1>4, CountsFollow
    <2> DEFINE l == InLocals(x)  s == OnStack(x)  m == InMembers(x)  c == InCalls(x)
               ln == InLocals(x)'  sn == OnStack(x)'  cn == InCalls(x)'
               e == Bit(exception = x)  r == refCount[x]  f == forgotten[x]
    <2>1. /\ l \in Nat /\ s \in Nat /\ m \in Nat /\ c \in Nat
          /\ ln \in Nat /\ sn \in Nat /\ cn \in Nat
      BY <1>2, <1>4, PartsAreNumbers, PartsAreNumbersNext
    <2>2. /\ e \in Nat /\ r \in Nat /\ f \in Nat
      BY <1>2 DEF FrameTypes, Bit
    <2>3. /\ InMembers(x)' = m /\ refCount'[x] = r
          /\ Bit(exception' = x) = e /\ forgotten'[x] = f
      BY <1>8
    <2>4. ln + sn + cn = l + s + c
      OBVIOUS
    <2> HIDE DEF l, s, m, c, ln, sn, cn, e, r, f
    <2>5. r + l + s + m + c + e + f = r + ln + sn + m + cn + e + f
      BY <2>1, <2>2, <2>4
    <2> QED BY <2>3, <2>5 DEF l, s, m, c, ln, sn, cn, e, r, f
  <1>10. IdleInv' /\ LiveInv' /\ StoreInv' /\ LimitInv'
    BY <1>1, <1>2 DEF IdleInv, LiveInv, StoreStep, LimitInv
  <1> QED BY <1>4, <1>6, <1>9, <1>10 DEF FlowInv

(* stackAllocator.clear releases one local after the other.                *)
LEMMA ClearNextKeeps ==
    ASSUME FlowInv, todo # <<>>, ClearNext(Last(todo)), UNCHANGED forgotten
    PROVE  FlowInv'
  <1>0. PICK call : call = Last(todo)
    OBVIOUS
  <1>1. /\ call.op = "clearLocals" /\ call.op \in Clearing /\ Unmanaged
        /\ UNCHANGED <<refCount, stack, exception, phase>>
    BY <1>0 DEF ClearNext, Clearing
  <1>2. /\ FrameTypes /\ local \in [Locals -> Values] /\ stack' \in Seq(Objects)
        /\ todo[Len(todo)] = call /\ CallInv(Len(todo)) /\ call \in Calls /\ Plain
    BY <1>0, <1>1, ClearingIsAlone DEF FlowInv, FrameTypes
  <1>3. call.at \in Nat /\ call.at > 0
    BY <1>1, <1>2 DEF CallInv, Calls
  <1>4. \A x : ~OwnedBy(call, x)
    BY <1>1 DEF OwnedBy, CallOwns
  <1>5. CASE call.at > NumLocals
    <2>1. Return(<<>>) /\ local' = local
      BY <1>0, <1>5 DEF ClearNext
    <2>2. <<>> \in Seq(Calls) /\ \A k \in 1 .. Len(<<>>) : FALSE
      BY EmptySeq
    <2>3. \A x : InCalls(x)' = InCalls(x)
      <3>1. \A x : InCalls(x)' \in Nat /\ InCalls(x)' + Bit(OwnedBy(Last(todo), x)) = InCalls(x)
        BY <1>2, <2>1, CallsAfterNone
      <3>2. \A x : Bit(OwnedBy(Last(todo), x)) = 0
        BY <1>0, <1>4 DEF Bit
      <3> QED BY <3>1, <3>2
    <2>4. \A n \in DOMAIN todo' : todo'[n].op \in Clearing
      <3> DEFINE none == <<>>
      <3>1. none \in Seq(Calls) /\ Return(none) /\ Len(none) = 0
        BY <2>1, <2>2
      <3> HIDE DEF none
      <3>2. /\ Len(todo) \in Nat \ {0} /\ DOMAIN todo = 1 .. Len(todo)
            /\ DOMAIN todo' = 1 .. Len(todo) - 1 + Len(none)
            /\ \A n \in 1 .. Len(todo) - 1 : todo'[n] = todo[n]
        BY <1>2, <3>1, Returned
      <3>3. \A n \in DOMAIN todo' : n \in DOMAIN todo /\ todo'[n] = todo[n]
        BY <3>1, <3>2
      <3> QED BY <1>0, <1>1, <3>3, ClearingIsAlone
    <2>5. Plain'
      BY <2>4 DEF Plain, Clearing, Replacing
    <2>6. ASSUME NEW x \in Addresses
          PROVE  InLocals(x)' + OnStack(x)' + InCalls(x)' = InLocals(x) + OnStack(x) + InCalls(x)
      <3>1. \A i \in Locals : LocalRef(i, x) <=> LocalRef(i, x)'
        BY <1>2, <2>1, <2>5, PlainOwns, PlainOwnsNext DEF LocalRef
      <3>2. OnStack(x)' = OnStack(x)
        BY <1>1 DEF OnStack, StackRefs
      <3> QED BY <2>3, <3>1, <3>2, LocalsKept DEF InLocals
    <2> QED BY <1>0, <1>1, <1>2, <2>1, <2>2, <2>6, ClearKeeps
  <1>6. CASE ~(call.at > NumLocals)
    <2>1. PICK i, v : i = call.at /\ v = local[i]
      OBVIOUS
    <2> DEFINE a == Call("clearLocals", Null, i + 1)
               b == Call("release", v, 0)
               then == <<a, b>>
    <2>2. i \in Locals /\ v \in Values
      BY <1>2, <1>3, <1>6, <2>1, FlowAssumption DEF Locals
    <2>3. /\ a \in Calls /\ a.op = "clearLocals" /\ a.at > 0 /\ \A x : ~OwnedBy(a, x)
      <3>1. i + 1 \in Nat /\ i + 1 > 0
        BY <1>3, <2>1
      <3> QED BY <3>1 DEF Call, Calls, Ops, Clearing, Values, OwnedBy, CallOwns
    <2>4. b \in Calls /\ b.op = "release" /\ \A x : OwnedBy(b, x) <=> v = x
      BY <2>2, ReleaseCall
    <2>5. Return(<<a, b>>) /\ local' = [local EXCEPT ![i] = Null]
      BY <1>0, <1>6, <2>1 DEF ClearNext
    <2> HIDE DEF a, b
    <2>6. /\ then \in Seq(Calls) /\ Len(then) = 2 /\ then[1] = a /\ then[2] = b
      BY <2>3, <2>4
    <2>7. \A k \in 1 .. Len(then) :
             \/ then[k].op = "release"
             \/ k = 1 /\ then[k].op = call.op /\ (then[k].op = "clearLocals" => then[k].at > 0)
      <3>1. \A k \in 1 .. 2 : k = 1 \/ k = 2
        OBVIOUS
      <3> QED BY <1>1, <2>3, <2>4, <2>6, <3>1
    <2>8. ASSUME NEW x PROVE InCalls(x)' = InCalls(x) + Bit(v = x)
      <3>1. InCalls(x)' + Bit(OwnedBy(Last(todo), x))
                = InCalls(x) + Bit(OwnedBy(a, x)) + Bit(OwnedBy(b, x))
        BY <1>2, <2>3, <2>4, <2>5, CallsAfterTwo
      <3>2. /\ Bit(OwnedBy(Last(todo), x)) = 0 /\ Bit(OwnedBy(a, x)) = 0
            /\ Bit(OwnedBy(b, x)) = Bit(v = x) /\ Bit(v = x) \in Nat
        BY <1>0, <1>4, <2>3, <2>4 DEF Bit
      <3>3. InCalls(x) \in Nat /\ InCalls(x)' \in Nat
        <4>1. InCalls(x) \in Nat
          BY <1>2, PartsAreNumbers
        <4>2. todo' \in Seq(Calls)
          BY <1>2, <2>5, <2>6, Returned
        <4>3. /\ CallRefs(x)' = OwningCalls(todo', x)
              /\ Cardinality(OwningCalls(todo', x)) \in Nat
          BY <2>3, <4>2, CallPushed DEF CallRefs, OwningCalls, OwnedBy
        <4> QED BY <4>1, <4>3 DEF InCalls
      <3> QED BY <3>1, <3>2, <3>3
    <2>9. Plain'
      <3>1. /\ Len(todo) \in Nat \ {0} /\ DOMAIN todo = 1 .. Len(todo)
            /\ DOMAIN todo' = 1 .. Len(todo) - 1 + Len(then)
            /\ \A n \in 1 .. Len(todo) - 1 : todo'[n] = todo[n]
            /\ \A n \in 1 .. Len(then) : todo'[Len(todo) - 1 + n] = then[n]
        BY <1>2, <2>5, <2>6, Returned
      <3> DEFINE l == Len(todo)
      <3>2. \A n \in 1 .. l - 1 + 2 : n \in 1 .. l - 1 \/ n = l - 1 + 1 \/ n = l - 1 + 2
        <4>1. l \in Nat \ {0}
          BY <3>1
        <4> HIDE DEF l
        <4> QED BY <4>1
      <3>3. \A n \in DOMAIN todo' : \/ todo'[n] = todo[n] /\ n \in DOMAIN todo
                                    \/ todo'[n] = a \/ todo'[n] = b
        <4>1. 1 \in 1 .. 2 /\ 2 \in 1 .. 2 /\ \A n \in 1 .. l - 1 : n \in DOMAIN todo
          BY <3>1
        <4> HIDE DEF l, then
        <4> QED BY <2>6, <3>1, <3>2, <4>1 DEF l
      <3> QED BY <1>2, <2>3, <2>4, <3>3 DEF Plain, Replacing
    <2>10. ASSUME NEW x \in Addresses
           PROVE  InLocals(x)' + OnStack(x)' + InCalls(x)' = InLocals(x) + OnStack(x) + InCalls(x)
      <3>1. (\A j : LocalOwns(j)) /\ (\A j : LocalOwns(j)')
        BY <1>2, <2>9, PlainOwns, PlainOwnsNext
      <3>2. \A j \in Locals \ {i} : LocalRef(j, x) <=> LocalRef(j, x)'
        BY <1>2, <2>5, <3>1 DEF LocalRef
      <3>3. (LocalRef(i, x) <=> v = x) /\ ~LocalRef(i, x)'
        BY <1>2, <2>1, <2>2, <2>5, <3>1, AddressesAreFinite DEF LocalRef
      <3>4. /\ Cardinality(LocalRefs(x)) \in Nat /\ Cardinality(LocalRefs(x)') \in Nat
            /\ Cardinality(LocalRefs(x)') + Bit(LocalRef(i, x))
               = Cardinality(LocalRefs(x)) + Bit(LocalRef(i, x)')
        BY <1>2, <2>2, <3>2, FiniteRefs, LocalChanges
      <3>5. Bit(LocalRef(i, x)) = Bit(v = x) /\ Bit(LocalRef(i, x)') = 0 /\ Bit(v = x) \in Nat
        BY <3>3 DEF Bit
      <3>6. OnStack(x)' = OnStack(x) /\ OnStack(x) \in Nat /\ InCalls(x) \in Nat
        BY <1>1, <1>2, PartsAreNumbers DEF OnStack, StackRefs
      <3> DEFINE l == InLocals(x)  ln == InLocals(x)'  s == OnStack(x)  c == InCalls(x)
                 z == Bit(v = x)
      <3>7. l \in Nat /\ ln \in Nat /\ ln + z = l /\ InCalls(x)' = c + z
        BY <2>8, <3>4, <3>5 DEF InLocals
      <3> HIDE DEF l, ln, c, z
      <3>8. ln + s + (c + z) = l + s + c
        <4>1. s \in Nat /\ c \in Nat /\ z \in Nat
          BY <3>5, <3>6 DEF c, z
        <4> HIDE DEF s
        <4> QED BY <3>7, <4>1
      <3> QED BY <3>6, <3>7, <3>8 DEF l, ln, c, z
    <2>11. local' \in [Locals -> Values]
      BY <1>2, <2>2, <2>5 DEF Values
    <2> QED BY <1>0, <1>1, <1>2, <2>5, <2>6, <2>7, <2>10, <2>11, ClearKeeps
  <1> QED BY <1>5, <1>6

(* The operands left are released one after the other.                     *)
LEMMA DropNextKeeps ==
    ASSUME FlowInv, todo # <<>>, DropNext(Last(todo)), UNCHANGED forgotten
    PROVE  FlowInv'
  <1>0. PICK call, v : call = Last(todo) /\ v = Top
    OBVIOUS
  <1>1. /\ call.op = "dropOperands" /\ call.op \in Clearing /\ Unmanaged
        /\ UNCHANGED <<refCount, local, exception, phase>>
    BY <1>0 DEF DropNext, Clearing
  <1>2. /\ FrameTypes /\ local \in [Locals -> Values] /\ stack \in Seq(Objects)
        /\ call \in Calls /\ Plain
        /\ \A n \in DOMAIN todo : todo[n].op \in Clearing
    BY <1>0, <1>1, ClearingIsAlone DEF FlowInv, FrameTypes
  <1>3. \A x : ~OwnedBy(call, x)
    BY <1>1 DEF OwnedBy, CallOwns
  <1>4. \A x : Bit(OwnedBy(Last(todo), x)) = 0
    BY <1>0, <1>3 DEF Bit
  <1>5. PICK then \in Seq(Calls) :
           /\ Return(then) /\ stack' \in Seq(Objects)
           /\ \A k \in 1 .. Len(then) : then[k].op = "release" \/ (k = 1 /\ then[k] = call)
           /\ \A x \in Addresses : OnStack(x)' + InCalls(x)' = OnStack(x) + InCalls(x)
    <2>1. CASE stack = <<>>
      <3>1. Return(<<>>) /\ stack' = stack
        BY <1>0, <2>1 DEF DropNext
      <3>2. <<>> \in Seq(Calls) /\ \A k \in 1 .. Len(<<>>) : FALSE
        BY EmptySeq
      <3>3. ASSUME NEW x \in Addresses PROVE OnStack(x)' + InCalls(x)' = OnStack(x) + InCalls(x)
        <4>1. InCalls(x)' \in Nat /\ InCalls(x)' + Bit(OwnedBy(Last(todo), x)) = InCalls(x)
          BY <1>2, <3>1, CallsAfterNone
        <4>2. InCalls(x)' = InCalls(x)
          BY <1>4, <4>1
        <4> QED BY <3>1, <4>2 DEF OnStack, StackRefs
      <3> QED BY <1>2, <3>1, <3>2, <3>3
    <2>2. CASE stack # <<>>
      <3> DEFINE b == Call("release", v, 0)
                 both == <<call, b>>
      <3>1. stack' = Below /\ Return(<<call, b>>)
        BY <1>0, <2>2 DEF DropNext, OperandsAfterDrop
      <3>2. /\ stack' \in Seq(Objects) /\ v \in Objects
            /\ \A x : OnStack(x)' \in Nat /\ OnStack(x) = OnStack(x)' + Bit(v = x)
        BY <1>0, <1>2, <2>2, <3>1, StackPopped
      <3>3. b \in Calls /\ b.op = "release" /\ \A x : OwnedBy(b, x) <=> v = x
        BY <3>2, ReleaseCall DEF Values
      <3> HIDE DEF b
      <3>4. both \in Seq(Calls) /\ Len(both) = 2 /\ both[1] = call /\ both[2] = b
        BY <1>2, <3>3
      <3>5. \A k \in 1 .. Len(both) : both[k].op = "release" \/ (k = 1 /\ both[k] = call)
        <4>1. \A k \in 1 .. 2 : k = 1 \/ k = 2
          OBVIOUS
        <4> QED BY <3>3, <3>4, <4>1
      <3>6. ASSUME NEW x \in Addresses PROVE OnStack(x)' + InCalls(x)' = OnStack(x) + InCalls(x)
        <4> DEFINE sn == OnStack(x)'  c == InCalls(x)  cn == InCalls(x)'  z == Bit(v = x)
        <4>1. cn + Bit(OwnedBy(Last(todo), x))
                 = c + Bit(OwnedBy(call, x)) + Bit(OwnedBy(b, x))
          BY <1>2, <3>1, <3>3, CallsAfterTwo
        <4>2. Bit(OwnedBy(call, x)) = 0 /\ Bit(OwnedBy(b, x)) = z /\ z \in Nat
          BY <1>3, <3>3 DEF Bit
        <4>3. c \in Nat /\ sn \in Nat /\ OnStack(x) = sn + z
          BY <1>2, <3>2, PartsAreNumbers
        <4>4. cn \in Nat
          <5>1. todo' \in Seq(Calls)
            BY <1>2, <3>1, <3>4, Returned
          <5>2. /\ CallRefs(x)' = OwningCalls(todo', x)
                /\ Cardinality(OwningCalls(todo', x)) \in Nat
            BY <1>2, <5>1, CallPushed DEF CallRefs, OwningCalls, OwnedBy
          <5> QED BY <5>2 DEF InCalls
        <4> HIDE DEF sn, c, cn, z
        <4>5. cn = c + z
          BY <1>4, <4>1, <4>2, <4>3, <4>4
        <4>6. sn + cn = (sn + z) + c
          BY <4>2, <4>3, <4>5
        <4> QED BY <4>3, <4>6 DEF sn, c, cn
      <3> HIDE DEF both
      <3>7. Return(both)
        BY <3>1 DEF both
      <3> QED BY <3>2, <3>4, <3>5, <3>6, <3>7
    <2> QED BY <2>1, <2>2
  <1>6. Plain'
    <2>1. /\ Len(todo) \in Nat \ {0} /\ DOMAIN todo = 1 .. Len(todo)
          /\ DOMAIN todo' = 1 .. Len(todo) - 1 + Len(then)
          /\ \A n \in 1 .. Len(todo) - 1 : todo'[n] = todo[n]
          /\ \A n \in 1 .. Len(then) : todo'[Len(todo) - 1 + n] = then[n]
      BY <1>2, <1>5, Returned
    <2> DEFINE l == Len(todo)
               t == Len(then)
    <2>2. t \in Nat
      BY LenProperties
    <2>3. \A n \in DOMAIN todo' : \/ n \in DOMAIN todo /\ todo'[n] = todo[n]
                                  \/ \E k \in 1 .. t : todo'[n] = then[k]
      <3> SUFFICES ASSUME NEW n \in 1 .. l - 1 + t
                   PROVE  \/ n \in DOMAIN todo /\ todo'[n] = todo[n]
                          \/ \E k \in 1 .. t : todo'[n] = then[k]
        BY <2>1
      <3> HIDE DEF l, t
      <3>1. n \in 1 .. l - 1 \/ (n - (l - 1) \in 1 .. t /\ l - 1 + (n - (l - 1)) = n)
        BY <2>1, <2>2 DEF l
      <3>2. \A m \in 1 .. l - 1 : m \in DOMAIN todo
        BY <2>1 DEF l
      <3> QED BY <2>1, <3>1, <3>2 DEF l, t
    <2> HIDE DEF l
    <2> QED BY <1>1, <1>2, <1>5, <2>3 DEF Plain, Clearing, Replacing
  <1>7. ASSUME NEW x \in Addresses
        PROVE  InLocals(x)' + OnStack(x)' + InCalls(x)' = InLocals(x) + OnStack(x) + InCalls(x)
    <2>1. \A i \in Locals : LocalRef(i, x) <=> LocalRef(i, x)'
      BY <1>1, <1>2, <1>6, PlainOwns, PlainOwnsNext DEF LocalRef
    <2>2. InLocals(x)' = InLocals(x)
      BY <2>1, LocalsKept DEF InLocals
    <2> DEFINE l == InLocals(x)  s == OnStack(x)  c == InCalls(x)
               sn == OnStack(x)'  cn == InCalls(x)'
    <2>3. l \in Nat /\ s \in Nat /\ c \in Nat
      BY <1>2, PartsAreNumbers
    <2>4. sn \in Nat /\ cn \in Nat
      <3>1. /\ todo' \in Seq(Calls) /\ stack' \in Seq(Objects)
        BY <1>2, <1>5, Returned
      <3>2. FrameTypes'
        BY <1>1, <1>2, <3>1 DEF FrameTypes
      <3> QED BY <3>2, PartsAreNumbersNext
    <2>5. sn + cn = s + c
      BY <1>5
    <2> HIDE DEF l, s, c, sn, cn
    <2>6. l + sn + cn = l + s + c
      BY <2>3, <2>4, <2>5
    <2> QED BY <2>2, <2>6 DEF l, s, c, sn, cn
  <1>8. \A k \in 1 .. Len(then) :
           \/ then[k].op = "release"
           \/ /\ k = 1 /\ then[k].op = Last(todo).op
              /\ then[k].op = "clearLocals" => then[k].at > 0
    BY <1>0, <1>1, <1>5
  <1>9. local' \in [Locals -> Values]
    BY <1>1, <1>2
  <1> QED BY <1>0, <1>1, <1>5, <1>7, <1>8, <1>9, ClearKeeps

(* What is left of an opcode keeps the invariant.                          *)
LEMMA FinishKeeps ==
    ASSUME FlowInv, FinishStep
    PROVE  FlowInv'
  <1>1. todo # <<>> /\ UNCHANGED forgotten
    BY DEF FinishStep, Finish
  <1>2. \/ FinishSetLocal(Last(todo)) \/ (\E o \in Addresses : FinishClone(Last(todo), o))
        \/ FinishSetMember(Last(todo)) \/ ClearNext(Last(todo)) \/ DropNext(Last(todo))
    BY DEF FinishStep, Finish
  <1> QED BY <1>1, <1>2, SetLocalKeeps, CloneIntoKeeps, SetMemberKeeps,
             ClearNextKeeps, DropNextKeeps

(***************************************************************************)
(* The inductive invariant.                                                *)
(***************************************************************************)
LEMMA FlowInit == Init => FlowInv
  <1> SUFFICES ASSUME Init PROVE FlowInv
    OBVIOUS
  <1>1. /\ ArenaInit /\ pool = <<>> /\ todo = <<>> /\ stack = <<>> /\ exception = Null
        /\ kind = [o \in Addresses |-> "int"] /\ refCount = [o \in Addresses |-> 0]
        /\ member = [o \in Addresses |-> Null] /\ local = [i \in Locals |-> Null]
        /\ phase = "run" /\ forgotten = [o \in Addresses |-> 0]
    BY DEF Init, ManagerInit
  <1>2. /\ countObject = 0 /\ held = {} /\ isFree = {}
        /\ currentManagedMemory = 0 /\ changedMemory = FALSE
    BY <1>1 DEF ArenaInit, AllocatorInit
  <1>3. InUse = {}
    BY <1>2 DEF InUse
  <1>4. StoreTypes
    <2>1. ListInv
      BY <1>1, InvInit DEF ArenaInv
    <2>2. 0 \in 0 .. MaxChunks /\ countObject = 0 * ChunkSize
      BY <1>2, ArenaAssumption
    <2> QED BY <1>1, <2>1, <2>2 DEF StoreTypes, Kinds, Values
  <1>5. PoolInv
    <2>1. pool \in Seq(Addresses) /\ Len(pool) = 0 /\ DOMAIN pool = {}
      BY <1>1
    <2> QED BY <2>1, ObjectAssumption DEF PoolInv
  <1>6. MemoryMatchesObjects
    <2>1. Cardinality(held) = 0 /\ Cardinality({o \in InUse : kind[o] = "obj"}) = 0
      <3>1. {o \in InUse : kind[o] = "obj"} = {}
        BY <1>3
      <3> QED BY <1>2, <3>1, FS_EmptySet
    <2>2. ObjectSize * 0 + MemberMemory * 0 = 0
      BY ArenaAssumption, ObjectAssumption
    <2> QED BY <1>2, <2>1, <2>2 DEF MemoryMatchesObjects
  <1>7. StoreInv
    BY <1>1, <1>4, <1>5, <1>6 DEF StoreInv
  <1>8. FrameTypes
    BY <1>1 DEF FrameTypes, Values
  <1>9. DOMAIN todo = {} /\ \A o : InCalls(o) = 0
    BY <1>1, NoCalls
  <1>10. CountInv
    <2> SUFFICES ASSUME NEW o \in Addresses PROVE refCount[o] = References(o) + forgotten[o]
      BY DEF CountInv
    <2>1. LocalRefs(o) = {} /\ StackRefs(o) = {} /\ MemberRefs(o) = {} /\ exception # o
      BY <1>1, AddressesAreFinite DEF LocalRefs, StackRefs, MemberRefs
    <2>2. InLocals(o) = 0 /\ OnStack(o) = 0 /\ InMembers(o) = 0 /\ Bit(exception = o) = 0
      BY <2>1, FS_EmptySet DEF InLocals, OnStack, InMembers, Bit
    <2>3. References(o) = 0 + 0 + 0 + 0 + 0
      BY <1>9, <2>2, SumOfParts
    <2> QED BY <1>1, <2>3
  <1>11. IdleInv /\ TodoInv /\ LiveInv
    BY <1>1, <1>3, <1>9 DEF IdleInv, TodoInv, LiveInv
  <1>12. LimitInv
    BY <1>2, FlowAssumption DEF LimitInv
  <1> QED BY <1>7, <1>8, <1>10, <1>11, <1>12 DEF FlowInv

(* The same after a step.                                                  *)
LEMMA FlowInitNext == Init' => FlowInv'
  BY FlowInit, PTL

(* A restart is a new beginning.                                           *)
LEMMA RestartKeeps == Restart => FlowInv'
  <1> SUFFICES ASSUME Restart PROVE Init'
    BY FlowInitNext
  <1>1. ArenaInit'
    BY DEF Restart, ManagerRefresh, Destroy, ArenaDestroy, ArenaInit, AllocatorInit
  <1> QED BY <1>1 DEF Restart, ManagerRefresh, Init, ManagerInit, Addresses, Locals

(* A stuttering step keeps the invariant.                                  *)
LEMMA StutterKeeps ==
    ASSUME FlowInv, UNCHANGED allFlowVars
    PROVE  FlowInv'
  <1>1. /\ UNCHANGED <<refCount, todo, local, stack, exception, phase, forgotten>>
        /\ Unmanaged
    BY DEF allFlowVars, objectVars, frameVars, Unmanaged
  <1>2. StoreStep({}) /\ InUse' = InUse /\ UNCHANGED <<kind, member>>
    BY <1>1, UnmanagedStep DEF Unmanaged
  <1>3. FrameTypes' /\ IdleInv' /\ StoreInv' /\ LimitInv'
    BY <1>1, <1>2 DEF FlowInv, FrameTypes, IdleInv, StoreStep, LimitInv
  <1>4. TodoInv' /\ LiveInv'
    BY <1>1, <1>2 DEF FlowInv, TodoInv, CallInv, LiveInv, Dying, PendingOn
  <1>5. CountInv'
    <2>1. \A o : References(o)' = References(o)
      BY <1>1, <1>2 DEF References, LocalRefs, StackRefs, MemberRefs, CallRefs, LocalOwns,
                        MemberOwns, CallOwns, PendingAt, PendingOn, Dying
    <2> QED BY <1>1, <2>1 DEF CountInv, FlowInv
  <1> QED BY <1>3, <1>4, <1>5 DEF FlowInv

(* Every step keeps the invariant.                                         *)
LEMMA FlowNext == FlowInv /\ [Next]_allFlowVars => FlowInv'
  <1> SUFFICES ASSUME FlowInv, [Next]_allFlowVars PROVE FlowInv'
    OBVIOUS
  <1>1. CASE Opcode /\ UNCHANGED forgotten
    <2>1. CASE LoadConst \/ LoadMember \/ StoreMember \/ Dup \/ Pop \/ ThrowOperand \/ EndFunction
      BY <1>1, <2>1, PushConst, LoadMemberKeeps, StoreMemberKeeps, PushKnown, PopKeeps,
         ThrowKeeps, EndKeeps
    <2>2. CASE \E o \in Addresses :
                  LoadNumber(o) \/ CreateObject(o) \/ Clone(o) \/ Operate(o) \/ ThrowException(o)
      BY <1>1, <2>2, PushNew, CloneKeeps, OperateKeeps, ExceptionCreated
    <2>3. CASE \E i \in Locals : LoadLocal(i) \/ StoreLocal(i) \/ LocalLoadMember(i)
      BY <1>1, <2>3, PushKnown, StoreLocalKeeps
    <2>4. CASE \E i, j \in Locals : LocalStoreLocal(i, j) \/ LocalStoreLocalClone(i, j)
      BY <1>1, <2>4, LocalStoreLocalKeeps, LocalStoreLocalCloneKeeps
    <2> QED BY <1>1, <2>1, <2>2, <2>3, <2>4 DEF Opcode
  <1>2. CASE LoadException
    BY <1>2, ExceptionLoaded
  <1>3. CASE \E i \in Locals : LocalLoadMemberAndStore(i)
    BY <1>3, InitializeMemberKeeps
  <1>4. CASE CheckMemory /\ UNCHANGED forgotten
    BY <1>4, CheckKeeps
  <1>5. CASE \E o \in Addresses : MemoryLimitExceeded(o) \/ OtherLimitExceeded(o)
    BY <1>5, ExceptionCreated
  <1>6. CASE Unwind /\ UNCHANGED forgotten
    BY <1>6, EndKeeps
  <1>7. CASE CascadeStep
    BY <1>7, CascadeKeeps
  <1>8. CASE FinishStep
    BY <1>8, FinishKeeps
  <1>9. CASE Restart
    BY <1>9, RestartKeeps
  <1>10. CASE UNCHANGED allFlowVars
    BY <1>10, StutterKeeps
  <1> QED BY <1>1, <1>2, <1>3, <1>4, <1>5, <1>6, <1>7, <1>8, <1>9, <1>10 DEF Next

(* So it holds in every reachable state.                                   *)
LEMMA FlowInvariant == Spec => []FlowInv
  BY FlowInit, FlowNext, PTL DEF Spec

(***************************************************************************)
(* Theorems                                                                *)
(***************************************************************************)

(* Every variable keeps its type: the interpreter never stores a value of  *)
(* the wrong sort in a local, a member or the operands                     *)
(* (AVM_run_switch.cpp, ObjectManager.hpp).                                *)
THEOREM FlowTypes == Spec => []TypeOK
  <1>1. FlowInv => TypeOK
    BY DEF FlowInv, StoreInv, StoreTypes, PoolInv, ListInv, FrameTypes, TypeOK
  <1> QED BY <1>1, FlowInvariant, PTL

(* For any number of locals, operands and objects: a count is the number   *)
(* of references somebody will release and of those three constructs have  *)
(* forgotten (LOAD_EXCEPTION, a store to a field of a variable, a limit    *)
(* exceeded over a pending exception), in the middle of every cascade too, *)
(* and nothing refers to a slot that is not in use (AVM_run_switch.cpp,    *)
(* ObjectManager.hpp, ANotifier.hpp:138).                                  *)
THEOREM CountsAreAccounted == Spec => []CountsAccounted
  <1>1. FlowInv => CountsAccounted
    <2> SUFFICES ASSUME FlowInv PROVE CountsAccounted
      OBVIOUS
    <2>1. \A o \in Addresses : refCount[o] = References(o) + forgotten[o]
      BY DEF FlowInv, CountInv
    <2>2. ASSUME NEW o \in Addresses \ InUse PROVE References(o) = 0
      <3>1. refCount[o] = 0
        BY DEF FlowInv, IdleInv
      <3>2. References(o) \in Nat /\ forgotten[o] \in Nat
        BY FiniteRefs, RefNumbers DEF FlowInv, FrameTypes
      <3> QED BY <2>1, <3>1, <3>2
    <2> QED BY <2>1, <2>2 DEF CountsAccounted
  <1> QED BY <1>1, FlowInvariant, PTL

(* An object is reclaimed once, and the pool of ints neither holds one     *)
(* twice nor runs over, whatever the graph a cascade frees                 *)
(* (ObjectManager.hpp:20).                                                 *)
THEOREM ReclaimsOnce == Spec => []ReclaimedOnce
  <1>1. FlowInv => ReclaimedOnce
    <2> SUFFICES ASSUME FlowInv PROVE ReclaimedOnce
      OBVIOUS
    <2>1. \A m, n \in DOMAIN todo : todo[m].op = "reclaim" /\ todo[n] = todo[m] => m = n
      BY DEF FlowInv, TodoInv
    <2>2. \A o \in Addresses : Dying(o) => o \in InUse
      BY DEF FlowInv, TodoInv, CallInv, Dying, PendingOn
    <2> QED BY <2>1, <2>2 DEF ReclaimedOnce, FlowInv, StoreInv, PoolInv
  <1> QED BY <1>1, FlowInvariant, PTL

(* Between opcodes every object in use has a count: what lost its last     *)
(* reference has been reclaimed.                                           *)
THEOREM NothingIsForgotten == Spec => []NothingForgotten
  <1>1. FlowInv => NothingForgotten
    BY AtRest DEF NothingForgotten
  <1> QED BY <1>1, FlowInvariant, PTL

(* The memory charged is exactly that of the slots handed out and of the   *)
(* members of the objects in use, and no opcode starts while more than the *)
(* limit is charged, LOAD_EXCEPTION over its pending exception included    *)
(* (AVM_run_switch.cpp:337, README.md:86).                                 *)
THEOREM LimitIsEnforced == Spec => []LimitEnforced
  <1>1. FlowInv => LimitEnforced
    BY DEF FlowInv, StoreInv, LimitInv, LimitEnforced, Checked, Looping
  <1> QED BY <1>1, FlowInvariant, PTL

(***************************************************************************)
(* The manager keeps the contract the allocator is specified under.        *)
(***************************************************************************)
ArenaStays == UNCHANGED <<countObject, freeSlot, nextFree, changedMemory, held>>

(* A step that leaves the slots alone is no step of the contract.          *)
LEMMA StaysIsStutter == ArenaStays => UNCHANGED Arena!allocVars
  BY DEF ArenaStays, Arena!allocVars, Arena!arenaVars, Slots

(* An object from the arena is handed out by the contract: the slot was    *)
(* not held, and the abstract charge grows by one slot.                    *)
LEMMA FromArenaIsGet ==
    ASSUME StoreInv, NEW k \in Kinds, NEW o, FromArena(k, o)
    PROVE  Arena!ArenaNext
  <1>1. /\ TakeSlot(o) /\ held' = held \cup {o} /\ changedMemory' = TRUE
        /\ o \notin held /\ o \in Addresses
    BY FromArenaStore DEF FromArena, MemoryMoved
  <1>2. /\ ListInv /\ ArenaTypeOK /\ held \in SUBSET Slots
        /\ countObject \in Nat /\ ChunkSize \in Nat /\ ChunkSize >= 2
    BY ArenaAssumption DEF StoreInv, StoreTypes, ListInv, ArenaTypeOK
  <1>3. Arena!TakeSlot(o) /\ o \in 0 .. countObject
    <2>1. CASE PopFreeSlot(o)
      <3>1. /\ freeSlot # Null /\ o = freeSlot /\ freeSlot' = nextFree[o]
            /\ nextFree' = [nextFree EXCEPT ![o] = Null] /\ countObject' = countObject
        BY <2>1 DEF PopFreeSlot, LinksAfterPop
      <3>2. o \in 0 .. countObject - 1
        BY <1>2, <3>1 DEF ArenaTypeOK, Slots
      <3>3. (Slots \ held)' = (Slots \ held) \ {o}
        BY <1>1, <3>1 DEF Slots
      <3>4. Arena!PopFreeSlot(o)
        BY <3>1, <3>3 DEF Arena!PopFreeSlot, Arena!LinksAfterPop, Arena!FlagsAfterPop
      <3>5. o \in 0 .. countObject
        BY <1>2, <3>2
      <3> QED BY <3>4, <3>5 DEF Arena!TakeSlot
    <2>2. CASE AddChunk(o)
      <3>1. /\ freeSlot = Null /\ countObject < MaxChunks * ChunkSize /\ o = countObject
            /\ countObject' = countObject + ChunkSize
            /\ nextFree' = [s \in 0 .. countObject + ChunkSize - 1 |->
                              IF s < countObject THEN nextFree[s] ELSE ChunkLink(s)]
            /\ freeSlot' = HeadOfChunk
        BY <2>2 DEF AddChunk
      <3>2. (Slots \ held)' = (Slots \ held) \cup (countObject + 1 .. countObject + ChunkSize - 1)
        <4>1. Slots' = 0 .. countObject + ChunkSize - 1 /\ Slots = 0 .. countObject - 1
          BY <1>2, <3>1 DEF Slots
        <4>2. Slots' = Slots \cup {o} \cup (countObject + 1 .. countObject + ChunkSize - 1)
          <5> DEFINE c == countObject
                     n == ChunkSize
          <5>1. c \in Nat /\ n \in Nat /\ n >= 2
            BY <1>2
          <5> HIDE DEF c, n
          <5>2. 0 .. c + n - 1 = (0 .. c - 1) \cup {c} \cup (c + 1 .. c + n - 1)
            BY <5>1
          <5> QED BY <3>1, <4>1, <5>2 DEF c, n
        <4>3. \A s \in countObject + 1 .. countObject + ChunkSize - 1 : s \notin held /\ s # o
          BY <1>2, <3>1, <4>1
        <4>4. o \notin Slots
          BY <1>2, <3>1, <4>1
        <4> QED BY <1>1, <4>2, <4>3, <4>4
      <3>3. /\ \A s : Arena!ChunkLink(s) = ChunkLink(s)
            /\ Arena!HeadOfChunk = HeadOfChunk
        BY DEF Arena!ChunkLink, ChunkLink, Arena!HeadOfChunk, HeadOfChunk
      <3>4. Arena!AddChunk(o)
        BY <3>1, <3>2, <3>3 DEF Arena!AddChunk
      <3>5. o \in 0 .. countObject
        BY <1>2, <3>1
      <3> QED BY <3>4, <3>5 DEF Arena!TakeSlot
    <2> QED BY <1>1, <2>1, <2>2 DEF TakeSlot
  <1>4. ObjectSize * Cardinality(held') = ObjectSize * Cardinality(held) + ObjectSize
    <2>1. /\ Cardinality(held) \in Nat /\ Cardinality(held') = Cardinality(held) + 1
          /\ ObjectSize \in Nat
      BY <1>1, StoreNumbers, AddOne
    <2> QED BY <2>1
  <1>5. Arena!GetObject(o)
    BY <1>1, <1>3, <1>4 DEF Arena!GetObject
  <1> QED BY <1>3, <1>5 DEF Arena!ArenaNext

(* A slot put back was held, and it is the contract's release.             *)
LEMMA ToArenaIsRelease ==
    ASSUME StoreInv, NEW o \in InUse, ToArena(o), UNCHANGED countObject
    PROVE  Arena!ArenaNext
  <1>1. /\ ArenaTypeOK /\ FreeListIsExact /\ o \in held /\ held \in SUBSET Slots
        /\ countObject \in Nat
    BY DEF StoreInv, StoreTypes, ListInv, ArenaTypeOK, InUse
  <1>2. ~AlreadyReleased(o)
    BY <1>1, HeldIsNotAlreadyReleased
  <1>3. /\ held' = held \ {o} /\ changedMemory' = TRUE
        /\ nextFree' = [nextFree EXCEPT ![o] = freeSlot] /\ freeSlot' = o
    BY <1>2 DEF ToArena, PutSlot
  <1>4. ObjectSize * Cardinality(held') = Minus(ObjectSize * Cardinality(held), ObjectSize)
    <2>1. /\ Cardinality(held') \in Nat /\ Cardinality(held) = Cardinality(held') + 1
          /\ ObjectSize \in Nat
      BY <1>1, <1>3, StoreNumbers, TakeOne
    <2> DEFINE a == ObjectSize * Cardinality(held)
               b == ObjectSize * Cardinality(held')
    <2>2. a \in Nat /\ b \in Nat /\ a = b + ObjectSize
      BY <2>1
    <2> HIDE DEF a, b
    <2>3. a >= ObjectSize /\ a - ObjectSize = b
      BY <2>1, <2>2
    <2>4. Minus(a, ObjectSize) = b
      BY <2>3 DEF Minus
    <2> QED BY <2>4 DEF a, b
  <1>5. (Slots \ held)' = (Slots \ held) \cup {o}
    BY <1>1, <1>3 DEF Slots
  <1>6. ~Arena!AlreadyReleased(o)
    BY <1>2 DEF AlreadyReleased, Arena!AlreadyReleased
  <1>7. Arena!PutSlot(o, ObjectSize * Cardinality(held))
    <2>1. \A m : Arena!SlotUncharged(m) = Minus(m, ObjectSize)
      BY DEF Arena!SlotUncharged, Arena!Minus, Minus
    <2> QED BY <1>3, <1>4, <1>6, <2>1 DEF Arena!PutSlot
  <1>8. Arena!Release(o)
    BY <1>1, <1>3, <1>5, <1>7 DEF Arena!Release
  <1>9. o \in 0 .. countObject
    BY <1>1 DEF Slots
  <1> QED BY <1>8, <1>9 DEF Arena!ArenaNext

(* Reclaiming an object is one or the other: an int the pool has room for  *)
(* stays handed out.                                                       *)
LEMMA ReclaimIsRelease ==
    ASSUME StoreInv, NEW o \in InUse, Reclaim(o)
    PROVE  Arena!ArenaNext \/ ArenaStays
  <1>1. UNCHANGED countObject /\ (ToPool(o) \/ ToArena(o))
    BY DEF Reclaim
  <1>2. CASE ToPool(o)
    BY <1>1, <1>2 DEF ToPool, ArenaStays
  <1>3. CASE ToArena(o)
    BY <1>1, <1>3, ToArenaIsRelease
  <1> QED BY <1>1, <1>2, <1>3

(* So is creating one: an int from the pool was handed out already.        *)
LEMMA NewIsGet ==
    ASSUME StoreInv, NEW k \in Kinds, NEW o, NEW m, New(k, o, m)
    PROVE  Arena!ArenaNext \/ ArenaStays
  <1>1. FromPool(o) \/ FromArena(k, o)
    BY DEF New
  <1>2. CASE FromPool(o)
    BY <1>2 DEF FromPool, ArenaStays
  <1> QED BY <1>1, <1>2, FromArenaIsGet

(* What only moves references leaves the slots alone.                     *)
LEMMA UnmanagedStays == Unmanaged => ArenaStays
  BY DEF Unmanaged, allocVars, arenaVars, ArenaStays

(* What is left of an opcode touches the slots only to copy a number.      *)
LEMMA FinishContract ==
    ASSUME FlowInv, FinishStep
    PROVE  Arena!ArenaNext \/ ArenaStays
  <1>1. PICK call : call = Last(todo)
    OBVIOUS
  <1>2. \/ FinishSetLocal(call) \/ (\E o \in Addresses : FinishClone(call, o))
        \/ FinishSetMember(call) \/ ClearNext(call) \/ DropNext(call)
    BY <1>1 DEF FinishStep, Finish
  <1>3. ASSUME NEW o \in Addresses, FinishClone(call, o)
        PROVE  Arena!ArenaNext \/ ArenaStays
    <2>1. New("int", o, Null) \/ Unmanaged
      BY <1>3 DEF FinishClone
    <2> QED BY <2>1, NewIsGet, UnmanagedStays DEF FlowInv, Kinds
  <1>4. CASE FinishSetMember(call)
    BY <1>4 DEF FinishSetMember, allocVars, arenaVars, ArenaStays
  <1>5. CASE FinishSetLocal(call) \/ ClearNext(call) \/ DropNext(call)
    BY <1>5, UnmanagedStays DEF FinishSetLocal, ClearNext, DropNext
  <1> QED BY <1>2, <1>3, <1>4, <1>5

(* A cascade gives a slot back only when it reclaims an object in use.     *)
LEMMA CascadeContract ==
    ASSUME FlowInv, CascadeStep
    PROVE  Arena!ArenaNext \/ ArenaStays
  <1>1. PICK call : call = Last(todo) /\ todo # <<>>
    BY DEF CascadeStep, Cascade
  <1>2. \/ UNCHANGED <<allocVars, pool, kind, member>>
        \/ call.op = "reclaim" /\ Reclaim(call.obj)
    BY <1>1 DEF CascadeStep, Cascade
  <1>3. CASE UNCHANGED <<allocVars, pool, kind, member>>
    BY <1>3 DEF allocVars, arenaVars, ArenaStays
  <1>4. CASE call.op = "reclaim" /\ Reclaim(call.obj)
    <2>1. Len(todo) \in DOMAIN todo /\ call = todo[Len(todo)]
      <3>1. todo \in Seq(Calls)
        BY DEF FlowInv, FrameTypes
      <3>2. Len(todo) \in Nat \ {0} /\ DOMAIN todo = 1 .. Len(todo) /\ Last(todo) = todo[Len(todo)]
        BY <1>1, <3>1, FrontAndLast, LenProperties
      <3> QED BY <1>1, <3>2
    <2>2. call.obj \in InUse
      BY <1>4, <2>1 DEF FlowInv, TodoInv, CallInv
    <2> QED BY <1>4, <2>2, ReclaimIsRelease DEF FlowInv
  <1> QED BY <1>2, <1>3, <1>4

(* Of the opcodes only those that create an object reach the allocator.    *)
LEMMA OpcodeContract ==
    ASSUME FlowInv, Opcode
    PROVE  Arena!ArenaNext \/ ArenaStays
  <1>1. CASE LoadConst \/ LoadMember \/ StoreMember \/ Dup \/ Pop \/ ThrowOperand \/ EndFunction
    BY <1>1, UnmanagedStays
       DEF LoadConst, LoadMember, StoreMember, Dup, Pop, ThrowOperand, EndFunction
  <1>2. ASSUME NEW o \in Addresses,
               LoadNumber(o) \/ CreateObject(o) \/ Clone(o) \/ Operate(o) \/ ThrowException(o)
        PROVE  Arena!ArenaNext \/ ArenaStays
    <2>1. \E k \in Kinds, m \in Values : New(k, o, m)
      BY <1>2 DEF LoadNumber, CreateObject, Clone, Operate, ThrowException, CreateException,
                  Kinds, Values, Objects
    <2> QED BY <2>1, NewIsGet DEF FlowInv
  <1>3. ASSUME NEW i \in Locals, LoadLocal(i) \/ StoreLocal(i) \/ LocalLoadMember(i)
        PROVE  Arena!ArenaNext \/ ArenaStays
    BY <1>3, UnmanagedStays DEF LoadLocal, StoreLocal, LocalLoadMember
  <1>4. ASSUME NEW i \in Locals, NEW j \in Locals,
               LocalStoreLocal(i, j) \/ LocalStoreLocalClone(i, j)
        PROVE  Arena!ArenaNext \/ ArenaStays
    BY <1>4, UnmanagedStays DEF LocalStoreLocal, LocalStoreLocalClone
  <1> QED BY <1>1, <1>2, <1>3, <1>4 DEF Opcode

(* Every step of the interpreter is a step of the contract or none.        *)
LEMMA ContractNext ==
    ASSUME FlowInv, [Next]_allFlowVars
    PROVE  [Arena!ArenaNext]_(Arena!allocVars)
  <1> SUFFICES Arena!ArenaNext \/ ArenaStays
    BY StaysIsStutter
  <1>1. CASE Opcode \/ CascadeStep \/ FinishStep
    BY <1>1, OpcodeContract, CascadeContract, FinishContract
  <1>2. CASE LoadException \/ Unwind
    BY <1>2, UnmanagedStays DEF LoadException, Unwind
  <1>3. CASE \E i \in Locals : LocalLoadMemberAndStore(i)
    BY <1>3 DEF LocalLoadMemberAndStore, allocVars, arenaVars, ArenaStays
  <1>4. CASE CheckMemory
    <2>1. Arena!MemoryChecked
      BY <1>4 DEF CheckMemory, MemoryChecked, Arena!MemoryChecked, Slots
    <2> QED BY <2>1 DEF Arena!ArenaNext
  <1>5. CASE \E o \in Addresses : MemoryLimitExceeded(o) \/ OtherLimitExceeded(o)
    <2>1. \E o \in Addresses : New("obj", o, Const)
      BY <1>5 DEF MemoryLimitExceeded, OtherLimitExceeded, ThrowFatal, CreateException
    <2> QED BY <2>1, NewIsGet DEF FlowInv, Kinds
  <1>6. CASE Restart
    <2>1. countObject' = 0 /\ freeSlot' = Null /\ nextFree' = [s \in {} |-> Null]
          /\ changedMemory' = FALSE /\ held' = {}
      BY <1>6 DEF Restart, ManagerRefresh, Destroy, ArenaDestroy
    <2>2. (Slots \ held)' = {} /\ ObjectSize * Cardinality(held') = 0
      <3>1. Slots' = {}
        BY <2>1 DEF Slots
      <3>2. Cardinality(held') = 0 /\ ObjectSize \in Nat
        BY <2>1, FS_EmptySet, ArenaAssumption
      <3> QED BY <3>1, <3>2
    <2>3. Arena!Destroy
      BY <2>1, <2>2 DEF Arena!Destroy, Arena!ArenaDestroy
    <2> QED BY <2>3 DEF Arena!ArenaNext
  <1>7. CASE UNCHANGED allFlowVars
    BY <1>7 DEF allFlowVars, allocVars, arenaVars, ArenaStays
  <1> QED BY <1>1, <1>2, <1>3, <1>4, <1>5, <1>6, <1>7 DEF Next

(* The object manager asks the allocator only for what the allocator is    *)
(* specified to give: it returns slots it was handed and has not returned, *)
(* so that, the int pool and every release cascade included, each run of   *)
(* the interpreter is a run of AreaAllocator under the caller its own      *)
(* theorems assume (ObjectManager.hpp, AreaAllocator.hpp).                 *)
THEOREM ContractIsKept == Spec => KeepsArenaContract
  <1>1. Init => Arena!ArenaInit
    <2> SUFFICES ASSUME Init PROVE Arena!ArenaInit
      OBVIOUS
    <2>1. /\ countObject = 0 /\ freeSlot = Null /\ nextFree = [s \in {} |-> Null]
          /\ changedMemory = FALSE /\ held = {}
      BY DEF Init, ManagerInit, ArenaInit, AllocatorInit
    <2>2. Slots = {} /\ Cardinality(held) = 0 /\ ObjectSize \in Nat
      BY <2>1, FS_EmptySet, ArenaAssumption DEF Slots
    <2>3. Slots \ held = {} /\ ObjectSize * Cardinality(held) = 0
      BY <2>2
    <2> QED BY <2>1, <2>3 DEF Arena!ArenaInit, Arena!AllocatorInit
  <1>2. FlowInv /\ [Next]_allFlowVars => [Arena!ArenaNext]_(Arena!allocVars)
    BY ContractNext
  <1> QED BY <1>1, <1>2, FlowInvariant, PTL DEF Spec, KeepsArenaContract, Arena!ArenaSpec
=============================================================================
