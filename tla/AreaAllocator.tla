--------------------------- MODULE AreaAllocator ----------------------------
(***************************************************************************)
(* The slot allocator every script object lives in                         *)
(* (src/shared/AreaAllocator.hpp): chunks of ChunkSize slots, a singly     *)
(* linked list of free slots threaded through the slots, and the counter   *)
(* the VM compares with its memory limit.                                  *)
(*                                                                         *)
(* Slots are numbered in the order their chunks were allocated, so the     *)
(* address of an object is a number below countObject.  isFree is the set  *)
(* of slots whose object has the flag OBJ_IS_FREE: the flag is set by      *)
(* ObjectManager::freeObjectData before the slot comes back, and by the    *)
(* allocator itself.                                                       *)
(***************************************************************************)
EXTENDS Integers, FiniteSets

CONSTANTS
    ChunkSize,      \* AreaAllocator<size>; ObjectManager uses 128
    ObjectSize,     \* sizeof(AObject), the memory a slot accounts for
    MaxChunks,      \* bound: chunks the model lets the allocator have
    Null            \* the null pointer

ASSUME ArenaAssumption ==
    /\ ChunkSize \in Nat /\ ChunkSize >= 2
    /\ ObjectSize \in Nat /\ ObjectSize > 0
    /\ MaxChunks \in Nat
    /\ Null \notin Nat

VARIABLES
    countObject,            \* slots in all chunks
    freeSlot,               \* head of the free list
    nextFree,               \* the link of every slot
    isFree,                 \* slots whose object is flagged OBJ_IS_FREE
    currentManagedMemory,   \* memory the allocator believes is in use
    changedMemory           \* told the VM that currentManagedMemory moved

arenaVars == <<countObject, freeSlot, nextFree, isFree,
               currentManagedMemory, changedMemory>>

Slots == 0 .. countObject - 1

(***************************************************************************)
(* The two counters' arithmetic: subtraction saturates at zero.            *)
(***************************************************************************)
Minus(memory, amount) == IF memory >= amount THEN memory - amount ELSE 0

(***************************************************************************)
(* getObject: pop the free list, or else add a chunk, return its slot 0    *)
(* and thread slots 1 .. size-1.  The two alternatives change the slots;   *)
(* what the new object charges is added by the caller's step.              *)
(***************************************************************************)
LinksAfterPopKept(o) == nextFree
LinksAfterPop(o) == [nextFree EXCEPT ![o] = Null]

FlagsAfterPop(o) == isFree \ {o}

PopFreeSlot(o) ==
    /\ freeSlot # Null
    /\ o = freeSlot
    /\ freeSlot' = nextFree[o]
    /\ nextFree' = LinksAfterPop(o)
    /\ isFree' = FlagsAfterPop(o)
    /\ UNCHANGED countObject

\* Slots 1 .. size-2 of the new chunk point to the slot after them.
ChunkLink(s) ==
    IF s = countObject \/ s = countObject + ChunkSize - 1 THEN Null ELSE s + 1

HeadOfChunkHandedOut == countObject
HeadOfChunk == countObject + 1

AddChunk(o) ==
    /\ freeSlot = Null
    /\ countObject < MaxChunks * ChunkSize
    /\ o = countObject
    /\ countObject' = countObject + ChunkSize
    /\ nextFree' = [s \in 0 .. countObject + ChunkSize - 1 |->
                      IF s < countObject THEN nextFree[s] ELSE ChunkLink(s)]
    /\ freeSlot' = HeadOfChunk
    /\ isFree' = isFree \cup (countObject + 1 .. countObject + ChunkSize - 1)

TakeSlot(o) == PopFreeSlot(o) \/ AddChunk(o)

(***************************************************************************)
(* release: a slot that is the head of the list or that has a successor    *)
(* was released before, and is left alone; any other becomes the head.     *)
(* memory is currentManagedMemory after what the object itself gave back.  *)
(***************************************************************************)
SlotStillCharged(memory) == memory
SlotUncharged(memory) == Minus(memory, ObjectSize)

AlreadyReleased(o) == o = freeSlot \/ nextFree[o] # Null

PutSlot(o, memory) ==
    IF AlreadyReleased(o)
    THEN /\ currentManagedMemory' = memory
         /\ UNCHANGED <<freeSlot, nextFree, changedMemory>>
    ELSE /\ currentManagedMemory' = SlotUncharged(memory)
         /\ changedMemory' = TRUE
         /\ nextFree' = [nextFree EXCEPT ![o] = freeSlot]
         /\ freeSlot' = o

(***************************************************************************)
(* The allocator on its own, under a caller that gives back exactly what   *)
(* it was handed: held is that caller's side.  An object comes back with   *)
(* its flag already set (freeObjectData runs first).                       *)
(***************************************************************************)
VARIABLE held

allocVars == <<arenaVars, held>>

AllocatorInit ==
    /\ countObject = 0
    /\ freeSlot = Null
    /\ nextFree = [s \in {} |-> Null]
    /\ isFree = {}
    /\ currentManagedMemory = 0
    /\ changedMemory = FALSE

ArenaInit == AllocatorInit /\ held = {}

GetObject(o) ==
    /\ TakeSlot(o)
    /\ currentManagedMemory' = currentManagedMemory + ObjectSize
    /\ changedMemory' = TRUE
    /\ held' = held \cup {o}

Release(o) ==
    /\ o \in held
    /\ PutSlot(o, currentManagedMemory)
    /\ isFree' = isFree \cup {o}
    /\ held' = held \ {o}
    /\ UNCHANGED countObject

\* destroy: every object is torn down and every chunk deleted.
ArenaDestroy ==
    /\ countObject' = 0
    /\ freeSlot' = Null
    /\ nextFree' = [s \in {} |-> Null]
    /\ isFree' = {}
    /\ currentManagedMemory' = 0
    /\ changedMemory' = FALSE

Destroy == ArenaDestroy /\ held' = {}

\* The VM reads the flag once per opcode and clears it.
MemoryChecked ==
    /\ changedMemory
    /\ changedMemory' = FALSE
    /\ UNCHANGED <<countObject, freeSlot, nextFree, isFree,
                   currentManagedMemory, held>>

ArenaNext ==
    \/ \E o \in 0 .. countObject : GetObject(o) \/ Release(o)
    \/ Destroy
    \/ MemoryChecked

ArenaSpec == ArenaInit /\ [][ArenaNext]_allocVars

-----------------------------------------------------------------------------
(***************************************************************************)
(* Properties                                                              *)
(***************************************************************************)

(* The type invariant of the allocator and of its caller.                  *)
ArenaTypeOK ==
    /\ countObject \in Nat
    /\ freeSlot \in Slots \cup {Null}
    /\ nextFree \in [Slots -> Slots \cup {Null}]
    /\ isFree \subseteq Slots
    /\ currentManagedMemory \in Nat
    /\ changedMemory \in BOOLEAN
    /\ held \subseteq Slots

(* q lists the free slots from the tail of the list to its head: the link  *)
(* of each one is the slot before it, and the last is freeSlot.            *)
IsFreeList(q, n) ==
    /\ freeSlot = IF n = 0 THEN Null ELSE q[n]
    /\ \A i \in 1 .. n :
          /\ q[i] \notin held
          /\ nextFree[q[i]] = IF i = 1 THEN Null ELSE q[i - 1]
    /\ \A i, j \in 1 .. n : q[i] = q[j] => i = j

(* No slot is lost and none is in two places: the links form one chain     *)
(* from freeSlot that visits every slot the caller does not hold exactly   *)
(* once and then ends, and a held slot has no link left in it (else        *)
(* release would take it for a slot released twice and drop it).           *)
FreeListIsExact ==
    /\ \E n \in 0 .. countObject : \E q \in [1 .. n -> Slots \ held] :
          /\ IsFreeList(q, n)
          /\ \A s \in Slots \ held : \E i \in 1 .. n : q[i] = s
    /\ \A s \in held : nextFree[s] = Null

(* getObject's counter equals what is handed out.                          *)
MemoryIsExact == currentManagedMemory = ObjectSize * Cardinality(held)

(* The flag agrees with the list, which is what destroy relies on to tear  *)
(* down each object in use and no other.                                   *)
FlagsAgree == isFree = Slots \ held

(* The allocator implements the abstract pool.                             *)
Pool == INSTANCE SlotPool WITH total <- countObject, used <- currentManagedMemory
PoolRefinement == Pool!PoolSpec
=============================================================================
