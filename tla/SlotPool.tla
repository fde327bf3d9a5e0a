------------------------------ MODULE SlotPool ------------------------------
(***************************************************************************)
(* What an allocator of fixed-size slots promises, whatever free list it   *)
(* keeps: the slot it hands out is one nobody holds, a slot that is given  *)
(* back can be handed out again, the pool only grows when every slot is    *)
(* held, and what it reports as memory in use is the number of slots held. *)
(* AreaAllocator implements this specification.                            *)
(***************************************************************************)
EXTENDS Integers, FiniteSets

CONSTANTS
    ChunkSize,      \* slots the pool grows by
    ObjectSize      \* memory one slot accounts for

VARIABLES
    total,          \* slots 0 .. total-1 exist
    held,           \* the slots in use
    used            \* memory reported as in use

poolVars == <<total, held, used>>

PoolInit ==
    /\ total = 0
    /\ held = {}
    /\ used = 0

Acquire(s) ==
    /\ s \in 0 .. total - 1
    /\ s \notin held
    /\ held' = held \cup {s}
    /\ used' = used + ObjectSize
    /\ UNCHANGED total

\* Growing and taking the first new slot are one step: the pool has no free
\* slot before it.
Grow(s) ==
    /\ held = 0 .. total - 1
    /\ s = total
    /\ total' = total + ChunkSize
    /\ held' = held \cup {s}
    /\ used' = used + ObjectSize

GiveBack(s) ==
    /\ s \in held
    /\ held' = held \ {s}
    /\ used' = used - ObjectSize
    /\ UNCHANGED total

Reset ==
    /\ total' = 0
    /\ held' = {}
    /\ used' = 0

PoolNext ==
    \/ \E s \in 0 .. total : Acquire(s) \/ Grow(s) \/ GiveBack(s)
    \/ Reset

PoolSpec == PoolInit /\ [][PoolNext]_poolVars
=============================================================================
