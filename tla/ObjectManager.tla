--------------------------- MODULE ObjectManager ----------------------------
(***************************************************************************)
(* Reference counted objects (src/shared/ObjectManager.hpp, AObject.hpp):  *)
(* creation, release and what release sets off.  Releasing the last        *)
(* reference to an object releases its members before the object itself is *)
(* reclaimed; todo is the C++ call stack of that cascade, innermost call   *)
(* last, and below it what the opcode that started it has left to do.      *)
(*                                                                         *)
(* An object is an "int", which is recycled through a pool of PoolSize     *)
(* objects, or an "obj" with one member.  CONST objects (null, booleans,   *)
(* literals of the constant pool) are never counted and are all Const.     *)
(***************************************************************************)
EXTENDS AreaAllocator, Sequences, SequencesExt

CONSTANTS
    PoolSize,       \* objects kept in the pool of ints; the code keeps 8
    MemberMemory,   \* charged for the member array of an "obj"
    Const           \* any object with the flag OBJ_IS_CONST

ASSUME ObjectAssumption ==
    /\ PoolSize \in Nat
    /\ MemberMemory \in Nat
    /\ Const \notin Nat /\ Const # Null

VARIABLES
    kind,           \* the class of the object in each slot
    refCount,       \* its reference count
    member,         \* its member, for an "obj"
    pool,           \* intObjects: freed ints kept for reuse, a stack
    todo            \* pending calls, innermost last

objectVars == <<kind, refCount, member, pool, todo>>

Addresses == 0 .. MaxChunks * ChunkSize - 1
Objects == Addresses \cup {Const}
Kinds == {"int", "obj"}

Extra(k) == IF k = "obj" THEN MemberMemory ELSE 0

\* A pending call: what is left to do, to which object, at which location.
Call(op, o, at) == [op |-> op, obj |-> o, at |-> at]

\* The call at hand returns (and makes the calls in `then` first).
Return(then) == todo' = Front(todo) \o then

Counted(o) == o \in Addresses

Retained(o, counts) == IF Counted(o) THEN [counts EXCEPT ![o] = @ + 1] ELSE counts

(***************************************************************************)
(* get: a new object of class k at o with its first reference; an int      *)
(* comes from the pool when the pool has one.                              *)
(***************************************************************************)
FromPool(o) ==
    /\ pool # <<>>
    /\ o = Last(pool)
    /\ pool' = Front(pool)
    /\ isFree' = isFree \ {o}
    /\ UNCHANGED <<countObject, freeSlot, nextFree, currentManagedMemory,
                   changedMemory, held>>

MemoryMovedUnnoticed == changedMemory
MemoryMoved == TRUE

FromArena(k, o) ==
    /\ TakeSlot(o)
    /\ currentManagedMemory' = currentManagedMemory + ObjectSize + Extra(k)
    /\ changedMemory' = MemoryMoved
    /\ held' = held \cup {o}
    /\ UNCHANGED pool

New(k, o, m) ==
    /\ IF k = "int" /\ pool # <<>> THEN FromPool(o) ELSE FromArena(k, o)
    /\ kind' = [kind EXCEPT ![o] = k]
    /\ member' = [member EXCEPT ![o] = m]

(***************************************************************************)
(* freeObjectData and add: the members were released by the calls that     *)
(* came before; the member array is uncharged, the object is flagged free  *)
(* and goes to the pool or back to the arena.  What it was is forgotten.   *)
(***************************************************************************)
MemoryAfterFree(o) == Minus(currentManagedMemory, Extra(kind[o]))

ToPoolAndArena(o) ==
    /\ pool' = Append(pool, o)
    /\ PutSlot(o, MemoryAfterFree(o))
    /\ held' = held \ {o}
ToPool(o) ==
    /\ pool' = Append(pool, o)
    /\ UNCHANGED <<freeSlot, nextFree, currentManagedMemory, changedMemory,
                   held>>

ToArena(o) ==
    /\ PutSlot(o, MemoryAfterFree(o))
    /\ held' = held \ {o}
    /\ UNCHANGED pool

PoolHasRoomForOneTooMany == Len(pool) <= PoolSize
PoolHasRoom == Len(pool) # PoolSize

Reclaim(o) ==
    /\ IF kind[o] = "int" /\ PoolHasRoom THEN ToPool(o) ELSE ToArena(o)
    /\ isFree' = isFree \cup {o}
    /\ kind' = [kind EXCEPT ![o] = "int"]
    /\ member' = [member EXCEPT ![o] = Null]
    /\ UNCHANGED countObject

\* freeObjectData starts with the members, and add ends it.
TearDown(o) ==
    <<Call("reclaim", o, 0)>> \o
    (IF kind[o] = "obj" /\ member[o] # Null
     THEN <<Call("release", member[o], 0)>> ELSE <<>>)

(***************************************************************************)
(* release and tryRelease.  Both ignore null, CONST and freed objects;     *)
(* release gives up one reference, tryRelease only reclaims an object that *)
(* has none left.                                                          *)
(***************************************************************************)
Ignored(o) == o \notin Addresses \ isFree

HasOtherReferences(o) == refCount[o] > 1

ReleaseStep(o) ==
    \/ /\ Ignored(o)
       /\ Return(<<>>)
       /\ UNCHANGED refCount
    \/ /\ ~Ignored(o) /\ HasOtherReferences(o)
       /\ refCount' = [refCount EXCEPT ![o] = @ - 1]
       /\ Return(<<>>)
    \/ /\ ~Ignored(o) /\ ~HasOtherReferences(o)
       /\ refCount' = [refCount EXCEPT ![o] = 0]
       /\ Return(TearDown(o))

TryReleaseStep(o) ==
    /\ UNCHANGED refCount
    /\ \/ Ignored(o) /\ Return(<<>>)
       \/ ~Ignored(o) /\ refCount[o] # 0 /\ Return(<<>>)
       \/ ~Ignored(o) /\ refCount[o] = 0 /\ Return(TearDown(o))

\* One step of the cascade.
Cascade ==
    /\ todo # <<>>
    /\ LET call == Last(todo) IN
       \/ /\ call.op = "release" /\ ReleaseStep(call.obj)
          /\ UNCHANGED <<allocVars, pool, kind, member>>
       \/ /\ call.op = "tryRelease" /\ TryReleaseStep(call.obj)
          /\ UNCHANGED <<allocVars, pool, kind, member>>
       \/ /\ call.op = "reclaim" /\ Reclaim(call.obj) /\ Return(<<>>)
          /\ UNCHANGED refCount

\* refresh: the arena is destroyed and the pools are emptied.
ManagerRefresh ==
    /\ Destroy
    /\ pool' = <<>>
    /\ todo' = <<>>
    /\ kind' = [o \in Addresses |-> "int"]
    /\ refCount' = [o \in Addresses |-> 0]
    /\ member' = [o \in Addresses |-> Null]

ManagerInit ==
    /\ ArenaInit
    /\ pool = <<>>
    /\ todo = <<>>
    /\ kind = [o \in Addresses |-> "int"]
    /\ refCount = [o \in Addresses |-> 0]
    /\ member = [o \in Addresses |-> Null]
=============================================================================
