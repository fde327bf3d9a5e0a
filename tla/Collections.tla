----------------------------- MODULE Collections -----------------------------
(***************************************************************************)
(* A program that uses one collection of the standard library: a list, a   *)
(* map or a set, with the native functions that work on it.  The three     *)
(* share the heap, the memory counter, the program's variable and the call *)
(* of a native function that waits for a callback.                         *)
(***************************************************************************)
EXTENDS Integers, Sequences

CONSTANTS
    Kinds,                  \* the collections of a run: "list", "map", "set"
    Nothing, Copies,
    ListContents,           \* the values of a list
    MapContents, MapRare,   \* the values of a map or a set
    MaxLen, MaxMemory, ClearedSize

ASSUME CollectionsAssumption ==
    /\ Copies \in Nat \ {0} /\ MaxLen \in Nat /\ MaxMemory \in Nat
    /\ ClearedSize \in Nat \ {0}
    /\ Nothing \notin (ListContents \cup MapContents) \X (1 .. Copies)

VARIABLES
    kind,           \* the collection of the program
    heap, unboxed,
    held,           \* the elements of the collection
    capacity, charged,
    second,         \* the elements of the program's second collection
    local, call, past

collectionVars ==
    <<kind, heap, unboxed, held, capacity, charged, second, local, call, past>>

List == INSTANCE ListCallbacks WITH
            Contents <- ListContents, Rare <- {}, list <- held, other <- second
Map == INSTANCE Maps WITH
            Contents <- MapContents, Rare <- MapRare, entries <- held
Set == INSTANCE Sets WITH
            Contents <- MapContents, Rare <- MapRare, elements <- held

Init ==
    \/ kind = "list" /\ kind \in Kinds /\ List!Init
    \/ kind = "map" /\ kind \in Kinds /\ Map!Init /\ capacity = 0
    \/ kind = "set" /\ kind \in Kinds /\ Set!Init /\ capacity = 0

Next ==
    \/ kind = "list" /\ List!Next /\ UNCHANGED kind
    \/ kind = "map" /\ Map!Next /\ UNCHANGED <<kind, capacity>>
    \/ kind = "set" /\ Set!Next /\ UNCHANGED <<kind, capacity>>

Spec == Init /\ [][Next]_collectionVars

(***************************************************************************)
(* Properties.                                                             *)
(***************************************************************************)
\* No object is freed while somebody has it: whatever the script does to the
\* collection while a native loop stands still, the count of an object is
\* never less than the references to it.
NeverFreedEarly ==
    /\ kind = "list" => List!NeverFreedEarly
    /\ kind = "map" => Map!NeverFreedEarly
    /\ kind = "set" => Set!NeverFreedEarly

\* And no object stays when the last reference is gone, unless a function
\* known to leave counts behind has run.
NothingLeaked ==
    /\ kind = "list" => List!NothingLeaked
    /\ kind = "map" => Map!NothingLeaked
    /\ kind = "set" => Set!NothingLeaked

\* Whatever the script does to a list while a native function waits, the
\* function uses an index or a size the list does not have only if it is one
\* of those known to, and only if a callback of this same call has made the
\* list shorter; or longer, for the two that sort by what the script answers.
StaleOnlyIfMoved ==
    [][kind = "list" => List!StaleOnlyIfMoved]_collectionVars

\* A map has a key once and a set an element once, also after functions that
\* merge two of them, rename keys or fill the hole of a removed entry.
KeysDiffer ==
    /\ kind = "map" => Map!KeysDiffer
    /\ kind = "set" => Set!ElementsDiffer

\* The memory counter is what the collections there are were charged for, as
\* long as no function has changed a size without a charge; and a list is
\* inside its storage.
ChargeIsExact ==
    /\ kind = "list" => List!ChargeIsCapacity
    /\ kind = "map" => Map!ChargeIsSize
    /\ kind = "set" => Set!ChargeIsSize
=============================================================================
