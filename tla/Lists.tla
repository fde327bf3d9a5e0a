------------------------------- MODULE Lists --------------------------------
(***************************************************************************)
(* A list of the standard library and the native functions that work on it *)
(* at once (src/backend/libs/array.cpp, src/shared/AArray.hpp).  A list of *)
(* Int or Float is unboxed: it stores numbers, and every read makes a box. *)
(* Any other list stores references it owns.                               *)
(*                                                                         *)
(* The program has the list, a second list `other` that methods take as an *)
(* argument and return, and the variable `local` for an element.           *)
(***************************************************************************)
EXTENDS NativeCalls, ListAlgorithms

CONSTANTS
    MaxLen,         \* bound: elements of a list
    MaxMemory,      \* maxManagedMemory, in slots of 8 bytes
    ClearedSize     \* capacity a cleared list is cut down to; the code has 8

VARIABLES
    unboxed,        \* the list's key is Int or Float
    list,           \* its elements: contents if unboxed, else objects
    capacity,       \* array->maxSize
    charged,        \* slots charged to the memory counter
    other           \* elements of the second list

dataVars == <<unboxed, list, capacity, charged, other>>
listVars == <<heap, dataVars, local, call, past>>

\* arrayAdd: what a list stores of an object, and the reference it takes.
Stored(o) == IF unboxed THEN Content(o) ELSE o
\* Mutants: an element stored uncounted, one dropped without a release.
NotKept(h, o) == h
Kept(h, o) == IF unboxed THEN h ELSE Retain(h, o)
NotDropped(h, x) == h
Dropped(h, x) == IF unboxed THEN h ELSE Release(h, x)
KeptAll(h, s) == IF unboxed THEN h ELSE RetainAll(h, s)
DroppedAll(h, s) == IF unboxed THEN h ELSE ReleaseAll(h, s)
Is(x, o) == IF unboxed THEN x = Content(o) ELSE Content(x) = Content(o)

\* getItem, returnArrayItem: a fresh box, or the element itself.
CanGet(h, x) == unboxed => CanCreate(h, x)
Got(h, x) == IF unboxed THEN NewCopy(h, x) ELSE x
AfterGet(h, x) == IF unboxed THEN Created(h, NewCopy(h, x)) ELSE h

\* It returns a new list, which the program keeps in place of its second.
ReturnedList(h, s) ==
    /\ other' = s
    /\ heap' = DroppedAll(h, other)

(***************************************************************************)
(* Capacity and the memory counter.                                        *)
(***************************************************************************)
Doubled == IF capacity = 0 THEN 1 ELSE 2 * capacity
RoomForOne == IF Len(list) = capacity THEN Doubled ELSE capacity
Halved == IF capacity \div 2 < 1 THEN 1 ELSE capacity \div 2
AfterRemove(n) == IF capacity > 1 /\ n <= capacity \div 4 THEN Halved ELSE capacity

Affordable(cap) == cap > capacity => charged + cap - capacity <= MaxMemory

\* Mutant: nothing is given back.
ChargeGrowth(delta) == IF delta < 0 THEN charged ELSE charged + delta
Charge(delta) == Counter(charged + delta)

Resized(cap) ==
    /\ capacity' = cap
    /\ charged' = Charge(cap - capacity)
    /\ Miscounts(Unless(charged + cap - capacity >= 0, "drift"))

\* throwMemoryLimitExceeded: a fatal exception ends the run.
OutOfMemory(cap) ==
    /\ Running /\ ~Affordable(cap)
    /\ call' = Stopped
    /\ UNCHANGED <<heap, dataVars, local, past>>

(***************************************************************************)
(* Functions that change the list.                                         *)
(***************************************************************************)
add ==
    /\ Running /\ local # Nothing /\ Len(list) < MaxLen /\ Affordable(RoomForOne)
    /\ list' = Append(list, Stored(local))
    /\ heap' = Kept(heap, local)
    /\ Resized(RoomForOne)
    /\ Grows
    /\ UNCHANGED <<unboxed, other, local>>

insert(i) ==
    /\ Running /\ local # Nothing /\ Len(list) < MaxLen /\ Affordable(RoomForOne)
    /\ i \in 1 .. Len(list) + 1
    /\ list' = InsertAt(list, i, Stored(local))
    /\ heap' = Kept(heap, local)
    /\ Resized(RoomForOne)
    /\ Grows
    /\ UNCHANGED <<unboxed, other, local>>

unshift == insert(1)

reserve(n) ==
    /\ Running /\ n > capacity /\ Affordable(n)
    /\ Resized(n)
    /\ UNCHANGED <<heap, unboxed, list, other, local, call>>

set(i) ==
    /\ Running /\ local # Nothing
    /\ i \in DOMAIN list
    /\ list' = [list EXCEPT ![i] = Stored(local)]
    /\ heap' = Kept(Dropped(heap, list[i]), local)
    /\ UNCHANGED <<unboxed, capacity, charged, other, local, call, past>>

get(i) ==
    /\ Running
    /\ i \in DOMAIN list /\ CanGet(heap, list[i])
    /\ Returned(AfterGet(heap, list[i]), Got(heap, list[i]))
    /\ UNCHANGED <<dataVars, call, past>>

remove(i) ==
    /\ Running
    /\ i \in DOMAIN list
    /\ list' = RemoveAt(list, i)
    /\ heap' = Dropped(heap, list[i])
    /\ Resized(AfterRemove(Len(list) - 1))
    /\ Shrinks
    /\ UNCHANGED <<unboxed, other, local>>

FirstOf(o) == SelectInSeq(list, LAMBDA x : Is(x, o))

remove_element ==
    /\ Running /\ local # Nothing
    /\ FirstOf(local) # 0
    /\ list' = RemoveAt(list, FirstOf(local))
    /\ heap' = Dropped(heap, list[FirstOf(local)])
    /\ Shrinks
    /\ UNCHANGED <<unboxed, capacity, charged, other, local, past>>

\* The element leaves the list with the count the list had.
\* Bound: after a leak, no more leaks.
Handed(i) ==
    /\ unboxed \/ "leak" \notin past
    /\ list' = RemoveAt(list, i)
    /\ Returned(AfterGet(heap, list[i]), Got(heap, list[i]))
    /\ Miscounts(Unless(unboxed, "leak"))
    /\ Shrinks
    /\ UNCHANGED <<unboxed, capacity, charged, other>>

remove_at(i) ==
    /\ Running
    /\ i \in DOMAIN list /\ CanGet(heap, list[i])
    /\ Handed(i)

shift == remove_at(1)

pop ==
    /\ Running
    /\ list # <<>> /\ CanGet(heap, Last(list))
    /\ Handed(Len(list))

clear ==
    /\ Running
    /\ list' = <<>>
    /\ heap' = DroppedAll(heap, list)
    /\ capacity' = IF capacity > ClearedSize THEN ClearedSize ELSE capacity
    /\ Miscounts(Unless(capacity <= ClearedSize, "drift"))
    /\ IF list = <<>> THEN UNCHANGED call ELSE Shrinks
    /\ UNCHANGED <<unboxed, charged, other, local>>

reverse ==
    /\ Running
    /\ list' = Reverse(list)
    /\ UNCHANGED <<heap, unboxed, capacity, charged, other, local, call, past>>

(***************************************************************************)
(* Functions that return a new list, into `other`.  Copies are charged     *)
(* nothing.                                                                *)
(***************************************************************************)
NewList(s) ==
    /\ Idle /\ Len(s) <= MaxLen
    /\ ReturnedList(KeptAll(heap, s), s)
    /\ UNCHANGED <<unboxed, list, capacity, charged, local, call>>

LeavesBoxes(n) == Miscounts(Unless(n = 0, "leak"))
BoxesOf(s) == IF unboxed THEN Len(s) ELSE 0

clone == NewList(list) /\ Exactly
reversed == NewList(Reverse(list)) /\ Exactly
slice(from, to) == NewList(Slice(list, from, to)) /\ Exactly
take(n) == NewList(Take(list, n)) /\ Exactly
drop(n) == NewList(Drop(list, n)) /\ Exactly
step(n) == NewList(Step(list, n)) /\ Exactly
plus == NewList(list \o other) /\ Exactly
plus_element == local # Nothing /\ NewList(Append(list, Stored(local))) /\ Exactly

\* Both call slice with index boxes they do not release.
take_last(n) ==
    /\ NewList(TakeLast(list, n))
    /\ LeavesBoxes(IF n > 0 /\ n < Len(list) THEN 2 ELSE 0)
drop_last(n) ==
    /\ NewList(DropLast(list, n))
    /\ LeavesBoxes(IF n > 0 /\ n < Len(list) THEN 2 ELSE 0)

Same(x, y) == IF unboxed THEN x = y ELSE Content(x) = Content(y)
IsIn(x, s) == \E n \in DOMAIN s : Same(x, s[n])

\* An unboxed copy is made with arrayAdd from a box per element.
minus ==
    LET kept == Among(list, {x \in ToSet(list) : ~IsIn(x, other)}) IN
    NewList(kept) /\ LeavesBoxes(BoxesOf(kept))
minus_element ==
    LET kept == IF FirstOf(local) = 0 THEN list ELSE RemoveAt(list, FirstOf(local)) IN
    local # Nothing /\ NewList(kept) /\ LeavesBoxes(BoxesOf(kept))
Seen(s, x) == IF IsIn(x, s) THEN s ELSE Append(s, x)
distinct ==
    LET kept == FoldLeft(Seen, <<>>, list) IN
    NewList(kept) /\ LeavesBoxes(BoxesOf(kept))
filter_not_null == NewList(list) /\ LeavesBoxes(BoxesOf(list))

Orders(s) == {[n \in DOMAIN s |-> s[p[n]]] : p \in Permutations(DOMAIN s)}

sorted == \E s \in Orders(list) : NewList(s) /\ Exactly
shuffled == sorted
sort_default ==
    /\ Idle
    /\ list' \in Orders(list)
    /\ UNCHANGED <<heap, unboxed, capacity, charged, other, local, call, past>>

(***************************************************************************)
(* Functions of two lists.  Each element is read with getItem and released *)
(* after its use: right for a box, one too many for an element, and then   *)
(* the run stops.                                                          *)
(***************************************************************************)
Twice(h, o) == Release(Retain(h, o), o)

Borrowed(s) ==
    /\ Idle
    /\ IF unboxed \/ s = <<>>
       THEN past' = past /\ UNCHANGED call
       ELSE Miscounts({"steal"}) /\ call' = Stopped

AfterBorrowed(h, s) == IF unboxed THEN h ELSE ReleaseAll(h, s)

\* arrayAdd doubles the capacity, before the length exceeds it, and charges
\* nothing.
Filled(len, n) == [k \in 1 .. n |-> len + k - 1]
GrownBy(cap, len, n) ==
    FoldLeft(LAMBDA c, m : IF m = c THEN (IF c = 0 THEN 1 ELSE 2 * c) ELSE c,
             cap, Filled(len, n))

add_all ==
    /\ Idle /\ Len(list) + Len(other) <= MaxLen
    /\ list' = list \o other
    /\ heap' = IF unboxed THEN heap ELSE FoldLeft(Twice, heap, other)
    /\ capacity' = GrownBy(capacity, Len(list), Len(other))
    /\ IF unboxed \/ other = <<>>
       THEN Miscounts(Unless(capacity' = capacity, "drift")) /\ UNCHANGED call
       ELSE Miscounts({"steal"}) /\ call' = Stopped
    /\ UNCHANGED <<unboxed, charged, other, local>>

\* From the last element to the first; remove shrinks as it goes.
Emptied(n) == [k \in 1 .. Len(list) - n |-> Len(list) - k]
ShrunkTo(n) ==
    FoldLeft(LAMBDA c, m : IF c > 1 /\ m <= c \div 4 THEN IF c \div 2 < 1 THEN 1 ELSE c \div 2 ELSE c,
             capacity, Emptied(n))

KeepOnly(wanted) ==
    LET stays == {x \in ToSet(list) : IsIn(x, other) = wanted}
        kept == Among(list, stays)
        gone == Among(list, ToSet(list) \ stays) IN
    /\ list' = kept
    /\ heap' = DroppedAll(AfterBorrowed(heap, list), gone)
    /\ capacity' = ShrunkTo(Len(kept))
    /\ charged' = Charge(ShrunkTo(Len(kept)) - capacity)
    /\ IF unboxed \/ list = <<>>
       THEN /\ Miscounts(Unless(gone = <<>>, "leak"))
            /\ UNCHANGED call
       ELSE Miscounts({"steal"}) /\ call' = Stopped
    /\ UNCHANGED <<unboxed, other, local>>

remove_all == Idle /\ KeepOnly(FALSE)
retain_all == Idle /\ KeepOnly(TRUE)

\* The elements of `other` up to the first that the list does not contain.
contains_all ==
    LET missing == SelectInSeq(other, LAMBDA x : ~IsIn(x, list))
        looked == IF missing = 0 THEN other ELSE SubSeq(other, 1, missing) IN
    /\ Borrowed(looked)
    /\ heap' = AfterBorrowed(heap, looked)
    /\ UNCHANGED <<dataVars, local>>

(***************************************************************************)
(* The program itself.                                                     *)
(***************************************************************************)
\* The program keeps its second list in place of the first, whose elements
\* are released (freeObjectData); nothing of its charge is given back.
UseOther ==
    /\ Idle
    /\ list' = other
    /\ other' = <<>>
    /\ heap' = DroppedAll(heap, list)
    /\ capacity' \in {Len(other), GrownBy(0, 0, Len(other))}
    /\ Miscounts(Unless(capacity' = charged, "drift"))
    /\ UNCHANGED <<unboxed, charged, local, call>>

Init ==
    /\ Begun
    /\ unboxed \in BOOLEAN
    /\ list = <<>> /\ other = <<>>
    /\ capacity = 0 /\ charged = 0

Restart ==
    /\ At("stopped") /\ BegunAgain
    /\ unboxed' \in BOOLEAN
    /\ list' = <<>> /\ other' = <<>>
    /\ capacity' = 0 /\ charged' = 0

Indexes == 1 .. MaxLen
Amounts == 0 .. MaxLen

Changes ==
    \/ add \/ unshift \/ remove_element \/ pop \/ shift \/ clear \/ reverse
    \/ \E i \in Indexes : insert(i) \/ set(i) \/ get(i) \/ remove(i) \/ remove_at(i)
    \/ reserve(MaxLen + 1)
    \/ OutOfMemory(RoomForOne)

NewLists ==
    \/ clone \/ reversed \/ plus \/ plus_element \/ minus \/ minus_element
    \/ distinct \/ filter_not_null \/ sorted \/ shuffled \/ sort_default
    \/ \E n \in Amounts : take(n) \/ drop(n) \/ take_last(n) \/ drop_last(n)
    \/ \E n \in Indexes : step(n)
    \/ \E from, to \in -1 .. MaxLen : slice(from, to)

Direct ==
    \/ Changes \/ NewLists
    \/ add_all \/ remove_all \/ retain_all \/ contains_all
    \/ ((\E v \in Contents : NewObject(v)) \/ Forget) /\ UNCHANGED dataVars
    \/ UseOther
    \/ Restart
=============================================================================
