-------------------------------- MODULE Heap --------------------------------
(***************************************************************************)
(* The reference counts that the native functions of the standard library  *)
(* keep by hand (AObject::retain, ObjectManager::release).  An object is a *)
(* content and a copy number: two objects with one content are equal to    *)
(* the program and different to the heap.  Constants (null, booleans) and  *)
(* the members of an object are left out; ObjectManager models those.      *)
(***************************************************************************)
EXTENDS Integers, FiniteSets, SequencesExt

CONSTANTS
    Contents,       \* the values objects have, as far as == tells them apart
    Copies,         \* bound: objects with one content at a time
    Rare,           \* bound: contents of only one object at a time
    Nothing         \* no object: null, or a variable not set

VARIABLE heap       \* the count of each object, Dead where there is none

Objects == {o \in Contents \X (1 .. Copies) : o[1] \in Rare => o[2] = 1}
Dead == -1

Content(o) == o[1]
Alive(o) == heap[o] # Dead

Retain(h, o) == IF o = Nothing THEN h ELSE [h EXCEPT ![o] = @ + 1]

\* A release of an object that is already free does nothing; one that was
\* never retained is freed by its first release.
Release(h, o) ==
    IF o = Nothing \/ h[o] = Dead THEN h
    ELSE [h EXCEPT ![o] = IF @ > 1 THEN @ - 1 ELSE Dead]

RetainAll(h, s) == FoldLeft(Retain, h, s)
ReleaseAll(h, s) == FoldLeft(Release, h, s)

\* A new object with content v and no reference yet.
Free(h, v) == {o \in Objects : o[1] = v /\ h[o] = Dead}
CanCreate(h, v) == Free(h, v) # {}
NewCopy(h, v) == CHOOSE o \in Free(h, v) : \A p \in Free(h, v) : o[2] <= p[2]
Created(h, o) == [h EXCEPT ![o] = 0]

\* The variable that held `old` now holds o, which the caller retains.
Assigned(h, o, old) == Release(Retain(h, o), old)

\* The elements of s that are in the set `wanted', in order.
Among(s, wanted) ==
    FoldLeft(LAMBDA kept, x : IF x \in wanted THEN Append(kept, x) ELSE kept, <<>>, s)

Occurrences(o, s) == Cardinality({n \in DOMAIN s : s[n] = o})
One(condition) == IF condition THEN 1 ELSE 0
=============================================================================
