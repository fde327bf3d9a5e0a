-------------------------------- MODULE Sets ---------------------------------
(***************************************************************************)
(* A set of the standard library (src/backend/libs/set.cpp).  A set of Int *)
(* or Float stores the numbers (unboxed); one of String stores references  *)
(* to objects that it finds by their content.  The elements are in the     *)
(* order of the dense vector of the hash set.  Elements of other classes   *)
(* are left out.                                                           *)
(*                                                                         *)
(* Many functions first copy the set into a list and then do what array.cpp*)
(* does; the list owns its elements, and the script may change the set.    *)
(***************************************************************************)
EXTENDS NativeCalls

CONSTANT MaxLen     \* bound: elements of a set

VARIABLES
    unboxed,        \* the elements are Int or Float
    elements,       \* in order
    second,         \* elements of the second set
    charged         \* elements charged to the memory counter, 32 bytes each

setDataVars == <<unboxed, elements, second, charged>>
setVars == <<heap, setDataVars, local, call, past>>

Stored(o) == IF unboxed THEN Content(o) ELSE o
ContentOf(x) == IF unboxed THEN x ELSE Content(x)
Kept(h, x) == IF unboxed THEN h ELSE Retain(h, x)
KeptAll(h, s) == IF unboxed THEN h ELSE RetainAll(h, s)
destroySet(h, s) == IF unboxed THEN h ELSE ReleaseAll(h, s)
Find(s, x) == SelectInSeq(s, LAMBDA y : ContentOf(y) = ContentOf(x))
Erased(s, i) == IF i = Len(s) THEN Front(s) ELSE [Front(s) EXCEPT ![i] = Last(s)]

(***************************************************************************)
(* Elements.                                                               *)
(***************************************************************************)
add ==
    /\ Running /\ local # Nothing
    /\ Find(elements, Stored(local)) = 0 /\ Len(elements) < MaxLen
    /\ elements' = Append(elements, Stored(local))
    /\ heap' = Kept(heap, Stored(local))
    /\ charged' = Counter(charged + 1)
    /\ Grows
    /\ UNCHANGED <<unboxed, second, local, past>>

\* What is removed from the set, if it is there, one after the other.
Without(s, x) == IF Find(s, x) = 0 THEN s ELSE Erased(s, Find(s, x))
Rest(gone) == FoldLeft(Without, elements, gone)
Lost(gone) == Among(elements, {x \in ToSet(elements) : Find(gone, x) # 0})

Shrunk(gone) ==
    /\ elements' = Rest(gone)
    /\ charged' = Counter(charged - (Len(elements) - Len(elements')))
    /\ UNCHANGED <<unboxed, second, local>>

\* The reference is given up before the element goes, and the hash of one that
\* nobody else has is computed from a freed object.  how is what else was
\* miscounted.
Removed(gone, how) ==
    /\ Shrunk(gone)
    /\ heap' = destroySet(heap, Lost(gone))
    /\ IF ~unboxed /\ \E x \in ToSet(Lost(gone)) : heap'[x] = Dead
       THEN Miscounts({"steal"}) /\ call' = Stopped
       ELSE /\ Miscounts(how)
            /\ IF elements' = elements THEN UNCHANGED call ELSE Shrinks

remove ==
    /\ Running /\ local # Nothing
    /\ Removed(<<Stored(local)>>, {})

clear ==
    /\ Running
    /\ elements' = <<>>
    /\ heap' = destroySet(heap, elements)
    /\ charged' = Counter(charged - Len(elements))
    /\ IF elements = <<>> THEN UNCHANGED call ELSE Shrinks
    /\ UNCHANGED <<unboxed, second, local, past>>

first ==
    /\ Running /\ elements # <<>>
    /\ IF unboxed
       THEN CanCreate(heap, elements[1])
            /\ LET box == NewCopy(heap, elements[1]) IN Returned(Created(heap, box), box)
       ELSE Returned(heap, elements[1])
    /\ UNCHANGED <<setDataVars, call, past>>
first_or_null == first

(***************************************************************************)
(* Functions of whole sets.  A new set takes the place of the second.      *)
(***************************************************************************)
NewSet(h, s, charge) ==
    /\ Idle /\ Len(s) <= MaxLen
    /\ second' = s
    /\ heap' = destroySet(KeptAll(h, s), second)
    /\ charged' = Counter(charged + charge - Len(second))
    /\ UNCHANGED <<unboxed, elements, local, call>>

Fits(s, x) == IF Find(s, x) = 0 THEN Append(s, x) ELSE s

clone == NewSet(heap, elements, Len(elements)) /\ Exactly
plus_element ==
    LET s == Fits(elements, Stored(local)) IN
    local # Nothing /\ NewSet(heap, s, Len(s)) /\ Exactly
minus_element ==
    LET s == Among(elements, {x \in ToSet(elements) : ContentOf(x) # Content(local)}) IN
    local # Nothing /\ NewSet(heap, s, Len(s)) /\ Exactly

\* These three charge nothing for a set that is credited when it goes.
Uncharged(s) == NewSet(heap, s, 0) /\ Miscounts(Unless(s = <<>>, "drift"))
set_union == Uncharged(FoldLeft(Fits, elements, second))
Others == {x \in ToSet(elements) : Find(second, x) = 0}
intersect == Uncharged(Among(elements, ToSet(elements) \ Others))
difference == Uncharged(Among(elements, Others))
subtract == difference

\* The boxes that stand for numbers are left behind.
LeavesBoxes(n) == Unless(~unboxed \/ n = 0, "leak")

add_all ==
    LET s == FoldLeft(Fits, elements, second) IN
    /\ Idle /\ Len(s) <= MaxLen
    /\ elements' = s
    /\ heap' = KeptAll(heap, SubSeq(s, Len(elements) + 1, Len(s)))
    /\ charged' = Counter(charged + Len(s) - Len(elements))
    /\ Miscounts(LeavesBoxes(Len(second)))
    /\ UNCHANGED <<unboxed, second, local, call>>
remove_all == Idle /\ Removed(second, LeavesBoxes(Len(second)))

\* The elements to go are kept by the copy until all are gone.
retain_all ==
    LET gone == Among(elements, Others) IN
    /\ Idle
    /\ Shrunk(gone)
    /\ heap' = destroySet(destroySet(KeptAll(heap, elements), Lost(gone)), elements)
    /\ Miscounts(LeavesBoxes(Len(elements) + Len(second)))
    /\ UNCHANGED call

\* The program keeps its second set in place of the first.
UseSecond ==
    /\ Idle
    /\ elements' = second /\ second' = <<>>
    /\ heap' = destroySet(heap, elements)
    /\ charged' = Counter(charged - Len(elements))
    /\ UNCHANGED <<unboxed, local, call, past>>

(***************************************************************************)
(* Functions with callbacks.                                               *)
(***************************************************************************)
\* These copy the set into a list and go over that.
OverCopy == {"remove_all_fn", "count_fn"}
Predicates == {"filter", "any_fn", "all_fn"} \cup OverCopy
Functions == Predicates \cup {"for_each", "map"}

\* The item is retained for the call.
ItemKept == call.fn \in OverCopy \/ (unboxed /\ call.fn # "for_each")

\* What the loop goes over: call.out is the copy, or what a filter collects.
Source == IF call.fn \in OverCopy THEN call.out ELSE elements
setToArrayHelper(h) == KeptAll(h, elements)

\* Bounds: after a miscount, no more calls; nothing uses the second set.
Begin(fn) ==
    /\ Idle /\ past = {} /\ second = <<>> /\ fn \in Functions
    /\ call' = [NoCall EXCEPT !.fn = fn, !.pc = "loop", !.i = 1, !.n = Len(elements),
                              !.out = IF fn \in OverCopy THEN elements ELSE <<>>]
    /\ heap' = IF fn \in OverCopy THEN setToArrayHelper(heap) ELSE heap
    /\ Miscounts(IF fn \in OverCopy THEN LeavesBoxes(Len(elements)) ELSE {})
    /\ UNCHANGED <<setDataVars, local>>

InLoop == call.i <= call.n

Invoke ==
    /\ At("loop") /\ InLoop
    /\ LET x == Source[call.i] IN
       /\ unboxed => CanCreate(heap, x)
       /\ LET item == IF unboxed THEN NewCopy(heap, x) ELSE x
              h == IF unboxed THEN Created(heap, item) ELSE heap IN
          /\ heap' = Retain(IF ItemKept THEN Retain(h, item) ELSE h, item)
          /\ call' = [call EXCEPT !.pc = "calling", !.item = item]
    /\ UNCHANGED <<setDataVars, local, past>>

OutOfObjects ==
    /\ TooFewCopies
    /\ call' = Stopped
    /\ UNCHANGED <<heap, setDataVars, local, past>>

CalleeDone(h) == Release(h, call.item)
LetGo(h) == IF ItemKept THEN Release(h, call.item) ELSE h

ScriptAnswers ==
    /\ At("calling") /\ call.fn \in Predicates
    /\ \E yes \in BOOLEAN : call' = [call EXCEPT !.pc = "returned", !.yes = yes]
    /\ heap' = CalleeDone(heap)
    /\ UNCHANGED <<setDataVars, local, past>>

\* The results of for_each and map are dropped.
ScriptEnds ==
    /\ At("calling") /\ call.fn \notin Predicates
    /\ heap' = CalleeDone(heap)
    /\ call' = [call EXCEPT !.pc = "returned"]
    /\ UNCHANGED <<setDataVars, local, past>>

\* An exception leaves behind what a filter has made; a copy is released by
\* remove_all and count_fn.
ScriptRaises ==
    /\ At("calling")
    /\ LET h == LetGo(CalleeDone(heap)) IN
       heap' = IF call.fn \in OverCopy THEN destroySet(h, call.out) ELSE h
    /\ call' = NoCall
    /\ Records(IF call.fn \notin OverCopy /\ call.out # <<>> THEN {"leak"} ELSE {})
    /\ UNCHANGED <<setDataVars, local>>

\* A loop over the set itself stands at an iterator, which an insertion or a
\* removal in a callback makes invalid: a function that goes on uses it.
GoesOn ==
    CASE call.fn = "any_fn" -> ~call.yes
      [] call.fn = "all_fn" -> call.yes
      [] OTHER -> call.fn \notin OverCopy
LostPlace ==
    /\ At("returned") /\ call.moved # {} /\ GoesOn
    /\ Undefined("stale")
    /\ UNCHANGED <<heap, setDataVars, local>>

After(fn) == At("returned") /\ call.fn = fn /\ ~(call.moved # {} /\ GoesOn)
NextOne == [call EXCEPT !.pc = "loop", !.i = @ + 1, !.item = Nothing, !.yes = FALSE]
Skip ==
    /\ heap' = LetGo(heap) /\ call' = NextOne /\ Exactly
    /\ UNCHANGED <<setDataVars, local>>
Stop ==
    /\ heap' = LetGo(heap) /\ call' = NoCall /\ Exactly
    /\ UNCHANGED <<setDataVars, local>>

for_each == After("for_each") /\ Skip
map == After("map") /\ Skip
count_fn == After("count_fn") /\ Skip
any_fn == After("any_fn") /\ IF call.yes THEN Stop ELSE Skip
none_fn == any_fn
all_fn == After("all_fn") /\ IF call.yes THEN Skip ELSE Stop

filter ==
    /\ After("filter")
    /\ IF call.yes
       THEN /\ heap' = Kept(LetGo(heap), elements[call.i])
            /\ call' = [NextOne EXCEPT !.out = Append(@, elements[call.i])]
            /\ charged' = Counter(charged + 1)
            /\ Exactly
            /\ UNCHANGED <<unboxed, elements, second, local>>
       ELSE Skip

remove_all_fn ==
    /\ After("remove_all_fn")
    /\ IF call.yes
       THEN /\ Shrunk(<<Source[call.i]>>)
            /\ heap' = LetGo(destroySet(heap, Lost(<<Source[call.i]>>)))
            /\ call' = NextOne /\ Exactly
       ELSE Skip

EndWithSet ==
    /\ At("loop") /\ ~InLoop /\ call.fn = "filter"
    /\ second' = call.out
    /\ heap' = destroySet(heap, second)
    /\ charged' = Counter(charged - Len(second))
    /\ call' = NoCall
    /\ UNCHANGED <<unboxed, elements, local, past>>
EndOfCopy ==
    /\ At("loop") /\ ~InLoop /\ call.fn \in OverCopy
    /\ heap' = destroySet(heap, call.out)
    /\ call' = NoCall
    /\ UNCHANGED <<setDataVars, local, past>>
EndWithout == At("loop") /\ ~InLoop /\ call.fn \in {"for_each", "map", "any_fn", "all_fn"} /\ Stop

(***************************************************************************)
(* The whole.                                                              *)
(***************************************************************************)
Init ==
    /\ Begun
    /\ unboxed \in BOOLEAN
    /\ elements = <<>> /\ second = <<>> /\ charged = 0
Restart ==
    /\ At("stopped") /\ BegunAgain
    /\ unboxed' \in BOOLEAN
    /\ elements' = <<>> /\ second' = <<>> /\ charged' = 0

Next ==
    \/ \E fn \in Functions : Begin(fn)
    \/ Invoke \/ OutOfObjects \/ ScriptAnswers \/ ScriptEnds \/ ScriptRaises \/ LostPlace
    \/ for_each \/ map \/ count_fn \/ any_fn \/ all_fn \/ filter \/ remove_all_fn
    \/ EndWithSet \/ EndOfCopy \/ EndWithout
    \/ add \/ remove \/ clear \/ first \/ clone \/ plus_element \/ minus_element
    \/ set_union \/ intersect \/ difference \/ add_all \/ remove_all \/ retain_all
    \/ UseSecond
    \/ ((\E v \in Contents : NewObject(v)) \/ Forget) /\ UNCHANGED setDataVars
    \/ Restart

Spec == Init /\ [][Next]_setVars

(***************************************************************************)
(* Properties.                                                             *)
(***************************************************************************)
\* The references to o that the sets, the variable, the script that runs and
\* the native function that waits for it have.
Owned(o) ==
    LET held(s) == IF unboxed THEN 0 ELSE Occurrences(o, s) IN
    held(elements) + held(second) + held(call.out) + One(local = o)
    + One(call.pc = "calling" /\ call.item = o)
    + One(call.pc \in {"calling", "returned"} /\ ItemKept /\ call.item = o)

NeverFreedEarly == Sound(Owned)
NothingLeaked == Tight(Owned)

\* Each element is in a set once.
ElementsDiffer ==
    \A s \in {elements, second, call.out} :
        \A m, n \in DOMAIN s : m # n => ContentOf(s[m]) # ContentOf(s[n])

\* The memory counter has the elements of the sets there are.
ChargeIsSize ==
    LET made == IF call.fn \in OverCopy THEN 0 ELSE Len(call.out) IN
    past = {} /\ ~At("stopped") => charged = Len(elements) + Len(second) + made
=============================================================================
