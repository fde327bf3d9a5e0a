-------------------------------- MODULE Maps ---------------------------------
(***************************************************************************)
(* A map of the standard library (src/backend/libs/map.cpp).  A map with   *)
(* keys of Int or Float stores the numbers (unboxed); one with keys of     *)
(* String stores references to the keys, which it finds by their content.  *)
(* The values are references to objects.  Keys of other classes are left   *)
(* out.  The entries are in the order of the dense vector of the hash map. *)
(*                                                                         *)
(* The program has the map, a second one that functions take and return,   *)
(* and the variable `local`, which is the value it stores.  It makes a new *)
(* key for each call, or uses local.                                       *)
(***************************************************************************)
EXTENDS NativeCalls

CONSTANT MaxLen     \* bound: entries of a map

VARIABLES
    unboxed,        \* the keys are Int or Float
    entries,        \* <<key, value>> in order
    second,         \* entries of the second map
    charged         \* entries charged to the memory counter, 32 bytes each

mapDataVars == <<unboxed, entries, second, charged>>
mapVars == <<heap, mapDataVars, local, call, past>>

KeyContent(e) == IF unboxed THEN e[1] ELSE Content(e[1])
Find(s, key) == SelectInSeq(s, LAMBDA e : KeyContent(e) = Content(key))
Entry(key, value) == <<IF unboxed THEN Content(key) ELSE key, value>>

KeptKey(h, e) == IF unboxed THEN h ELSE Retain(h, e[1])
KeptEntry(h, e) == Retain(KeptKey(h, e), e[2])
DroppedEntry(h, e) == Release(IF unboxed THEN h ELSE Release(h, e[1]), e[2])
KeptEntries(h, s) == FoldLeft(KeptEntry, h, s)
destroyMap(h, s) == FoldLeft(DroppedEntry, h, s)

\* The dense vector fills a hole with its last entry.
Erased(s, i) == IF i = Len(s) THEN Front(s) ELSE [Front(s) EXCEPT ![i] = Last(s)]

\* The key of a call, which the operand stack holds until the call returns.
IsKey(key) == key = local \/ (CanCreate(heap, Content(key)) /\ key = NewCopy(heap, Content(key)))
Pushed(h, key) == Retain(IF h[key] = Dead THEN Created(h, key) ELSE h, key)
Popped(h, key) == Release(h, key)

(***************************************************************************)
(* Entries.                                                                *)
(***************************************************************************)
HeapAfterSet(h, s, key, value) ==
    LET i == Find(s, key) IN
    IF i # 0 THEN Release(Retain(h, value), s[i][2])
    ELSE KeptEntry(h, Entry(key, value))
EntriesAfterSet(s, key, value) ==
    LET i == Find(s, key) IN
    IF i # 0 THEN [s EXCEPT ![i] = <<@[1], value>>] ELSE Append(s, Entry(key, value))

set(key) ==
    /\ Running /\ IsKey(key) /\ local # Nothing
    /\ IF Find(entries, key) # 0 THEN UNCHANGED call ELSE Grows /\ Len(entries) < MaxLen
    /\ entries' = EntriesAfterSet(entries, key, local)
    /\ heap' = Popped(HeapAfterSet(Pushed(heap, key), entries, key, local), key)
    /\ charged' = Counter(charged + Len(entries') - Len(entries))
    /\ UNCHANGED <<unboxed, second, local, past>>

Found(key) == IF Find(entries, key) = 0 THEN Nothing ELSE entries[Find(entries, key)][2]

get(key) ==
    /\ Running /\ IsKey(key)
    /\ local' = Found(key)
    /\ heap' = Popped(Assigned(Pushed(heap, key), Found(key), local), key)
    /\ UNCHANGED <<mapDataVars, call, past>>

\* The key goes into the map without a reference, and the entry without a
\* charge.
get_or_default(key) ==
    /\ Idle /\ IsKey(key) /\ local # Nothing
    /\ IF Find(entries, key) # 0
       THEN get(key)
       ELSE /\ Len(entries) < MaxLen
            /\ entries' = Append(entries, Entry(key, local))
            /\ heap' = Popped(Retain(Pushed(heap, key), local), key)
            /\ IF unboxed THEN Miscounts({"drift"}) /\ UNCHANGED call
               ELSE Miscounts({"steal"}) /\ call' = Stopped
            /\ UNCHANGED <<unboxed, second, charged, local>>

\* The references are given up before the entry goes: the hash of a key that
\* nobody else has is computed from a freed object.
Removed(i, key) ==
    LET h == DroppedEntry(Pushed(heap, key), entries[i]) IN
    /\ entries' = Erased(entries, i)
    /\ heap' = Popped(h, key)
    /\ charged' = Counter(charged - 1)
    /\ IF ~unboxed /\ h[entries[i][1]] = Dead
       THEN Undefined("steal")
       ELSE Shrinks /\ Exactly
    /\ UNCHANGED <<unboxed, second, local>>

remove(key) ==
    /\ Running /\ IsKey(key)
    /\ Find(entries, key) # 0
    /\ Removed(Find(entries, key), key)

remove_pair(key) ==
    /\ Running /\ IsKey(key) /\ local # Nothing
    /\ Find(entries, key) # 0
    /\ Content(Found(key)) = Content(local)
    /\ Removed(Find(entries, key), key)

clear ==
    /\ Running
    /\ entries' = <<>>
    /\ IF entries = <<>> THEN UNCHANGED call ELSE Shrinks
    /\ heap' = destroyMap(heap, entries)
    /\ charged' = Counter(charged - Len(entries))
    /\ UNCHANGED <<unboxed, second, local, past>>

\* The program keeps a key or a value of the list that these return.
keys ==
    /\ Idle
    /\ \E n \in DOMAIN entries :
          IF unboxed
          THEN CanCreate(heap, entries[n][1])
               /\ LET box == NewCopy(heap, entries[n][1]) IN Returned(Created(heap, box), box)
          ELSE Returned(heap, entries[n][1])
    /\ UNCHANGED <<mapDataVars, call, past>>
values ==
    /\ Idle
    /\ \E n \in DOMAIN entries : Returned(heap, entries[n][2])
    /\ UNCHANGED <<mapDataVars, call, past>>

(***************************************************************************)
(* Functions of whole maps.  A new map takes the place of the second, and  *)
(* is charged for each of its entries.                                     *)
(***************************************************************************)
NewMap(h, s) ==
    /\ Idle /\ Len(s) <= MaxLen
    /\ second' = s
    /\ heap' = destroyMap(h, second)
    /\ charged' = Counter(charged + Len(s) - Len(second))
    /\ UNCHANGED <<unboxed, entries, local, call, past>>

clone == NewMap(KeptEntries(heap, entries), entries)
minus(key) ==
    LET rest == Among(entries, {e \in ToSet(entries) : KeyContent(e) # Content(key)}) IN
    IsKey(key) /\ NewMap(KeptEntries(heap, rest), rest)
plus_pair(key) ==
    /\ IsKey(key) /\ local # Nothing
    /\ LET h == KeptEntries(Pushed(heap, key), entries) IN
       NewMap(Popped(HeapAfterSet(h, entries, key, local), key),
              EntriesAfterSet(entries, key, local))

\* The keys of the entries of s, as a call has them.
KeyOf(h, e) == IF unboxed THEN NewCopy(h, e[1]) ELSE e[1]
SameKey(s, e) == SelectInSeq(s, LAMBDA d : KeyContent(d) = KeyContent(e))
\* Mutant: a key that the map has is not looked for.
MergeBlindly(s, e) == Append(s, e)
Merge(s, e) ==
    IF SameKey(s, e) = 0 THEN Append(s, e) ELSE [s EXCEPT ![SameKey(s, e)] = <<@[1], e[2]>>]
HeapAfterMerge(h, s, e) ==
    IF SameKey(s, e) = 0 THEN KeptEntry(h, e)
    ELSE Release(Retain(h, e[2]), s[SameKey(s, e)][2])
MergedEntries(s, more) == FoldLeft(Merge, s, more)
MergedHeap(h, s, more) ==
    FoldLeft(LAMBDA acc, e : [h |-> HeapAfterMerge(acc.h, acc.s, e), s |-> Merge(acc.s, e)],
             [h |-> h, s |-> s], more).h

plus == NewMap(MergedHeap(KeptEntries(heap, entries), entries, second),
               MergedEntries(entries, second))
put_all ==
    /\ Idle
    /\ entries' = MergedEntries(entries, second) /\ Len(entries') <= MaxLen
    /\ heap' = MergedHeap(heap, entries, second)
    /\ charged' = Counter(charged + Len(entries') - Len(entries))
    /\ UNCHANGED <<unboxed, second, local, call, past>>

\* The program keeps its second map in place of the first.
UseSecond ==
    /\ Idle
    /\ entries' = second /\ second' = <<>>
    /\ heap' = destroyMap(heap, entries)
    /\ charged' = Counter(charged - Len(entries))
    /\ UNCHANGED <<unboxed, local, call, past>>

(***************************************************************************)
(* Functions with callbacks.                                               *)
(***************************************************************************)
Makers == {"filter", "filter_values", "map_values", "map_keys"}
Predicates == {"filter", "filter_values", "any_fn", "all_fn"}
Transforms == {"map_values", "map_keys", "map"}
Loops == Predicates \cup Transforms \cup {"for_each"}
Defaults == {"get_or_put", "get_or_else"}

KeyKept == unboxed /\ call.fn # "for_each"
ValueKept == call.fn \in {"filter_values", "map_values"}

\* Bounds: after a miscount, no more calls; nothing uses the second map.
MayBegin == Idle /\ past = {} /\ second = <<>>

Begin(fn) ==
    /\ MayBegin /\ fn \in Loops
    /\ call' = [NoCall EXCEPT !.fn = fn, !.pc = "loop", !.i = 1, !.n = Len(entries)]
    /\ UNCHANGED <<heap, mapDataVars, local, past>>

\* A missing value: the callback makes it, while the stack holds the key.
BeginDefault(fn, key) ==
    /\ MayBegin /\ fn \in Defaults
    /\ IsKey(key) /\ Find(entries, key) = 0
    /\ heap' = Pushed(heap, key)
    /\ call' = [NoCall EXCEPT !.fn = fn, !.pc = "calling", !.acc = key]
    /\ UNCHANGED <<mapDataVars, local, past>>

InLoop == call.i <= call.n
Here == entries[call.i]

Invoke ==
    /\ At("loop") /\ InLoop
    /\ unboxed => CanCreate(heap, Here[1])
    /\ LET key == KeyOf(heap, Here)
           h1 == IF unboxed THEN Created(heap, key) ELSE heap
           h2 == IF KeyKept THEN Retain(h1, key) ELSE h1
           h3 == IF ValueKept THEN Retain(h2, Here[2]) ELSE h2 IN
       /\ heap' = Retain(Retain(h3, key), Here[2])
       /\ call' = [call EXCEPT !.pc = "calling", !.item = key, !.acc = Here[2]]
    /\ UNCHANGED <<mapDataVars, local, past>>

OutOfObjects ==
    /\ TooFewCopies
    /\ call' = Stopped
    /\ UNCHANGED <<heap, mapDataVars, local, past>>

CalleeDone(h) ==
    IF call.fn \in Defaults THEN h ELSE Release(Release(h, call.item), call.acc)

ScriptAnswers ==
    /\ At("calling") /\ call.fn \in Predicates
    /\ \E yes \in BOOLEAN : call' = [call EXCEPT !.pc = "returned", !.yes = yes]
    /\ heap' = CalleeDone(heap)
    /\ UNCHANGED <<mapDataVars, local, past>>

ScriptReturns ==
    /\ At("calling") /\ call.fn \in Transforms \cup Defaults
    /\ \/ \E r \in {call.item, call.acc, local} \ {Nothing} :
             /\ heap' = CalleeDone(Retain(heap, r))
             /\ call' = [call EXCEPT !.pc = "returned", !.res = r]
       \/ \E v \in Contents :
             LET r == NewCopy(heap, v) IN
             /\ CanCreate(heap, v)
             /\ heap' = CalleeDone(Retain(Created(heap, r), r))
             /\ call' = [call EXCEPT !.pc = "returned", !.res = r]
    /\ UNCHANGED <<mapDataVars, local, past>>

ScriptEnds ==
    /\ At("calling") /\ call.fn = "for_each"
    /\ heap' = CalleeDone(heap)
    /\ call' = [call EXCEPT !.pc = "returned"]
    /\ UNCHANGED <<mapDataVars, local, past>>

LetGoKey(h) == IF KeyKept THEN Release(h, call.item) ELSE h
LetGoValue(h) == IF ValueKept THEN Release(h, call.acc) ELSE h

\* The loop stands at an iterator, which an insertion or a removal in a callback
\* makes invalid: a function that goes on then, or gives up the value of the
\* entry, uses it.
Moved == call.moved # {}
GoesOn ==
    CASE call.fn = "any_fn" -> ~call.yes
      [] call.fn = "all_fn" -> call.yes
      [] OTHER -> call.fn \notin Defaults
LostPlace ==
    /\ Moved
    /\ (At("returned") /\ GoesOn) \/ (At("calling") /\ ValueKept)
    /\ Undefined("stale")
    /\ UNCHANGED <<heap, mapDataVars, local>>

\* The value is retained as the entry has it before the callback, and given up
\* or kept as the entry has it after: the script has replaced it.
LostValue ==
    /\ ValueKept /\ ~Moved
    /\ At("returned") \/ At("calling")
    /\ Here[2] # call.acc
    /\ Undefined("steal")
    /\ UNCHANGED <<heap, mapDataVars, local>>

\* An exception: what the function has made so far stays behind.
ScriptRaises ==
    /\ At("calling")
    /\ ValueKept => ~Moved /\ Here[2] = call.acc
    /\ heap' = IF call.fn \in Defaults THEN Popped(heap, call.acc)
               ELSE LetGoValue(LetGoKey(CalleeDone(heap)))
    /\ call' = NoCall
    /\ Records(IF call.out = <<>> THEN {} ELSE {"leak"})
    /\ UNCHANGED <<mapDataVars, local>>

After(fn) ==
    /\ At("returned") /\ call.fn = fn
    /\ ~(Moved /\ GoesOn)
    /\ ValueKept => Here[2] = call.acc
Goes(h, out) ==
    /\ heap' = h
    /\ call' = [call EXCEPT !.pc = "loop", !.i = @ + 1, !.item = Nothing, !.acc = Nothing,
                            !.res = Nothing, !.yes = FALSE, !.out = out]
    /\ charged' = Counter(charged + Len(out) - Len(call.out))
    /\ Exactly
    /\ UNCHANGED <<unboxed, entries, second, local>>
Stop(h) ==
    /\ heap' = h /\ call' = NoCall /\ Exactly
    /\ UNCHANGED <<mapDataVars, local>>
Skip == Goes(LetGoKey(heap), call.out)

for_each == After("for_each") /\ Skip
any_fn == After("any_fn") /\ IF call.yes THEN Stop(LetGoKey(heap)) ELSE Skip
none_fn == any_fn
all_fn == After("all_fn") /\ IF call.yes THEN Skip ELSE Stop(LetGoKey(heap))

\* The value is the one the entry has after the callback.
filter ==
    /\ After("filter")
    /\ IF call.yes THEN Goes(KeptEntry(LetGoKey(heap), Here), Append(call.out, Here)) ELSE Skip
filter_keys == filter
filter_not == filter

\* The reference taken for the call becomes that of the new entry.
filter_values ==
    /\ After("filter_values")
    /\ IF call.yes
       THEN Goes(KeptKey(LetGoKey(heap), Here), Append(call.out, <<Here[1], call.acc>>))
       ELSE Goes(LetGoValue(LetGoKey(heap)), call.out)
map_values ==
    /\ After("map_values")
    /\ Goes(KeptKey(LetGoValue(LetGoKey(heap)), Here), Append(call.out, <<Here[1], call.res>>))
map_keys ==
    /\ After("map_keys")
    /\ Goes(Release(HeapAfterSet(LetGoKey(heap), call.out, call.res, Here[2]), call.res),
            EntriesAfterSet(call.out, call.res, Here[2]))
\* The list of the results is dropped at once.
map == After("map") /\ Goes(Release(LetGoKey(heap), call.res), call.out)

\* The result belongs to the function, and the interpreter retains it again.
get_or_put ==
    /\ After("get_or_put")
    /\ entries' = EntriesAfterSet(entries, call.acc, call.res)
    /\ charged' = Counter(charged + Len(entries') - Len(entries))
    /\ local' = call.res
    /\ heap' = Popped(Assigned(HeapAfterSet(heap, entries, call.acc, call.res), call.res, local),
                      call.acc)
    /\ call' = NoCall /\ Records({"leak"})
    /\ UNCHANGED <<unboxed, second>>
get_or_else ==
    /\ After("get_or_else")
    /\ local' = call.res
    /\ heap' = Popped(Assigned(heap, call.res, local), call.acc)
    /\ call' = NoCall /\ Records({"leak"})
    /\ UNCHANGED mapDataVars

EndWithMap ==
    /\ At("loop") /\ ~InLoop /\ call.fn \in Makers
    /\ second' = call.out
    /\ heap' = destroyMap(heap, second)
    /\ charged' = Counter(charged - Len(second))
    /\ call' = NoCall
    /\ UNCHANGED <<unboxed, entries, local, past>>
EndWithout == At("loop") /\ ~InLoop /\ call.fn \notin Makers /\ Stop(heap)

(***************************************************************************)
(* The whole.                                                              *)
(***************************************************************************)
Init ==
    /\ Begun
    /\ unboxed \in BOOLEAN
    /\ entries = <<>> /\ second = <<>> /\ charged = 0
Restart ==
    /\ At("stopped") /\ BegunAgain
    /\ unboxed' \in BOOLEAN
    /\ entries' = <<>> /\ second' = <<>> /\ charged' = 0

Answered ==
    \/ for_each \/ any_fn \/ all_fn \/ filter \/ filter_values \/ map_values
    \/ map_keys \/ map \/ get_or_put \/ get_or_else

Next ==
    \/ \E fn \in Loops : Begin(fn)
    \/ \E fn \in Defaults, key \in Objects : BeginDefault(fn, key)
    \/ Invoke \/ OutOfObjects \/ ScriptAnswers \/ ScriptReturns \/ ScriptEnds \/ ScriptRaises
    \/ LostPlace \/ LostValue \/ Answered \/ EndWithMap \/ EndWithout
    \/ \E key \in Objects :
          \/ set(key) \/ get(key) \/ get_or_default(key) \/ remove(key)
          \/ remove_pair(key) \/ minus(key) \/ plus_pair(key)
    \/ clear \/ keys \/ values \/ clone \/ plus \/ put_all \/ UseSecond
    \/ ((\E v \in Contents : NewObject(v)) \/ Forget) /\ UNCHANGED mapDataVars
    \/ Restart

Spec == Init /\ [][Next]_mapVars

(***************************************************************************)
(* Properties.                                                             *)
(***************************************************************************)
\* The references to o that the maps, the variable, the script that runs and
\* the native function that waits for it have.
Owned(o) ==
    LET held(s) == Cardinality({n \in DOMAIN s : ~unboxed /\ s[n][1] = o})
                   + Cardinality({n \in DOMAIN s : s[n][2] = o})
        during == call.pc \in {"calling", "returned"} IN
    held(entries) + held(second) + held(call.out) + One(local = o)
    + One(call.pc = "calling" /\ call.item = o)
    + One(call.pc = "calling" /\ call.fn \notin Defaults /\ call.acc = o)
    + One(during /\ KeyKept /\ call.item = o)
    + One(during /\ (ValueKept \/ call.fn \in Defaults) /\ call.acc = o)
    + One(call.pc = "returned" /\ call.res = o)

NeverFreedEarly == Sound(Owned)
NothingLeaked == Tight(Owned)

\* Each key is in a map once.
KeysDiffer ==
    \A s \in {entries, second, call.out} :
        \A m, n \in DOMAIN s : m # n => KeyContent(s[m]) # KeyContent(s[n])

\* The memory counter has the entries of the maps there are.
ChargeIsSize ==
    past = {} /\ ~At("stopped") => charged = Len(entries) + Len(second) + Len(call.out)
=============================================================================
