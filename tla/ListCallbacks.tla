---------------------------- MODULE ListCallbacks ---------------------------
(***************************************************************************)
(* The functions of src/backend/libs/array.cpp that call a script function *)
(* for the elements of the list.  The native loop stands still while the   *)
(* script runs; the script may change the list, and may raise.             *)
(*                                                                         *)
(* The arguments of the callback are retained for the callee, which gives  *)
(* them up when it returns; its result belongs to the native function      *)
(* (ANotifier::callFunctionObject).                                        *)
(***************************************************************************)
EXTENDS Lists

\* Functions with one loop per kind of storage: an element that the list
\* holds goes to the callback without a reference of the function's own.
Separate == {"for_each", "filter", "any_fn", "all_fn",
            "count_fn", "map"}

\* Functions that release an element they did not retain.
Unkept == {"zip_transform", "zip_with_next_transform", "flat_map_indexed"}

Backward == {"find_last", "index_of_last", "last_fn", "remove_all_fn"}
FixedLength == {"join_to_string", "zip_transform", "chunked_transform", "sorted_with"}
Folding == {"reduce", "fold", "running_fold", "running_reduce"}
FromSecond == {"reduce", "running_reduce"}
Sorting == {"sorted_by", "then_by", "sorted_with"}

Actions == {"for_each", "on_each"}
Predicates ==
    {"filter", "filter_not", "filter_to", "take_while", "drop_while", "partition",
     "any_fn", "all_fn", "count_fn", "find", "find_last",
     "index_of_first", "index_of_last", "first_fn", "last_fn", "single_fn",
     "single_or_null_fn", "remove_all_fn", "sorted_with"}
Transforms ==
    {"map", "map_not_null", "flat_map", "map_to", "max_of",
     "sum_of", "distinct_by", "join_to_string", "first_not_null_of",
     "chunked_transform", "then_by", "get_or_else"}
    \cup Folding \cup Unkept \cup {"min_by_or_null", "sorted_by"}
Nullable == {"map_not_null", "flat_map", "first_not_null_of"}
Functions == Actions \cup Predicates \cup Transforms

KeepsItem == call.fn \notin Unkept /\ (call.fn \in Separate => unboxed)

(***************************************************************************)
(* The loop.                                                               *)
(***************************************************************************)
\* Mutant: the size is read once, before the loop.
InCachedLoop ==
    IF call.fn \in Backward THEN call.i >= 1 ELSE call.i <= call.n

\* The test of the loop; size - 1 of an empty list is the largest number.
InLoop ==
    CASE call.fn \in Backward -> call.i >= 1
      [] call.fn \in FixedLength ->
            call.i <= call.n /\ (call.fn = "sorted_with" => call.n > 1)
      [] call.fn = "zip_with_next_transform" -> list = <<>> \/ call.i < Len(list)
      [] OTHER -> call.i <= Len(list)

Starts(fn) == [NoCall EXCEPT
    !.fn = fn, !.pc = "loop",
    !.i = IF fn \in Backward THEN Len(list) ELSE 1,
    !.n = IF fn = "zip_transform" /\ Len(other) < Len(list) THEN Len(other) ELSE Len(list)]

\* Bounds: after a miscount, no more calls; and the second list is empty
\* when a function has no use for it.
MayBegin(fn) ==
    /\ Idle /\ past = {}
    /\ fn \in {"zip_transform", "filter_to", "map_to"} \/ other = <<>>

Begin(fn) ==
    /\ MayBegin(fn)
    /\ fn \notin Folding \cup {"get_or_else"}
    /\ fn = "zip_with_next_transform" => Len(list) >= 2
    /\ call' = Starts(fn)
    /\ UNCHANGED <<heap, dataVars, local, past>>

\* A fold starts from an argument, a reduction from the first element.
BeginFold(fn) ==
    /\ MayBegin(fn) /\ fn \in Folding
    /\ fn \in FromSecond => list # <<>> /\ CanGet(heap, list[1])
    /\ LET first == IF fn \in FromSecond THEN Got(heap, list[1]) ELSE local
           h == IF fn \in FromSecond THEN AfterGet(heap, list[1]) ELSE heap
           running == fn \in {"running_fold", "running_reduce"} IN
       /\ first # Nothing
       /\ heap' = Retain(IF running THEN Kept(h, first) ELSE h, first)
       /\ call' = [Starts(fn) EXCEPT !.i = IF fn \in FromSecond THEN 2 ELSE 1,
                                     !.acc = first,
                                     !.out = IF running THEN <<Stored(first)>> ELSE <<>>]
    /\ UNCHANGED <<dataVars, local, past>>

\* An index outside the list: the callback makes the element.
BeginDefault ==
    /\ MayBegin("get_or_else")
    /\ call' = [NoCall EXCEPT !.fn = "get_or_else", !.pc = "calling"]
    /\ UNCHANGED <<heap, dataVars, local, past>>

\* The element to pair with, or what is folded so far.
Partner == IF call.fn = "zip_transform" THEN other[call.i] ELSE list[call.i + 1]
Pairs == call.fn \in {"zip_transform", "zip_with_next_transform"}

Inside ==
    /\ call.i \in DOMAIN list
    /\ call.fn = "zip_transform" => call.i \in DOMAIN other
    /\ call.fn = "zip_with_next_transform" => call.i + 1 \in DOMAIN list
Readable ==
    /\ Inside /\ CanGet(heap, list[call.i])
    /\ Pairs => CanGet(AfterGet(heap, list[call.i]), Partner)

\* The second argument of the callback.
Second(acc) == IF call.fn = "min_by_or_null" THEN Nothing ELSE acc

Invoke ==
    /\ At("loop") /\ InLoop /\ Readable
    /\ LET item == Got(heap, list[call.i])
           h1 == AfterGet(heap, list[call.i])
           acc == IF Pairs THEN Got(h1, Partner) ELSE call.acc
           h2 == IF Pairs THEN AfterGet(h1, Partner) ELSE h1
           h3 == IF KeepsItem THEN Retain(h2, item) ELSE h2 IN
       /\ heap' = Retain(Retain(h3, item), Second(acc))
       /\ call' = [call EXCEPT !.pc = "calling", !.item = item, !.acc = acc]
    /\ UNCHANGED <<dataVars, local, past>>

\* An index or a size from before a callback that the list no longer has.
UsesStale ==
    /\ Undefined("stale")
    /\ UNCHANGED <<heap, dataVars, local>>
\* The pointer to an element that is free.
UsesFreed ==
    /\ Undefined("steal")
    /\ UNCHANGED <<heap, dataVars, local>>

InvokeOutside ==
    /\ At("loop") /\ InLoop /\ call.fn # "chunked_transform"
    /\ ~Inside
    /\ UsesStale

\* A chunk that starts beyond the end of a list the script cut is empty.
InvokeWithNone ==
    /\ At("loop") /\ InLoop /\ call.fn = "chunked_transform"
    /\ call.i \notin DOMAIN list
    /\ call' = [call EXCEPT !.pc = "calling"]
    /\ UNCHANGED <<heap, dataVars, local, past>>

CalleeDone(h) == Release(Release(h, call.item), Second(call.acc))

\* Bound: a list that a function adds to.
Fits == call.fn \in {"filter_to", "map_to"} => Len(other) < MaxLen

OutOfObjects ==
    /\ TooFewCopies
    /\ call' = Stopped
    /\ UNCHANGED <<heap, dataVars, local, past>>

ScriptAnswers ==
    /\ At("calling") /\ call.fn \in Predicates /\ Fits
    /\ \E yes \in BOOLEAN : call' = [call EXCEPT !.pc = "returned", !.yes = yes]
    /\ heap' = CalleeDone(heap)
    /\ UNCHANGED <<dataVars, local, past>>

ScriptReturns ==
    /\ At("calling") /\ call.fn \in Transforms /\ Fits
    /\ \/ \E r \in {call.item, local, Nothing} :
             /\ r = Nothing => call.fn \in Nullable
             /\ heap' = CalleeDone(Retain(heap, r))
             /\ call' = [call EXCEPT !.pc = "returned", !.res = r]
       \/ \E v \in Contents :
             LET r == NewCopy(heap, v) IN
             /\ CanCreate(heap, v)
             /\ heap' = CalleeDone(Retain(Created(heap, r), r))
             /\ call' = [call EXCEPT !.pc = "returned", !.res = r]
    /\ UNCHANGED <<dataVars, local, past>>

ScriptEnds ==
    /\ At("calling") /\ call.fn \in Actions
    /\ heap' = CalleeDone(heap)
    /\ call' = [call EXCEPT !.pc = "returned"]
    /\ UNCHANGED <<dataVars, local, past>>

\* An exception leaves through the native function, which gives up the
\* element and what it folds; a list it was making is left behind.
Abandoned(how) ==
    (IF call.out # <<>> /\ ~(unboxed /\ call.fn # "sorted_by") THEN {"leak"} ELSE {})
    \cup how

ScriptRaises ==
    /\ At("calling")
    /\ LET h == Release(CalleeDone(heap), IF KeepsItem \/ call.fn \in Unkept THEN call.item ELSE Nothing) IN
       heap' = IF call.fn \in Folding \/ Pairs \/ call.fn = "min_by_or_null"
               THEN Release(h, call.acc) ELSE h
    /\ IF call.fn \in Unkept /\ ~unboxed
       THEN Undefined("steal")
       ELSE Records(Abandoned({})) /\ call' = NoCall
    /\ UNCHANGED <<dataVars, local>>

(***************************************************************************)
(* What a function does with an answer.                                    *)
(***************************************************************************)
After(fn) == At("returned") /\ call.fn = fn
Item == call.item
Result == call.res

\* The function gives up its reference to the element.
LetGo(h) == IF KeepsItem \/ call.fn \in Unkept THEN Release(h, Item) ELSE h

Goes(h, changes) ==
    /\ heap' = h
    /\ call' = [changes EXCEPT !.pc = "loop", !.item = Nothing, !.res = Nothing, !.yes = FALSE,
                  !.i = IF call.fn \in Backward THEN @ - 1 ELSE @ + 1]
    /\ UNCHANGED <<dataVars, local>>

NextOne == Goes(LetGo(heap), call) /\ Exactly
Collect ==
    IF Alive(Item)
    THEN Goes(LetGo(Kept(heap, Item)), [call EXCEPT !.out = Append(@, Stored(Item))]) /\ Exactly
    ELSE UsesFreed
AddResult == Goes(Release(Kept(LetGo(heap), Result), Result),
                  [call EXCEPT !.out = Append(@, Stored(Result))])
DropResult == Goes(Release(LetGo(heap), Result), call)

\* It returns a number, a boolean, null or an exception.
Stop(h) ==
    /\ heap' = h /\ call' = NoCall
    /\ UNCHANGED <<dataVars, local>>
Return(h, o) ==
    /\ Returned(h, o) /\ call' = NoCall
    /\ UNCHANGED dataVars
ReturnList(h, s) ==
    /\ ReturnedList(h, s) /\ call' = NoCall
    /\ UNCHANGED <<unboxed, list, capacity, charged, local>>
ReturnElement(h, i) ==
    IF i \in DOMAIN list
    THEN CanGet(h, list[i]) /\ Return(AfterGet(h, list[i]), Got(h, list[i])) /\ Exactly
    ELSE UsesStale

for_each == After("for_each") /\ NextOne
for_each_with_index == for_each
for_each_indexed == for_each_with_index
on_each == After("on_each") /\ NextOne
on_each_indexed == on_each
count_fn == After("count_fn") /\ NextOne

any_fn == After("any_fn") /\ IF call.yes THEN Stop(LetGo(heap)) /\ Exactly ELSE NextOne
none_fn == any_fn
all_fn == After("all_fn") /\ IF call.yes THEN NextOne ELSE Stop(LetGo(heap)) /\ Exactly
index_of_first ==
    After("index_of_first") /\ IF call.yes THEN Stop(LetGo(heap)) /\ Exactly ELSE NextOne
index_of_last ==
    After("index_of_last") /\ IF call.yes THEN Stop(LetGo(heap)) /\ Exactly ELSE NextOne

filter == After("filter") /\ IF call.yes THEN Collect ELSE NextOne
filter_not == After("filter_not") /\ IF call.yes THEN NextOne ELSE Collect
filter_indexed == filter_not
\* The two lists of a partition are one here: it takes every element.
partition == After("partition") /\ Collect
take_while ==
    /\ After("take_while")
    /\ IF call.yes THEN Collect ELSE ReturnList(LetGo(heap), call.out) /\ Exactly
drop_while ==
    /\ After("drop_while")
    /\ IF call.yes THEN NextOne
       ELSE LET rest == Slice(list, call.i - 1, Len(list)) IN
            /\ ReturnList(KeptAll(LetGo(heap), rest), rest)
            /\ Records(IF rest = <<>> THEN {} ELSE {"leak"})
distinct_by ==
    /\ After("distinct_by") /\ Exactly
    /\ \E new \in BOOLEAN :
          Goes(LetGo(IF new THEN Kept(Release(heap, Result), Item) ELSE Release(heap, Result)),
               IF new THEN [call EXCEPT !.out = Append(@, Stored(Item))] ELSE call)

\* A match is returned with the reference that was taken for the call.
find == After("find")
    /\ IF call.yes THEN Return(heap, Item) /\ Records({"leak"}) ELSE NextOne
find_last == After("find_last")
    /\ IF call.yes THEN Return(heap, Item) /\ Records({"leak"}) ELSE NextOne

\* The element is read again.
first_fn == After("first_fn")
    /\ IF call.yes THEN ReturnElement(LetGo(heap), call.i) ELSE NextOne
last_fn == After("last_fn")
    /\ IF call.yes THEN ReturnElement(LetGo(heap), call.i) ELSE NextOne

single_fn == After("single_fn") /\ Exactly
    /\ IF call.yes /\ call.at # 0 THEN Stop(LetGo(heap))
       ELSE Goes(LetGo(heap), IF call.yes THEN [call EXCEPT !.at = call.i] ELSE call)
single_or_null_fn == After("single_or_null_fn") /\ Exactly
    /\ IF call.yes /\ call.at # 0 THEN Return(LetGo(heap), Nothing)
       ELSE Goes(LetGo(heap), IF call.yes THEN [call EXCEPT !.at = call.i] ELSE call)

map == After("map") /\ AddResult /\ Exactly
map_indexed == map
chunked_transform == After("chunked_transform") /\ AddResult /\ Records({"leak"})
windowed_transform == chunked_transform
map_not_null == After("map_not_null") /\ Exactly
    /\ IF Result # Nothing THEN AddResult ELSE DropResult
map_indexed_not_null == map_not_null
\* The inner list of a result has one element or none.
flat_map == After("flat_map") /\ Exactly
    /\ IF Result # Nothing THEN AddResult ELSE DropResult
sum_of == After("sum_of") /\ DropResult /\ Exactly
join_to_string == After("join_to_string") /\ DropResult /\ Exactly
max_of == After("max_of") /\ AddResult /\ Exactly
min_of == max_of

\* The result belongs to the function already, and is retained once more.
first_not_null_of == After("first_not_null_of")
    /\ IF Result # Nothing THEN Return(LetGo(heap), Result) /\ Records({"leak"}) ELSE NextOne
first_not_null_of_or_null == first_not_null_of
get_or_else == After("get_or_else") /\ Return(heap, Result) /\ Records({"leak"})

Folded == [call EXCEPT !.acc = Result]
reduce == After("reduce") /\ Goes(Release(LetGo(heap), call.acc), Folded) /\ Exactly
fold == After("fold") /\ Goes(Release(LetGo(heap), call.acc), Folded) /\ Exactly
reduce_indexed == reduce
fold_indexed == fold

Runs == Goes(Retain(Kept(LetGo(Release(heap, call.acc)), Result), Result),
             [Folded EXCEPT !.out = Append(@, Stored(Result))])
running_fold == After("running_fold") /\ Runs /\ Records({"leak"})
running_reduce == After("running_reduce") /\ Runs /\ Records({"leak"})
running_fold_indexed == running_fold
running_reduce_indexed == running_reduce

min_by_or_null == After("min_by_or_null") /\ Records({"leak"})
    /\ \E better \in BOOLEAN :
          /\ call.i = 1 => better
          /\ IF better
             THEN Goes(Retain(Release(LetGo(heap), call.acc), Result), [Folded EXCEPT !.at = call.i])
             ELSE Goes(Release(LetGo(heap), Result), call)
max_by_or_null == min_by_or_null

\* There is room for as many answers as the list had elements.
sorted_by == After("sorted_by")
    /\ IF call.i > call.n THEN UsesStale
       ELSE /\ Records({"leak"})
            /\ Goes(Retain(LetGo(heap), Result), [call EXCEPT !.out = Append(@, Result)])
sorted_by_descending == sorted_by
then_by == After("then_by")
    /\ IF call.i > call.n THEN UsesStale ELSE DropResult /\ Exactly
then_by_descending == then_by
\* A comparison of two elements counts for each what a call with one does.
sorted_with == After("sorted_with") /\ NextOne

filter_to ==
    /\ After("filter_to") /\ Exactly
    /\ heap' = LetGo(IF call.yes THEN Kept(heap, Item) ELSE heap)
    /\ other' = IF call.yes THEN Append(other, Stored(Item)) ELSE other
    /\ call' = [call EXCEPT !.pc = "loop", !.item = Nothing, !.yes = FALSE, !.i = @ + 1]
    /\ UNCHANGED <<unboxed, list, capacity, charged, local>>
map_to ==
    /\ After("map_to") /\ Exactly
    /\ heap' = Release(Kept(LetGo(heap), Result), Result)
    /\ other' = Append(other, Stored(Result))
    /\ call' = [call EXCEPT !.pc = "loop", !.item = Nothing, !.res = Nothing, !.i = @ + 1]
    /\ UNCHANGED <<unboxed, list, capacity, charged, local>>

\* An index the list no longer has raises in remove, which the function sees
\* after the next callback (at is set).
remove_all_fn == After("remove_all_fn")
    /\ IF call.at # 0 THEN Stop(LetGo(heap)) /\ Exactly
       ELSE IF ~call.yes THEN NextOne
       ELSE IF call.i \notin DOMAIN list
       THEN Goes(LetGo(heap), [call EXCEPT !.at = call.i]) /\ Records({"leak"})
       ELSE /\ list' = RemoveAt(list, call.i)
            /\ heap' = Dropped(LetGo(heap), list[call.i])
            /\ capacity' = AfterRemove(Len(list) - 1)
            /\ charged' = Charge(capacity' - capacity)
            /\ call' = [call EXCEPT !.pc = "loop", !.item = Nothing, !.yes = FALSE, !.i = @ - 1]
            /\ Records({"leak"})
            /\ UNCHANGED <<unboxed, other, local>>

\* An element is released that the function has not retained.
Steals ==
    IF unboxed THEN AddResult /\ Exactly
    ELSE /\ heap' = Release(Kept(LetGo(Release(heap, IF Pairs THEN call.acc ELSE Nothing)), Result), Result)
         /\ Undefined("steal")
         /\ UNCHANGED <<dataVars, local>>
zip_transform == After("zip_transform") /\ Steals
zip_with_next_transform == After("zip_with_next_transform") /\ Steals
flat_map_indexed == After("flat_map_indexed") /\ Steals

(***************************************************************************)
(* The loop is over.                                                       *)
(***************************************************************************)
Ends(fns) == At("loop") /\ ~InLoop /\ call.fn \in fns

Makers == {"filter", "filter_not", "take_while", "partition", "distinct_by",
           "map", "map_not_null", "flat_map",
           "chunked_transform"} \cup Unkept
EndWithList == Ends(Makers) /\ ReturnList(heap, call.out) /\ Exactly
\* What a callback has added is behind the size the list had.
EndWithRest ==
    /\ Ends({"drop_while"})
    /\ LET rest == Slice(list, call.n, Len(list)) IN
       /\ ReturnList(KeptAll(heap, rest), rest)
       /\ Records(IF rest = <<>> THEN {} ELSE {"leak"})

\* A list that the program has already is retained for a caller who does
\* not expect it.
EndWithOther ==
    /\ Ends({"filter_to", "map_to"})
    /\ Stop(KeptAll(heap, other))
    /\ Records(Unless(unboxed \/ other = <<>>, "leak"))

EndWithNull ==
    /\ Ends({"find", "find_last", "first_not_null_of"})
    /\ Return(heap, Nothing) /\ Exactly

\* A number, a boolean, or an exception because nothing matched.
EndWithValue ==
    /\ Ends(Actions \cup {"any_fn", "all_fn", "count_fn", "index_of_first",
                         "index_of_last", "first_fn", "last_fn", "sum_of",
                         "join_to_string", "remove_all_fn"})
    /\ Stop(heap) /\ Exactly

EndWithMatch ==
    /\ Ends({"single_fn", "single_or_null_fn"})
    /\ IF call.at # 0 THEN ReturnElement(heap, call.at)
       ELSE /\ IF call.fn = "single_fn" THEN Stop(heap) ELSE Return(heap, Nothing)
            /\ Exactly

\* The function's own reference to the result is given up uncounted: the
\* object stays for the caller even if nobody else holds it.
EndWithFolded ==
    /\ Ends({"reduce", "fold"}) /\ Exactly
    /\ Return([heap EXCEPT ![call.acc] = @ - 1], call.acc)
EndWithRunning ==
    /\ Ends({"running_fold", "running_reduce"}) /\ Exactly
    /\ ReturnList(Release(heap, call.acc), call.out)

EndWithBest ==
    /\ Ends({"min_by_or_null"})
    /\ IF call.at = 0 THEN Return(heap, Nothing) /\ Exactly
       ELSE ReturnElement(Release(heap, call.acc), call.at)

StopStolen(h) ==
    /\ heap' = h
    /\ Undefined("steal")
    /\ UNCHANGED <<dataVars, local>>

\* The largest result, after the list of the results is released.
EndWithLargest ==
    /\ Ends({"max_of"})
    /\ IF call.out = <<>> THEN Return(heap, Nothing) /\ Exactly
       ELSE \E n \in DOMAIN call.out :
              LET x == call.out[n]
                  h == DroppedAll(heap, call.out) IN
              IF unboxed
              THEN CanGet(h, x) /\ Return(AfterGet(h, x), Got(h, x)) /\ Exactly
              ELSE IF h[x] = Dead THEN StopStolen(h) ELSE Return(h, x) /\ Exactly

\* The elements in some order: which, depends on what the script answered.
EndWithOrder ==
    /\ Ends(Sorting)
    /\ LET scores == IF call.fn = "sorted_by" THEN call.out ELSE <<>>
           h == ReleaseAll(heap, scores)
           items == Take(list, call.n) IN
       IF call.n > Len(list) THEN UsesStale
       ELSE IF unboxed \/ list = <<>>
       THEN \E s \in Orders(items) : ReturnList(h, s) /\ Exactly
       ELSE StopStolen(FoldLeft(Twice, h, items))

(***************************************************************************)
(* The whole.                                                              *)
(***************************************************************************)
Answered ==
    \/ for_each  \/ on_each \/ count_fn \/ any_fn 
    \/ all_fn \/ index_of_first \/ index_of_last \/ filter \/ filter_not
    \/ partition \/ take_while \/ drop_while \/ distinct_by \/ find \/ find_last
    \/ first_fn \/ last_fn \/ single_fn \/ single_or_null_fn \/ map \/ chunked_transform \/ map_not_null \/ flat_map \/ sum_of
    \/ join_to_string \/ max_of \/ first_not_null_of \/ get_or_else \/ reduce
    \/ fold \/ running_fold \/ running_reduce \/ min_by_or_null \/ sorted_by
    \/ then_by \/ sorted_with \/ filter_to \/ map_to \/ remove_all_fn
    \/ zip_transform \/ zip_with_next_transform \/ flat_map_indexed

Ended ==
    \/ EndWithList \/ EndWithRest \/ EndWithOther \/ EndWithNull \/ EndWithValue
    \/ EndWithMatch \/ EndWithFolded \/ EndWithRunning \/ EndWithBest
    \/ EndWithLargest \/ EndWithOrder

Script == ScriptAnswers \/ ScriptReturns \/ ScriptEnds \/ ScriptRaises

Next ==
    \/ \E fn \in Functions : Begin(fn) \/ BeginFold(fn)
    \/ BeginDefault
    \/ Invoke \/ InvokeOutside \/ InvokeWithNone \/ OutOfObjects \/ Script \/ Answered \/ Ended
    \/ Direct

Spec == Init /\ [][Next]_listVars

(***************************************************************************)
(* Properties.                                                             *)
(***************************************************************************)
\* The references to o that the lists, the variable, the script that runs
\* and the native function that waits for it have.
Owned(o) ==
    LET held(s) == IF unboxed THEN 0 ELSE Occurrences(o, s) IN
    held(list) + held(other) + One(local = o)
    + (IF call.fn = "sorted_by" THEN Occurrences(o, call.out) ELSE held(call.out))
    + One(call.pc = "calling" /\ call.item = o)
    + One(call.pc = "calling" /\ Second(call.acc) = o)
    + One(call.pc \in {"calling", "returned"} /\ KeepsItem /\ call.item = o)
    + One(call.pc = "returned" /\ call.res = o)
    + One(call.fn \in Folding \cup {"min_by_or_null"} /\ call.acc = o)

\* No object is freed while somebody has it: whatever the script does to the
\* list while a native loop stands still, the count of an object is never
\* less than the references to it.
NeverFreedEarly == Sound(Owned)

\* And no object stays when the last reference is gone, unless a function
\* known to leave counts behind has run.
NothingLeaked == Tight(Owned)

\* Whatever the script does to the list while a native function waits, the
\* function uses an index or a size the list does not have only if it is one
\* of these, and only if a callback of this same call has made the list
\* shorter; or longer, for the two that have room for as many answers as
\* there were elements.  The others look at the list again after each callback.
MayLosePlace ==
    Backward \cup Sorting
    \cup {"join_to_string", "zip_transform", "zip_with_next_transform",
          "first_fn", "single_fn", "single_or_null_fn", "min_by_or_null"}
HaveRoom == {"sorted_by", "then_by"}
StaleOnlyIfMoved ==
    "stale" \in past' \ past =>
        \/ "shrunk" \in call.moved /\ call.fn \in MayLosePlace
        \/ "grown" \in call.moved /\ call.fn \in HaveRoom

\* The list is inside its storage.  The memory counter is what the storage was
\* charged, as long as no function has changed it without a charge.
ChargeIsCapacity ==
    /\ Len(list) <= capacity
    /\ "drift" \notin past /\ call.pc # "stopped" => charged = capacity
=============================================================================
