----------------------------- MODULE NativeCalls -----------------------------
(***************************************************************************)
(* A program that calls native functions of the standard library: the      *)
(* variable it keeps objects in, the call that stands still while a        *)
(* callback runs (ANotifier::callFunctionObject), and what it makes of     *)
(* results.                                                                *)
(*                                                                         *)
(* While a callback runs (call.pc = "calling") the script may use the      *)
(* collection; then it only uses what is marked Running.                   *)
(*                                                                         *)
(* past remembers what the miscounting functions called so far did:        *)
(*   "leak"   it leaves an object a count that nobody will give up, or a   *)
(*            box (not in the heap here) that nobody has                   *)
(*   "steal"  it gives up a count it does not own, or uses an object it    *)
(*            has freed; what follows is not defined, and the run stops    *)
(*   "drift"  it changes a size and not the memory counter                 *)
(*   "stale"  it uses an index, a size or a position from before a callback *)
(*            that the collection no longer has; again the run stops       *)
(***************************************************************************)
EXTENDS Heap

VARIABLES
    local,          \* an object the program holds
    call,           \* the native function that is running a callback
    past            \* what the miscounting functions called so far did

\* fn is at element i of a loop over n; it called the script with item (and
\* acc), which answered yes or with res; it has found at and collected out.
\* moved: whether a callback of it has grown or shrunk the collection.
NoCall == [fn |-> "none", pc |-> "idle", i |-> 0, n |-> 0, at |-> 0,
           item |-> Nothing, acc |-> Nothing, res |-> Nothing, yes |-> FALSE,
           out |-> <<>>, moved |-> {}]
Stopped == [NoCall EXCEPT !.pc = "stopped"]

Idle == call.pc = "idle"
Running == call.pc \in {"idle", "calling"}
At(pc) == call.pc = pc

\* The collection gets longer or shorter, perhaps in a callback.
Moves(how) == call' = IF At("calling") THEN [call EXCEPT !.moved = @ \cup {how}] ELSE call
Grows == Moves("grown")
Shrinks == Moves("shrunk")

\* Bound: one miscount in a run, but leaks may follow a leak, and a function
\* that has begun does what it does.
Records(how) == past' = past \cup how
Miscounts(how) == (past \subseteq {"leak"} \cap how \/ how = {}) /\ Records(how)
Exactly == Miscounts({})

\* What follows is not defined.
Undefined(how) == call' = Stopped /\ Records({how})
Unless(exact, how) == IF exact THEN {} ELSE {how}

\* addManagedMemory: the memory counter does not go below zero.
Counter(n) == IF n < 0 THEN 0 ELSE n

\* A native function returns an object: the interpreter retains it into the
\* variable that takes the result.
Returned(h, o) ==
    /\ local' = o
    /\ heap' = Assigned(h, o, local)

\* The program makes an object, or forgets the one it has.
NewObject(v) ==
    /\ Running /\ CanCreate(heap, v)
    /\ Returned(Created(heap, NewCopy(heap, v)), NewCopy(heap, v))
    /\ UNCHANGED <<call, past>>

Forget ==
    /\ Running /\ local # Nothing
    /\ Returned(heap, Nothing)
    /\ UNCHANGED <<call, past>>

Begun ==
    /\ heap = [o \in Objects |-> Dead]
    /\ local = Nothing /\ call = NoCall /\ past = {}
BegunAgain ==
    /\ heap' = [o \in Objects |-> Dead]
    /\ local' = Nothing /\ call' = NoCall /\ past' = {}

\* Bound: the program reaches its memory limit when fewer than two copies of a
\* value are left for the boxes a function makes.
TooFewCopies ==
    /\ call.pc \in {"loop", "returned"}
    /\ \E v \in Contents : Cardinality(Free(heap, v)) < 2

\* Sound: nothing that somebody has is freed.  Tight: nothing else stays.
Sound(Owned(_)) ==
    "steal" \notin past /\ ~At("stopped") =>
        \A o \in Objects : Owned(o) > 0 => heap[o] >= Owned(o)
Tight(Owned(_)) ==
    past \cap {"steal", "leak"} = {} /\ ~At("stopped") =>
        \A o \in Objects : heap[o] = IF Owned(o) = 0 THEN Dead ELSE Owned(o)
=============================================================================
