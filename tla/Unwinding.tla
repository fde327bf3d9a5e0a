------------------------------ MODULE Unwinding ------------------------------
(***************************************************************************)
(* Calls, exceptions and finally bodies in the VM: AVM::resume             *)
(* (src/backend/vm/AVM_run_switch.cpp), the callFunction family (AVM.cpp)  *)
(* and the bytecode TryCatchNode.cpp emits.                                *)
(*                                                                         *)
(* The VM knows only the handler stack allHandlers, the completions in     *)
(* allFinallyStates and the size of the operand stack.  Where a frame is   *)
(* in its code is the field pos, the protected regions around the          *)
(* instruction, outermost first, with the operands h that the code held    *)
(* on entry to each; height is the number of operands the code holds now.  *)
(* A handler's target is the position control jumps to.                    *)
(*                                                                         *)
(* Uses names what the programs of a run do beyond the well structured     *)
(* fragment: "leaveTry" (break or continue out of a protected region),     *)
(* "leaveFinally" (an exception or a jump out of a finally body),          *)
(* "operands" (operands held while an exception above them is caught or a  *)
(* return leaves the function) and "throwAfterCallback" (a native error or *)
(* a limit right after the call of a function object).                     *)
(***************************************************************************)
EXTENDS Naturals, Sequences, FiniteSets, SequencesExt, FiniteSetsExt

CONSTANTS
    MaxFrames,      \* MAX_CALL_FRAME
    MaxRegions,     \* bound: regions the active frames are in
    MaxOperands,    \* bound: operands on the stack
    MaxLoad,        \* bound: frames, handlers and completions together
    ArgCounts,      \* numbers of arguments of the functions
    Uses

ASSUME UnwindingAssumption ==
    /\ MaxFrames \in Nat \ {0}
    /\ MaxRegions \in Nat /\ MaxOperands \in Nat
    /\ MaxLoad \in Nat
    /\ ArgCounts \subseteq Nat
    /\ Uses \subseteq {"leaveTry", "leaveFinally", "operands",
                       "throwAfterCallback"}

VARIABLES
    callFrames,         \* the active frames, the running one last
    exception,          \* CallFrame::exception of every slot of the pool
    notified,           \* the slot notifier->callFrame points at
    allHandlers,        \* data.allHandlers
    allFinallyStates,   \* data.allFinallyStates
    stackSize,          \* operands on the VM's stack
    isFatalException,
    mode                \* where resume() is: see Modes

vars == <<callFrames, exception, notified, allHandlers, allFinallyStates,
          stackSize, isFatalException, mode>>

(***************************************************************************)
(* resume() is at the label resumeCallFrame ("resume"), before an opcode   *)
(* ("opcode"), at LOAD_EXCEPTION, the first of a catch clause ("catch"),   *)
(* or at doneReturnFunction ("done"); a native function runs ("native");   *)
(* the VM has stopped ("halted", "error"), left resume() by a C++          *)
(* exception ("crashed"), or does anything ("undefined").                  *)
(***************************************************************************)
Modes == {"resume", "opcode", "catch", "done", "native", "halted", "error",
          "crashed", "undefined"}

Top == Len(callFrames)
Frame == callFrames[Top]
SetTop(f) == [callFrames EXCEPT ![Top] = f]
At(pos, height) == [Frame EXCEPT !.pos = pos, !.height = height]

(***************************************************************************)
(* Regions and the handlers TryCatchNode::putBytecodes adds for them.      *)
(* Normal completion of the body or a catch of "tryCF" jumps to its        *)
(* REMOVE_FINALLY: "joinF".                                                *)
(***************************************************************************)
Tries == {"try", "tryF", "tryCF"}
Codes == Tries \cup {"catch", "catchF", "joinF", "finally"}
WithFinally == {"tryF", "tryCF", "catchF", "joinF"}
Running == {"opcode", "catch", "native"}

Region(code, h) == [code |-> code, h |-> h]
Target(pos, code) == Append(Front(pos), Region(code, Last(pos).h))
Handler(type, target) == [type |-> type, target |-> target]

\* ADD_FINALLY_BLOCK and ADD_TRY_BLOCK at the head of the region pos ends in.
HandlersOfRegion(pos) ==
    LET code == Last(pos).code
        finally == <<Handler("FINALLY", Target(pos, "finally"))>>
    IN  CASE code = "try" -> <<Handler("CATCH", Target(pos, "catch"))>>
          [] code = "tryCF" ->
                Append(finally, Handler("CATCH", Target(pos, "catchF")))
          [] code \in WithFinally \ {"tryCF"} -> finally
          [] OTHER -> <<>>

HandlersAddedWithoutFinally(pos) == <<Last(HandlersOfRegion(pos))>>
HandlersAdded(pos) == HandlersOfRegion(pos)

\* How many handlers the regions around an instruction have.
CatchDepths(pos) == {d \in DOMAIN pos : pos[d].code \in {"try", "tryCF"}}
HandlerCount(pos) ==
    Cardinality({d \in DOMAIN pos : pos[d].code \in WithFinally})
    + Cardinality(CatchDepths(pos))

\* The handlers hs are those of the regions around pos, outermost first.
AreHandlersAround(hs, pos) ==
    /\ Len(hs) = HandlerCount(pos)
    /\ \A d \in DOMAIN pos :
          LET region == HandlersOfRegion(SubSeq(pos, 1, d))
              below == HandlerCount(SubSeq(pos, 1, d - 1))
          IN  SubSeq(hs, below + 1, below + Len(region)) = region

\* The handlers pushed since frame k was called, up to the call above it.
HandlersOfFrame(k) ==
    SubSeq(allHandlers, callFrames[k].handlerIndex + 1,
           IF k = Top THEN Len(allHandlers) ELSE callFrames[k + 1].handlerIndex)

(***************************************************************************)
(* What a program of the structured fragment may do at a point.            *)
(***************************************************************************)
FinallyDepths(pos) == {d \in DOMAIN pos : pos[d].code = "finally"}

\* Where the active frames are inside of regions, as <<frame, depth>>, and
\* which of two such places is further out.
Places(frames, codes) ==
    UNION {{<<k, d>> : d \in {e \in DOMAIN frames[k].pos : frames[k].pos[e].code \in codes}}
           : k \in DOMAIN frames}
Before(p, q) == p[1] < q[1] \/ (p[1] = q[1] /\ p[2] < q[2])

\* An exception raised here is caught before a running finally is left.
CaughtInside ==
    \A p \in Places(callFrames, {"finally"}) :
        \E q \in Places(callFrames, {"try", "tryCF"}) : Before(p, q)

\* The operands the handler an exception would reach expects on the stack.
HandlerHeight(pos) ==
    LET around == {d \in DOMAIN pos : pos[d].code \in Tries \cup WithFinally}
    IN  IF around = {} THEN 0 ELSE pos[Max(around)].h

HoldsNothingMore ==
    \/ allHandlers = <<>>
    \/ Frame.height = HandlerHeight(Frame.pos)
    \/ "operands" \in Uses

MayRaise ==
    /\ CaughtInside \/ "leaveFinally" \in Uses
    /\ HoldsNothingMore

NotifierMayBeStale == "throwAfterCallback" \in Uses

(***************************************************************************)
(* Frames.  A caller loads argc arguments and calls at once: the           *)
(* arguments are counted in startStackCount and are then popped.           *)
(***************************************************************************)
StartStackCount(argc) == stackSize + argc

NewFrame(argc, value, boundary, native) ==
    [pos |-> <<>>, height |-> 0, startStackCount |-> StartStackCount(argc),
     handlerIndex |-> Len(allHandlers), value |-> value,
     boundary |-> boundary, native |-> native]

NotifiedByCallUnmoved == notified
NotifiedByCall == Top + 1

\* notifier->callFrame moves to the new frame, whose exception is cleared.
PushFrame(f) ==
    /\ callFrames' = Append(callFrames, f)
    /\ exception' = [exception EXCEPT ![Top + 1] = FALSE]
    /\ notified' = NotifiedByCall
    /\ UNCHANGED <<allHandlers, allFinallyStates, stackSize, isFatalException>>

Raise(slot) == exception' = [exception EXCEPT ![slot] = TRUE]

\* AVM::run: the main function's frame, called by nobody.
Init ==
    /\ callFrames = <<[pos |-> <<>>, height |-> 0, startStackCount |-> 0,
                       handlerIndex |-> 0, value |-> FALSE,
                       boundary |-> TRUE, native |-> FALSE]>>
    /\ exception = [s \in 1 .. MaxFrames |-> FALSE]
    /\ notified = 1
    /\ allHandlers = <<>> /\ allFinallyStates = <<>>
    /\ stackSize = 0
    /\ isFatalException = FALSE
    /\ mode = "opcode"

Here == Frame.pos
Inside(codes) == Here # <<>> /\ Last(Here).code \in codes

\* At an opcode of the program's own code, which has none at a "joinF".
AtOpcode == mode = "opcode" /\ ~Inside({"joinF"})

(***************************************************************************)
(* Code of a function: operands and regions.  MaxOperands, MaxRegions and  *)
(* MaxLoad bound the model; the VM's own stack holds 256 operands.         *)
(***************************************************************************)
Load == Top + Len(allHandlers) + Len(allFinallyStates)

Keep == UNCHANGED <<exception, notified, isFatalException>>

PushOperand ==
    /\ AtOpcode
    /\ stackSize < MaxOperands /\ Frame.height < MaxOperands
    /\ stackSize' = stackSize + 1
    /\ callFrames' = SetTop(At(Here, Frame.height + 1))
    /\ Keep /\ UNCHANGED <<allHandlers, allFinallyStates, mode>>

CodePops ==
    /\ AtOpcode
    /\ Frame.height > (IF Here = <<>> THEN 0 ELSE Last(Here).h)

PopOperand ==
    /\ CodePops
    /\ stackSize > 0
    /\ stackSize' = stackSize - 1
    /\ callFrames' = SetTop(At(Here, Frame.height - 1))
    /\ Keep /\ UNCHANGED <<allHandlers, allFinallyStates, mode>>

\* Stack::pop on an empty stack throws out of resume().
OperandUnderflow ==
    /\ CodePops
    /\ stackSize = 0
    /\ mode' = "crashed"
    /\ Keep /\ UNCHANGED <<callFrames, allHandlers, allFinallyStates, stackSize>>

EnterTry(code) ==
    /\ AtOpcode
    /\ SumFunction([k \in 1 .. Top |-> Len(callFrames[k].pos)]) < MaxRegions
    /\ HoldsNothingMore
    /\ LET pos == Append(Here, Region(code, Frame.height))
           added == HandlersAdded(pos)
       IN  /\ Load + Len(added) <= MaxLoad
           /\ callFrames' = SetTop(At(pos, Frame.height))
           /\ allHandlers' = allHandlers \o added
    /\ Keep /\ UNCHANGED <<allFinallyStates, stackSize, mode>>

AtEndOf(codes) ==
    /\ mode = "opcode"
    /\ Inside(codes)
    /\ Frame.height = Last(Here).h

\* REMOVE_TRY_AND_JUMP; the code checks that the frame has a handler.
AfterTry(pos) ==
    IF Last(pos).code = "try" THEN Front(pos) ELSE Target(pos, "joinF")

HandlersWithoutLastKept == allHandlers
HandlersWithoutLast == Front(allHandlers)

RemoveTryAndJump ==
    /\ AtEndOf({"try", "tryCF"})
    /\ Len(allHandlers) > Frame.handlerIndex
    /\ allHandlers' = HandlersWithoutLast
    /\ callFrames' = SetTop(At(AfterTry(Here), Frame.height))
    /\ Keep /\ UNCHANGED <<allFinallyStates, stackSize, mode>>

EndCatch ==
    /\ AtEndOf({"catch"})
    /\ callFrames' = SetTop(At(Front(Here), Frame.height))
    /\ Keep /\ UNCHANGED <<allHandlers, allFinallyStates, stackSize, mode>>

(***************************************************************************)
(* A completion that waits for a finally body to end.  owner and kept are  *)
(* not in the program: the body it belongs to, and whether the value of a  *)
(* return is still on the operand stack (it is when startStackCount has    *)
(* counted arguments).                                                     *)
(***************************************************************************)
FinallyState(reason, target, kept) ==
    [reason |-> reason, owner |-> <<Top, Len(target)>>, kept |-> kept]

PushFinallyState(s) ==
    allFinallyStates' = Append(allFinallyStates, s)

RemoveFinally ==
    /\ AtEndOf({"tryF", "catchF", "joinF"})
    /\ Len(allHandlers) > Frame.handlerIndex
    /\ allHandlers' = HandlersWithoutLast
    /\ LET body == Target(Here, "finally")
       IN  /\ PushFinallyState(FinallyState("NORMAL", body, FALSE))
           /\ callFrames' = SetTop(At(body, Frame.height))
    /\ Keep /\ UNCHANGED <<stackSize, mode>>

\* END_FINALLY: the last completion goes on.
Resumed(state) ==
    CASE state.reason = "NORMAL" -> "opcode"
      [] state.reason = "EXCEPTION" -> "resume"
      [] OTHER -> "done"

ValuesPushed(state) == IF state.reason = "RETURN_VALUE" THEN 1 ELSE 0

StatesLeft == Front(allFinallyStates)

EndFinally ==
    /\ AtEndOf({"finally"})
    /\ allFinallyStates # <<>>
    /\ LET state == Last(allFinallyStates)
       IN  /\ allFinallyStates' = StatesLeft
           /\ mode' = Resumed(state)
           /\ stackSize' = stackSize + ValuesPushed(state)
           /\ exception' = [exception EXCEPT ![Top] = @ \/ state.reason = "EXCEPTION"]
    /\ callFrames' = SetTop(At(Front(Here), Frame.height))
    /\ UNCHANGED <<allHandlers, notified, isFatalException>>

\* back() and pop_back() of an empty vector: what follows is undefined, and
\* the model stops there.
FinallyUnderflow ==
    /\ AtEndOf({"finally"})
    /\ allFinallyStates = <<>>
    /\ mode' = "undefined"
    /\ Keep /\ UNCHANGED <<callFrames, allHandlers, allFinallyStates, stackSize>>

(***************************************************************************)
(* break and continue: SkipNode emits a JUMP and nothing else.  d is the   *)
(* outermost region left.                                                  *)
(***************************************************************************)
MayLeave(code) ==
    CASE code = "catch" -> TRUE
      [] code = "finally" -> "leaveFinally" \in Uses
      [] OTHER -> "leaveTry" \in Uses

Skip(d) ==
    /\ AtOpcode
    /\ d \in DOMAIN Here
    /\ \A e \in d .. Len(Here) : MayLeave(Here[e].code)
    /\ Frame.height = Here[d].h
    /\ callFrames' = SetTop(At(SubSeq(Here, 1, d - 1), Here[d].h))
    /\ Keep /\ UNCHANGED <<allHandlers, allFinallyStates, stackSize, mode>>

(***************************************************************************)
(* Calls.  Every kind of call fails with a fatal error when the frame pool *)
(* is full.  resume() is entered anew for a function object: its frame is  *)
(* a boundary at which that resume() returns.                              *)
(***************************************************************************)
RoomForFrame == Top < MaxFrames

CallOverflow ==
    /\ mode \in {"opcode", "native"}
    /\ ~RoomForFrame
    /\ Raise(notified)
    /\ isFatalException' = TRUE
    /\ mode' = "resume"
    /\ UNCHANGED <<callFrames, notified, allHandlers, allFinallyStates, stackSize>>

\* A call leaves the caller's height; what it returns is added at its end.
CallScript(argc, value, boundary) ==
    /\ AtOpcode
    /\ RoomForFrame
    /\ value => Frame.height < MaxOperands
    /\ HoldsNothingMore
    /\ argc \in ArgCounts
    /\ Load < MaxLoad
    /\ PushFrame(NewFrame(argc, value, boundary, FALSE))
    /\ mode' = "opcode"

CallNative(argc, value) ==
    /\ AtOpcode
    /\ RoomForFrame
    /\ value => Frame.height < MaxOperands
    /\ HoldsNothingMore
    /\ argc \in ArgCounts
    /\ Load < MaxLoad
    /\ PushFrame(NewFrame(argc, value, FALSE, TRUE))
    /\ mode' = "native"

\* ANotifier::callFunctionObject, called by a native function.
NativeCallback(argc, value) ==
    /\ mode = "native"
    /\ RoomForFrame
    /\ argc \in ArgCounts
    /\ Load < MaxLoad
    /\ PushFrame(NewFrame(argc, value, TRUE, FALSE))
    /\ mode' = "opcode"

\* The caller gets a frame's value when the frame is popped.
PopFrame(value) ==
    LET caller == callFrames[Top - 1]
    IN  callFrames' = [Front(callFrames) EXCEPT ![Top - 1].height =
            caller.height + (IF value /\ ~caller.native THEN 1 ELSE 0)]

NativeReturn ==
    /\ mode = "native"
    /\ Frame.value => stackSize < MaxOperands
    /\ stackSize' = stackSize + (IF Frame.value THEN 1 ELSE 0)
    /\ PopFrame(Frame.value)
    /\ notified' = Top - 1
    /\ mode' = "opcode"
    /\ UNCHANGED <<exception, allHandlers, allFinallyStates, isFatalException>>

\* A native error on the running frame; on a stale one it is not noticed.
NativeThrow ==
    /\ mode = "native"
    /\ CaughtInside \/ "leaveFinally" \in Uses
    /\ notified = Top
    /\ Raise(notified)
    /\ mode' = "resume"
    /\ UNCHANGED <<callFrames, notified, allHandlers, allFinallyStates,
                   stackSize, isFatalException>>

NativeThrowUnnoticed ==
    /\ mode = "native"
    /\ NotifierMayBeStale
    /\ notified # Top
    /\ Frame.value => stackSize < MaxOperands
    /\ Raise(notified)
    /\ stackSize' = stackSize + (IF Frame.value THEN 1 ELSE 0)
    /\ PopFrame(Frame.value)
    /\ notified' = Top - 1
    /\ mode' = "opcode"
    /\ UNCHANGED <<allHandlers, allFinallyStates, isFatalException>>

(***************************************************************************)
(* Exceptions raised by an opcode: THROW_EXCEPTION writes the running      *)
(* frame, an operator that fails the frame the notifier points at, and so  *)
(* do the limits tested before an opcode.                                  *)
(***************************************************************************)
Throw ==
    /\ AtOpcode
    /\ MayRaise
    /\ Raise(Top)
    /\ mode' = "resume"
    /\ UNCHANGED <<callFrames, notified, allHandlers, allFinallyStates,
                   stackSize, isFatalException>>

\* An operator that fails: its operands are gone and no result is pushed.
OperatorErrorUnnoticed ==
    /\ AtOpcode
    /\ MayRaise
    /\ NotifierMayBeStale /\ notified # Top
    /\ Frame.height < MaxOperands
    /\ Raise(notified)
    /\ callFrames' = SetTop(At(Here, Frame.height + 1))
    /\ mode' = "resume"
    /\ UNCHANGED <<notified, allHandlers, allFinallyStates, stackSize, isFatalException>>

OperatorError ==
    /\ AtOpcode
    /\ MayRaise
    /\ notified = Top
    /\ Raise(notified)
    /\ mode' = "resume"
    /\ UNCHANGED <<callFrames, notified, allHandlers, allFinallyStates,
                   stackSize, isFatalException>>

LimitExceeded ==
    /\ mode \in {"opcode", "catch"}
    /\ ~isFatalException
    /\ notified = Top \/ NotifierMayBeStale
    /\ Raise(notified)
    /\ isFatalException' = TRUE
    /\ mode' = "resume"
    /\ UNCHANGED <<callFrames, notified, allHandlers, allFinallyStates, stackSize>>

\* LOAD_EXCEPTION and the store into the catch variable.
LoadException ==
    /\ mode = "catch"
    /\ exception' = [exception EXCEPT ![Top] = FALSE]
    /\ mode' = "opcode"
    /\ UNCHANGED <<callFrames, notified, allHandlers, allFinallyStates,
                   stackSize, isFatalException>>

(***************************************************************************)
(* The label resumeCallFrame, with an exception pending.  A fatal one      *)
(* first drops the frame's handlers.                                       *)
(***************************************************************************)
FrameHasHandler == Len(allHandlers) > Frame.handlerIndex
MayHandleFatal == FrameHasHandler
MayHandle == FrameHasHandler /\ ~isFatalException

Pending == mode = "resume" /\ exception[Top]

UnwindToCatch ==
    /\ Pending /\ MayHandle
    /\ Last(allHandlers).type = "CATCH"
    /\ LET target == Last(allHandlers).target
       IN  callFrames' = SetTop(At(target, Last(target).h))
    /\ allHandlers' = Front(allHandlers)
    /\ notified' = Top
    /\ mode' = "catch"
    /\ UNCHANGED <<exception, allFinallyStates, stackSize, isFatalException>>

UnwindToFinally ==
    /\ Pending /\ MayHandle
    /\ Last(allHandlers).type = "FINALLY"
    /\ LET target == Last(allHandlers).target
       IN  /\ callFrames' = SetTop(At(target, Last(target).h))
           /\ PushFinallyState(FinallyState("EXCEPTION", target, FALSE))
    /\ allHandlers' = Front(allHandlers)
    /\ exception' = [exception EXCEPT ![Top] = FALSE]
    /\ notified' = Top
    /\ mode' = "opcode"
    /\ UNCHANGED <<stackSize, isFatalException>>

\* No handler in this frame: its operands go, and the caller gets the error.
HandlersLeft == SubSeq(allHandlers, 1, Frame.handlerIndex)
FramesLeftAll == callFrames
FramesLeft == Front(callFrames)

UnwindFrame ==
    /\ Pending /\ ~MayHandle
    /\ allHandlers' = HandlersLeft
    /\ stackSize' = Min({stackSize, Frame.startStackCount})
    /\ callFrames' = FramesLeft
    /\ IF Top = 1
       THEN mode' = "error" /\ exception' = exception
       ELSE mode' = "resume" /\ Raise(Top - 1)
    /\ UNCHANGED <<notified, allFinallyStates, isFatalException>>

Continue ==
    /\ mode = "resume" /\ ~exception[Top]
    /\ notified' = Top
    /\ mode' = "opcode"
    /\ UNCHANGED <<callFrames, exception, allHandlers, allFinallyStates,
                   stackSize, isFatalException>>

(***************************************************************************)
(* RETURN, RETURN_VALUE and the end of the code: the frame's operands are  *)
(* trimmed, then the finally bodies of the frame run, innermost first.     *)
(***************************************************************************)
Return ==
    /\ AtOpcode
    /\ Frame.height = 0 \/ "operands" \in Uses
    /\ FinallyDepths(Here) = {} \/ "leaveFinally" \in Uses
    /\ Frame.value => stackSize < MaxOperands
    /\ stackSize' = Min({stackSize, Frame.startStackCount})
                    + (IF Frame.value THEN 1 ELSE 0)
    /\ callFrames' = SetTop(At(Here, 0))
    /\ mode' = "done"
    /\ Keep /\ UNCHANGED <<allHandlers, allFinallyStates>>

Finals == {i \in Frame.handlerIndex + 1 .. Len(allHandlers) :
              allHandlers[i].type = "FINALLY"}
NextFinalOutermost == Min(Finals)
NextFinal == Max(Finals)

ReturnThroughFinally ==
    /\ mode = "done" /\ Finals # {}
    /\ LET target == allHandlers[NextFinal].target
           saved == stackSize > Frame.startStackCount
       IN  /\ callFrames' = SetTop(At(target, Last(target).h))
           /\ stackSize' = IF saved THEN stackSize - 1 ELSE stackSize
           /\ PushFinallyState(FinallyState(
                  IF saved THEN "RETURN_VALUE" ELSE "RETURN_VOID", target,
                  Frame.value /\ ~saved))
    /\ allHandlers' = SubSeq(allHandlers, 1, NextFinal - 1)
    /\ mode' = "resume"
    /\ Keep

ReturnToCaller ==
    /\ mode = "done" /\ Finals = {}
    /\ Top > 1
    /\ LET caller == callFrames[Top - 1]
           taken == Frame.value /\ caller.native  \* by callFunctionObject
       IN  /\ stackSize' = stackSize - (IF taken THEN 1 ELSE 0)
           /\ mode' = CASE ~Frame.boundary -> "resume"
                        [] caller.native -> "native"
                        [] OTHER -> "opcode"
    /\ PopFrame(Frame.value)
    /\ allHandlers' = HandlersLeft
    /\ Keep /\ UNCHANGED allFinallyStates

Halt ==
    /\ mode = "done" /\ Finals = {}
    /\ Top = 1
    /\ callFrames' = <<>>
    /\ allHandlers' = HandlersLeft
    /\ mode' = "halted"
    /\ Keep /\ UNCHANGED <<allFinallyStates, stackSize>>

Stopped == mode \in {"halted", "error", "crashed", "undefined"} /\ UNCHANGED vars

Execute ==
    \/ PushOperand \/ PopOperand \/ OperandUnderflow
    \/ \E code \in Tries : EnterTry(code)
    \/ RemoveTryAndJump \/ EndCatch \/ RemoveFinally \/ EndFinally
    \/ FinallyUnderflow
    \/ \E d \in 1 .. MaxRegions : Skip(d)
    \/ \E argc \in ArgCounts, value \in BOOLEAN, boundary \in BOOLEAN :
           CallScript(argc, value, boundary)
    \/ \E argc \in ArgCounts, value \in BOOLEAN :
           CallNative(argc, value) \/ NativeCallback(argc, value)
    \/ CallOverflow \/ NativeReturn \/ NativeThrow \/ NativeThrowUnnoticed
    \/ Throw \/ OperatorError \/ OperatorErrorUnnoticed
    \/ LimitExceeded \/ LoadException \/ Return

Unwind ==
    \/ UnwindToCatch \/ UnwindToFinally \/ UnwindFrame \/ Continue
    \/ ReturnThroughFinally \/ ReturnToCaller \/ Halt

Next == Execute \/ Unwind \/ Stopped

Spec == Init /\ [][Next]_vars /\ WF_vars(Unwind)

------------------------------------------------------------------------------

\* The handlers of every frame are those of the regions around its
\* instruction, in order: nothing that break, return or an exception left
\* behind, nothing lost.
HandlersMatchCode ==
    mode \in Running =>
        \A k \in 1 .. Top : AreHandlersAround(HandlersOfFrame(k), callFrames[k].pos)

\* Every finally body that is being executed has its own completion waiting,
\* in order.
FinallyStatesMatchCode ==
    mode \in Running =>
        /\ {s.owner : s \in ToSet(allFinallyStates)} = Places(callFrames, {"finally"})
        /\ \A i, j \in DOMAIN allFinallyStates : i < j =>
              Before(allFinallyStates[i].owner, allFinallyStates[j].owner)

\* The operand stack holds what the code of the active frames put there, and
\* the values of returns that wait for a finally body: exceptions, returns
\* and jumps leave nothing behind and take nothing away.
OperandsHeld == SumFunction([k \in 1 .. Top |-> callFrames[k].height])
ValuesKept == Cardinality({i \in DOMAIN allFinallyStates : allFinallyStates[i].kept})

StackMatchesCode == mode \in Running => stackSize = OperandsHeld + ValuesKept

\* Operands, handlers and completions are all three those of the code, at
\* every opcode: the machine unwinds its three stacks together.
StacksMatchCode == StackMatchesCode /\ HandlersMatchCode /\ FinallyStatesMatchCode

\* An exception is raised in the frame that runs: never in one that has
\* returned, where nobody would see it.
ThrowsReachTheirFrame ==
    [][\A s \in 1 .. MaxFrames :
          exception'[s] /\ ~exception[s] => s = Len(callFrames') \/ mode' = "error"]_vars

\* After a limit was exceeded no opcode is executed: no catch or finally of
\* the program sees it.
FatalIsFinal == isFatalException => mode \in {"resume", "error"}

\* The assertions on the handler stack hold in every program, whatever breaks
\* and exceptions left on it: a region that ends has a handler to remove, and
\* a catch clause an exception to load.
HandlerAssertsHold ==
    /\ AtEndOf(Tries \cup WithFinally) => Len(allHandlers) > Frame.handlerIndex
    /\ mode = "catch" => exception[Top]

\* However stale the notifier is after a call of a function object, the fatal
\* error of a call that finds the frame pool full is raised in the frame that
\* makes the call.
OverflowReachesCaller ==
    mode \in {"opcode", "native"} /\ ~RoomForFrame => notified = Top

\* Unwinding and returning come to an end.
UnwindingEnds == mode \in {"resume", "done"} ~> mode \notin {"resume", "done"}

(***************************************************************************)
(* The VM implements try, catch and finally as the language has them.      *)
(***************************************************************************)
Completion(reason) ==
    CASE reason = "EXCEPTION" -> "raise"
      [] reason \in {"RETURN_VALUE", "RETURN_VOID"} -> "return"
      [] OTHER -> "normal"

Interrupted(k, d) ==
    LET own == {i \in DOMAIN allFinallyStates : allFinallyStates[i].owner = <<k, d>>}
    IN  IF own = {} THEN "normal" ELSE Completion(allFinallyStates[Max(own)].reason)

CallsOfFrames ==
    [k \in 1 .. Top |-> [d \in DOMAIN callFrames[k].pos |->
        LET code == callFrames[k].pos[d].code
        IN  [code |-> IF code = "joinF" THEN "tryCF" ELSE code,
             then |-> IF code = "finally" THEN Interrupted(k, d) ELSE "normal"]]]

Status ==
    CASE mode = "halted" -> "ended"
      [] mode = "error" -> "failed"
      [] mode = "done" -> "returning"
      [] mode = "resume" /\ exception[Top] -> "raising"
      [] OTHER -> "running"

TCF == INSTANCE TryCatchFinally WITH
           MaxCalls <- MaxFrames, calls <- CallsOfFrames,
           status <- Status, fatal <- isFatalException

ImplementsTryCatchFinally == TCF!Spec
==============================================================================
