--------------------------- MODULE StructuredProofs ---------------------------
(***************************************************************************)
(* Programs that neither leave a protected region by a jump nor raise out  *)
(* of a finally body, hold no operands across a catch and see no stale     *)
(* notifier (Uses = {}): the operands, the handlers and the completions    *)
(* are those of the code at every opcode.  The inductive invariant,        *)
(* StructuredInv, says which handlers those are, frame by frame; what a    *)
(* region remembers of the operands and of its caller; and why each        *)
(* completion still finds the body that will end with it.  From it follows *)
(* that the VM implements TryCatchFinally: CallsOf reads the calls and the *)
(* regions around their instructions, with what each finally body will do, *)
(* from the frames and the completions, and each step of the VM is a step  *)
(* of that specification or leaves it alone.                               *)
(***************************************************************************)
EXTENDS UnwindingProofs

(***************************************************************************)
(* The running frame moves within its code.                                *)
(***************************************************************************)
Good ==
    /\ AnyProgramInv /\ Live /\ ModeFits
    /\ Matched(callFrames, allHandlers, allFinallyStates)

(* The running frame and the types of what is around it.                   *)
LEMMA GoodFrames ==
    ASSUME Good
    PROVE  /\ callFrames \in Seq(Frames) /\ Top = Len(callFrames) /\ Top \in Nat \ {0}
           /\ Top \in 1 .. Top /\ Top <= MaxFrames
           /\ Frame \in Frames /\ Frame = callFrames[Len(callFrames)]
           /\ Here = Frame.pos /\ Here \in Positions /\ Len(Here) \in Nat
           /\ Frame.height \in Nat /\ Frame.startStackCount \in Int
           /\ Frame.handlerIndex \in Nat /\ Len(allHandlers) \in Nat
           /\ Frame.handlerIndex <= Len(allHandlers)
           /\ Frame.value \in BOOLEAN /\ Frame.native \in BOOLEAN
           /\ allFinallyStates \in Seq(Completions) /\ stackSize \in Int
           /\ allHandlers \in Seq(Handlers)
           /\ exception \in [1 .. MaxFrames -> BOOLEAN]
           /\ Marks(callFrames, allHandlers)
           /\ Exact(allHandlers, Frame.handlerIndex, Len(allHandlers), Here)
           /\ Len(allHandlers) = Frame.handlerIndex + HandlerCount(Here)
           /\ HeightsRise(Here, Frame.height) /\ HeightsFit(Frame.handlerIndex, Here)
           /\ Frame.native => Here = <<>> /\ Frame.height = 0
  <1>1. /\ TypeOK /\ HandlersSuffice /\ Top > 0
    BY DEF Good, AnyProgramInv, FramesInv, Live
  <1>2. /\ callFrames \in Seq(Frames) /\ Top = Len(callFrames) /\ Top \in Nat \ {0}
        /\ Top \in 1 .. Top /\ Top <= MaxFrames
        /\ Frame \in Frames /\ Frame = callFrames[Len(callFrames)]
        /\ allFinallyStates \in Seq(Completions) /\ stackSize \in Int
        /\ allHandlers \in Seq(Handlers) /\ exception \in [1 .. MaxFrames -> BOOLEAN]
    BY <1>1, TopIsRunning DEF TypeOK, Top, Frame
  <1>3. /\ Frame.handlerIndex \in Nat /\ Len(allHandlers) \in Nat
        /\ Frame.handlerIndex <= Len(allHandlers)
        /\ Frame.pos \in Positions
    BY <1>1, TopSuffices
  <1>4. /\ Here = Frame.pos /\ Len(Here) \in Nat /\ Frame.height \in Nat
        /\ Frame.startStackCount \in Int /\ Frame.value \in BOOLEAN /\ Frame.native \in BOOLEAN
    BY <1>2, FrameTypes DEF Here
  <1>5. Marks(callFrames, allHandlers)
    <2>1. \A k \in 1 .. Top : callFrames[k].handlerIndex \in Nat
      BY <1>2, FrameTypes
    <2> QED BY <1>1, <1>2, <1>3, <2>1, MarksRise DEF Marks, Top
  <1>6. Exact(allHandlers, Frame.handlerIndex, Len(allHandlers), Here)
    BY <1>2, <1>4 DEF Good, Matched, HandlersExact, EndOf
  <1>7. FrameFits(Frame)
    BY <1>2 DEF Good, Matched, FramesFit
  <1> QED BY <1>2, <1>3, <1>4, <1>5, <1>6, <1>7 DEF FrameFits, Exact

(* The running frame goes to p, with h operands, and the handlers are those *)
(* of the regions around p.                                                *)
Moving(p, h) ==
    /\ p \in Positions /\ h \in Nat /\ callFrames' = SetTop(At(p, h))
    /\ ~Frame.native /\ HeightsRise(p, h) /\ HeightsFit(Frame.handlerIndex, p)
    /\ \A i \in 1 .. Frame.handlerIndex : allHandlers'[i] = allHandlers[i]
    /\ Exact(allHandlers', Frame.handlerIndex, Len(allHandlers'), p)

(* After a move the running frame is where it moved to.                    *)
LEMMA MovedTop ==
    ASSUME Good, NEW p, NEW h, Moving(p, h)
    PROVE  /\ MovesTo(callFrames, callFrames', At(p, h))
           /\ At(p, h).pos = p /\ At(p, h).height = h
           /\ At(p, h).handlerIndex = Frame.handlerIndex /\ At(p, h).native = Frame.native
           /\ At(p, h).value = Frame.value
           /\ Top' = Top /\ Frame' = At(p, h) /\ Here' = p
  <1> DEFINE f == At(p, h)
  <1>1. /\ callFrames \in Seq(Frames) /\ Top = Len(callFrames) /\ Top \in Nat \ {0}
        /\ Frame \in Frames /\ Frame = callFrames[Len(callFrames)] /\ Top \in 1 .. Top
    BY GoodFrames
  <1>2. p \in Positions /\ h \in Nat /\ callFrames' = SetTop(f)
    BY DEF Moving
  <1>3. /\ f \in Frames /\ SameCall(f, Frame) /\ f.pos = p /\ f.height = h
    BY <1>1, <1>2 DEF At, Frames, SameCall
  <1> HIDE DEF f
  <1>4. /\ callFrames' \in Seq(Frames) /\ Len(callFrames') = Len(callFrames)
        /\ \A k \in 1 .. Top : callFrames'[k] = IF k = Top THEN f ELSE callFrames[k]
    BY <1>1, <1>2, <1>3, ExceptSeq DEF SetTop
  <1>5. MovesTo(callFrames, callFrames', f)
    BY <1>1, <1>3, <1>4 DEF MovesTo
  <1>6. Top' = Top /\ Frame' = f
    BY <1>1, <1>4 DEF Top, Frame
  <1>7. Here' = p
    BY <1>3, <1>6 DEF Here
  <1> QED BY <1>3, <1>5, <1>6, <1>7 DEF f, SameCall

(* A move keeps the handlers and the heights of all frames.                *)
LEMMA MovedHandlers ==
    ASSUME Good, NEW p, NEW h, Moving(p, h)
    PROVE  HandlersExact(callFrames', allHandlers') /\ FramesFit(callFrames')
  <1> DEFINE f == At(p, h)
  <1>1. /\ MovesTo(callFrames, callFrames', f) /\ f.pos = p /\ f.height = h
        /\ f.handlerIndex = Frame.handlerIndex /\ f.native = Frame.native
    BY MovedTop
  <1>2. /\ Marks(callFrames, allHandlers) /\ HandlersExact(callFrames, allHandlers)
        /\ FramesFit(callFrames)
    BY GoodFrames DEF Good, Matched
  <1>3. /\ \A i \in 1 .. f.handlerIndex : allHandlers'[i] = allHandlers[i]
        /\ Exact(allHandlers', f.handlerIndex, Len(allHandlers'), f.pos)
        /\ FrameFits(f)
    BY <1>1 DEF Moving, FrameFits
  <1> HIDE DEF f
  <1>4. HandlersExact(callFrames', allHandlers')
    BY <1>1, <1>2, <1>3, MoveKeepsHandlers
  <1>5. FramesFit(callFrames')
    BY <1>1, <1>2, <1>3, MoveKeepsHeights
  <1> QED BY <1>4, <1>5

(* No finally body is entered or left.                                     *)
LEMMA MovedMatched ==
    ASSUME Good, NEW p, NEW h, Moving(p, h), NEW m, Common(Here, p, m),
           NoneBeyond(Here, m), NoneBeyond(p, m), UNCHANGED allFinallyStates
    PROVE  /\ Matched(callFrames', allHandlers', allFinallyStates')
           /\ Held(callFrames) \in Int /\ Held(callFrames') \in Int
           /\ Held(callFrames') = Held(callFrames) - Frame.height + h
  <1> DEFINE f == At(p, h)
             n == Len(callFrames)
  <1>1. /\ MovesTo(callFrames, callFrames', f) /\ f.pos = p /\ f.height = h
    BY MovedTop
  <1>2. /\ HandlersExact(callFrames', allHandlers') /\ FramesFit(callFrames')
    BY MovedHandlers
  <1>3. /\ StatesExact(callFrames, allFinallyStates) /\ StartsFit(callFrames, allFinallyStates)
        /\ Here = callFrames[n].pos /\ Frame = callFrames[n]
    BY GoodFrames DEF Good, Matched
  <1> HIDE DEF f
  <1>4. StatesExact(callFrames', allFinallyStates)
    <2>1. Common(callFrames[n].pos, f.pos, m) /\ NoneBeyond(callFrames[n].pos, m)
          /\ NoneBeyond(f.pos, m)
      BY <1>1, <1>3
    <2> QED BY <1>1, <1>3, <2>1, MoveKeepsStates
  <1>5. /\ StartsFit(callFrames', allFinallyStates)
        /\ HeldBelow(callFrames, n) \in Int /\ f.height \in Nat /\ callFrames[n].height \in Nat
        /\ Held(callFrames) = HeldBelow(callFrames, n) + callFrames[n].height
        /\ Held(callFrames') = HeldBelow(callFrames, n) + f.height
    BY <1>1, <1>3, MovedOperands
  <1>6. /\ Held(callFrames) \in Int /\ Held(callFrames') \in Int
        /\ Held(callFrames') = Held(callFrames) - Frame.height + h
    BY <1>1, <1>3, <1>5
  <1> QED BY <1>2, <1>4, <1>5, <1>6 DEF Matched

(* A finally body is entered.                                              *)
LEMMA MovedInto ==
    ASSUME Good, NEW p, NEW h, Moving(p, h), NEW m, Common(Here, p, m),
           NoneBeyond(Here, m), Len(p) = m + 1, p[m + 1].code = "finally",
           NEW s \in Completions, allFinallyStates' = Append(allFinallyStates, s),
           s.owner = <<Top, m + 1>>, StateFits(callFrames', s)
    PROVE  /\ Matched(callFrames', allHandlers', allFinallyStates')
           /\ Held(callFrames) \in Int /\ Held(callFrames') \in Int
           /\ Held(callFrames') = Held(callFrames) - Frame.height + h
           /\ KeptBelow(allFinallyStates, Top + 1) \in Nat
           /\ KeptBelow(allFinallyStates', Top' + 1)
                  = KeptBelow(allFinallyStates, Top + 1) + (IF s.kept THEN 1 ELSE 0)
  <1> DEFINE f == At(p, h)
             n == Len(callFrames)
             st == allFinallyStates
  <1>1. /\ MovesTo(callFrames, callFrames', f) /\ f.pos = p /\ f.height = h /\ Top' = Top
    BY MovedTop
  <1>2. /\ HandlersExact(callFrames', allHandlers') /\ FramesFit(callFrames')
    BY MovedHandlers
  <1>3. /\ StatesExact(callFrames, st) /\ StartsFit(callFrames, st)
        /\ Here = callFrames[n].pos /\ Frame = callFrames[n] /\ Top = n /\ n \in Nat \ {0}
        /\ st \in Seq(Completions)
    BY GoodFrames DEF Good, Matched
  <1> HIDE DEF f
  <1>4. StatesExact(callFrames', Append(st, s))
    <2>1. /\ Common(callFrames[n].pos, f.pos, m) /\ NoneBeyond(callFrames[n].pos, m)
          /\ Len(f.pos) = m + 1 /\ f.pos[m + 1].code = "finally" /\ s.owner = <<n, m + 1>>
      BY <1>1, <1>3
    <2> QED BY <1>1, <1>3, <2>1, MoveAddsState
  <1>5. ASSUME NEW k \in Nat
        PROVE  /\ KeptBelow(st, k) \in Nat
               /\ KeptBelow(Append(st, s), k)
                      = KeptBelow(st, k) + (IF s.kept /\ n < k THEN 1 ELSE 0)
    <2>1. s.owner[1] = n
      BY <1>3
    <2> QED BY <1>3, <2>1, KeptOfAppend
  <1>6. \A k \in 1 .. n : KeptBelow(Append(st, s), k) = KeptBelow(st, k)
    <2>1. ASSUME NEW k \in 1 .. n PROVE KeptBelow(Append(st, s), k) = KeptBelow(st, k)
      <3>1. k \in Nat /\ ~(n < k)
        BY <1>3
      <3> QED BY <1>5, <3>1
    <2> QED BY <2>1
  <1>7. /\ StartsFit(callFrames', Append(st, s))
        /\ HeldBelow(callFrames, n) \in Int /\ f.height \in Nat /\ callFrames[n].height \in Nat
        /\ Held(callFrames) = HeldBelow(callFrames, n) + callFrames[n].height
        /\ Held(callFrames') = HeldBelow(callFrames, n) + f.height
    BY <1>1, <1>3, <1>6, MovedOperands
  <1>8. /\ Held(callFrames) \in Int /\ Held(callFrames') \in Int
        /\ Held(callFrames') = Held(callFrames) - Frame.height + h
    BY SMTT(30), <1>1, <1>3, <1>7
  <1>9. /\ KeptBelow(st, Top + 1) \in Nat
        /\ KeptBelow(allFinallyStates', Top' + 1) = KeptBelow(st, Top + 1) + (IF s.kept THEN 1 ELSE 0)
    <2>1. n + 1 \in Nat /\ n < n + 1
      BY <1>3
    <2>2. KeptBelow(Append(st, s), n + 1)
              = KeptBelow(st, n + 1) + (IF s.kept /\ n < n + 1 THEN 1 ELSE 0)
          /\ KeptBelow(st, n + 1) \in Nat
      BY <1>5, <2>1
    <2> QED BY <1>1, <1>3, <2>1, <2>2
  <1> QED BY <1>2, <1>4, <1>7, <1>8, <1>9 DEF Matched

(* The innermost finally body ends.                                        *)
LEMMA MovedOutOf ==
    ASSUME Good, NEW p, NEW h, Moving(p, h), NEW m, Common(Here, p, m),
           Len(p) = m, Len(Here) = m + 1, Here[m + 1].code = "finally",
           allFinallyStates' = Front(allFinallyStates)
    PROVE  /\ Matched(callFrames', allHandlers', allFinallyStates')
           /\ allFinallyStates # <<>>
           /\ Last(allFinallyStates).owner = <<Top, m + 1>>
           /\ StateFits(callFrames, Last(allFinallyStates))
           /\ Held(callFrames) \in Int /\ Held(callFrames') \in Int
           /\ Held(callFrames') = Held(callFrames) - Frame.height + h
           /\ KeptBelow(allFinallyStates', Top' + 1) \in Nat
           /\ KeptBelow(allFinallyStates, Top + 1) = KeptBelow(allFinallyStates', Top' + 1)
                  + (IF Last(allFinallyStates).kept THEN 1 ELSE 0)
  <1> DEFINE f == At(p, h)
             n == Len(callFrames)
             st == allFinallyStates
             st2 == Front(allFinallyStates)
             s == Last(allFinallyStates)
  <1>1. /\ MovesTo(callFrames, callFrames', f) /\ f.pos = p /\ f.height = h /\ Top' = Top
    BY MovedTop
  <1>2. /\ HandlersExact(callFrames', allHandlers') /\ FramesFit(callFrames')
    BY MovedHandlers
  <1>3. /\ StatesExact(callFrames, st) /\ StartsFit(callFrames, st)
        /\ Here = callFrames[n].pos /\ Frame = callFrames[n] /\ Top = n /\ n \in Nat \ {0}
        /\ st \in Seq(Completions)
    BY GoodFrames DEF Good, Matched
  <1> HIDE DEF f
  <1>4. /\ st # <<>> /\ s.owner = <<n, m + 1>> /\ StateFits(callFrames, s)
        /\ StatesExact(callFrames', st2)
    <2>1. /\ Common(callFrames[n].pos, f.pos, m) /\ Len(f.pos) = m
          /\ Len(callFrames[n].pos) = m + 1 /\ callFrames[n].pos[m + 1].code = "finally"
      BY <1>1, <1>3
    <2> QED BY <1>1, <1>3, <2>1, MoveEndsState
  <1>5. ASSUME NEW k \in Nat
        PROVE  /\ KeptBelow(st2, k) \in Nat
               /\ KeptBelow(st, k) = KeptBelow(st2, k) + (IF s.kept /\ n < k THEN 1 ELSE 0)
    <2>1. s.owner[1] = n
      BY <1>4
    <2> QED BY <1>3, <1>4, <2>1, KeptOfFront
  <1>6. \A k \in 1 .. n : KeptBelow(st2, k) = KeptBelow(st, k)
    <2>1. ASSUME NEW k \in 1 .. n PROVE KeptBelow(st2, k) = KeptBelow(st, k)
      <3>1. k \in Nat /\ ~(n < k)
        BY <1>3
      <3> HIDE DEF st, st2, s
      <3> QED BY <1>5, <3>1
    <2> QED BY <2>1
  <1>7. /\ StartsFit(callFrames', st2)
        /\ HeldBelow(callFrames, n) \in Int /\ f.height \in Nat /\ callFrames[n].height \in Nat
        /\ Held(callFrames) = HeldBelow(callFrames, n) + callFrames[n].height
        /\ Held(callFrames') = HeldBelow(callFrames, n) + f.height
    BY <1>1, <1>3, <1>6, MovedOperands
  <1>8. /\ Held(callFrames) \in Int /\ Held(callFrames') \in Int
        /\ Held(callFrames') = Held(callFrames) - Frame.height + h
    BY <1>1, <1>3, <1>7
  <1>9. /\ KeptBelow(st2, Top' + 1) \in Nat
        /\ KeptBelow(st, Top + 1) = KeptBelow(st2, Top' + 1) + (IF s.kept THEN 1 ELSE 0)
    <2>1. n + 1 \in Nat /\ n < n + 1
      BY <1>3
    <2> HIDE DEF st, st2, s
    <2>2. KeptBelow(st, n + 1) = KeptBelow(st2, n + 1) + (IF s.kept /\ n < n + 1 THEN 1 ELSE 0)
          /\ KeptBelow(st2, n + 1) \in Nat
      BY <1>5, <2>1
    <2> QED BY <1>1, <1>3, <2>1, <2>2
  <1> QED BY <1>1, <1>2, <1>3, <1>4, <1>7, <1>8, <1>9 DEF Matched

(***************************************************************************)
(* Steps of the code.                                                      *)
(***************************************************************************)
LEMMA KeptIsNumber ==
    ASSUME NEW st \in Seq(Completions), NEW k
    PROVE  KeptBelow(st, k) \in Nat
  <1> DEFINE K == {i \in 1 .. Len(st) : st[i].kept /\ st[i].owner[1] < k}
  <1>1. IsFiniteSet(1 .. Len(st)) /\ K \in SUBSET (1 .. Len(st))
    BY LenProperties, FS_Interval
  <1>2. Cardinality(K) \in Nat
    <2> HIDE DEF K
    <2> QED BY <1>1, FS_Subset, FS_CardinalityType
  <1> QED BY <1>2 DEF KeptBelow

(* What the invariant says in the modes other than "resume".               *)
LEMMA WhileRunning ==
    ASSUME Good, mode # "resume"
    PROVE  /\ stackSize = Held(callFrames) + KeptBelow(allFinallyStates, Top + 1) + Returned
           /\ mode # "done" => Returned = 0
           /\ mode # "native" => ~Frame.native
           /\ \A k \in 1 .. Top : exception[k] => mode = "catch" /\ k = Top
           /\ KeptBelow(allFinallyStates, Top + 1) \in Nat
  <1>1. ~Lost /\ Live /\ ModeFits
    BY DEF Lost, Good
  <1>2. Top \in Nat /\ allFinallyStates \in Seq(Completions)
    BY GoodFrames
  <1>3. KeptBelow(allFinallyStates, Top + 1) \in Nat
    BY <1>2, KeptIsNumber
  <1> QED BY <1>1, <1>3 DEF ModeFits, Returned, Live

(* What remains to be shown when the running frame moves.                  *)
LEMMA MoveStructured ==
    ASSUME Good, NEW p, NEW h, Moving(p, h),
           Matched(callFrames', allHandlers', allFinallyStates'),
           mode' \in {"opcode", "catch", "done", "resume"},
           stackSize' = Held(callFrames') + KeptBelow(allFinallyStates', Top' + 1) + Returned',
           \A k \in 1 .. Top : exception'[k] => k = Top /\ mode' \in {"resume", "catch"},
           Pending' => /\ CaughtBelow(callFrames', <<Top + 1, 0>>)
                       /\ allHandlers' = <<>> \/ h = HandlerHeight(p),
           mode' = "done" => h = 0 /\ FinallyDepths(p) = {}
    PROVE  StructuredInv'
  <1>1. /\ Top' = Top /\ Frame' = At(p, h) /\ Here' = p
        /\ At(p, h).height = h /\ At(p, h).native = Frame.native
        /\ ~Frame.native
    BY MovedTop DEF Moving
  <1>2. ModeFits'
    BY <1>1 DEF ModeFits
  <1> QED BY <1>2 DEF StructuredInv

(* A step of the code that raises nothing and ends no finally body.        *)
LEMMA CodeMoves ==
    ASSUME Good, mode = "opcode", mode' = "opcode", UNCHANGED <<exception, allFinallyStates>>,
           NEW p, NEW h, Moving(p, h), NEW m, Common(Here, p, m), NoneBeyond(Here, m),
           NoneBeyond(p, m), stackSize' = stackSize - Frame.height + h
    PROVE  StructuredInv'
  <1>1. /\ Matched(callFrames', allHandlers', allFinallyStates')
        /\ Held(callFrames) \in Int /\ Held(callFrames') \in Int
        /\ Held(callFrames') = Held(callFrames) - Frame.height + h
    BY MovedMatched
  <1>2. Top' = Top /\ h \in Nat /\ Frame.height \in Nat
    BY MovedTop, GoodFrames DEF Moving
  <1>3. /\ stackSize = Held(callFrames) + KeptBelow(allFinallyStates, Top + 1) + Returned
        /\ Returned = 0 /\ KeptBelow(allFinallyStates, Top + 1) \in Nat
        /\ \A k \in 1 .. Top : ~exception[k]
    BY WhileRunning
  <1>4. Returned' = 0 /\ ~Pending'
    BY DEF Returned, Pending
  <1>5. stackSize' = Held(callFrames') + KeptBelow(allFinallyStates', Top' + 1) + Returned'
    BY <1>1, <1>2, <1>3, <1>4
  <1> QED BY <1>1, <1>2, <1>3, <1>4, <1>5, MoveStructured

(* The code moves from one operand to the next.                            *)
LEMMA StructuredOperands ==
    ASSUME Good, PushOperand \/ PopOperand
    PROVE  StructuredInv'
  <1> DEFINE d == IF PushOperand THEN Frame.height + 1 ELSE Frame.height - 1
  <1>1. /\ Here \in Positions /\ Frame.height \in Nat /\ Frame.handlerIndex \in Nat
        /\ Len(Here) \in Nat /\ stackSize \in Int
        /\ HeightsRise(Here, Frame.height) /\ HeightsFit(Frame.handlerIndex, Here)
        /\ Exact(allHandlers, Frame.handlerIndex, Len(allHandlers), Here)
    BY GoodFrames
  <1>2. /\ mode = "opcode" /\ mode' = "opcode" /\ UNCHANGED <<exception, allFinallyStates>>
        /\ UNCHANGED allHandlers
    BY DEF PushOperand, PopOperand, CodePops, AtOpcode, Keep
  <1>3. ~Frame.native
    BY <1>2, WhileRunning
  <1>4. /\ Common(Here, Here, Len(Here)) /\ NoneBeyond(Here, Len(Here))
    <2>1. Len(Here) \in 0 .. Len(Here)
      BY <1>1
    <2> QED BY <1>1, <2>1, CommonOuter
  <1>5. CASE PushOperand
    <2> DEFINE h == Frame.height + 1
    <2>1. callFrames' = SetTop(At(Here, h)) /\ stackSize' = stackSize - Frame.height + h /\ h \in Nat
      BY <1>1, <1>5 DEF PushOperand
    <2>2. HeightsRise(Here, h)
      <3>1. \A i \in 1 .. Len(Here) : Here[i].h \in Nat
        BY <1>1, OuterRegions
      <3> QED BY <1>1, <3>1 DEF HeightsRise
    <2>3. Moving(Here, h)
      BY <1>1, <1>2, <1>3, <2>1, <2>2 DEF Moving
    <2> HIDE DEF h
    <2> QED BY <1>2, <1>4, <2>1, <2>3, CodeMoves
  <1>6. CASE PopOperand
    <2> DEFINE h == Frame.height - 1
    <2>1. /\ callFrames' = SetTop(At(Here, h)) /\ stackSize' = stackSize - Frame.height + h
          /\ Frame.height > IF Here = <<>> THEN 0 ELSE Last(Here).h
      BY <1>1, <1>6 DEF PopOperand, CodePops
    <2>2. h \in Nat
      <3>1. Here # <<>> => Last(Here).h \in Nat
        <4>1. Here # <<>> => Last(Here) \in Regions
          BY <1>1, FrontAndLast DEF Positions
        <4> QED BY <4>1 DEF Regions
      <3> QED BY <1>1, <2>1, <3>1
    <2>3. ASSUME NEW i \in 1 .. Len(Here) PROVE Here[i].h <= h
      <3>1. Here # <<>> /\ Last(Here) = Here[Len(Here)] /\ Len(Here) \in 1 .. Len(Here)
            /\ i \in 1 .. Len(Here)
        BY <1>1 DEF Last
      <3>2. Here[i].h <= Here[Len(Here)].h /\ Here[i].h \in Nat /\ Here[Len(Here)].h \in Nat
        BY <1>1, <3>1, OuterRegions DEF HeightsRise
      <3>3. Here[Len(Here)].h < Frame.height /\ Frame.height \in Nat
        BY <1>1, <2>1, <3>1
      <3> QED BY <3>2, <3>3
    <2>4. HeightsRise(Here, h)
      BY <1>1, <2>3 DEF HeightsRise
    <2>5. Moving(Here, h)
      BY <1>1, <1>2, <1>3, <2>1, <2>2, <2>4 DEF Moving
    <2> HIDE DEF h
    <2> QED BY <1>2, <1>4, <2>1, <2>5, CodeMoves
  <1> QED BY <1>5, <1>6

(* A protected region is entered.                                          *)
LEMMA StructuredEnter ==
    ASSUME Uses = {}, Good, NEW code \in Tries, EnterTry(code)
    PROVE  StructuredInv'
  <1> DEFINE r == Region(code, Frame.height)
             p == Append(Here, r)
             h == Frame.height
             from == Frame.handlerIndex
             added == HandlersOfRegion(p)
             b == Len(allHandlers)
  <1>1. /\ Here \in Positions /\ h \in Nat /\ from \in Nat /\ b \in Nat
        /\ Len(Here) \in Nat /\ stackSize \in Int
        /\ HeightsRise(Here, h) /\ HeightsFit(from, Here) /\ from <= b
        /\ Exact(allHandlers, from, b, Here) /\ b = from + HandlerCount(Here)
        /\ allHandlers \in Seq(Handlers)
    BY GoodFrames
  <1>2. /\ mode = "opcode" /\ mode' = "opcode" /\ UNCHANGED <<exception, allFinallyStates>>
        /\ callFrames' = SetTop(At(p, h)) /\ allHandlers' = allHandlers \o added
        /\ HoldsNothingMore /\ UNCHANGED stackSize
    BY DEF EnterTry, AtOpcode, Keep, HandlersAdded
  <1>3. ~Frame.native
    BY <1>2, WhileRunning
  <1>4. r \in Regions /\ r.h = h /\ r.code = code /\ code \in Codes
    BY <1>1 DEF Region, Regions, Codes
  <1>5. /\ p \in Positions /\ p # <<>> /\ Last(p) = r /\ Len(p) = Len(Here) + 1
        /\ p[Len(Here) + 1] = r /\ \A i \in 1 .. Len(Here) : p[i] = Here[i]
    BY <1>1, <1>4, OuterOfAppend
  <1> HIDE DEF r, p
  <1>6. added \in Seq(Handlers) /\ Len(added) = Weight(code)
    BY <1>1, <1>4, <1>5, RegionHandlers
  <1>7. /\ Len(allHandlers') = b + Weight(code)
        /\ \A i \in 1 .. b : allHandlers'[i] = allHandlers[i]
        /\ \A i \in 1 .. Weight(code) : allHandlers'[b + i] = added[i]
    <2> HIDE DEF added
    <2>1. /\ Len(allHandlers \o added) = b + Len(added)
          /\ \A i \in 1 .. b + Len(added) : (allHandlers \o added)[i]
                 = IF i <= b THEN allHandlers[i] ELSE added[i - b]
      BY <1>1, <1>6, ConcatProperties
    <2>2. Len(added) \in Nat
      BY <1>6, LenProperties
    <2>3. ASSUME NEW i \in 1 .. Len(added)
          PROVE  b + i \in 1 .. b + Len(added) /\ ~(b + i <= b) /\ (b + i) - b = i
      BY <1>1, <2>2
    <2>4. \A i \in 1 .. b : i \in 1 .. b + Len(added) /\ i <= b
      BY <1>1, <2>2
    <2> QED BY <1>2, <1>6, <2>1, <2>3, <2>4
  <1>8. Exact(allHandlers', from, Len(allHandlers'), p)
    <2>1. \A i \in from + 1 .. b : allHandlers'[i] = allHandlers[i]
      BY <1>1, <1>7
    <2>2. \A i \in 1 .. Weight(r.code) : allHandlers'[b + i] = HandlersOfRegion(Append(Here, r))[i]
      BY <1>4, <1>7 DEF p
    <2>3. Exact(allHandlers', from, b + Weight(r.code), Append(Here, r))
      <3> HIDE DEF b, from
      <3> QED BY <1>1, <1>4, <2>1, <2>2, ExactAppend
    <2> QED BY <1>4, <1>7, <2>3 DEF p
  <1>9. HeightsRise(p, h) /\ HeightsFit(from, p)
    <2>1. from + HandlerCount(Here) = 0 \/ h = HandlerHeight(Here)
      <3>1. allHandlers = <<>> => b = 0
        OBVIOUS
      <3> QED BY <1>1, <1>2, <3>1 DEF HoldsNothingMore, Here
    <2> HIDE DEF h, from
    <2> QED BY <1>1, <1>4, <2>1, AppendHeights DEF p
  <1>10. Moving(p, h)
    <2>1. \A i \in 1 .. from : allHandlers'[i] = allHandlers[i]
      BY <1>1, <1>7
    <2> QED BY <1>1, <1>2, <1>3, <1>5, <1>8, <1>9, <2>1 DEF Moving
  <1>11. Common(Here, p, Len(Here)) /\ NoneBeyond(Here, Len(Here)) /\ NoneBeyond(p, Len(Here))
    <2>1. Common(Here, p, Len(Here))
      BY <1>1, <1>5 DEF Common
    <2>2. \A i \in Len(Here) + 1 .. Len(Here) : FALSE
      BY <1>1
    <2>3. \A i \in Len(Here) + 1 .. Len(p) : p[i] = r
      BY <1>1, <1>5
    <2>4. r.code # "finally"
      BY <1>4 DEF Tries
    <2> QED BY <2>1, <2>2, <2>3, <2>4 DEF NoneBeyond
  <1>12. stackSize' = stackSize - Frame.height + h
    BY <1>1, <1>2
  <1> HIDE DEF h
  <1> QED BY <1>2, <1>10, <1>11, <1>12, CodeMoves

(* At the end of a region.                                                 *)
LEMMA AtTheEnd ==
    ASSUME Good, NEW codes, AtEndOf(codes)
    PROVE  /\ mode = "opcode" /\ ~Frame.native
           /\ Len(Here) \in 1 .. Len(Here) /\ Len(Here) - 1 \in 0 .. Len(Here)
           /\ Here[Len(Here)].code \in codes /\ Frame.height = Here[Len(Here)].h
           /\ Front(Here) = Outer(Here, Len(Here) - 1) /\ Last(Here) = Here[Len(Here)]
           /\ Target(Here, "finally") = Turn(Here, Len(Here), "finally")
           /\ Target(Here, "joinF") = Turn(Here, Len(Here), "joinF")
           /\ Len(allHandlers) = Frame.handlerIndex
                  + HandlerCount(Outer(Here, Len(Here) - 1)) + Weight(Here[Len(Here)].code)
           /\ HandlerCount(Outer(Here, Len(Here) - 1)) \in Nat
           /\ Weight(Here[Len(Here)].code) \in Nat
  <1>1. mode = "opcode" /\ Here # <<>> /\ Last(Here).code \in codes /\ Frame.height = Last(Here).h
    BY DEF AtEndOf, Inside
  <1>2. ~Frame.native
    BY <1>1, WhileRunning
  <1>3. /\ Here \in Positions /\ Len(Here) \in Nat /\ Frame.handlerIndex \in Nat
        /\ Len(allHandlers) = Frame.handlerIndex + HandlerCount(Here)
    BY GoodFrames
  <1>4. Len(Here) # 0
    BY <1>1, <1>3, EmptySeq DEF Positions
  <1>5. Len(Here) \in 1 .. Len(Here) /\ Len(Here) - 1 \in 0 .. Len(Here)
    BY <1>3, <1>4
  <1>6. Outer(Here, Len(Here)) = Here
    BY <1>3, WholeAndNothing
  <1>7. /\ Front(Here) = Outer(Here, Len(Here) - 1) /\ Last(Here) = Here[Len(Here)]
        /\ Target(Here, "finally") = Turn(Here, Len(Here), "finally")
        /\ Target(Here, "joinF") = Turn(Here, Len(Here), "joinF")
    BY <1>3, <1>5, <1>6, InnermostOfOuter
  <1>8. /\ HandlerCount(Here) = HandlerCount(Outer(Here, Len(Here) - 1))
                                    + Weight(Here[Len(Here)].code)
        /\ HandlerCount(Outer(Here, Len(Here) - 1)) \in Nat
        /\ Weight(Here[Len(Here)].code) \in Nat
    BY <1>3, <1>5, <1>6, CountOfOuter
  <1> QED BY <1>1, <1>2, <1>3, <1>5, <1>7, <1>8

(* The handlers of a prefix of the stack.                                  *)
KeepsFirst(n) ==
    /\ n \in Nat /\ n <= Len(allHandlers) /\ Len(allHandlers') = n
    /\ \A i \in 1 .. n : allHandlers'[i] = allHandlers[i]

(* Control goes out of the region at depth d.                              *)
LEMMA MovingOut ==
    ASSUME Good, ~Frame.native, NEW d \in 1 .. Len(Here),
           callFrames' = SetTop(At(Outer(Here, d - 1), Here[d].h)),
           KeepsFirst(Frame.handlerIndex + HandlerCount(Outer(Here, d - 1)))
    PROVE  /\ Moving(Outer(Here, d - 1), Here[d].h)
           /\ Common(Here, Outer(Here, d - 1), d - 1)
           /\ NoneBeyond(Outer(Here, d - 1), d - 1)
           /\ Len(Outer(Here, d - 1)) = d - 1
  <1> DEFINE p == Outer(Here, d - 1)
             h == Here[d].h
             from == Frame.handlerIndex
             to == from + HandlerCount(p)
  <1>1. /\ Here \in Positions /\ from \in Nat /\ Len(allHandlers) \in Nat /\ Len(Here) \in Nat
        /\ HeightsRise(Here, Frame.height) /\ HeightsFit(from, Here)
        /\ Exact(allHandlers, from, Len(allHandlers), Here)
    BY GoodFrames
  <1>2. d - 1 \in 0 .. Len(Here) /\ h \in Nat /\ p \in Positions /\ Len(p) = d - 1
    BY <1>1, OuterRegions
  <1>3. Exact(allHandlers, from, to, p)
    BY <1>1, <1>2, ExactOuter
  <1>4. HandlerCount(p) \in Nat /\ Len(allHandlers') = to
        /\ \A i \in 1 .. to : allHandlers'[i] = allHandlers[i]
    BY <1>1, <1>2, CountOfOuter DEF KeepsFirst
  <1>5. /\ \A i \in from + 1 .. to : allHandlers'[i] = allHandlers[i]
        /\ \A i \in 1 .. from : allHandlers'[i] = allHandlers[i]
    <2>1. from \in Nat /\ to \in Nat /\ from <= to
      <3> HIDE DEF p, from
      <3> QED BY <1>1, <1>4
    <2> HIDE DEF from, to
    <2> QED BY <1>4, <2>1
  <1>6. Exact(allHandlers', from, Len(allHandlers'), p)
    <2> HIDE DEF p, from
    <2>1. Exact(allHandlers', from, to, p)
      <3> HIDE DEF to
      <3> QED BY <1>1, <1>2, <1>3, <1>5, ExactAlso
    <2> QED BY <1>4, <2>1
  <1>7. HeightsRise(p, h) /\ HeightsFit(from, p)
    <2>1. \A i \in 1 .. d - 1 : Here[i].h <= h
      <3>1. \A i \in 1 .. d - 1 : i \in 1 .. d
        BY <1>1
      <3> QED BY <1>1, <3>1 DEF HeightsRise
    <2> QED BY <1>1, <1>2, <2>1, OuterHeights
  <1>8. Moving(p, h)
    BY <1>2, <1>5, <1>6, <1>7 DEF Moving
  <1>9. Common(Here, p, d - 1) /\ NoneBeyond(p, d - 1)
    BY <1>1, <1>2, CommonOuter
  <1> QED BY <1>2, <1>8, <1>9

(* Control goes to another clause of the region at depth d.                *)
LEMMA MovingTurn ==
    ASSUME Good, ~Frame.native, NEW d \in 1 .. Len(Here), NEW code \in Codes,
           Weight(code) = 0 \/ (Here[d].code = "tryCF" /\ code \in {"catchF", "joinF"}),
           callFrames' = SetTop(At(Turn(Here, d, code), Here[d].h)),
           KeepsFirst(Frame.handlerIndex + HandlerCount(Outer(Here, d - 1)) + Weight(code))
    PROVE  /\ Moving(Turn(Here, d, code), Here[d].h)
           /\ Common(Here, Turn(Here, d, code), d - 1)
           /\ code # "finally" => NoneBeyond(Turn(Here, d, code), d - 1)
           /\ Len(Turn(Here, d, code)) = (d - 1) + 1 /\ Turn(Here, d, code)[(d - 1) + 1].code = code
  <1> DEFINE p == Turn(Here, d, code)
             h == Here[d].h
             from == Frame.handlerIndex
             to == from + HandlerCount(Outer(Here, d - 1)) + Weight(code)
  <1>1. /\ Here \in Positions /\ from \in Nat /\ Len(allHandlers) \in Nat /\ Len(Here) \in Nat
        /\ HeightsRise(Here, Frame.height) /\ HeightsFit(from, Here)
        /\ Exact(allHandlers, from, Len(allHandlers), Here)
    BY GoodFrames
  <1>2. /\ h \in Nat /\ p \in Positions /\ Len(p) = d /\ Common(Here, p, d - 1)
        /\ p[d] = Region(code, h) /\ (d - 1) + 1 = d
    BY <1>1, TurnIs
  <1>3. Exact(allHandlers, from, to, p)
    BY <1>1, ExactTurn
  <1>4. /\ HandlerCount(Outer(Here, d - 1)) \in Nat /\ Weight(code) \in Nat /\ Len(allHandlers') = to
        /\ \A i \in 1 .. to : allHandlers'[i] = allHandlers[i]
    <2>1. d - 1 \in 0 .. Len(Here)
      BY <1>1
    <2> QED BY <1>1, <2>1, CountOfOuter, WeightedCodes DEF KeepsFirst
  <1>5. /\ \A i \in from + 1 .. to : allHandlers'[i] = allHandlers[i]
        /\ \A i \in 1 .. from : allHandlers'[i] = allHandlers[i]
    <2> HIDE DEF p, from
    <2> QED BY <1>1, <1>4
  <1>6. Exact(allHandlers', from, Len(allHandlers'), p)
    <2> HIDE DEF p, from
    <2>1. Exact(allHandlers', from, to, p)
      <3> HIDE DEF to
      <3> QED BY <1>1, <1>2, <1>3, <1>5, ExactAlso
    <2> QED BY <1>4, <2>1
  <1>7. HeightsRise(p, h) /\ HeightsFit(from, p)
    BY <1>1, TurnHeights
  <1>8. Moving(p, h)
    BY <1>2, <1>5, <1>6, <1>7 DEF Moving
  <1>9. code # "finally" => NoneBeyond(p, d - 1)
    <2>1. p[d].code = code
      BY <1>2 DEF Region
    <2> HIDE DEF p
    <2>2. \A i \in (d - 1) + 1 .. Len(p) : i = d
      BY <1>1, <1>2
    <2> QED BY <2>1, <2>2 DEF NoneBeyond
  <1>10. p[(d - 1) + 1].code = code /\ Len(p) = (d - 1) + 1
    BY <1>2 DEF Region
  <1> QED BY <1>2, <1>8, <1>9, <1>10

(* Taking the last handler off keeps the others.                           *)
LEMMA FrontKeepsFirst ==
    ASSUME Good, allHandlers # <<>>, allHandlers' = Front(allHandlers)
    PROVE  KeepsFirst(Len(allHandlers) - 1)
  <1>1. allHandlers \in Seq(Handlers)
    BY GoodFrames
  <1> QED BY <1>1, FrontAndLast DEF KeepsFirst

(* Doing nothing keeps all of them.                                        *)
LEMMA AllKeepsFirst ==
    ASSUME Good, UNCHANGED allHandlers
    PROVE  KeepsFirst(Len(allHandlers))
  BY GoodFrames DEF KeepsFirst

(* REMOVE_TRY_AND_JUMP.                                                    *)
LEMMA StructuredRemoveTry ==
    ASSUME Good, RemoveTryAndJump
    PROVE  StructuredInv'
  <1> DEFINE L == Len(Here)
             from == Frame.handlerIndex
             n == HandlerCount(Outer(Here, L - 1))
             h == Here[L].h
  <1>1. /\ AtEndOf({"try", "tryCF"}) /\ mode' = "opcode" /\ Len(allHandlers) > from
        /\ UNCHANGED <<exception, allFinallyStates, stackSize>>
        /\ allHandlers' = Front(allHandlers)
        /\ callFrames' = SetTop(At(AfterTry(Here), Frame.height))
    BY DEF RemoveTryAndJump, Keep, HandlersWithoutLast, AtEndOf
  <1>2. /\ mode = "opcode" /\ ~Frame.native /\ L \in 1 .. L
        /\ Here[L].code \in {"try", "tryCF"} /\ Frame.height = h
        /\ Front(Here) = Outer(Here, L - 1) /\ Last(Here) = Here[L]
        /\ Target(Here, "joinF") = Turn(Here, L, "joinF")
        /\ Len(allHandlers) = from + n + Weight(Here[L].code) /\ n \in Nat
    BY <1>1, AtTheEnd
  <1>3. from \in Nat /\ Len(Here) \in Nat /\ Len(allHandlers) \in Nat /\ stackSize \in Int
        /\ Frame.height \in Nat
    BY GoodFrames
  <1>4. KeepsFirst(Len(allHandlers) - 1)
    <2>1. allHandlers # <<>>
      BY <1>1, <1>3
    <2> QED BY <1>1, <2>1, FrontKeepsFirst
  <1>5. NoneBeyond(Here, L - 1)
    <2>1. \A i \in (L - 1) + 1 .. Len(Here) : i = L
      BY <1>3
    <2> QED BY <1>2, <2>1 DEF NoneBeyond
  <1>6. stackSize' = stackSize - Frame.height + h
    BY <1>1, <1>2, <1>3
  <1>7. CASE Here[L].code = "try"
    <2> DEFINE p == Outer(Here, L - 1)
    <2>1. callFrames' = SetTop(At(p, h)) /\ AfterTry(Here) = p
      BY <1>1, <1>2, <1>7 DEF AfterTry
    <2>2. Weight(Here[L].code) = 1
      BY <1>7 DEF Weight, WithFinally
    <2>3. KeepsFirst(from + HandlerCount(p))
      <3>1. Len(allHandlers) - 1 = from + n
        BY <1>2, <1>3, <2>2
      <3> QED BY <1>4, <3>1
    <2>4. Moving(p, h) /\ Common(Here, p, L - 1) /\ NoneBeyond(p, L - 1)
      BY <1>2, <2>1, <2>3, MovingOut
    <2> HIDE DEF p, h, L
    <2> QED BY <1>1, <1>2, <1>5, <1>6, <2>4, CodeMoves
  <1>8. CASE Here[L].code = "tryCF"
    <2> DEFINE p == Turn(Here, L, "joinF")
    <2>1. callFrames' = SetTop(At(p, h)) /\ AfterTry(Here) = p
      BY <1>1, <1>2, <1>8 DEF AfterTry
    <2>2. Weight(Here[L].code) = 2 /\ Weight("joinF") = 1 /\ "joinF" \in Codes
      BY <1>8 DEF Weight, WithFinally, Codes
    <2>3. KeepsFirst(from + n + Weight("joinF"))
      <3>1. Len(allHandlers) - 1 = from + n + 1
        BY <1>2, <1>3, <2>2
      <3> QED BY <1>4, <2>2, <3>1
    <2>4. Moving(p, h) /\ Common(Here, p, L - 1) /\ NoneBeyond(p, L - 1)
      BY <1>2, <1>8, <2>1, <2>2, <2>3, MovingTurn
    <2> HIDE DEF p, h, L
    <2> QED BY <1>1, <1>2, <1>5, <1>6, <2>4, CodeMoves
  <1> QED BY <1>2, <1>7, <1>8

(* The end of a catch clause, and jumps out of catch clauses.              *)
LEMMA StructuredLeave ==
    ASSUME Good, mode = "opcode", mode' = "opcode",
           UNCHANGED <<exception, allFinallyStates, allHandlers, stackSize>>,
           NEW d \in 1 .. Len(Here), \A e \in d .. Len(Here) : Here[e].code = "catch",
           Frame.height = Here[d].h, callFrames' = SetTop(At(Outer(Here, d - 1), Here[d].h))
    PROVE  StructuredInv'
  <1> DEFINE p == Outer(Here, d - 1)
             h == Here[d].h
  <1>1. /\ Here \in Positions /\ Frame.handlerIndex \in Nat /\ Len(Here) \in Nat
        /\ Len(allHandlers) = Frame.handlerIndex + HandlerCount(Here) /\ Frame.height \in Nat
        /\ stackSize \in Int
    BY GoodFrames
  <1>2. ~Frame.native
    BY WhileRunning
  <1>3. d - 1 \in 0 .. Len(Here) /\ (d - 1) + 1 = d
    BY <1>1
  <1>4. HandlerCount(p) = HandlerCount(Here)
    <2>1. \A e \in (d - 1) + 1 .. Len(Here) : Weight(Here[e].code) = 0
      <3>1. Weight("catch") = 0
        BY DEF Weight, WithFinally
      <3> QED BY <1>3, <3>1
    <2> QED BY <1>1, <1>3, <2>1, NoHandlersBeyond
  <1>5. KeepsFirst(Frame.handlerIndex + HandlerCount(p))
    BY <1>1, <1>4, AllKeepsFirst
  <1>6. Moving(p, h) /\ Common(Here, p, d - 1) /\ NoneBeyond(p, d - 1)
    BY <1>2, <1>5, MovingOut
  <1>7. NoneBeyond(Here, d - 1)
    BY <1>3 DEF NoneBeyond
  <1>8. stackSize' = stackSize - Frame.height + h
    BY <1>1
  <1> HIDE DEF p, h
  <1> QED BY <1>6, <1>7, <1>8, CodeMoves

(* The end of a catch clause without finally.                              *)
LEMMA StructuredEndCatch ==
    ASSUME Good, EndCatch
    PROVE  StructuredInv'
  <1> DEFINE L == Len(Here)
  <1>1. /\ AtEndOf({"catch"}) /\ mode' = "opcode"
        /\ UNCHANGED <<exception, allFinallyStates, allHandlers, stackSize>>
        /\ callFrames' = SetTop(At(Front(Here), Frame.height)) /\ mode' = mode
    BY DEF EndCatch, Keep, AtEndOf
  <1>2. /\ mode = "opcode" /\ L \in 1 .. L /\ Here[L].code = "catch" /\ Frame.height = Here[L].h
        /\ Front(Here) = Outer(Here, L - 1)
    BY <1>1, AtTheEnd
  <1>3. \A e \in L .. Len(Here) : Here[e].code = "catch"
    <2>1. Len(Here) \in Nat
      BY GoodFrames
    <2>2. \A e \in L .. Len(Here) : e = L
      BY <2>1
    <2> QED BY <1>2, <2>2
  <1> QED BY <1>1, <1>2, <1>3, StructuredLeave

(* break and continue out of catch clauses.                                *)
LEMMA StructuredSkip ==
    ASSUME Uses = {}, Good, NEW d, Skip(d)
    PROVE  StructuredInv'
  <1>1. /\ mode = "opcode" /\ mode' = "opcode"
        /\ UNCHANGED <<exception, allFinallyStates, allHandlers, stackSize>>
        /\ d \in DOMAIN Here /\ Frame.height = Here[d].h
        /\ callFrames' = SetTop(At(Outer(Here, d - 1), Here[d].h))
        /\ \A e \in d .. Len(Here) : MayLeave(Here[e].code)
    BY DEF Skip, Keep, AtOpcode, Outer
  <1>2. d \in 1 .. Len(Here)
    BY <1>1, GoodFrames, OuterRegions
  <1>3. \A e \in d .. Len(Here) : Here[e].code = "catch"
    BY <1>1 DEF MayLeave
  <1> QED BY <1>1, <1>2, <1>3, StructuredLeave

(* REMOVE_FINALLY: the body of the finally follows.                        *)
LEMMA StructuredRemoveFinally ==
    ASSUME Good, RemoveFinally
    PROVE  StructuredInv'
  <1> DEFINE L == Len(Here)
             from == Frame.handlerIndex
             n == HandlerCount(Outer(Here, L - 1))
             h == Here[L].h
             p == Turn(Here, L, "finally")
             s == FinallyState("NORMAL", p, FALSE)
  <1>1. /\ AtEndOf({"tryF", "catchF", "joinF"}) /\ mode' = mode /\ Len(allHandlers) > from
        /\ UNCHANGED <<exception, stackSize>>
        /\ allHandlers' = Front(allHandlers)
        /\ callFrames' = SetTop(At(Target(Here, "finally"), Frame.height))
        /\ allFinallyStates' = Append(allFinallyStates,
               FinallyState("NORMAL", Target(Here, "finally"), FALSE))
    BY DEF RemoveFinally, Keep, HandlersWithoutLast, PushFinallyState
  <1>2. /\ mode = "opcode" /\ ~Frame.native /\ L \in 1 .. L
        /\ Here[L].code \in {"tryF", "catchF", "joinF"} /\ Frame.height = h
        /\ Target(Here, "finally") = p
        /\ Len(allHandlers) = from + n + Weight(Here[L].code) /\ n \in Nat
    BY <1>1, AtTheEnd
  <1>3. /\ from \in Nat /\ Len(Here) \in Nat /\ Len(allHandlers) \in Nat /\ stackSize \in Int
        /\ Frame.height \in Nat /\ Here \in Positions /\ Top \in Nat \ {0}
    BY GoodFrames
  <1>4. Weight(Here[L].code) = 1 /\ Weight("finally") = 0 /\ "finally" \in Codes
    BY <1>2 DEF Weight, WithFinally, Codes
  <1>5. KeepsFirst(from + n + Weight("finally"))
    <2>1. allHandlers # <<>>
      BY <1>1, <1>3
    <2>2. Len(allHandlers) - 1 = from + n + Weight("finally")
      BY <1>2, <1>3, <1>4
    <2>3. KeepsFirst(Len(allHandlers) - 1)
      BY <1>1, <2>1, FrontKeepsFirst
    <2> QED BY <2>2, <2>3
  <1>6. NoneBeyond(Here, L - 1)
    <2>1. \A i \in (L - 1) + 1 .. Len(Here) : i = L
      BY <1>3
    <2> QED BY <1>2, <2>1 DEF NoneBeyond
  <1>7. /\ Moving(p, h) /\ Common(Here, p, L - 1) /\ Len(p) = (L - 1) + 1
        /\ p[(L - 1) + 1].code = "finally"
    BY <1>1, <1>2, <1>4, <1>5, MovingTurn
  <1>8. p \in Positions /\ Len(p) = L
    BY <1>2, <1>3, <1>4, TurnIs
  <1> HIDE DEF p, h
  <1>9. s \in Completions /\ s.owner = <<Top, (L - 1) + 1>> /\ s.reason = "NORMAL" /\ ~s.kept
    <2>1. (L - 1) + 1 = L /\ L \in Nat
      BY <1>3
    <2> QED BY <1>3, <1>8, <2>1 DEF FinallyState, Completions
  <1>10. StateFits(callFrames', s)
    BY <1>9 DEF StateFits, Returns
  <1>11. allFinallyStates' = Append(allFinallyStates, s)
    BY <1>1, <1>2
  <1> HIDE DEF s, L
  <1>12. /\ Matched(callFrames', allHandlers', allFinallyStates')
         /\ Held(callFrames) \in Int /\ Held(callFrames') \in Int
         /\ Held(callFrames') = Held(callFrames) - Frame.height + h
         /\ KeptBelow(allFinallyStates, Top + 1) \in Nat
         /\ KeptBelow(allFinallyStates', Top' + 1)
                  = KeptBelow(allFinallyStates, Top + 1) + (IF s.kept THEN 1 ELSE 0)
    BY <1>6, <1>7, <1>9, <1>10, <1>11, MovedInto
  <1>13. /\ stackSize = Held(callFrames) + KeptBelow(allFinallyStates, Top + 1) + Returned
         /\ Returned = 0 /\ \A k \in 1 .. Top : ~exception[k]
    BY <1>2, WhileRunning
  <1>14. Returned' = 0 /\ ~Pending' /\ mode' = "opcode"
    BY <1>1, <1>2 DEF Returned, Pending
  <1>15. stackSize' = Held(callFrames') + KeptBelow(allFinallyStates', Top' + 1) + Returned'
    <2>1. KeptBelow(allFinallyStates', Top' + 1) = KeptBelow(allFinallyStates, Top + 1)
      BY <1>9, <1>12
    <2>2. Held(callFrames') = Held(callFrames)
      BY <1>2, <1>3, <1>12
    <2> QED BY <1>1, <1>12, <1>13, <1>14, <2>1, <2>2
  <1> QED BY <1>1, <1>7, <1>12, <1>13, <1>14, <1>15, MoveStructured

(* END_FINALLY: what the finally interrupted goes on.                      *)
LEMMA StructuredEndFinally ==
    ASSUME Good, EndFinally
    PROVE  StructuredInv'
  <1> DEFINE L == Len(Here)
             m == L - 1
             from == Frame.handlerIndex
             n == HandlerCount(Outer(Here, L - 1))
             h == Here[L].h
             p == Outer(Here, L - 1)
             s == Last(allFinallyStates)
  <1>1. /\ AtEndOf({"finally"}) /\ UNCHANGED allHandlers
        /\ allFinallyStates # <<>> /\ allFinallyStates' = Front(allFinallyStates)
        /\ mode' = Resumed(s) /\ stackSize' = stackSize + ValuesPushed(s)
        /\ exception' = [exception EXCEPT ![Top] = @ \/ s.reason = "EXCEPTION"]
        /\ callFrames' = SetTop(At(Front(Here), Frame.height))
    BY DEF EndFinally, StatesLeft
  <1>2. /\ mode = "opcode" /\ ~Frame.native /\ L \in 1 .. L
        /\ Here[L].code = "finally" /\ Frame.height = h
        /\ Front(Here) = p
        /\ Len(allHandlers) = from + n + Weight(Here[L].code) /\ n \in Nat
    BY <1>1, AtTheEnd
  <1>3. /\ from \in Nat /\ L \in Nat /\ Len(allHandlers) \in Nat /\ stackSize \in Int
        /\ Frame.height \in Nat /\ Here \in Positions /\ Top \in Nat \ {0} /\ Top \in 1 .. Top
        /\ Top <= MaxFrames /\ exception \in [1 .. MaxFrames -> BOOLEAN] /\ Frame.value \in BOOLEAN
        /\ HeightsRise(Here, Frame.height) /\ HeightsFit(from, Here)
        /\ allFinallyStates \in Seq(Completions) /\ Frame = callFrames[Top]
        /\ Here = callFrames[Top].pos
    BY GoodFrames DEF Frame
  <1>4. Weight(Here[L].code) = 0 /\ Len(allHandlers) = from + n
    <2>1. Weight(Here[L].code) = 0
      BY <1>2, WeightedCodes
    <2> QED BY <1>2, <1>3, <2>1
  <1>5. KeepsFirst(from + HandlerCount(p))
    BY <1>1, <1>4, AllKeepsFirst
  <1>6. callFrames' = SetTop(At(p, h))
    BY <1>1, <1>2
  <1>7. Moving(p, h) /\ Common(Here, p, m) /\ Len(p) = m
    BY <1>2, <1>5, <1>6, MovingOut
  <1>8. m + 1 = L /\ Len(Here) = m + 1 /\ Here[m + 1].code = "finally" /\ m \in Nat
    BY <1>2, <1>3
  <1>9. s \in Completions
    BY <1>1, <1>3, FrontAndLast
  <1> HIDE DEF p, m, h, s
  <1>10. /\ Matched(callFrames', allHandlers', allFinallyStates')
         /\ s.owner = <<Top, m + 1>> /\ StateFits(callFrames, s)
         /\ Held(callFrames) \in Int /\ Held(callFrames') \in Int
         /\ Held(callFrames') = Held(callFrames) - Frame.height + h
         /\ KeptBelow(allFinallyStates', Top' + 1) \in Nat
         /\ KeptBelow(allFinallyStates, Top + 1) = KeptBelow(allFinallyStates', Top' + 1)
                + (IF s.kept THEN 1 ELSE 0)
    BY <1>1, <1>7, <1>8, MovedOutOf DEF s
  <1>11. /\ s.kept <=> s.reason = "RETURN_VOID" /\ Frame.value
         /\ s.reason = "RETURN_VALUE" => Frame.value
         /\ s.reason \in Returns => Outermost(Here, L)
         /\ s.reason = "EXCEPTION" => CaughtBelow(callFrames, <<Top, L>>)
    <2>1. s.owner = <<Top, L>> /\ s.owner[1] = Top /\ s.owner[2] = L
      BY <1>8, <1>10
    <2> QED BY <1>3, <1>10, <2>1 DEF StateFits
  <1>12. s.reason \in {"NORMAL", "EXCEPTION", "RETURN_VALUE", "RETURN_VOID"} /\ s.kept \in BOOLEAN
    BY <1>9 DEF Completions
  <1>13. /\ stackSize = Held(callFrames) + KeptBelow(allFinallyStates, Top + 1) + Returned
         /\ Returned = 0 /\ \A k \in 1 .. Top : ~exception[k]
    BY <1>2, WhileRunning
  <1>14. Top' = Top /\ Frame' = At(p, h) /\ At(p, h).value = Frame.value /\ Here' = p
    BY <1>7, MovedTop
  <1>15. \A k \in 1 .. Top : exception'[k] => k = Top /\ s.reason = "EXCEPTION"
    BY <1>1, <1>3, <1>13
  <1>16. /\ s.reason = "NORMAL" => mode' = "opcode" /\ stackSize' = stackSize
         /\ s.reason = "EXCEPTION" => mode' = "resume" /\ stackSize' = stackSize
         /\ s.reason = "RETURN_VALUE" => mode' = "done" /\ stackSize' = stackSize + 1
         /\ s.reason = "RETURN_VOID" => mode' = "done" /\ stackSize' = stackSize
    BY <1>1, <1>3 DEF Resumed, ValuesPushed
  <1>17. Held(callFrames') = Held(callFrames)
    BY <1>2, <1>3, <1>10
  <1>18. stackSize' = Held(callFrames') + KeptBelow(allFinallyStates', Top' + 1) + Returned'
    <2>1. CASE s.reason \in {"NORMAL", "EXCEPTION"}
      <3>1. ~s.kept /\ Returned' = 0 /\ stackSize' = stackSize
        BY <1>11, <1>12, <1>16, <2>1 DEF Returned
      <3>2. KeptBelow(allFinallyStates, Top + 1) = KeptBelow(allFinallyStates', Top' + 1)
        BY <1>10, <3>1
      <3> QED BY <1>10, <1>13, <1>17, <3>1, <3>2
    <2>2. CASE s.reason = "RETURN_VALUE"
      <3>1. ~s.kept /\ Returned' = 1 /\ stackSize' = stackSize + 1
        BY <1>11, <1>12, <1>14, <1>16, <2>2 DEF Returned
      <3>2. KeptBelow(allFinallyStates, Top + 1) = KeptBelow(allFinallyStates', Top' + 1)
        BY <1>10, <3>1
      <3> QED BY <1>3, <1>10, <1>13, <1>17, <3>1, <3>2
    <2>3. CASE s.reason = "RETURN_VOID" /\ Frame.value
      <3>1. s.kept /\ Returned' = 1 /\ stackSize' = stackSize
        BY <1>11, <1>12, <1>14, <1>16, <2>3 DEF Returned
      <3>2. KeptBelow(allFinallyStates, Top + 1) = KeptBelow(allFinallyStates', Top' + 1) + 1
        BY <1>10, <3>1
      <3> QED BY <1>3, <1>10, <1>13, <1>17, <3>1, <3>2
    <2>4. CASE s.reason = "RETURN_VOID" /\ ~Frame.value
      <3>1. ~s.kept /\ Returned' = 0 /\ stackSize' = stackSize
        BY <1>11, <1>12, <1>14, <1>16, <2>4 DEF Returned
      <3>2. KeptBelow(allFinallyStates, Top + 1) = KeptBelow(allFinallyStates', Top' + 1)
        BY <1>10, <3>1
      <3> QED BY <1>3, <1>10, <1>13, <1>17, <3>1, <3>2
    <2> QED BY <1>12, <2>1, <2>2, <2>3, <2>4
  <1>19. mode' = "done" => h = 0 /\ FinallyDepths(p) = {}
    <2> SUFFICES ASSUME mode' = "done" PROVE h = 0 /\ FinallyDepths(p) = {}
      OBVIOUS
    <2>1. s.reason \in Returns
      BY <1>12, <1>16 DEF Returns
    <2>2. Here[L].h = 0 /\ \A e \in 1 .. L - 1 : Here[e].code # "finally"
      BY <1>11, <2>1 DEF Outermost
    <2>3. \A e \in 1 .. m : p[e] = Here[e]
      BY <1>7 DEF Common
    <2>4. DOMAIN p = 1 .. m
      <3>1. p \in Positions
        BY <1>7 DEF Moving
      <3> QED BY <1>7, <3>1, LenProperties DEF Positions
    <2>5. FinallyDepths(p) = {}
      BY <2>2, <2>3, <2>4 DEF FinallyDepths, m
    <2> QED BY <2>2, <2>5 DEF h
  <1>20. Pending' => /\ CaughtBelow(callFrames', <<Top + 1, 0>>)
                     /\ allHandlers' = <<>> \/ h = HandlerHeight(p)
    <2> SUFFICES ASSUME Pending'
                 PROVE  /\ CaughtBelow(callFrames', <<Top + 1, 0>>)
                        /\ allHandlers' = <<>> \/ h = HandlerHeight(p)
      OBVIOUS
    <2>1. s.reason = "EXCEPTION"
      BY <1>12, <1>16 DEF Pending
    <2>2. CaughtBelow(callFrames, <<Top, L>>)
      BY <1>11, <2>1
    <2>3. MovesTo(callFrames, callFrames', At(p, h)) /\ At(p, h).pos = p
      BY <1>7, MovedTop
    <2>4. /\ callFrames \in Seq(Frames) /\ callFrames' \in Seq(Frames) /\ Top = Len(callFrames)
          /\ Len(callFrames') = Top /\ callFrames'[Top] = At(p, h)
      BY <1>14, <2>3, GoodFrames DEF MovesTo, Frame
    <2>5. ASSUME NEW q \in Bodies(callFrames')
          PROVE  q \in Bodies(callFrames) /\ Before(q, <<Top, L>>)
      <3>1. q[1] \in 1 .. Top /\ q[2] \in Nat /\ q[2] \in 1 .. Len(callFrames'[q[1]].pos)
        BY <2>4, PlaceTypes DEF Bodies
      <3>2. q[1] = Top => q[2] <= m
        BY <1>7, <2>3, <2>4, <3>1
      <3>3. q \in Bodies(callFrames)
        <4>1. q[1] # Len(callFrames) \/ q[2] <= m
          BY <2>4, <3>2
        <4>2. Common(callFrames[Len(callFrames)].pos, At(p, h).pos, m)
          BY <1>3, <1>7, <2>3, <2>4
        <4> QED BY <2>3, <4>1, <4>2, MovedPlaces DEF Bodies
      <3>4. Before(q, <<Top, L>>)
        <4>1. q[1] < Top \/ (q[1] = Top /\ q[2] < L)
          BY <1>3, <1>8, <3>1, <3>2
        <4> QED BY <4>1 DEF Before
      <3> QED BY <3>3, <3>4
    <2>6. ASSUME NEW q \in Catches(callFrames), Before(q, <<Top, L>>)
          PROVE  q \in Catches(callFrames') /\ Before(q, <<Top + 1, 0>>)
      <3>1. q[1] \in Nat /\ q[2] \in Nat
        BY <2>4, PlaceTypes DEF Catches
      <3>2. q[1] < Top \/ (q[1] = Top /\ q[2] < L)
        BY <2>6 DEF Before
      <3>3. q \in Catches(callFrames')
        <4>1. q[1] # Len(callFrames) \/ q[2] <= m
          BY <1>3, <1>8, <2>4, <3>1, <3>2
        <4>2. Common(callFrames[Len(callFrames)].pos, At(p, h).pos, m)
          BY <1>3, <1>7, <2>3, <2>4
        <4> QED BY <2>3, <4>1, <4>2, MovedPlaces DEF Catches
      <3>4. q[1] < Top + 1
        BY <1>3, <3>1, <3>2
      <3> QED BY <3>3, <3>4 DEF Before
    <2>7. CaughtBelow(callFrames', <<Top + 1, 0>>)
      BY <2>2, <2>5, <2>6 DEF CaughtBelow
    <2>8. allHandlers' = <<>> \/ h = HandlerHeight(p)
      <3>1. \/ from + n = 0
            \/ Here[L].h = HandlerHeight(Outer(Here, L - 1))
        BY <1>2, <1>3 DEF HeightsFit
      <3>2. from + n = 0 => allHandlers = <<>>
        <4>1. allHandlers \in Seq(Handlers)
          BY GoodFrames
        <4> QED BY <1>4, <4>1, EmptySeq
      <3> QED BY <1>1, <3>1, <3>2 DEF h, p
    <2> QED BY <2>7, <2>8
  <1>21. \A k \in 1 .. Top : exception'[k] => k = Top /\ mode' \in {"resume", "catch"}
    BY <1>15, <1>16
  <1>22. mode' \in {"opcode", "catch", "done", "resume"}
    BY <1>12, <1>16
  <1> QED BY <1>7, <1>10, <1>18, <1>19, <1>20, <1>21, <1>22, MoveStructured

(* A frame outside of every finally body: what it found on the operand     *)
(* stack is still there.                                                   *)
LEMMA NoOwnCompletions ==
    ASSUME Good, NoneBeyond(Here, 0)
    PROVE  /\ KeptBelow(allFinallyStates, Top + 1) = KeptBelow(allFinallyStates, Top)
           /\ Held(callFrames) = HeldBelow(callFrames, Top) + Frame.height
           /\ HeldBelow(callFrames, Top) \in Int /\ KeptBelow(allFinallyStates, Top) \in Nat
           /\ HeldBelow(callFrames, Top) + KeptBelow(allFinallyStates, Top)
                  <= Frame.startStackCount
  <1>1. /\ callFrames \in Seq(Frames) /\ Top = Len(callFrames) /\ Top \in Nat \ {0}
        /\ Top \in 1 .. Top /\ Frame = callFrames[Top] /\ Here = callFrames[Top].pos
        /\ allFinallyStates \in Seq(Completions)
    BY GoodFrames
  <1>2. StatesExact(callFrames, allFinallyStates) /\ StartsFit(callFrames, allFinallyStates)
    BY DEF Good, Matched
  <1>3. ASSUME NEW i \in 1 .. Len(allFinallyStates)
        PROVE  allFinallyStates[i].owner[1] \in Nat /\ allFinallyStates[i].owner[1] # Top
    <2> DEFINE q == allFinallyStates[i].owner
    <2>1. q \in Bodies(callFrames)
      BY <1>2 DEF StatesExact
    <2> HIDE DEF q
    <2>2. q[1] # Top \/ q[2] <= 0
      BY <1>1, <2>1, WithinCommon
    <2>3. q[1] \in Nat /\ q[2] \in Nat /\ q[2] \in 1 .. Len(callFrames[q[1]].pos)
      BY <1>1, <2>1, PlaceTypes DEF Bodies
    <2>4. ~(q[2] <= 0)
      BY <2>3
    <2> QED BY <2>2, <2>3, <2>4 DEF q
  <1>4. KeptBelow(allFinallyStates, Top + 1) = KeptBelow(allFinallyStates, Top)
    BY <1>1, <1>3, KeptBelowSame
  <1>5. /\ HeldBelow(callFrames, Top) \in Int
        /\ Held(callFrames) = HeldBelow(callFrames, Top) + Frame.height
    BY <1>1, HeldOfLast
  <1>6. HeldBelow(callFrames, Top) + KeptBelow(allFinallyStates, Top) <= Frame.startStackCount
    BY <1>1, <1>2 DEF StartsFit, HeldBelow
  <1> QED BY <1>1, <1>4, <1>5, <1>6, KeptIsNumber

(* FinallyDepths counts the finally bodies that run in this frame.         *)
LEMMA NoFinallyHere ==
    ASSUME Good
    PROVE  FinallyDepths(Here) = {} <=> NoneBeyond(Here, 0)
  <1>1. DOMAIN Here = 1 .. Len(Here) /\ 0 + 1 = 1
    BY GoodFrames, OuterRegions
  <1> QED BY <1>1 DEF FinallyDepths, NoneBeyond

(* RETURN, RETURN_VALUE and the end of the code.                           *)
LEMMA StructuredReturn ==
    ASSUME Uses = {}, Good, Return
    PROVE  StructuredInv'
  <1>1. /\ mode = "opcode" /\ mode' = "done" /\ Frame.height = 0 /\ FinallyDepths(Here) = {}
        /\ stackSize' = Min({stackSize, Frame.startStackCount})
                            + (IF Frame.value THEN 1 ELSE 0)
        /\ callFrames' = SetTop(At(Here, 0))
        /\ UNCHANGED <<exception, allHandlers, allFinallyStates>>
    BY DEF Return, AtOpcode, Keep
  <1>2. /\ Here \in Positions /\ Frame.handlerIndex \in Nat /\ Len(Here) \in Nat
        /\ stackSize \in Int /\ Frame.startStackCount \in Int /\ Frame.value \in BOOLEAN
        /\ HeightsRise(Here, Frame.height) /\ HeightsFit(Frame.handlerIndex, Here)
        /\ Exact(allHandlers, Frame.handlerIndex, Len(allHandlers), Here)
    BY GoodFrames
  <1>3. /\ ~Frame.native /\ \A k \in 1 .. Top : ~exception[k]
        /\ stackSize = Held(callFrames) + KeptBelow(allFinallyStates, Top + 1) + Returned
        /\ Returned = 0
    BY <1>1, WhileRunning
  <1>4. NoneBeyond(Here, 0)
    BY <1>1, NoFinallyHere
  <1>5. /\ KeptBelow(allFinallyStates, Top + 1) = KeptBelow(allFinallyStates, Top)
        /\ Held(callFrames) = HeldBelow(callFrames, Top) + Frame.height
        /\ HeldBelow(callFrames, Top) \in Int /\ KeptBelow(allFinallyStates, Top) \in Nat
        /\ HeldBelow(callFrames, Top) + KeptBelow(allFinallyStates, Top)
               <= Frame.startStackCount
    BY <1>4, NoOwnCompletions
  <1>6. Min({stackSize, Frame.startStackCount}) = stackSize
    <2>1. stackSize <= Frame.startStackCount
      BY <1>1, <1>3, <1>5
    <2> QED BY <1>2, <2>1, LeastOfTwo
  <1>7. Moving(Here, 0)
    BY <1>1, <1>2, <1>3 DEF Moving
  <1>8. Common(Here, Here, Len(Here)) /\ NoneBeyond(Here, Len(Here))
    <2>1. Len(Here) \in 0 .. Len(Here)
      BY <1>2
    <2> QED BY <1>2, <2>1, CommonOuter
  <1>9. /\ Matched(callFrames', allHandlers', allFinallyStates')
        /\ Held(callFrames) \in Int /\ Held(callFrames') \in Int
        /\ Held(callFrames') = Held(callFrames) - Frame.height + 0
    BY <1>1, <1>7, <1>8, MovedMatched
  <1>10. Top' = Top /\ Frame' = At(Here, 0) /\ At(Here, 0).value = Frame.value
    BY <1>7, MovedTop
  <1>11. Returned' = IF Frame.value THEN 1 ELSE 0
    BY <1>1, <1>10 DEF Returned
  <1>12. stackSize' = Held(callFrames') + KeptBelow(allFinallyStates', Top' + 1) + Returned'
    <2>1. Held(callFrames') = Held(callFrames)
      BY <1>1, <1>9
    <2>2. stackSize' = stackSize + Returned'
      BY <1>1, <1>6, <1>11
    <2>3. KeptBelow(allFinallyStates', Top' + 1) = KeptBelow(allFinallyStates, Top + 1)
      BY <1>1, <1>10
    <2> QED BY <1>3, <2>1, <2>2, <2>3, <1>9, <1>5, <1>11
  <1>13. ~Pending'
    BY <1>1 DEF Pending
  <1> QED BY <1>1, <1>3, <1>7, <1>9, <1>12, <1>13, MoveStructured

(* Where the handlers of a region send control.                            *)
LEMMA FinalHandler ==
    ASSUME NEW pos \in Positions, NEW d \in 1 .. Len(pos), NEW j \in 1 .. Weight(pos[d].code),
           HandlerOf(pos, d, j).type = "FINALLY"
    PROVE  j = 1 /\ HandlerOf(pos, d, j).target = Turn(pos, d, "finally")
  <1> DEFINE code == pos[d].code
             F == Handler("FINALLY", Turn(pos, d, "finally"))
             CF == Handler("CATCH", Turn(pos, d, "catchF"))
             C == Handler("CATCH", Turn(pos, d, "catch"))
  <1>1. /\ code = "try" => Weight(code) = 1 /\ HandlerOf(pos, d, 1) = C
        /\ code = "tryCF" => /\ Weight(code) = 2 /\ HandlerOf(pos, d, 1) = F
                             /\ HandlerOf(pos, d, 2) = CF
        /\ code \in {"tryF", "catchF", "joinF"} => Weight(code) = 1 /\ HandlerOf(pos, d, 1) = F
        /\ code \in {"catch", "finally"} => Weight(code) = 0
        /\ code \in {"try", "tryCF", "tryF", "catchF", "joinF", "catch", "finally"}
    BY HandlersOfOneRegion
  <1>2. C.type = "CATCH" /\ CF.type = "CATCH" /\ F.target = Turn(pos, d, "finally")
    BY DEF Handler
  <1>3. j \in 1 .. Weight(code)
    OBVIOUS
  <1> HIDE DEF code, F, CF, C
  <1>4. CASE code = "try"
    <2>1. j = 1
      BY <1>1, <1>3, <1>4
    <2> QED BY <1>1, <1>2, <1>4, <2>1
  <1>5. CASE code = "tryCF"
    <2>1. j = 1 \/ j = 2
      BY <1>1, <1>3, <1>5
    <2> QED BY <1>1, <1>2, <1>5, <2>1
  <1>6. CASE code \in {"tryF", "catchF", "joinF"}
    <2>1. j = 1
      BY <1>1, <1>3, <1>6
    <2> QED BY <1>1, <1>2, <1>6, <2>1
  <1>7. CASE code \in {"catch", "finally"}
    BY <1>1, <1>3, <1>7
  <1> QED BY <1>1, <1>4, <1>5, <1>6, <1>7

(* The last handler of a region is its catch if it has one, else its       *)
(* finally.                                                                *)
LEMMA LastHandlerOf ==
    ASSUME NEW pos \in Positions, NEW d \in 1 .. Len(pos), Weight(pos[d].code) > 0
    PROVE  LET last == HandlerOf(pos, d, Weight(pos[d].code))
           IN  /\ last.type \in {"CATCH", "FINALLY"}
               /\ last.type = "FINALLY" => /\ pos[d].code \notin {"try", "tryCF"}
                                           /\ Weight(pos[d].code) = 1
                                           /\ last.target = Turn(pos, d, "finally")
               /\ last.type = "CATCH" =>
                     \E code \in {"catch", "catchF"} :
                        /\ last.target = Turn(pos, d, code)
                        /\ Weight(code) = 0 \/ (pos[d].code = "tryCF" /\ code = "catchF")
                        /\ Weight(pos[d].code) = Weight(code) + 1
  <1> DEFINE code == pos[d].code
             F == Handler("FINALLY", Turn(pos, d, "finally"))
             CF == Handler("CATCH", Turn(pos, d, "catchF"))
             C == Handler("CATCH", Turn(pos, d, "catch"))
             last == HandlerOf(pos, d, Weight(pos[d].code))
  <1>1. /\ code = "try" => Weight(code) = 1 /\ HandlerOf(pos, d, 1) = C
        /\ code = "tryCF" => /\ Weight(code) = 2 /\ HandlerOf(pos, d, 1) = F
                             /\ HandlerOf(pos, d, 2) = CF
        /\ code \in {"tryF", "catchF", "joinF"} => Weight(code) = 1 /\ HandlerOf(pos, d, 1) = F
        /\ code \in {"catch", "finally"} => Weight(code) = 0
        /\ code \in {"try", "tryCF", "tryF", "catchF", "joinF", "catch", "finally"}
    BY HandlersOfOneRegion
  <1>2. /\ C.type = "CATCH" /\ CF.type = "CATCH" /\ F.type = "FINALLY"
        /\ F.target = Turn(pos, d, "finally") /\ CF.target = Turn(pos, d, "catchF")
        /\ C.target = Turn(pos, d, "catch")
    BY DEF Handler
  <1>3. Weight("catch") = 0 /\ Weight("catchF") = 1
    BY DEF Weight, WithFinally
  <1>4. CASE code = "try"
    <2>1. last = C /\ Weight(code) = 1
      BY <1>1, <1>4
    <2> HIDE DEF last, C
    <2> QED BY <1>2, <1>3, <1>4, <2>1 DEF last
  <1>5. CASE code = "tryCF"
    <2>1. last = CF /\ Weight(code) = 2
      BY <1>1, <1>5
    <2> HIDE DEF last, CF
    <2> QED BY <1>2, <1>3, <1>5, <2>1 DEF last
  <1>6. CASE code \in {"tryF", "catchF", "joinF"}
    <2>1. last = F /\ Weight(code) = 1
      BY <1>1, <1>6
    <2> HIDE DEF last, F
    <2> QED BY <1>2, <1>6, <2>1 DEF last
  <1>7. CASE code \in {"catch", "finally"}
    BY <1>1, <1>7
  <1> QED BY <1>1, <1>4, <1>5, <1>6, <1>7

(* doneReturnFunction: the innermost finally around the return runs first. *)
LEMMA StructuredReturnThroughFinally ==
    ASSUME Good, ReturnThroughFinally
    PROVE  StructuredInv'
  <1> DEFINE from == Frame.handlerIndex
             b == Len(allHandlers)
             i == Max(Finals)
             saved == stackSize > Frame.startStackCount
             start == Frame.startStackCount
  <1>1. /\ mode = "done" /\ mode' = "resume" /\ Finals # {} /\ UNCHANGED exception
        /\ allHandlers' = SubSeq(allHandlers, 1, i - 1)
        /\ stackSize' = IF saved THEN stackSize - 1 ELSE stackSize
        /\ callFrames' = SetTop(At(allHandlers[i].target, Last(allHandlers[i].target).h))
        /\ allFinallyStates' = Append(allFinallyStates, FinallyState(
               IF saved THEN "RETURN_VALUE" ELSE "RETURN_VOID", allHandlers[i].target,
               Frame.value /\ ~saved))
    BY DEF ReturnThroughFinally, Keep, PushFinallyState, NextFinal
  <1>2. /\ from \in Nat /\ b \in Nat /\ Here \in Positions /\ Len(Here) \in Nat /\ from <= b
        /\ Frame.height \in Nat /\ stackSize \in Int /\ start \in Int /\ Frame.value \in BOOLEAN
        /\ Exact(allHandlers, from, b, Here) /\ HeightsRise(Here, Frame.height)
        /\ Top \in Nat \ {0} /\ allHandlers \in Seq(Handlers)
        /\ callFrames \in Seq(Frames) /\ Top = Len(callFrames)
    BY GoodFrames
  <1>3. Frame.height = 0 /\ FinallyDepths(Here) = {}
    BY <1>1 DEF Good, ModeFits
  <1>4. i \in from + 1 .. b /\ allHandlers[i].type = "FINALLY"
    <2>1. Finals \in SUBSET (0 .. b)
      BY <1>2 DEF Finals
    <2>2. i \in Finals
      BY <1>1, <1>2, <2>1, GreatestNumber
    <2> QED BY <2>2 DEF Finals
  <1> HIDE DEF i
  <1>5. PICK d \in 1 .. Len(Here) : \E j \in 1 .. Weight(Here[d].code) :
              /\ i = from + HandlerCount(Outer(Here, d - 1)) + j
              /\ allHandlers[i] = HandlerOf(Here, d, j)
    BY <1>2, <1>4, OwnerOfHandler
  <1>6. PICK j \in 1 .. Weight(Here[d].code) :
              /\ i = from + HandlerCount(Outer(Here, d - 1)) + j
              /\ allHandlers[i] = HandlerOf(Here, d, j)
    BY <1>5
  <1> DEFINE p == Turn(Here, d, "finally")
             h == Here[d].h
             m == d - 1
             n == HandlerCount(Outer(Here, d - 1))
             s == FinallyState(IF saved THEN "RETURN_VALUE" ELSE "RETURN_VOID", p,
                               Frame.value /\ ~saved)
  <1>7. j = 1 /\ allHandlers[i].target = p
    BY <1>2, <1>4, <1>6, FinalHandler
  <1>8. /\ d - 1 \in 0 .. Len(Here) /\ n \in Nat /\ m \in Nat /\ m + 1 = d /\ d \in Nat
        /\ Weight("finally") = 0 /\ "finally" \in Codes
    <2>1. d - 1 \in 0 .. Len(Here) /\ d \in Nat /\ d - 1 \in Nat /\ (d - 1) + 1 = d
      BY <1>2
    <2> QED BY <1>2, <2>1, CountOfOuter, WeightedCodes DEF Codes
  <1>9. p \in Positions /\ Last(p).h = h /\ Len(p) = d /\ h \in Nat
    BY <1>2, <1>8, TurnIs
  <1>10. KeepsFirst(from + n + Weight("finally"))
    <2>1. i - 1 = from + n + Weight("finally") /\ i - 1 \in 0 .. Len(allHandlers)
      <3>1. i = from + n + 1
        BY <1>6, <1>7
      <3>2. i \in from + 1 .. b /\ from \in Nat /\ n \in Nat /\ b \in Nat /\ Weight("finally") = 0
        BY <1>2, <1>4, <1>8
      <3> HIDE DEF n, from
      <3>3. i - 1 = from + n /\ i - 1 \in 0 .. b
        BY <3>1, <3>2
      <3> QED BY <3>2, <3>3
    <2>2. Len(allHandlers') = i - 1 /\ \A k \in 1 .. i - 1 : allHandlers'[k] = allHandlers[k]
      BY <1>1, <1>2, <2>1, Prefix
    <2>3. KeepsFirst(i - 1)
      BY <1>2, <2>1, <2>2 DEF KeepsFirst
    <2> QED BY <2>1, <2>3
  <1>11. callFrames' = SetTop(At(p, h))
    BY <1>1, <1>7, <1>9
  <1>12. /\ stackSize = Held(callFrames) + KeptBelow(allFinallyStates, Top + 1) + Returned
         /\ ~Frame.native /\ \A k \in 1 .. Top : ~exception[k]
    BY <1>1, WhileRunning
  <1>13. /\ Moving(p, h) /\ Common(Here, p, m) /\ Len(p) = m + 1 /\ p[m + 1].code = "finally"
    BY <1>8, <1>10, <1>11, <1>12, MovingTurn
  <1>14. h = 0
    <2>1. h <= 0
      BY <1>2, <1>3 DEF HeightsRise
    <2> QED BY <1>9, <2>1
  <1>15. NoneBeyond(Here, m) /\ NoneBeyond(Here, 0)
    <2>1. NoneBeyond(Here, 0)
      BY <1>3, NoFinallyHere
    <2>2. \A k \in m + 1 .. Len(Here) : k \in 0 + 1 .. Len(Here)
      BY <1>8
    <2> QED BY <2>1, <2>2 DEF NoneBeyond
  <1>16. allFinallyStates' = Append(allFinallyStates, s)
    BY <1>1, <1>7
  <1>17. /\ s.reason = (IF saved THEN "RETURN_VALUE" ELSE "RETURN_VOID")
         /\ s.owner = <<Top, d>> /\ s.kept = (Frame.value /\ ~saved) /\ s \in Completions
    BY <1>2, <1>8, <1>9 DEF FinallyState, Completions
  <1>18. /\ Held(callFrames) = HeldBelow(callFrames, Top) + Frame.height
         /\ KeptBelow(allFinallyStates, Top + 1) = KeptBelow(allFinallyStates, Top)
         /\ HeldBelow(callFrames, Top) \in Int /\ KeptBelow(allFinallyStates, Top) \in Nat
         /\ HeldBelow(callFrames, Top) + KeptBelow(allFinallyStates, Top) <= start
    BY <1>15, NoOwnCompletions
  <1>19. Returned = IF Frame.value THEN 1 ELSE 0
    BY <1>1 DEF Returned
  <1>20. saved => Frame.value
    <2> SUFFICES ASSUME ~Frame.value, saved PROVE FALSE
      OBVIOUS
    <2>1. Returned = 0
      BY <1>19
    <2> QED BY <1>2, <1>3, <1>12, <1>18, <2>1
  <1> HIDE DEF p, h, s
  <1>21. StateFits(callFrames', s)
    <2>1. s.owner[1] = Top /\ s.owner[2] = d
      BY <1>17
    <2>2. /\ callFrames'[Top] = At(p, h) /\ At(p, h).pos = p /\ At(p, h).value = Frame.value
      BY <1>13, MovedTop DEF Frame
    <2>3. Outermost(p, d)
      <3>1. p[d].h = 0
        <4>1. p[d] = Region("finally", h)
          BY <1>2, <1>8, TurnIs DEF p, h
        <4> QED BY <1>14, <4>1 DEF Region
      <3>2. ASSUME NEW e \in 1 .. d - 1 PROVE p[e].code # "finally"
        <4>1. p[e] = Here[e]
          BY <1>13, <3>2 DEF Common
        <4>2. e \in DOMAIN Here
          <5>1. e \in 1 .. Len(Here) /\ DOMAIN Here = 1 .. Len(Here)
            BY <1>2, <1>8, OuterRegions
          <5> QED BY <5>1
        <4> QED BY <1>3, <4>1, <4>2 DEF FinallyDepths
      <3> QED BY <3>1, <3>2 DEF Outermost
    <2>4. s.reason # "EXCEPTION" /\ s.reason \in Returns
      BY <1>17 DEF Returns
    <2>5. s.kept <=> s.reason = "RETURN_VOID" /\ Frame.value
      BY <1>17, <1>20
    <2>6. s.reason = "RETURN_VALUE" => Frame.value
      BY <1>17, <1>20
    <2> QED BY <2>1, <2>2, <2>3, <2>4, <2>5, <2>6 DEF StateFits
  <1>22. /\ Matched(callFrames', allHandlers', allFinallyStates')
         /\ Held(callFrames) \in Int /\ Held(callFrames') \in Int
         /\ Held(callFrames') = Held(callFrames) - Frame.height + h
         /\ KeptBelow(allFinallyStates, Top + 1) \in Nat
         /\ KeptBelow(allFinallyStates', Top' + 1)
                  = KeptBelow(allFinallyStates, Top + 1) + (IF s.kept THEN 1 ELSE 0)
    <2>1. s.owner = <<Top, m + 1>>
      BY <1>8, <1>17
    <2> HIDE DEF m
    <2> QED BY <1>13, <1>15, <1>16, <1>17, <1>21, <2>1, MovedInto
  <1>23. Returned' = 0 /\ ~Pending'
    <2>1. Top' = Top /\ Top \in 1 .. Top
      BY <1>2, <1>13, MovedTop
    <2> QED BY <1>1, <1>12, <2>1 DEF Returned, Pending
  <1>24. stackSize' = Held(callFrames') + KeptBelow(allFinallyStates', Top' + 1) + Returned'
    <2>0. Held(callFrames') = Held(callFrames)
      BY <1>3, <1>14, <1>22
    <2>1. CASE saved
      <3>1. Returned = 1 /\ ~s.kept /\ stackSize' = stackSize - 1
        BY <1>1, <1>17, <1>19, <1>20, <2>1
      <3>2. KeptBelow(allFinallyStates', Top' + 1) = KeptBelow(allFinallyStates, Top + 1)
        BY <1>22, <3>1
      <3> QED BY <1>2, <1>12, <1>22, <1>23, <2>0, <3>1, <3>2
    <2>2. CASE ~saved /\ Frame.value
      <3>1. Returned = 1 /\ s.kept /\ stackSize' = stackSize
        BY <1>1, <1>17, <1>19, <2>2
      <3>2. KeptBelow(allFinallyStates', Top' + 1) = KeptBelow(allFinallyStates, Top + 1) + 1
        BY <1>22, <3>1
      <3> QED BY <1>2, <1>12, <1>22, <1>23, <2>0, <3>1, <3>2
    <2>3. CASE ~saved /\ ~Frame.value
      <3>1. Returned = 0 /\ ~s.kept /\ stackSize' = stackSize
        BY <1>1, <1>17, <1>19, <2>3
      <3>2. KeptBelow(allFinallyStates', Top' + 1) = KeptBelow(allFinallyStates, Top + 1)
        BY <1>22, <3>1
      <3> QED BY <1>2, <1>12, <1>22, <1>23, <2>0, <3>1, <3>2
    <2> QED BY <2>1, <2>2, <2>3
  <1>25. \A k \in 1 .. Top : exception'[k] => k = Top /\ mode' \in {"resume", "catch"}
    BY <1>1, <1>12
  <1> QED BY <1>1, <1>13, <1>22, <1>23, <1>24, <1>25, MoveStructured

(* The handler an exception in the running frame reaches: that of the      *)
(* innermost region that has one.                                          *)
Reached(d) ==
    /\ Weight(Here[d].code) > 0
    /\ \A e \in d + 1 .. Len(Here) : Weight(Here[e].code) = 0
    /\ allHandlers # <<>> /\ Last(allHandlers) = HandlerOf(Here, d, Weight(Here[d].code))
    /\ Len(allHandlers) = Frame.handlerIndex + HandlerCount(Outer(Here, d - 1))
                              + Weight(Here[d].code)

(* A frame that has handlers reaches one of them.                          *)
LEMMA ReachedHandler ==
    ASSUME Good, FrameHasHandler
    PROVE  ~Frame.native /\ \E d \in 1 .. Len(Here) : Reached(d)
  <1>1. /\ Here \in Positions /\ Frame.handlerIndex \in Nat /\ Len(allHandlers) \in Nat
        /\ Exact(allHandlers, Frame.handlerIndex, Len(allHandlers), Here)
        /\ Frame.native => Here = <<>> /\ Frame.height = 0
        /\ allHandlers \in Seq(Handlers)
    BY GoodFrames
  <1>2. Frame.handlerIndex < Len(allHandlers)
    BY <1>1 DEF FrameHasHandler
  <1>3. PICK d \in 1 .. Len(Here) :
              /\ Weight(Here[d].code) > 0
              /\ Len(allHandlers) = Frame.handlerIndex + HandlerCount(Outer(Here, d - 1))
                                        + Weight(Here[d].code)
              /\ allHandlers[Len(allHandlers)] = HandlerOf(Here, d, Weight(Here[d].code))
              /\ \A e \in d + 1 .. Len(Here) : Weight(Here[e].code) = 0
    BY <1>1, <1>2, InnermostHandler
  <1>4. ~Frame.native
    <2> SUFFICES ASSUME Frame.native PROVE FALSE
      OBVIOUS
    <2>1. Len(Here) = 0
      BY <1>1
    <2> QED BY <1>3, <2>1
  <1>5. allHandlers # <<>> /\ Last(allHandlers) = allHandlers[Len(allHandlers)]
    <2>1. Len(allHandlers) > 0
      BY <1>1, <1>2
    <2> QED BY <1>1, <2>1 DEF Last
  <1>6. Reached(d)
    BY <1>3, <1>5 DEF Reached
  <1> QED BY <1>4, <1>6

(* An exception that a catch inside takes finds no finally body running    *)
(* within the region whose handler it reaches.                             *)
LEMMA ReachedIsClear ==
    ASSUME Good, NEW d \in 1 .. Len(Here), Reached(d),
           CaughtBelow(callFrames, <<Top + 1, 0>>)
    PROVE  /\ NoneBeyond(Here, d - 1)
           /\ Here[d].code \notin {"try", "tryCF"} => CaughtBelow(callFrames, <<Top, d>>)
  <1>1. /\ callFrames \in Seq(Frames) /\ Top = Len(callFrames) /\ Top \in Nat \ {0}
        /\ Here = callFrames[Top].pos /\ Len(Here) \in Nat /\ Top \in 1 .. Len(callFrames)
    BY GoodFrames
  <1>2. \A e \in d + 1 .. Len(Here) : Here[e].code \notin {"try", "tryCF"}
    BY WeightedCodes DEF Reached
  <1>3. ASSUME NEW q \in Catches(callFrames), Before(q, <<Top + 1, 0>>)
        PROVE  /\ q[1] \in Nat /\ q[2] \in Nat /\ q[1] <= Top
               /\ q[1] = Top => q[2] \in 1 .. d /\ Here[q[2]].code \in {"try", "tryCF"}
    <2>1. /\ q[1] \in 1 .. Len(callFrames) /\ q[1] \in Nat /\ q[2] \in Nat
          /\ q[2] \in 1 .. Len(callFrames[q[1]].pos)
          /\ callFrames[q[1]].pos[q[2]].code \in {"try", "tryCF"}
      BY <1>1, PlaceTypes DEF Catches
    <2>2. ASSUME q[1] = Top
          PROVE  q[2] \in 1 .. d /\ Here[q[2]].code \in {"try", "tryCF"}
      <3>1. q[2] \in 1 .. Len(Here) /\ Here[q[2]].code \in {"try", "tryCF"}
        BY <1>1, <2>1, <2>2
      <3>2. q[2] \notin d + 1 .. Len(Here)
        BY <1>2, <3>1
      <3> QED BY <3>1, <3>2, <1>1
    <2> QED BY <1>1, <2>1, <2>2
  <1>4. NoneBeyond(Here, d - 1)
    <2> SUFFICES ASSUME NEW e \in d .. Len(Here), Here[e].code = "finally"
                 PROVE  FALSE
      BY DEF NoneBeyond
    <2> DEFINE p == <<Top, e>>
    <2>1. p \in Bodies(callFrames) /\ e \in Nat /\ e >= d /\ p[1] = Top /\ p[2] = e
      <3>1. p = <<p[1], p[2]>> /\ p[1] = Top /\ p[2] = e /\ e \in 1 .. Len(Here) /\ e \in Nat
        BY <1>1
      <3>2. /\ p[1] \in 1 .. Len(callFrames) /\ p[2] \in 1 .. Len(callFrames[p[1]].pos)
            /\ callFrames[p[1]].pos[p[2]].code \in {"finally"}
        BY <1>1, <3>1
      <3> QED BY <1>1, <3>1, <3>2, PlacesAre DEF Bodies
    <2>2. Before(p, <<Top + 1, 0>>)
      BY <1>1, <2>1 DEF Before
    <2>3. PICK q \in Catches(callFrames) : Before(p, q) /\ Before(q, <<Top + 1, 0>>)
      BY <2>1, <2>2 DEF CaughtBelow
    <2>4. /\ q[1] \in Nat /\ q[2] \in Nat /\ q[1] <= Top
          /\ q[1] = Top => q[2] \in 1 .. d
      BY <1>3, <2>3
    <2> HIDE DEF p
    <2> QED BY <1>1, <2>1, <2>3, <2>4 DEF Before
  <1>5. ASSUME Here[d].code \notin {"try", "tryCF"}
        PROVE  CaughtBelow(callFrames, <<Top, d>>)
    <2> SUFFICES ASSUME NEW p \in Bodies(callFrames), Before(p, <<Top, d>>)
                 PROVE  \E q \in Catches(callFrames) : Before(p, q) /\ Before(q, <<Top, d>>)
      BY DEF CaughtBelow
    <2>1. p[1] \in Nat /\ p[1] <= Top
      <3>1. p[1] \in 1 .. Len(callFrames)
        BY <1>1, PlaceTypes DEF Bodies
      <3> QED BY <1>1, <3>1
    <2>2. Before(p, <<Top + 1, 0>>)
      BY <1>1, <2>1 DEF Before
    <2>3. PICK q \in Catches(callFrames) : Before(p, q) /\ Before(q, <<Top + 1, 0>>)
      BY <2>2 DEF CaughtBelow
    <2>4. /\ q[1] \in Nat /\ q[2] \in Nat /\ q[1] <= Top
          /\ q[1] = Top => q[2] \in 1 .. d /\ Here[q[2]].code \in {"try", "tryCF"}
      BY <1>3, <2>3
    <2>5. q[1] = Top => q[2] # d
      BY <1>5, <2>4
    <2>6. Before(q, <<Top, d>>)
      BY <1>1, <2>4, <2>5 DEF Before
    <2> QED BY <2>3, <2>6
  <1> QED BY <1>4, <1>5

(* resumeCallFrame with a handler: what both kinds of it have in common.   *)
LEMMA BeforeHandling ==
    ASSUME Good, Pending, MayHandle
    PROVE  /\ ~Frame.native
           /\ CaughtBelow(callFrames, <<Top + 1, 0>>)
           /\ \E d \in 1 .. Len(Here) :
                 /\ Reached(d) /\ Frame.height = Here[d].h
                 /\ NoneBeyond(Here, d - 1)
                 /\ Here[d].code \notin {"try", "tryCF"} => CaughtBelow(callFrames, <<Top, d>>)
           /\ stackSize = Held(callFrames) + KeptBelow(allFinallyStates, Top + 1)
           /\ \A k \in 1 .. Top : exception[k] => k = Top
  <1>1. ~Frame.native /\ \E d \in 1 .. Len(Here) : Reached(d)
    BY ReachedHandler DEF MayHandle
  <1>2. PICK d \in 1 .. Len(Here) : Reached(d)
    BY <1>1
  <1>3. /\ CaughtBelow(callFrames, <<Top + 1, 0>>)
        /\ allHandlers = <<>> \/ Frame.height = HandlerHeight(Here)
        /\ Lost \/ stackSize = Held(callFrames) + KeptBelow(allFinallyStates, Top + 1) + Returned
        /\ \A k \in 1 .. Top : exception[k] => k = Top
    BY DEF Good, ModeFits
  <1>4. allHandlers # <<>> /\ ~Lost
    BY <1>2 DEF Reached, Lost
  <1>5. HandlerHeight(Here) = Here[d].h
    <2>1. Here \in Positions
      BY GoodFrames
    <2> QED BY <1>2, <2>1, HandlerHeightIs DEF Reached
  <1>6. Returned = 0
    BY DEF Returned, Pending
  <1>7. stackSize = Held(callFrames) + KeptBelow(allFinallyStates, Top + 1)
    <2>1. Held(callFrames) \in Int /\ KeptBelow(allFinallyStates, Top + 1) \in Nat
      <3>1. /\ callFrames \in Seq(Frames) /\ Top = Len(callFrames) /\ Top \in Nat \ {0}
            /\ allFinallyStates \in Seq(Completions)
        BY GoodFrames
      <3>2. Held(callFrames) \in Int
        BY <3>1, HeldOfLast
      <3> QED BY <3>1, <3>2, KeptIsNumber
    <2> QED BY <1>3, <1>4, <1>6, <2>1
  <1>8. /\ NoneBeyond(Here, d - 1)
        /\ Here[d].code \notin {"try", "tryCF"} => CaughtBelow(callFrames, <<Top, d>>)
    BY <1>2, <1>3, ReachedIsClear
  <1> QED BY <1>1, <1>2, <1>3, <1>4, <1>5, <1>7, <1>8

(* resumeCallFrame with a catch.                                           *)
LEMMA StructuredCatch ==
    ASSUME Good, UnwindToCatch
    PROVE  StructuredInv'
  <1>1. /\ Pending /\ MayHandle /\ Last(allHandlers).type = "CATCH"
        /\ callFrames' = SetTop(At(Last(allHandlers).target, Last(Last(allHandlers).target).h))
        /\ allHandlers' = Front(allHandlers) /\ mode' = "catch"
        /\ UNCHANGED <<exception, allFinallyStates, stackSize, isFatalException>>
    BY DEF UnwindToCatch
  <1>2. /\ ~Frame.native
        /\ stackSize = Held(callFrames) + KeptBelow(allFinallyStates, Top + 1)
        /\ \A k \in 1 .. Top : exception[k] => k = Top
    BY <1>1, BeforeHandling
  <1>3. PICK d \in 1 .. Len(Here) :
            Reached(d) /\ Frame.height = Here[d].h /\ NoneBeyond(Here, d - 1)
    BY <1>1, BeforeHandling
  <1>4. /\ Here \in Positions /\ Frame.handlerIndex \in Nat /\ Len(Here) \in Nat
        /\ allFinallyStates \in Seq(Completions) /\ Top = Len(callFrames)
        /\ Here[d].h \in Nat /\ d - 1 \in 0 .. Len(Here)
        /\ HandlerCount(Outer(Here, d - 1)) \in Nat
    <2>1. /\ Here \in Positions /\ Frame.handlerIndex \in Nat /\ Len(Here) \in Nat
          /\ allFinallyStates \in Seq(Completions) /\ Top = Len(callFrames)
      BY GoodFrames
    <2>2. d - 1 \in 0 .. Len(Here) /\ HandlerCount(Outer(Here, d - 1)) \in Nat
      BY <2>1, CountOfOuter
    <2>3. Here[d].h \in Nat
      BY <2>1, OuterRegions
    <2> QED BY <2>1, <2>2, <2>3
  <1>5. PICK code \in {"catch", "catchF"} :
              /\ Last(allHandlers).target = Turn(Here, d, code)
              /\ Weight(code) = 0 \/ (Here[d].code = "tryCF" /\ code = "catchF")
              /\ Weight(Here[d].code) = Weight(code) + 1
    <2>1. Last(allHandlers) = HandlerOf(Here, d, Weight(Here[d].code)) /\ Weight(Here[d].code) > 0
      BY <1>3 DEF Reached
    <2>2. HandlerOf(Here, d, Weight(Here[d].code)).type = "CATCH"
      BY <1>1, <2>1
    <2>3. \E code \in {"catch", "catchF"} :
              /\ HandlerOf(Here, d, Weight(Here[d].code)).target = Turn(Here, d, code)
              /\ Weight(code) = 0 \/ (Here[d].code = "tryCF" /\ code = "catchF")
              /\ Weight(Here[d].code) = Weight(code) + 1
      BY <1>4, <2>1, <2>2, LastHandlerOf
    <2> QED BY <2>1, <2>3
  <1> DEFINE p == Turn(Here, d, code)
             h == Here[d].h
             m == d - 1
  <1>6. code \in Codes /\ code # "finally" /\ Weight(code) \in Nat
    BY <1>5, WeightedCodes DEF Codes
  <1>7. KeepsFirst(Frame.handlerIndex + HandlerCount(Outer(Here, d - 1)) + Weight(code))
    <2>1. KeepsFirst(Len(allHandlers) - 1)
      BY <1>1, <1>3, FrontKeepsFirst DEF Reached
    <2>2. Len(allHandlers) = Frame.handlerIndex + HandlerCount(Outer(Here, d - 1))
                                 + Weight(Here[d].code)
      BY <1>3 DEF Reached
    <2>3. Len(allHandlers) - 1
              = Frame.handlerIndex + HandlerCount(Outer(Here, d - 1)) + Weight(code)
      BY SMTT(30), <1>4, <1>5, <1>6, <2>2
    <2> QED BY <2>1, <2>3
  <1>8. Last(p).h = h
    BY <1>4, <1>6, TurnIs
  <1>9. callFrames' = SetTop(At(p, h))
    BY <1>1, <1>5, <1>8
  <1>10. Moving(p, h) /\ Common(Here, p, m) /\ NoneBeyond(p, m)
    BY <1>2, <1>5, <1>6, <1>7, <1>9, MovingTurn
  <1> HIDE DEF p, h, m
  <1>11. /\ Matched(callFrames', allHandlers', allFinallyStates')
         /\ Held(callFrames) \in Int /\ Held(callFrames') \in Int
         /\ Held(callFrames') = Held(callFrames) - Frame.height + h
    <2>1. NoneBeyond(Here, m)
      BY <1>3 DEF m
    <2> QED BY <1>1, <1>10, <2>1, MovedMatched
  <1>12. Top' = Top /\ Frame' = At(p, h)
    BY <1>10, MovedTop
  <1>13. stackSize' = Held(callFrames') + KeptBelow(allFinallyStates', Top' + 1) + Returned'
    <2>1. Frame.height = h /\ h \in Nat
      BY <1>3, <1>4 DEF h
    <2>2. Returned' = 0
      BY <1>1 DEF Returned
    <2>3. KeptBelow(allFinallyStates', Top' + 1) = KeptBelow(allFinallyStates, Top + 1)
      BY <1>1, <1>12
    <2>4. KeptBelow(allFinallyStates, Top + 1) \in Nat
      BY <1>4, KeptIsNumber
    <2> QED BY <1>1, <1>2, <1>11, <2>1, <2>2, <2>3, <2>4
  <1>14. ~Pending'
    BY <1>1 DEF Pending
  <1>15. \A k \in 1 .. Top : exception'[k] => k = Top /\ mode' \in {"resume", "catch"}
    BY <1>1, <1>2
  <1>16. mode' \in {"opcode", "catch", "done", "resume"} /\ mode' # "done"
    BY <1>1
  <1> QED BY <1>10, <1>11, <1>13, <1>14, <1>15, <1>16, MoveStructured

(* resumeCallFrame with a finally: the exception waits for the body to     *)
(* end.                                                                    *)
LEMMA StructuredFinally ==
    ASSUME Good, UnwindToFinally
    PROVE  StructuredInv'
  <1>1. /\ Pending /\ MayHandle /\ Last(allHandlers).type = "FINALLY"
        /\ callFrames' = SetTop(At(Last(allHandlers).target, Last(Last(allHandlers).target).h))
        /\ allFinallyStates' = Append(allFinallyStates,
               FinallyState("EXCEPTION", Last(allHandlers).target, FALSE))
        /\ allHandlers' = Front(allHandlers) /\ mode' = "opcode"
        /\ exception' = [exception EXCEPT ![Top] = FALSE]
        /\ UNCHANGED <<stackSize, isFatalException>>
    BY DEF UnwindToFinally, PushFinallyState
  <1>2. /\ ~Frame.native
        /\ stackSize = Held(callFrames) + KeptBelow(allFinallyStates, Top + 1)
        /\ \A k \in 1 .. Top : exception[k] => k = Top
    BY <1>1, BeforeHandling
  <1>3. PICK d \in 1 .. Len(Here) :
            /\ Reached(d) /\ Frame.height = Here[d].h /\ NoneBeyond(Here, d - 1)
            /\ Here[d].code \notin {"try", "tryCF"} => CaughtBelow(callFrames, <<Top, d>>)
    BY <1>1, BeforeHandling
  <1>4. /\ Here \in Positions /\ Frame.handlerIndex \in Nat /\ Len(Here) \in Nat
        /\ allFinallyStates \in Seq(Completions) /\ Top = Len(callFrames)
        /\ Top \in Nat \ {0} /\ Top <= MaxFrames /\ exception \in [1 .. MaxFrames -> BOOLEAN]
        /\ Here[d].h \in Nat /\ d - 1 \in 0 .. Len(Here)
        /\ HandlerCount(Outer(Here, d - 1)) \in Nat
        /\ callFrames \in Seq(Frames) /\ Top \in 1 .. Len(callFrames)
        /\ Here = callFrames[Len(callFrames)].pos
    <2>1. /\ Here \in Positions /\ Frame.handlerIndex \in Nat /\ Len(Here) \in Nat
          /\ allFinallyStates \in Seq(Completions) /\ Top = Len(callFrames)
          /\ Top \in Nat \ {0} /\ Top <= MaxFrames /\ exception \in [1 .. MaxFrames -> BOOLEAN]
          /\ callFrames \in Seq(Frames) /\ Top \in 1 .. Len(callFrames)
          /\ Here = callFrames[Len(callFrames)].pos
      BY GoodFrames
    <2>2. d - 1 \in 0 .. Len(Here) /\ HandlerCount(Outer(Here, d - 1)) \in Nat
      BY <2>1, CountOfOuter
    <2>3. Here[d].h \in Nat
      BY <2>1, OuterRegions
    <2> QED BY <2>1, <2>2, <2>3
  <1>5. /\ Last(allHandlers).target = Turn(Here, d, "finally")
        /\ Weight(Here[d].code) = 1 /\ Here[d].code \notin {"try", "tryCF"}
    <2>1. Last(allHandlers) = HandlerOf(Here, d, Weight(Here[d].code)) /\ Weight(Here[d].code) > 0
      BY <1>3 DEF Reached
    <2>2. HandlerOf(Here, d, Weight(Here[d].code)).type = "FINALLY"
      BY <1>1, <2>1
    <2>3. /\ HandlerOf(Here, d, Weight(Here[d].code)).target = Turn(Here, d, "finally")
          /\ Weight(Here[d].code) = 1 /\ Here[d].code \notin {"try", "tryCF"}
      BY <1>4, <2>1, <2>2, LastHandlerOf
    <2> QED BY <2>1, <2>3
  <1> DEFINE p == Turn(Here, d, "finally")
             h == Here[d].h
             m == d - 1
             s == FinallyState("EXCEPTION", p, FALSE)
  <1>6. "finally" \in Codes /\ Weight("finally") = 0
    BY WeightedCodes DEF Codes
  <1>7. KeepsFirst(Frame.handlerIndex + HandlerCount(Outer(Here, d - 1)) + Weight("finally"))
    <2>1. KeepsFirst(Len(allHandlers) - 1)
      BY <1>1, <1>3, FrontKeepsFirst DEF Reached
    <2>2. Len(allHandlers) = Frame.handlerIndex + HandlerCount(Outer(Here, d - 1))
                                 + Weight(Here[d].code)
      BY <1>3 DEF Reached
    <2>3. Len(allHandlers) - 1
              = Frame.handlerIndex + HandlerCount(Outer(Here, d - 1)) + Weight("finally")
      BY <1>4, <1>5, <1>6, <2>2
    <2> QED BY <2>1, <2>3
  <1>8. Last(p).h = h /\ Len(p) = d /\ p \in Positions
    BY <1>4, <1>6, TurnIs
  <1>9. callFrames' = SetTop(At(p, h)) /\ allFinallyStates' = Append(allFinallyStates, s)
    BY <1>1, <1>5, <1>8
  <1>10. /\ Moving(p, h) /\ Common(Here, p, m) /\ Len(p) = m + 1 /\ p[m + 1].code = "finally"
    BY <1>2, <1>6, <1>7, <1>9, MovingTurn
  <1>11. s.owner = <<Top, d>> /\ s.reason = "EXCEPTION" /\ s.kept = FALSE /\ s \in Completions
    BY <1>4, <1>8 DEF FinallyState, Completions
  <1>12. m \in Nat /\ m + 1 = d /\ d \in Nat
    BY <1>4
  <1> HIDE DEF p, h, m, s
  <1>13. CaughtBelow(callFrames', <<Top, d>>)
    <2>1. MovesTo(callFrames, callFrames', At(p, h)) /\ At(p, h).pos = p
      BY <1>10, MovedTop
    <2>2. Common(callFrames[Len(callFrames)].pos, At(p, h).pos, m)
      BY <1>4, <1>10, <2>1
    <2>3. Top = Len(callFrames) => d <= m + 1
      BY <1>12
    <2>4. Agree(callFrames, callFrames', <<Top, d>>)
      BY <1>4, <1>12, <2>1, <2>2, <2>3, MovedAgree
    <2> QED BY <1>3, <1>5, <2>4, CaughtAlso
  <1>14. StateFits(callFrames', s)
    BY <1>11, <1>13 DEF StateFits, Returns
  <1>15. /\ Matched(callFrames', allHandlers', allFinallyStates')
         /\ Held(callFrames) \in Int /\ Held(callFrames') \in Int
         /\ Held(callFrames') = Held(callFrames) - Frame.height + h
         /\ KeptBelow(allFinallyStates, Top + 1) \in Nat
         /\ KeptBelow(allFinallyStates', Top' + 1)
                = KeptBelow(allFinallyStates, Top + 1) + (IF s.kept THEN 1 ELSE 0)
    <2>1. NoneBeyond(Here, m) /\ s.owner = <<Top, m + 1>>
      BY <1>3, <1>11, <1>12 DEF m
    <2> QED BY <1>9, <1>10, <1>11, <1>14, <2>1, MovedInto
  <1>16. Top' = Top /\ Frame' = At(p, h)
    BY <1>10, MovedTop
  <1>17. stackSize' = Held(callFrames') + KeptBelow(allFinallyStates', Top' + 1) + Returned'
    <2>1. Frame.height = h /\ h \in Nat
      BY <1>3, <1>4 DEF h
    <2>2. Returned' = 0
      BY <1>1 DEF Returned
    <2>3. KeptBelow(allFinallyStates', Top' + 1) = KeptBelow(allFinallyStates, Top + 1)
      BY <1>11, <1>15
    <2>4. Held(callFrames') = Held(callFrames) /\ stackSize' = stackSize
      BY <1>1, <1>15, <2>1
    <2> QED BY <1>2, <1>15, <2>2, <2>3, <2>4
  <1>18. ~Pending'
    BY <1>1 DEF Pending
  <1>19. \A k \in 1 .. Top : ~exception'[k]
    <2> TAKE k \in 1 .. Top
    <2>1. k \in 1 .. MaxFrames /\ Top \in 1 .. MaxFrames
      BY <1>4, UnwindingAssumption
    <2> QED BY <1>1, <1>2, <1>4, <2>1
  <1>20. mode' \in {"opcode", "catch", "done", "resume"} /\ mode' # "done"
    BY <1>1
  <1> QED BY <1>10, <1>15, <1>17, <1>18, <1>19, <1>20, MoveStructured

(* Steps that leave the three stacks alone.                                *)
LEMMA StaysStructured ==
    ASSUME Good, UNCHANGED <<callFrames, allHandlers, allFinallyStates, stackSize>>,
           mode' \in {"opcode", "resume"}, ~Frame.native \/ mode' = "resume",
           ~Lost, Returned = 0,
           \A k \in 1 .. Top : exception'[k] => k = Top /\ mode' = "resume",
           mode' = "resume" => /\ exception'[Top]
                               /\ CaughtBelow(callFrames, <<Top + 1, 0>>)
                               /\ allHandlers = <<>> \/ Frame.height = HandlerHeight(Here)
    PROVE  StructuredInv'
  <1>1. Top' = Top /\ Frame' = Frame /\ Here' = Here
    BY DEF Top, Frame, Here
  <1>2. stackSize = Held(callFrames) + KeptBelow(allFinallyStates, Top + 1) + Returned
    BY DEF Good, ModeFits
  <1>3. Returned' = 0
    BY DEF Returned
  <1>4. stackSize' = Held(callFrames') + KeptBelow(allFinallyStates', Top' + 1) + Returned'
    BY <1>1, <1>2, <1>3
  <1>5. ModeFits'
    <2>1. /\ callFrames' = callFrames /\ allHandlers' = allHandlers
          /\ allFinallyStates' = allFinallyStates
      OBVIOUS
    <2>2. \A k \in 1 .. Top' : exception'[k] => k = Top' /\ mode' \in {"resume", "catch"}
      BY <1>1
    <2>3. /\ mode' \in {"opcode", "catch", "done"} => ~Frame'.native
          /\ mode' = "resume" /\ Frame'.native => exception'[Top']
          /\ mode' = "done" => Frame'.height = 0 /\ FinallyDepths(Here') = {}
      BY <1>1
    <2>4. Pending' => /\ CaughtBelow(callFrames', <<Top' + 1, 0>>)
                      /\ allHandlers' = <<>> \/ Frame'.height = HandlerHeight(Here')
      BY <1>1, <2>1 DEF Pending
    <2> QED BY <1>4, <2>2, <2>3, <2>4 DEF ModeFits
  <1>6. Matched(callFrames', allHandlers', allFinallyStates')
    BY DEF Good
  <1> QED BY <1>5, <1>6 DEF StructuredInv

(* LOAD_EXCEPTION.                                                         *)
LEMMA StructuredLoadException ==
    ASSUME Good, LoadException
    PROVE  StructuredInv'
  <1>1. /\ mode = "catch" /\ mode' = "opcode" /\ exception' = [exception EXCEPT ![Top] = FALSE]
        /\ UNCHANGED <<callFrames, allHandlers, allFinallyStates, stackSize>>
    BY DEF LoadException
  <1>2. /\ Top \in 1 .. MaxFrames /\ exception \in [1 .. MaxFrames -> BOOLEAN]
        /\ Top \in Nat /\ Top <= MaxFrames /\ MaxFrames \in Nat
    BY GoodFrames, UnwindingAssumption
  <1>3. /\ ~Frame.native /\ Returned = 0 /\ ~Lost
        /\ \A k \in 1 .. Top : exception[k] => k = Top
    BY <1>1, WhileRunning DEF Lost
  <1>4. \A k \in 1 .. Top : ~exception'[k]
    BY <1>1, <1>2, <1>3
  <1> QED BY <1>1, <1>3, <1>4, StaysStructured

(* resumeCallFrame without an exception.                                   *)
LEMMA StructuredContinue ==
    ASSUME Good, Continue
    PROVE  StructuredInv'
  <1>1. /\ mode = "resume" /\ ~exception[Top] /\ mode' = "opcode"
        /\ UNCHANGED <<callFrames, exception, allHandlers, allFinallyStates, stackSize>>
    BY DEF Continue
  <1>2. /\ ~Frame.native /\ Returned = 0 /\ ~Lost
        /\ \A k \in 1 .. Top : ~exception[k]
    BY <1>1 DEF Good, ModeFits, Lost, Returned
  <1> QED BY <1>1, <1>2, StaysStructured

(* The exceptions of the fragment: each is raised where a catch inside     *)
(* takes it, or none of the finally bodies around it runs.                 *)
LEMMA CaughtEverywhere ==
    ASSUME Good, CaughtInside
    PROVE  CaughtBelow(callFrames, <<Top + 1, 0>>)
  <1>1. callFrames \in Seq(Frames) /\ Top = Len(callFrames) /\ Top \in Nat
    BY GoodFrames
  <1>2. \A q \in Catches(callFrames) : Before(q, <<Top + 1, 0>>)
    <2> TAKE q \in Catches(callFrames)
    <2>1. q[1] \in 1 .. Len(callFrames)
      BY <1>1, PlaceTypes DEF Catches
    <2> QED BY <1>1, <2>1 DEF Before
  <1> QED BY <1>2 DEF CaughtInside, CaughtBelow, Bodies, Catches

(* Raising an exception in the running frame.                              *)
LEMMA RaisedStructured ==
    ASSUME Good, mode \in {"opcode", "native"}, mode' = "resume", CaughtInside,
           allHandlers = <<>> \/ Frame.height = HandlerHeight(Here),
           exception' = [exception EXCEPT ![Top] = TRUE],
           UNCHANGED <<callFrames, allHandlers, allFinallyStates, stackSize>>
    PROVE  StructuredInv'
  <1>1. /\ Top \in 1 .. MaxFrames /\ exception \in [1 .. MaxFrames -> BOOLEAN]
        /\ Top \in Nat /\ Top <= MaxFrames /\ MaxFrames \in Nat
    BY GoodFrames, UnwindingAssumption
  <1>2. Returned = 0 /\ ~Lost /\ \A k \in 1 .. Top : ~exception[k]
    BY WhileRunning DEF Lost
  <1>3. exception'[Top] /\ \A k \in 1 .. Top : exception'[k] => k = Top
    BY <1>1, <1>2
  <1> QED BY <1>2, <1>3, CaughtEverywhere, StaysStructured

(* THROW_EXCEPTION, an operator that fails, and a native function that     *)
(* does.                                                                   *)
LEMMA StructuredThrows ==
    ASSUME Uses = {}, Good, Throw \/ OperatorError \/ NativeThrow
    PROVE  StructuredInv'
  <1>1. CASE Throw \/ OperatorError
    <2>1. /\ mode = "opcode" /\ mode' = "resume" /\ MayRaise
          /\ UNCHANGED <<callFrames, allHandlers, allFinallyStates, stackSize>>
          /\ exception' = [exception EXCEPT ![Top] = TRUE]
      BY <1>1 DEF Throw, OperatorError, AtOpcode, Raise
    <2>2. CaughtInside /\ (allHandlers = <<>> \/ Frame.height = HandlerHeight(Here))
      BY <2>1 DEF MayRaise, HoldsNothingMore, Here
    <2> QED BY <2>1, <2>2, RaisedStructured
  <1>2. CASE NativeThrow
    <2>1. /\ mode = "native" /\ mode' = "resume" /\ CaughtInside
          /\ UNCHANGED <<callFrames, allHandlers, allFinallyStates, stackSize>>
          /\ exception' = [exception EXCEPT ![Top] = TRUE]
      BY <1>2 DEF NativeThrow, Raise
    <2>2. Frame.native
      BY <2>1 DEF Good, AnyProgramInv, FramesInv
    <2>3. Here = <<>> /\ Frame.height = 0
      BY <2>2, GoodFrames
    <2>4. HandlerHeight(Here) = 0
      <3>1. HandlerCount(<<>>) = 0 /\ Here \in Positions
        BY CountOfNowhere, GoodFrames
      <3> QED BY <2>3, <3>1, NoHandlers
    <2> QED BY <2>1, <2>3, <2>4, RaisedStructured
  <1> QED BY <1>1, <1>2

(* A limit or a full frame pool makes the error fatal; the others stop the *)
(* VM.                                                                     *)
LEMMA StructuredStops ==
    ASSUME LimitExceeded \/ CallOverflow \/ OperandUnderflow \/ FinallyUnderflow \/ Halt
    PROVE  StructuredInv'
  <1>1. isFatalException' = TRUE \/ mode' \in {"crashed", "undefined", "halted"}
    BY DEF LimitExceeded, CallOverflow, OperandUnderflow, FinallyUnderflow, Halt
  <1> QED BY <1>1 DEF StructuredInv, Live

(***************************************************************************)
(* Calls.                                                                  *)
(***************************************************************************)
LEMMA OwnersAreActive ==
    ASSUME Good
    PROVE  \A i \in 1 .. Len(allFinallyStates) : allFinallyStates[i].owner[1] \in 1 .. Top
  <1>1. callFrames \in Seq(Frames) /\ Top = Len(callFrames)
    BY GoodFrames
  <1>2. \A p \in Bodies(callFrames) : p[1] \in 1 .. Top
    BY <1>1, PlaceTypes DEF Bodies
  <1> QED BY <1>2 DEF Good, Matched, StatesExact

(* A call of either kind.                                                  *)
LEMMA CalledStructured ==
    ASSUME Good, mode \in {"opcode", "native"}, RoomForFrame,
           NEW argc \in Nat, NEW value \in BOOLEAN, NEW boundary \in BOOLEAN,
           NEW native \in BOOLEAN,
           PushFrame(NewFrame(argc, value, boundary, native)),
           mode' = IF native THEN "native" ELSE "opcode",
           Frame.native => ~native /\ boundary,
           allHandlers = <<>> \/ Frame.height = HandlerHeight(Here)
    PROVE  StructuredInv'
  <1> DEFINE f == NewFrame(argc, value, boundary, native)
  <1>1. /\ callFrames \in Seq(Frames) /\ Top = Len(callFrames) /\ Top \in Nat \ {0}
        /\ Top < MaxFrames /\ MaxFrames \in Nat /\ stackSize \in Int
        /\ allHandlers \in Seq(Handlers) /\ Len(allHandlers) \in Nat
        /\ exception \in [1 .. MaxFrames -> BOOLEAN]
        /\ allFinallyStates \in Seq(Completions)
        /\ Frame = callFrames[Len(callFrames)] /\ Here = Frame.pos
    BY GoodFrames, UnwindingAssumption DEF RoomForFrame
  <1>2. /\ f \in Frames /\ f.handlerIndex = Len(allHandlers) /\ f.pos = <<>> /\ f.height = 0
        /\ f.native = native /\ f.boundary = boundary /\ f.startStackCount = stackSize + argc
    BY <1>1, EmptySeq DEF NewFrame, StartStackCount, Frames, Positions
  <1>3. /\ callFrames' = Append(callFrames, f)
        /\ exception' = [exception EXCEPT ![Top + 1] = FALSE]
        /\ UNCHANGED <<allHandlers, allFinallyStates, stackSize, isFatalException>>
    BY DEF PushFrame
  <1> HIDE DEF f
  <1>4. Pushes(callFrames, callFrames', f)
    <2>1. /\ callFrames' \in Seq(Frames) /\ Len(callFrames') = Len(callFrames) + 1
          /\ \A k \in 1 .. Len(callFrames) : callFrames'[k] = callFrames[k]
          /\ callFrames'[Len(callFrames) + 1] = f
      BY <1>1, <1>2, <1>3, AppendProperties
    <2> QED BY <1>1, <1>2, <2>1 DEF Pushes
  <1>5. Top' = Top + 1 /\ Frame' = f
    <2>1. Len(callFrames') = Len(callFrames) + 1 /\ callFrames'[Len(callFrames) + 1] = f
      BY <1>4 DEF Pushes
    <2> QED BY <2>1 DEF Top, Frame
  <1>6. /\ stackSize = Held(callFrames) + KeptBelow(allFinallyStates, Top + 1)
        /\ KeptBelow(allFinallyStates, Top + 1) \in Nat
        /\ \A k \in 1 .. Top : ~exception[k]
        /\ Held(callFrames) \in Int
    <2>1. /\ stackSize = Held(callFrames) + KeptBelow(allFinallyStates, Top + 1) + Returned
          /\ Returned = 0 /\ KeptBelow(allFinallyStates, Top + 1) \in Nat
          /\ \A k \in 1 .. Top : ~exception[k]
      BY WhileRunning
    <2>2. Held(callFrames) \in Int
      BY <1>1, HeldOfLast
    <2> QED BY <2>1, <2>2
  <1>7. HandlersExact(callFrames', allHandlers')
    BY <1>1, <1>2, <1>3, <1>4, PushKeepsHandlers DEF Good, Matched
  <1>8. FramesFit(callFrames')
    <2>1. f.handlerIndex = 0 \/ Frame.height = HandlerHeight(Frame.pos)
      <3>1. allHandlers = <<>> => Len(allHandlers) = 0
        BY <1>1
      <3> QED BY <1>1, <1>2, <3>1
    <2>2. CallFits(callFrames[Len(callFrames)], f)
      BY <1>1, <1>2, <2>1 DEF CallFits
    <2> QED BY <1>4, <2>2, PushKeepsHeights DEF Good, Matched
  <1>9. StatesExact(callFrames', allFinallyStates')
    BY <1>3, <1>4, PushKeepsStates DEF Good, Matched
  <1>10. StartsFit(callFrames', allFinallyStates') /\ Held(callFrames') = Held(callFrames)
    <2>1. Held(callFrames) + KeptBelow(allFinallyStates, Len(callFrames) + 1)
              <= f.startStackCount
      BY <1>1, <1>2, <1>6
    <2>2. StartsFit(callFrames', allFinallyStates) /\ Held(callFrames') = Held(callFrames)
      BY <1>4, <2>1, PushedOperands DEF Good, Matched
    <2> QED BY <1>3, <2>2
  <1>11. KeptBelow(allFinallyStates', Top' + 1) = KeptBelow(allFinallyStates, Top + 1)
    <2>1. \A i \in 1 .. Len(allFinallyStates) :
              /\ allFinallyStates[i].owner[1] \in Nat
              /\ allFinallyStates[i].owner[1] # Top + 1
      BY <1>1, OwnersAreActive
    <2>2. Top + 1 \in Nat
      BY <1>1
    <2>3. KeptBelow(allFinallyStates, (Top + 1) + 1) = KeptBelow(allFinallyStates, Top + 1)
      BY <2>1, <2>2, KeptBelowSame
    <2> QED BY <1>3, <1>5, <2>3
  <1>12. ModeFits'
    <2>1. \A k \in 1 .. Top' : ~exception'[k]
      <3> TAKE k \in 1 .. Top'
      <3>1. k \in 1 .. MaxFrames /\ (k = Top + 1 \/ k \in 1 .. Top)
        BY <1>1, <1>5
      <3> QED BY <1>1, <1>3, <1>6, <3>1
    <2>2. mode' \in {"opcode", "catch", "done"} => ~Frame'.native
      BY <1>2, <1>5
    <2>3. mode' # "resume" /\ mode' # "done" /\ Returned' = 0 /\ ~Pending'
      BY DEF Returned, Pending
    <2>4. stackSize' = Held(callFrames') + KeptBelow(allFinallyStates', Top' + 1) + Returned'
      BY <1>3, <1>6, <1>10, <1>11, <2>3
    <2> QED BY <2>1, <2>2, <2>3, <2>4 DEF ModeFits
  <1> QED BY <1>7, <1>8, <1>9, <1>10, <1>12 DEF StructuredInv, Matched

(* The calls of scripts, of native functions and of function objects.      *)
LEMMA StructuredCalls ==
    ASSUME Uses = {}, Good, NEW argc \in ArgCounts, NEW value \in BOOLEAN,
           \/ \E boundary \in BOOLEAN : CallScript(argc, value, boundary)
           \/ CallNative(argc, value) \/ NativeCallback(argc, value)
    PROVE  StructuredInv'
  <1>1. argc \in Nat
    BY UnwindingAssumption
  <1>2. mode = "opcode" => ~Frame.native
    BY DEF Good, ModeFits
  <1>3. HoldsNothingMore => allHandlers = <<>> \/ Frame.height = HandlerHeight(Here)
    BY DEF HoldsNothingMore, Here
  <1>4. ASSUME NEW boundary \in BOOLEAN, CallScript(argc, value, boundary)
        PROVE  StructuredInv'
    <2>1. /\ mode = "opcode" /\ RoomForFrame /\ mode' = "opcode" /\ HoldsNothingMore
          /\ PushFrame(NewFrame(argc, value, boundary, FALSE))
      BY <1>4 DEF CallScript, AtOpcode
    <2> QED BY <1>1, <1>2, <1>3, <2>1, CalledStructured
  <1>5. CASE CallNative(argc, value)
    <2>1. /\ mode = "opcode" /\ RoomForFrame /\ mode' = "native" /\ HoldsNothingMore
          /\ PushFrame(NewFrame(argc, value, FALSE, TRUE))
      BY <1>5 DEF CallNative, AtOpcode
    <2> QED BY <1>1, <1>2, <1>3, <2>1, CalledStructured
  <1>6. CASE NativeCallback(argc, value)
    <2>1. /\ mode = "native" /\ RoomForFrame /\ mode' = "opcode"
          /\ PushFrame(NewFrame(argc, value, TRUE, FALSE))
      BY <1>6 DEF NativeCallback
    <2>2. Frame.native
      BY <2>1 DEF Good, AnyProgramInv, FramesInv
    <2>3. Frame.height = HandlerHeight(Here)
      <3>1. Here = <<>> /\ Frame.height = 0 /\ Here \in Positions
        BY <2>2, GoodFrames
      <3>2. HandlerHeight(Here) = 0
        BY <3>1, CountOfNowhere, NoHandlers
      <3> QED BY <3>1, <3>2
    <2> QED BY <1>1, <2>1, <2>3, CalledStructured
  <1> QED BY <1>4, <1>5, <1>6

(***************************************************************************)
(* The end of a frame.                                                     *)
(***************************************************************************)
(* Popping the running frame with its handlers, when no finally body of it *)
(* runs.                                                                   *)
LEMMA PoppedMatched ==
    ASSUME Good, NEW v, Pops(callFrames, callFrames', v), NoneBeyond(Here, 0),
           Len(allHandlers') = Frame.handlerIndex,
           \A i \in 1 .. Len(allHandlers') : allHandlers'[i] = allHandlers[i],
           UNCHANGED allFinallyStates
    PROVE  /\ Matched(callFrames', allHandlers', allFinallyStates')
           /\ Top' = Top - 1 /\ Top > 1
           /\ CallFits(callFrames[Top - 1], Frame)
           /\ SameCall(Frame', callFrames[Top - 1]) /\ Here' = callFrames[Top - 1].pos
           /\ Frame'.height = callFrames[Top - 1].height + v
           /\ Held(callFrames') = HeldBelow(callFrames, Top) + v
           /\ KeptBelow(allFinallyStates', Top' + 1) = KeptBelow(allFinallyStates, Top)
  <1>1. /\ callFrames \in Seq(Frames) /\ Top = Len(callFrames) /\ Top \in Nat \ {0}
        /\ Marks(callFrames, allHandlers)
        /\ Frame = callFrames[Len(callFrames)] /\ Here = Frame.pos
    BY GoodFrames
  <1>2. Top > 1 /\ Len(callFrames') = Top - 1
    BY <1>1 DEF Pops
  <1>3. Top' = Top - 1 /\ Frame' = callFrames'[Top - 1]
    BY <1>2 DEF Top, Frame
  <1>4. /\ SameCall(callFrames'[Top - 1], callFrames[Top - 1])
        /\ callFrames'[Top - 1].pos = callFrames[Top - 1].pos
        /\ callFrames'[Top - 1].height = callFrames[Top - 1].height + v
    <2>1. Top - 1 \in 1 .. Len(callFrames) - 1 /\ Top - 1 = Len(callFrames) - 1
      BY <1>1, <1>2
    <2> QED BY <2>1 DEF Pops
  <1>5. Here' = callFrames[Top - 1].pos
    BY <1>3, <1>4 DEF Here
  <1>6. HandlersExact(callFrames', allHandlers')
    <2>1. Len(allHandlers') = callFrames[Len(callFrames)].handlerIndex
      BY <1>1
    <2> QED BY <1>1, <2>1, PopKeepsHandlers DEF Good, Matched
  <1>7. FramesFit(callFrames')
    BY PopKeepsHeights DEF Good, Matched
  <1>8. StatesExact(callFrames', allFinallyStates')
    <2>1. NoneBeyond(callFrames[Len(callFrames)].pos, 0)
      BY <1>1
    <2> QED BY <2>1, PopKeepsStates DEF Good, Matched
  <1>9. /\ StartsFit(callFrames', allFinallyStates')
        /\ Held(callFrames') = HeldBelow(callFrames, Top) + v
    BY <1>1, PoppedOperands DEF Good, Matched
  <1>10. CallFits(callFrames[Top - 1], Frame)
    <2>1. Top - 1 \in 1 .. Len(callFrames) /\ Top - 1 < Len(callFrames) /\ (Top - 1) + 1 = Top
      BY <1>1, <1>2
    <2>2. CallFits(callFrames[Top - 1], callFrames[(Top - 1) + 1])
      BY <2>1 DEF Good, Matched, FramesFit
    <2> QED BY <1>1, <2>1, <2>2
  <1>11. KeptBelow(allFinallyStates', Top' + 1) = KeptBelow(allFinallyStates, Top)
    BY <1>1, <1>3
  <1> QED BY <1>2, <1>3, <1>4, <1>5, <1>6, <1>7, <1>8, <1>9, <1>10, <1>11 DEF Matched

(* A frame that returns, or whose native function does.                    *)
LEMMA PopFrameIs ==
    ASSUME Good, Top > 1, PopFrame(Frame.value)
    PROVE  LET v == IF Frame.value /\ ~callFrames[Top - 1].native THEN 1 ELSE 0
           IN  Pops(callFrames, callFrames', v)
  <1> DEFINE fs == Front(callFrames)
             n == Top - 1
             v == IF Frame.value /\ ~callFrames[Top - 1].native THEN 1 ELSE 0
             g == [fs[n] EXCEPT !.height = callFrames[n].height + v]
  <1>1. callFrames \in Seq(Frames) /\ callFrames # <<>> /\ Top \in Nat /\ Top = Len(callFrames)
    <2>1. callFrames \in Seq(Frames) /\ Top \in Nat /\ Top = Len(callFrames)
      BY GoodFrames
    <2> QED BY <2>1, EmptySeq
  <1>2. /\ fs \in Seq(Frames) /\ Len(fs) = n
        /\ \A i \in 1 .. n : fs[i] = callFrames[i]
    BY <1>1, FrontAndLast
  <1>3. callFrames' = [fs EXCEPT ![n] = g]
    BY DEF PopFrame
  <1>4. n \in 1 .. Len(fs) /\ callFrames[n] \in Frames /\ fs[n] = callFrames[n] /\ n \in Nat
    BY <1>1, <1>2, FrameTypes
  <1>5. v \in {0, 1} /\ (callFrames[n].native => v = 0)
    OBVIOUS
  <1> HIDE DEF v
  <1>6. /\ g \in Frames /\ SameCall(g, callFrames[n]) /\ g.pos = callFrames[n].pos
        /\ g.height = callFrames[n].height + v
    <2>1. callFrames[n].height + v \in Nat
      BY <1>4, <1>5 DEF Frames
    <2> QED BY <1>4, <2>1 DEF Frames, SameCall
  <1> HIDE DEF fs, g, n
  <1>7. /\ callFrames' \in Seq(Frames) /\ Len(callFrames') = n
        /\ \A k \in 1 .. n : callFrames'[k] = IF k = n THEN g ELSE fs[k]
    BY <1>2, <1>3, <1>4, <1>6, ExceptSeq
  <1>8. ASSUME NEW k \in 1 .. n
        PROVE  /\ SameCall(callFrames'[k], callFrames[k])
               /\ callFrames'[k].pos = callFrames[k].pos
               /\ callFrames'[k].height = callFrames[k].height + (IF k = n THEN v ELSE 0)
    <2>1. CASE k = n
      BY <1>4, <1>6, <1>7, <2>1
    <2>2. CASE k # n
      <3>1. callFrames'[k] = callFrames[k] /\ callFrames[k] \in Frames
        <4>1. k \in 1 .. Len(callFrames)
          BY <1>1, <1>4 DEF n
        <4> QED BY <1>1, <1>2, <1>7, <2>2, <4>1, FrameTypes
      <3>2. callFrames[k].height + 0 = callFrames[k].height
        BY <3>1 DEF Frames
      <3> QED BY <2>2, <3>1, <3>2 DEF SameCall
    <2> QED BY <2>1, <2>2
  <1>9. n = Len(callFrames) - 1
    BY <1>1 DEF n
  <1>10. Pops(callFrames, callFrames', v)
    BY <1>1, <1>5, <1>7, <1>8, <1>9 DEF Pops
  <1> QED BY <1>10 DEF v

(* Only a call is in the first frame, and a native one never.              *)
LEMMA NativeIsCalled ==
    ASSUME Good, Frame.native
    PROVE  Top > 1
  <1>1. Top \in Nat \ {0} /\ Frame = callFrames[Top]
    BY GoodFrames
  <1>2. ~callFrames[1].native
    BY <1>1 DEF Good, AnyProgramInv, FramesInv
  <1> QED BY <1>1, <1>2

(* A native function returns to the script that called it.                 *)
LEMMA StructuredNativeReturn ==
    ASSUME Good, NativeReturn
    PROVE  StructuredInv'
  <1> DEFINE v == IF Frame.value /\ ~callFrames[Top - 1].native THEN 1 ELSE 0
  <1>1. /\ mode = "native" /\ mode' = "opcode" /\ PopFrame(Frame.value)
        /\ stackSize' = stackSize + (IF Frame.value THEN 1 ELSE 0)
        /\ UNCHANGED <<exception, allHandlers, allFinallyStates, isFatalException>>
    BY DEF NativeReturn
  <1>2. Frame.native /\ Top > 1
    <2>1. Frame.native
      BY <1>1 DEF Good, AnyProgramInv, FramesInv
    <2> QED BY <2>1, NativeIsCalled
  <1>3. /\ Here = <<>> /\ Frame.height = 0 /\ Here \in Positions
        /\ Len(allHandlers) = Frame.handlerIndex + HandlerCount(Here)
        /\ Frame.handlerIndex \in Nat /\ Top \in Nat \ {0} /\ Top = Len(callFrames)
        /\ callFrames \in Seq(Frames) /\ stackSize \in Int /\ Frame.value \in BOOLEAN
    BY <1>2, GoodFrames
  <1>4. Len(allHandlers') = Frame.handlerIndex
    BY <1>1, <1>3, CountOfNowhere
  <1>5. NoneBeyond(Here, 0)
    <2>1. Len(Here) = 0
      BY <1>3
    <2> QED BY <2>1 DEF NoneBeyond
  <1>6. Pops(callFrames, callFrames', v)
    BY <1>1, <1>2, PopFrameIs
  <1> HIDE DEF v
  <1>7. /\ Matched(callFrames', allHandlers', allFinallyStates')
        /\ Top' = Top - 1 /\ CallFits(callFrames[Top - 1], Frame)
        /\ SameCall(Frame', callFrames[Top - 1])
        /\ Held(callFrames') = HeldBelow(callFrames, Top) + v
        /\ KeptBelow(allFinallyStates', Top' + 1) = KeptBelow(allFinallyStates, Top)
    BY <1>1, <1>4, <1>5, <1>6, PoppedMatched
  <1>8. ~callFrames[Top - 1].native /\ ~Frame'.native
    BY <1>2, <1>7 DEF CallFits, SameCall
  <1>9. v = IF Frame.value THEN 1 ELSE 0
    BY <1>8 DEF v
  <1>10. /\ KeptBelow(allFinallyStates, Top + 1) = KeptBelow(allFinallyStates, Top)
         /\ Held(callFrames) = HeldBelow(callFrames, Top) + Frame.height
         /\ HeldBelow(callFrames, Top) \in Int /\ KeptBelow(allFinallyStates, Top) \in Nat
    BY <1>5, NoOwnCompletions
  <1>11. /\ stackSize = Held(callFrames) + KeptBelow(allFinallyStates, Top + 1) + Returned
         /\ Returned = 0 /\ \A k \in 1 .. Top : ~exception[k]
    BY <1>1, WhileRunning
  <1>12. Returned' = 0 /\ ~Pending'
    BY <1>1 DEF Returned, Pending
  <1>13. stackSize' = Held(callFrames') + KeptBelow(allFinallyStates', Top' + 1) + Returned'
    <2>1. stackSize = HeldBelow(callFrames, Top) + KeptBelow(allFinallyStates, Top)
      BY <1>3, <1>10, <1>11
    <2>2. stackSize' = stackSize + v /\ v \in Int
      BY <1>1, <1>9
    <2> QED BY <1>7, <1>10, <1>12, <2>1, <2>2
  <1>14. \A k \in 1 .. Top' : ~exception'[k]
    <2> TAKE k \in 1 .. Top'
    <2>1. k \in 1 .. Top
      BY <1>3, <1>7
    <2> QED BY <1>1, <1>11, <2>1
  <1>15. ModeFits'
    BY <1>1, <1>8, <1>12, <1>13, <1>14 DEF ModeFits
  <1> QED BY <1>7, <1>15 DEF StructuredInv

(* doneReturnFunction without a finally body left to run.                  *)
LEMMA StructuredReturnToCaller ==
    ASSUME Good, ReturnToCaller
    PROVE  StructuredInv'
  <1> DEFINE v == IF Frame.value /\ ~callFrames[Top - 1].native THEN 1 ELSE 0
             caller == callFrames[Top - 1]
             taken == IF Frame.value /\ caller.native THEN 1 ELSE 0
  <1>1. /\ mode = "done" /\ Top > 1 /\ PopFrame(Frame.value)
        /\ stackSize' = stackSize - taken
        /\ mode' = (CASE ~Frame.boundary -> "resume"
                      [] caller.native -> "native"
                      [] OTHER -> "opcode")
        /\ allHandlers' = SubSeq(allHandlers, 1, Frame.handlerIndex)
        /\ UNCHANGED <<exception, allFinallyStates, isFatalException>>
    BY DEF ReturnToCaller, HandlersLeft, Keep
  <1>2. /\ Frame.handlerIndex \in Nat /\ Top \in Nat \ {0} /\ Top = Len(callFrames)
        /\ callFrames \in Seq(Frames) /\ stackSize \in Int /\ Frame.value \in BOOLEAN
        /\ Len(allHandlers) \in Nat /\ allHandlers \in Seq(Handlers)
        /\ Frame.handlerIndex <= Len(allHandlers) /\ Frame \in Frames
    BY GoodFrames
  <1>3. /\ Len(allHandlers') = Frame.handlerIndex
        /\ \A i \in 1 .. Len(allHandlers') : allHandlers'[i] = allHandlers[i]
    <2>1. Frame.handlerIndex \in 0 .. Len(allHandlers)
      BY <1>2
    <2> QED BY <1>1, <1>2, <2>1, Prefix
  <1>4. Frame.height = 0 /\ NoneBeyond(Here, 0)
    <2>1. Frame.height = 0 /\ FinallyDepths(Here) = {}
      BY <1>1 DEF Good, ModeFits
    <2> QED BY <2>1, NoFinallyHere
  <1>5. Pops(callFrames, callFrames', v)
    BY <1>1, PopFrameIs
  <1>6. caller.native \in BOOLEAN /\ Frame.boundary \in BOOLEAN
    <2>1. Top - 1 \in 1 .. Len(callFrames)
      BY <1>1, <1>2
    <2> QED BY <1>2, <2>1, FrameTypes DEF Frames
  <1>7. (v = IF Frame.value THEN 1 - taken ELSE 0) /\ v \in Int /\ taken \in Int
        /\ (~Frame.value => taken = 0)
    BY <1>2, <1>6
  <1> HIDE DEF v, taken
  <1>8. /\ Matched(callFrames', allHandlers', allFinallyStates')
        /\ Top' = Top - 1 /\ CallFits(caller, Frame)
        /\ SameCall(Frame', caller)
        /\ Held(callFrames') = HeldBelow(callFrames, Top) + v
        /\ KeptBelow(allFinallyStates', Top' + 1) = KeptBelow(allFinallyStates, Top)
    BY <1>1, <1>3, <1>4, <1>5, PoppedMatched
  <1> HIDE DEF caller
  <1>9. Frame'.native <=> caller.native
    BY <1>8 DEF SameCall
  <1>10. mode' # "native" => ~caller.native
    BY <1>1, <1>6, <1>8 DEF CallFits
  <1>11. mode' \in {"resume", "native", "opcode"}
    BY <1>1, <1>6
  <1>12. /\ KeptBelow(allFinallyStates, Top + 1) = KeptBelow(allFinallyStates, Top)
         /\ Held(callFrames) = HeldBelow(callFrames, Top) + Frame.height
         /\ HeldBelow(callFrames, Top) \in Int /\ KeptBelow(allFinallyStates, Top) \in Nat
    BY <1>4, NoOwnCompletions
  <1>13. /\ stackSize = Held(callFrames) + KeptBelow(allFinallyStates, Top + 1) + Returned
         /\ \A k \in 1 .. Top : ~exception[k]
    BY <1>1, WhileRunning
  <1>14. Returned = IF Frame.value THEN 1 ELSE 0
    BY <1>1 DEF Returned
  <1>15. Top' \in 1 .. Top' /\ \A k \in 1 .. Top' : ~exception'[k]
    <2>1. \A k \in 1 .. Top' : k \in 1 .. Top
      BY <1>2, <1>8
    <2> QED BY <1>1, <1>2, <1>8, <1>13, <2>1
  <1>16. Returned' = 0 /\ ~Pending'
    BY <1>11, <1>15 DEF Returned, Pending
  <1>17. stackSize' = Held(callFrames') + KeptBelow(allFinallyStates', Top' + 1) + Returned'
    <2>1. stackSize = HeldBelow(callFrames, Top) + KeptBelow(allFinallyStates, Top) + Returned
      BY <1>4, <1>12, <1>13, <1>14
    <2>2. Returned - taken = v
      BY <1>2, <1>7, <1>14
    <2>3. Returned \in Int
      BY <1>14
    <2>4. stackSize' = HeldBelow(callFrames, Top) + KeptBelow(allFinallyStates, Top) + v
      <3>1. stackSize' = stackSize - taken
        BY <1>1
      <3> QED BY <1>7, <1>12, <2>1, <2>2, <2>3, <3>1
    <2>5. Held(callFrames') = HeldBelow(callFrames, Top) + v
      BY <1>8
    <2>6. KeptBelow(allFinallyStates', Top' + 1) = KeptBelow(allFinallyStates, Top)
      BY <1>8
    <2> QED BY <1>7, <1>12, <1>16, <2>4, <2>5, <2>6
  <1>18. ModeFits'
    BY <1>9, <1>10, <1>11, <1>15, <1>16, <1>17 DEF ModeFits
  <1> QED BY <1>8, <1>18 DEF StructuredInv

(* A frame without a handler has no catch, so that no finally body of it   *)
(* runs when an exception leaves it.                                       *)
LEMMA LeftByException ==
    ASSUME Good, Pending, HandlerCount(Here) = 0
    PROVE  /\ NoneBeyond(Here, 0) /\ HandlerHeight(Here) = 0
           /\ CaughtBelow(callFrames, <<Top, 0>>)
  <1>1. /\ callFrames \in Seq(Frames) /\ Top = Len(callFrames) /\ Top \in Nat \ {0}
        /\ Here = callFrames[Top].pos /\ Len(Here) \in Nat /\ Here \in Positions
        /\ Top \in 1 .. Len(callFrames)
    BY GoodFrames
  <1>2. HandlerHeight(Here) = 0 /\ \A d \in 1 .. Len(Here) : Weight(Here[d].code) = 0
    BY <1>1, NoHandlers
  <1>3. \A d \in 1 .. Len(Here) : Here[d].code \notin {"try", "tryCF"}
    BY <1>2, WeightedCodes
  <1>4. CaughtBelow(callFrames, <<Top + 1, 0>>)
    BY DEF Good, ModeFits
  <1>5. \A q \in Catches(callFrames) : q[1] \in Nat /\ q[2] \in Nat /\ q[1] < Top
    <2> TAKE q \in Catches(callFrames)
    <2>1. /\ q[1] \in 1 .. Len(callFrames) /\ q[1] \in Nat /\ q[2] \in Nat
          /\ q[2] \in 1 .. Len(callFrames[q[1]].pos)
          /\ callFrames[q[1]].pos[q[2]].code \in {"try", "tryCF"}
      BY <1>1, PlaceTypes DEF Catches
    <2>2. q[1] # Top
      BY <1>1, <1>3, <2>1
    <2> QED BY <1>1, <2>1, <2>2
  <1>6. \A p \in Bodies(callFrames) : p[1] \in Nat /\ p[2] \in Nat /\ p[1] < Top
    <2> TAKE p \in Bodies(callFrames)
    <2>1. p[1] \in 1 .. Len(callFrames) /\ p[1] \in Nat /\ p[2] \in Nat
      BY <1>1, PlaceTypes DEF Bodies
    <2>2. Before(p, <<Top + 1, 0>>)
      BY <1>1, <2>1 DEF Before
    <2>3. PICK q \in Catches(callFrames) : Before(p, q)
      BY <1>4, <2>2 DEF CaughtBelow
    <2>4. q[1] \in Nat /\ q[2] \in Nat /\ q[1] < Top
      BY <1>5
    <2>5. p[1] < Top
      BY <1>1, <2>1, <2>3, <2>4 DEF Before
    <2> QED BY <2>1, <2>5
  <1>7. NoneBeyond(Here, 0)
    <2> SUFFICES ASSUME NEW e \in 1 .. Len(Here), Here[e].code = "finally"
                 PROVE  FALSE
      BY DEF NoneBeyond
    <2> DEFINE p == <<Top, e>>
    <2>1. p[1] = Top /\ p = <<p[1], p[2]>> /\ p[2] = e
      OBVIOUS
    <2>2. /\ p[1] \in 1 .. Len(callFrames) /\ p[2] \in 1 .. Len(callFrames[p[1]].pos)
          /\ callFrames[p[1]].pos[p[2]].code \in {"finally"}
      BY <1>1, <2>1
    <2>3. p \in Bodies(callFrames)
      BY <1>1, <2>1, <2>2, PlacesAre DEF Bodies
    <2> HIDE DEF p
    <2> QED BY <1>1, <1>6, <2>1, <2>3
  <1>8. CaughtBelow(callFrames, <<Top, 0>>)
    <2> SUFFICES ASSUME NEW p \in Bodies(callFrames)
                 PROVE  \E q \in Catches(callFrames) : Before(p, q) /\ Before(q, <<Top, 0>>)
      BY DEF CaughtBelow
    <2>1. Before(p, <<Top + 1, 0>>)
      BY <1>1, <1>6 DEF Before
    <2>2. PICK q \in Catches(callFrames) : Before(p, q)
      BY <1>4, <2>1 DEF CaughtBelow
    <2>3. Before(q, <<Top, 0>>)
      BY <1>1, <1>5 DEF Before
    <2> QED BY <2>2, <2>3
  <1> QED BY <1>2, <1>7, <1>8

(* resumeCallFrame without a handler: the exception goes to the caller.    *)
LEMMA StructuredUnwindFrame ==
    ASSUME Good, UnwindFrame
    PROVE  StructuredInv'
  <1>1. /\ Pending /\ ~MayHandle
        /\ allHandlers' = SubSeq(allHandlers, 1, Frame.handlerIndex)
        /\ stackSize' = Min({stackSize, Frame.startStackCount})
        /\ callFrames' = Front(callFrames)
        /\ UNCHANGED <<allFinallyStates, isFatalException>>
        /\ Top # 1 => mode' = "resume" /\ exception' = [exception EXCEPT ![Top - 1] = TRUE]
        /\ Top = 1 => mode' = "error"
    BY DEF UnwindFrame, HandlersLeft, FramesLeft, Raise
  <1>2. /\ Frame.handlerIndex \in Nat /\ Top \in Nat \ {0} /\ Top = Len(callFrames)
        /\ callFrames \in Seq(Frames) /\ stackSize \in Int
        /\ Frame.startStackCount \in Int
        /\ Len(allHandlers) \in Nat /\ allHandlers \in Seq(Handlers)
        /\ Frame.handlerIndex <= Len(allHandlers) /\ Frame.height \in Nat
        /\ Len(allHandlers) = Frame.handlerIndex + HandlerCount(Here)
        /\ HandlerCount(Here) \in Nat /\ Top <= MaxFrames /\ MaxFrames \in Nat
        /\ exception \in [1 .. MaxFrames -> BOOLEAN]
    BY GoodFrames, CountOfPosition, UnwindingAssumption
  <1>3. CASE Top = 1
    BY <1>1, <1>3 DEF StructuredInv, Live
  <1>4. CASE Top # 1
    <2>1. Len(allHandlers) = Frame.handlerIndex /\ HandlerCount(Here) = 0
      <3>1. ~FrameHasHandler
        BY <1>1 DEF MayHandle, Good, Live
      <3> QED BY <1>2, <3>1 DEF FrameHasHandler
    <2>2. /\ NoneBeyond(Here, 0) /\ HandlerHeight(Here) = 0
          /\ CaughtBelow(callFrames, <<Top, 0>>)
      BY <1>1, <2>1, LeftByException
    <2>3. /\ Len(allHandlers') = Frame.handlerIndex
          /\ \A i \in 1 .. Len(allHandlers') : allHandlers'[i] = allHandlers[i]
      <3>1. Frame.handlerIndex \in 0 .. Len(allHandlers)
        BY <1>2
      <3> QED BY <1>1, <1>2, <3>1, Prefix
    <2>4. Pops(callFrames, callFrames', 0)
      <3>1. callFrames # <<>>
        BY <1>2, EmptySeq
      <3>2. /\ callFrames' \in Seq(Frames) /\ Len(callFrames') = Len(callFrames) - 1
            /\ \A i \in 1 .. Len(callFrames) - 1 : callFrames'[i] = callFrames[i]
        <4>1. /\ Front(callFrames) \in Seq(Frames)
              /\ Len(Front(callFrames)) = Len(callFrames) - 1
              /\ \A i \in 1 .. Len(callFrames) - 1 : Front(callFrames)[i] = callFrames[i]
          BY <1>2, <3>1, FrontAndLast
        <4> QED BY <1>1, <4>1
      <3>3. \A i \in 1 .. Len(callFrames) - 1 :
                /\ SameCall(callFrames'[i], callFrames[i])
                /\ callFrames'[i].pos = callFrames[i].pos
                /\ callFrames'[i].height
                       = callFrames[i].height + (IF i = Len(callFrames) - 1 THEN 0 ELSE 0)
        <4> TAKE i \in 1 .. Len(callFrames) - 1
        <4>1. i \in 1 .. Len(callFrames)
          BY <1>2
        <4>2. callFrames[i].height \in Nat /\ callFrames'[i] = callFrames[i]
          BY <1>2, <3>2, <4>1, FrameTypes
        <4> QED BY <4>2 DEF SameCall
      <3>4. Len(callFrames) > 1 /\ Len(callFrames) \in Nat
        BY <1>2, <1>4
      <3> QED BY <1>2, <3>2, <3>3, <3>4 DEF Pops
    <2>5. /\ Matched(callFrames', allHandlers', allFinallyStates')
          /\ Top' = Top - 1 /\ Top > 1 /\ CallFits(callFrames[Top - 1], Frame)
          /\ SameCall(Frame', callFrames[Top - 1]) /\ Here' = callFrames[Top - 1].pos
          /\ Frame'.height = callFrames[Top - 1].height + 0
          /\ Held(callFrames') = HeldBelow(callFrames, Top) + 0
          /\ KeptBelow(allFinallyStates', Top' + 1) = KeptBelow(allFinallyStates, Top)
      BY <1>1, <2>2, <2>3, <2>4, PoppedMatched
    <2>6. Frame'.height = callFrames[Top - 1].height
      <3>1. Top - 1 \in 1 .. Len(callFrames)
        BY <1>2, <2>5
      <3>2. callFrames[Top - 1].height \in Nat
        BY <1>2, <3>1, FrameTypes
      <3> QED BY <2>5, <3>2
    <2>7. /\ KeptBelow(allFinallyStates, Top + 1) = KeptBelow(allFinallyStates, Top)
          /\ Held(callFrames) = HeldBelow(callFrames, Top) + Frame.height
          /\ HeldBelow(callFrames, Top) \in Int /\ KeptBelow(allFinallyStates, Top) \in Nat
          /\ HeldBelow(callFrames, Top) + KeptBelow(allFinallyStates, Top)
                 <= Frame.startStackCount
      BY <2>2, NoOwnCompletions
    <2>8. /\ mode' = "resume" /\ exception'[Top'] /\ Pending'
          /\ \A k \in 1 .. Top' : exception'[k] => k = Top'
      <3>1. \A k \in 1 .. Top : exception[k] => k = Top
        BY DEF Good, ModeFits
      <3>2. Top - 1 \in 1 .. MaxFrames /\ \A k \in 1 .. Top - 1 : k \in 1 .. Top /\ k # Top
        BY <1>2, <2>5
      <3>3. exception'[Top - 1] /\ \A k \in 1 .. Top - 1 : exception'[k] => k = Top - 1
        BY <1>1, <1>2, <1>4, <3>1, <3>2
      <3> QED BY <1>1, <1>4, <2>5, <3>3 DEF Pending
    <2>9. Returned' = 0
      BY <2>8 DEF Returned
    <2>10. CaughtBelow(callFrames', <<Top' + 1, 0>>)
      <3>1. \A q \in Catches(callFrames) : Before(q, <<Top, 0>>) => q \in Catches(callFrames')
        <4> TAKE q \in Catches(callFrames)
        <4>1. q[1] \in Nat /\ q[2] \in Nat
          BY <1>2, PlaceTypes DEF Catches
        <4>2. Before(q, <<Top, 0>>) => q[1] # Len(callFrames)
          BY <1>2, <4>1 DEF Before
        <4> QED BY <2>4, <4>2, PoppedPlaces DEF Catches
      <3>2. \A p \in Bodies(callFrames') : p \in Bodies(callFrames)
        BY <2>4, PoppedPlaces DEF Bodies
      <3>3. Agree(callFrames, callFrames', <<Top, 0>>)
        BY <3>1, <3>2 DEF Agree
      <3>4. Top' + 1 = Top
        BY <1>2, <2>5
      <3> QED BY <2>2, <3>3, <3>4, CaughtAlso
    <2>11. allHandlers' = <<>> \/ Frame'.height = HandlerHeight(Here')
      <3>1. CASE Frame.handlerIndex = 0
        BY <1>1, <2>3, <3>1, EmptySeq
      <3>2. CASE callFrames[Top - 1].height = HandlerHeight(callFrames[Top - 1].pos)
        BY <2>5, <2>6, <3>2
      <3> QED BY <2>5, <3>1, <3>2 DEF CallFits
    <2>12. \/ Lost'
           \/ stackSize' = Held(callFrames') + KeptBelow(allFinallyStates', Top' + 1) + Returned'
      <3>1. CASE allHandlers = <<>>
        <4>1. allHandlers' = <<>>
          BY <1>1, <1>2, <2>1, <3>1
        <4> QED BY <2>8, <4>1 DEF Lost
      <3>2. CASE allHandlers # <<>>
        <4>1. Frame.height = 0
          BY <1>1, <2>2, <3>2 DEF Good, ModeFits
        <4>2. stackSize = Held(callFrames) + KeptBelow(allFinallyStates, Top + 1) + Returned
          BY <3>2 DEF Good, ModeFits, Lost
        <4>3. Returned = 0
          BY <1>1 DEF Returned, Pending
        <4>4. stackSize = HeldBelow(callFrames, Top) + KeptBelow(allFinallyStates, Top)
          BY <2>7, <4>1, <4>2, <4>3
        <4>5. stackSize' = stackSize
          <5>1. stackSize <= Frame.startStackCount
            BY <2>7, <4>4
          <5> QED BY <1>1, <1>2, <5>1, LeastOfTwo
        <4> QED BY <2>5, <2>7, <2>9, <4>4, <4>5
      <3> QED BY <3>1, <3>2
    <2>13. ModeFits'
      BY <2>8, <2>10, <2>11, <2>12 DEF ModeFits
    <2> QED BY <2>5, <2>13 DEF StructuredInv
  <1> QED BY <1>3, <1>4

(***************************************************************************)
(* The invariant.                                                          *)
(***************************************************************************)
LEMMA StructuredInit == Init => StructuredInv
  <1> SUFFICES ASSUME Init PROVE StructuredInv
    OBVIOUS
  <1> DEFINE main == [pos |-> <<>>, height |-> 0, startStackCount |-> 0,
                      handlerIndex |-> 0, value |-> FALSE,
                      boundary |-> TRUE, native |-> FALSE]
  <1>1. /\ callFrames = <<main>> /\ Len(callFrames) = 1 /\ Top = 1 /\ callFrames[1] = main
        /\ Frame = main /\ Here = <<>>
        /\ allHandlers = <<>> /\ Len(allHandlers) = 0 /\ mode = "opcode"
        /\ allFinallyStates = <<>> /\ Len(allFinallyStates) = 0 /\ stackSize = 0
        /\ exception = [s \in 1 .. MaxFrames |-> FALSE]
    BY DEF Init, Top, Frame, Here
  <1>2. /\ main.handlerIndex = 0 /\ main.pos = <<>> /\ main.native = FALSE
        /\ main.height = 0 /\ main.startStackCount = 0
    OBVIOUS
  <1>3. callFrames \in Seq(Frames)
    BY AnyProgramInit DEF AnyProgramInv, TypeOK
  <1> HIDE DEF main
  <1>4. HandlersExact(callFrames, allHandlers)
    <2>1. Exact(allHandlers, 0, 0, <<>>)
      BY ExactNowhere
    <2> QED BY <1>1, <1>2, <2>1 DEF HandlersExact, EndOf
  <1>5. FramesFit(callFrames)
    <2>1. FrameFits(main)
      BY <1>2 DEF FrameFits, HeightsRise, HeightsFit
    <2>2. \A k \in 1 .. Len(callFrames) : FrameFits(callFrames[k])
      BY <1>1, <2>1
    <2>3. \A k \in 1 .. Len(callFrames) : ~(k < Len(callFrames))
      BY <1>1
    <2> QED BY <2>2, <2>3 DEF FramesFit
  <1>6. StatesExact(callFrames, allFinallyStates)
    <2>1. Bodies(callFrames) = {}
      <3> SUFFICES ASSUME NEW p \in Bodies(callFrames) PROVE FALSE
        OBVIOUS
      <3>1. p[1] \in 1 .. Len(callFrames) /\ p[2] \in 1 .. Len(callFrames[p[1]].pos)
        BY <1>3, PlaceTypes DEF Bodies
      <3>2. p[1] = 1
        BY <1>1, <3>1
      <3>3. Len(callFrames[p[1]].pos) = 0
        BY <1>1, <1>2, <3>2
      <3> QED BY <3>1, <3>3
    <2> QED BY <1>1, <2>1 DEF StatesExact
  <1>7. HeldBelow(callFrames, 1) = 0 /\ Held(callFrames) = 0
    <2>1. SubSeq(callFrames, 1, 0) = <<>>
      BY SubSeqEmpty
    <2>2. Held(<<>>) = 0
      <3> DEFINE f == [k \in 1 .. Len(<<>>) |-> <<>>[k].height]
      <3>1. DOMAIN f = {}
        OBVIOUS
      <3>2. Held(<<>>) = SumFunction(f)
        BY DEF Held
      <3> HIDE DEF f
      <3> QED BY <3>1, <3>2, SumOfNothing DEF SumFunction
    <2>3. HeldBelow(callFrames, 1) = 0
      <3>1. 1 - 1 = 0
        OBVIOUS
      <3> QED BY <2>1, <2>2, <3>1 DEF HeldBelow
    <2>4. Held(callFrames) = HeldBelow(callFrames, 1) + callFrames[1].height
      <3>1. 1 \in Nat /\ 1 = Len(callFrames) /\ 1 > 0
        BY <1>1
      <3> HIDE DEF HeldBelow, Held
      <3> QED BY <1>3, <3>1, HeldOfLast
    <2> QED BY <1>1, <1>2, <2>3, <2>4
  <1>8. \A k \in Nat : KeptBelow(allFinallyStates, k) = 0
    <2> TAKE k \in Nat
    <2>1. {i \in 1 .. Len(allFinallyStates) : /\ allFinallyStates[i].kept
                                              /\ allFinallyStates[i].owner[1] < k} = {}
      BY <1>1
    <2> QED BY <2>1, FS_EmptySet DEF KeptBelow
  <1>9. StartsFit(callFrames, allFinallyStates)
    <2> SUFFICES ASSUME NEW k \in 1 .. Len(callFrames)
                 PROVE  HeldBelow(callFrames, k) + KeptBelow(allFinallyStates, k)
                            <= callFrames[k].startStackCount
      BY DEF StartsFit, HeldBelow
    <2>1. k = 1
      BY <1>1
    <2> QED BY <1>1, <1>2, <1>7, <1>8, <2>1
  <1>10. ModeFits
    <2>1. \A k \in 1 .. Top : ~exception[k]
      <3>1. 1 \in 1 .. MaxFrames
        BY UnwindingAssumption
      <3> QED BY <1>1, <3>1
    <2>2. mode # "resume" /\ mode # "done" /\ Returned = 0 /\ ~Pending /\ ~Frame.native
      BY <1>1, <1>2 DEF Returned, Pending
    <2>3. stackSize = Held(callFrames) + KeptBelow(allFinallyStates, Top + 1) + Returned
      <3>1. Top + 1 \in Nat
        BY <1>1
      <3> QED BY <1>1, <1>7, <1>8, <2>2, <3>1
    <2> QED BY <2>1, <2>2, <2>3 DEF ModeFits
  <1> QED BY <1>4, <1>5, <1>6, <1>9, <1>10 DEF StructuredInv, Matched

(* Every step keeps the invariant.                                         *)
LEMMA StructuredNext ==
    ASSUME Uses = {}, AnyProgramInv, StructuredInv, [Next]_vars
    PROVE  StructuredInv'
  <1>1. CASE UNCHANGED vars
    <2>1. /\ UNCHANGED <<callFrames, exception, notified, allHandlers, allFinallyStates,
                         stackSize, isFatalException, mode>>
      BY <1>1 DEF vars
    <2>2. Top' = Top /\ Frame' = Frame /\ Here' = Here
      BY <2>1 DEF Top, Frame, Here
    <2>3. Live' <=> Live
      BY <2>1 DEF Live
    <2>4. ModeFits' <=> ModeFits
      BY <2>1, <2>2 DEF ModeFits, Pending, Lost, Returned
    <2> QED BY <2>1, <2>3, <2>4 DEF StructuredInv
  <1>2. CASE ~Live
    <2>1. isFatalException => isFatalException' \/ UNCHANGED vars
      BY DEF Next, Stopped, Execute, Unwind, PushOperand, PopOperand, OperandUnderflow, EnterTry,
         RemoveTryAndJump, EndCatch, RemoveFinally, EndFinally, FinallyUnderflow, Skip,
         CallScript, CallNative, NativeCallback, CallOverflow, PushFrame, NativeReturn, NativeThrow,
         NativeThrowUnnoticed, Throw, OperatorError, OperatorErrorUnnoticed, LimitExceeded,
         LoadException, Return, Keep, UnwindToCatch, UnwindToFinally, UnwindFrame, Continue,
         ReturnThroughFinally, ReturnToCaller, Halt
    <2>2. mode \notin {"resume", "opcode", "catch", "done", "native"} => UNCHANGED vars
      BY DEF Next, Stopped, Execute, Unwind, PushOperand, PopOperand, OperandUnderflow, EnterTry,
         RemoveTryAndJump, EndCatch, RemoveFinally, EndFinally, FinallyUnderflow, Skip,
         CallScript, CallNative, NativeCallback, CallOverflow, NativeReturn, NativeThrow,
         NativeThrowUnnoticed, Throw, OperatorError, OperatorErrorUnnoticed, LimitExceeded,
         LoadException, Return, CodePops, AtOpcode, AtEndOf, UnwindToCatch, UnwindToFinally,
         UnwindFrame, Continue, Pending, ReturnThroughFinally, ReturnToCaller, Halt
    <2> QED BY <1>1, <1>2, <2>1, <2>2 DEF Live, StructuredInv
  <1>3. CASE Live /\ Next
    <2>1. Good
      BY <1>3 DEF Good, StructuredInv
    <2>2. CASE Execute
      <3>1. CASE PushOperand \/ PopOperand
        BY <2>1, <3>1, StructuredOperands
      <3>2. CASE \E code \in Tries : EnterTry(code)
        BY <2>1, <3>2, StructuredEnter
      <3>3. CASE RemoveTryAndJump \/ EndCatch \/ RemoveFinally \/ EndFinally
        BY <2>1, <3>3, StructuredRemoveTry, StructuredEndCatch, StructuredRemoveFinally,
           StructuredEndFinally
      <3>4. CASE \E d \in 1 .. MaxRegions : Skip(d)
        BY <2>1, <3>4, StructuredSkip
      <3>5. CASE \/ \E argc \in ArgCounts, value \in BOOLEAN, boundary \in BOOLEAN :
                        CallScript(argc, value, boundary)
                 \/ \E argc \in ArgCounts, value \in BOOLEAN :
                        CallNative(argc, value) \/ NativeCallback(argc, value)
        BY <2>1, <3>5, StructuredCalls
      <3>6. CASE NativeReturn \/ Return \/ LoadException
        BY <2>1, <3>6, StructuredNativeReturn, StructuredReturn, StructuredLoadException
      <3>7. CASE Throw \/ OperatorError \/ NativeThrow
        BY <2>1, <3>7, StructuredThrows
      <3>8. CASE LimitExceeded \/ CallOverflow \/ OperandUnderflow \/ FinallyUnderflow
        BY <3>8, StructuredStops
      <3>9. CASE NativeThrowUnnoticed \/ OperatorErrorUnnoticed
        BY <3>9 DEF NativeThrowUnnoticed, OperatorErrorUnnoticed, NotifierMayBeStale
      <3> QED BY <2>2, <3>1, <3>2, <3>3, <3>4, <3>5, <3>6, <3>7, <3>8, <3>9 DEF Execute
    <2>3. CASE Unwind
      BY <2>1, <2>3, StructuredCatch, StructuredFinally, StructuredUnwindFrame,
         StructuredContinue, StructuredReturnThroughFinally, StructuredReturnToCaller,
         StructuredStops DEF Unwind
    <2>4. CASE Stopped
      BY <1>1, <2>4 DEF Stopped
    <2> QED BY <1>3, <2>2, <2>3, <2>4 DEF Next
  <1> QED BY <1>1, <1>2, <1>3

(***************************************************************************)
(* The three stacks.                                                       *)
(***************************************************************************)
LEMMA Segment ==
    ASSUME NEW S, NEW s \in Seq(S), NEW a \in Nat, NEW b \in Nat, a <= b, b <= Len(s)
    PROVE  /\ SubSeq(s, a + 1, b) \in Seq(S) /\ Len(SubSeq(s, a + 1, b)) = b - a
           /\ \A i \in 1 .. b - a : SubSeq(s, a + 1, b)[i] = s[a + i]
  <1>1. Len(s) \in Nat
    BY LenProperties
  <1>2. \A i \in a + 1 .. b : s[i] \in S
    <2> TAKE i \in a + 1 .. b
    <2>1. i \in 1 .. Len(s)
      BY <1>1
    <2> QED BY <2>1, ElementOfSeq
  <1>3. a + 1 \in Int /\ b \in Int
    OBVIOUS
  <1> DEFINE t == SubSeq(s, a + 1, b)
             m == a + 1
  <1>4. /\ t \in Seq(S) /\ Len(t) = (IF m <= b THEN b - m + 1 ELSE 0)
        /\ \A i \in 1 .. b - m + 1 : t[i] = s[m + i - 1]
    BY <1>2, <1>3, SubSeqProperties
  <1> HIDE DEF t
  <1>5. Len(t) = b - a
    BY <1>4
  <1>6. \A i \in 1 .. b - a : t[i] = s[a + i]
    <2> TAKE i \in 1 .. b - a
    <2>1. i \in 1 .. b - m + 1 /\ m + i - 1 = a + i
      OBVIOUS
    <2> QED BY <1>4, <2>1
  <1> QED BY <1>4, <1>5, <1>6 DEF t

(* Handlers in the exact order are the handlers around an instruction.     *)
LEMMA ExactIsAround ==
    ASSUME NEW hs \in Seq(Handlers), NEW from \in Nat, NEW to \in Nat, from <= to,
           to <= Len(hs), NEW pos \in Positions, Exact(hs, from, to, pos)
    PROVE  AreHandlersAround(SubSeq(hs, from + 1, to), pos)
  <1> DEFINE own == SubSeq(hs, from + 1, to)
  <1>1. /\ own \in Seq(Handlers) /\ Len(own) = to - from
        /\ \A i \in 1 .. to - from : own[i] = hs[from + i]
    BY Segment
  <1> HIDE DEF own
  <1>2. HandlerCount(pos) \in Nat /\ Len(own) = HandlerCount(pos)
    <2>1. to = from + HandlerCount(pos) /\ HandlerCount(pos) \in Nat
      BY CountOfPosition DEF Exact
    <2> QED BY <1>1, <2>1
  <1>3. ASSUME NEW d \in DOMAIN pos
        PROVE  LET region == HandlersOfRegion(SubSeq(pos, 1, d))
                   below == HandlerCount(SubSeq(pos, 1, d - 1))
               IN  SubSeq(own, below + 1, below + Len(region)) = region
    <2> DEFINE region == HandlersOfRegion(Outer(pos, d))
               below == HandlerCount(Outer(pos, d - 1))
               w == Weight(pos[d].code)
               t == SubSeq(own, below + 1, below + w)
    <2>1. d \in 1 .. Len(pos) /\ Len(pos) \in Nat
      BY LenProperties DEF Positions
    <2>2. Outer(pos, d) \in Positions /\ Outer(pos, d) # <<>> /\ Last(Outer(pos, d)) = pos[d]
      BY <2>1, InnermostOfOuter
    <2>3. region \in Seq(Handlers) /\ Len(region) = w
      BY <2>2, RegionHandlers
    <2>4. /\ below \in Nat /\ w \in Nat /\ below + w <= HandlerCount(pos)
      <3>1. /\ d - 1 \in 0 .. Len(pos) /\ d \in 0 .. Len(pos)
            /\ HandlerCount(Outer(pos, d)) = below + w /\ w \in Nat
        BY SMTT(30), <2>1, CountOfOuter
      <3>2. HandlerCount(Outer(pos, d)) <= HandlerCount(pos) /\ below \in Nat
        BY <3>1, CountOfOuter
      <3> QED BY SMTT(30), <3>1, <3>2
    <2>5. \A i \in 1 .. w : hs[from + below + i] = region[i]
      <3>1. \A i \in 1 .. w : hs[from + below + i] = HandlerOf(pos, d, i)
        BY DEF Exact
      <3> QED BY <3>1 DEF HandlerOf
    <2> HIDE DEF region, below, w
    <2>6. /\ t \in Seq(Handlers) /\ Len(t) = w
          /\ \A i \in 1 .. w : t[i] = own[below + i]
      <3>1. below + w \in Nat /\ below <= below + w /\ below + w <= Len(own)
            /\ (below + w) - below = w
        BY <1>2, <2>4
      <3> HIDE DEF t
      <3>2. /\ SubSeq(own, below + 1, below + w) \in Seq(Handlers)
            /\ Len(SubSeq(own, below + 1, below + w)) = (below + w) - below
            /\ \A i \in 1 .. (below + w) - below :
                  SubSeq(own, below + 1, below + w)[i] = own[below + i]
        BY <1>1, <2>4, <3>1, Segment
      <3> QED BY SMTT(30), <3>1, <3>2 DEF t
    <2> HIDE DEF t
    <2>7. \A i \in 1 .. Len(t) : t[i] = region[i]
      <3> TAKE i \in 1 .. Len(t)
      <3>1. i \in 1 .. w /\ below + i \in 1 .. to - from
        BY <1>1, <1>2, <2>4, <2>6
      <3>2. own[below + i] = hs[from + (below + i)] /\ from + (below + i) = from + below + i
        BY <1>1, <2>4, <3>1
      <3> QED BY <2>5, <2>6, <3>1, <3>2
    <2>8. t = region
      BY SMTT(30), <2>3, <2>6, <2>7, SeqEqual
    <2>9. SubSeq(own, below + 1, below + Len(region)) = region
      BY <2>3, <2>8 DEF t
    <2> QED BY <2>9 DEF region, below, Outer
  <1>4. AreHandlersAround(own, pos)
    BY <1>2, <1>3 DEF AreHandlersAround
  <1> QED BY <1>4 DEF own

(* The invariant says more than that the three stacks match the code.      *)
LEMMA StructuredIsMatching ==
    ASSUME AnyProgramInv, StructuredInv, FatalInv
    PROVE  StacksMatchCode
  <1> SUFFICES ASSUME mode \in Running PROVE StacksMatchCode
    BY DEF StacksMatchCode, StackMatchesCode, HandlersMatchCode, FinallyStatesMatchCode
  <1>1. Good /\ mode \in {"opcode", "catch", "native"}
    BY DEF FatalInv, Running, Good, Live, StructuredInv
  <1>2. /\ callFrames \in Seq(Frames) /\ Top = Len(callFrames) /\ Top \in Nat \ {0}
        /\ allHandlers \in Seq(Handlers) /\ Len(allHandlers) \in Nat
        /\ allFinallyStates \in Seq(Completions) /\ Marks(callFrames, allHandlers)
    BY <1>1, GoodFrames
  <1>3. StackMatchesCode
    <2>1. stackSize = Held(callFrames) + KeptBelow(allFinallyStates, Top + 1)
      <3>1. /\ stackSize = Held(callFrames) + KeptBelow(allFinallyStates, Top + 1) + Returned
            /\ Returned = 0 /\ KeptBelow(allFinallyStates, Top + 1) \in Nat
        BY <1>1, WhileRunning
      <3>2. Held(callFrames) \in Int
        BY <1>2, HeldOfLast
      <3> QED BY <3>1, <3>2
    <2>2. OperandsHeld = Held(callFrames)
      BY DEF OperandsHeld, Held, Top
    <2>3. ValuesKept = KeptBelow(allFinallyStates, Top + 1)
      <3>1. DOMAIN allFinallyStates = 1 .. Len(allFinallyStates)
        BY <1>2, LenProperties
      <3>2. \A i \in 1 .. Len(allFinallyStates) : allFinallyStates[i].owner[1] < Top + 1
        BY <1>1, <1>2, OwnersAreActive
      <3>3. {i \in DOMAIN allFinallyStates : allFinallyStates[i].kept}
                = {i \in 1 .. Len(allFinallyStates) :
                      allFinallyStates[i].kept /\ allFinallyStates[i].owner[1] < Top + 1}
        BY <3>1, <3>2
      <3> QED BY <3>3 DEF ValuesKept, KeptBelow
    <2> QED BY <2>1, <2>2, <2>3 DEF StackMatchesCode
  <1>4. HandlersMatchCode
    <2> SUFFICES ASSUME NEW k \in 1 .. Top
                 PROVE  AreHandlersAround(HandlersOfFrame(k), callFrames[k].pos)
      BY DEF HandlersMatchCode
    <2> DEFINE from == callFrames[k].handlerIndex
               to == EndOf(callFrames, allHandlers, k)
    <2>1. Exact(allHandlers, from, to, callFrames[k].pos)
      BY <1>1, <1>2 DEF Good, Matched, HandlersExact
    <2>2. /\ callFrames[k].pos \in Positions /\ from \in Nat
          /\ HandlerCount(callFrames[k].pos) \in Nat
      BY <1>2, FrameTypes, CountOfPosition
    <2>3. to \in Nat /\ from <= to
      <3>1. to = from + HandlerCount(callFrames[k].pos)
        BY <2>1 DEF Exact
      <3> HIDE DEF from, to
      <3> QED BY <2>2, <3>1
    <2>4. to <= Len(allHandlers)
      <3>1. CASE k = Top
        BY <1>2, <3>1 DEF EndOf
      <3>2. CASE k # Top
        <4>1. k + 1 \in 1 .. Len(callFrames) /\ k # Len(callFrames)
          BY <1>2, <3>2
        <4> QED BY <1>2, <4>1 DEF EndOf, Marks
      <3> QED BY <3>1, <3>2
    <2>5. HandlersOfFrame(k) = SubSeq(allHandlers, from + 1, to)
      BY <1>2 DEF HandlersOfFrame, EndOf
    <2>6. AreHandlersAround(SubSeq(allHandlers, from + 1, to), callFrames[k].pos)
      <3> HIDE DEF from, to
      <3> QED BY <1>2, <2>1, <2>2, <2>3, <2>4, ExactIsAround
    <2> QED BY <2>5, <2>6
  <1>5. FinallyStatesMatchCode
    <2>1. StatesExact(callFrames, allFinallyStates)
      BY <1>1 DEF Good, Matched
    <2>2. /\ DOMAIN allFinallyStates = 1 .. Len(allFinallyStates)
          /\ \A i \in 1 .. Len(allFinallyStates) : allFinallyStates[i] \in ToSet(allFinallyStates)
          /\ \A x \in ToSet(allFinallyStates) :
                \E i \in 1 .. Len(allFinallyStates) : x = allFinallyStates[i]
      BY <1>2, LenProperties, SetOfSequence
    <2>3. {s.owner : s \in ToSet(allFinallyStates)} = Bodies(callFrames)
      <3>1. {s.owner : s \in ToSet(allFinallyStates)} \subseteq Bodies(callFrames)
        BY <2>1, <2>2 DEF StatesExact
      <3>2. Bodies(callFrames) \subseteq {s.owner : s \in ToSet(allFinallyStates)}
        BY <2>1, <2>2 DEF StatesExact
      <3> QED BY <3>1, <3>2
    <2>4. \A i, j \in DOMAIN allFinallyStates : i < j =>
              Before(allFinallyStates[i].owner, allFinallyStates[j].owner)
      BY <2>1, <2>2 DEF StatesExact
    <2> QED BY <2>3, <2>4 DEF FinallyStatesMatchCode, Bodies
  <1> QED BY <1>3, <1>4, <1>5 DEF StacksMatchCode

(* In a program of the structured fragment the operands, the handlers and  *)
(* the completions are those of the code at every opcode, however deep the *)
(* calls and the regions are nested.                                       *)
THEOREM StacksUnwindTogether ==
    ASSUME Uses = {} PROVE Spec => []StacksMatchCode
  <1>1. AnyProgramInv /\ StructuredInv /\ [Next]_vars => StructuredInv'
    BY StructuredNext
  <1>2. Init => FatalInv
    BY DEF Init, FatalInv
  <1>3. AnyProgramInv /\ FatalInv /\ [Next]_vars => FatalInv'
    BY FatalNext
  <1>4. AnyProgramInv /\ StructuredInv /\ FatalInv => StacksMatchCode
    BY StructuredIsMatching
  <1> QED BY AnyProgram, StructuredInit, <1>1, <1>2, <1>3, <1>4, PTL DEF Spec

(***************************************************************************)
(* The refinement.  What the VM's frames and completions mean as calls of  *)
(* TryCatchFinally, as operators of the two.                               *)
(***************************************************************************)
Parts == [code : {"try", "tryF", "tryCF", "catch", "catchF", "finally"},
          then : {"normal", "raise", "return"}]
Then(st, k, d) ==
    LET own == {i \in 1 .. Len(st) : st[i].owner = <<k, d>>}
    IN  IF own = {} THEN "normal" ELSE Completion(st[Max(own)].reason)
PartOf(r, st, k, d) ==
    [code |-> IF r.code = "joinF" THEN "tryCF" ELSE r.code,
     then |-> IF r.code = "finally" THEN Then(st, k, d) ELSE "normal"]
MeaningOf(pos, st, k) == [d \in 1 .. Len(pos) |-> PartOf(pos[d], st, k, d)]
CallsOf(cf, st) == [k \in 1 .. Len(cf) |-> MeaningOf(cf[k].pos, st, k)]

(* A function on the first numbers is a sequence.                          *)
LEMMA FunctionIsSeq ==
    ASSUME NEW S, NEW n \in Nat, NEW f \in [1 .. n -> S]
    PROVE  f \in Seq(S) /\ Len(f) = n
  <1>1. f \in Seq(S)
    BY SeqDef
  <1>2. Len(f) \in Nat /\ DOMAIN f = 1 .. Len(f)
    BY <1>1, LenProperties
  <1> QED BY <1>1, <1>2

(* The meaning of a position has a part for every region.                  *)
LEMMA MeaningTypes ==
    ASSUME NEW pos \in Positions, NEW st, NEW k
    PROVE  /\ MeaningOf(pos, st, k) \in Seq(Parts)
           /\ Len(MeaningOf(pos, st, k)) = Len(pos) /\ Len(pos) \in Nat
           /\ DOMAIN MeaningOf(pos, st, k) = 1 .. Len(pos)
           /\ \A d \in 1 .. Len(pos) : /\ MeaningOf(pos, st, k)[d] = PartOf(pos[d], st, k, d)
                                       /\ PartOf(pos[d], st, k, d) \in Parts
  <1> DEFINE n == Len(pos)
             f == MeaningOf(pos, st, k)
  <1>1. /\ n \in Nat /\ \A d \in 1 .. n : pos[d].code \in Codes
    BY WholeAndNothing, OuterRegions
  <1>2. \A d \in 1 .. n : PartOf(pos[d], st, k, d) \in Parts
    <2> TAKE d \in 1 .. n
    <2>1. Then(st, k, d) \in {"normal", "raise", "return"}
      BY DEF Then, Completion
    <2>2. pos[d].code \in Codes
      BY <1>1
    <2>3. (IF pos[d].code = "joinF" THEN "tryCF" ELSE pos[d].code)
              \in {"try", "tryF", "tryCF", "catch", "catchF", "finally"}
      BY <2>2 DEF Codes, Tries
    <2>4. (IF pos[d].code = "finally" THEN Then(st, k, d) ELSE "normal")
              \in {"normal", "raise", "return"}
      BY <2>1
    <2> QED BY <2>3, <2>4 DEF PartOf, Parts
  <1>3. f \in [1 .. n -> Parts] /\ \A d \in 1 .. n : f[d] = PartOf(pos[d], st, k, d)
    BY <1>2 DEF MeaningOf
  <1>4. f \in Seq(Parts) /\ Len(f) = n /\ DOMAIN f = 1 .. n
    <2> HIDE DEF f, n
    <2> QED BY <1>1, <1>3, FunctionIsSeq
  <1> QED BY <1>1, <1>2, <1>3, <1>4

(* The calls have a position for every frame.                              *)
LEMMA CallsTypes ==
    ASSUME NEW cf \in Seq(Frames), NEW st
    PROVE  /\ CallsOf(cf, st) \in Seq(Seq(Parts))
           /\ Len(CallsOf(cf, st)) = Len(cf) /\ Len(cf) \in Nat
           /\ \A k \in 1 .. Len(cf) : /\ CallsOf(cf, st)[k] = MeaningOf(cf[k].pos, st, k)
                                      /\ MeaningOf(cf[k].pos, st, k) \in Seq(Parts)
  <1> DEFINE n == Len(cf)
             f == CallsOf(cf, st)
  <1>1. n \in Nat /\ \A k \in 1 .. n : MeaningOf(cf[k].pos, st, k) \in Seq(Parts)
    BY FrameTypes, MeaningTypes
  <1>2. f \in [1 .. n -> Seq(Parts)] /\ \A k \in 1 .. n : f[k] = MeaningOf(cf[k].pos, st, k)
    BY <1>1 DEF CallsOf
  <1>3. f \in Seq(Seq(Parts)) /\ Len(f) = n
    <2> HIDE DEF f, n
    <2> QED BY <1>1, <1>2, FunctionIsSeq
  <1> QED BY <1>1, <1>2, <1>3

(* The same position with the same completions means the same.             *)
LEMMA SameMeaning ==
    ASSUME NEW pos \in Positions, NEW st, NEW st2, NEW k,
           \A d \in 1 .. Len(pos) : pos[d].code = "finally" => Then(st2, k, d) = Then(st, k, d)
    PROVE  MeaningOf(pos, st2, k) = MeaningOf(pos, st, k)
  <1>1. \A d \in 1 .. Len(pos) : PartOf(pos[d], st2, k, d) = PartOf(pos[d], st, k, d)
    BY DEF PartOf
  <1> QED BY <1>1 DEF MeaningOf

(***************************************************************************)
(* Calls and positions.                                                    *)
(***************************************************************************)
(* The running frame moves.                                                *)
LEMMA CallsMove ==
    ASSUME NEW cf, NEW cf2, NEW f, MovesTo(cf, cf2, f), NEW st, NEW st2,
           \A k \in 1 .. Len(cf) - 1 :
              MeaningOf(cf[k].pos, st2, k) = MeaningOf(cf[k].pos, st, k)
    PROVE  CallsOf(cf2, st2) = [CallsOf(cf, st) EXCEPT ![Len(cf)] = MeaningOf(f.pos, st2, Len(cf))]
  <1> DEFINE n == Len(cf)
             c == CallsOf(cf, st)
             c2 == CallsOf(cf2, st2)
             x == MeaningOf(f.pos, st2, n)
  <1>1. /\ cf \in Seq(Frames) /\ cf2 \in Seq(Frames) /\ n \in Nat \ {0} /\ Len(cf2) = n
        /\ \A k \in 1 .. n : cf2[k] = IF k = n THEN f ELSE cf[k]
    BY DEF MovesTo
  <1>2. /\ c \in Seq(Seq(Parts)) /\ Len(c) = n
        /\ \A k \in 1 .. n : c[k] = MeaningOf(cf[k].pos, st, k)
    BY <1>1, CallsTypes
  <1>3. /\ c2 \in Seq(Seq(Parts)) /\ Len(c2) = n
        /\ \A k \in 1 .. n : c2[k] = MeaningOf(cf2[k].pos, st2, k) /\ c2[k] \in Seq(Parts)
    BY <1>1, CallsTypes
  <1>4. n \in 1 .. n /\ cf2[n] = f
    BY <1>1
  <1>5. c2[n] = x /\ x \in Seq(Parts)
    BY <1>3, <1>4
  <1>6. ASSUME NEW k \in 1 .. n, k # n PROVE c2[k] = c[k]
    <2>1. k \in 1 .. n - 1 /\ cf2[k] = cf[k]
      BY <1>1, <1>6
    <2> QED BY <1>2, <1>3, <2>1
  <1> HIDE DEF c, c2, x, n
  <1>7. /\ [c EXCEPT ![n] = x] \in Seq(Seq(Parts)) /\ Len([c EXCEPT ![n] = x]) = n
        /\ \A k \in 1 .. n : [c EXCEPT ![n] = x][k] = IF k = n THEN x ELSE c[k]
    BY <1>2, <1>4, <1>5, ExceptSeq
  <1>8. \A k \in 1 .. n : c2[k] = [c EXCEPT ![n] = x][k]
    BY <1>5, <1>6, <1>7
  <1>9. c2 = [c EXCEPT ![n] = x]
    BY <1>3, <1>7, <1>8, SeqEqual
  <1> QED BY <1>9 DEF c, c2, x, n

(* A frame is called.                                                      *)
LEMMA CallsPush ==
    ASSUME NEW cf, NEW cf2, NEW f, Pushes(cf, cf2, f), NEW st
    PROVE  CallsOf(cf2, st) = Append(CallsOf(cf, st), <<>>)
  <1> DEFINE n == Len(cf)
             c == CallsOf(cf, st)
             c2 == CallsOf(cf2, st)
  <1>1. /\ cf \in Seq(Frames) /\ cf2 \in Seq(Frames) /\ n \in Nat \ {0} /\ Len(cf2) = n + 1
        /\ \A k \in 1 .. n : cf2[k] = cf[k]
        /\ cf2[n + 1] = f /\ f.pos = <<>>
    BY DEF Pushes
  <1>2. /\ c \in Seq(Seq(Parts)) /\ Len(c) = n
        /\ \A k \in 1 .. n : c[k] = MeaningOf(cf[k].pos, st, k)
    BY <1>1, CallsTypes
  <1>3. /\ c2 \in Seq(Seq(Parts)) /\ Len(c2) = n + 1
        /\ \A k \in 1 .. n + 1 : c2[k] = MeaningOf(cf2[k].pos, st, k) /\ c2[k] \in Seq(Parts)
    BY <1>1, CallsTypes
  <1>4. n + 1 \in 1 .. n + 1 /\ \A k \in 1 .. n : k \in 1 .. n + 1
    BY <1>1
  <1>5. c2[n + 1] = <<>> /\ <<>> \in Seq(Parts)
    <2>1. c2[n + 1] = MeaningOf(<<>>, st, n + 1)
      BY <1>1, <1>3, <1>4
    <2>2. <<>> \in Positions /\ Len(<<>>) = 0
      BY EmptySeq DEF Positions
    <2>3. /\ MeaningOf(<<>>, st, n + 1) \in Seq(Parts)
          /\ Len(MeaningOf(<<>>, st, n + 1)) = 0
      BY <2>2, MeaningTypes
    <2> QED BY <2>1, <2>3, EmptySeq
  <1>6. \A k \in 1 .. n : c2[k] = c[k]
    BY <1>1, <1>2, <1>3, <1>4
  <1> HIDE DEF c, c2, n
  <1>7. /\ Append(c, <<>>) \in Seq(Seq(Parts)) /\ Len(Append(c, <<>>)) = n + 1
        /\ \A k \in 1 .. n : Append(c, <<>>)[k] = c[k]
        /\ Append(c, <<>>)[n + 1] = <<>>
    BY <1>2, <1>5, AppendProperties
  <1>8. \A k \in 1 .. n + 1 : c2[k] = Append(c, <<>>)[k]
    BY <1>1, <1>5, <1>6, <1>7
  <1>9. c2 = Append(c, <<>>)
    BY <1>3, <1>7, <1>8, SeqEqual
  <1> QED BY <1>9 DEF c, c2

(* A frame is gone, and those below are where they were.                   *)
LEMMA CallsPop ==
    ASSUME NEW cf \in Seq(Frames), NEW cf2 \in Seq(Frames), Len(cf) > 0,
           Len(cf2) = Len(cf) - 1, \A k \in 1 .. Len(cf) - 1 : cf2[k].pos = cf[k].pos, NEW st
    PROVE  CallsOf(cf2, st) = Front(CallsOf(cf, st))
  <1> DEFINE n == Len(cf)
             c == CallsOf(cf, st)
             c2 == CallsOf(cf2, st)
  <1>1. /\ c \in Seq(Seq(Parts)) /\ Len(c) = n /\ n \in Nat \ {0}
        /\ \A k \in 1 .. n : c[k] = MeaningOf(cf[k].pos, st, k)
    BY CallsTypes
  <1>2. /\ c2 \in Seq(Seq(Parts)) /\ Len(c2) = n - 1
        /\ \A k \in 1 .. n - 1 : c2[k] = MeaningOf(cf2[k].pos, st, k)
    BY CallsTypes
  <1>3. \A k \in 1 .. n - 1 : c2[k] = c[k]
    <2>1. \A k \in 1 .. n - 1 : k \in 1 .. n
      BY <1>1
    <2> QED BY <1>1, <1>2, <2>1
  <1> HIDE DEF c, c2, n
  <1>4. c # <<>>
    BY <1>1, EmptySeq
  <1>5. /\ Front(c) \in Seq(Seq(Parts)) /\ Len(Front(c)) = n - 1
        /\ \A k \in 1 .. n - 1 : Front(c)[k] = c[k]
    BY <1>1, <1>4, FrontAndLast
  <1>6. c2 = Front(c)
    BY <1>2, <1>3, <1>5, SeqEqual
  <1> QED BY <1>6 DEF c, c2

(* The meaning of the regions around a region.                             *)
LEMMA MeaningOfOuter ==
    ASSUME NEW pos \in Positions, NEW n \in 0 .. Len(pos), NEW st, NEW k
    PROVE  MeaningOf(Outer(pos, n), st, k) = SubSeq(MeaningOf(pos, st, k), 1, n)
  <1> DEFINE p == MeaningOf(pos, st, k)
             q == MeaningOf(Outer(pos, n), st, k)
  <1>1. /\ Outer(pos, n) \in Positions /\ Len(Outer(pos, n)) = n /\ Len(pos) \in Nat
        /\ \A i \in 1 .. n : Outer(pos, n)[i] = pos[i]
    BY OuterRegions
  <1>2. /\ p \in Seq(Parts) /\ Len(p) = Len(pos)
        /\ \A d \in 1 .. Len(pos) : p[d] = PartOf(pos[d], st, k, d)
    BY MeaningTypes
  <1>3. /\ q \in Seq(Parts) /\ Len(q) = n
        /\ \A d \in 1 .. n : q[d] = PartOf(Outer(pos, n)[d], st, k, d)
    BY <1>1, MeaningTypes
  <1>4. \A d \in 1 .. n : q[d] = p[d]
    <2>1. \A d \in 1 .. n : d \in 1 .. Len(pos)
      BY <1>1
    <2> QED BY <1>1, <1>2, <1>3, <2>1
  <1> HIDE DEF p, q
  <1>5. /\ SubSeq(p, 1, n) \in Seq(Parts) /\ Len(SubSeq(p, 1, n)) = n
        /\ \A d \in 1 .. n : SubSeq(p, 1, n)[d] = p[d]
    BY <1>2, Prefix
  <1>6. q = SubSeq(p, 1, n)
    BY <1>3, <1>4, <1>5, SeqEqual
  <1> QED BY <1>6 DEF p, q

(* The meaning of a position with a region more.                           *)
LEMMA MeaningOfAppend ==
    ASSUME NEW pos \in Positions, NEW r \in Regions, NEW st, NEW k
    PROVE  MeaningOf(Append(pos, r), st, k)
               = Append(MeaningOf(pos, st, k), PartOf(r, st, k, Len(pos) + 1))
  <1> DEFINE n == Len(pos)
             p == MeaningOf(pos, st, k)
             q == MeaningOf(Append(pos, r), st, k)
             e == PartOf(r, st, k, n + 1)
  <1>1. /\ Append(pos, r) \in Positions /\ Len(Append(pos, r)) = n + 1 /\ n \in Nat
        /\ \A i \in 1 .. n : Append(pos, r)[i] = pos[i]
        /\ Append(pos, r)[n + 1] = r
    BY OuterOfAppend
  <1>2. /\ p \in Seq(Parts) /\ Len(p) = n
        /\ \A d \in 1 .. n : p[d] = PartOf(pos[d], st, k, d)
    BY MeaningTypes
  <1>3. /\ q \in Seq(Parts) /\ Len(q) = n + 1
        /\ \A d \in 1 .. n + 1 : /\ q[d] = PartOf(Append(pos, r)[d], st, k, d)
                                 /\ q[d] \in Parts
    <2> DEFINE pos2 == Append(pos, r)
    <2>1. pos2 \in Positions /\ Len(pos2) = n + 1 /\ q = MeaningOf(pos2, st, k)
      BY <1>1
    <2> HIDE DEF pos2, q, n
    <2>2. /\ MeaningOf(pos2, st, k) \in Seq(Parts) /\ Len(MeaningOf(pos2, st, k)) = Len(pos2)
          /\ \A d \in 1 .. Len(pos2) :
                /\ MeaningOf(pos2, st, k)[d] = PartOf(pos2[d], st, k, d)
                /\ PartOf(pos2[d], st, k, d) \in Parts
      BY <2>1, MeaningTypes
    <2>3. /\ q \in Seq(Parts) /\ Len(q) = n + 1
          /\ \A d \in 1 .. n + 1 : q[d] = PartOf(pos2[d], st, k, d) /\ q[d] \in Parts
      BY <2>1, <2>2
    <2> QED BY <2>3 DEF pos2
  <1>4. n + 1 \in 1 .. n + 1 /\ \A d \in 1 .. n : d \in 1 .. n + 1
    BY <1>1
  <1>5. q[n + 1] = e /\ e \in Parts /\ \A d \in 1 .. n : q[d] = p[d]
    BY <1>1, <1>2, <1>3, <1>4
  <1> HIDE DEF p, q, e, n
  <1>6. /\ Append(p, e) \in Seq(Parts) /\ Len(Append(p, e)) = n + 1
        /\ \A d \in 1 .. n : Append(p, e)[d] = p[d]
        /\ Append(p, e)[n + 1] = e
    BY <1>2, <1>5, AppendProperties
  <1>7. \A d \in 1 .. n + 1 : q[d] = Append(p, e)[d]
    BY <1>1, <1>5, <1>6
  <1>8. q = Append(p, e)
    BY <1>3, <1>6, <1>7, SeqEqual
  <1> QED BY <1>8 DEF p, q, e, n

(***************************************************************************)
(* The completions of finally bodies.                                      *)
(***************************************************************************)
(* The last completion of a body counts.                                   *)
LEMMA ThenOfAppend ==
    ASSUME NEW st \in Seq(Completions), NEW s \in Completions, NEW k, NEW d
    PROVE  Then(Append(st, s), k, d)
               = IF s.owner = <<k, d>> THEN Completion(s.reason) ELSE Then(st, k, d)
  <1> DEFINE n == Len(st)
             st2 == Append(st, s)
             own == {i \in 1 .. n : st[i].owner = <<k, d>>}
             own2 == {i \in 1 .. Len(st2) : st2[i].owner = <<k, d>>}
  <1>1. /\ n \in Nat /\ Len(st2) = n + 1 /\ st2[n + 1] = s
        /\ \A i \in 1 .. n : st2[i] = st[i]
    BY LenProperties, AppendProperties
  <1>2. own \in SUBSET (0 .. n) /\ own2 \in SUBSET (0 .. n + 1)
    BY <1>1
  <1>3. CASE s.owner = <<k, d>>
    <2>1. n + 1 \in own2
      BY <1>1, <1>3
    <2> HIDE DEF own2, st2, n
    <2>2. n + 1 \in Nat /\ own2 # {}
      BY <1>1, <2>1
    <2>3. Max(own2) \in own2 /\ \A m \in own2 : m <= Max(own2)
      BY <1>2, <2>2, GreatestNumber
    <2>4. Max(own2) \in 0 .. n + 1
      BY <1>2, <2>3
    <2>5. Max(own2) = n + 1
      BY <1>1, <2>1, <2>3, <2>4
    <2>6. Then(st2, k, d) = Completion(st2[Max(own2)].reason)
      BY <2>2 DEF Then, own2
    <2> QED BY <1>1, <1>3, <2>5, <2>6 DEF st2
  <1>4. CASE s.owner # <<k, d>>
    <2>1. own2 = own
      <3>1. ASSUME NEW i \in own2 PROVE i \in own
        BY <1>1, <1>4, <3>1
      <3>2. ASSUME NEW i \in own PROVE i \in own2
        BY <1>1, <3>2
      <3> QED BY <3>1, <3>2
    <2>2. Then(st2, k, d) = IF own = {} THEN "normal" ELSE Completion(st2[Max(own)].reason)
      BY <2>1 DEF Then
    <2>3. Then(st, k, d) = IF own = {} THEN "normal" ELSE Completion(st[Max(own)].reason)
      BY DEF Then
    <2>4. own # {} => st2[Max(own)] = st[Max(own)]
      <3>1. \A i \in own : st2[i] = st[i]
        BY <1>1
      <3> HIDE DEF own, st2, n
      <3>2. own # {} => Max(own) \in own
        BY <1>1, <1>2, GreatestNumber
      <3> QED BY <3>1, <3>2
    <2> HIDE DEF own, st2
    <2> QED BY <1>4, <2>2, <2>3, <2>4 DEF st2
  <1> QED BY <1>3, <1>4

(* When the last completion goes, those of other bodies stay.              *)
LEMMA ThenOfFront ==
    ASSUME NEW st \in Seq(Completions), st # <<>>, NEW k, NEW d
    PROVE  Then(st, k, d) = IF Last(st).owner = <<k, d>> THEN Completion(Last(st).reason)
                            ELSE Then(Front(st), k, d)
  <1>1. /\ Front(st) \in Seq(Completions) /\ Last(st) \in Completions
        /\ st = Append(Front(st), Last(st))
    BY FrontAndLast
  <1> DEFINE f == Front(st)
             l == Last(st)
  <1>2. Then(Append(f, l), k, d)
            = IF l.owner = <<k, d>> THEN Completion(l.reason) ELSE Then(f, k, d)
    <2> HIDE DEF f, l
    <2> QED BY <1>1, ThenOfAppend DEF f, l
  <1> QED BY <1>1, <1>2

(* A frame without the body a completion belongs to does not see it.       *)
LEMMA MeaningElsewhere ==
    ASSUME NEW pos \in Positions, NEW st \in Seq(Completions), NEW s \in Completions,
           NEW k, s.owner[1] # k
    PROVE  MeaningOf(pos, Append(st, s), k) = MeaningOf(pos, st, k)
  <1>1. \A d : s.owner # <<k, d>>
    OBVIOUS
  <1>2. \A d \in 1 .. Len(pos) : Then(Append(st, s), k, d) = Then(st, k, d)
    BY <1>1, ThenOfAppend
  <1> QED BY <1>2, SameMeaning

(***************************************************************************)
(* A region becomes another.                                               *)
(***************************************************************************)
(* Its part follows those around it.                                       *)
LEMMA MeaningOfTurn ==
    ASSUME NEW pos \in Positions, NEW d \in 1 .. Len(pos), NEW code \in Codes,
           NEW st, NEW st2, NEW k, \A e \in 1 .. d - 1 : Then(st2, k, e) = Then(st, k, e)
    PROVE  MeaningOf(Turn(pos, d, code), st2, k)
               = Append(TCF!Outside(MeaningOf(pos, st, k), d),
                        PartOf(Region(code, pos[d].h), st2, k, d))
  <1> DEFINE out == Outer(pos, d - 1)
             r == Region(code, pos[d].h)
  <1>1. /\ d - 1 \in 0 .. Len(pos) /\ out \in Positions /\ Len(out) = d - 1
        /\ pos[d].h \in Nat /\ d - 1 + 1 = d
    <2>1. d - 1 \in 0 .. Len(pos) /\ d - 1 + 1 = d
      BY OuterRegions
    <2> QED BY <2>1, OuterRegions
  <1>2. r \in Regions
    BY <1>1 DEF Region, Regions
  <1>3. MeaningOf(out, st2, k) = MeaningOf(out, st, k)
    <2>1. \A e \in 1 .. Len(out) : Then(st2, k, e) = Then(st, k, e)
      BY <1>1
    <2> HIDE DEF out
    <2> QED BY <1>1, <2>1, SameMeaning
  <1>4. MeaningOf(out, st, k) = TCF!Outside(MeaningOf(pos, st, k), d)
    BY <1>1, MeaningOfOuter DEF TCF!Outside
  <1>5. MeaningOf(Append(out, r), st2, k)
            = Append(MeaningOf(out, st2, k), PartOf(r, st2, k, Len(out) + 1))
    <2> HIDE DEF out, r
    <2> QED BY <1>1, <1>2, MeaningOfAppend
  <1>6. Turn(pos, d, code) = Append(out, r)
    BY DEF Turn
  <1> HIDE DEF out, r
  <1> QED BY <1>1, <1>3, <1>4, <1>5, <1>6 DEF r

(* A region becomes its finally, with what it interrupts.                  *)
LEMMA TurnToFinally ==
    ASSUME NEW pos \in Positions, NEW d \in 1 .. Len(pos), NEW st \in Seq(Completions),
           NEW s \in Completions, NEW k, s.owner = <<k, d>>
    PROVE  MeaningOf(Turn(pos, d, "finally"), Append(st, s), k)
               = TCF!InFinally(MeaningOf(pos, st, k), d, Completion(s.reason))
  <1> DEFINE st2 == Append(st, s)
             r == Region("finally", pos[d].h)
  <1>1. \A e \in 1 .. d - 1 : Then(st2, k, e) = Then(st, k, e)
    <2> TAKE e \in 1 .. d - 1
    <2>1. s.owner # <<k, e>>
      BY OuterRegions
    <2> QED BY <2>1, ThenOfAppend
  <1>2. PartOf(r, st2, k, d) = TCF!Part("finally", Completion(s.reason))
    <2>1. Then(st2, k, d) = Completion(s.reason)
      BY ThenOfAppend
    <2> HIDE DEF st2
    <2> QED BY <2>1 DEF PartOf, TCF!Part, Region
  <1>3. "finally" \in Codes
    BY DEF Codes
  <1>4. MeaningOf(Turn(pos, d, "finally"), st2, k)
            = Append(TCF!Outside(MeaningOf(pos, st, k), d), PartOf(r, st2, k, d))
    <2> HIDE DEF st2
    <2> QED BY <1>1, <1>3, MeaningOfTurn
  <1> QED BY <1>2, <1>4 DEF TCF!InFinally

(* A region becomes its catch.                                             *)
LEMMA TurnToCatch ==
    ASSUME NEW pos \in Positions, NEW d \in 1 .. Len(pos), NEW code \in {"catch", "catchF"},
           NEW st, NEW k
    PROVE  MeaningOf(Turn(pos, d, code), st, k)
               = Append(TCF!Outside(MeaningOf(pos, st, k), d), TCF!Part(code, "normal"))
  <1> DEFINE r == Region(code, pos[d].h)
  <1>1. PartOf(r, st, k, d) = TCF!Part(code, "normal")
    BY DEF PartOf, TCF!Part, Region
  <1>2. code \in Codes
    BY DEF Codes
  <1>3. MeaningOf(Turn(pos, d, code), st, k)
            = Append(TCF!Outside(MeaningOf(pos, st, k), d), PartOf(r, st, k, d))
    BY <1>2, MeaningOfTurn
  <1> QED BY <1>1, <1>3

(* Before its REMOVE_FINALLY a region is still what it was.                *)
LEMMA TurnToJoin ==
    ASSUME NEW pos \in Positions, NEW st, NEW k, pos # <<>>, pos[Len(pos)].code = "tryCF"
    PROVE  MeaningOf(Turn(pos, Len(pos), "joinF"), st, k) = MeaningOf(pos, st, k)
  <1> DEFINE n == Len(pos)
             out == Outer(pos, n - 1)
             r == Region("joinF", pos[n].h)
  <1>1. n \in 1 .. n /\ n - 1 + 1 = n /\ n - 1 \in 0 .. n
    BY EmptySeq DEF Positions
  <1>2. /\ out \in Positions /\ Len(out) = n - 1 /\ pos[n] \in Regions
        /\ pos[n].h \in Nat
    BY <1>1, OuterRegions
  <1>3. pos = Append(out, pos[n])
    BY <1>1, InnermostOfOuter, WholeAndNothing
  <1>4. PartOf(r, st, k, n) = PartOf(pos[n], st, k, n)
    BY DEF PartOf, Region
  <1>5. r \in Regions
    BY <1>2 DEF Region, Regions, Codes
  <1>6. Turn(pos, n, "joinF") = Append(out, r)
    BY DEF Turn
  <1> DEFINE l == pos[n]
  <1>7. /\ MeaningOf(Append(out, r), st, k) = Append(MeaningOf(out, st, k), PartOf(r, st, k, Len(out) + 1))
        /\ MeaningOf(Append(out, l), st, k) = Append(MeaningOf(out, st, k), PartOf(l, st, k, Len(out) + 1))
    <2> HIDE DEF out, r, l
    <2>1. l \in Regions
      BY <1>2 DEF l
    <2> QED BY <1>2, <1>5, <2>1, MeaningOfAppend
  <1>8. Len(out) + 1 = n
    BY <1>1, <1>2
  <1> HIDE DEF out, r, n
  <1> QED BY <1>3, <1>4, <1>6, <1>7, <1>8 DEF n

(***************************************************************************)
(* The innermost region of some kind.                                      *)
(***************************************************************************)
(* It is at the greatest depth with such a part.                           *)
LEMMA InnermostPart ==
    ASSUME NEW p \in Seq(Parts), NEW codes, NEW d \in 1 .. Len(p), p[d].code \in codes,
           \A e \in d + 1 .. Len(p) : p[e].code \notin codes
    PROVE  TCF!DepthsOf(p, codes) # {} /\ TCF!Max(TCF!DepthsOf(p, codes)) = d
  <1> DEFINE D == {e \in 1 .. Len(p) : p[e].code \in codes}
  <1>1. Len(p) \in Nat /\ DOMAIN p = 1 .. Len(p)
    BY LenProperties
  <1>2. TCF!DepthsOf(p, codes) = D
    BY <1>1 DEF TCF!DepthsOf
  <1>3. D \in SUBSET (0 .. Len(p)) /\ d \in D
    BY <1>1
  <1>4. \A e \in D : e <= d
    BY <1>1
  <1> HIDE DEF D
  <1>5. Max(D) \in D /\ \A e \in D : e <= Max(D)
    BY <1>1, <1>3, GreatestNumber
  <1>6. Max(D) = d
    <2>1. Max(D) \in 0 .. Len(p) /\ Max(D) <= d /\ d <= Max(D)
      BY <1>3, <1>4, <1>5
    <2> QED BY <1>1, <2>1
  <1>7. TCF!Max(D) = Max(D)
    BY DEF TCF!Max, Max
  <1> QED BY <1>2, <1>3, <1>6, <1>7

(* There is none.                                                          *)
LEMMA NoSuchPart ==
    ASSUME NEW p \in Seq(Parts), NEW codes, \A e \in 1 .. Len(p) : p[e].code \notin codes
    PROVE  TCF!DepthsOf(p, codes) = {}
  <1>1. DOMAIN p = 1 .. Len(p)
    BY LenProperties
  <1> QED BY <1>1 DEF TCF!DepthsOf

(* The parts that protect are those of the regions with handlers, and      *)
(* those with a finally are those of the regions with one.                 *)
LEMMA KindsOfParts ==
    ASSUME NEW pos \in Positions, NEW st, NEW k, NEW d \in 1 .. Len(pos)
    PROVE  LET part == MeaningOf(pos, st, k)[d]
               code == pos[d].code
           IN  /\ part.code \in TCF!Protected <=> Weight(code) > 0
               /\ part.code \in TCF!Finalized <=> code \in WithFinally
               /\ part.code = IF code = "joinF" THEN "tryCF" ELSE code
               /\ code # "finally" => part.then = "normal"
               /\ code = "finally" => part.then = Then(st, k, d)
  <1>1. MeaningOf(pos, st, k)[d] = PartOf(pos[d], st, k, d)
    BY MeaningTypes
  <1>2. pos[d].code \in Codes
    BY WholeAndNothing, OuterRegions
  <1>3. Weight(pos[d].code) > 0 <=> pos[d].code \in Tries \cup WithFinally
    BY WeightedCodes
  <1> QED BY <1>1, <1>2, <1>3 DEF PartOf, TCF!Protected, TCF!Finalized, TCF!Tries, Tries,
                WithFinally, Codes

(***************************************************************************)
(* What the state means.                                                   *)
(***************************************************************************)
(* The mapping of Unwinding is CallsOf.                                    *)
LEMMA CallsForm ==
    ASSUME NEW cf \in Seq(Frames), NEW st \in Seq(Completions)
    PROVE  [k \in 1 .. Len(cf) |-> [d \in DOMAIN cf[k].pos |->
               [code |-> IF cf[k].pos[d].code = "joinF" THEN "tryCF" ELSE cf[k].pos[d].code,
                then |-> IF cf[k].pos[d].code = "finally"
                         THEN IF {i \in DOMAIN st : st[i].owner = <<k, d>>} = {} THEN "normal"
                              ELSE Completion(st[Max({i \in DOMAIN st :
                                                      st[i].owner = <<k, d>>})].reason)
                         ELSE "normal"]]]
               = CallsOf(cf, st)
  <1>1. DOMAIN st = 1 .. Len(st)
    BY LenProperties
  <1>2. \A k \in 1 .. Len(cf) : DOMAIN cf[k].pos = 1 .. Len(cf[k].pos)
    BY FrameTypes, LenProperties DEF Positions
  <1> QED BY <1>1, <1>2 DEF CallsOf, MeaningOf, PartOf, Then

(* Before a step and after it.                                             *)
LEMMA CallsAre ==
    ASSUME TypeOK
    PROVE  CallsOfFrames = CallsOf(callFrames, allFinallyStates)
  BY CallsForm DEF TypeOK, CallsOfFrames, Interrupted, Top
(* The calls after a step, by their formula.                               *)
LEMMA CallsAreNext ==
    ASSUME TypeOK'
    PROVE  CallsOfFrames' = CallsOf(callFrames', allFinallyStates')
  BY CallsForm DEF TypeOK, CallsOfFrames, Interrupted, Top

(* The calls, and where the running one is.                                *)
LEMMA Meant ==
    ASSUME Good
    PROVE  /\ CallsOfFrames = CallsOf(callFrames, allFinallyStates)
           /\ CallsOfFrames \in Seq(Seq(Parts)) /\ Len(CallsOfFrames) = Top
           /\ TCF!Position = MeaningOf(Here, allFinallyStates, Top)
           /\ TCF!Position \in Seq(Parts) /\ Len(TCF!Position) = Len(Here)
           /\ DOMAIN TCF!Position = 1 .. Len(Here)
           /\ \A x : TCF!Moved(x) = [CallsOf(callFrames, allFinallyStates)
                                         EXCEPT ![Len(callFrames)] = x]
  <1>1. /\ callFrames \in Seq(Frames) /\ Top = Len(callFrames) /\ Top \in 1 .. Top
        /\ Here = callFrames[Top].pos /\ Here \in Positions
    BY GoodFrames
  <1>2. CallsOfFrames = CallsOf(callFrames, allFinallyStates)
    BY CallsAre DEF Good, AnyProgramInv
  <1>3. /\ CallsOfFrames \in Seq(Seq(Parts)) /\ Len(CallsOfFrames) = Top
        /\ CallsOfFrames[Top] = MeaningOf(Here, allFinallyStates, Top)
    BY <1>1, <1>2, CallsTypes
  <1>4. TCF!Position = MeaningOf(Here, allFinallyStates, Top)
    BY <1>3 DEF TCF!Position
  <1>5. /\ MeaningOf(Here, allFinallyStates, Top) \in Seq(Parts)
        /\ Len(MeaningOf(Here, allFinallyStates, Top)) = Len(Here)
        /\ DOMAIN MeaningOf(Here, allFinallyStates, Top) = 1 .. Len(Here)
    BY <1>1, MeaningTypes
  <1>6. \A x : TCF!Moved(x) = [CallsOf(callFrames, allFinallyStates)
                                   EXCEPT ![Len(callFrames)] = x]
    BY <1>1, <1>2, <1>3 DEF TCF!Moved
  <1> QED BY <1>2, <1>3, <1>4, <1>5, <1>6

(* The running frame moves.                                                *)
LEMMA MoveIs ==
    ASSUME Good, TypeOK', NEW p, NEW h, callFrames' = SetTop(At(p, h))
    PROVE  /\ MovesTo(callFrames, callFrames', At(p, h)) /\ At(p, h).pos = p
           /\ Top' = Top /\ Here' = p /\ p \in Positions
  <1> DEFINE f == At(p, h)
             n == Top
  <1>1. /\ callFrames \in Seq(Frames) /\ n = Len(callFrames) /\ n \in Nat \ {0}
        /\ Frame \in Frames /\ Frame = callFrames[Len(callFrames)] /\ n \in 1 .. n
    BY GoodFrames
  <1>2. callFrames' \in Seq(Frames) /\ callFrames' = [callFrames EXCEPT ![n] = f]
    BY DEF TypeOK, SetTop
  <1>3. f \in Frames
    <2> HIDE DEF f, n
    <2>1. n \in DOMAIN callFrames
      BY <1>1, LenProperties
    <2>2. n \in DOMAIN callFrames' /\ callFrames'[n] = f
      BY <1>2, <2>1
    <2>3. DOMAIN callFrames' = 1 .. Len(callFrames')
      BY <1>2, LenProperties
    <2> QED BY <1>2, <2>2, <2>3, FrameTypes
  <1>4. SameCall(f, Frame) /\ f.pos = p
    BY <1>1 DEF At, Frames, SameCall
  <1> HIDE DEF f
  <1>5. /\ Len(callFrames') = Len(callFrames)
        /\ \A k \in 1 .. n : callFrames'[k] = IF k = n THEN f ELSE callFrames[k]
    BY <1>1, <1>2, <1>3, ExceptSeq
  <1>6. MovesTo(callFrames, callFrames', f)
    BY <1>1, <1>2, <1>3, <1>4, <1>5 DEF MovesTo
  <1>7. Top' = Top /\ Frame' = f
    BY <1>1, <1>5 DEF Top, Frame
  <1>8. Here' = p /\ p \in Positions
    BY <1>3, <1>4, <1>7 DEF Here, Frames
  <1> QED BY <1>4, <1>6, <1>7, <1>8 DEF f

(* A step adds or takes a completion of the running frame only.            *)
OwnCompletions ==
    \/ allFinallyStates' = allFinallyStates
    \/ \E s \in Completions : /\ s.owner[1] = Top
                              /\ allFinallyStates' = Append(allFinallyStates, s)
    \/ /\ allFinallyStates # <<>> /\ Last(allFinallyStates).owner[1] = Top
       /\ allFinallyStates' = Front(allFinallyStates)

(* A step that touches only its own completions leaves the meaning of the  *)
(* calls below.                                                            *)
LEMMA OthersMeanTheSame ==
    ASSUME Good, OwnCompletions, NEW k \in 1 .. Top - 1
    PROVE  MeaningOf(callFrames[k].pos, allFinallyStates', k)
               = MeaningOf(callFrames[k].pos, allFinallyStates, k)
  <1> DEFINE st == allFinallyStates
             pos == callFrames[k].pos
  <1>1. /\ callFrames \in Seq(Frames) /\ Top = Len(callFrames) /\ Top \in Nat
        /\ st \in Seq(Completions) /\ k \in 1 .. Len(callFrames) /\ k # Top
    BY GoodFrames
  <1>2. pos \in Positions
    BY <1>1, FrameTypes
  <1>3. CASE allFinallyStates' = allFinallyStates
    BY <1>3
  <1>4. CASE \E s \in Completions : s.owner[1] = Top /\ allFinallyStates' = Append(st, s)
    <2>1. PICK s \in Completions : s.owner[1] = Top /\ allFinallyStates' = Append(st, s)
      BY <1>4
    <2> HIDE DEF st, pos
    <2>2. MeaningOf(pos, Append(st, s), k) = MeaningOf(pos, st, k)
      BY <1>1, <1>2, <2>1, MeaningElsewhere
    <2> QED BY <2>1, <2>2 DEF st, pos
  <1>5. CASE st # <<>> /\ Last(st).owner[1] = Top /\ allFinallyStates' = Front(st)
    <2> HIDE DEF st, pos
    <2>1. /\ Front(st) \in Seq(Completions) /\ Last(st) \in Completions
          /\ st = Append(Front(st), Last(st))
      BY <1>1, <1>5, FrontAndLast
    <2>2. MeaningOf(pos, Append(Front(st), Last(st)), k) = MeaningOf(pos, Front(st), k)
      BY <1>1, <1>2, <1>5, <2>1, MeaningElsewhere
    <2> QED BY <1>5, <2>1, <2>2 DEF st, pos
  <1> QED BY <1>3, <1>4, <1>5 DEF OwnCompletions

(* What a move means.                                                      *)
LEMMA MoveMeans ==
    ASSUME Good, TypeOK', NEW p, NEW h, callFrames' = SetTop(At(p, h)), OwnCompletions
    PROVE  CallsOfFrames' = TCF!Moved(MeaningOf(p, allFinallyStates', Top))
  <1>1. MovesTo(callFrames, callFrames', At(p, h)) /\ At(p, h).pos = p
    BY MoveIs
  <1>2. Top = Len(callFrames)
    BY GoodFrames
  <1>3. \A k \in 1 .. Len(callFrames) - 1 :
            MeaningOf(callFrames[k].pos, allFinallyStates', k)
                = MeaningOf(callFrames[k].pos, allFinallyStates, k)
    BY <1>2, OthersMeanTheSame
  <1> DEFINE f == At(p, h)
  <1> HIDE DEF f
  <1>4. CallsOf(callFrames', allFinallyStates')
            = [CallsOf(callFrames, allFinallyStates) EXCEPT
                   ![Len(callFrames)] = MeaningOf(f.pos, allFinallyStates', Len(callFrames))]
    <2>1. MovesTo(callFrames, callFrames', f)
      BY <1>1 DEF f
    <2> QED BY <1>3, <2>1, CallsMove
  <1>5. f.pos = p
    BY <1>1 DEF f
  <1> QED BY <1>2, <1>4, <1>5, CallsAreNext, Meant

(***************************************************************************)
(* The joins.  Only the running frame can be before a REMOVE_FINALLY, and  *)
(* it raises nothing there.                                                *)
(***************************************************************************)
JoinInv ==
    Live => \A k \in 1 .. Top : \A d \in 1 .. Len(callFrames[k].pos) :
                callFrames[k].pos[d].code = "joinF" =>
                    k = Top /\ d = Len(callFrames[k].pos) /\ mode = "opcode"
ClearTo(cf, m) ==
    \A k \in 1 .. Len(cf) : \A d \in 1 .. Len(cf[k].pos) :
        (k = Len(cf) => d <= m) => cf[k].pos[d].code # "joinF"

(* Between opcodes, and outside a joinF, no frame is at one.               *)
LEMMA NoJoins ==
    ASSUME Good, JoinInv, mode # "opcode" \/ ~Inside({"joinF"})
    PROVE  /\ \A m : ClearTo(callFrames, m)
           /\ \A d \in 1 .. Len(Here) : Here[d].code # "joinF"
  <1>1. /\ Top = Len(callFrames) /\ Here = callFrames[Top].pos /\ Here \in Positions
        /\ Len(Here) \in Nat /\ Top \in 1 .. Top
    BY GoodFrames
  <1>2. ASSUME NEW k \in 1 .. Top, NEW d \in 1 .. Len(callFrames[k].pos),
               callFrames[k].pos[d].code = "joinF"
        PROVE  FALSE
    <2>1. k = Top /\ d = Len(callFrames[k].pos) /\ mode = "opcode"
      BY <1>2 DEF JoinInv, Good
    <2>2. Here[Len(Here)].code = "joinF" /\ Len(Here) # 0
      BY <1>1, <1>2, <2>1
    <2>3. Here # <<>> /\ Last(Here) = Here[Len(Here)]
      BY <1>1, <2>2, EmptySeq DEF Last
    <2> QED BY <2>1, <2>2, <2>3 DEF Inside
  <1>3. \A m : ClearTo(callFrames, m)
    BY <1>1, <1>2 DEF ClearTo
  <1>4. \A d \in 1 .. Len(Here) : Here[d].code # "joinF"
    BY <1>1, <1>2
  <1> QED BY <1>3, <1>4

(* The running frame moves, keeping the regions up to m.                   *)
LEMMA MovedJoins ==
    ASSUME Good, TypeOK', NEW p, NEW h, callFrames' = SetTop(At(p, h)),
           NEW m, Common(Here, p, m), Len(p) <= m + 1, ClearTo(callFrames, m),
           Len(p) = m + 1 /\ p[m + 1].code = "joinF" => mode' = "opcode"
    PROVE  JoinInv'
  <1>1. MovesTo(callFrames, callFrames', At(p, h)) /\ At(p, h).pos = p /\ Top' = Top
        /\ p \in Positions
    BY MoveIs
  <1>2. /\ Top = Len(callFrames) /\ Here = callFrames[Top].pos /\ Top \in Nat
    BY GoodFrames
  <1>3. ASSUME NEW k \in 1 .. Top, NEW d \in 1 .. Len(callFrames'[k].pos),
               callFrames'[k].pos[d].code = "joinF"
        PROVE  k = Top /\ d = Len(callFrames'[k].pos) /\ mode' = "opcode"
    <2>1. CASE k # Top
      <3>1. callFrames'[k] = callFrames[k]
        BY <1>1, <1>2, <2>1 DEF MovesTo
      <3> QED BY <1>2, <1>3, <2>1, <3>1 DEF ClearTo
    <2>2. CASE k = Top
      <3>1. callFrames'[k].pos = p /\ d \in 1 .. Len(p) /\ p[d].code = "joinF"
        <4>1. callFrames'[k] = At(p, h)
          BY <1>1, <1>2, <2>2 DEF MovesTo
        <4> QED BY <1>1, <1>3, <4>1
      <3>2. m \in Nat /\ m <= Len(Here) /\ Len(p) \in Nat
        BY <1>1, WholeAndNothing, LenProperties DEF Common, Positions
      <3>3. ~(d <= m)
        <4> SUFFICES ASSUME d <= m PROVE FALSE
          OBVIOUS
        <4>1. d \in 1 .. m
          BY <3>1, <3>2
        <4>2. p[d] = Here[d]
          BY <4>1 DEF Common
        <4>3. d \in 1 .. Len(callFrames[Top].pos) /\ Top \in 1 .. Len(callFrames)
          BY <1>2, <1>3, <2>2, <3>2, <4>1
        <4> QED BY <1>2, <3>1, <4>2, <4>3 DEF ClearTo
      <3>4. d = m + 1 /\ Len(p) = m + 1
        BY <3>1, <3>2, <3>3
      <3> QED BY <2>2, <3>1, <3>4
    <2> QED BY <2>1, <2>2
  <1> QED BY <1>1, <1>3 DEF JoinInv

(* The frames stay, a frame is pushed, or some go.                         *)
LEMMA OtherJoins ==
    ASSUME Good, TypeOK', \A m : ClearTo(callFrames, m),
           \/ UNCHANGED callFrames
           \/ \E f : Pushes(callFrames, callFrames', f)
           \/ /\ Len(callFrames') <= Len(callFrames)
              /\ \A k \in 1 .. Len(callFrames') : callFrames'[k].pos = callFrames[k].pos
    PROVE  JoinInv'
  <1>1. /\ callFrames \in Seq(Frames) /\ Len(callFrames) \in Nat
        /\ callFrames' \in Seq(Frames) /\ Len(callFrames') \in Nat
    BY GoodFrames, LenProperties DEF TypeOK
  <1>2. ASSUME NEW k \in 1 .. Len(callFrames), NEW d \in 1 .. Len(callFrames[k].pos)
        PROVE  callFrames[k].pos[d].code # "joinF"
    <2>1. ClearTo(callFrames, d)
      OBVIOUS
    <2>2. d <= d
      <3>1. Len(callFrames[k].pos) \in Nat
        BY <1>1, FrameTypes
      <3> QED BY <3>1
    <2> QED BY <2>1, <2>2 DEF ClearTo
  <1>3. ASSUME NEW k \in 1 .. Len(callFrames')
        PROVE  \/ k \in 1 .. Len(callFrames) /\ callFrames'[k].pos = callFrames[k].pos
               \/ callFrames'[k].pos = <<>>
    <2>1. CASE UNCHANGED callFrames
      BY <2>1
    <2>2. CASE \E f : Pushes(callFrames, callFrames', f)
      <3>1. PICK f : Pushes(callFrames, callFrames', f)
        BY <2>2
      <3>2. /\ Len(callFrames') = Len(callFrames) + 1
            /\ \A i \in 1 .. Len(callFrames) : callFrames'[i] = callFrames[i]
            /\ callFrames'[Len(callFrames) + 1].pos = <<>>
        BY <3>1 DEF Pushes
      <3>3. CASE k = Len(callFrames) + 1
        BY <3>2, <3>3
      <3>4. CASE k # Len(callFrames) + 1
        <4>1. k \in 1 .. Len(callFrames)
          BY <1>1, <3>2, <3>4
        <4> QED BY <3>2, <4>1
      <3> QED BY <3>3, <3>4
    <2>3. CASE /\ Len(callFrames') <= Len(callFrames)
               /\ \A i \in 1 .. Len(callFrames') : callFrames'[i].pos = callFrames[i].pos
      <3>1. k \in 1 .. Len(callFrames)
        BY <1>1, <2>3
      <3> QED BY <2>3, <3>1
    <2> QED BY <2>1, <2>2, <2>3
  <1>4. \A k \in 1 .. Len(callFrames') : \A d \in 1 .. Len(callFrames'[k].pos) :
            callFrames'[k].pos[d].code # "joinF"
    <2> TAKE k \in 1 .. Len(callFrames')
    <2> TAKE d \in 1 .. Len(callFrames'[k].pos)
    <2>1. CASE k \in 1 .. Len(callFrames) /\ callFrames'[k].pos = callFrames[k].pos
      BY <1>2, <2>1
    <2>2. CASE callFrames'[k].pos = <<>>
      BY <2>2
    <2> QED BY <1>3, <2>1, <2>2
  <1> QED BY <1>4 DEF JoinInv, Top

(***************************************************************************)
(* Steps of the code: each is a step of TryCatchFinally or none, and keeps *)
(* the joins where they are.                                               *)
(***************************************************************************)
Meets == TCF!Next \/ UNCHANGED TCF!tcfVars

(* Nothing that TryCatchFinally knows changes.                             *)
LEMMA NoStep ==
    ASSUME CallsOfFrames' = CallsOfFrames, Status' = Status,
           isFatalException' = isFatalException
    PROVE  Meets
  BY DEF Meets, TCF!tcfVars

(* What leaves the frames and the completions alone leaves the calls.      *)
LEMMA Unmoved ==
    ASSUME Good, TypeOK', UNCHANGED <<callFrames, allFinallyStates>>
    PROVE  CallsOfFrames' = CallsOfFrames
  BY CallsAre, CallsAreNext DEF Good, AnyProgramInv

(* A move to a place with the same meaning.                                *)
LEMMA MovedToTheSame ==
    ASSUME Good, TypeOK', NEW p, NEW h, callFrames' = SetTop(At(p, h)),
           UNCHANGED allFinallyStates,
           MeaningOf(p, allFinallyStates, Top) = MeaningOf(Here, allFinallyStates, Top)
    PROVE  CallsOfFrames' = CallsOfFrames
  <1> DEFINE c == CallsOfFrames
             n == Len(callFrames)
             x == MeaningOf(Here, allFinallyStates, Top)
  <1>1. CallsOfFrames' = TCF!Moved(x)
    <2>1. OwnCompletions
      BY DEF OwnCompletions
    <2>2. CallsOfFrames' = TCF!Moved(MeaningOf(p, allFinallyStates', Top))
      BY <2>1, MoveMeans
    <2> QED BY <2>2
  <1>2. /\ c \in Seq(Seq(Parts)) /\ Len(c) = n /\ n \in 1 .. n
        /\ TCF!Moved(x) = [c EXCEPT ![n] = x] /\ c[n] = x /\ x \in Seq(Parts)
    BY Meant, GoodFrames DEF TCF!Position
  <1> HIDE DEF c, n, x
  <1>3. /\ [c EXCEPT ![n] = x] \in Seq(Seq(Parts)) /\ Len([c EXCEPT ![n] = x]) = n
        /\ \A k \in 1 .. n : [c EXCEPT ![n] = x][k] = IF k = n THEN x ELSE c[k]
    BY <1>2, ExceptSeq
  <1>4. \A k \in 1 .. n : [c EXCEPT ![n] = x][k] = c[k]
    BY <1>2, <1>3
  <1>5. [c EXCEPT ![n] = x] = c
    BY <1>2, <1>3, <1>4, SeqEqual
  <1> QED BY <1>1, <1>2, <1>5 DEF c

(* Operands are nothing to TryCatchFinally.                                *)
LEMMA MeetsOperands ==
    ASSUME Good, JoinInv, TypeOK', PushOperand \/ PopOperand
    PROVE  Meets /\ JoinInv'
  <1>1. PICK h : callFrames' = SetTop(At(Here, h))
    BY DEF PushOperand, PopOperand
  <1>2. /\ mode = "opcode" /\ mode' = "opcode" /\ ~Inside({"joinF"})
        /\ UNCHANGED <<exception, isFatalException, allFinallyStates>>
    BY DEF PushOperand, PopOperand, CodePops, AtOpcode, Keep
  <1>3. Status = "running" /\ Status' = "running"
    BY <1>2 DEF Status
  <1>4. CallsOfFrames' = CallsOfFrames
    BY <1>1, <1>2, MovedToTheSame
  <1>5. Meets
    BY <1>2, <1>3, <1>4, NoStep
  <1>6. Here \in Positions /\ Len(Here) \in Nat /\ Len(Here) \in 0 .. Len(Here)
    BY GoodFrames
  <1>7. Common(Here, Here, Len(Here)) /\ Len(Here) <= Len(Here) + 1 /\ Len(Here) # Len(Here) + 1
    BY <1>6, CommonOuter
  <1>8. ClearTo(callFrames, Len(Here))
    BY <1>2, NoJoins
  <1>9. JoinInv'
    BY <1>1, <1>7, <1>8, MovedJoins
  <1> QED BY <1>5, <1>9

(* A region is entered.                                                    *)
LEMMA MeetsEnter ==
    ASSUME Good, JoinInv, TypeOK', NEW code \in Tries, EnterTry(code)
    PROVE  Meets /\ JoinInv'
  <1> DEFINE r == Region(code, Frame.height)
             p == Append(Here, r)
             st == allFinallyStates
  <1>1. /\ mode = "opcode" /\ mode' = "opcode" /\ ~Inside({"joinF"})
        /\ callFrames' = SetTop(At(p, Frame.height))
        /\ UNCHANGED <<exception, isFatalException, allFinallyStates>>
    BY DEF EnterTry, AtOpcode, Keep
  <1>2. /\ Here \in Positions /\ Len(Here) \in Nat /\ r \in Regions
        /\ code \in Codes /\ code # "joinF" /\ code # "finally"
    BY GoodFrames DEF Region, Regions, Codes, Tries
  <1>3. MeaningOf(p, st, Top) = Append(TCF!Position, TCF!Part(code, "normal"))
    <2>1. PartOf(r, st, Top, Len(Here) + 1) = TCF!Part(code, "normal")
      BY <1>2 DEF PartOf, TCF!Part, Region
    <2>2. MeaningOf(p, st, Top) = Append(MeaningOf(Here, st, Top), PartOf(r, st, Top, Len(Here) + 1))
      <3> HIDE DEF r
      <3> QED BY <1>2, MeaningOfAppend
    <2> QED BY <2>1, <2>2, Meant
  <1>4. CallsOfFrames' = TCF!Moved(Append(TCF!Position, TCF!Part(code, "normal")))
    <2>1. OwnCompletions
      BY <1>1 DEF OwnCompletions
    <2>2. CallsOfFrames' = TCF!Moved(MeaningOf(p, allFinallyStates', Top))
      <3> HIDE DEF p
      <3> QED BY <1>1, <2>1, MoveMeans
    <2> HIDE DEF p
    <2> QED BY <1>1, <1>3, <2>2
  <1>5. TCF!Enter(code) /\ code \in TCF!Tries
    <2>1. Status = "running" /\ Status' = "running"
      BY <1>1 DEF Status
    <2>2. code \in TCF!Tries
      BY DEF TCF!Tries, Tries
    <2> QED BY <1>1, <1>4, <2>1, <2>2 DEF TCF!Enter
  <1>6. Meets
    BY <1>5 DEF Meets, TCF!Next
  <1>7. /\ Common(Here, p, Len(Here)) /\ Len(p) = Len(Here) + 1
        /\ p[Len(Here) + 1].code # "joinF"
    <2>1. /\ Len(p) = Len(Here) + 1 /\ p[Len(Here) + 1] = r
          /\ \A i \in 1 .. Len(Here) : p[i] = Here[i]
      <3> HIDE DEF r
      <3> QED BY <1>2, OuterOfAppend
    <2>2. r.code # "joinF"
      BY <1>2 DEF Region
    <2> HIDE DEF p, r
    <2> QED BY <1>2, <2>1, <2>2 DEF Common
  <1>8. ClearTo(callFrames, Len(Here))
    BY <1>1, NoJoins
  <1>9. JoinInv'
    <2>1. Len(p) <= Len(Here) + 1
      BY <1>2, <1>7
    <2> HIDE DEF p
    <2> QED BY <1>1, <1>7, <1>8, <2>1, MovedJoins
  <1> QED BY <1>6, <1>9

(***************************************************************************)
(* The end of a region.                                                    *)
(***************************************************************************)
(* The three ways TryCatchFinally leaves a region.                         *)
LEMMA LeavesPlain ==
    ASSUME Status = "running", NEW n, n = Len(TCF!Position), TCF!Position # <<>>,
           TCF!Position[n].code \in {"try", "catch"},
           CallsOfFrames' = TCF!Moved(TCF!Outside(TCF!Position, n)),
           Status' = "running", UNCHANGED isFatalException
    PROVE  Meets
  <1>1. TCF!Leave
    BY DEF TCF!Leave, TCF!Finalized
  <1> QED BY <1>1 DEF Meets, TCF!Next
(* A normal end of a try or catch with a finally is a Leave to it.         *)
LEMMA LeavesToFinally ==
    ASSUME Status = "running", NEW n, n = Len(TCF!Position), TCF!Position # <<>>,
           TCF!Position[n].code \in TCF!Finalized,
           CallsOfFrames' = TCF!Moved(TCF!InFinally(TCF!Position, n, "normal")),
           Status' = "running", UNCHANGED isFatalException
    PROVE  Meets
  <1>1. TCF!Leave
    BY DEF TCF!Leave, TCF!Finalized
  <1> QED BY <1>1 DEF Meets, TCF!Next
(* The end of a finally is a Leave by the completion it was entered with.  *)
LEMMA LeavesFinally ==
    ASSUME Status = "running", NEW n, n = Len(TCF!Position), TCF!Position # <<>>,
           TCF!Position[n].code = "finally", NEW then, then = TCF!Position[n].then,
           CallsOfFrames' = TCF!Moved(TCF!Outside(TCF!Position, n)),
           then = "return" => Status' = "returning", then = "raise" => Status' = "raising",
           then \notin {"return", "raise"} => Status' = "running", UNCHANGED isFatalException
    PROVE  Meets
  <1>1. TCF!Leave
    BY DEF TCF!Leave, TCF!Finalized
  <1> QED BY <1>1 DEF Meets, TCF!Next

(* The innermost region of the running call.                               *)
LEMMA InnermostRegion ==
    ASSUME Good, JoinInv, NEW codes, AtEndOf(codes)
    PROVE  LET n == Len(Here)
           IN  /\ n \in 1 .. n /\ n - 1 \in 0 .. n /\ n - 1 \in Nat /\ (n - 1) + 1 = n
               /\ Here[n].code \in codes /\ mode = "opcode" /\ Status = "running"
               /\ n = Len(TCF!Position) /\ TCF!Position # <<>>
               /\ TCF!Position[n] = PartOf(Here[n], allFinallyStates, Top, n)
               /\ MeaningOf(Outer(Here, n - 1), allFinallyStates, Top)
                      = TCF!Outside(TCF!Position, n)
               /\ Common(Here, Outer(Here, n - 1), n - 1)
               /\ Len(Outer(Here, n - 1)) = n - 1
               /\ ClearTo(callFrames, n - 1)
               /\ \A code \in Codes : /\ Common(Here, Turn(Here, n, code), n - 1)
                                      /\ Len(Turn(Here, n, code)) = n
                                      /\ Turn(Here, n, code)[n].code = code
  <1> DEFINE n == Len(Here)
             st == allFinallyStates
  <1>1. /\ n \in 1 .. n /\ n - 1 \in 0 .. n /\ Here[n].code \in codes /\ mode = "opcode"
    BY AtTheEnd
  <1>2. n \in Nat /\ n - 1 \in Nat /\ (n - 1) + 1 = n
    BY <1>1, GoodFrames
  <1>3. Status = "running"
    BY <1>1 DEF Status
  <1>4. /\ Here \in Positions /\ Top = Len(callFrames) /\ Here = callFrames[Top].pos
    BY GoodFrames
  <1>5. /\ n = Len(TCF!Position) /\ TCF!Position \in Seq(Parts)
        /\ TCF!Position = MeaningOf(Here, st, Top)
    BY Meant
  <1>6. TCF!Position # <<>>
    BY <1>1, <1>2, <1>5, EmptySeq
  <1>7. TCF!Position[n] = PartOf(Here[n], st, Top, n)
    BY <1>1, <1>4, <1>5, MeaningTypes
  <1>8. MeaningOf(Outer(Here, n - 1), st, Top) = TCF!Outside(TCF!Position, n)
    <2> DEFINE m == n - 1
    <2>1. m \in 0 .. Len(Here)
      BY <1>1
    <2> HIDE DEF m
    <2>2. MeaningOf(Outer(Here, m), st, Top) = SubSeq(MeaningOf(Here, st, Top), 1, m)
      BY <1>4, <2>1, MeaningOfOuter
    <2> HIDE DEF n
    <2> QED BY <1>5, <2>2 DEF m, TCF!Outside
  <1>9. /\ Common(Here, Outer(Here, n - 1), n - 1) /\ Len(Outer(Here, n - 1)) = n - 1
    BY <1>1, <1>4, CommonOuter, OuterRegions
  <1>10. ClearTo(callFrames, n - 1)
    <2> SUFFICES ASSUME NEW k \in 1 .. Len(callFrames), NEW d \in 1 .. Len(callFrames[k].pos),
                        k = Len(callFrames) => d <= n - 1, callFrames[k].pos[d].code = "joinF"
                 PROVE  FALSE
      BY DEF ClearTo
    <2>1. k = Top /\ d = Len(callFrames[k].pos)
      BY <1>4 DEF JoinInv, Good
    <2>2. n <= n - 1
      BY <1>4, <2>1
    <2> QED BY <1>2, <2>2
  <1>11. ASSUME NEW code \in Codes
         PROVE  /\ Common(Here, Turn(Here, n, code), n - 1) /\ Len(Turn(Here, n, code)) = n
                /\ Turn(Here, n, code)[n].code = code
    <2>1. /\ Common(Here, Turn(Here, n, code), n - 1) /\ Len(Turn(Here, n, code)) = n
          /\ Turn(Here, n, code)[n] = Region(code, Here[n].h)
      BY <1>1, <1>4, TurnIs
    <2>2. Region(code, Here[n].h).code = code
      BY DEF Region
    <2> QED BY <2>1, <2>2
  <1> QED BY <1>1, <1>2, <1>3, <1>5, <1>6, <1>7, <1>8, <1>9, <1>10, <1>11

(* The innermost region is left, and the code goes on behind it.           *)
LEMMA MeetsLeaving ==
    ASSUME Good, JoinInv, TypeOK', AtEndOf({"try", "catch"}), mode' = "opcode",
           callFrames' = SetTop(At(Front(Here), Frame.height)),
           UNCHANGED <<allFinallyStates, exception, isFatalException>>
    PROVE  Meets /\ JoinInv'
  <1> DEFINE n == Len(Here)
             p == Outer(Here, n - 1)
  <1>1. /\ n = Len(TCF!Position) /\ TCF!Position # <<>> /\ Status = "running"
        /\ TCF!Position[n] = PartOf(Here[n], allFinallyStates, Top, n)
        /\ Here[n].code \in {"try", "catch"}
        /\ MeaningOf(p, allFinallyStates, Top) = TCF!Outside(TCF!Position, n)
        /\ Common(Here, p, n - 1) /\ Len(p) = n - 1 /\ ClearTo(callFrames, n - 1)
        /\ n - 1 \in Nat /\ (n - 1) + 1 = n /\ n \in 1 .. n
    BY InnermostRegion
  <1>2. callFrames' = SetTop(At(p, Frame.height))
    BY AtTheEnd
  <1>3. Status' = "running"
    BY DEF Status
  <1>4. TCF!Position[n].code \in {"try", "catch"}
    BY <1>1 DEF PartOf
  <1> HIDE DEF p, n
  <1>5. CallsOfFrames' = TCF!Moved(TCF!Outside(TCF!Position, n))
    <2>1. OwnCompletions
      BY DEF OwnCompletions
    <2>2. CallsOfFrames' = TCF!Moved(MeaningOf(p, allFinallyStates', Top))
      BY <1>2, <2>1, MoveMeans
    <2> QED BY <1>1, <2>2
  <1>6. Meets
    BY <1>1, <1>3, <1>4, <1>5, LeavesPlain
  <1>7. JoinInv'
    <2>1. Len(p) <= (n - 1) + 1 /\ Len(p) # (n - 1) + 1
      BY <1>1
    <2> QED BY <1>1, <1>2, <2>1, MovedJoins
  <1> QED BY <1>6, <1>7

(* The end of a catch: a Leave, or a stutter before the jump to the        *)
(* finally.                                                                *)
LEMMA MeetsEndCatch ==
    ASSUME Good, JoinInv, TypeOK', EndCatch
    PROVE  Meets /\ JoinInv'
  <1>1. /\ AtEndOf({"catch"}) /\ callFrames' = SetTop(At(Front(Here), Frame.height))
        /\ UNCHANGED <<allFinallyStates, exception, isFatalException, mode>>
    BY DEF EndCatch, Keep
  <1>2. AtEndOf({"try", "catch"}) /\ mode' = "opcode"
    BY <1>1 DEF AtEndOf, Inside
  <1> QED BY <1>1, <1>2, MeetsLeaving

(* The end of a try body: behind it, or before its REMOVE_FINALLY.         *)
LEMMA MeetsRemoveTry ==
    ASSUME Good, JoinInv, TypeOK', RemoveTryAndJump
    PROVE  Meets /\ JoinInv'
  <1> DEFINE n == Len(Here)
             p == Turn(Here, n, "joinF")
  <1>1. /\ AtEndOf({"try", "tryCF"}) /\ callFrames' = SetTop(At(AfterTry(Here), Frame.height))
        /\ UNCHANGED <<allFinallyStates, exception, isFatalException, mode>>
    BY DEF RemoveTryAndJump, Keep
  <1>2. /\ Last(Here) = Here[n] /\ Target(Here, "joinF") = p /\ Here[n].code \in {"try", "tryCF"}
        /\ mode = "opcode" /\ n \in 1 .. n /\ Here # <<>>
    BY <1>1, AtTheEnd DEF AtEndOf, Inside
  <1>3. CASE Here[n].code = "try"
    <2>1. AtEndOf({"try", "catch"}) /\ mode' = "opcode"
      BY <1>1, <1>2, <1>3 DEF AtEndOf, Inside
    <2>2. callFrames' = SetTop(At(Front(Here), Frame.height))
      BY <1>1, <1>2, <1>3 DEF AfterTry
    <2> QED BY <1>1, <2>1, <2>2, MeetsLeaving
  <1>4. CASE Here[n].code = "tryCF"
    <2>1. callFrames' = SetTop(At(p, Frame.height))
      BY <1>1, <1>2, <1>4 DEF AfterTry
    <2>2. /\ Common(Here, p, n - 1) /\ Len(p) = n /\ (n - 1) + 1 = n /\ n - 1 \in Nat
          /\ ClearTo(callFrames, n - 1)
      <3>1. "joinF" \in Codes
        BY DEF Codes
      <3> QED BY <1>1, <3>1, InnermostRegion
    <2>3. MeaningOf(p, allFinallyStates, Top) = MeaningOf(Here, allFinallyStates, Top)
      BY <1>2, <1>4, GoodFrames, TurnToJoin
    <2>4. Status = "running" /\ Status' = "running"
      BY <1>1, <1>2 DEF Status
    <2> HIDE DEF p, n
    <2>5. CallsOfFrames' = CallsOfFrames
      BY <1>1, <2>1, <2>3, MovedToTheSame
    <2>6. JoinInv'
      <3>1. Len(p) <= (n - 1) + 1 /\ mode' = "opcode"
        BY <1>1, <1>2, <2>2
      <3> QED BY <2>1, <2>2, <3>1, MovedJoins
    <2> QED BY <1>1, <2>4, <2>5, <2>6, NoStep
  <1> QED BY <1>2, <1>3, <1>4

(* The finally body of the innermost region is next.                       *)
LEMMA MeetsRemoveFinally ==
    ASSUME Good, JoinInv, TypeOK', RemoveFinally
    PROVE  Meets /\ JoinInv'
  <1> DEFINE n == Len(Here)
             p == Turn(Here, n, "finally")
             s == FinallyState("NORMAL", p, FALSE)
  <1>1. /\ AtEndOf({"tryF", "catchF", "joinF"})
        /\ callFrames' = SetTop(At(Target(Here, "finally"), Frame.height))
        /\ allFinallyStates'
               = Append(allFinallyStates, FinallyState("NORMAL", Target(Here, "finally"), FALSE))
        /\ UNCHANGED <<exception, isFatalException, mode>>
    BY DEF RemoveFinally, Keep, PushFinallyState
  <1>2. Target(Here, "finally") = p
    BY <1>1, AtTheEnd
  <1>3. "finally" \in Codes
    BY DEF Codes
  <1>4. /\ n = Len(TCF!Position) /\ TCF!Position # <<>> /\ Status = "running" /\ mode = "opcode"
        /\ TCF!Position[n] = PartOf(Here[n], allFinallyStates, Top, n)
        /\ Here[n].code \in {"tryF", "catchF", "joinF"}
        /\ Common(Here, p, n - 1) /\ Len(p) = n /\ p[n].code = "finally"
        /\ ClearTo(callFrames, n - 1)
        /\ n - 1 \in Nat /\ (n - 1) + 1 = n /\ n \in 1 .. n
    BY <1>1, <1>3, InnermostRegion
  <1>5. TCF!Position[n].code \in TCF!Finalized
    BY <1>4 DEF PartOf, TCF!Finalized
  <1>6. /\ Top \in Nat /\ allFinallyStates \in Seq(Completions) /\ Here \in Positions
    BY GoodFrames
  <1>7. s \in Completions /\ s.owner = <<Top, n>> /\ Completion(s.reason) = "normal"
    <2>1. n \in Nat /\ s.owner = <<Top, n>> /\ s.reason = "NORMAL" /\ s.kept = FALSE
      BY <1>4 DEF FinallyState
    <2>2. s \in Completions
      BY <1>4, <1>6, <2>1 DEF FinallyState, Completions
    <2> QED BY <2>1, <2>2 DEF Completion
  <1>8. callFrames' = SetTop(At(p, Frame.height)) /\ allFinallyStates' = Append(allFinallyStates, s)
    BY <1>1, <1>2
  <1>9. MeaningOf(p, allFinallyStates', Top) = TCF!InFinally(TCF!Position, n, "normal")
    <2>1. MeaningOf(p, Append(allFinallyStates, s), Top)
              = TCF!InFinally(MeaningOf(Here, allFinallyStates, Top), n, Completion(s.reason))
      <3> HIDE DEF s
      <3> QED BY <1>4, <1>6, <1>7, TurnToFinally
    <2> HIDE DEF s, p, n
    <2> QED BY <1>7, <1>8, <2>1, Meant
  <1> HIDE DEF s, p, n
  <1>10. CallsOfFrames' = TCF!Moved(TCF!InFinally(TCF!Position, n, "normal"))
    <2>1. OwnCompletions
      <3>1. s.owner[1] = Top
        BY <1>7
      <3> QED BY <1>7, <1>8, <3>1 DEF OwnCompletions
    <2>2. CallsOfFrames' = TCF!Moved(MeaningOf(p, allFinallyStates', Top))
      BY <1>8, <2>1, MoveMeans
    <2> QED BY <1>9, <2>2
  <1>11. Status' = "running"
    BY <1>1, <1>4 DEF Status
  <1>12. Meets
    BY <1>1, <1>4, <1>5, <1>10, <1>11, LeavesToFinally
  <1>13. JoinInv'
    <2>1. Len(p) <= (n - 1) + 1 /\ p[(n - 1) + 1].code # "joinF"
      BY <1>4
    <2> QED BY <1>4, <1>8, <2>1, MovedJoins
  <1> QED BY <1>12, <1>13

(* END_FINALLY: what the body interrupted goes on.                         *)
LEMMA MeetsEndFinally ==
    ASSUME Good, JoinInv, TypeOK', EndFinally
    PROVE  Meets /\ JoinInv'
  <1> DEFINE n == Len(Here)
             p == Outer(Here, n - 1)
             st == allFinallyStates
             s == Last(allFinallyStates)
  <1>1. /\ AtEndOf({"finally"}) /\ st # <<>> /\ st' = Front(st)
        /\ mode' = Resumed(s) /\ callFrames' = SetTop(At(Front(Here), Frame.height))
        /\ exception' = [exception EXCEPT ![Top] = @ \/ s.reason = "EXCEPTION"]
        /\ UNCHANGED isFatalException
    BY DEF EndFinally, StatesLeft
  <1>2. callFrames' = SetTop(At(p, Frame.height))
    BY <1>1, AtTheEnd
  <1>3. /\ n = Len(TCF!Position) /\ TCF!Position # <<>> /\ Status = "running" /\ mode = "opcode"
        /\ TCF!Position[n] = PartOf(Here[n], st, Top, n) /\ Here[n].code = "finally"
        /\ MeaningOf(p, st, Top) = TCF!Outside(TCF!Position, n)
        /\ Common(Here, p, n - 1) /\ Len(p) = n - 1 /\ ClearTo(callFrames, n - 1)
        /\ n - 1 \in Nat /\ (n - 1) + 1 = n /\ n \in 1 .. n
    BY <1>1, InnermostRegion
  <1>4. /\ callFrames \in Seq(Frames) /\ Top = Len(callFrames) /\ Top \in 1 .. Top
        /\ Here = callFrames[Len(callFrames)].pos /\ Here \in Positions /\ Top <= MaxFrames
        /\ st \in Seq(Completions) /\ Top \in Nat /\ MaxFrames \in Nat
        /\ exception \in [1 .. MaxFrames -> BOOLEAN]
        /\ StatesExact(callFrames, allFinallyStates)
    BY GoodFrames, UnwindingAssumption DEF Good, Matched
  <1>5. MovesTo(callFrames, callFrames', At(p, Frame.height)) /\ At(p, Frame.height).pos = p
        /\ Top' = Top /\ p \in Positions
    <2> HIDE DEF p
    <2> QED BY <1>2, MoveIs
  <1>6. s.owner = <<Top, n>> /\ s \in Completions
    <2> DEFINE f == At(p, Frame.height)
               m == n - 1
    <2>1. MovesTo(callFrames, callFrames', f) /\ f.pos = p
      BY <1>5
    <2> HIDE DEF f, p
    <2>2. /\ Common(callFrames[Len(callFrames)].pos, f.pos, m) /\ Len(f.pos) = m
          /\ Len(callFrames[Len(callFrames)].pos) = m + 1
          /\ callFrames[Len(callFrames)].pos[m + 1].code = "finally" /\ m + 1 = n
      BY <1>3, <1>4, <2>1
    <2> HIDE DEF m, n
    <2>3. /\ allFinallyStates \in Seq(Completions)
          /\ StatesExact(callFrames, allFinallyStates)
      BY <1>4
    <2>4. Last(allFinallyStates).owner = <<Len(callFrames), m + 1>>
      BY <2>1, <2>2, <2>3, MoveEndsState
    <2>5. Last(st) \in Completions
      BY <1>1, <1>4, FrontAndLast
    <2> QED BY <1>4, <2>2, <2>4, <2>5
  <1> DEFINE then == TCF!Position[n].then
  <1>7. then = Completion(s.reason) /\ TCF!Position[n].code = "finally"
    <2>1. Then(st, Top, n) = Completion(s.reason)
      BY <1>1, <1>4, <1>6, ThenOfFront
    <2>2. then = Then(st, Top, n)
      BY <1>3 DEF PartOf
    <2>3. TCF!Position[n].code = "finally"
      BY <1>3 DEF PartOf
    <2> QED BY <2>1, <2>2, <2>3
  <1>8. MeaningOf(p, st', Top) = MeaningOf(p, st, Top)
    <2>1. \A d \in 1 .. Len(p) : Then(Front(st), Top, d) = Then(st, Top, d)
      <3> TAKE d \in 1 .. Len(p)
      <3>1. s.owner # <<Top, d>>
        BY <1>3, <1>6
      <3> QED BY <1>1, <1>4, <3>1, ThenOfFront
    <2> HIDE DEF p
    <2> QED BY <1>1, <1>5, <2>1, SameMeaning
  <1>9. CallsOfFrames' = TCF!Moved(TCF!Outside(TCF!Position, n))
    <2>1. OwnCompletions
      BY <1>1, <1>6 DEF OwnCompletions
    <2> HIDE DEF p, n
    <2>2. CallsOfFrames' = TCF!Moved(MeaningOf(p, allFinallyStates', Top))
      BY <1>2, <2>1, MoveMeans
    <2> QED BY <1>3, <1>8, <2>2
  <1>10. /\ s.reason = "NORMAL" => then = "normal" /\ mode' = "opcode"
         /\ s.reason = "EXCEPTION" => then = "raise" /\ mode' = "resume"
         /\ s.reason \in {"RETURN_VALUE", "RETURN_VOID"} => then = "return" /\ mode' = "done"
         /\ s.reason \in {"NORMAL", "EXCEPTION", "RETURN_VALUE", "RETURN_VOID"}
    <2>1. s.reason \in {"NORMAL", "EXCEPTION", "RETURN_VALUE", "RETURN_VOID"}
      BY <1>6 DEF Completions
    <2> HIDE DEF then, s
    <2> QED BY <1>1, <1>7, <2>1 DEF Resumed, Completion
  <1>11. exception'[Top'] <=> s.reason = "EXCEPTION"
    <2>1. ~exception[Top]
      BY <1>3, <1>4, WhileRunning
    <2>2. Top \in 1 .. MaxFrames
      BY <1>4
    <2> HIDE DEF s
    <2> QED BY <1>1, <1>4, <1>5, <2>1, <2>2
  <1>12. /\ then = "return" => Status' = "returning" 
         /\ then = "raise" => Status' = "raising"
         /\ then \notin {"return", "raise"} => Status' = "running"
    <2> HIDE DEF then, s
    <2>1. CASE s.reason = "NORMAL"
      BY <1>10, <2>1 DEF Status
    <2>2. CASE s.reason = "EXCEPTION"
      BY <1>10, <1>11, <2>2 DEF Status
    <2>3. CASE s.reason \in {"RETURN_VALUE", "RETURN_VOID"}
      BY <1>10, <2>3 DEF Status
    <2> QED BY <1>10, <2>1, <2>2, <2>3
  <1>13. Meets
    <2> HIDE DEF then, n, p, s
    <2> QED BY <1>1, <1>3, <1>7, <1>9, <1>12, LeavesFinally DEF then
  <1>14. JoinInv'
    <2>1. Len(p) <= (n - 1) + 1 /\ Len(p) # (n - 1) + 1
      BY <1>3
    <2> HIDE DEF p, n
    <2> QED BY <1>2, <1>3, <2>1, MovedJoins
  <1> QED BY <1>13, <1>14

(* break and continue leave catch bodies only.                             *)
LEMMA MeetsSkip ==
    ASSUME Uses = {}, Good, JoinInv, TypeOK', NEW d, Skip(d)
    PROVE  Meets /\ JoinInv'
  <1> DEFINE n == Len(Here)
             m == d - 1
             p == Outer(Here, m)
             st == allFinallyStates
  <1>1. /\ mode = "opcode" /\ ~Inside({"joinF"}) /\ d \in DOMAIN Here
        /\ \A e \in d .. n : MayLeave(Here[e].code)
        /\ callFrames' = SetTop(At(p, Here[d].h))
        /\ UNCHANGED <<exception, allFinallyStates, isFatalException, mode>>
    BY DEF Skip, AtOpcode, Keep, Outer
  <1>2. Here \in Positions /\ n \in Nat /\ DOMAIN Here = 1 .. n
    BY GoodFrames, LenProperties DEF Positions
  <1>3. d \in 1 .. n /\ m \in 0 .. n /\ m \in Nat /\ \A e \in d .. n : e \in 1 .. n
    BY <1>1, <1>2
  <1>4. \A e \in d .. n : Here[e].code = "catch"
    <2> TAKE e \in d .. n
    <2>1. MayLeave(Here[e].code) /\ "leaveFinally" \notin Uses /\ "leaveTry" \notin Uses
      BY <1>1
    <2> QED BY <2>1 DEF MayLeave
  <1>5. /\ TCF!Position = MeaningOf(Here, st, Top) /\ Len(TCF!Position) = n
        /\ DOMAIN TCF!Position = 1 .. n
    BY Meant
  <1>6. \A e \in d .. Len(TCF!Position) : TCF!Position[e].code = "catch"
    <2> TAKE e \in d .. Len(TCF!Position)
    <2>1. e \in 1 .. n /\ Here[e].code = "catch"
      BY <1>3, <1>4, <1>5
    <2>2. TCF!Position[e] = PartOf(Here[e], st, Top, e)
      BY <1>2, <1>5, <2>1, MeaningTypes
    <2> QED BY <2>1, <2>2 DEF PartOf
  <1>7. MeaningOf(p, st, Top) = TCF!Outside(TCF!Position, d)
    <2> HIDE DEF m
    <2>1. MeaningOf(p, st, Top) = SubSeq(MeaningOf(Here, st, Top), 1, m)
      BY <1>2, <1>3, MeaningOfOuter
    <2> QED BY <1>5, <2>1 DEF TCF!Outside, m
  <1>8. CallsOfFrames' = TCF!Moved(TCF!Outside(TCF!Position, d))
    <2>1. OwnCompletions
      BY <1>1 DEF OwnCompletions
    <2> HIDE DEF p
    <2>2. CallsOfFrames' = TCF!Moved(MeaningOf(p, allFinallyStates', Top))
      BY <1>1, <2>1, MoveMeans
    <2> QED BY <1>1, <1>7, <2>2
  <1>9. Status = "running" /\ Status' = "running"
    BY <1>1 DEF Status
  <1>10. TCF!Jump(d) /\ d \in DOMAIN TCF!Position
    <2> HIDE DEF n
    <2> QED BY <1>1, <1>3, <1>5, <1>6, <1>8, <1>9 DEF TCF!Jump
  <1>11. Meets
    BY <1>9, <1>10 DEF Meets, TCF!Next
  <1>12. Common(Here, p, m) /\ Len(p) = m
    <2> HIDE DEF m
    <2> QED BY <1>2, <1>3, CommonOuter, OuterRegions
  <1>13. ClearTo(callFrames, m)
    <2> HIDE DEF m
    <2> QED BY <1>1, NoJoins
  <1>14. JoinInv'
    <2>1. Len(p) <= m + 1 /\ Len(p) # m + 1
      BY <1>3, <1>12
    <2> HIDE DEF p, m
    <2> QED BY <1>1, <1>12, <1>13, <2>1, MovedJoins
  <1> QED BY <1>11, <1>14

(***************************************************************************)
(* Calls, and exceptions that are raised.                                  *)
(***************************************************************************)
LEMMA MeetsCall ==
    ASSUME Good, JoinInv, TypeOK', mode = "native" \/ AtOpcode, RoomForFrame,
           NEW argc, NEW value, NEW boundary, NEW native,
           PushFrame(NewFrame(argc, value, boundary, native)),
           mode' \in {"opcode", "native"}
    PROVE  Meets /\ JoinInv'
  <1> DEFINE f == NewFrame(argc, value, boundary, native)
             n == Len(callFrames)
  <1>1. /\ callFrames \in Seq(Frames) /\ Top = n /\ n \in Nat \ {0}
        /\ callFrames' \in Seq(Frames)
    BY GoodFrames DEF TypeOK
  <1>2. /\ callFrames' = Append(callFrames, f) /\ f.pos = <<>> /\ f.height = 0
        /\ UNCHANGED <<allFinallyStates, isFatalException>>
    BY DEF PushFrame, NewFrame
  <1>3. Pushes(callFrames, callFrames', f)
    <2> HIDE DEF f
    <2>1. /\ Len(callFrames') = n + 1 /\ callFrames'[n + 1] = f
          /\ \A k \in 1 .. n : callFrames'[k] = callFrames[k]
      <3>1. callFrames \in Seq(Frames \cup {f}) /\ f \in Frames \cup {f}
        <4>1. \A i \in 1 .. n : callFrames[i] \in Frames \cup {f}
          BY <1>1, FrameTypes
        <4>2. DOMAIN callFrames = 1 .. n /\ callFrames = [i \in 1 .. n |-> callFrames[i]]
          BY <1>1, LenProperties
        <4>3. callFrames \in [1 .. n -> Frames \cup {f}]
          BY <4>1, <4>2
        <4> HIDE DEF n
        <4> QED BY <1>1, <4>3, SeqDef
      <3> QED BY <1>2, <3>1, AppendProperties
    <2>2. f \in Frames
      <3>1. n + 1 \in 1 .. Len(callFrames')
        BY <1>1, <2>1
      <3> QED BY <1>1, <2>1, <3>1, FrameTypes
    <2> QED BY <1>1, <1>2, <2>1, <2>2 DEF Pushes
  <1> HIDE DEF f
  <1>4. CallsOfFrames' = Append(CallsOfFrames, <<>>)
    BY <1>2, <1>3, CallsPush, CallsAreNext, Meant
  <1>5. Status = "running" /\ Status' = "running"
    BY DEF Status, AtOpcode
  <1>6. TCF!Call
    <2>1. Len(CallsOfFrames) < MaxFrames
      BY Meant DEF RoomForFrame
    <2> QED BY <1>2, <1>4, <1>5, <2>1 DEF TCF!Call
  <1>7. Meets
    BY <1>6 DEF Meets, TCF!Next
  <1>8. JoinInv'
    <2>1. mode # "opcode" \/ ~Inside({"joinF"})
      BY DEF AtOpcode
    <2>2. \A m : ClearTo(callFrames, m)
      BY <2>1, NoJoins
    <2> QED BY <1>3, <2>2, OtherJoins
  <1> QED BY <1>7, <1>8

(* Every call is the call of the abstract machine.                         *)
LEMMA MeetsCalls ==
    ASSUME Good, JoinInv, TypeOK', NEW argc, NEW value,
           \/ \E boundary \in BOOLEAN : CallScript(argc, value, boundary)
           \/ CallNative(argc, value) \/ NativeCallback(argc, value)
    PROVE  Meets /\ JoinInv'
  <1>1. ASSUME NEW boundary \in BOOLEAN, CallScript(argc, value, boundary)
        PROVE  Meets /\ JoinInv'
    BY <1>1, MeetsCall DEF CallScript
  <1>2. CASE CallNative(argc, value)
    BY <1>2, MeetsCall DEF CallNative
  <1>3. CASE NativeCallback(argc, value)
    BY <1>3, MeetsCall DEF NativeCallback
  <1> QED BY <1>1, <1>2, <1>3

(* An exception in the running call.                                       *)
LEMMA MeetsThrows ==
    ASSUME Good, JoinInv, TypeOK', Throw \/ OperatorError \/ NativeThrow
    PROVE  Meets /\ JoinInv'
  <1>1. /\ mode \in {"opcode", "native"} /\ (mode # "opcode" \/ ~Inside({"joinF"}))
        /\ exception' = [exception EXCEPT ![Top] = TRUE] /\ mode' = "resume"
        /\ UNCHANGED <<callFrames, allFinallyStates, isFatalException>>
    BY DEF Throw, OperatorError, NativeThrow, AtOpcode, Raise
  <1>2. Top' = Top /\ Top \in 1 .. MaxFrames /\ exception \in [1 .. MaxFrames -> BOOLEAN]
    BY <1>1, GoodFrames, UnwindingAssumption DEF Top
  <1>3. exception'[Top']
    BY <1>1, <1>2
  <1>4. Status = "running" /\ Status' = "raising"
    BY <1>1, <1>3 DEF Status
  <1>5. CallsOfFrames' = CallsOfFrames
    BY <1>1, Unmoved
  <1>6. TCF!Raise
    BY <1>1, <1>4, <1>5 DEF TCF!Raise
  <1>7. Meets
    BY <1>6 DEF Meets, TCF!Next
  <1>8. JoinInv'
    <2>1. \A m : ClearTo(callFrames, m)
      BY <1>1, NoJoins
    <2> QED BY <1>1, <2>1, OtherJoins
  <1> QED BY <1>7, <1>8

(* A limit, or a full frame pool.                                          *)
LEMMA MeetsFatal ==
    ASSUME Uses = {}, Good, TypeOK', LimitExceeded \/ CallOverflow
    PROVE  Meets /\ JoinInv'
  <1>1. /\ mode \in {"opcode", "catch", "native"} /\ mode' = "resume"
        /\ isFatalException' = TRUE /\ exception' = [exception EXCEPT ![notified] = TRUE]
        /\ UNCHANGED <<callFrames, allFinallyStates>>
    BY DEF LimitExceeded, CallOverflow, Raise
  <1>2. notified = Top
    <2>1. CASE LimitExceeded
      BY <2>1 DEF LimitExceeded, NotifierMayBeStale
    <2>2. CASE CallOverflow
      <3>1. OverflowReachesCaller
        BY CallerIsNotified DEF Good
      <3> QED BY <2>2, <3>1 DEF CallOverflow, OverflowReachesCaller
    <2> QED BY <2>1, <2>2
  <1>3. Top' = Top /\ Top \in 1 .. MaxFrames /\ exception \in [1 .. MaxFrames -> BOOLEAN]
    BY <1>1, GoodFrames, UnwindingAssumption DEF Top
  <1>4. exception'[Top']
    BY <1>1, <1>2, <1>3
  <1>5. Status = "running" /\ Status' = "raising"
    BY <1>1, <1>4 DEF Status
  <1>6. CallsOfFrames' = CallsOfFrames
    BY <1>1, Unmoved
  <1>7. TCF!RaiseFatal
    BY <1>1, <1>5, <1>6 DEF TCF!RaiseFatal
  <1>8. Meets
    BY <1>7 DEF Meets, TCF!Next
  <1>9. JoinInv'
    BY <1>1 DEF JoinInv, Live
  <1> QED BY <1>8, <1>9

(* Steps that TryCatchFinally does not see.                                *)
LEMMA MeetsUnseen ==
    ASSUME Good, JoinInv, TypeOK',
           OperandUnderflow \/ FinallyUnderflow \/ LoadException \/ Continue
    PROVE  Meets /\ JoinInv'
  <1>1. UNCHANGED <<callFrames, allFinallyStates, isFatalException>>
    BY DEF OperandUnderflow, FinallyUnderflow, LoadException, Continue, Keep
  <1>2. CallsOfFrames' = CallsOfFrames
    BY <1>1, Unmoved
  <1>3. Status = "running" /\ Status' = "running"
    BY DEF OperandUnderflow, FinallyUnderflow, LoadException, Continue, CodePops, AtOpcode,
       AtEndOf, Status
  <1>4. Meets
    BY <1>1, <1>2, <1>3, NoStep
  <1>5. JoinInv'
    <2>1. CASE OperandUnderflow \/ FinallyUnderflow
      BY <2>1 DEF OperandUnderflow, FinallyUnderflow, JoinInv, Live
    <2>2. CASE LoadException \/ Continue
      <3>1. mode # "opcode"
        BY <2>2 DEF LoadException, Continue
      <3>2. \A m : ClearTo(callFrames, m)
        BY <3>1, NoJoins
      <3> QED BY <1>1, <3>2, OtherJoins
    <2> QED BY <2>1, <2>2
  <1> QED BY <1>4, <1>5

(* A return starts.                                                        *)
LEMMA MeetsReturn ==
    ASSUME Good, JoinInv, TypeOK', Return
    PROVE  Meets /\ JoinInv'
  <1>1. /\ mode = "opcode" /\ mode' = "done" /\ ~Inside({"joinF"})
        /\ callFrames' = SetTop(At(Here, 0))
        /\ UNCHANGED <<isFatalException, allFinallyStates>>
    BY DEF Return, AtOpcode, Keep
  <1>2. Status = "running" /\ Status' = "returning"
    BY <1>1 DEF Status
  <1>3. CallsOfFrames' = CallsOfFrames
    BY <1>1, MovedToTheSame
  <1>4. TCF!Return
    BY <1>1, <1>2, <1>3 DEF TCF!Return
  <1>5. Meets
    BY <1>4 DEF Meets, TCF!Next
  <1>6. Here \in Positions /\ Len(Here) \in Nat /\ Len(Here) \in 0 .. Len(Here)
    BY GoodFrames
  <1>7. Common(Here, Here, Len(Here)) /\ Len(Here) <= Len(Here) + 1 /\ Len(Here) # Len(Here) + 1
    BY <1>6, CommonOuter
  <1>8. ClearTo(callFrames, Len(Here))
    BY <1>1, NoJoins
  <1>9. JoinInv'
    BY <1>1, <1>7, <1>8, MovedJoins
  <1> QED BY <1>5, <1>9

(***************************************************************************)
(* The end of a call.                                                      *)
(***************************************************************************)
(* A call ends and its caller is where it was.                             *)
LEMMA PoppedMeans ==
    ASSUME Good, JoinInv, TypeOK', mode # "opcode", UNCHANGED allFinallyStates,
           Len(callFrames') = Len(callFrames) - 1,
           \A k \in 1 .. Len(callFrames) - 1 : callFrames'[k].pos = callFrames[k].pos
    PROVE  /\ CallsOfFrames' = Front(CallsOfFrames)
           /\ JoinInv'
  <1>1. /\ callFrames \in Seq(Frames) /\ callFrames' \in Seq(Frames)
        /\ Len(callFrames) \in Nat \ {0}
    BY GoodFrames DEF TypeOK
  <1>2. CallsOfFrames' = Front(CallsOfFrames)
    <2>1. Len(callFrames) > 0
      BY <1>1
    <2>2. CallsOf(callFrames', allFinallyStates) = Front(CallsOf(callFrames, allFinallyStates))
      BY <1>1, <2>1, CallsPop
    <2> QED BY <2>2, CallsAreNext, Meant
  <1>3. JoinInv'
    <2>1. \A m : ClearTo(callFrames, m)
      BY NoJoins
    <2>2. Len(callFrames') <= Len(callFrames)
      BY <1>1
    <2> QED BY <2>1, <2>2, OtherJoins
  <1> QED BY <1>2, <1>3

(* A native function returns.                                              *)
LEMMA MeetsNativeReturn ==
    ASSUME Good, JoinInv, TypeOK', NativeReturn
    PROVE  Meets /\ JoinInv'
  <1>1. /\ mode = "native" /\ mode' = "opcode" /\ PopFrame(Frame.value)
        /\ UNCHANGED <<exception, allFinallyStates, isFatalException>>
    BY DEF NativeReturn
  <1>2. Frame.native /\ Top > 1
    <2>1. Frame.native
      BY <1>1 DEF Good, AnyProgramInv, FramesInv
    <2> QED BY <2>1, NativeIsCalled
  <1>3. \E v : Pops(callFrames, callFrames', v)
    BY <1>1, <1>2, PopFrameIs
  <1>4. /\ Len(callFrames') = Len(callFrames) - 1
        /\ \A k \in 1 .. Len(callFrames) - 1 : callFrames'[k].pos = callFrames[k].pos
    BY <1>3 DEF Pops
  <1>5. CallsOfFrames' = Front(CallsOfFrames) /\ JoinInv'
    BY <1>1, <1>4, PoppedMeans
  <1>6. Status = "running" /\ Status' = "running"
    BY <1>1 DEF Status
  <1>7. TCF!Position = <<>> /\ Len(CallsOfFrames) > 1
    <2>1. Len(Here) = 0
      BY <1>2, GoodFrames
    <2> QED BY <1>2, <2>1, Meant, EmptySeq
  <1>8. TCF!ReturnAtOnce
    <2>1. TCF!Front(CallsOfFrames) = Front(CallsOfFrames)
      BY DEF TCF!Front, Front
    <2> QED BY <1>1, <1>5, <1>6, <1>7, <2>1 DEF TCF!ReturnAtOnce
  <1> QED BY <1>5, <1>8 DEF Meets, TCF!Next

(***************************************************************************)
(* An exception finds a handler.                                           *)
(***************************************************************************)
(* What a handler that catches belongs to, and where it sends control.     *)
LEMMA CaughtBy ==
    ASSUME NEW pos \in Positions, NEW d \in 1 .. Len(pos), Weight(pos[d].code) > 0,
           HandlerOf(pos, d, Weight(pos[d].code)).type = "CATCH"
    PROVE  \/ /\ pos[d].code = "try"
              /\ HandlerOf(pos, d, Weight(pos[d].code)).target = Turn(pos, d, "catch")
           \/ /\ pos[d].code = "tryCF"
              /\ HandlerOf(pos, d, Weight(pos[d].code)).target = Turn(pos, d, "catchF")
  <1> DEFINE code == pos[d].code
             F == Handler("FINALLY", Turn(pos, d, "finally"))
             CF == Handler("CATCH", Turn(pos, d, "catchF"))
             C == Handler("CATCH", Turn(pos, d, "catch"))
             last == HandlerOf(pos, d, Weight(pos[d].code))
  <1>1. /\ code = "try" => Weight(code) = 1 /\ HandlerOf(pos, d, 1) = C
        /\ code = "tryCF" => /\ Weight(code) = 2 /\ HandlerOf(pos, d, 1) = F
                             /\ HandlerOf(pos, d, 2) = CF
        /\ code \in {"tryF", "catchF", "joinF"} => Weight(code) = 1 /\ HandlerOf(pos, d, 1) = F
        /\ code \in {"catch", "finally"} => Weight(code) = 0
        /\ code \in {"try", "tryCF", "tryF", "catchF", "joinF", "catch", "finally"}
    BY HandlersOfOneRegion
  <1>2. /\ F.type # "CATCH" /\ C.target = Turn(pos, d, "catch") /\ CF.target = Turn(pos, d, "catchF")
    BY DEF Handler
  <1>3. Weight(code) > 0 /\ last.type = "CATCH" /\ last = HandlerOf(pos, d, Weight(code))
    OBVIOUS
  <1> HIDE DEF code, F, CF, C, last
  <1>4. CASE code = "try"
    <2>1. last = C
      BY <1>1, <1>3, <1>4
    <2> QED BY <1>2, <1>4, <2>1 DEF last, code
  <1>5. CASE code = "tryCF"
    <2>1. last = CF
      BY <1>1, <1>3, <1>5
    <2> QED BY <1>2, <1>5, <2>1 DEF last, code
  <1>6. CASE code \in {"tryF", "catchF", "joinF"}
    <2>1. last = F
      BY <1>1, <1>3, <1>6
    <2> QED BY <1>2, <1>3, <2>1
  <1>7. CASE code \in {"catch", "finally"}
    BY <1>1, <1>3, <1>7
  <1> QED BY <1>1, <1>4, <1>5, <1>6, <1>7

(* The innermost region that protects, and what it does with an exception. *)
LEMMA HandlerIs ==
    ASSUME Good, JoinInv, mode = "resume", NEW d \in 1 .. Len(Here), Reached(d)
    PROVE  LET pos == TCF!Position
           IN  /\ TCF!DepthsOf(pos, TCF!Protected) # {}
               /\ Here[d].code = "try" =>
                     TCF!HandlerAt(pos) = Append(TCF!Outside(pos, d), TCF!Part("catch", "normal"))
               /\ Here[d].code = "tryCF" =>
                     TCF!HandlerAt(pos) = Append(TCF!Outside(pos, d), TCF!Part("catchF", "normal"))
               /\ Here[d].code \notin {"try", "tryCF"} =>
                     TCF!HandlerAt(pos) = TCF!InFinally(pos, d, "raise")
  <1> DEFINE pos == TCF!Position
             n == Len(Here)
             st == allFinallyStates
  <1>1. /\ pos = MeaningOf(Here, st, Top) /\ pos \in Seq(Parts) /\ Len(pos) = n
        /\ Here \in Positions /\ n \in Nat
    BY Meant, GoodFrames
  <1>2. \A e \in 1 .. n : /\ pos[e].code \in TCF!Protected <=> Weight(Here[e].code) > 0
                          /\ pos[e].code = IF Here[e].code = "joinF" THEN "tryCF" ELSE Here[e].code
    BY <1>1, KindsOfParts
  <1>3. \A e \in 1 .. n : Here[e].code # "joinF"
    BY NoJoins
  <1>4. pos[d].code = Here[d].code /\ pos[d].code \in TCF!Protected
    BY <1>2, <1>3 DEF Reached
  <1>5. \A e \in d + 1 .. Len(pos) : pos[e].code \notin TCF!Protected
    <2> TAKE e \in d + 1 .. Len(pos)
    <2>1. e \in 1 .. n /\ Weight(Here[e].code) = 0
      BY <1>1 DEF Reached
    <2> QED BY <1>2, <2>1
  <1> HIDE DEF pos
  <1>6. TCF!DepthsOf(pos, TCF!Protected) # {} /\ TCF!Max(TCF!DepthsOf(pos, TCF!Protected)) = d
    BY <1>1, <1>4, <1>5, InnermostPart
  <1>7. /\ pos[d].code = "try" =>
               TCF!HandlerAt(pos) = Append(TCF!Outside(pos, d), TCF!Part("catch", "normal"))
        /\ pos[d].code = "tryCF" =>
               TCF!HandlerAt(pos) = Append(TCF!Outside(pos, d), TCF!Part("catchF", "normal"))
        /\ pos[d].code \notin {"try", "tryCF"} =>
               TCF!HandlerAt(pos) = TCF!InFinally(pos, d, "raise")
    BY <1>6 DEF TCF!HandlerAt
  <1> QED BY <1>4, <1>6, <1>7 DEF pos

(* An exception goes on in the running call.                               *)
LEMMA Handled ==
    ASSUME Status = "raising", ~isFatalException, TCF!DepthsOf(TCF!Position, TCF!Protected) # {},
           CallsOfFrames' = TCF!Moved(TCF!HandlerAt(TCF!Position)), Status' = "running",
           UNCHANGED isFatalException
    PROVE  Meets
  <1>1. TCF!Propagate
    BY DEF TCF!Propagate
  <1> QED BY <1>1 DEF Meets, TCF!Next

(* What holds when an exception is handled.                                *)
LEMMA Handling ==
    ASSUME Good, JoinInv, Pending, MayHandle
    PROVE  /\ mode = "resume" /\ Status = "raising" /\ ~isFatalException
           /\ Here \in Positions /\ Top \in 1 .. Top /\ Top = Len(callFrames)
           /\ allFinallyStates \in Seq(Completions)
           /\ exception \in [1 .. MaxFrames -> BOOLEAN] /\ Top \in 1 .. MaxFrames
           /\ \A m : ClearTo(callFrames, m)
           /\ \E d \in 1 .. Len(Here) : Reached(d)
  <1>1. mode = "resume" /\ Status = "raising" /\ ~isFatalException
    BY DEF Pending, MayHandle, Status
  <1>2. \A m : ClearTo(callFrames, m)
    BY <1>1, NoJoins
  <1>3. \E d \in 1 .. Len(Here) : Reached(d)
    BY BeforeHandling
  <1> QED BY <1>1, <1>2, <1>3, GoodFrames, UnwindingAssumption

(* A catch clause runs.                                                    *)
LEMMA MeetsCatch ==
    ASSUME Good, JoinInv, TypeOK', UnwindToCatch
    PROVE  Meets /\ JoinInv'
  <1>1. /\ Pending /\ MayHandle /\ Last(allHandlers).type = "CATCH"
        /\ callFrames' = SetTop(At(Last(allHandlers).target, Last(Last(allHandlers).target).h))
        /\ mode' = "catch" /\ UNCHANGED <<allFinallyStates, isFatalException>>
    BY DEF UnwindToCatch
  <1>2. /\ mode = "resume" /\ Status = "raising" /\ ~isFatalException /\ Here \in Positions
        /\ \A m : ClearTo(callFrames, m)
    BY <1>1, Handling
  <1>3. PICK d \in 1 .. Len(Here) : Reached(d)
    BY <1>1, Handling
  <1>4. PICK code \in {"catch", "catchF"} :
            /\ Last(allHandlers).target = Turn(Here, d, code)
            /\ \/ Here[d].code = "try" /\ code = "catch"
               \/ Here[d].code = "tryCF" /\ code = "catchF"
    <2>1. Last(allHandlers) = HandlerOf(Here, d, Weight(Here[d].code)) /\ Weight(Here[d].code) > 0
      BY <1>3 DEF Reached
    <2>2. HandlerOf(Here, d, Weight(Here[d].code)).type = "CATCH"
      BY <1>1, <2>1
    <2> QED BY <1>2, <2>1, <2>2, CaughtBy
  <1> DEFINE p == Turn(Here, d, code)
             h == Last(p).h
             m == d - 1
  <1>5. TCF!DepthsOf(TCF!Position, TCF!Protected) # {}
    BY <1>2, <1>3, HandlerIs
  <1>6. TCF!HandlerAt(TCF!Position)
            = Append(TCF!Outside(TCF!Position, d), TCF!Part(code, "normal"))
    BY <1>2, <1>3, <1>4, HandlerIs
  <1>7. MeaningOf(p, allFinallyStates, Top)
            = Append(TCF!Outside(TCF!Position, d), TCF!Part(code, "normal"))
    BY <1>2, TurnToCatch, Meant
  <1>8. callFrames' = SetTop(At(p, h))
    BY <1>1, <1>4
  <1>9. Common(Here, p, m) /\ Len(p) = d /\ p[d].code = code /\ m + 1 = d
    <2>1. code \in Codes
      BY DEF Codes
    <2>2. /\ Common(Here, Turn(Here, d, code), d - 1) /\ Len(Turn(Here, d, code)) = d
          /\ Turn(Here, d, code)[d] = Region(code, Here[d].h)
      BY <1>2, <2>1, TurnIs
    <2>3. d \in Nat
      BY <1>2, OuterRegions
    <2> QED BY <2>2, <2>3 DEF Region
  <1> HIDE DEF p, h, m
  <1>10. CallsOfFrames' = TCF!Moved(TCF!HandlerAt(TCF!Position))
    <2>1. OwnCompletions
      BY <1>1 DEF OwnCompletions
    <2>2. CallsOfFrames' = TCF!Moved(MeaningOf(p, allFinallyStates', Top))
      BY <1>8, <2>1, MoveMeans
    <2> QED BY <1>1, <1>6, <1>7, <2>2
  <1>11. Status' = "running"
    BY <1>1 DEF Status
  <1>12. Meets
    BY <1>1, <1>2, <1>5, <1>10, <1>11, Handled
  <1>13. JoinInv'
    <2>1. Len(p) <= m + 1 /\ p[m + 1].code # "joinF"
      <3>1. d \in Nat /\ d <= d
        BY <1>2, OuterRegions
      <3> QED BY <1>9, <3>1
    <2> QED BY <1>2, <1>8, <1>9, <2>1, MovedJoins
  <1> QED BY <1>12, <1>13

(* A finally body runs, and the exception waits for its end.               *)
LEMMA MeetsFinally ==
    ASSUME Good, JoinInv, TypeOK', UnwindToFinally
    PROVE  Meets /\ JoinInv'
  <1>1. /\ Pending /\ MayHandle /\ Last(allHandlers).type = "FINALLY"
        /\ callFrames' = SetTop(At(Last(allHandlers).target, Last(Last(allHandlers).target).h))
        /\ allFinallyStates' = Append(allFinallyStates,
               FinallyState("EXCEPTION", Last(allHandlers).target, FALSE))
        /\ mode' = "opcode" /\ UNCHANGED isFatalException
    BY DEF UnwindToFinally, PushFinallyState
  <1>2. /\ mode = "resume" /\ Status = "raising" /\ ~isFatalException /\ Here \in Positions
        /\ allFinallyStates \in Seq(Completions) /\ Top \in 1 .. Top
        /\ \A m : ClearTo(callFrames, m)
    BY <1>1, Handling
  <1>3. PICK d \in 1 .. Len(Here) : Reached(d)
    BY <1>1, Handling
  <1> DEFINE p == Turn(Here, d, "finally")
             h == Last(p).h
             m == d - 1
             s == FinallyState("EXCEPTION", p, FALSE)
  <1>4. Last(allHandlers).target = p /\ Here[d].code \notin {"try", "tryCF"}
    <2>1. Last(allHandlers) = HandlerOf(Here, d, Weight(Here[d].code)) /\ Weight(Here[d].code) > 0
      BY <1>3 DEF Reached
    <2>2. HandlerOf(Here, d, Weight(Here[d].code)).type = "FINALLY"
      BY <1>1, <2>1
    <2> QED BY <1>2, <2>1, <2>2, LastHandlerOf
  <1>5. /\ TCF!DepthsOf(TCF!Position, TCF!Protected) # {}
        /\ TCF!HandlerAt(TCF!Position) = TCF!InFinally(TCF!Position, d, "raise")
    BY <1>2, <1>3, <1>4, HandlerIs
  <1>6. callFrames' = SetTop(At(p, h)) /\ allFinallyStates' = Append(allFinallyStates, s)
    BY <1>1, <1>4
  <1>7. /\ Common(Here, p, m) /\ Len(p) = d /\ p[d].code = "finally" /\ m + 1 = d
        /\ d \in Nat /\ d <= d
    <2>1. "finally" \in Codes
      BY DEF Codes
    <2>2. /\ Common(Here, Turn(Here, d, "finally"), d - 1) /\ Len(Turn(Here, d, "finally")) = d
          /\ Turn(Here, d, "finally")[d] = Region("finally", Here[d].h)
      BY <1>2, <2>1, TurnIs
    <2>3. d \in Nat /\ d <= d
      <3>1. d \in Nat
        BY <1>2, OuterRegions
      <3> QED BY <3>1
    <2> QED BY <2>2, <2>3 DEF Region
  <1>8. s \in Completions /\ s.owner = <<Top, d>> /\ Completion(s.reason) = "raise"
    <2>1. s.owner = <<Top, d>> /\ s.reason = "EXCEPTION" /\ s.kept = FALSE
      BY <1>7 DEF FinallyState
    <2>2. Top \in Nat
      BY GoodFrames
    <2>3. s \in Completions
      BY <1>7, <2>2 DEF FinallyState, Completions
    <2> QED BY <2>1, <2>3 DEF Completion
  <1>9. MeaningOf(p, Append(allFinallyStates, s), Top) = TCF!InFinally(TCF!Position, d, "raise")
    <2> HIDE DEF s
    <2>1. MeaningOf(p, Append(allFinallyStates, s), Top)
              = TCF!InFinally(MeaningOf(Here, allFinallyStates, Top), d, Completion(s.reason))
      BY <1>2, <1>8, TurnToFinally
    <2> QED BY <1>8, <2>1, Meant
  <1> HIDE DEF p, h, m, s
  <1>10. CallsOfFrames' = TCF!Moved(TCF!HandlerAt(TCF!Position))
    <2>1. OwnCompletions
      <3>1. s.owner[1] = Top
        BY <1>8
      <3> QED BY <1>6, <1>8, <3>1 DEF OwnCompletions
    <2>2. CallsOfFrames' = TCF!Moved(MeaningOf(p, allFinallyStates', Top))
      BY <1>6, <2>1, MoveMeans
    <2> QED BY <1>5, <1>6, <1>9, <2>2
  <1>11. Status' = "running"
    BY <1>1 DEF Status
  <1>12. Meets
    BY <1>1, <1>2, <1>5, <1>10, <1>11, Handled
  <1>13. JoinInv'
    <2>1. Len(p) <= m + 1 /\ p[m + 1].code # "joinF"
      BY <1>7
    <2> QED BY <1>2, <1>6, <1>7, <2>1, MovedJoins
  <1> QED BY <1>12, <1>13

(***************************************************************************)
(* An exception or a return leaves the call.                               *)
(***************************************************************************)
(* An exception goes to the caller, whatever the program may do.           *)
LEMMA LeavesCall ==
    ASSUME AnyProgramInv, TypeOK', UnwindFrame,
           isFatalException \/ TCF!DepthsOf(TCF!Position, TCF!Protected) = {}
    PROVE  /\ Meets /\ UNCHANGED allFinallyStates
           /\ Len(callFrames') = Len(callFrames) - 1
           /\ \A k \in 1 .. Len(callFrames) - 1 : callFrames'[k].pos = callFrames[k].pos
  <1> DEFINE n == Len(callFrames)
  <1>1. /\ mode = "resume" /\ exception[Top] /\ callFrames' = Front(callFrames)
        /\ UNCHANGED <<allFinallyStates, isFatalException>>
        /\ Top # 1 => mode' = "resume" /\ exception' = [exception EXCEPT ![Top - 1] = TRUE]
        /\ Top = 1 => mode' = "error"
    BY DEF UnwindFrame, Pending, FramesLeft, Raise
  <1>2. /\ callFrames \in Seq(Frames) /\ Top = n /\ n \in Nat \ {0} /\ n <= MaxFrames
        /\ MaxFrames \in Nat /\ exception \in [1 .. MaxFrames -> BOOLEAN] /\ TypeOK
    BY <1>1, UnwindingAssumption, LenProperties DEF AnyProgramInv, TypeOK, FramesInv, Top
  <1>3. /\ Len(Front(callFrames)) = n - 1 /\ Front(callFrames) \in Seq(Frames)
        /\ \A k \in 1 .. n - 1 : Front(callFrames)[k] = callFrames[k]
    <2>1. callFrames # <<>>
      BY <1>2, EmptySeq
    <2> QED BY <1>2, <2>1, FrontAndLast
  <1>4. /\ Len(callFrames') = n - 1 /\ callFrames' \in Seq(Frames)
        /\ \A k \in 1 .. n - 1 : callFrames'[k].pos = callFrames[k].pos
    BY <1>1, <1>3
  <1>5. CallsOfFrames' = Front(CallsOfFrames) /\ Len(CallsOfFrames) = n
    <2>1. n > 0
      BY <1>2
    <2>2. CallsOf(callFrames', allFinallyStates) = Front(CallsOf(callFrames, allFinallyStates))
      BY <1>2, <1>4, <2>1, CallsPop
    <2>3. CallsOfFrames = CallsOf(callFrames, allFinallyStates)
      BY <1>2, CallsAre
    <2>4. CallsOfFrames' = CallsOf(callFrames', allFinallyStates')
      BY CallsAreNext
    <2>5. Len(CallsOfFrames) = n
      BY <1>2, <2>3, CallsTypes
    <2> QED BY <1>1, <2>2, <2>3, <2>4, <2>5
  <1>6. Status = "raising" /\ Status' = IF n = 1 THEN "failed" ELSE "raising"
    <2>1. Status = "raising"
      BY <1>1 DEF Status
    <2>2. CASE n = 1
      BY <1>1, <1>2, <2>2 DEF Status
    <2>3. CASE n # 1
      <3>1. n - 1 \in 1 .. MaxFrames /\ Top' = n - 1
        BY <1>2, <1>4, <2>3 DEF Top
      <3>2. exception'[Top'] /\ mode' = "resume"
        BY <1>1, <1>2, <2>3, <3>1
      <3>3. Status' = "raising"
        BY <3>2 DEF Status
      <3> QED BY <2>1, <2>3, <3>3
    <2> QED BY <2>1, <2>2, <2>3
  <1> HIDE DEF n
  <1>7. TCF!LeaveCall("raising", "failed")
    <2>1. TCF!Front(CallsOfFrames) = Front(CallsOfFrames)
      BY DEF TCF!Front, Front
    <2> QED BY <1>5, <1>6, <2>1 DEF TCF!LeaveCall
  <1>8. TCF!Propagate
    BY <1>1, <1>6, <1>7 DEF TCF!Propagate
  <1>9. Meets
    BY <1>8 DEF Meets, TCF!Next
  <1> QED BY <1>1, <1>4, <1>9 DEF n

(* A frame with no handler left is left by an exception.                   *)
LEMMA MeetsUnwindFrame ==
    ASSUME Good, JoinInv, TypeOK', UnwindFrame
    PROVE  Meets /\ JoinInv'
  <1>1. mode = "resume" /\ ~MayHandle /\ ~isFatalException
    BY DEF UnwindFrame, Pending, Good, Live
  <1>2. /\ Here \in Positions /\ HandlerCount(Here) \in Nat /\ Frame.handlerIndex \in Nat
        /\ Len(allHandlers) = Frame.handlerIndex + HandlerCount(Here)
    BY GoodFrames, CountOfPosition
  <1>3. HandlerCount(Here) = 0
    <2>1. ~(Len(allHandlers) > Frame.handlerIndex)
      BY <1>1 DEF MayHandle, FrameHasHandler
    <2> QED BY <1>2, <2>1
  <1>4. TCF!DepthsOf(TCF!Position, TCF!Protected) = {}
    <2> DEFINE pos == TCF!Position
    <2>1. /\ pos = MeaningOf(Here, allFinallyStates, Top) /\ pos \in Seq(Parts)
          /\ Len(pos) = Len(Here)
      BY Meant
    <2>2. \A e \in 1 .. Len(Here) : Weight(Here[e].code) = 0
      BY <1>2, <1>3, NoHandlers
    <2>3. \A e \in 1 .. Len(pos) : pos[e].code \notin TCF!Protected
      <3> TAKE e \in 1 .. Len(pos)
      <3>1. e \in 1 .. Len(Here) /\ ~(Weight(Here[e].code) > 0)
        BY <2>1, <2>2
      <3> QED BY <1>2, <2>1, <3>1, KindsOfParts
    <2> HIDE DEF pos
    <2>4. TCF!DepthsOf(pos, TCF!Protected) = {}
      BY <2>1, <2>3, NoSuchPart
    <2> QED BY <2>4 DEF pos
  <1>5. /\ Meets /\ UNCHANGED allFinallyStates
        /\ Len(callFrames') = Len(callFrames) - 1
        /\ \A k \in 1 .. Len(callFrames) - 1 : callFrames'[k].pos = callFrames[k].pos
    BY <1>4, LeavesCall DEF Good
  <1>6. JoinInv'
    BY <1>1, <1>5, PoppedMeans
  <1> QED BY <1>5, <1>6

(* No region has a finally when the handlers of the frame hold none, and   *)
(* else the last of them is that of the innermost region that has one.     *)
LEMMA InnermostFinally ==
    ASSUME Good, NEW d \in 1 .. Len(Here), Here[d].code \in WithFinally
    PROVE  LET i == Frame.handlerIndex + HandlerCount(Outer(Here, d - 1)) + 1
           IN  i \in Finals /\ i \in Nat
  <1> DEFINE from == Frame.handlerIndex
             b == HandlerCount(Outer(Here, d - 1))
             a == HandlerCount(Outer(Here, d))
             w == Weight(Here[d].code)
             n == HandlerCount(Here)
             i == from + b + 1
  <1>1. /\ Here \in Positions /\ from \in Nat /\ DOMAIN Here = 1 .. Len(Here) /\ Len(Here) \in Nat
        /\ Exact(allHandlers, from, Len(allHandlers), Here) /\ Len(allHandlers) = from + n
    BY GoodFrames, OuterRegions
  <1>2. /\ d - 1 \in 0 .. Len(Here) /\ d \in 0 .. Len(Here) /\ b \in Nat /\ w \in Nat
        /\ a = b + w /\ a <= n /\ n \in Nat
    <2>1. d \in 0 .. Len(Here) /\ d - 1 \in 0 .. Len(Here)
      BY <1>1
    <2> QED BY <1>1, <2>1, CountOfOuter
  <1>3. w \in Nat /\ 1 \in 1 .. w
    <2>1. w > 0
      BY WeightedCodes
    <2> QED BY <1>2, <2>1
  <1>4. allHandlers[i] = HandlerOf(Here, d, 1)
    BY <1>1, <1>3 DEF Exact
  <1>5. HandlerOf(Here, d, 1).type = "FINALLY"
    <2>1. /\ Here[d].code = "tryCF" =>
                 HandlerOf(Here, d, 1) = Handler("FINALLY", Turn(Here, d, "finally"))
          /\ Here[d].code \in {"tryF", "catchF", "joinF"} =>
                 HandlerOf(Here, d, 1) = Handler("FINALLY", Turn(Here, d, "finally"))
      BY <1>1, HandlersOfOneRegion
    <2>2. HandlerOf(Here, d, 1) = Handler("FINALLY", Turn(Here, d, "finally"))
      BY <2>1 DEF WithFinally
    <2> QED BY <2>2 DEF Handler
  <1>6. i \in from + 1 .. Len(allHandlers) /\ i \in Nat
    <2> HIDE DEF from, b, a, w, n
    <2> QED BY <1>1, <1>2, <1>3
  <1> QED BY <1>4, <1>5, <1>6 DEF Finals

(* The return runs the innermost finally body of the call first.           *)
LEMMA MeetsReturnThroughFinally ==
    ASSUME Good, JoinInv, TypeOK', ReturnThroughFinally
    PROVE  Meets /\ JoinInv'
  <1> DEFINE from == Frame.handlerIndex
             b == Len(allHandlers)
             i == Max(Finals)
             saved == stackSize > Frame.startStackCount
             reason == IF saved THEN "RETURN_VALUE" ELSE "RETURN_VOID"
             kept == Frame.value /\ ~saved
             t == allHandlers[i].target
             st == allFinallyStates
  <1>1. /\ mode = "done" /\ mode' = "resume" /\ Finals # {}
        /\ callFrames' = SetTop(At(t, Last(t).h))
        /\ allFinallyStates' = Append(st, FinallyState(reason, t, kept))
        /\ UNCHANGED <<exception, isFatalException>>
    BY DEF ReturnThroughFinally, Keep, PushFinallyState, NextFinal
  <1>2. /\ from \in Nat /\ b \in Nat /\ Here \in Positions /\ Len(Here) \in Nat
        /\ Frame.value \in BOOLEAN /\ Exact(allHandlers, from, b, Here)
        /\ Top \in Nat \ {0} /\ Top \in 1 .. Top /\ st \in Seq(Completions)
    BY GoodFrames
  <1>3. i \in from + 1 .. b /\ allHandlers[i].type = "FINALLY" /\ \A j \in Finals : j <= i
    <2>1. Finals \in SUBSET (0 .. b)
      BY <1>2 DEF Finals
    <2>2. i \in Finals /\ \A j \in Finals : j <= i
      BY <1>1, <1>2, <2>1, GreatestNumber
    <2> QED BY <2>2 DEF Finals
  <1> HIDE DEF i
  <1>4. PICK d \in 1 .. Len(Here) : \E j \in 1 .. Weight(Here[d].code) :
              /\ i = from + HandlerCount(Outer(Here, d - 1)) + j
              /\ allHandlers[i] = HandlerOf(Here, d, j)
    BY <1>2, <1>3, OwnerOfHandler
  <1>5. PICK j \in 1 .. Weight(Here[d].code) :
              /\ i = from + HandlerCount(Outer(Here, d - 1)) + j
              /\ allHandlers[i] = HandlerOf(Here, d, j)
    BY <1>4
  <1> DEFINE p == Turn(Here, d, "finally")
             h == Last(p).h
             m == d - 1
             s == FinallyState(reason, p, kept)
             pos == TCF!Position
  <1>6. j = 1 /\ t = p
    BY <1>2, <1>3, <1>5, FinalHandler
  <1>7. Here[d].code \in WithFinally
    <2>1. Here[d].code = "try" => HandlerOf(Here, d, 1) = Handler("CATCH", Turn(Here, d, "catch"))
      BY <1>2, HandlersOfOneRegion
    <2>2. Here[d].code # "try"
      BY <1>3, <1>5, <1>6, <2>1 DEF Handler
    <2>3. Weight(Here[d].code) # 0
      BY <1>5
    <2>4. Here[d].code \in Codes
      BY <1>2, OuterRegions
    <2> QED BY <2>2, <2>3, <2>4 DEF Weight, WithFinally, Codes, Tries
  <1>8. ASSUME NEW e \in d + 1 .. Len(Here) PROVE Here[e].code \notin WithFinally
    <2> SUFFICES ASSUME Here[e].code \in WithFinally PROVE FALSE
      OBVIOUS
    <2> DEFINE x == HandlerCount(Outer(Here, d - 1))
               y == HandlerCount(Outer(Here, d))
               z == HandlerCount(Outer(Here, e - 1))
               w == Weight(Here[d].code)
    <2>1. /\ e \in 1 .. Len(Here) /\ e - 1 \in 0 .. Len(Here) /\ d \in 0 .. Len(Here)
          /\ d - 1 \in 0 .. Len(Here) /\ d <= e - 1
      BY <1>2
    <2>2. x \in Nat /\ y \in Nat /\ z \in Nat /\ w \in Nat /\ y = x + w /\ y <= z
      <3>1. y = x + w /\ w \in Nat
        BY <1>2, CountOfOuter
      <3>2. x \in Nat /\ y \in Nat /\ z \in Nat
        BY <1>2, <2>1, CountOfOuter
      <3>3. y <= z
        BY <1>2, <2>1, CountOfOuter
      <3> QED BY <3>1, <3>2, <3>3
    <2>3. from + z + 1 \in Finals
      BY <2>1, InnermostFinally
    <2>4. from + z + 1 <= i
      BY <1>3, <2>3
    <2>5. i = from + x + 1 /\ w >= 1
      <3>1. j = 1 /\ j \in 1 .. w /\ i = from + x + j
        BY <1>5, <1>6
      <3> HIDE DEF w, x
      <3> QED BY <2>2, <3>1
    <2> HIDE DEF x, y, z, w, from
    <2> QED BY <1>2, <2>2, <2>4, <2>5
  <1>9. /\ TCF!DepthsOf(pos, TCF!Finalized) # {}
        /\ TCF!Max(TCF!DepthsOf(pos, TCF!Finalized)) = d
    <2>1. pos = MeaningOf(Here, st, Top) /\ pos \in Seq(Parts) /\ Len(pos) = Len(Here)
      BY Meant
    <2>2. pos[d].code \in TCF!Finalized
      BY <1>2, <1>7, <2>1, KindsOfParts
    <2>3. \A e \in d + 1 .. Len(pos) : pos[e].code \notin TCF!Finalized
      <3> TAKE e \in d + 1 .. Len(pos)
      <3>1. e \in 1 .. Len(Here) /\ Here[e].code \notin WithFinally
        BY <1>2, <1>8, <2>1
      <3> QED BY <1>2, <2>1, <3>1, KindsOfParts
    <2> HIDE DEF pos
    <2> QED BY <2>1, <2>2, <2>3, InnermostPart
  <1>10. /\ Common(Here, p, m) /\ Len(p) = d /\ p[d].code = "finally" /\ m + 1 = d
         /\ d \in Nat /\ d <= d
    <2>1. "finally" \in Codes
      BY DEF Codes
    <2>2. /\ Common(Here, Turn(Here, d, "finally"), d - 1) /\ Len(Turn(Here, d, "finally")) = d
          /\ Turn(Here, d, "finally")[d] = Region("finally", Here[d].h)
      BY <1>2, <2>1, TurnIs
    <2>3. d \in Nat /\ d <= d
      BY <1>2
    <2> QED BY <2>2, <2>3 DEF Region
  <1>11. s \in Completions /\ s.owner = <<Top, d>> /\ Completion(s.reason) = "return"
    <2>1. /\ s.owner = <<Top, d>> /\ s.reason \in {"RETURN_VALUE", "RETURN_VOID"}
          /\ s.kept \in BOOLEAN
      BY <1>2, <1>10 DEF FinallyState
    <2>2. s \in Completions
      <3> HIDE DEF reason, kept, p
      <3>1. s = [reason |-> reason, owner |-> <<Top, d>>, kept |-> kept]
        BY <1>10 DEF FinallyState
      <3>2. reason \in {"RETURN_VALUE", "RETURN_VOID"} /\ kept \in BOOLEAN
        BY <1>2 DEF reason, kept
      <3> HIDE DEF s
      <3> QED BY <1>2, <1>10, <3>1, <3>2 DEF Completions
    <2> HIDE DEF s
    <2> QED BY <2>1, <2>2 DEF Completion
  <1>12. MeaningOf(p, Append(st, s), Top) = TCF!InFinally(pos, d, "return")
    <2> HIDE DEF s
    <2>1. MeaningOf(p, Append(st, s), Top)
              = TCF!InFinally(MeaningOf(Here, st, Top), d, Completion(s.reason))
      BY <1>2, <1>11, TurnToFinally
    <2> QED BY <1>11, <2>1, Meant
  <1>13. callFrames' = SetTop(At(p, h)) /\ allFinallyStates' = Append(st, s)
    BY <1>1, <1>6
  <1> HIDE DEF p, h, m, s
  <1>14. CallsOfFrames' = TCF!Moved(TCF!InFinally(pos, d, "return"))
    <2>1. OwnCompletions
      <3>1. s.owner[1] = Top
        BY <1>11
      <3> QED BY <1>11, <1>13, <3>1 DEF OwnCompletions
    <2>2. CallsOfFrames' = TCF!Moved(MeaningOf(p, allFinallyStates', Top))
      BY <1>13, <2>1, MoveMeans
    <2> QED BY <1>12, <1>13, <2>2
  <1>15. Status = "returning" /\ Status' = "running"
    <2>1. Status = "returning"
      BY <1>1 DEF Status
    <2>2. ~exception[Top] /\ Top' = Top
      BY <1>1, <1>2, <1>13, WhileRunning, MoveIs
    <2> QED BY <1>1, <2>1, <2>2 DEF Status
  <1>16. Meets
    <2>1. TCF!Complete
      BY <1>1, <1>9, <1>14, <1>15 DEF TCF!Complete
    <2> QED BY <2>1 DEF Meets, TCF!Next
  <1>17. JoinInv'
    <2>1. Len(p) <= m + 1 /\ p[m + 1].code # "joinF"
      BY <1>10
    <2>2. ClearTo(callFrames, m)
      BY <1>1, NoJoins
    <2> QED BY <1>10, <1>13, <2>1, <2>2, MovedJoins
  <1> QED BY <1>16, <1>17

(* The return leaves the call.                                             *)
LEMMA NothingFinal ==
    ASSUME Good, Finals = {}
    PROVE  TCF!DepthsOf(TCF!Position, TCF!Finalized) = {}
  <1> DEFINE pos == TCF!Position
  <1>1. /\ pos = MeaningOf(Here, allFinallyStates, Top) /\ pos \in Seq(Parts)
        /\ Len(pos) = Len(Here) /\ Here \in Positions
    BY Meant, GoodFrames
  <1>2. \A e \in 1 .. Len(Here) : Here[e].code \notin WithFinally
    BY InnermostFinally
  <1>3. \A e \in 1 .. Len(pos) : pos[e].code \notin TCF!Finalized
    BY <1>1, <1>2, KindsOfParts
  <1> HIDE DEF pos
  <1>4. TCF!DepthsOf(pos, TCF!Finalized) = {}
    BY <1>1, <1>3, NoSuchPart
  <1> QED BY <1>4 DEF pos

(* A frame with no completion pending returns to its caller.               *)
LEMMA MeetsReturnToCaller ==
    ASSUME Good, JoinInv, TypeOK', ReturnToCaller
    PROVE  Meets /\ JoinInv'
  <1>1. /\ mode = "done" /\ Finals = {} /\ Top > 1 /\ PopFrame(Frame.value)
        /\ mode' \in {"resume", "native", "opcode"}
        /\ UNCHANGED <<exception, allFinallyStates, isFatalException>>
    BY DEF ReturnToCaller, Keep
  <1>2. \E v : Pops(callFrames, callFrames', v)
    BY <1>1, PopFrameIs
  <1>3. /\ Len(callFrames') = Len(callFrames) - 1
        /\ \A k \in 1 .. Len(callFrames) - 1 : callFrames'[k].pos = callFrames[k].pos
    BY <1>2 DEF Pops
  <1>4. CallsOfFrames' = Front(CallsOfFrames) /\ JoinInv'
    BY <1>1, <1>3, PoppedMeans
  <1>5. Status = "returning" /\ Status' = "running"
    <2>1. Status = "returning"
      BY <1>1 DEF Status
    <2>2. Top' \in 1 .. Top
      BY <1>1, <1>3, GoodFrames DEF Top
    <2>3. ~exception[Top']
      BY <1>1, <2>2, WhileRunning
    <2>4. ~exception'[Top']
      BY <1>1, <2>3
    <2> QED BY <1>1, <2>1, <2>4 DEF Status
  <1>6. TCF!Complete
    <2>1. TCF!Front(CallsOfFrames) = Front(CallsOfFrames)
      BY DEF TCF!Front, Front
    <2>2. TCF!DepthsOf(TCF!Position, TCF!Finalized) = {}
      BY <1>1, NothingFinal
    <2>3. Len(CallsOfFrames) # 1
      <3>1. Len(CallsOfFrames) = Top /\ Top \in Nat
        BY Meant, GoodFrames
      <3> QED BY <1>1, <3>1
    <2>4. TCF!LeaveCall("running", "ended")
      BY <1>4, <1>5, <2>1, <2>3 DEF TCF!LeaveCall
    <2> QED BY <1>1, <1>5, <2>2, <2>4 DEF TCF!Complete
  <1> QED BY <1>4, <1>6 DEF Meets, TCF!Next

(* The last frame ends the program.                                        *)
LEMMA MeetsHalt ==
    ASSUME Good, JoinInv, TypeOK', Halt
    PROVE  Meets /\ JoinInv'
  <1>1. /\ mode = "done" /\ Finals = {} /\ Top = 1 /\ callFrames' = <<>> /\ mode' = "halted"
        /\ UNCHANGED <<allFinallyStates, isFatalException>>
    BY DEF Halt, Keep
  <1>2. Top = Len(callFrames) /\ Len(CallsOfFrames) = 1
    BY <1>1, GoodFrames, Meant
  <1>3. /\ Len(callFrames') = Len(callFrames) - 1
        /\ \A k \in 1 .. Len(callFrames) - 1 : callFrames'[k].pos = callFrames[k].pos
    <2>1. Len(callFrames) = 1
      BY <1>1, <1>2
    <2>2. Len(callFrames') = 0
      BY <1>1
    <2>3. 1 .. Len(callFrames) - 1 = {}
      BY <2>1
    <2> QED BY <2>1, <2>2, <2>3
  <1>4. CallsOfFrames' = Front(CallsOfFrames) /\ JoinInv'
    BY <1>1, <1>3, PoppedMeans
  <1>5. Status = "returning" /\ Status' = "ended"
    BY <1>1 DEF Status
  <1>6. TCF!Complete
    <2>1. TCF!Front(CallsOfFrames) = Front(CallsOfFrames)
      BY DEF TCF!Front, Front
    <2>2. TCF!DepthsOf(TCF!Position, TCF!Finalized) = {}
      BY <1>1, NothingFinal
    <2>3. TCF!LeaveCall("running", "ended")
      BY <1>2, <1>4, <1>5, <2>1 DEF TCF!LeaveCall
    <2> QED BY <1>1, <1>5, <2>2, <2>3 DEF TCF!Complete
  <1> QED BY <1>4, <1>6 DEF Meets, TCF!Next

(***************************************************************************)
(* The refinement.                                                         *)
(***************************************************************************)
(* After a fatal error frames are left and nothing else happens.           *)
LEMMA OnlyUnwinding ==
    ASSUME FatalInv, isFatalException, Execute \/ Unwind
    PROVE  UnwindFrame
  <1>1. Execute => mode \in {"opcode", "catch", "native"}
    BY DEF Execute, PushOperand, PopOperand, OperandUnderflow, EnterTry,
       RemoveTryAndJump, EndCatch, RemoveFinally, EndFinally, FinallyUnderflow, Skip,
       CallScript, CallNative, NativeCallback, CallOverflow, NativeReturn, NativeThrow,
       NativeThrowUnnoticed, Throw, OperatorError, OperatorErrorUnnoticed, LimitExceeded,
       LoadException, Return, CodePops, AtOpcode, AtEndOf
  <1>2. mode \notin {"opcode", "catch", "native", "done"}
    BY DEF FatalInv
  <1>3. mode = "resume" => exception[Top]
    BY DEF FatalInv
  <1>4. ~(UnwindToCatch \/ UnwindToFinally)
    BY DEF UnwindToCatch, UnwindToFinally, MayHandle
  <1>5. ~Continue
    BY <1>3 DEF Continue
  <1>6. ~(ReturnThroughFinally \/ ReturnToCaller \/ Halt)
    BY <1>2 DEF ReturnThroughFinally, ReturnToCaller, Halt
  <1> QED BY <1>1, <1>2, <1>4, <1>5, <1>6 DEF Unwind

(* A machine that has stopped does nothing more.                           *)
LEMMA StoppedForGood ==
    ASSUME mode \notin {"resume", "opcode", "catch", "done", "native"}
    PROVE  ~Execute /\ ~Unwind
  BY DEF Execute, Unwind, PushOperand, PopOperand, OperandUnderflow, EnterTry,
     RemoveTryAndJump, EndCatch, RemoveFinally, EndFinally, FinallyUnderflow, Skip,
     CallScript, CallNative, NativeCallback, CallOverflow, NativeReturn, NativeThrow,
     NativeThrowUnnoticed, Throw, OperatorError, OperatorErrorUnnoticed, LimitExceeded,
     LoadException, Return, CodePops, AtOpcode, AtEndOf, UnwindToCatch, UnwindToFinally,
     UnwindFrame, Continue, Pending, ReturnThroughFinally, ReturnToCaller, Halt

(* Nothing happens.                                                        *)
LEMMA MeetsNothing ==
    ASSUME JoinInv, UNCHANGED vars
    PROVE  Meets /\ JoinInv'
  <1>1. UNCHANGED <<callFrames, exception, allFinallyStates, isFatalException, mode>>
    BY DEF vars
  <1>2. Top' = Top
    BY <1>1 DEF Top
  <1>3. CallsOfFrames' = CallsOfFrames
    BY <1>1, <1>2 DEF CallsOfFrames, Interrupted
  <1>4. Status' = Status
    BY <1>1, <1>2 DEF Status
  <1>5. JoinInv'
    BY <1>1, <1>2 DEF JoinInv, Live
  <1> QED BY <1>1, <1>3, <1>4, <1>5, NoStep

(* Every step of the VM is a step of TryCatchFinally, or none.             *)
LEMMA MeetsNext ==
    ASSUME Uses = {}, AnyProgramInv, TypeOK', StructuredInv, FatalInv, JoinInv, [Next]_vars
    PROVE  Meets /\ JoinInv'
  <1>1. CASE UNCHANGED vars
    BY <1>1, MeetsNothing
  <1>2. CASE isFatalException /\ (Execute \/ Unwind)
    <2>1. UnwindFrame
      BY <1>2, OnlyUnwinding
    <2>2. Meets
      BY <1>2, <2>1, LeavesCall
    <2>3. isFatalException'
      BY <1>2, <2>1 DEF UnwindFrame
    <2> QED BY <2>2, <2>3 DEF JoinInv, Live
  <1>3. CASE ~isFatalException /\ (Execute \/ Unwind)
    <2>1. Good
      BY <1>3, StoppedForGood DEF Good, StructuredInv, Live
    <2>2. CASE Execute
      <3>1. CASE PushOperand \/ PopOperand
        BY <2>1, <3>1, MeetsOperands
      <3>2. CASE \E code \in Tries : EnterTry(code)
        BY <2>1, <3>2, MeetsEnter
      <3>3. CASE RemoveTryAndJump \/ EndCatch \/ RemoveFinally \/ EndFinally
        BY <2>1, <3>3, MeetsRemoveTry, MeetsEndCatch, MeetsRemoveFinally, MeetsEndFinally
      <3>4. CASE \E d \in 1 .. MaxRegions : Skip(d)
        BY <2>1, <3>4, MeetsSkip
      <3>5. CASE \/ \E argc \in ArgCounts, value \in BOOLEAN, boundary \in BOOLEAN :
                        CallScript(argc, value, boundary)
                 \/ \E argc \in ArgCounts, value \in BOOLEAN :
                        CallNative(argc, value) \/ NativeCallback(argc, value)
        BY <2>1, <3>5, MeetsCalls
      <3>6. CASE NativeReturn \/ Return
        BY <2>1, <3>6, MeetsNativeReturn, MeetsReturn
      <3>7. CASE Throw \/ OperatorError \/ NativeThrow
        BY <2>1, <3>7, MeetsThrows
      <3>8. CASE LimitExceeded \/ CallOverflow
        BY <2>1, <3>8, MeetsFatal
      <3>9. CASE OperandUnderflow \/ FinallyUnderflow \/ LoadException
        BY <2>1, <3>9, MeetsUnseen
      <3>10. CASE NativeThrowUnnoticed \/ OperatorErrorUnnoticed
        BY <3>10 DEF NativeThrowUnnoticed, OperatorErrorUnnoticed, NotifierMayBeStale
      <3> QED BY <2>2, <3>1, <3>2, <3>3, <3>4, <3>5, <3>6, <3>7, <3>8, <3>9, <3>10 DEF Execute
    <2>3. CASE Unwind
      BY <2>1, <2>3, MeetsCatch, MeetsFinally, MeetsUnwindFrame, MeetsUnseen,
         MeetsReturnThroughFinally, MeetsReturnToCaller, MeetsHalt DEF Unwind
    <2> QED BY <1>3, <2>2, <2>3
  <1> QED BY <1>1, <1>2, <1>3 DEF Next, Stopped

(* AVM::run starts one call, outside of every region.                      *)
LEMMA MeetsInit == Init => TCF!Init /\ JoinInv
  <1> SUFFICES ASSUME Init PROVE TCF!Init /\ JoinInv
    OBVIOUS
  <1>1. /\ Len(callFrames) = 1 /\ Top = 1 /\ callFrames[1].pos = <<>>
        /\ mode = "opcode" /\ isFatalException = FALSE
    BY DEF Init, Top
  <1>2. CallsOfFrames = <<<<>>>>
    <2>1. /\ CallsOfFrames = CallsOf(callFrames, allFinallyStates)
          /\ callFrames \in Seq(Frames)
      BY AnyProgramInit, CallsAre DEF AnyProgramInv, TypeOK
    <2>2. /\ CallsOfFrames \in Seq(Seq(Parts)) /\ Len(CallsOfFrames) = 1
          /\ CallsOfFrames[1] = MeaningOf(<<>>, allFinallyStates, 1)
      BY <1>1, <2>1, CallsTypes
    <2>3. MeaningOf(<<>>, allFinallyStates, 1) = <<>>
      <3>1. <<>> \in Positions /\ Len(<<>>) = 0
        BY DEF Positions
      <3> QED BY <3>1, MeaningTypes, EmptySeq
    <2> DEFINE c == CallsOfFrames
    <2> HIDE DEF c
    <2>4. c \in Seq(Seq(Parts)) /\ Len(c) = 1 /\ c[1] = <<>>
      BY <2>2, <2>3 DEF c
    <2>5. /\ <<<<>>>> \in Seq(Seq(Parts)) /\ Len(<<<<>>>>) = 1 /\ <<<<>>>>[1] = <<>>
      <3>1. <<>> \in Seq(Parts)
        OBVIOUS
      <3> QED BY <3>1
    <2>6. c = <<<<>>>>
      BY <2>4, <2>5, SeqEqual
    <2> QED BY <2>6 DEF c
  <1>3. Status = "running"
    BY <1>1 DEF Status
  <1>4. JoinInv
    BY <1>1 DEF JoinInv
  <1> QED BY <1>1, <1>2, <1>3, <1>4 DEF TCF!Init

(* In a program of the structured fragment the VM does what the language   *)
(* promises of try, catch and finally: an exception goes to the innermost  *)
(* region that protects it, in the innermost call that has one; a finally  *)
(* body runs on every way out of its region, and what it interrupted goes  *)
(* on at its end; a fatal error leaves every call and runs nothing.        *)
THEOREM TryCatchFinallyImplemented ==
    ASSUME Uses = {} PROVE Spec => ImplementsTryCatchFinally
  <1>1. AnyProgramInv /\ StructuredInv /\ [Next]_vars => StructuredInv'
    BY StructuredNext
  <1>2. Init => FatalInv
    BY DEF Init, FatalInv
  <1>3. AnyProgramInv /\ FatalInv /\ [Next]_vars => FatalInv'
    BY FatalNext
  <1>4. Init => TCF!Init /\ JoinInv
    BY MeetsInit
  <1>5. /\ AnyProgramInv /\ AnyProgramInv' /\ StructuredInv /\ FatalInv /\ JoinInv /\ [Next]_vars
        => [TCF!Next]_TCF!tcfVars /\ JoinInv'
    BY MeetsNext DEF AnyProgramInv, Meets
  <1> QED BY AnyProgram, StructuredInit, <1>1, <1>2, <1>3, <1>4, <1>5, PTL
          DEF Spec, ImplementsTryCatchFinally, TCF!Spec
=============================================================================
