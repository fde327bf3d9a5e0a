---------------------------- MODULE UnwindingProofs ----------------------------
(***************************************************************************)
(* What Unwinding.cfg and UnwindingAny.cfg check for three frames, for any *)
(* frame pool, any nesting and any program.  The inductive invariant is    *)
(* about the handler stack: above the mark handlerIndex of a frame there   *)
(* are at least the handlers of the regions around its instruction, and    *)
(* below each handler at least those of the regions around its target, so  *)
(* that control can go there and still find what it will remove.           *)
(* The second half states what structured programs keep, StructuredInv,    *)
(* and what becomes of each of its parts when a call is entered or left or *)
(* the running frame moves; StructuredProofs takes the steps one by one.   *)
(***************************************************************************)
EXTENDS Unwinding, BasicLemmas

Regions == [code : Codes, h : Nat]
Positions == Seq(Regions)
Frames == [pos : Positions, height : Nat, startStackCount : Int,
           handlerIndex : Nat, value : BOOLEAN, boundary : BOOLEAN,
           native : BOOLEAN]
Handlers == [type : {"CATCH", "FINALLY"}, target : Positions \ {<<>>}]
Completions == [reason : {"NORMAL", "EXCEPTION", "RETURN_VALUE", "RETURN_VOID"},
                owner : Nat \X Nat, kept : BOOLEAN]

TypeOK ==
    /\ callFrames \in Seq(Frames)
    /\ Top <= MaxFrames
    /\ exception \in [1 .. MaxFrames -> BOOLEAN]
    /\ notified \in 1 .. MaxFrames
    /\ allHandlers \in Seq(Handlers)
    /\ allFinallyStates \in Seq(Completions)
    /\ stackSize \in Int
    /\ isFatalException \in BOOLEAN
    /\ mode \in Modes

(* A VM that has not stopped runs a frame, and the first one is a script.  *)
FramesInv ==
    /\ mode \in {"resume", "opcode", "catch", "done", "native"} => Top > 0
    /\ Top > 0 => ~callFrames[1].native
    /\ mode = "native" => Frame.native

(***************************************************************************)
(* Positions.                                                              *)
(***************************************************************************)
Weight(code) ==
    (IF code \in WithFinally THEN 1 ELSE 0) + (IF code \in {"try", "tryCF"} THEN 1 ELSE 0)

(* Adding a region adds its own handlers.                                  *)
LEMMA CountOfAppend ==
    ASSUME NEW pos \in Positions, NEW r \in Regions
    PROVE  /\ HandlerCount(pos) \in Nat
           /\ HandlerCount(Append(pos, r)) = HandlerCount(pos) + Weight(r.code)
  <1> DEFINE long == Append(pos, r)
             n == Len(pos) + 1
             c == {d \in DOMAIN pos : pos[d].code \in {"try", "tryCF"}}
             f == {d \in DOMAIN pos : pos[d].code \in WithFinally}
             cLong == {d \in DOMAIN long : long[d].code \in {"try", "tryCF"}}
             fLong == {d \in DOMAIN long : long[d].code \in WithFinally}
  <1>1. Len(pos) \in Nat /\ DOMAIN pos = 1 .. Len(pos)
    BY LenProperties DEF Positions
  <1>2. /\ DOMAIN long = 1 .. n /\ long[n] = r
        /\ \A i \in 1 .. Len(pos) : long[i] = pos[i]
    <2>1. long \in Positions /\ Len(long) = n
      BY <1>1, AppendProperties DEF Positions
    <2>2. /\ long[n] = r
          /\ \A i \in 1 .. Len(pos) : long[i] = pos[i]
      BY <1>1, AppendProperties DEF Positions
    <2> QED BY <2>1, <2>2, LenProperties DEF Positions
  <1>3. IsFiniteSet(c) /\ IsFiniteSet(f)
    <2>1. c \in SUBSET (1 .. Len(pos)) /\ f \in SUBSET (1 .. Len(pos))
      BY <1>1
    <2>2. IsFiniteSet(1 .. Len(pos))
      BY <1>1, FS_Interval
    <2> QED BY <2>1, <2>2, FS_Subset
  <1>4. n \notin c /\ n \notin f
    BY <1>1
  <1>5. cLong = IF r.code \in {"try", "tryCF"} THEN c \cup {n} ELSE c
    BY <1>1, <1>2
  <1>6. fLong = IF r.code \in WithFinally THEN f \cup {n} ELSE f
    BY <1>1, <1>2
  <1>7. HandlerCount(pos) = Cardinality(f) + Cardinality(c)
    BY DEF HandlerCount, CatchDepths
  <1>8. HandlerCount(long) = Cardinality(fLong) + Cardinality(cLong)
    BY DEF HandlerCount, CatchDepths
  <1> HIDE DEF n, c, f, cLong, fLong
  <1>9. Cardinality(c) \in Nat /\ Cardinality(c \cup {n}) = Cardinality(c) + 1
    BY <1>3, <1>4, AddOne
  <1>10. Cardinality(f) \in Nat /\ Cardinality(f \cup {n}) = Cardinality(f) + 1
    BY <1>3, <1>4, AddOne
  <1> QED BY <1>5, <1>6, <1>7, <1>8, <1>9, <1>10 DEF Weight

(* The handlers around the innermost region are those around the rest of   *)
(* the position and its own.                                               *)
LEMMA CountOfRegion ==
    ASSUME NEW pos \in Positions, pos # <<>>
    PROVE  /\ HandlerCount(pos) \in Nat /\ HandlerCount(Front(pos)) \in Nat
           /\ HandlerCount(pos) = HandlerCount(Front(pos)) + Weight(Last(pos).code)
  <1>1. /\ Front(pos) \in Positions /\ Last(pos) \in Regions
        /\ pos = Append(Front(pos), Last(pos))
    BY FrontAndLast DEF Positions
  <1>2. HandlerCount(pos) \in Nat /\ HandlerCount(Front(pos)) \in Nat
    BY <1>1, CountOfAppend
  <1>3. HandlerCount(Append(Front(pos), Last(pos)))
            = HandlerCount(Front(pos)) + Weight(Last(pos).code)
    BY <1>1, CountOfAppend
  <1> QED BY <1>1, <1>2, <1>3

(* Every position has a number of handlers around it.                      *)
LEMMA CountOfPosition ==
    \A pos \in Positions : HandlerCount(pos) \in Nat
  <1>1. Region("try", 0) \in Regions
    BY DEF Region, Regions, Codes, Tries
  <1> QED BY <1>1, CountOfAppend

(* Outside every region there is none.                                     *)
LEMMA CountOfNowhere == HandlerCount(<<>>) = 0
  <1> DEFINE f == {d \in DOMAIN <<>> : <<>>[d].code \in WithFinally}
             c == {d \in DOMAIN <<>> : <<>>[d].code \in {"try", "tryCF"}}
  <1>1. DOMAIN <<>> = {}
    OBVIOUS
  <1>2. f = {} /\ c = {}
    BY <1>1
  <1>3. HandlerCount(<<>>) = Cardinality(f) + Cardinality(c)
    BY DEF HandlerCount, CatchDepths
  <1> QED BY <1>2, <1>3, FS_EmptySet

(* Leaving regions leaves no handler more than before.                     *)
LEMMA CountOfPrefix ==
    ASSUME NEW pos \in Positions, NEW n \in 0 .. Len(pos)
    PROVE  /\ SubSeq(pos, 1, n) \in Positions
           /\ HandlerCount(SubSeq(pos, 1, n)) \in Nat
           /\ HandlerCount(SubSeq(pos, 1, n)) <= HandlerCount(pos)
  <1> DEFINE short == SubSeq(pos, 1, n)
             c == {d \in DOMAIN pos : pos[d].code \in {"try", "tryCF"}}
             f == {d \in DOMAIN pos : pos[d].code \in WithFinally}
             cShort == {d \in DOMAIN short : short[d].code \in {"try", "tryCF"}}
             fShort == {d \in DOMAIN short : short[d].code \in WithFinally}
  <1>1. Len(pos) \in Nat /\ DOMAIN pos = 1 .. Len(pos)
    BY LenProperties DEF Positions
  <1>2. /\ short \in Positions /\ Len(short) = n
        /\ \A i \in 1 .. n : short[i] = pos[i]
    <2>1. \A i \in 1 .. n : pos[i] \in Regions
      BY <1>1, ElementOfSeq DEF Positions
    <2> QED BY <1>1, <2>1, SubSeqProperties DEF Positions
  <1>3. DOMAIN short = 1 .. n
    BY <1>2, LenProperties DEF Positions
  <1>4. cShort \in SUBSET c /\ fShort \in SUBSET f
    BY <1>1, <1>2, <1>3
  <1>5. IsFiniteSet(c) /\ IsFiniteSet(f)
    <2>1. c \in SUBSET (1 .. Len(pos)) /\ f \in SUBSET (1 .. Len(pos))
      BY <1>1
    <2>2. IsFiniteSet(1 .. Len(pos))
      BY <1>1, FS_Interval
    <2> QED BY <2>1, <2>2, FS_Subset
  <1>6. HandlerCount(pos) = Cardinality(f) + Cardinality(c)
    BY DEF HandlerCount, CatchDepths
  <1>7. HandlerCount(short) = Cardinality(fShort) + Cardinality(cShort)
    BY DEF HandlerCount, CatchDepths
  <1> HIDE DEF c, f, cShort, fShort
  <1>8. /\ Cardinality(c) \in Nat /\ Cardinality(cShort) \in Nat
        /\ Cardinality(cShort) <= Cardinality(c)
    BY <1>4, <1>5, FS_Subset, FS_CardinalityType
  <1>9. /\ Cardinality(f) \in Nat /\ Cardinality(fShort) \in Nat
        /\ Cardinality(fShort) <= Cardinality(f)
    BY <1>4, <1>5, FS_Subset, FS_CardinalityType
  <1> QED BY <1>2, <1>6, <1>7, <1>8, <1>9

(***************************************************************************)
(* The handlers of a region: their targets are the region's own clauses,   *)
(* whose handlers are those below them.                                    *)
(***************************************************************************)
LEMMA TargetCount ==
    ASSUME NEW pos \in Positions, pos # <<>>, NEW code \in Codes
    PROVE  /\ Target(pos, code) \in Positions \ {<<>>}
           /\ HandlerCount(Target(pos, code))
                  = HandlerCount(Front(pos)) + Weight(code)
  <1>1. Front(pos) \in Positions /\ Last(pos) \in Regions
    BY FrontAndLast DEF Positions
  <1>2. Region(code, Last(pos).h) \in Regions
    BY <1>1 DEF Region, Regions
  <1>3. Target(pos, code) \in Positions \ {<<>>}
    BY <1>1, <1>2, AppendProperties DEF Target, Positions
  <1>4. Region(code, Last(pos).h).code = code
    BY DEF Region
  <1> QED BY <1>1, <1>2, <1>3, <1>4, CountOfAppend DEF Target

(* What entering a try pushes: as many handlers as the region weighs,      *)
(* each aimed at a position that needs none of those above it.             *)
LEMMA RegionHandlers ==
    ASSUME NEW pos \in Positions, pos # <<>>
    PROVE  /\ HandlersOfRegion(pos) \in Seq(Handlers)
           /\ Len(HandlersOfRegion(pos)) = Weight(Last(pos).code)
           /\ \A i \in 1 .. Len(HandlersOfRegion(pos)) :
                 HandlerCount(HandlersOfRegion(pos)[i].target)
                    <= HandlerCount(Front(pos)) + i - 1
  <1> DEFINE F == Handler("FINALLY", Target(pos, "finally"))
             C == Handler("CATCH", Target(pos, "catch"))
             CF == Handler("CATCH", Target(pos, "catchF"))
             code == Last(pos).code
             n == HandlerCount(Front(pos))
  <1>1. code \in Codes /\ n \in Nat
    <2>1. Last(pos) \in Regions
      BY FrontAndLast DEF Positions
    <2> QED BY <2>1, CountOfRegion DEF Regions
  <1>2. /\ F \in Handlers /\ HandlerCount(F.target) = n
        /\ C \in Handlers /\ HandlerCount(C.target) = n
        /\ CF \in Handlers /\ HandlerCount(CF.target) = n + 1
    <2>1. {"finally", "catch", "catchF"} \subseteq Codes
      BY DEF Codes, Tries
    <2>2. Weight("finally") = 0 /\ Weight("catch") = 0 /\ Weight("catchF") = 1
      BY DEF Weight, WithFinally
    <2> QED BY <1>1, <2>1, <2>2, TargetCount DEF Handler, Handlers
  <1> HIDE DEF F, C, CF, n
  <1>3. CASE code = "try"
    <2>1. HandlersOfRegion(pos) = <<C>>
      BY <1>3 DEF HandlersOfRegion, C, WithFinally
    <2>2. Weight(code) = 1
      BY <1>3 DEF Weight, WithFinally
    <2> QED BY <1>1, <1>2, <2>1, <2>2 DEF n
  <1>4. CASE code = "tryCF"
    <2>1. HandlersOfRegion(pos) = Append(<<F>>, CF)
      BY <1>4 DEF HandlersOfRegion, F, CF
    <2>2. Weight(code) = 2
      BY <1>4 DEF Weight, WithFinally
    <2>3. <<F>> \in Seq(Handlers) /\ Len(<<F>>) = 1 /\ <<F>>[1] = F
      BY <1>2
    <2>4. /\ Append(<<F>>, CF) \in Seq(Handlers) /\ Len(Append(<<F>>, CF)) = 2
          /\ Append(<<F>>, CF)[1] = F /\ Append(<<F>>, CF)[2] = CF
      BY <1>2, <2>3, AppendProperties
    <2> QED BY <1>1, <1>2, <2>1, <2>2, <2>4 DEF n
  <1>5. CASE code \in WithFinally \ {"tryCF"}
    <2>1. HandlersOfRegion(pos) = <<F>>
      BY <1>5 DEF HandlersOfRegion, F, WithFinally
    <2>2. Weight(code) = 1
      BY <1>5 DEF Weight, WithFinally
    <2> QED BY <1>1, <1>2, <2>1, <2>2 DEF n
  <1>6. CASE code \notin WithFinally \cup {"try", "tryCF"}
    <2>1. HandlersOfRegion(pos) = <<>>
      BY <1>6 DEF HandlersOfRegion, WithFinally
    <2>2. Weight(code) = 0
      BY <1>6 DEF Weight
    <2> QED BY <1>1, <2>1, <2>2
  <1> QED BY <1>3, <1>4, <1>5, <1>6

(***************************************************************************)
(* The handler stack of every frame.                                       *)
(***************************************************************************)
SegmentEnd(k) ==
    IF k = Top THEN Len(allHandlers) ELSE callFrames[k + 1].handlerIndex

Suffices(hs, from, to, pos) ==
    /\ from + HandlerCount(pos) <= to
    /\ \A i \in from + 1 .. to : from + HandlerCount(hs[i].target) <= i - 1

HandlersSuffice ==
    /\ \A j, k \in 1 .. Top : j <= k =>
          callFrames[j].handlerIndex <= callFrames[k].handlerIndex
    /\ \A k \in 1 .. Top :
          /\ callFrames[k].handlerIndex <= Len(allHandlers)
          /\ Suffices(allHandlers, callFrames[k].handlerIndex, SegmentEnd(k),
                      callFrames[k].pos)

(* Only the handlers between the two marks matter.                         *)
LEMMA SufficesAlso ==
    ASSUME NEW hs, NEW hs2, NEW from, NEW to, NEW pos, Suffices(hs, from, to, pos),
           \A i \in from + 1 .. to : hs2[i] = hs[i]
    PROVE  Suffices(hs2, from, to, pos)
  BY DEF Suffices

(* The frames and handlers in use have their types.                        *)
LEMMA TopIsRunning ==
    ASSUME TypeOK
    PROVE  /\ Top \in Nat
           /\ \A k \in 1 .. Top : callFrames[k] \in Frames
           /\ Top > 0 => Frame \in Frames
           /\ Len(allHandlers) \in Nat
           /\ \A i \in 1 .. Len(allHandlers) : allHandlers[i] \in Handlers
  BY LenProperties, ElementOfSeq DEF TypeOK, Top, Frame

(* A frame's mark is not below that of the frames it was called from.      *)
LEMMA MarksRise ==
    ASSUME HandlersSuffice
    PROVE  /\ \A j, k \in 1 .. Top : j <= k =>
                 callFrames[j].handlerIndex <= callFrames[k].handlerIndex
           /\ \A k \in 1 .. Top : callFrames[k].handlerIndex <= Len(allHandlers)
  BY DEF HandlersSuffice

(* The steps of the running frame itself keep what is below its mark.      *)
LEMMA TopFrameStep ==
    ASSUME TypeOK, HandlersSuffice, Top > 0,
           NEW f \in Frames, f.handlerIndex = Frame.handlerIndex,
           callFrames' = SetTop(f),
           NEW n \in Nat, n >= f.handlerIndex, Len(allHandlers') = n,
           \A i \in 1 .. f.handlerIndex : allHandlers'[i] = allHandlers[i],
           Suffices(allHandlers', f.handlerIndex, n, f.pos)
    PROVE  HandlersSuffice' /\ Top' = Top /\ callFrames' \in Seq(Frames)
  <1>1. /\ Top \in Nat /\ callFrames \in Seq(Frames)
        /\ \A k \in 1 .. Top : callFrames[k].handlerIndex \in Nat
    BY TopIsRunning DEF TypeOK, Frames
  <1>2. /\ callFrames' \in Seq(Frames) /\ Top' = Top
        /\ \A k \in 1 .. Top : callFrames'[k] = IF k = Top THEN f ELSE callFrames[k]
    BY <1>1, ExceptSeq DEF SetTop, Top
  <1>3. \A k \in 1 .. Top : callFrames'[k].handlerIndex = callFrames[k].handlerIndex
    BY <1>2 DEF Frame
  <1>4. SUFFICES ASSUME NEW k \in 1 .. Top
                 PROVE  /\ callFrames'[k].handlerIndex <= Len(allHandlers')
                        /\ Suffices(allHandlers', callFrames'[k].handlerIndex,
                                    SegmentEnd(k)', callFrames'[k].pos)
    BY <1>2, <1>3 DEF HandlersSuffice
  <1>5. CASE k = Top
    BY <1>2, <1>5 DEF SegmentEnd
  <1>6. CASE k < Top
    <2>1. /\ callFrames'[k] = callFrames[k] /\ k + 1 \in 1 .. Top /\ Top \in 1 .. Top
          /\ SegmentEnd(k) = callFrames[k + 1].handlerIndex
          /\ SegmentEnd(k)' = SegmentEnd(k)
      BY <1>1, <1>2, <1>3, <1>6 DEF SegmentEnd
    <2>2. Suffices(allHandlers, callFrames[k].handlerIndex, SegmentEnd(k), callFrames[k].pos)
      BY DEF HandlersSuffice
    <2>3. /\ SegmentEnd(k) <= f.handlerIndex /\ SegmentEnd(k) \in Nat
          /\ callFrames[k].handlerIndex \in Nat
          /\ callFrames[k].handlerIndex <= f.handlerIndex /\ f.handlerIndex \in Nat
      BY <1>1, <1>6, <2>1 DEF HandlersSuffice, Frame
    <2>4. \A i \in callFrames[k].handlerIndex + 1 .. SegmentEnd(k) :
             allHandlers'[i] = allHandlers[i]
      BY <2>3
    <2>5. Suffices(allHandlers', callFrames[k].handlerIndex, SegmentEnd(k), callFrames[k].pos)
      BY <2>2, <2>4, SufficesAlso
    <2> QED BY <2>1, <2>3, <2>5
  <1> QED BY <1>1, <1>5, <1>6

(* A frame that is pushed begins above all handlers.                       *)
LEMMA FrameAbove ==
    ASSUME TypeOK, HandlersSuffice,
           NEW f \in Frames, f.handlerIndex = Len(allHandlers), f.pos = <<>>,
           Top' = Top + 1,
           \A k \in 1 .. Top : callFrames'[k] = callFrames[k],
           callFrames'[Top + 1] = f,
           UNCHANGED allHandlers
    PROVE  HandlersSuffice'
  <1>1. /\ Top \in Nat /\ Len(allHandlers) \in Nat
        /\ \A k \in 1 .. Top : callFrames[k].handlerIndex \in Nat
    BY TopIsRunning DEF TypeOK, Frames
  <1>2. /\ Top' = Top + 1
        /\ \A k \in 1 .. Top : callFrames'[k] = callFrames[k]
        /\ callFrames'[Top + 1] = f
    OBVIOUS
  <1>3. ASSUME NEW k \in 1 .. Top
        PROVE  SegmentEnd(k)' = SegmentEnd(k)
    <2>1. CASE k = Top
      BY <1>1, <1>2, <2>1 DEF SegmentEnd
    <2>2. CASE k < Top
      <3>1. k + 1 \in 1 .. Top /\ k # Top /\ k # Top + 1
        BY <1>1, <2>2
      <3> QED BY <1>2, <3>1 DEF SegmentEnd
    <2> QED BY <1>1, <2>1, <2>2
  <1>4. \A k \in 1 .. Top + 1 : k = Top + 1 => SegmentEnd(k)' = Len(allHandlers)
    BY <1>2 DEF SegmentEnd
  <1>5. \A k \in 1 .. Top + 1 : k \in 1 .. Top \/ k = Top + 1
    BY <1>1
  <1>6. \A j, k \in 1 .. Top + 1 : j <= k =>
           callFrames'[j].handlerIndex <= callFrames'[k].handlerIndex
    <2> SUFFICES ASSUME NEW j \in 1 .. Top + 1, NEW k \in 1 .. Top + 1, j <= k
                 PROVE  callFrames'[j].handlerIndex <= callFrames'[k].handlerIndex
      OBVIOUS
    <2>1. CASE k \in 1 .. Top
      <3>1. j \in 1 .. Top /\ callFrames'[j] = callFrames[j] /\ callFrames'[k] = callFrames[k]
        BY <1>1, <1>2, <2>1
      <3>2. callFrames[j].handlerIndex <= callFrames[k].handlerIndex
        BY <1>1, <2>1, <3>1, MarksRise
      <3> QED BY <3>1, <3>2
    <2>2. CASE k = Top + 1
      <3>1. callFrames'[k] = f
        BY <1>2, <2>2
      <3>2. CASE j = k
        <4>1. callFrames'[k].handlerIndex \in Nat
          BY <1>1, <3>1
        <4> QED BY <3>2, <4>1
      <3>3. CASE j \in 1 .. Top
        <4>1. callFrames'[j] = callFrames[j] /\ callFrames[j].handlerIndex <= Len(allHandlers)
          BY <1>2, <3>3, MarksRise
        <4> QED BY <3>1, <4>1
      <3> QED BY <1>5, <2>2, <3>2, <3>3
    <2> QED BY <1>5, <2>1, <2>2
  <1>7. Suffices(allHandlers, Len(allHandlers), Len(allHandlers), <<>>)
    BY <1>1, CountOfNowhere DEF Suffices
  <1>8. ASSUME NEW k \in 1 .. Top + 1
        PROVE  /\ callFrames'[k].handlerIndex <= Len(allHandlers)
               /\ Suffices(allHandlers, callFrames'[k].handlerIndex, SegmentEnd(k)',
                           callFrames'[k].pos)
    <2>1. CASE k \in 1 .. Top
      BY <1>1, <1>2, <1>3, <2>1 DEF HandlersSuffice
    <2>2. CASE k = Top + 1
      <3>1. callFrames'[k] = f /\ SegmentEnd(k)' = Len(allHandlers)
        BY <1>2, <1>4, <2>2
      <3>2. Suffices(allHandlers, f.handlerIndex, Len(allHandlers), f.pos)
        BY <1>7
      <3> QED BY <1>1, <3>1, <3>2
    <2> QED BY <1>5, <2>1, <2>2
  <1> QED BY <1>2, <1>6, <1>8 DEF HandlersSuffice

(* A new frame starts with a mark at the top of the handlers and needs     *)
(* none.                                                                   *)
LEMMA PushedFrame ==
    ASSUME TypeOK, HandlersSuffice,
           NEW f \in Frames, f.handlerIndex = Len(allHandlers), f.pos = <<>>,
           callFrames' = Append(callFrames, f), UNCHANGED allHandlers
    PROVE  HandlersSuffice' /\ Top' = Top + 1 /\ callFrames' \in Seq(Frames)
  <1>1. Top \in Nat /\ callFrames \in Seq(Frames)
    BY TopIsRunning DEF TypeOK
  <1>2. /\ callFrames' \in Seq(Frames) /\ Top' = Top + 1
        /\ \A k \in 1 .. Top : callFrames'[k] = callFrames[k]
        /\ callFrames'[Top + 1] = f
    <2>1. /\ callFrames' \in Seq(Frames) /\ Len(callFrames') = Len(callFrames) + 1
          /\ \A k \in 1 .. Len(callFrames) : callFrames'[k] = callFrames[k]
          /\ callFrames'[Len(callFrames) + 1] = f
      BY <1>1, AppendProperties
    <2> QED BY <2>1 DEF Top
  <1> QED BY <1>2, FrameAbove

(* When a frame is popped, what it left on the stack is its caller's.      *)
LEMMA PoppedFrame ==
    ASSUME TypeOK, HandlersSuffice, Top > 0,
           Len(callFrames') = Top - 1, callFrames' \in Seq(Frames),
           \A k \in 1 .. Top - 1 :
              /\ callFrames'[k].handlerIndex = callFrames[k].handlerIndex
              /\ callFrames'[k].pos = callFrames[k].pos,
           NEW n \in Frame.handlerIndex .. Len(allHandlers),
           allHandlers' = SubSeq(allHandlers, 1, n)
    PROVE  HandlersSuffice' /\ Top' = Top - 1
  <1>1. /\ Top \in Nat /\ Len(allHandlers) \in Nat
        /\ \A k \in 1 .. Top : callFrames[k].handlerIndex \in Nat
    BY TopIsRunning DEF TypeOK, Frames
  <1>2. Top' = Top - 1
    BY DEF Top
  <1>3. n \in Nat /\ Len(allHandlers') = n
        /\ \A i \in 1 .. n : allHandlers'[i] = allHandlers[i]
    BY <1>1, SubSeqProperties, TopIsRunning DEF Frame
  <1>4. SUFFICES ASSUME NEW k \in 1 .. Top - 1
                 PROVE  /\ callFrames[k].handlerIndex <= n
                        /\ Suffices(allHandlers', callFrames[k].handlerIndex,
                                    SegmentEnd(k)', callFrames[k].pos)
    BY SMTT(30), <1>1, <1>2, <1>3 DEF HandlersSuffice
  <1> DEFINE from == callFrames[k].handlerIndex
             mark == Frame.handlerIndex
  <1>5. /\ from \in Nat /\ mark \in Nat /\ from <= mark /\ mark <= n
        /\ Suffices(allHandlers, from, SegmentEnd(k), callFrames[k].pos)
    BY <1>1 DEF HandlersSuffice, Frame
  <1>6. CASE k < Top - 1
    <2>1. /\ SegmentEnd(k) = callFrames[k + 1].handlerIndex
          /\ SegmentEnd(k)' = SegmentEnd(k)
          /\ SegmentEnd(k) \in Nat /\ SegmentEnd(k) <= n
      BY <1>1, <1>2, <1>5, <1>6 DEF SegmentEnd, HandlersSuffice, Frame
    <2>2. \A i \in from + 1 .. SegmentEnd(k) : allHandlers'[i] = allHandlers[i]
      BY SMTT(30), <1>3, <1>5, <2>1
    <2>3. Suffices(allHandlers', from, SegmentEnd(k), callFrames[k].pos)
      BY <1>5, <2>2, SufficesAlso
    <2> QED BY <1>5, <2>1, <2>3
  <1>7. CASE k = Top - 1
    <2>1. SegmentEnd(k) = mark /\ SegmentEnd(k)' = n
      BY <1>1, <1>2, <1>3, <1>7 DEF SegmentEnd, Frame
    <2>2. Suffices(allHandlers, mark, Len(allHandlers), Frame.pos)
      BY <1>1 DEF HandlersSuffice, Frame, SegmentEnd
    <2>3. from + HandlerCount(callFrames[k].pos) <= n
      <3>1. callFrames[k].pos \in Positions
        BY SMTT(30), <1>1, TopIsRunning DEF Frames
      <3>2. HandlerCount(callFrames[k].pos) \in Nat
        BY <3>1, CountOfPosition
      <3>3. from + HandlerCount(callFrames[k].pos) <= mark
        BY <1>5, <2>1 DEF Suffices
      <3> HIDE DEF from, mark
      <3> QED BY <1>3, <1>5, <3>2, <3>3
    <2>4. ASSUME NEW i \in from + 1 .. n
          PROVE  from + HandlerCount(allHandlers'[i].target) <= i - 1
      <3>1. i \in 1 .. n /\ i \in 1 .. Len(allHandlers) /\ allHandlers'[i] = allHandlers[i]
        BY <1>1, <1>3, <1>5
      <3>2. HandlerCount(allHandlers[i].target) \in Nat
        BY <3>1, TopIsRunning, CountOfPosition DEF Handlers
      <3>3. CASE i <= mark
        BY <1>5, <2>1, <3>1, <3>3 DEF Suffices
      <3>4. CASE i > mark
        <4>1. i \in mark + 1 .. Len(allHandlers)
          BY <1>1, <1>5, <3>1, <3>4
        <4>2. \A j \in mark + 1 .. Len(allHandlers) :
                 mark + HandlerCount(allHandlers[j].target) <= j - 1
          BY <2>2 DEF Suffices
        <4>3. mark + HandlerCount(allHandlers[i].target) <= i - 1
          BY <4>1, <4>2
        <4> HIDE DEF from, mark
        <4> QED BY SMTT(30), <1>5, <3>1, <3>2, <4>3
      <3> QED BY <1>5, <3>3, <3>4
    <2> QED BY SMTT(30), <1>3, <1>5, <2>1, <2>3, <2>4 DEF Suffices
  <1> QED BY <1>6, <1>7

(***************************************************************************)
(* The inductive invariant for programs of every kind.                     *)
(***************************************************************************)
\* Where the notifier points at while the VM executes: never below the
\* running frame.
NotifierInv == mode \in {"opcode", "catch", "native", "done"} => Top <= notified

CatchInv == mode = "catch" => exception[Top]

AnyProgramInv == TypeOK /\ FramesInv /\ HandlersSuffice /\ NotifierInv /\ CatchInv

(* The running frame's handlers are those from its mark to the top.        *)
LEMMA TopSuffices ==
    ASSUME TypeOK, HandlersSuffice, Top > 0
    PROVE  /\ Frame \in Frames /\ Top \in Nat
           /\ Len(allHandlers) \in Nat
           /\ Frame.handlerIndex \in Nat /\ Frame.handlerIndex <= Len(allHandlers)
           /\ Frame.pos \in Positions /\ HandlerCount(Frame.pos) \in Nat
           /\ Suffices(allHandlers, Frame.handlerIndex, Len(allHandlers), Frame.pos)
  <1>1. Frame \in Frames /\ Top \in 1 .. Top /\ Top \in Nat /\ Len(allHandlers) \in Nat
    BY TopIsRunning
  <1>2. /\ Frame.handlerIndex \in Nat /\ Frame.pos \in Positions
        /\ HandlerCount(Frame.pos) \in Nat
    BY <1>1, CountOfPosition DEF Frames
  <1>3. /\ Frame.handlerIndex <= Len(allHandlers)
        /\ Suffices(allHandlers, Frame.handlerIndex, Len(allHandlers), Frame.pos)
    BY <1>1 DEF HandlersSuffice, SegmentEnd, Frame
  <1> QED BY <1>1, <1>2, <1>3

(* Handlers that suffice for a position suffice, cut down to enough of     *)
(* them, for any position.                                                 *)
LEMMA SufficesForAll ==
    ASSUME NEW hs, NEW from \in Nat, NEW to \in Nat, NEW pos \in Positions,
           Suffices(hs, from, to, pos),
           NEW to2 \in from .. to, NEW pos2 \in Positions,
           from + HandlerCount(pos2) <= to2
    PROVE  Suffices(hs, from, to2, pos2)
  BY DEF Suffices

(* The running frame moves within its code.                                *)
LEMMA MovedFrame ==
    ASSUME TypeOK, FramesInv, HandlersSuffice, Top > 0,
           NEW p \in Positions, NEW h \in Nat, callFrames' = SetTop(At(p, h)),
           allHandlers' \in Seq(Handlers),
           Frame.handlerIndex <= Len(allHandlers'),
           \A i \in 1 .. Frame.handlerIndex : allHandlers'[i] = allHandlers[i],
           Suffices(allHandlers', Frame.handlerIndex, Len(allHandlers'), p)
    PROVE  /\ HandlersSuffice' /\ Top' = Top /\ callFrames' \in Seq(Frames)
           /\ ~callFrames'[1].native
           /\ callFrames'[Top].native = Frame.native
  <1> DEFINE f == At(p, h)
  <1>1. Frame \in Frames /\ Top \in Nat
    BY TopSuffices
  <1>2. /\ f \in Frames /\ f.handlerIndex = Frame.handlerIndex
        /\ f.native = Frame.native /\ f.pos = p
    BY <1>1 DEF At, Frames
  <1>3. Len(allHandlers') \in Nat
    BY LenProperties
  <1> HIDE DEF f
  <1>4. callFrames' = SetTop(f)
    BY DEF f
  <1>5. HandlersSuffice' /\ Top' = Top /\ callFrames' \in Seq(Frames)
    BY <1>2, <1>3, <1>4, TopFrameStep
  <1>6. \A k \in 1 .. Top : callFrames'[k] = IF k = Top THEN f ELSE callFrames[k]
    BY <1>2, <1>4, ExceptSeq DEF SetTop, Top, TypeOK
  <1>7. callFrames'[Top].native = Frame.native /\ ~callFrames'[1].native
    BY <1>1, <1>2, <1>6 DEF FramesInv, Frame
  <1> QED BY <1>5, <1>7

(* ... with the handler stack as it is, or without what lies above n.      *)
LEMMA MovedWithHandlers ==
    ASSUME TypeOK, FramesInv, HandlersSuffice, Top > 0,
           NEW p \in Positions, NEW h \in Nat, callFrames' = SetTop(At(p, h)),
           NEW n \in Frame.handlerIndex .. Len(allHandlers),
           allHandlers' = SubSeq(allHandlers, 1, n),
           Frame.handlerIndex + HandlerCount(p) <= n
    PROVE  /\ HandlersSuffice' /\ Top' = Top /\ callFrames' \in Seq(Frames)
           /\ ~callFrames'[1].native
           /\ callFrames'[Top].native = Frame.native
           /\ allHandlers' \in Seq(Handlers)
  <1> DEFINE from == Frame.handlerIndex
  <1>1. /\ from \in Nat /\ Len(allHandlers) \in Nat /\ Frame.pos \in Positions
        /\ Suffices(allHandlers, from, Len(allHandlers), Frame.pos)
    BY TopSuffices
  <1>2. n \in Nat /\ n \in 0 .. Len(allHandlers) /\ from <= n
    BY <1>1
  <1>3. /\ allHandlers' \in Seq(Handlers) /\ Len(allHandlers') = n
        /\ \A i \in 1 .. n : allHandlers'[i] = allHandlers[i]
    BY <1>2, Prefix DEF TypeOK
  <1>4. Suffices(allHandlers, from, n, p)
    BY <1>1, SufficesForAll
  <1>5. \A i \in from + 1 .. n : allHandlers'[i] = allHandlers[i]
    BY <1>1, <1>2, <1>3
  <1>6. Suffices(allHandlers', from, n, p)
    BY <1>4, <1>5, SufficesAlso
  <1>7. \A i \in 1 .. from : allHandlers'[i] = allHandlers[i]
    BY <1>1, <1>2, <1>3
  <1> QED BY <1>2, <1>3, <1>6, <1>7, MovedFrame

(* A step that only moves the running frame keeps the invariant when it    *)
(* keeps the handlers it needs.                                            *)
LEMMA MovedInv ==
    ASSUME AnyProgramInv, Top > 0,
           HandlersSuffice', Top' = Top, callFrames' \in Seq(Frames),
           ~callFrames'[1].native, allHandlers' \in Seq(Handlers),
           exception' \in [1 .. MaxFrames -> BOOLEAN],
           notified' \in 1 .. MaxFrames,
           allFinallyStates' \in Seq(Completions), stackSize' \in Int,
           isFatalException' \in BOOLEAN,
           mode' \in Modes \ {"native"},
           mode' \in {"opcode", "catch", "done"} => Top <= notified',
           mode' = "catch" => exception'[Top]
    PROVE  AnyProgramInv'
  <1>1. TypeOK'
    BY DEF AnyProgramInv, TypeOK
  <1>2. FramesInv'
    BY DEF FramesInv
  <1>3. NotifierInv' /\ CatchInv'
    BY DEF NotifierInv, CatchInv
  <1> QED BY <1>1, <1>2, <1>3 DEF AnyProgramInv

(* The same when the handlers above its new position are popped.           *)
LEMMA MovedStep ==
    ASSUME AnyProgramInv, Top > 0,
           NEW p \in Positions, NEW h \in Nat, callFrames' = SetTop(At(p, h)),
           NEW n \in Frame.handlerIndex .. Len(allHandlers),
           allHandlers' = SubSeq(allHandlers, 1, n),
           Frame.handlerIndex + HandlerCount(p) <= n,
           exception' \in [1 .. MaxFrames -> BOOLEAN],
           notified' \in 1 .. MaxFrames,
           allFinallyStates' \in Seq(Completions), stackSize' \in Int,
           isFatalException' \in BOOLEAN,
           mode' \in Modes \ {"native"},
           mode' \in {"opcode", "catch", "done"} => Top <= notified',
           mode' = "catch" => exception'[Top]
    PROVE  AnyProgramInv'
  <1>1. /\ HandlersSuffice' /\ Top' = Top /\ callFrames' \in Seq(Frames)
        /\ ~callFrames'[1].native /\ allHandlers' \in Seq(Handlers)
    BY MovedWithHandlers DEF AnyProgramInv
  <1> QED BY <1>1, MovedInv

(* Moves that leave the handlers alone: no more regions than before.       *)
LEMMA MovedOnlyStep ==
    ASSUME AnyProgramInv, Top > 0,
           NEW p \in Positions, NEW h \in Nat, callFrames' = SetTop(At(p, h)),
           HandlerCount(p) <= HandlerCount(Frame.pos),
           UNCHANGED allHandlers,
           exception' \in [1 .. MaxFrames -> BOOLEAN],
           notified' \in 1 .. MaxFrames,
           allFinallyStates' \in Seq(Completions), stackSize' \in Int,
           isFatalException' \in BOOLEAN,
           mode' \in Modes \ {"native"},
           mode' \in {"opcode", "catch", "done"} => Top <= notified',
           mode' = "catch" => exception'[Top]
    PROVE  AnyProgramInv'
  <1> DEFINE n == Len(allHandlers)
  <1>1. /\ Frame.handlerIndex \in Nat /\ n \in Nat /\ HandlerCount(Frame.pos) \in Nat
        /\ Frame.handlerIndex + HandlerCount(Frame.pos) <= n
        /\ HandlerCount(p) \in Nat
    BY TopSuffices, CountOfPosition DEF AnyProgramInv, Suffices
  <1>2. allHandlers' = SubSeq(allHandlers, 1, n)
    BY SubSeqFull DEF AnyProgramInv, TypeOK
  <1> HIDE DEF n
  <1>3. n \in Frame.handlerIndex .. n /\ Frame.handlerIndex + HandlerCount(p) <= n
    BY <1>1
  <1>4. n \in Frame.handlerIndex .. Len(allHandlers)
    BY <1>3 DEF n
  <1> QED BY <1>2, <1>3, <1>4, MovedStep

(* What the invariant says of the running frame, mode by mode.             *)
LEMMA InAnyMode ==
    ASSUME AnyProgramInv
    PROVE  /\ mode \in {"resume", "opcode", "catch", "done", "native"} => Top > 0
           /\ mode \in {"opcode", "catch", "native", "done"} => Top <= notified
           /\ Top \in Nat /\ Top <= MaxFrames /\ MaxFrames \in Nat
           /\ Top > 0 => /\ Frame \in Frames /\ Here \in Positions /\ Frame.height \in Nat
                         /\ \A d \in DOMAIN Here : Here[d] \in Regions
                         /\ Here # <<>> => Last(Here) \in Regions
           /\ exception \in [1 .. MaxFrames -> BOOLEAN] /\ notified \in 1 .. MaxFrames
           /\ allFinallyStates \in Seq(Completions) /\ stackSize \in Int
           /\ isFatalException \in BOOLEAN
  <1>1. Top \in Nat /\ (Top > 0 => Frame \in Frames)
    BY TopIsRunning DEF AnyProgramInv
  <1>2. Frame \in Frames => Here \in Positions /\ Frame.height \in Nat
    BY DEF Frames, Here
  <1>3. Here \in Positions => /\ \A d \in DOMAIN Here : Here[d] \in Regions
                              /\ Here # <<>> => Last(Here) \in Regions
    BY LenProperties, FrontAndLast DEF Positions
  <1>4. MaxFrames \in Nat
    BY UnwindingAssumption
  <1> QED BY <1>1, <1>2, <1>3, <1>4 DEF AnyProgramInv, FramesInv, NotifierInv, TypeOK

(***************************************************************************)
(* Steps of the running frame's own code.                                  *)
(***************************************************************************)
LEMMA OperandSteps ==
    ASSUME AnyProgramInv, PushOperand \/ PopOperand
    PROVE  AnyProgramInv'
  <1>1. /\ mode = "opcode" /\ UNCHANGED <<mode, allHandlers, allFinallyStates>> /\ Keep
        /\ stackSize' = stackSize + 1 \/ stackSize' = stackSize - 1
    BY DEF PushOperand, PopOperand, CodePops, AtOpcode
  <1>2. Top > 0 /\ Frame.height \in Nat
    BY <1>1, InAnyMode
  <1>3. PICK h \in Nat : callFrames' = SetTop(At(Here, h))
    <2>1. CASE PushOperand
      BY <1>2, <2>1 DEF PushOperand
    <2>2. CASE PopOperand
      <3>1. Frame.height > (IF Here = <<>> THEN 0 ELSE Last(Here).h)
        BY <2>2 DEF PopOperand, CodePops
      <3>2. Here # <<>> => Last(Here).h \in Nat
        BY <1>2, InAnyMode DEF Regions
      <3>3. Frame.height - 1 \in Nat
        BY <1>2, <3>1, <3>2
      <3> QED BY <2>2, <3>3 DEF PopOperand
    <2> QED BY <2>1, <2>2
  <1>4. /\ Here \in Positions /\ HandlerCount(Here) <= HandlerCount(Frame.pos)
        /\ stackSize' \in Int
    BY <1>1, <1>2, InAnyMode, CountOfPosition DEF Here
  <1> QED BY <1>1, <1>2, <1>3, <1>4, InAnyMode, MovedOnlyStep DEF Keep, Modes

(* TRY_CATCH and TRY_FINALLY push what the region needs.                   *)
LEMMA EnterTryStep ==
    ASSUME AnyProgramInv, NEW code \in Tries, EnterTry(code)
    PROVE  AnyProgramInv'
  <1> DEFINE pos == Append(Here, Region(code, Frame.height))
             added == HandlersOfRegion(pos)
             from == Frame.handlerIndex
             n == Len(allHandlers)
  <1>1. /\ mode = "opcode" /\ UNCHANGED <<mode, allFinallyStates, stackSize>> /\ Keep
        /\ callFrames' = SetTop(At(pos, Frame.height))
        /\ allHandlers' = allHandlers \o added
    BY DEF EnterTry, AtOpcode, HandlersAdded
  <1>2. /\ Top > 0 /\ Frame.height \in Nat /\ Here \in Positions
        /\ from \in Nat /\ n \in Nat /\ from <= n /\ HandlerCount(Here) \in Nat
        /\ Suffices(allHandlers, from, n, Here)
        /\ allHandlers \in Seq(Handlers)
    BY <1>1, InAnyMode, TopSuffices DEF AnyProgramInv, TypeOK, Here
  <1>3. Region(code, Frame.height) \in Regions
    BY <1>2 DEF Region, Regions, Codes
  <1>4. pos \in Positions /\ pos # <<>> /\ Front(pos) = Here
    <2>1. /\ pos \in Positions /\ pos # <<>> /\ Len(pos) = Len(Here) + 1
          /\ \A i \in 1 .. Len(Here) : pos[i] = Here[i]
      BY <1>2, <1>3, AppendProperties DEF Positions
    <2> HIDE DEF pos
    <2>2. /\ Front(pos) \in Seq(Regions) /\ Len(Front(pos)) = Len(Here)
          /\ Len(Here) \in Nat /\ Here \in Seq(Regions)
          /\ \A i \in 1 .. Len(Here) : Front(pos)[i] = pos[i]
      BY SMTT(30), <1>2, <2>1, FrontAndLast, LenProperties DEF Positions
    <2>3. Front(pos) = Here
      BY <2>1, <2>2, SeqEqual
    <2> QED BY <2>1, <2>3
  <1> HIDE DEF pos, from, n
  <1>5. /\ added \in Seq(Handlers) /\ Len(added) \in Nat
        /\ HandlerCount(pos) = HandlerCount(Here) + Len(added)
        /\ \A i \in 1 .. Len(added) :
              HandlerCount(added[i].target) <= HandlerCount(Here) + i - 1
        /\ \A i \in 1 .. Len(added) : HandlerCount(added[i].target) \in Nat
    <2>1. /\ added \in Seq(Handlers) /\ Len(added) = Weight(Last(pos).code)
          /\ \A i \in 1 .. Len(added) :
                HandlerCount(added[i].target) <= HandlerCount(Here) + i - 1
      BY <1>4, RegionHandlers
    <2>2. HandlerCount(pos) = HandlerCount(Here) + Weight(Last(pos).code)
      BY <1>4, CountOfRegion
    <2>3. ASSUME NEW i \in 1 .. Len(added) PROVE HandlerCount(added[i].target) \in Nat
      <3>1. added[i] \in Handlers
        BY <2>1, ElementOfSeq
      <3> QED BY <3>1, CountOfPosition DEF Handlers
    <2>4. Len(added) \in Nat
      BY <2>1, LenProperties
    <2> QED BY <2>1, <2>2, <2>3, <2>4
  <1> HIDE DEF added
  <1>6. /\ allHandlers' \in Seq(Handlers) /\ Len(allHandlers') = n + Len(added)
        /\ \A i \in 1 .. n + Len(added) :
              allHandlers'[i] = IF i <= n THEN allHandlers[i] ELSE added[i - n]
    BY <1>1, <1>2, <1>5, ConcatProperties DEF n
  <1>7. from + HandlerCount(pos) <= n + Len(added)
    BY <1>2, <1>5 DEF Suffices
  <1>8. ASSUME NEW i \in from + 1 .. n + Len(added)
        PROVE  from + HandlerCount(allHandlers'[i].target) <= i - 1
    <2>1. CASE i <= n
      <3>1. i \in from + 1 .. n /\ allHandlers'[i] = allHandlers[i]
        BY <1>2, <1>5, <1>6, <2>1
      <3> QED BY <1>2, <3>1 DEF Suffices
    <2>2. CASE i > n
      <3>1. i - n \in 1 .. Len(added) /\ allHandlers'[i] = added[i - n]
        BY <1>2, <1>5, <1>6, <2>2
      <3>2. /\ HandlerCount(added[i - n].target) <= HandlerCount(Here) + (i - n) - 1
            /\ HandlerCount(added[i - n].target) \in Nat
        BY <1>5, <3>1
      <3>3. from + HandlerCount(Here) <= n
        BY <1>2 DEF Suffices
      <3> QED BY <1>2, <3>1, <3>2, <3>3
    <2> QED BY <1>2, <2>1, <2>2
  <1>9. Suffices(allHandlers', from, n + Len(added), pos)
    BY <1>7, <1>8 DEF Suffices
  <1>10. \A i \in 1 .. from : allHandlers'[i] = allHandlers[i]
    BY <1>2, <1>5, <1>6
  <1>11. from <= Len(allHandlers')
    BY <1>2, <1>5, <1>6
  <1>12. /\ HandlersSuffice' /\ Top' = Top /\ callFrames' \in Seq(Frames)
         /\ ~callFrames'[1].native
    BY <1>1, <1>2, <1>4, <1>6, <1>9, <1>10, <1>11, MovedFrame DEF AnyProgramInv, from
  <1> QED BY <1>1, <1>2, <1>6, <1>12, InAnyMode, MovedInv DEF Keep, Modes

(* At the end of a region its handlers are still there.                    *)
LEMMA AtRegionEnd ==
    ASSUME AnyProgramInv, NEW codes \in SUBSET Codes, AtEndOf(codes)
    PROVE  /\ mode = "opcode" /\ Top > 0 /\ Top <= notified
           /\ Here \in Positions /\ Here # <<>> /\ Front(Here) \in Positions
           /\ Last(Here).code \in codes
           /\ HandlerCount(Front(Here)) \in Nat /\ HandlerCount(Here) \in Nat
           /\ HandlerCount(Here) = HandlerCount(Front(Here)) + Weight(Last(Here).code)
           /\ Here = Frame.pos /\ Frame.height \in Nat
           /\ Frame.handlerIndex \in Nat /\ Len(allHandlers) \in Nat
           /\ Frame.handlerIndex + HandlerCount(Here) <= Len(allHandlers)
  <1>1. mode = "opcode" /\ Here # <<>> /\ Last(Here).code \in codes
    BY DEF AtEndOf, Inside
  <1>2. /\ Top > 0 /\ Top <= notified /\ Here \in Positions /\ Frame.height \in Nat
        /\ Here = Frame.pos
    BY <1>1, InAnyMode DEF Here
  <1>3. Front(Here) \in Positions
    BY <1>1, <1>2, FrontAndLast DEF Positions
  <1>4. /\ HandlerCount(Front(Here)) \in Nat /\ HandlerCount(Here) \in Nat
        /\ HandlerCount(Here) = HandlerCount(Front(Here)) + Weight(Last(Here).code)
    BY <1>1, <1>2, CountOfRegion
  <1>5. /\ Frame.handlerIndex \in Nat /\ Len(allHandlers) \in Nat
        /\ Frame.handlerIndex + HandlerCount(Here) <= Len(allHandlers)
    BY <1>2, TopSuffices DEF AnyProgramInv, Suffices
  <1> QED BY <1>1, <1>2, <1>3, <1>4, <1>5

(* A completion saved for a finally body has its type.                     *)
LEMMA CompletionTypes ==
    ASSUME AnyProgramInv, NEW target \in Positions, NEW kept \in BOOLEAN,
           NEW reason \in {"NORMAL", "EXCEPTION", "RETURN_VALUE", "RETURN_VOID"}
    PROVE  Append(allFinallyStates, FinallyState(reason, target, kept)) \in Seq(Completions)
  <1>1. Top \in Nat /\ Len(target) \in Nat
    BY InAnyMode, LenProperties DEF Positions
  <1>2. FinallyState(reason, target, kept) \in Completions
    BY <1>1 DEF FinallyState, Completions
  <1> QED BY <1>2, InAnyMode, AppendProperties

(* REMOVE_TRY_AND_JUMP pops the try's own handler.                         *)
LEMMA RemoveTryStep ==
    ASSUME AnyProgramInv, RemoveTryAndJump
    PROVE  AnyProgramInv'
  <1> DEFINE n == Len(allHandlers) - 1
             p == AfterTry(Here)
  <1>1. {"try", "tryCF"} \in SUBSET Codes /\ "joinF" \in Codes
    BY DEF Codes, Tries
  <1>2. AtEndOf({"try", "tryCF"}) /\ Len(allHandlers) > Frame.handlerIndex
    BY DEF RemoveTryAndJump
  <1>3. /\ mode = "opcode" /\ Top > 0 /\ Top <= notified /\ Frame.height \in Nat
        /\ Here \in Positions /\ Here # <<>> /\ Front(Here) \in Positions
        /\ Last(Here).code \in {"try", "tryCF"}
        /\ HandlerCount(Front(Here)) \in Nat /\ HandlerCount(Here) \in Nat
        /\ HandlerCount(Here) = HandlerCount(Front(Here)) + Weight(Last(Here).code)
        /\ Frame.handlerIndex \in Nat /\ Len(allHandlers) \in Nat
        /\ Frame.handlerIndex + HandlerCount(Here) <= Len(allHandlers)
    BY <1>1, <1>2, AtRegionEnd
  <1>4. p \in Positions /\ HandlerCount(p) = HandlerCount(Here) - 1
    <2>1. CASE Last(Here).code = "try"
      BY <1>3, <2>1 DEF AfterTry, Weight, WithFinally
    <2>2. CASE Last(Here).code = "tryCF"
      <3>1. /\ Target(Here, "joinF") \in Positions
            /\ HandlerCount(Target(Here, "joinF")) = HandlerCount(Front(Here)) + Weight("joinF")
        BY <1>1, <1>3, TargetCount
      <3> QED BY <1>3, <2>2, <3>1 DEF AfterTry, Weight, WithFinally
    <2> QED BY <1>3, <2>1, <2>2
  <1>5. /\ callFrames' = SetTop(At(p, Frame.height)) /\ Keep
        /\ UNCHANGED <<allFinallyStates, stackSize, mode>>
        /\ allHandlers' = SubSeq(allHandlers, 1, n)
    BY DEF RemoveTryAndJump, HandlersWithoutLast, Front
  <1> HIDE DEF p
  <1>6. n \in Frame.handlerIndex .. Len(allHandlers) /\ Frame.handlerIndex + HandlerCount(p) <= n
    BY <1>2, <1>3, <1>4
  <1> HIDE DEF n
  <1> QED BY <1>3, <1>4, <1>5, <1>6, InAnyMode, MovedStep DEF Keep, Modes

(* REMOVE_FINALLY_AND_JUMP pops the finally's handler.                     *)
LEMMA RemoveFinallyStep ==
    ASSUME AnyProgramInv, RemoveFinally
    PROVE  AnyProgramInv'
  <1> DEFINE n == Len(allHandlers) - 1
             p == Target(Here, "finally")
             codes == {"tryF", "catchF", "joinF"}
  <1>1. codes \in SUBSET Codes /\ "finally" \in Codes
    BY DEF Codes, Tries
  <1>2. AtEndOf(codes) /\ Len(allHandlers) > Frame.handlerIndex
    BY DEF RemoveFinally
  <1>3. /\ mode = "opcode" /\ Top > 0 /\ Top <= notified /\ Frame.height \in Nat
        /\ Here \in Positions /\ Here # <<>>
        /\ Last(Here).code \in codes
        /\ HandlerCount(Front(Here)) \in Nat /\ HandlerCount(Here) \in Nat
        /\ HandlerCount(Here) = HandlerCount(Front(Here)) + Weight(Last(Here).code)
        /\ Frame.handlerIndex \in Nat /\ Len(allHandlers) \in Nat
        /\ Frame.handlerIndex + HandlerCount(Here) <= Len(allHandlers)
    BY <1>1, <1>2, AtRegionEnd
  <1>4. p \in Positions /\ HandlerCount(p) = HandlerCount(Here) - 1
    <2>1. p \in Positions /\ HandlerCount(p) = HandlerCount(Front(Here)) + Weight("finally")
      BY <1>1, <1>3, TargetCount
    <2> HIDE DEF p
    <2> QED BY <1>3, <2>1 DEF Weight, WithFinally
  <1>5. /\ callFrames' = SetTop(At(p, Frame.height)) /\ Keep
        /\ UNCHANGED <<stackSize, mode>>
        /\ allFinallyStates' = Append(allFinallyStates, FinallyState("NORMAL", p, FALSE))
        /\ allHandlers' = SubSeq(allHandlers, 1, n)
    BY DEF RemoveFinally, HandlersWithoutLast, Front, PushFinallyState
  <1> HIDE DEF p
  <1>6. allFinallyStates' \in Seq(Completions)
    BY <1>4, <1>5, CompletionTypes
  <1>7. n \in Frame.handlerIndex .. Len(allHandlers) /\ Frame.handlerIndex + HandlerCount(p) <= n
    BY <1>2, <1>3, <1>4
  <1> HIDE DEF n
  <1> QED BY <1>3, <1>4, <1>5, <1>6, <1>7, InAnyMode, MovedStep DEF Keep, Modes

(* The end of a catch body leaves the handlers alone.                      *)
LEMMA EndCatchStep ==
    ASSUME AnyProgramInv, EndCatch
    PROVE  AnyProgramInv'
  <1>1. {"catch"} \in SUBSET Codes /\ AtEndOf({"catch"})
    BY DEF Codes, EndCatch
  <1>2. /\ mode = "opcode" /\ Top > 0 /\ Top <= notified /\ Frame.height \in Nat
        /\ Front(Here) \in Positions
        /\ HandlerCount(Front(Here)) \in Nat /\ Here = Frame.pos
        /\ HandlerCount(Here) = HandlerCount(Front(Here)) + Weight(Last(Here).code)
        /\ Last(Here).code \in {"catch"}
    BY <1>1, AtRegionEnd
  <1>3. HandlerCount(Front(Here)) <= HandlerCount(Frame.pos)
    BY <1>2 DEF Weight, WithFinally
  <1>4. /\ callFrames' = SetTop(At(Front(Here), Frame.height)) /\ Keep
        /\ UNCHANGED <<allHandlers, allFinallyStates, stackSize, mode>>
    BY DEF EndCatch
  <1> QED BY <1>2, <1>3, <1>4, InAnyMode, MovedOnlyStep DEF Keep, Modes

(* END_FINALLY resumes the completion that was saved.                      *)
LEMMA EndFinallyStep ==
    ASSUME AnyProgramInv, EndFinally
    PROVE  AnyProgramInv'
  <1> DEFINE state == Last(allFinallyStates)
  <1>1. {"finally"} \in SUBSET Codes /\ AtEndOf({"finally"}) /\ allFinallyStates # <<>>
    BY DEF Codes, EndFinally
  <1>2. /\ mode = "opcode" /\ Top > 0 /\ Top <= notified /\ Frame.height \in Nat
        /\ Front(Here) \in Positions
        /\ HandlerCount(Front(Here)) \in Nat /\ Here = Frame.pos
        /\ HandlerCount(Here) = HandlerCount(Front(Here)) + Weight(Last(Here).code)
        /\ Last(Here).code \in {"finally"}
    BY <1>1, AtRegionEnd
  <1>3. HandlerCount(Front(Here)) <= HandlerCount(Frame.pos)
    BY <1>2 DEF Weight, WithFinally
  <1>4. state \in Completions /\ Front(allFinallyStates) \in Seq(Completions)
    BY <1>1, InAnyMode, FrontAndLast
  <1>5. /\ callFrames' = SetTop(At(Front(Here), Frame.height))
        /\ allFinallyStates' = Front(allFinallyStates)
        /\ mode' = Resumed(state)
        /\ stackSize' = stackSize + ValuesPushed(state)
        /\ exception' = [exception EXCEPT ![Top] = @ \/ state.reason = "EXCEPTION"]
        /\ UNCHANGED <<allHandlers, notified, isFatalException>>
    BY DEF EndFinally, StatesLeft
  <1> HIDE DEF state
  <1>6. mode' \in {"opcode", "resume", "done"}
    BY <1>4, <1>5 DEF Resumed
  <1>7. stackSize' \in Int
    BY <1>5, InAnyMode DEF ValuesPushed
  <1>8. exception' \in [1 .. MaxFrames -> BOOLEAN]
    BY <1>5, InAnyMode
  <1> QED BY <1>2, <1>3, <1>4, <1>5, <1>6, <1>7, <1>8, InAnyMode, MovedOnlyStep DEF Modes

(* break and continue jump out of regions whose handlers stay behind,      *)
(* which is more than the new position needs.                              *)
LEMMA SkipStep ==
    ASSUME AnyProgramInv, NEW d \in 1 .. MaxRegions, Skip(d)
    PROVE  AnyProgramInv'
  <1>1. /\ mode = "opcode" /\ d \in DOMAIN Here
        /\ callFrames' = SetTop(At(SubSeq(Here, 1, d - 1), Here[d].h)) /\ Keep
        /\ UNCHANGED <<allHandlers, allFinallyStates, stackSize, mode>>
    BY DEF Skip, AtOpcode
  <1>2. /\ Top > 0 /\ Top <= notified /\ Here \in Positions /\ Here[d].h \in Nat
        /\ Here = Frame.pos
    BY <1>1, InAnyMode DEF Regions, Here
  <1>3. d - 1 \in 0 .. Len(Here)
    BY <1>1, <1>2, LenProperties DEF Positions
  <1>4. /\ SubSeq(Here, 1, d - 1) \in Positions
        /\ HandlerCount(SubSeq(Here, 1, d - 1)) <= HandlerCount(Frame.pos)
    BY <1>2, <1>3, CountOfPrefix
  <1> DEFINE p == SubSeq(Here, 1, d - 1)
             h == Here[d].h
  <1>5. p \in Positions /\ h \in Nat /\ callFrames' = SetTop(At(p, h))
        /\ HandlerCount(p) <= HandlerCount(Frame.pos)
    BY <1>1, <1>2, <1>4
  <1> HIDE DEF p, h
  <1> QED BY <1>1, <1>2, <1>5, InAnyMode, MovedOnlyStep DEF Keep, Modes

(* A return leaves the handlers to the end of the frame.                   *)
LEMMA ReturnStep ==
    ASSUME AnyProgramInv, Return
    PROVE  AnyProgramInv'
  <1>1. /\ mode = "opcode" /\ mode' = "done"
        /\ stackSize' = Min({stackSize, Frame.startStackCount})
                            + (IF Frame.value THEN 1 ELSE 0)
        /\ callFrames' = SetTop(At(Here, 0)) /\ Keep
        /\ UNCHANGED <<allHandlers, allFinallyStates>>
    BY DEF Return, AtOpcode
  <1>2. /\ Top > 0 /\ Top <= notified /\ Here \in Positions /\ Frame \in Frames
        /\ HandlerCount(Here) \in Nat /\ Here = Frame.pos
    BY <1>1, InAnyMode, CountOfPosition DEF Here
  <1>3. stackSize' \in Int
    <2>1. stackSize \in Int /\ Frame.startStackCount \in Int
      BY <1>2, InAnyMode DEF Frames
    <2>2. Min({stackSize, Frame.startStackCount}) \in Int
      BY <2>1, LeastOfTwo
    <2> QED BY <1>1, <2>2
  <1>4. HandlerCount(Here) <= HandlerCount(Frame.pos) /\ 0 \in Nat
    BY <1>2
  <1> QED BY <1>1, <1>2, <1>3, <1>4, InAnyMode, MovedOnlyStep DEF Keep, Modes

(* An error raised in a frame that is not running leaves an operand        *)
(* behind.                                                                 *)
LEMMA OperatorErrorUnnoticedStep ==
    ASSUME AnyProgramInv, OperatorErrorUnnoticed
    PROVE  AnyProgramInv'
  <1>1. /\ mode = "opcode" /\ mode' = "resume"
        /\ exception' = [exception EXCEPT ![notified] = TRUE]
        /\ callFrames' = SetTop(At(Here, Frame.height + 1))
        /\ UNCHANGED <<notified, allHandlers, allFinallyStates, stackSize, isFatalException>>
    BY DEF OperatorErrorUnnoticed, AtOpcode, Raise
  <1>2. /\ Top > 0 /\ Here \in Positions /\ Frame.height + 1 \in Nat
        /\ HandlerCount(Here) \in Nat /\ Here = Frame.pos
    BY <1>1, InAnyMode, CountOfPosition DEF Here
  <1>3. exception' \in [1 .. MaxFrames -> BOOLEAN]
    BY <1>1, InAnyMode
  <1> QED BY <1>1, <1>2, <1>3, InAnyMode, MovedOnlyStep DEF Modes

(***************************************************************************)
(* Steps that leave every frame where it is.                               *)
(***************************************************************************)
LEMMA SameFrames ==
    ASSUME AnyProgramInv, Top > 0,
           UNCHANGED <<callFrames, allHandlers, allFinallyStates, stackSize>>,
           exception' \in [1 .. MaxFrames -> BOOLEAN],
           notified' \in 1 .. MaxFrames, isFatalException' \in BOOLEAN,
           mode' \in Modes \ {"native"},
           mode' \in {"opcode", "catch", "done"} => Top <= notified',
           mode' # "catch"
    PROVE  AnyProgramInv'
  <1>1. Top' = Top
    BY DEF Top
  <1>2. HandlersSuffice'
    BY <1>1 DEF AnyProgramInv, HandlersSuffice, SegmentEnd
  <1>3. /\ callFrames' \in Seq(Frames) /\ allHandlers' \in Seq(Handlers)
        /\ allFinallyStates' \in Seq(Completions) /\ stackSize' \in Int
        /\ ~callFrames'[1].native
    BY DEF AnyProgramInv, TypeOK, FramesInv
  <1> QED BY <1>1, <1>2, <1>3, MovedInv

(* Steps that only raise or stop leave frames and handlers alone.          *)
LEMMA SameFramesSteps ==
    ASSUME AnyProgramInv,
           \/ OperandUnderflow \/ FinallyUnderflow \/ CallOverflow \/ NativeThrow
           \/ Throw \/ OperatorError \/ LimitExceeded \/ LoadException \/ Continue
    PROVE  AnyProgramInv'
  <1>1. /\ Top > 0
        /\ UNCHANGED <<callFrames, allHandlers, allFinallyStates, stackSize>>
        /\ mode' \in {"crashed", "undefined", "resume", "opcode"}
        /\ notified' \in {notified, Top} /\ isFatalException' \in {isFatalException, TRUE}
        /\ \/ exception' = exception
           \/ \E s \in 1 .. MaxFrames, b \in BOOLEAN : exception' = [exception EXCEPT ![s] = b]
        /\ mode' = "opcode" => Top <= notified'
    <2>0. /\ mode \in {"resume", "opcode", "catch", "native"}
          /\ mode \in {"resume", "opcode", "catch", "native"} => Top > 0
          /\ Top \in Nat /\ Top <= MaxFrames /\ MaxFrames \in Nat
          /\ notified \in 1 .. MaxFrames
          /\ mode = "catch" => Top <= notified
      BY InAnyMode DEF OperandUnderflow, FinallyUnderflow, CallOverflow, NativeThrow,
         Throw, OperatorError, LimitExceeded, LoadException, Continue, CodePops,
         AtOpcode, AtEndOf
    <2>00. Top \in 1 .. MaxFrames
      BY <2>0
    <2>1. CASE OperandUnderflow
      BY <2>0, <2>00, <2>1 DEF OperandUnderflow, CodePops, AtOpcode, Keep
    <2>2. CASE FinallyUnderflow
      BY <2>0, <2>00, <2>2 DEF FinallyUnderflow, AtEndOf, Keep
    <2>3. CASE CallOverflow
      BY <2>0, <2>00, <2>3 DEF CallOverflow, Raise
    <2>4. CASE NativeThrow
      BY <2>0, <2>00, <2>4 DEF NativeThrow, Raise
    <2>5. CASE Throw
      BY <2>0, <2>00, <2>5 DEF Throw, AtOpcode, Raise
    <2>6. CASE OperatorError
      BY <2>0, <2>00, <2>6 DEF OperatorError, AtOpcode, Raise
    <2>7. CASE LimitExceeded
      BY <2>0, <2>00, <2>7 DEF LimitExceeded, Raise
    <2>8. CASE LoadException
      BY <2>0, <2>00, <2>8 DEF LoadException
    <2>9. CASE Continue
      BY <2>0, <2>00, <2>9 DEF Continue
    <2> QED BY <2>1, <2>2, <2>3, <2>4, <2>5, <2>6, <2>7, <2>8, <2>9
  <1>2. /\ exception' \in [1 .. MaxFrames -> BOOLEAN]
        /\ notified' \in 1 .. MaxFrames /\ isFatalException' \in BOOLEAN
    <2>1. /\ exception \in [1 .. MaxFrames -> BOOLEAN] /\ notified \in 1 .. MaxFrames
          /\ isFatalException \in BOOLEAN /\ Top \in 1 .. MaxFrames
      BY <1>1, InAnyMode
    <2>2. exception' \in [1 .. MaxFrames -> BOOLEAN]
      BY <1>1, <2>1
    <2>3. notified' \in 1 .. MaxFrames /\ isFatalException' \in BOOLEAN
      BY <1>1, <2>1
    <2> QED BY <2>2, <2>3
  <1>3. /\ mode' \in Modes \ {"native"} /\ mode' # "catch"
        /\ mode' \in {"opcode", "catch", "done"} => Top <= notified'
    BY <1>1 DEF Modes
  <1> QED BY <1>1, <1>2, <1>3, SameFrames

(* A stuttering step keeps the invariant.                                  *)
LEMMA StoppedStep ==
    ASSUME AnyProgramInv, UNCHANGED vars
    PROVE  AnyProgramInv'
  <1>1. Top' = Top
    BY DEF Top, vars
  <1>2. HandlersSuffice'
    BY <1>1 DEF AnyProgramInv, HandlersSuffice, SegmentEnd, vars
  <1>3. TypeOK' /\ FramesInv' /\ NotifierInv' /\ CatchInv'
    BY <1>1 DEF AnyProgramInv, TypeOK, FramesInv, NotifierInv, CatchInv, Frame, vars
  <1> QED BY <1>2, <1>3 DEF AnyProgramInv

(***************************************************************************)
(* Calls.                                                                  *)
(***************************************************************************)
LEMMA CallStep ==
    ASSUME AnyProgramInv, Top > 0, RoomForFrame,
           NEW argc \in Nat, NEW value \in BOOLEAN, NEW boundary \in BOOLEAN,
           NEW native \in BOOLEAN,
           PushFrame(NewFrame(argc, value, boundary, native)),
           mode' = IF native THEN "native" ELSE "opcode"
    PROVE  AnyProgramInv'
  <1> DEFINE f == NewFrame(argc, value, boundary, native)
  <1>1. /\ Top \in Nat /\ Top < MaxFrames /\ MaxFrames \in Nat
        /\ Len(allHandlers) \in Nat /\ stackSize \in Int
        /\ callFrames \in Seq(Frames)
    BY InAnyMode, TopSuffices DEF RoomForFrame, AnyProgramInv, TypeOK
  <1>2. /\ f \in Frames /\ f.handlerIndex = Len(allHandlers) /\ f.pos = <<>>
        /\ f.native = native
    BY <1>1, EmptySeq DEF NewFrame, StartStackCount, Frames, Positions
  <1>3. /\ callFrames' = Append(callFrames, f)
        /\ exception' = [exception EXCEPT ![Top + 1] = FALSE]
        /\ notified' = Top + 1
        /\ UNCHANGED <<allHandlers, allFinallyStates, stackSize, isFatalException>>
    BY DEF PushFrame, NotifiedByCall
  <1> HIDE DEF f
  <1>4. HandlersSuffice' /\ Top' = Top + 1 /\ callFrames' \in Seq(Frames)
    BY <1>2, <1>3, PushedFrame DEF AnyProgramInv
  <1>5. callFrames'[1] = callFrames[1] /\ callFrames'[Top + 1] = f
    BY <1>1, <1>2, <1>3, AppendProperties DEF Top
  <1>6. Frame' = f
    BY <1>4, <1>5 DEF Frame
  <1>7. TypeOK'
    <2>1. exception' \in [1 .. MaxFrames -> BOOLEAN] /\ notified' \in 1 .. MaxFrames
      BY <1>1, <1>3, InAnyMode
    <2>2. mode' \in Modes
      BY DEF Modes
    <2> QED BY <1>1, <1>3, <1>4, <2>1, <2>2 DEF AnyProgramInv, TypeOK
  <1>8. FramesInv'
    <2>1. Top' > 0
      BY <1>1, <1>4
    <2>2. ~callFrames'[1].native
      BY <1>5 DEF AnyProgramInv, FramesInv
    <2>3. mode' = "native" => Frame'.native
      BY <1>2, <1>6
    <2> QED BY <2>1, <2>2, <2>3 DEF FramesInv
  <1>9. NotifierInv' /\ CatchInv'
    BY <1>1, <1>3, <1>4 DEF NotifierInv, CatchInv
  <1> QED BY <1>4, <1>7, <1>8, <1>9 DEF AnyProgramInv

(* Calls push a frame with its mark at the top of the handlers.            *)
LEMMA CallSteps ==
    ASSUME AnyProgramInv, NEW argc \in ArgCounts, NEW value \in BOOLEAN,
           \/ \E boundary \in BOOLEAN : CallScript(argc, value, boundary)
           \/ CallNative(argc, value) \/ NativeCallback(argc, value)
    PROVE  AnyProgramInv'
  <1>1. argc \in Nat
    BY UnwindingAssumption
  <1>2. ASSUME NEW boundary \in BOOLEAN, CallScript(argc, value, boundary)
        PROVE  AnyProgramInv'
    <2>1. /\ mode = "opcode" /\ RoomForFrame /\ mode' = "opcode"
          /\ PushFrame(NewFrame(argc, value, boundary, FALSE))
      BY <1>2 DEF CallScript, AtOpcode
    <2> QED BY <1>1, <2>1, InAnyMode, CallStep
  <1>3. CASE CallNative(argc, value)
    <2>1. /\ mode = "opcode" /\ RoomForFrame /\ mode' = "native"
          /\ PushFrame(NewFrame(argc, value, FALSE, TRUE))
      BY <1>3 DEF CallNative, AtOpcode
    <2> QED BY <1>1, <2>1, InAnyMode, CallStep
  <1>4. CASE NativeCallback(argc, value)
    <2>1. /\ mode = "native" /\ RoomForFrame /\ mode' = "opcode"
          /\ PushFrame(NewFrame(argc, value, TRUE, FALSE))
      BY <1>4 DEF NativeCallback
    <2> QED BY <1>1, <2>1, InAnyMode, CallStep
  <1> QED BY <1>2, <1>3, <1>4

(***************************************************************************)
(* The end of a frame.                                                     *)
(***************************************************************************)
\* The frames below the running one stay, but for the caller's height.
Popped ==
    /\ callFrames' \in Seq(Frames) /\ Len(callFrames') = Top - 1
    /\ \A k \in 1 .. Top - 1 :
          /\ callFrames'[k].handlerIndex = callFrames[k].handlerIndex
          /\ callFrames'[k].pos = callFrames[k].pos
          /\ callFrames'[k].native = callFrames[k].native

(* Unwinding pops the running frame and leaves the others.                 *)
LEMMA FrontIsPopped ==
    ASSUME AnyProgramInv, Top > 0, callFrames' = Front(callFrames)
    PROVE  Popped
  <1>1. callFrames \in Seq(Frames) /\ callFrames # <<>> /\ Top = Len(callFrames)
    BY EmptySeq DEF AnyProgramInv, TypeOK, Top
  <1>2. /\ Front(callFrames) \in Seq(Frames) /\ Len(Front(callFrames)) = Len(callFrames) - 1
        /\ \A i \in 1 .. Len(callFrames) - 1 : Front(callFrames)[i] = callFrames[i]
    BY <1>1, FrontAndLast
  <1> QED BY <1>1, <1>2 DEF Popped

(* So does a return, which may leave a value with the caller.              *)
LEMMA PopFrameIsPopped ==
    ASSUME AnyProgramInv, Top > 1, NEW value \in BOOLEAN, PopFrame(value)
    PROVE  Popped
  <1> DEFINE fs == Front(callFrames)
             n == Top - 1
             add == IF value /\ ~callFrames[n].native THEN 1 ELSE 0
             g == [fs[n] EXCEPT !.height = callFrames[n].height + add]
  <1>1. callFrames \in Seq(Frames) /\ callFrames # <<>> /\ Top \in Nat
    BY EmptySeq, TopIsRunning DEF AnyProgramInv, TypeOK, Top
  <1>2. /\ fs \in Seq(Frames) /\ Len(fs) = n
        /\ \A i \in 1 .. n : fs[i] = callFrames[i]
    BY <1>1, FrontAndLast DEF Top
  <1>3. callFrames' = [fs EXCEPT ![n] = g]
    BY DEF PopFrame
  <1>4. n \in 1 .. Len(fs) /\ callFrames[n] \in Frames /\ fs[n] = callFrames[n]
    BY <1>1, <1>2, TopIsRunning DEF AnyProgramInv
  <1>5. /\ g \in Frames /\ g.handlerIndex = callFrames[n].handlerIndex
        /\ g.pos = callFrames[n].pos /\ g.native = callFrames[n].native
    BY <1>4 DEF Frames
  <1> HIDE DEF fs, g, n
  <1>6. /\ callFrames' \in Seq(Frames) /\ Len(callFrames') = n
        /\ \A k \in 1 .. n : callFrames'[k] = IF k = n THEN g ELSE fs[k]
    BY <1>2, <1>3, <1>4, <1>5, ExceptSeq
  <1>7. ASSUME NEW k \in 1 .. n
        PROVE  /\ callFrames'[k].handlerIndex = callFrames[k].handlerIndex
               /\ callFrames'[k].pos = callFrames[k].pos
               /\ callFrames'[k].native = callFrames[k].native
    BY <1>2, <1>5, <1>6
  <1> QED BY <1>6, <1>7 DEF Popped, n

(* Popping the running frame and its handlers keeps the invariant.         *)
LEMMA PoppedInv ==
    ASSUME AnyProgramInv, Top > 0, Popped,
           NEW n \in Frame.handlerIndex .. Len(allHandlers),
           allHandlers' = SubSeq(allHandlers, 1, n),
           exception' \in [1 .. MaxFrames -> BOOLEAN],
           notified' \in 1 .. MaxFrames,
           UNCHANGED allFinallyStates, stackSize' \in Int,
           UNCHANGED isFatalException,
           mode' \in Modes \ {"catch", "done"},
           mode' \in {"resume", "opcode", "native"} => Top > 1,
           mode' = "native" => callFrames[Top - 1].native,
           mode' \in {"opcode", "native"} => Top - 1 <= notified'
    PROVE  AnyProgramInv'
  <1>1. /\ Top \in Nat /\ Top <= MaxFrames /\ MaxFrames \in Nat
        /\ Frame.handlerIndex \in Nat /\ Len(allHandlers) \in Nat
        /\ allHandlers \in Seq(Handlers)
    BY InAnyMode, TopSuffices DEF AnyProgramInv, TypeOK
  <1>2. HandlersSuffice' /\ Top' = Top - 1
    BY PoppedFrame DEF AnyProgramInv, Popped
  <1>3. allHandlers' \in Seq(Handlers)
    BY <1>1, Prefix
  <1>4. TypeOK'
    BY <1>1, <1>2, <1>3 DEF AnyProgramInv, TypeOK, Popped
  <1>5. FramesInv'
    <2>1. Top' > 0 => ~callFrames'[1].native
      BY <1>1, <1>2 DEF AnyProgramInv, FramesInv, Popped
    <2>2. mode' \in {"resume", "opcode", "native"} => Top' > 0
      BY <1>1, <1>2
    <2>3. mode' = "native" => Frame'.native
      <3>1. Frame' = callFrames'[Top - 1]
        BY <1>2 DEF Frame
      <3> QED BY <1>1, <3>1 DEF Popped
    <2> QED BY <2>1, <2>2, <2>3 DEF FramesInv
  <1>6. NotifierInv' /\ CatchInv'
    BY <1>2 DEF NotifierInv, CatchInv
  <1> QED BY <1>2, <1>4, <1>5, <1>6 DEF AnyProgramInv

(* Popping no handler is popping down to the top.                          *)
LEMMA WholeStack ==
    ASSUME AnyProgramInv, Top > 0
    PROVE  /\ Len(allHandlers) \in Frame.handlerIndex .. Len(allHandlers)
           /\ Frame.handlerIndex \in Frame.handlerIndex .. Len(allHandlers)
           /\ SubSeq(allHandlers, 1, Len(allHandlers)) = allHandlers
  BY TopSuffices, SubSeqFull DEF AnyProgramInv, TypeOK

(* A native function returns to its caller, with or without an error.      *)
LEMMA NativeReturnSteps ==
    ASSUME AnyProgramInv, NativeReturn \/ NativeThrowUnnoticed
    PROVE  AnyProgramInv'
  <1>1. /\ mode = "native" /\ PopFrame(Frame.value) /\ notified' = Top - 1
        /\ mode' = "opcode" /\ UNCHANGED <<allHandlers, allFinallyStates, isFatalException>>
        /\ stackSize' = stackSize + (IF Frame.value THEN 1 ELSE 0)
        /\ exception' = exception \/ exception' = [exception EXCEPT ![notified] = TRUE]
    BY DEF NativeReturn, NativeThrowUnnoticed, Raise
  <1>2. /\ Top \in Nat /\ Top > 0 /\ Frame.native /\ ~callFrames[1].native
        /\ Top <= MaxFrames /\ MaxFrames \in Nat
        /\ stackSize \in Int /\ Frame \in Frames
        /\ exception \in [1 .. MaxFrames -> BOOLEAN] /\ notified \in 1 .. MaxFrames
    BY <1>1, InAnyMode DEF AnyProgramInv, FramesInv
  <1>3. Top > 1
    BY <1>2 DEF Frame
  <1>4. Frame.value \in BOOLEAN
    BY <1>2 DEF Frames
  <1>5. Popped
    BY <1>1, <1>3, <1>4, PopFrameIsPopped
  <1>6. /\ stackSize' \in Int /\ notified' \in 1 .. MaxFrames
        /\ exception' \in [1 .. MaxFrames -> BOOLEAN]
    <2>1. stackSize' \in Int /\ notified' \in 1 .. MaxFrames
      BY <1>1, <1>2, <1>3
    <2>2. exception' \in [1 .. MaxFrames -> BOOLEAN]
      BY <1>1, <1>2
    <2> QED BY <2>1, <2>2
  <1>7. allHandlers' = SubSeq(allHandlers, 1, Len(allHandlers))
    BY <1>1, <1>2, WholeStack
  <1> QED BY <1>1, <1>2, <1>3, <1>5, <1>6, <1>7, WholeStack, PoppedInv DEF Modes

(* A frame without a handler left is popped with the exception raised in   *)
(* its caller.                                                             *)
LEMMA UnwindFrameStep ==
    ASSUME AnyProgramInv, UnwindFrame
    PROVE  AnyProgramInv'
  <1>1. /\ mode = "resume" /\ callFrames' = Front(callFrames)
        /\ allHandlers' = SubSeq(allHandlers, 1, Frame.handlerIndex)
        /\ stackSize' = Min({stackSize, Frame.startStackCount})
        /\ UNCHANGED <<notified, allFinallyStates, isFatalException>>
        /\ IF Top = 1 THEN mode' = "error" /\ exception' = exception
                      ELSE mode' = "resume" /\ exception' = [exception EXCEPT ![Top - 1] = TRUE]
    BY DEF UnwindFrame, Pending, HandlersLeft, FramesLeft, Raise
  <1>2. /\ Top \in Nat /\ Top > 0 /\ Frame \in Frames /\ stackSize \in Int
        /\ exception \in [1 .. MaxFrames -> BOOLEAN] /\ notified \in 1 .. MaxFrames
    BY <1>1, InAnyMode
  <1>3. stackSize' \in Int
    <2>1. Frame.startStackCount \in Int
      BY <1>2 DEF Frames
    <2> QED BY <1>1, <1>2, <2>1, LeastOfTwo
  <1>4. Popped
    BY <1>1, <1>2, FrontIsPopped
  <1>5. exception' \in [1 .. MaxFrames -> BOOLEAN]
    BY <1>1, <1>2
  <1>6. mode' \in {"error", "resume"} /\ (mode' = "resume" => Top > 1)
    BY <1>1, <1>2
  <1> QED BY <1>1, <1>2, <1>3, <1>4, <1>5, <1>6, WholeStack, PoppedInv DEF Modes

(* A frame that is done is popped with the handlers above its mark.        *)
LEMMA ReturnToCallerStep ==
    ASSUME AnyProgramInv, ReturnToCaller
    PROVE  AnyProgramInv'
  <1>1. /\ mode = "done" /\ Top > 1 /\ PopFrame(Frame.value)
        /\ allHandlers' = SubSeq(allHandlers, 1, Frame.handlerIndex)
        /\ \E taken \in {0, 1} : stackSize' = stackSize - taken
        /\ mode' \in {"resume", "native", "opcode"}
        /\ mode' = "native" => callFrames[Top - 1].native
        /\ UNCHANGED <<exception, notified, isFatalException, allFinallyStates>>
    BY DEF ReturnToCaller, HandlersLeft, Keep
  <1>2. /\ Top \in Nat /\ Top <= notified /\ Frame \in Frames /\ stackSize \in Int
        /\ exception \in [1 .. MaxFrames -> BOOLEAN] /\ notified \in 1 .. MaxFrames
    BY <1>1, InAnyMode
  <1>3. Frame.value \in BOOLEAN /\ stackSize' \in Int
    BY <1>1, <1>2 DEF Frames
  <1>4. Popped
    BY <1>1, <1>3, PopFrameIsPopped
  <1>5. Top - 1 <= notified'
    BY <1>1, <1>2
  <1> QED BY <1>1, <1>2, <1>3, <1>4, <1>5, WholeStack, PoppedInv DEF Modes

(* The main function's end leaves no frame and no handler.                 *)
LEMMA HaltStep ==
    ASSUME AnyProgramInv, Halt
    PROVE  AnyProgramInv'
  <1>1. /\ Top = 1 /\ callFrames' = <<>> /\ mode' = "halted"
        /\ allHandlers' = SubSeq(allHandlers, 1, Frame.handlerIndex)
        /\ UNCHANGED <<exception, notified, isFatalException, allFinallyStates, stackSize>>
    BY DEF Halt, HandlersLeft, Keep
  <1>2. Popped
    BY <1>1, EmptySeq DEF Popped
  <1> QED BY <1>1, <1>2, InAnyMode, WholeStack, PoppedInv DEF Modes

(***************************************************************************)
(* Unwinding and returning to a handler.                                   *)
(***************************************************************************)
LEMMA ToHandler ==
    ASSUME AnyProgramInv, Top > 0,
           NEW i \in Frame.handlerIndex + 1 .. Len(allHandlers)
    PROVE  /\ allHandlers[i] \in Handlers
           /\ allHandlers[i].target \in Positions
           /\ Last(allHandlers[i].target).h \in Nat
           /\ i - 1 \in Frame.handlerIndex .. Len(allHandlers)
           /\ Frame.handlerIndex + HandlerCount(allHandlers[i].target) <= i - 1
  <1>1. /\ Frame.handlerIndex \in Nat /\ Len(allHandlers) \in Nat
        /\ Suffices(allHandlers, Frame.handlerIndex, Len(allHandlers), Frame.pos)
    BY TopSuffices DEF AnyProgramInv
  <1>2. i \in 1 .. Len(allHandlers)
    BY <1>1
  <1>3. allHandlers[i] \in Handlers
    BY <1>2, TopIsRunning DEF AnyProgramInv
  <1>4. allHandlers[i].target \in Positions /\ allHandlers[i].target # <<>>
    BY <1>3 DEF Handlers
  <1>5. Last(allHandlers[i].target).h \in Nat
    <2>1. Last(allHandlers[i].target) \in Regions
      BY <1>4, FrontAndLast DEF Positions
    <2> QED BY <2>1 DEF Regions
  <1>6. Frame.handlerIndex + HandlerCount(allHandlers[i].target) <= i - 1
    BY <1>1 DEF Suffices
  <1> QED BY <1>1, <1>3, <1>4, <1>5, <1>6

(* Unwinding to a handler pops it and goes where it aims.                  *)
LEMMA UnwindToHandlerSteps ==
    ASSUME AnyProgramInv, UnwindToCatch \/ UnwindToFinally
    PROVE  AnyProgramInv'
  <1> DEFINE i == Len(allHandlers)
             p == allHandlers[i].target
             h == Last(p).h
  <1>1. /\ mode = "resume" /\ exception[Top] /\ Len(allHandlers) > Frame.handlerIndex
        /\ callFrames' = SetTop(At(p, h))
        /\ allHandlers' = SubSeq(allHandlers, 1, i - 1)
        /\ notified' = Top /\ UNCHANGED <<stackSize, isFatalException>>
    BY DEF UnwindToCatch, UnwindToFinally, Pending, MayHandle, FrameHasHandler, Last, Front
  <1>2. /\ Top \in Nat /\ Top > 0 /\ Top <= MaxFrames /\ MaxFrames \in Nat
        /\ Frame.handlerIndex \in Nat /\ Len(allHandlers) \in Nat
    BY <1>1, InAnyMode, TopSuffices DEF AnyProgramInv
  <1>3. i \in Frame.handlerIndex + 1 .. Len(allHandlers)
    BY <1>1, <1>2
  <1>4. /\ p \in Positions /\ h \in Nat /\ i - 1 \in Frame.handlerIndex .. Len(allHandlers)
        /\ Frame.handlerIndex + HandlerCount(p) <= i - 1
    BY <1>2, <1>3, ToHandler
  <1>5. /\ allFinallyStates' \in Seq(Completions)
        /\ exception' \in [1 .. MaxFrames -> BOOLEAN]
        /\ mode' \in {"catch", "opcode"} /\ (mode' = "catch" => exception'[Top])
    <2>1. CASE UnwindToCatch
      BY <1>1, <2>1, InAnyMode DEF UnwindToCatch
    <2>2. CASE UnwindToFinally
      <3>1. allFinallyStates' = Append(allFinallyStates, FinallyState("EXCEPTION", p, FALSE))
        BY <2>2 DEF UnwindToFinally, PushFinallyState, Last
      <3>2. exception' = [exception EXCEPT ![Top] = FALSE] /\ mode' = "opcode"
        BY <2>2 DEF UnwindToFinally
      <3> HIDE DEF p
      <3> QED BY <1>4, <3>1, <3>2, CompletionTypes, InAnyMode
    <2> QED BY <2>1, <2>2
  <1> DEFINE m == i - 1
  <1>6. /\ m \in Frame.handlerIndex .. Len(allHandlers)
        /\ Frame.handlerIndex + HandlerCount(p) <= m
        /\ allHandlers' = SubSeq(allHandlers, 1, m)
    BY <1>1, <1>4
  <1>7. /\ notified' \in 1 .. MaxFrames /\ Top <= notified'
        /\ stackSize' \in Int /\ isFatalException' \in BOOLEAN
    BY <1>1, <1>2, InAnyMode
  <1>8. mode' \in Modes \ {"native"}
    BY <1>5 DEF Modes
  <1> HIDE DEF p, h, i, m
  <1> QED BY <1>1, <1>2, <1>4, <1>5, <1>6, <1>7, <1>8, MovedStep

(* A return goes through the nearest finally, popping the handlers above   *)
(* it.                                                                     *)
LEMMA ReturnThroughFinallyStep ==
    ASSUME AnyProgramInv, ReturnThroughFinally
    PROVE  AnyProgramInv'
  <1> DEFINE i == NextFinal
             p == allHandlers[i].target
             h == Last(p).h
             saved == stackSize > Frame.startStackCount
             reason == IF saved THEN "RETURN_VALUE" ELSE "RETURN_VOID"
             kept == Frame.value /\ ~saved
  <1>1. /\ mode = "done" /\ mode' = "resume" /\ Finals # {}
        /\ callFrames' = SetTop(At(p, h))
        /\ allHandlers' = SubSeq(allHandlers, 1, i - 1)
        /\ stackSize' = IF saved THEN stackSize - 1 ELSE stackSize
        /\ allFinallyStates' = Append(allFinallyStates, FinallyState(reason, p, kept))
        /\ Keep
    BY DEF ReturnThroughFinally, PushFinallyState
  <1>2. /\ Top > 0 /\ Frame.handlerIndex \in Nat /\ Len(allHandlers) \in Nat
        /\ stackSize \in Int
    BY <1>1, InAnyMode, TopSuffices DEF AnyProgramInv
  <1>3. i \in Frame.handlerIndex + 1 .. Len(allHandlers)
    <2>1. Finals \in SUBSET (0 .. Len(allHandlers))
      BY <1>2 DEF Finals
    <2>2. i \in Finals
      BY <1>1, <1>2, <2>1, GreatestNumber DEF NextFinal
    <2> QED BY <2>2 DEF Finals
  <1>4. /\ p \in Positions /\ h \in Nat /\ i - 1 \in Frame.handlerIndex .. Len(allHandlers)
        /\ Frame.handlerIndex + HandlerCount(p) <= i - 1
    BY <1>2, <1>3, ToHandler
  <1>5. kept \in BOOLEAN /\ reason \in {"RETURN_VALUE", "RETURN_VOID"} /\ stackSize' \in Int
    BY <1>1, <1>2
  <1> DEFINE m == i - 1
  <1>6. /\ m \in Frame.handlerIndex .. Len(allHandlers)
        /\ Frame.handlerIndex + HandlerCount(p) <= m
        /\ allHandlers' = SubSeq(allHandlers, 1, m)
    BY <1>1, <1>4
  <1> HIDE DEF p, h, i, m, saved, reason, kept
  <1>7. allFinallyStates' \in Seq(Completions)
    BY <1>1, <1>4, <1>5, CompletionTypes
  <1> QED BY <1>1, <1>2, <1>4, <1>5, <1>6, <1>7, InAnyMode, MovedStep DEF Keep, Modes

(***************************************************************************)
(* The invariant of every program.                                         *)
(***************************************************************************)
(* AVM::run pushes the main function's frame and nothing else.             *)
LEMMA AnyProgramInit == Init => AnyProgramInv
  <1> SUFFICES ASSUME Init PROVE AnyProgramInv
    OBVIOUS
  <1> DEFINE main == [pos |-> <<>>, height |-> 0, startStackCount |-> 0,
                      handlerIndex |-> 0, value |-> FALSE,
                      boundary |-> TRUE, native |-> FALSE]
  <1>1. /\ callFrames = <<main>> /\ Top = 1 /\ callFrames[1] = main /\ Frame = main
        /\ allHandlers = <<>> /\ Len(allHandlers) = 0 /\ mode = "opcode" /\ notified = 1
    BY DEF Init, Top, Frame
  <1>2. /\ main \in Frames /\ main.handlerIndex = 0 /\ main.pos = <<>>
        /\ main.native = FALSE
    <2>1. <<>> \in Positions
      BY DEF Positions
    <2> QED BY <2>1 DEF Frames
  <1>3. MaxFrames \in Nat /\ 1 <= MaxFrames
    BY UnwindingAssumption
  <1> HIDE DEF main
  <1>4. TypeOK
    <2>1. callFrames \in Seq(Frames) /\ allHandlers \in Seq(Handlers)
      BY <1>1, <1>2
    <2>2. /\ exception \in [1 .. MaxFrames -> BOOLEAN]
          /\ allFinallyStates \in Seq(Completions) /\ stackSize \in Int
          /\ isFatalException \in BOOLEAN
      <3>1. /\ exception = [s \in 1 .. MaxFrames |-> FALSE] /\ allFinallyStates = <<>>
            /\ stackSize = 0 /\ isFatalException = FALSE
        BY DEF Init
      <3>2. exception \in [1 .. MaxFrames -> BOOLEAN]
        BY <3>1
      <3>3. allFinallyStates \in Seq(Completions)
        BY <3>1
      <3>4. stackSize \in Int
        BY <3>1
      <3>5. isFatalException \in BOOLEAN
        BY <3>1
      <3> QED BY <3>2, <3>3, <3>4, <3>5
    <2> QED BY <1>1, <1>3, <2>1, <2>2 DEF TypeOK, Modes
  <1>5. FramesInv /\ NotifierInv /\ CatchInv
    BY <1>1, <1>2 DEF FramesInv, NotifierInv, CatchInv
  <1>6. HandlersSuffice
    <2>1. Suffices(allHandlers, 0, 0, <<>>)
      BY CountOfNowhere DEF Suffices
    <2>2. 1 .. Top = {1} /\ SegmentEnd(1) = 0
      BY <1>1 DEF SegmentEnd
    <2> QED BY <1>1, <1>2, <2>1, <2>2 DEF HandlersSuffice
  <1> QED BY <1>4, <1>5, <1>6 DEF AnyProgramInv

(* Every step of resume() and of the native calls keeps it.                *)
LEMMA AnyProgramNext == AnyProgramInv /\ [Next]_vars => AnyProgramInv'
  <1> SUFFICES ASSUME AnyProgramInv, [Next]_vars PROVE AnyProgramInv'
    OBVIOUS
  <1>1. CASE Execute
    <2>1. CASE PushOperand \/ PopOperand
      BY <2>1, OperandSteps
    <2>2. CASE \E code \in Tries : EnterTry(code)
      BY <2>2, EnterTryStep
    <2>3. CASE RemoveTryAndJump \/ EndCatch \/ RemoveFinally \/ EndFinally
      BY <2>3, RemoveTryStep, EndCatchStep, RemoveFinallyStep, EndFinallyStep
    <2>4. CASE \E d \in 1 .. MaxRegions : Skip(d)
      BY <2>4, SkipStep
    <2>5. CASE \E argc \in ArgCounts, value \in BOOLEAN, boundary \in BOOLEAN :
                  CallScript(argc, value, boundary)
      BY <2>5, CallSteps
    <2>6. CASE \E argc \in ArgCounts, value \in BOOLEAN :
                  CallNative(argc, value) \/ NativeCallback(argc, value)
      BY <2>6, CallSteps
    <2>7. CASE NativeReturn \/ NativeThrowUnnoticed
      BY <2>7, NativeReturnSteps
    <2>8. CASE \/ OperandUnderflow \/ FinallyUnderflow \/ CallOverflow \/ NativeThrow
               \/ Throw \/ OperatorError \/ LimitExceeded \/ LoadException
      BY <2>8, SameFramesSteps
    <2>9. CASE OperatorErrorUnnoticed \/ Return
      BY <2>9, OperatorErrorUnnoticedStep, ReturnStep
    <2> QED BY <1>1, <2>1, <2>2, <2>3, <2>4, <2>5, <2>6, <2>7, <2>8, <2>9 DEF Execute
  <1>2. CASE Unwind
    BY <1>2, UnwindToHandlerSteps, UnwindFrameStep, SameFramesSteps,
       ReturnThroughFinallyStep, ReturnToCallerStep, HaltStep DEF Unwind
  <1>3. CASE UNCHANGED vars
    BY <1>3, StoppedStep
  <1> QED BY <1>1, <1>2, <1>3 DEF Next, Stopped

(* The invariant holds of every program, structured or not                 *)
(* (AVM_run_switch.cpp).                                                   *)
THEOREM AnyProgram == Spec => []AnyProgramInv
  <1> QED BY AnyProgramInit, AnyProgramNext, PTL DEF Spec

(***************************************************************************)
(* What follows for every program.                                         *)
(***************************************************************************)
(* The assert()s before allHandlers.pop_back() of REMOVE_TRY_AND_JUMP and  *)
(* REMOVE_FINALLY_AND_JUMP, and LOAD_EXCEPTION's, hold whatever breaks,    *)
(* returns and exceptions left on the handler stack.                       *)
THEOREM HandlersNeverUnderflow == Spec => []HandlerAssertsHold
  <1>1. ASSUME AnyProgramInv PROVE HandlerAssertsHold
    <2>1. ASSUME AtEndOf(Tries \cup WithFinally)
          PROVE  Len(allHandlers) > Frame.handlerIndex
      <3>1. Tries \cup WithFinally \in SUBSET Codes
        BY DEF Tries, WithFinally, Codes
      <3>2. /\ Last(Here).code \in Tries \cup WithFinally
            /\ HandlerCount(Front(Here)) \in Nat
            /\ HandlerCount(Here) = HandlerCount(Front(Here)) + Weight(Last(Here).code)
            /\ Frame.handlerIndex \in Nat /\ Len(allHandlers) \in Nat
            /\ Frame.handlerIndex + HandlerCount(Here) <= Len(allHandlers)
        BY <1>1, <2>1, <3>1, AtRegionEnd
      <3>3. Weight(Last(Here).code) \in Nat \ {0}
        BY <3>2 DEF Weight, Tries, WithFinally
      <3> HIDE DEF Frame, Here
      <3> QED BY <3>2, <3>3
    <2> QED BY <1>1, <2>1 DEF AnyProgramInv, CatchInv, HandlerAssertsHold
  <1> QED BY AnyProgram, <1>1, PTL

(* A call that finds the pool of call frames full (AVM.cpp, the            *)
(* callFunction family) raises its fatal error in the calling frame: the   *)
(* notifier is never below it.                                             *)
LEMMA CallerIsNotified ==
    ASSUME AnyProgramInv PROVE OverflowReachesCaller
  <1>1. /\ Top \in Nat /\ Top <= MaxFrames /\ MaxFrames \in Nat
        /\ notified \in 1 .. MaxFrames
    BY InAnyMode
  <1> QED BY <1>1 DEF AnyProgramInv, NotifierInv, OverflowReachesCaller, RoomForFrame

(* The overflow of the frame pool is raised in the frame that made the     *)
(* call, and not in one that is gone (AVM.cpp).                            *)
THEOREM OverflowIsNoticed == Spec => []OverflowReachesCaller
  <1> QED BY AnyProgram, CallerIsNotified, PTL

(***************************************************************************)
(* Programs in which no native error or limit follows the call of a        *)
(* function object: the notifier then points at the running frame whenever *)
(* an exception is raised.                                                 *)
(***************************************************************************)
FatalInv ==
    isFatalException => \/ mode = "error"
                        \/ mode = "resume" /\ exception[Top]

(* resume() tests isFatalException before it looks at a handler: the error *)
(* of a limit unwinds every frame.                                         *)
LEMMA FatalNext ==
    ASSUME "throwAfterCallback" \notin Uses, AnyProgramInv, FatalInv, [Next]_vars
    PROVE  FatalInv'
  <1>1. /\ Top \in Nat /\ Top <= MaxFrames /\ MaxFrames \in Nat
        /\ exception \in [1 .. MaxFrames -> BOOLEAN] /\ notified \in 1 .. MaxFrames
        /\ isFatalException \in BOOLEAN
        /\ mode \in {"resume", "opcode", "catch", "done", "native"} => Top > 0
    BY InAnyMode
  <1>2. ~NotifierMayBeStale
    BY DEF NotifierMayBeStale
  <1>3. CASE CallOverflow \/ LimitExceeded
    <2>1. mode' = "resume" /\ UNCHANGED callFrames /\ Raise(notified) /\ Top > 0
      BY <1>1, <1>3 DEF CallOverflow, LimitExceeded
    <2>2. notified = Top
      <3>1. CASE CallOverflow
        BY <3>1, CallerIsNotified DEF CallOverflow, OverflowReachesCaller
      <3>2. CASE LimitExceeded
        BY <1>2, <3>2 DEF LimitExceeded
      <3> QED BY <1>3, <3>1, <3>2
    <2>3. Top' = Top
      BY <2>1 DEF Top
    <2>4. exception'[Top]
      BY <1>1, <2>1, <2>2 DEF Raise
    <2> QED BY <2>1, <2>3, <2>4 DEF FatalInv
  <1>4. CASE UnwindFrame
    <2>1. CASE Top = 1
      BY <1>4, <2>1 DEF UnwindFrame, FatalInv
    <2>2. CASE Top # 1
      <3>1. Top > 1 /\ Top - 1 \in 1 .. MaxFrames
        BY <1>1, <1>4, <2>2 DEF UnwindFrame, Pending
      <3>2. /\ mode' = "resume" /\ callFrames' = Front(callFrames)
            /\ exception' = [exception EXCEPT ![Top - 1] = TRUE]
        BY <1>4, <2>2 DEF UnwindFrame, FramesLeft, Raise
      <3>3. Top' = Top - 1
        <4>1. callFrames \in Seq(Frames) /\ callFrames # <<>>
          BY <3>1, EmptySeq DEF AnyProgramInv, TypeOK, Top
        <4> QED BY <3>2, <4>1, FrontAndLast DEF Top
      <3>4. exception'[Top - 1]
        BY <1>1, <3>1, <3>2
      <3> QED BY <3>2, <3>3, <3>4 DEF FatalInv
    <2> QED BY <2>1, <2>2
  <1>5. CASE UNCHANGED vars
    BY <1>5 DEF vars, FatalInv, Top
  <1>6. CASE /\ ~(CallOverflow \/ LimitExceeded \/ UnwindFrame)
             /\ Execute \/ Unwind
    <2>1. isFatalException' = isFatalException
      BY <1>6 DEF Execute, Unwind, PushOperand, PopOperand, OperandUnderflow, EnterTry,
         RemoveTryAndJump, EndCatch, RemoveFinally, EndFinally, FinallyUnderflow, Skip,
         CallScript, CallNative, NativeCallback, PushFrame, NativeReturn, NativeThrow,
         NativeThrowUnnoticed, Throw, OperatorError, OperatorErrorUnnoticed,
         LoadException, Return, Keep, UnwindToCatch, UnwindToFinally, Continue,
         ReturnThroughFinally, ReturnToCaller, Halt
    <2>2. ~isFatalException
      <3>1. Execute => mode \in {"opcode", "catch", "native"}
        BY DEF Execute, PushOperand, PopOperand, OperandUnderflow, EnterTry,
           RemoveTryAndJump, EndCatch, RemoveFinally, EndFinally, FinallyUnderflow, Skip,
           CallScript, CallNative, NativeCallback, CallOverflow, NativeReturn, NativeThrow,
           NativeThrowUnnoticed, Throw, OperatorError, OperatorErrorUnnoticed,
           LimitExceeded, LoadException, Return, CodePops, AtOpcode, AtEndOf
      <3>2. Unwind /\ ~UnwindFrame =>
               \/ mode = "done"
               \/ mode = "resume" /\ ~exception[Top]
               \/ ~isFatalException
        <4>1. UnwindToCatch \/ UnwindToFinally => ~isFatalException
          BY DEF UnwindToCatch, UnwindToFinally, MayHandle
        <4>2. Continue => mode = "resume" /\ ~exception[Top]
          BY DEF Continue
        <4>3. ReturnThroughFinally \/ ReturnToCaller \/ Halt => mode = "done"
          BY DEF ReturnThroughFinally, ReturnToCaller, Halt
        <4>4. Unwind => \/ UnwindToCatch \/ UnwindToFinally \/ UnwindFrame \/ Continue
                        \/ ReturnThroughFinally \/ ReturnToCaller \/ Halt
          BY DEF Unwind
        <4> QED BY <4>1, <4>2, <4>3, <4>4
      <3> QED BY <1>6, <3>1, <3>2 DEF FatalInv
    <2> QED BY <2>1, <2>2 DEF FatalInv
  <1> QED BY <1>3, <1>4, <1>5, <1>6 DEF Next, Stopped

(* After a limit was exceeded (AVM_run_switch.cpp, the tests before an     *)
(* opcode, and a call without a free frame) no opcode is executed again.   *)
THEOREM FatalErrorsAreFinal ==
    ASSUME "throwAfterCallback" \notin Uses PROVE Spec => []FatalIsFinal
  <1>1. Init => FatalInv
    BY DEF Init, FatalInv
  <1>2. AnyProgramInv /\ FatalInv /\ [Next]_vars => FatalInv'
    BY FatalNext
  <1>3. FatalInv => FatalIsFinal
    BY DEF FatalInv, FatalIsFinal
  <1> QED BY AnyProgram, <1>1, <1>2, <1>3, PTL DEF Spec

(* The steps that raise an exception raise it in the frame that runs next. *)
LEMMA RaisedInRunningFrame ==
    ASSUME "throwAfterCallback" \notin Uses, AnyProgramInv, Next,
           NEW s \in 1 .. MaxFrames, exception'[s], ~exception[s]
    PROVE  s = Len(callFrames') \/ mode' = "error"
  <1>1. /\ Top \in Nat /\ Top <= MaxFrames /\ MaxFrames \in Nat
        /\ exception \in [1 .. MaxFrames -> BOOLEAN] /\ notified \in 1 .. MaxFrames
        /\ mode \in {"resume", "opcode", "catch", "done", "native"} => Top > 0
        /\ callFrames \in Seq(Frames)
    BY InAnyMode DEF AnyProgramInv, TypeOK
  <1>2. ~NotifierMayBeStale
    BY DEF NotifierMayBeStale
  <1>3. CASE UnwindFrame
    <2>1. /\ Top > 0 /\ callFrames' = Front(callFrames)
          /\ Top = 1 => mode' = "error"
          /\ Top # 1 => exception' = [exception EXCEPT ![Top - 1] = TRUE]
      BY <1>1, <1>3 DEF UnwindFrame, Pending, FramesLeft, Raise
    <2>2. Len(callFrames') = Top - 1
      BY <1>1, <2>1, EmptySeq, FrontAndLast DEF Top
    <2>3. Top # 1 => s = Top - 1
      BY <1>1, <2>1
    <2> QED BY <2>1, <2>2, <2>3
  <1>4. CASE EndFinally
    <2>1. /\ callFrames' = SetTop(At(Front(Here), Frame.height)) /\ mode = "opcode"
          /\ \E b \in BOOLEAN : exception' = [exception EXCEPT ![Top] = b]
      <3>1. DEFINE b == exception[Top] \/ Last(allFinallyStates).reason = "EXCEPTION"
      <3>2. b \in BOOLEAN
        OBVIOUS
      <3>3. exception' = [exception EXCEPT ![Top] = b]
        BY <1>4 DEF EndFinally
      <3> QED BY <1>4, <3>2, <3>3 DEF EndFinally, AtEndOf
    <2>2. Len(callFrames') = Top
      BY <1>1, <2>1, ExceptSeq DEF SetTop, Top
    <2>3. s = Top
      BY <1>1, <2>1
    <2> QED BY <2>2, <2>3
  <1>5. CASE CallOverflow \/ NativeThrow \/ Throw \/ OperatorError \/ LimitExceeded
    <2>1. callFrames' = callFrames
      BY <1>5 DEF CallOverflow, NativeThrow, Throw, OperatorError, LimitExceeded
    <2>2. exception' = [exception EXCEPT ![Top] = TRUE]
      <3>1. CASE CallOverflow
        BY <3>1, CallerIsNotified DEF CallOverflow, OverflowReachesCaller, Raise
      <3>2. CASE NativeThrow \/ Throw \/ OperatorError \/ LimitExceeded
        BY <1>2, <3>2 DEF NativeThrow, Throw, OperatorError, LimitExceeded, Raise
      <3> QED BY <1>5, <3>1, <3>2
    <2>3. s = Top
      BY <1>1, <2>2
    <2> QED BY <2>1, <2>3 DEF Top
  <1>6. CASE NativeThrowUnnoticed \/ OperatorErrorUnnoticed
    BY <1>2, <1>6 DEF NativeThrowUnnoticed, OperatorErrorUnnoticed
  <1>7. CASE LoadException \/ UnwindToFinally
    BY <1>1, <1>7 DEF LoadException, UnwindToFinally
  <1>8. CASE \E argc \in ArgCounts, value \in BOOLEAN, boundary \in BOOLEAN :
                \/ CallScript(argc, value, boundary) \/ CallNative(argc, value)
                \/ NativeCallback(argc, value)
    <2>1. exception' = [exception EXCEPT ![Top + 1] = FALSE]
      BY <1>8 DEF CallScript, CallNative, NativeCallback, PushFrame
    <2> QED BY <1>1, <2>1
  <1>9. exception' = exception => FALSE
    OBVIOUS
  <1>10. CASE \/ PushOperand \/ PopOperand \/ OperandUnderflow
              \/ \E code \in Tries : EnterTry(code)
              \/ RemoveTryAndJump \/ EndCatch \/ RemoveFinally \/ FinallyUnderflow
              \/ \E d \in 1 .. MaxRegions : Skip(d)
              \/ NativeReturn \/ Return
    BY <1>9, <1>10 DEF PushOperand, PopOperand, OperandUnderflow, EnterTry,
       RemoveTryAndJump, EndCatch, RemoveFinally, FinallyUnderflow, Skip,
       NativeReturn, Return, Keep
  <1>11. CASE \/ UnwindToCatch \/ Continue \/ ReturnThroughFinally
              \/ ReturnToCaller \/ Halt \/ Stopped
    BY <1>9, <1>11 DEF UnwindToCatch, Continue, ReturnThroughFinally,
       ReturnToCaller, Halt, Stopped, Keep, vars
  <1> QED BY <1>3, <1>4, <1>5, <1>6, <1>7, <1>8, <1>10, <1>11
          DEF Next, Execute, Unwind

(* AExceptionManager and the notifier's throwException, as an action       *)
(* property: no exception is written into a frame that has returned.       *)
THEOREM ExceptionsReachTheirFrame ==
    ASSUME "throwAfterCallback" \notin Uses PROVE Spec => ThrowsReachTheirFrame
  <1>1. AnyProgramInv /\ [Next]_vars =>
           [\A s \in 1 .. MaxFrames :
               exception'[s] /\ ~exception[s] => s = Len(callFrames') \/ mode' = "error"]_vars
    BY RaisedInRunningFrame
  <1> QED BY AnyProgram, <1>1, PTL DEF Spec, ThrowsReachTheirFrame

(***************************************************************************)
(* Structured programs: nothing of Uses.  The handlers of a frame are then *)
(* exactly those of the regions around its instruction.                    *)
(***************************************************************************)
Outer(pos, n) == SubSeq(pos, 1, n)
Turn(pos, d, code) == Append(Outer(pos, d - 1), Region(code, pos[d].h))

(* The outer regions of a position.                                        *)
LEMMA OuterRegions ==
    ASSUME NEW pos \in Positions, NEW n \in 0 .. Len(pos)
    PROVE  /\ Len(pos) \in Nat /\ DOMAIN pos = 1 .. Len(pos)
           /\ \A i \in 1 .. Len(pos) : pos[i] \in Regions /\ pos[i].code \in Codes /\ pos[i].h \in Nat
           /\ Outer(pos, n) \in Positions /\ Len(Outer(pos, n)) = n
           /\ DOMAIN Outer(pos, n) = 1 .. n
           /\ \A i \in 1 .. n : Outer(pos, n)[i] = pos[i]
  <1>1. Len(pos) \in Nat /\ DOMAIN pos = 1 .. Len(pos) /\ pos \in Seq(Regions)
    BY LenProperties DEF Positions
  <1>2. \A i \in 1 .. Len(pos) : pos[i] \in Regions
    BY <1>1, ElementOfSeq
  <1>3. /\ Outer(pos, n) \in Positions /\ Len(Outer(pos, n)) = n
        /\ \A i \in 1 .. n : Outer(pos, n)[i] = pos[i]
    BY <1>1, Prefix DEF Outer, Positions
  <1>4. DOMAIN Outer(pos, n) = 1 .. n
    BY <1>3, LenProperties DEF Positions
  <1> QED BY <1>1, <1>2, <1>3, <1>4 DEF Regions

(* A prefix of a prefix is a prefix.                                       *)
LEMMA OuterOfOuter ==
    ASSUME NEW pos \in Positions, NEW n \in 0 .. Len(pos), NEW m \in 0 .. n
    PROVE  Outer(Outer(pos, n), m) = Outer(pos, m)
  <1>1. Len(pos) \in Nat /\ m \in 0 .. Len(pos)
    BY OuterRegions
  <1>2. /\ Outer(pos, n) \in Seq(Regions) /\ Len(Outer(pos, n)) = n
        /\ \A i \in 1 .. n : Outer(pos, n)[i] = pos[i]
    BY OuterRegions DEF Positions
  <1>3. /\ Outer(Outer(pos, n), m) \in Seq(Regions) /\ Len(Outer(Outer(pos, n), m)) = m
        /\ \A i \in 1 .. m : Outer(Outer(pos, n), m)[i] = Outer(pos, n)[i]
    BY <1>2, OuterRegions DEF Positions
  <1>4. /\ Outer(pos, m) \in Seq(Regions) /\ Len(Outer(pos, m)) = m
        /\ \A i \in 1 .. m : Outer(pos, m)[i] = pos[i]
    BY <1>1, OuterRegions DEF Positions
  <1>5. \A i \in 1 .. m : i \in 1 .. n
    BY <1>1
  <1> DEFINE a == Outer(Outer(pos, n), m)
             b == Outer(pos, m)
  <1>6. a \in Seq(Regions) /\ b \in Seq(Regions) /\ Len(a) = Len(b) /\ \A i \in 1 .. Len(a) : a[i] = b[i]
    BY <1>2, <1>3, <1>4, <1>5
  <1> HIDE DEF a, b
  <1>7. a = b
    BY <1>6, SeqEqual
  <1> QED BY <1>7 DEF a, b

(* All the regions around an instruction, and none.                        *)
LEMMA WholeAndNothing ==
    ASSUME NEW pos \in Positions
    PROVE  Outer(pos, Len(pos)) = pos /\ Outer(pos, 0) = <<>>
  <1>1. pos \in Seq(Regions) /\ Len(pos) \in Nat
    BY LenProperties DEF Positions
  <1>2. /\ Outer(pos, Len(pos)) \in Seq(Regions) /\ Len(Outer(pos, Len(pos))) = Len(pos)
        /\ \A i \in 1 .. Len(pos) : Outer(pos, Len(pos))[i] = pos[i]
    BY <1>1, OuterRegions DEF Positions
  <1>3. Outer(pos, Len(pos)) = pos
    <2> DEFINE a == Outer(pos, Len(pos))
    <2>1. a \in Seq(Regions) /\ Len(a) = Len(pos) /\ \A i \in 1 .. Len(a) : a[i] = pos[i]
      BY <1>2
    <2> HIDE DEF a
    <2>2. a = pos
      BY <1>1, <2>1, SeqEqual
    <2> QED BY <2>2 DEF a
  <1>4. Outer(pos, 0) \in Seq(Regions) /\ Len(Outer(pos, 0)) = 0
    BY <1>1, OuterRegions DEF Positions
  <1> QED BY <1>3, <1>4, EmptySeq

(* One region more around it: Append.                                      *)
LEMMA OuterOfAppend ==
    ASSUME NEW pos \in Positions, NEW r \in Regions
    PROVE  /\ Append(pos, r) \in Positions /\ Append(pos, r) # <<>>
           /\ Len(pos) \in Nat /\ Len(Append(pos, r)) = Len(pos) + 1
           /\ DOMAIN Append(pos, r) = 1 .. Len(pos) + 1
           /\ Append(pos, r)[Len(pos) + 1] = r
           /\ \A i \in 1 .. Len(pos) : Append(pos, r)[i] = pos[i]
           /\ \A n \in 0 .. Len(pos) : Outer(Append(pos, r), n) = Outer(pos, n)
           /\ Outer(Append(pos, r), Len(pos) + 1) = Append(pos, r)
           /\ Front(Append(pos, r)) = pos /\ Last(Append(pos, r)) = r
  <1> DEFINE long == Append(pos, r)
  <1>1. pos \in Seq(Regions) /\ Len(pos) \in Nat
    BY LenProperties DEF Positions
  <1>2. /\ long \in Seq(Regions) /\ Len(long) = Len(pos) + 1 /\ long # <<>>
        /\ long[Len(pos) + 1] = r /\ \A i \in 1 .. Len(pos) : long[i] = pos[i]
    BY <1>1, AppendProperties
  <1>3. DOMAIN long = 1 .. Len(pos) + 1
    BY <1>2, LenProperties
  <1> HIDE DEF long
  <1>4. ASSUME NEW n \in 0 .. Len(pos) PROVE Outer(long, n) = Outer(pos, n)
    <2>1. n \in 0 .. Len(long)
      BY <1>1, <1>2
    <2> DEFINE a == Outer(long, n)
               b == Outer(pos, n)
    <2>2. a \in Seq(Regions) /\ Len(a) = n /\ \A i \in 1 .. n : a[i] = long[i]
      BY <1>2, <2>1, OuterRegions DEF Positions
    <2>3. b \in Seq(Regions) /\ Len(b) = n /\ \A i \in 1 .. n : b[i] = pos[i]
      BY OuterRegions DEF Positions
    <2>4. \A i \in 1 .. n : i \in 1 .. Len(pos)
      BY <1>1
    <2>5. \A i \in 1 .. Len(a) : a[i] = b[i]
      <3> HIDE DEF a, b
      <3> QED BY <1>2, <2>2, <2>3, <2>4
    <2> HIDE DEF a, b
    <2>6. a = b
      BY <2>2, <2>3, <2>5, SeqEqual
    <2> QED BY <2>6 DEF a, b
  <1>5. Outer(long, Len(pos) + 1) = long
    BY <1>2, WholeAndNothing DEF Positions
  <1>6. Last(long) = r
    BY <1>2 DEF Last
  <1>7. Front(long) = Outer(long, Len(pos))
    BY <1>1, <1>2 DEF Front, Outer
  <1>8. Outer(long, Len(pos)) = pos
    BY <1>1, <1>4, WholeAndNothing
  <1> QED BY <1>1, <1>2, <1>3, <1>4, <1>5, <1>6, <1>7, <1>8 DEF long, Positions

(* The innermost region of the first d.                                    *)
LEMMA InnermostOfOuter ==
    ASSUME NEW pos \in Positions, NEW d \in 1 .. Len(pos)
    PROVE  /\ Outer(pos, d) \in Positions /\ Outer(pos, d - 1) \in Positions
           /\ Outer(pos, d) # <<>>
           /\ Outer(pos, d) = Append(Outer(pos, d - 1), pos[d])
           /\ Front(Outer(pos, d)) = Outer(pos, d - 1)
           /\ Last(Outer(pos, d)) = pos[d]
           /\ Target(Outer(pos, d), "finally") = Turn(pos, d, "finally")
           /\ Target(Outer(pos, d), "catch") = Turn(pos, d, "catch")
           /\ Target(Outer(pos, d), "catchF") = Turn(pos, d, "catchF")
           /\ Target(Outer(pos, d), "joinF") = Turn(pos, d, "joinF")
  <1>1. Len(pos) \in Nat /\ d \in 0 .. Len(pos) /\ d - 1 \in 0 .. Len(pos) /\ d \in Nat
    BY OuterRegions
  <1>2. /\ Outer(pos, d) \in Positions /\ Outer(pos, d - 1) \in Positions
        /\ Len(Outer(pos, d)) = d /\ Outer(pos, d)[d] = pos[d]
    BY <1>1, OuterRegions
  <1>3. Outer(pos, d) # <<>>
    <2> SUFFICES ASSUME Outer(pos, d) = <<>> PROVE FALSE
      OBVIOUS
    <2>1. d = 0
      BY <1>2
    <2> QED BY <1>1, <2>1
  <1>4. Outer(Outer(pos, d), d - 1) = Outer(pos, d - 1)
    BY <1>1, OuterOfOuter
  <1>5. Front(Outer(pos, d)) = Outer(pos, d - 1)
    <2>1. Front(Outer(pos, d)) = Outer(Outer(pos, d), d - 1)
      BY <1>2 DEF Front, Outer
    <2> QED BY <1>4, <2>1
  <1>6. Last(Outer(pos, d)) = pos[d]
    BY <1>2 DEF Last
  <1>7. Outer(pos, d) = Append(Front(Outer(pos, d)), Last(Outer(pos, d)))
    BY <1>2, <1>3, FrontAndLast DEF Positions
  <1> QED BY <1>2, <1>3, <1>5, <1>6, <1>7 DEF Target, Turn

(* How many handlers the outer regions have.                               *)
LEMMA CountOfOuter ==
    ASSUME NEW pos \in Positions
    PROVE  /\ HandlerCount(pos) \in Nat /\ HandlerCount(Outer(pos, 0)) = 0
           /\ \A n \in 0 .. Len(pos) : /\ HandlerCount(Outer(pos, n)) \in Nat
                                       /\ HandlerCount(Outer(pos, n)) <= HandlerCount(pos)
           /\ \A d \in 1 .. Len(pos) :
                 /\ d - 1 \in 0 .. Len(pos)
                 /\ Weight(pos[d].code) \in Nat
                 /\ HandlerCount(Outer(pos, d))
                        = HandlerCount(Outer(pos, d - 1)) + Weight(pos[d].code)
           /\ \A m, n \in 0 .. Len(pos) : m <= n =>
                 HandlerCount(Outer(pos, m)) <= HandlerCount(Outer(pos, n))
  <1>1. HandlerCount(pos) \in Nat /\ Len(pos) \in Nat
    BY CountOfPosition, OuterRegions
  <1>2. HandlerCount(Outer(pos, 0)) = 0
    BY WholeAndNothing, CountOfNowhere
  <1>3. ASSUME NEW n \in 0 .. Len(pos)
        PROVE  HandlerCount(Outer(pos, n)) \in Nat /\ HandlerCount(Outer(pos, n)) <= HandlerCount(pos)
    BY CountOfPrefix DEF Outer
  <1>4. ASSUME NEW d \in 1 .. Len(pos)
        PROVE  /\ d - 1 \in 0 .. Len(pos) /\ Weight(pos[d].code) \in Nat
               /\ HandlerCount(Outer(pos, d)) = HandlerCount(Outer(pos, d - 1)) + Weight(pos[d].code)
    <2>1. d - 1 \in 0 .. Len(pos) /\ Weight(pos[d].code) \in Nat
      BY <1>1 DEF Weight
    <2> QED BY <2>1, InnermostOfOuter, CountOfRegion
  <1>5. ASSUME NEW m \in 0 .. Len(pos), NEW n \in 0 .. Len(pos), m <= n
        PROVE  HandlerCount(Outer(pos, m)) <= HandlerCount(Outer(pos, n))
    <2>1. Outer(pos, n) \in Positions /\ m \in 0 .. Len(Outer(pos, n)) /\ m \in 0 .. n
      BY <1>1, <1>5, OuterRegions
    <2>2. Outer(Outer(pos, n), m) = Outer(pos, m)
      BY <2>1, OuterOfOuter
    <2>3. HandlerCount(Outer(Outer(pos, n), m)) <= HandlerCount(Outer(pos, n))
      BY <2>1, CountOfPrefix DEF Outer
    <2> QED BY <2>2, <2>3
  <1> QED BY <1>1, <1>2, <1>3, <1>4, <1>5

(* The handlers of a region, and where they send control.                  *)
HandlerOf(pos, d, i) == HandlersOfRegion(Outer(pos, d))[i]

(* The handlers TryCatchNode adds for one region, by its kind.             *)
LEMMA HandlersOfOneRegion ==
    ASSUME NEW pos \in Positions, NEW d \in 1 .. Len(pos)
    PROVE  LET code == pos[d].code
               F == Handler("FINALLY", Turn(pos, d, "finally"))
               CF == Handler("CATCH", Turn(pos, d, "catchF"))
               C == Handler("CATCH", Turn(pos, d, "catch"))
           IN  /\ code = "try" => Weight(code) = 1 /\ HandlerOf(pos, d, 1) = C
               /\ code = "tryCF" => /\ Weight(code) = 2 /\ HandlerOf(pos, d, 1) = F
                                    /\ HandlerOf(pos, d, 2) = CF
               /\ code \in {"tryF", "catchF", "joinF"} => Weight(code) = 1 /\ HandlerOf(pos, d, 1) = F
               /\ code \in {"catch", "finally"} => Weight(code) = 0
               /\ code \in {"try", "tryCF", "tryF", "catchF", "joinF", "catch", "finally"}
  <1> DEFINE code == pos[d].code
             F == Handler("FINALLY", Turn(pos, d, "finally"))
             CF == Handler("CATCH", Turn(pos, d, "catchF"))
             C == Handler("CATCH", Turn(pos, d, "catch"))
             out == Outer(pos, d)
  <1>1. /\ Last(out) = pos[d] /\ Target(out, "finally") = Turn(pos, d, "finally")
        /\ Target(out, "catch") = Turn(pos, d, "catch")
        /\ Target(out, "catchF") = Turn(pos, d, "catchF")
    BY InnermostOfOuter
  <1>2. pos[d].code \in Codes
    BY OuterRegions
  <1>3. code \in {"try", "tryCF", "tryF", "catchF", "joinF", "catch", "finally"}
    BY <1>2 DEF Codes, Tries
  <1> HIDE DEF out
  <1>4. CASE code = "try"
    <2>1. HandlersOfRegion(out) = <<C>>
      BY <1>1, <1>4 DEF HandlersOfRegion, WithFinally
    <2> QED BY <1>4, <2>1 DEF Weight, WithFinally, HandlerOf, out
  <1>5. CASE code = "tryCF"
    <2>1. HandlersOfRegion(out) = Append(<<F>>, CF)
      BY <1>1, <1>5 DEF HandlersOfRegion
    <2>2. HandlersOfRegion(out)[1] = F /\ HandlersOfRegion(out)[2] = CF
      BY <2>1
    <2> QED BY <1>5, <2>2 DEF Weight, WithFinally, HandlerOf, out
  <1>6. CASE code \in {"tryF", "catchF", "joinF"}
    <2>1. HandlersOfRegion(out) = <<F>>
      BY <1>1, <1>6 DEF HandlersOfRegion, WithFinally
    <2> QED BY <1>6, <2>1 DEF Weight, WithFinally, HandlerOf, out
  <1>7. CASE code \in {"catch", "finally"}
    BY <1>7 DEF Weight, WithFinally
  <1> QED BY <1>3, <1>4, <1>5, <1>6, <1>7

(* Between the marks from and to are exactly the handlers of the regions   *)
(* around pos.                                                             *)
Exact(hs, from, to, pos) ==
    /\ to = from + HandlerCount(pos)
    /\ \A d \in DOMAIN pos : \A i \in 1 .. Weight(pos[d].code) :
          hs[from + HandlerCount(Outer(pos, d - 1)) + i] = HandlerOf(pos, d, i)

(* Only the handlers between the two marks matter.                         *)
LEMMA ExactAlso ==
    ASSUME NEW hs, NEW hs2, NEW from \in Nat, NEW to, NEW pos \in Positions,
           Exact(hs, from, to, pos), \A i \in from + 1 .. to : hs2[i] = hs[i]
    PROVE  Exact(hs2, from, to, pos)
  <1> SUFFICES ASSUME NEW d \in 1 .. Len(pos), NEW i \in 1 .. Weight(pos[d].code)
               PROVE  hs2[from + HandlerCount(Outer(pos, d - 1)) + i] = HandlerOf(pos, d, i)
    <2>1. DOMAIN pos = 1 .. Len(pos)
      BY OuterRegions
    <2> QED BY <2>1 DEF Exact
  <1> DEFINE b == HandlerCount(Outer(pos, d - 1))
             w == Weight(pos[d].code)
             a == HandlerCount(Outer(pos, d))
             n == HandlerCount(pos)
  <1>1. b \in Nat /\ w \in Nat /\ a = b + w /\ a <= n /\ n \in Nat /\ to = from + n
    <2>1. d \in 0 .. Len(pos) /\ d - 1 \in 0 .. Len(pos)
      BY OuterRegions
    <2> QED BY <2>1, CountOfOuter DEF Exact
  <1>2. hs[from + b + i] = HandlerOf(pos, d, i)
    <2>1. DOMAIN pos = 1 .. Len(pos)
      BY OuterRegions
    <2> QED BY <2>1 DEF Exact
  <1>3. i \in 1 .. w
    OBVIOUS
  <1> HIDE DEF a, b, w, n
  <1>4. from + b + i \in from + 1 .. to
    BY <1>1, <1>3
  <1>5. hs2[from + b + i] = HandlerOf(pos, d, i)
    BY <1>2, <1>4
  <1> QED BY <1>5 DEF b

(* Outside every region there are none.                                    *)
LEMMA ExactNowhere ==
    ASSUME NEW hs, NEW from \in Nat
    PROVE  Exact(hs, from, from, <<>>)
  <1>1. HandlerCount(<<>>) = 0 /\ DOMAIN <<>> = {}
    BY CountOfNowhere
  <1> QED BY <1>1 DEF Exact

(* Those of the outer regions are the first.                               *)
LEMMA ExactOuter ==
    ASSUME NEW hs, NEW from \in Nat, NEW to, NEW pos \in Positions,
           Exact(hs, from, to, pos), NEW n \in 0 .. Len(pos)
    PROVE  /\ Exact(hs, from, from + HandlerCount(Outer(pos, n)), Outer(pos, n))
           /\ to \in Nat /\ from + HandlerCount(Outer(pos, n)) <= to
  <1> DEFINE out == Outer(pos, n)
  <1>1. /\ Len(pos) \in Nat /\ DOMAIN pos = 1 .. Len(pos)
        /\ out \in Positions /\ DOMAIN out = 1 .. n /\ \A i \in 1 .. n : out[i] = pos[i]
    BY OuterRegions
  <1>2. ASSUME NEW d \in 1 .. n, NEW i \in 1 .. Weight(out[d].code)
        PROVE  hs[from + HandlerCount(Outer(out, d - 1)) + i] = HandlerOf(out, d, i)
    <2>1. d \in 1 .. Len(pos) /\ d \in 0 .. n /\ d - 1 \in 0 .. n
      BY <1>1
    <2>2. Outer(out, d - 1) = Outer(pos, d - 1) /\ Outer(out, d) = Outer(pos, d)
      BY <2>1, OuterOfOuter
    <2>3. i \in 1 .. Weight(pos[d].code)
      BY <1>1, <2>1
    <2>4. hs[from + HandlerCount(Outer(pos, d - 1)) + i] = HandlerOf(pos, d, i)
      BY <1>1, <2>1, <2>3 DEF Exact
    <2> QED BY <2>2, <2>4 DEF HandlerOf
  <1>3. to = from + HandlerCount(pos) /\ HandlerCount(pos) \in Nat
        /\ HandlerCount(out) \in Nat /\ HandlerCount(out) <= HandlerCount(pos)
    BY CountOfOuter DEF Exact
  <1>4. to \in Nat /\ from + HandlerCount(out) <= to
    <2> DEFINE a == HandlerCount(out)
               b == HandlerCount(pos)
    <2>1. to = from + b /\ a \in Nat /\ b \in Nat /\ a <= b
      BY <1>3
    <2> HIDE DEF a, b
    <2>2. to \in Nat /\ from + a <= to
      BY <2>1
    <2> QED BY <2>2 DEF a
  <1> QED BY <1>1, <1>2, <1>4 DEF Exact

(* A region more has its own handlers above those around it.               *)
LEMMA ExactAppend ==
    ASSUME NEW hs, NEW hs2, NEW from \in Nat, NEW to, NEW pos \in Positions,
           Exact(hs, from, to, pos), NEW r \in Regions,
           \A i \in from + 1 .. to : hs2[i] = hs[i],
           \A i \in 1 .. Weight(r.code) : hs2[to + i] = HandlersOfRegion(Append(pos, r))[i]
    PROVE  Exact(hs2, from, to + Weight(r.code), Append(pos, r))
  <1> DEFINE long == Append(pos, r)
             n == Len(pos) + 1
  <1>1. /\ Len(pos) \in Nat /\ long \in Positions /\ DOMAIN long = 1 .. n /\ long[n] = r
        /\ \A i \in 1 .. Len(pos) : long[i] = pos[i]
        /\ \A m \in 0 .. Len(pos) : Outer(long, m) = Outer(pos, m)
        /\ Outer(long, n) = long
    BY OuterOfAppend
  <1>2. Exact(hs2, from, to, pos)
    BY ExactAlso
  <1>3. /\ HandlerCount(pos) \in Nat /\ to = from + HandlerCount(pos)
        /\ HandlerCount(long) = HandlerCount(pos) + Weight(r.code)
        /\ Outer(pos, Len(pos)) = pos
    BY CountOfAppend, WholeAndNothing DEF Exact
  <1>4. Weight(r.code) \in Nat
    BY DEF Weight
  <1> HIDE DEF long
  <1>5. ASSUME NEW d \in 1 .. n, NEW i \in 1 .. Weight(long[d].code)
        PROVE  hs2[from + HandlerCount(Outer(long, d - 1)) + i] = HandlerOf(long, d, i)
    <2>1. CASE d = n
      <3>1. Outer(long, d - 1) = pos /\ Outer(long, d) = long /\ long[d] = r
        <4>1. d - 1 = Len(pos) /\ Len(pos) \in 0 .. Len(pos)
          BY <1>1, <2>1
        <4> QED BY <1>1, <1>3, <2>1, <4>1
      <3> QED BY <1>3, <1>5, <3>1 DEF HandlerOf, long
    <2>2. CASE d # n
      <3>1. d \in 1 .. Len(pos) /\ d \in 0 .. Len(pos) /\ d - 1 \in 0 .. Len(pos)
        BY <1>1, <2>2
      <3>2. Outer(long, d - 1) = Outer(pos, d - 1) /\ Outer(long, d) = Outer(pos, d) /\ long[d] = pos[d]
        BY <1>1, <3>1
      <3>3. hs2[from + HandlerCount(Outer(pos, d - 1)) + i] = HandlerOf(pos, d, i)
        <4>1. d \in DOMAIN pos
          BY <3>1, OuterRegions
        <4> QED BY <1>2, <1>5, <3>2, <4>1 DEF Exact
      <3> QED BY <3>2, <3>3 DEF HandlerOf
    <2> QED BY <2>1, <2>2
  <1>6. to + Weight(r.code) = from + HandlerCount(long)
    <2> DEFINE a == HandlerCount(pos)
               b == Weight(r.code)
    <2>1. a \in Nat /\ b \in Nat /\ to = from + a /\ HandlerCount(long) = a + b
      BY <1>3, <1>4
    <2> HIDE DEF a, b
    <2>2. to + b = from + HandlerCount(long)
      BY <2>1
    <2> QED BY <2>2 DEF b
  <1> QED BY <1>1, <1>5, <1>6 DEF Exact, long

(* Every handler between the marks belongs to a region.                    *)
LEMMA OwnerOfHandler ==
    ASSUME NEW hs, NEW from \in Nat, NEW to, NEW pos \in Positions,
           Exact(hs, from, to, pos), NEW i \in from + 1 .. to
    PROVE  \E d \in 1 .. Len(pos) : \E j \in 1 .. Weight(pos[d].code) :
              /\ i = from + HandlerCount(Outer(pos, d - 1)) + j
              /\ hs[i] = HandlerOf(pos, d, j)
  <1> DEFINE T == {n \in 0 .. Len(pos) : i <= from + HandlerCount(Outer(pos, n))}
  <1>1. /\ Len(pos) \in Nat /\ DOMAIN pos = 1 .. Len(pos) /\ Outer(pos, Len(pos)) = pos
        /\ HandlerCount(Outer(pos, 0)) = 0 /\ HandlerCount(pos) \in Nat
        /\ to = from + HandlerCount(pos) /\ i \in Nat /\ from < i /\ i <= to
    BY OuterRegions, WholeAndNothing, CountOfOuter DEF Exact
  <1>2. T \in SUBSET Nat /\ Len(pos) \in T
    BY <1>1
  <1>3. PICK d \in T : \A n \in T : d <= n
    <2> HIDE DEF T
    <2> QED BY <1>2, LeastNatural
  <1>4. d \in 0 .. Len(pos) /\ i <= from + HandlerCount(Outer(pos, d))
    BY <1>3
  <1>5. d # 0
    BY <1>1, <1>4
  <1>6. d \in 1 .. Len(pos) /\ d - 1 \in 0 .. Len(pos) /\ d - 1 \notin T
    <2>1. d \in 1 .. Len(pos) /\ d - 1 \in 0 .. Len(pos) /\ ~(d <= d - 1)
      BY <1>1, <1>4, <1>5
    <2> HIDE DEF T
    <2> QED BY <1>3, <2>1
  <1> DEFINE b == HandlerCount(Outer(pos, d - 1))
             w == Weight(pos[d].code)
             j == i - from - b
  <1>7. b \in Nat /\ w \in Nat /\ HandlerCount(Outer(pos, d)) = b + w
    BY <1>6, CountOfOuter
  <1>8. ~(i <= from + b) /\ i <= from + (b + w)
    BY <1>4, <1>6, <1>7
  <1>9. j \in 1 .. w /\ i = from + b + j
    <2> HIDE DEF b, w
    <2> QED BY <1>1, <1>7, <1>8
  <1>10. hs[from + b + j] = HandlerOf(pos, d, j)
    <2> HIDE DEF j
    <2> QED BY <1>1, <1>6, <1>9 DEF Exact
  <1> HIDE DEF b, w, j
  <1>11. hs[i] = HandlerOf(pos, d, j)
    BY <1>9, <1>10
  <1> QED BY <1>6, <1>9, <1>11 DEF b, w

(* Regions with handlers are counted: the last handler is the last of the  *)
(* innermost of them.                                                      *)
LEMMA InnermostHandler ==
    ASSUME NEW hs, NEW from \in Nat, NEW to, NEW pos \in Positions,
           Exact(hs, from, to, pos), from < to
    PROVE  \E d \in 1 .. Len(pos) :
              /\ Weight(pos[d].code) > 0
              /\ to = from + HandlerCount(Outer(pos, d - 1)) + Weight(pos[d].code)
              /\ hs[to] = HandlerOf(pos, d, Weight(pos[d].code))
              /\ \A e \in d + 1 .. Len(pos) : Weight(pos[e].code) = 0
  <1>1. /\ to = from + HandlerCount(pos) /\ HandlerCount(pos) \in Nat /\ to \in from + 1 .. to
        /\ Len(pos) \in Nat
    <2>1. to = from + HandlerCount(pos) /\ HandlerCount(pos) \in Nat /\ Len(pos) \in Nat
      BY CountOfOuter, OuterRegions DEF Exact
    <2> QED BY <2>1
  <1>0. PICK d \in 1 .. Len(pos) : \E j \in 1 .. Weight(pos[d].code) :
              /\ to = from + HandlerCount(Outer(pos, d - 1)) + j
              /\ hs[to] = HandlerOf(pos, d, j)
    BY SMTT(30), <1>1, OwnerOfHandler
  <1>2. PICK j \in 1 .. Weight(pos[d].code) :
              /\ to = from + HandlerCount(Outer(pos, d - 1)) + j
              /\ hs[to] = HandlerOf(pos, d, j)
    BY <1>0
  <1> DEFINE b == HandlerCount(Outer(pos, d - 1))
             w == Weight(pos[d].code)
             a == HandlerCount(Outer(pos, d))
             n == HandlerCount(pos)
  <1>3. /\ b \in Nat /\ w \in Nat /\ a = b + w /\ a <= n /\ n \in Nat
        /\ d \in 0 .. Len(pos)
    <2>1. d \in 0 .. Len(pos)
      BY <1>1
    <2> QED BY <2>1, CountOfOuter
  <1>4. j = w /\ a = n
    <2>1. to = from + b + j /\ to = from + n /\ j \in 1 .. w
      BY <1>1, <1>2
    <2> HIDE DEF a, b, w, n
    <2> QED BY SMTT(30), <1>3, <2>1
  <1>5. ASSUME NEW e \in d + 1 .. Len(pos) PROVE Weight(pos[e].code) = 0
    <2>1. e \in 1 .. Len(pos) /\ e - 1 \in 0 .. Len(pos) /\ e \in 0 .. Len(pos) /\ d <= e - 1
      BY <1>1, <1>3
    <2> DEFINE x == HandlerCount(Outer(pos, e - 1))
               y == HandlerCount(Outer(pos, e))
               v == Weight(pos[e].code)
    <2>2. a <= x /\ x \in Nat /\ y = x + v /\ v \in Nat /\ y <= n
      BY <1>3, <2>1, CountOfOuter
    <2> HIDE DEF x, y, a, n
    <2>3. v = 0
      BY <1>3, <1>4, <2>2
    <2> QED BY <2>3
  <1>6. w \in 1 .. w /\ w > 0
    <2>1. j \in 1 .. w
      OBVIOUS
    <2> HIDE DEF w
    <2> QED BY SMTT(30), <1>3, <2>1
  <1> QED BY <1>2, <1>4, <1>5, <1>6

(* Going into a clause of the region at depth d: the regions inside of it  *)
(* are left, and of its own handlers the clause keeps the first ones.      *)
LEMMA ExactTurn ==
    ASSUME NEW hs, NEW from \in Nat, NEW to, NEW pos \in Positions,
           Exact(hs, from, to, pos), NEW d \in 1 .. Len(pos), NEW code \in Codes,
           \/ Weight(code) = 0
           \/ pos[d].code = "tryCF" /\ code \in {"catchF", "joinF"}
    PROVE  /\ Exact(hs, from, from + HandlerCount(Outer(pos, d - 1)) + Weight(code), Turn(pos, d, code))
           /\ HandlerCount(Turn(pos, d, code)) = HandlerCount(Outer(pos, d - 1)) + Weight(code)
  <1> DEFINE r == Region(code, pos[d].h)
             out == Outer(pos, d - 1)
             mid == from + HandlerCount(out)
  <1>1. d - 1 \in 0 .. Len(pos) /\ pos[d].h \in Nat
    BY OuterRegions
  <1>2. out \in Positions /\ r \in Regions /\ r.code = code
    BY <1>1, OuterRegions DEF Region, Regions
  <1>3. Exact(hs, from, mid, out)
    BY <1>1, ExactOuter
  <1>4. HandlerCount(out) \in Nat /\ HandlerCount(Append(out, r)) = HandlerCount(out) + Weight(code)
    BY <1>2, CountOfAppend
  <1>5. ASSUME NEW i \in 1 .. Weight(code)
        PROVE  hs[mid + i] = HandlersOfRegion(Append(out, r))[i]
    <2>1. pos[d].code = "tryCF" /\ code \in {"catchF", "joinF"} /\ i = 1
      BY <1>5 DEF Weight, WithFinally
    <2>2. HandlersOfRegion(Append(out, r))[1] = Handler("FINALLY", Target(Append(out, r), "finally"))
      <3>1. Last(Append(out, r)) = r
        BY <1>2, OuterOfAppend
      <3>2. HandlersOfRegion(Append(out, r)) = <<Handler("FINALLY", Target(Append(out, r), "finally"))>>
        BY <1>2, <2>1, <3>1 DEF HandlersOfRegion, WithFinally
      <3> QED BY <3>2
    <2>3. Target(Append(out, r), "finally") = Turn(pos, d, "finally")
      <3>1. Front(Append(out, r)) = out /\ Last(Append(out, r)) = r
        BY <1>2, OuterOfAppend
      <3>2. r.h = pos[d].h
        BY DEF Region
      <3> QED BY <3>1, <3>2 DEF Target, Turn
    <2>4. HandlerOf(pos, d, 1) = Handler("FINALLY", Turn(pos, d, "finally"))
          /\ Weight(pos[d].code) = 2
      BY <2>1, HandlersOfOneRegion
    <2>5. hs[mid + 1] = HandlerOf(pos, d, 1)
      <3>1. d \in DOMAIN pos /\ 1 \in 1 .. Weight(pos[d].code)
        BY <2>4, OuterRegions
      <3> QED BY <3>1 DEF Exact
    <2> QED BY <2>1, <2>2, <2>3, <2>4, <2>5
  <1>6. Exact(hs, from, mid + Weight(code), Append(out, r))
    <2> HIDE DEF mid, r, out
    <2> QED BY <1>2, <1>3, <1>5, ExactAppend
  <1> QED BY <1>4, <1>6 DEF Turn

(***************************************************************************)
(* The frames, their handlers, completions and operands.  The definitions  *)
(* take the state as parameters: what a step keeps is said of both states. *)
(***************************************************************************)
EndOf(cf, hs, k) == IF k = Len(cf) THEN Len(hs) ELSE cf[k + 1].handlerIndex
HandlersExact(cf, hs) ==
    \A k \in 1 .. Len(cf) : Exact(hs, cf[k].handlerIndex, EndOf(cf, hs, k), cf[k].pos)

(* The heights at which regions are entered: no lower than those around    *)
(* them, and those of the handlers around them if there are any.  A caller *)
(* is at the height of its handlers too, and a native function calls only  *)
(* through the boundary of a new resume().                                 *)
HeightsRise(pos, height) ==
    \A d \in 1 .. Len(pos) : pos[d].h <= height /\ \A e \in 1 .. d : pos[e].h <= pos[d].h
HeightsFit(from, pos) ==
    \A d \in 1 .. Len(pos) :
        \/ from + HandlerCount(Outer(pos, d - 1)) = 0
        \/ pos[d].h = HandlerHeight(Outer(pos, d - 1))
FrameFits(f) ==
    /\ HeightsRise(f.pos, f.height)
    /\ HeightsFit(f.handlerIndex, f.pos)
    /\ f.native => f.pos = <<>> /\ f.height = 0
CallFits(f, g) ==
    /\ f.native => ~g.native /\ g.boundary
    /\ g.handlerIndex = 0 \/ f.height = HandlerHeight(f.pos)
FramesFit(cf) ==
    /\ \A k \in 1 .. Len(cf) : FrameFits(cf[k])
    /\ \A k \in 1 .. Len(cf) : k < Len(cf) => CallFits(cf[k], cf[k + 1])

(* Every finally body has its completion, the outermost first.  A return   *)
(* keeps its value on the operand stack or in the completion, and waits    *)
(* only in the outermost finally body of its function, entered without     *)
(* operands; an exception is caught before the next finally body further   *)
(* out ends.                                                               *)
Bodies(cf) == Places(cf, {"finally"})
Catches(cf) == Places(cf, {"try", "tryCF"})
CaughtBelow(cf, x) ==
    \A p \in Bodies(cf) : Before(p, x) =>
        \E q \in Catches(cf) : Before(p, q) /\ Before(q, x)
Returns == {"RETURN_VALUE", "RETURN_VOID"}
Outermost(pos, d) == pos[d].h = 0 /\ \A e \in 1 .. d - 1 : pos[e].code # "finally"
StateFits(cf, s) ==
    LET k == s.owner[1]
        d == s.owner[2]
    IN  /\ s.kept <=> s.reason = "RETURN_VOID" /\ cf[k].value
        /\ s.reason = "RETURN_VALUE" => cf[k].value
        /\ s.reason \in Returns => Outermost(cf[k].pos, d)
        /\ s.reason = "EXCEPTION" => CaughtBelow(cf, s.owner)
StatesExact(cf, st) ==
    /\ \A i \in 1 .. Len(st) : st[i].owner \in Bodies(cf) /\ StateFits(cf, st[i])
    /\ \A p \in Bodies(cf) : \E i \in 1 .. Len(st) : st[i].owner = p
    /\ \A i, j \in 1 .. Len(st) : i < j => Before(st[i].owner, st[j].owner)

(* The operand stack: heights of frames, and values kept by returns.  What *)
(* a frame found on it is within its startStackCount.                      *)
Held(cf) == SumFunction([k \in 1 .. Len(cf) |-> cf[k].height])
KeptBelow(st, k) == Cardinality({i \in 1 .. Len(st) : st[i].kept /\ st[i].owner[1] < k})
StartsFit(cf, st) ==
    \A k \in 1 .. Len(cf) :
        Held(SubSeq(cf, 1, k - 1)) + KeptBelow(st, k) <= cf[k].startStackCount

Matched(cf, hs, st) ==
    /\ HandlersExact(cf, hs) /\ FramesFit(cf)
    /\ StatesExact(cf, st) /\ StartsFit(cf, st)

(* An exception without any handler left empties the stack; a return adds  *)
(* its value before its finally bodies run.                                *)
Lost == mode = "resume" /\ exception[Top] /\ allHandlers = <<>>
Returned == IF mode = "done" /\ Frame.value THEN 1 ELSE 0
ModeFits ==
    /\ \A k \in 1 .. Top : exception[k] => k = Top /\ mode \in {"resume", "catch"}
    /\ mode \in {"opcode", "catch", "done"} => ~Frame.native
    /\ mode = "resume" /\ Frame.native => exception[Top]
    /\ Pending => /\ CaughtBelow(callFrames, <<Top + 1, 0>>)
                  /\ allHandlers = <<>> \/ Frame.height = HandlerHeight(Here)
    /\ mode = "done" => Frame.height = 0 /\ FinallyDepths(Here) = {}
    /\ Lost \/ stackSize = Held(callFrames) + KeptBelow(allFinallyStates, Top + 1) + Returned

Live == ~isFatalException /\ mode \in {"resume", "opcode", "catch", "done", "native"}
StructuredInv == Live => Matched(callFrames, allHandlers, allFinallyStates) /\ ModeFits

(***************************************************************************)
(* What the steps do with the frames: the running frame moves, a frame is  *)
(* pushed, or popped, and its caller gets a value or not.                  *)
(***************************************************************************)
SameCall(f, g) ==
    /\ f.handlerIndex = g.handlerIndex /\ f.startStackCount = g.startStackCount
    /\ f.value = g.value /\ f.boundary = g.boundary /\ f.native = g.native
MovesTo(cf, cf2, f) ==
    /\ cf \in Seq(Frames) /\ cf2 \in Seq(Frames)
    /\ Len(cf) \in Nat \ {0} /\ Len(cf2) = Len(cf)
    /\ \A k \in 1 .. Len(cf) : cf2[k] = IF k = Len(cf) THEN f ELSE cf[k]
    /\ f \in Frames /\ SameCall(f, cf[Len(cf)])
Pushes(cf, cf2, f) ==
    /\ cf \in Seq(Frames) /\ cf2 \in Seq(Frames)
    /\ Len(cf) \in Nat \ {0} /\ Len(cf2) = Len(cf) + 1
    /\ \A k \in 1 .. Len(cf) : cf2[k] = cf[k]
    /\ cf2[Len(cf) + 1] = f
    /\ f \in Frames /\ f.pos = <<>> /\ f.height = 0
Pops(cf, cf2, v) ==
    /\ cf \in Seq(Frames) /\ cf2 \in Seq(Frames)
    /\ Len(cf) \in Nat /\ Len(cf) > 1 /\ Len(cf2) = Len(cf) - 1
    /\ \A k \in 1 .. Len(cf) - 1 :
          /\ SameCall(cf2[k], cf[k]) /\ cf2[k].pos = cf[k].pos
          /\ cf2[k].height = cf[k].height + (IF k = Len(cf) - 1 THEN v ELSE 0)
    /\ v \in {0, 1} /\ (cf[Len(cf) - 1].native => v = 0)
(* The marks of the frames rise.                                           *)
Marks(cf, hs) ==
    /\ Len(hs) \in Nat
    /\ \A k \in 1 .. Len(cf) : cf[k].handlerIndex \in Nat /\ cf[k].handlerIndex <= Len(hs)
    /\ \A j, k \in 1 .. Len(cf) : j <= k => cf[j].handlerIndex <= cf[k].handlerIndex

(***************************************************************************)
(* Handlers of all frames.                                                 *)
(***************************************************************************)
(* What the running frame does with its own handlers is not seen below.    *)
LEMMA MoveKeepsHandlers ==
    ASSUME NEW cf, NEW cf2, NEW f, MovesTo(cf, cf2, f), NEW hs, NEW hs2, Marks(cf, hs),
           HandlersExact(cf, hs), \A i \in 1 .. f.handlerIndex : hs2[i] = hs[i],
           Exact(hs2, f.handlerIndex, Len(hs2), f.pos)
    PROVE  HandlersExact(cf2, hs2)
  <1> SUFFICES ASSUME NEW k \in 1 .. Len(cf)
               PROVE  Exact(hs2, cf2[k].handlerIndex, EndOf(cf2, hs2, k), cf2[k].pos)
    BY DEF MovesTo, HandlersExact
  <1> DEFINE n == Len(cf)
  <1>1. /\ n \in Nat \ {0} /\ Len(cf2) = n /\ cf2[n] = f
        /\ \A j \in 1 .. n : j # n => cf2[j] = cf[j]
        /\ f.handlerIndex = cf[n].handlerIndex /\ n \in 1 .. n
        /\ \A j \in 1 .. n : cf[j] \in Frames
    BY ElementOfSeq DEF MovesTo, SameCall
  <1>2. CASE k = n
    BY <1>1, <1>2 DEF EndOf
  <1>3. CASE k # n
    <2>1. k + 1 \in 1 .. n /\ k < n
      BY <1>1, <1>3
    <2>2. cf2[k] = cf[k] /\ cf2[k + 1].handlerIndex = cf[k + 1].handlerIndex
      <3>1. k + 1 = n => cf2[k + 1] = f /\ cf[k + 1].handlerIndex = f.handlerIndex
        BY <1>1
      <3>2. k + 1 # n => cf2[k + 1] = cf[k + 1]
        BY <1>1, <2>1
      <3> QED BY <1>1, <1>3, <3>1, <3>2
    <2> DEFINE to == cf[k + 1].handlerIndex
    <2>3. EndOf(cf2, hs2, k) = to /\ EndOf(cf, hs, k) = to
      BY <1>1, <1>3, <2>2 DEF EndOf
    <2>4. to <= f.handlerIndex /\ to \in Nat /\ f.handlerIndex \in Nat /\ cf[k].handlerIndex \in Nat
      BY <1>1, <2>1 DEF Marks
    <2>5. \A i \in cf[k].handlerIndex + 1 .. to : hs2[i] = hs[i]
      BY <2>4
    <2>6. Exact(hs, cf[k].handlerIndex, to, cf[k].pos) /\ cf[k].pos \in Positions
      BY <1>1, <2>3 DEF HandlersExact, Frames
    <2> HIDE DEF to
    <2>7. Exact(hs2, cf[k].handlerIndex, to, cf[k].pos)
      BY <2>4, <2>5, <2>6, ExactAlso
    <2> QED BY <2>2, <2>3, <2>7
  <1> QED BY <1>2, <1>3

(* A frame that is pushed has no handlers yet.                             *)
LEMMA PushKeepsHandlers ==
    ASSUME NEW cf, NEW cf2, NEW f, Pushes(cf, cf2, f), NEW hs, Len(hs) \in Nat,
           HandlersExact(cf, hs), f.handlerIndex = Len(hs)
    PROVE  HandlersExact(cf2, hs)
  <1> DEFINE n == Len(cf)
  <1>1. /\ n \in Nat \ {0} /\ Len(cf2) = n + 1 /\ cf2[n + 1] = f /\ f.pos = <<>>
        /\ \A j \in 1 .. n : cf2[j] = cf[j]
    BY DEF Pushes
  <1> SUFFICES ASSUME NEW k \in 1 .. n + 1
               PROVE  Exact(hs, cf2[k].handlerIndex, EndOf(cf2, hs, k), cf2[k].pos)
    BY <1>1 DEF HandlersExact
  <1>2. CASE k = n + 1
    BY <1>1, <1>2, ExactNowhere DEF EndOf
  <1>3. CASE k # n + 1
    <2>1. k \in 1 .. n /\ cf2[k] = cf[k]
      BY <1>1, <1>3
    <2>2. EndOf(cf2, hs, k) = EndOf(cf, hs, k)
      <3>1. CASE k = n
        BY <1>1, <3>1 DEF EndOf
      <3>2. CASE k # n
        <4>1. k + 1 \in 1 .. n /\ k + 1 # n + 1 /\ k # n + 1
          BY <1>1, <2>1, <3>2
        <4>2. cf2[k + 1] = cf[k + 1]
          BY <1>1, <4>1
        <4> QED BY <1>1, <3>2, <4>1, <4>2 DEF EndOf
      <3> QED BY <3>1, <3>2
    <2> QED BY <2>1, <2>2 DEF HandlersExact
  <1> QED BY <1>2, <1>3

(* The caller of a frame that is popped has the handlers below its mark.   *)
LEMMA PopKeepsHandlers ==
    ASSUME NEW cf, NEW cf2, NEW v, Pops(cf, cf2, v), NEW hs, NEW hs2, Marks(cf, hs),
           HandlersExact(cf, hs), Len(hs2) = cf[Len(cf)].handlerIndex,
           \A i \in 1 .. Len(hs2) : hs2[i] = hs[i]
    PROVE  HandlersExact(cf2, hs2)
  <1> DEFINE n == Len(cf)
             m == cf[Len(cf)].handlerIndex
  <1>1. /\ n \in Nat /\ n > 1 /\ Len(cf2) = n - 1
        /\ \A j \in 1 .. n - 1 : /\ cf2[j].handlerIndex = cf[j].handlerIndex
                                 /\ cf2[j].pos = cf[j].pos
        /\ \A j \in 1 .. n : cf[j] \in Frames
    BY ElementOfSeq DEF Pops, SameCall
  <1> SUFFICES ASSUME NEW k \in 1 .. n - 1
               PROVE  Exact(hs2, cf2[k].handlerIndex, EndOf(cf2, hs2, k), cf2[k].pos)
    BY <1>1 DEF HandlersExact
  <1> DEFINE to == cf[k + 1].handlerIndex
  <1>2. k \in 1 .. n /\ k + 1 \in 1 .. n /\ k # n /\ n \in 1 .. n
    BY <1>1
  <1>3. EndOf(cf, hs, k) = to
    BY <1>2 DEF EndOf
  <1>4. EndOf(cf2, hs2, k) = to
    <2>1. CASE k = n - 1
      BY <1>1, <2>1 DEF EndOf
    <2>2. CASE k # n - 1
      <3>1. k + 1 \in 1 .. n - 1
        BY <1>1, <2>2
      <3> QED BY <1>1, <2>2, <3>1 DEF EndOf
    <2> QED BY <2>1, <2>2
  <1>5. to <= m /\ to \in Nat /\ m \in Nat /\ cf[k].handlerIndex \in Nat
    BY <1>1, <1>2 DEF Marks
  <1>6. \A i \in cf[k].handlerIndex + 1 .. to : hs2[i] = hs[i]
    BY <1>5
  <1>7. Exact(hs, cf[k].handlerIndex, to, cf[k].pos) /\ cf[k].pos \in Positions
    BY <1>1, <1>2, <1>3 DEF HandlersExact, Frames
  <1> HIDE DEF to
  <1>8. Exact(hs2, cf[k].handlerIndex, to, cf[k].pos)
    BY <1>5, <1>6, <1>7, ExactAlso
  <1> QED BY <1>1, <1>4, <1>8

(***************************************************************************)
(* Heights.                                                                *)
(***************************************************************************)
LEMMA MoveKeepsHeights ==
    ASSUME NEW cf, NEW cf2, NEW f, MovesTo(cf, cf2, f), FramesFit(cf), FrameFits(f)
    PROVE  FramesFit(cf2)
  <1> DEFINE n == Len(cf)
  <1>1. /\ n \in Nat \ {0} /\ Len(cf2) = n
        /\ \A k \in 1 .. n : cf2[k] = IF k = n THEN f ELSE cf[k]
        /\ SameCall(f, cf[n])
    BY DEF MovesTo
  <1>2. ASSUME NEW k \in 1 .. n PROVE FrameFits(cf2[k])
    BY <1>1 DEF FramesFit
  <1>3. ASSUME NEW k \in 1 .. n, k < n PROVE CallFits(cf2[k], cf2[k + 1])
    <2>1. k + 1 \in 1 .. n /\ k # n
      BY <1>1, <1>3
    <2>2. cf2[k] = cf[k] /\ SameCall(cf2[k + 1], cf[k + 1])
      BY <1>1, <2>1 DEF SameCall
    <2> QED BY <1>3, <2>2 DEF FramesFit, CallFits, SameCall
  <1> QED BY <1>1, <1>2, <1>3 DEF FramesFit

(* A call keeps the heights when the caller is at that of its handlers.    *)
LEMMA PushKeepsHeights ==
    ASSUME NEW cf, NEW cf2, NEW f, Pushes(cf, cf2, f), FramesFit(cf), CallFits(cf[Len(cf)], f)
    PROVE  FramesFit(cf2)
  <1> DEFINE n == Len(cf)
  <1>1. /\ n \in Nat \ {0} /\ Len(cf2) = n + 1 /\ cf2[n + 1] = f
        /\ \A k \in 1 .. n : cf2[k] = cf[k]
        /\ f.pos = <<>> /\ f.height = 0
    BY DEF Pushes
  <1>2. FrameFits(f)
    <2>1. Len(<<>>) = 0
      OBVIOUS
    <2>2. \A d \in 1 .. Len(f.pos) : FALSE
      BY <1>1, <2>1
    <2> QED BY <1>1, <2>2 DEF FrameFits, HeightsRise, HeightsFit
  <1>3. ASSUME NEW k \in 1 .. n + 1 PROVE FrameFits(cf2[k])
    <2>1. k \in 1 .. n \/ k = n + 1
      BY <1>1
    <2> QED BY <1>1, <1>2, <2>1 DEF FramesFit
  <1>4. ASSUME NEW k \in 1 .. n + 1, k < n + 1 PROVE CallFits(cf2[k], cf2[k + 1])
    <2>1. CASE k = n
      BY <1>1, <2>1
    <2>2. CASE k # n
      <3>1. k \in 1 .. n /\ k + 1 \in 1 .. n /\ k < n
        BY <1>1, <1>4, <2>2
      <3> QED BY <1>1, <3>1 DEF FramesFit
    <2> QED BY <2>1, <2>2
  <1> QED BY <1>1, <1>3, <1>4 DEF FramesFit

(* So does the end of a call, whose value only the caller may get.         *)
LEMMA PopKeepsHeights ==
    ASSUME NEW cf, NEW cf2, NEW v, Pops(cf, cf2, v), FramesFit(cf)
    PROVE  FramesFit(cf2)
  <1> DEFINE n == Len(cf)
  <1>1. /\ n \in Nat /\ n > 1 /\ Len(cf2) = n - 1
        /\ \A k \in 1 .. n - 1 :
              /\ SameCall(cf2[k], cf[k]) /\ cf2[k].pos = cf[k].pos
              /\ cf2[k].height = cf[k].height + (IF k = n - 1 THEN v ELSE 0)
        /\ v \in {0, 1} /\ (cf[n - 1].native => v = 0)
        /\ \A k \in 1 .. n : cf[k] \in Frames
    BY ElementOfSeq DEF Pops
  <1>2. ASSUME NEW k \in 1 .. n - 1 PROVE FrameFits(cf2[k])
    <2>1. k \in 1 .. n
      BY <1>1
    <2> DEFINE f == cf[k]
               g == cf2[k]
    <2>2. f \in Frames /\ FrameFits(f) /\ f.pos \in Positions /\ f.height \in Nat
      BY <1>1, <2>1 DEF FramesFit, Frames
    <2>3. /\ g.handlerIndex = f.handlerIndex /\ g.pos = f.pos /\ g.native = f.native
          /\ g.height \in Nat /\ g.height >= f.height
          /\ g.native => g.height = f.height
      BY <1>1, <2>1, <2>2 DEF SameCall
    <2> HIDE DEF f, g
    <2>4. \A d \in 1 .. Len(f.pos) : f.pos[d].h \in Nat
      BY <2>2, OuterRegions, WholeAndNothing DEF Positions
    <2>5. HeightsRise(g.pos, g.height)
      BY SMTT(30), <2>2, <2>3, <2>4 DEF HeightsRise, FrameFits
    <2>6. FrameFits(g)
      BY <2>2, <2>3, <2>5 DEF FrameFits
    <2> QED BY <2>6 DEF g
  <1>3. ASSUME NEW k \in 1 .. n - 1, k < n - 1 PROVE CallFits(cf2[k], cf2[k + 1])
    <2>1. k \in 1 .. n /\ k + 1 \in 1 .. n - 1 /\ k < n /\ k # n - 1
      BY <1>1, <1>3
    <2>2. CallFits(cf[k], cf[k + 1])
      BY <2>1 DEF FramesFit
    <2>3. cf[k].height \in Nat
      BY <1>1, <2>1 DEF Frames
    <2>4. /\ SameCall(cf2[k], cf[k]) /\ cf2[k].pos = cf[k].pos /\ cf2[k].height = cf[k].height
          /\ SameCall(cf2[k + 1], cf[k + 1])
      BY <1>1, <2>1, <2>3
    <2> QED BY <2>2, <2>4 DEF CallFits, SameCall
  <1> QED BY <1>1, <1>2, <1>3 DEF FramesFit

(***************************************************************************)
(* Places and completions.                                                 *)
(***************************************************************************)
LEMMA PlacesAre ==
    ASSUME NEW cf \in Seq(Frames), NEW codes
    PROVE  \A p : p \in Places(cf, codes) <=>
              /\ p = <<p[1], p[2]>> /\ p[1] \in 1 .. Len(cf)
              /\ p[2] \in 1 .. Len(cf[p[1]].pos) /\ cf[p[1]].pos[p[2]].code \in codes
  <1>1. /\ DOMAIN cf = 1 .. Len(cf)
        /\ \A k \in 1 .. Len(cf) : DOMAIN cf[k].pos = 1 .. Len(cf[k].pos)
    <2>1. ASSUME NEW k \in 1 .. Len(cf) PROVE DOMAIN cf[k].pos = 1 .. Len(cf[k].pos)
      <3>1. cf[k] \in Frames
        BY ElementOfSeq
      <3>2. cf[k].pos \in Seq(Regions)
        BY <3>1 DEF Frames, Positions
      <3> QED BY <3>2, LenProperties
    <2> QED BY <2>1, LenProperties
  <1> TAKE p
  <1>2. p \in Places(cf, codes) <=>
           \E k \in DOMAIN cf : \E d \in DOMAIN cf[k].pos :
              cf[k].pos[d].code \in codes /\ p = <<k, d>>
    BY DEF Places
  <1>3. ASSUME NEW k \in DOMAIN cf, NEW d \in DOMAIN cf[k].pos,
               cf[k].pos[d].code \in codes, p = <<k, d>>
        PROVE  /\ p = <<p[1], p[2]>> /\ p[1] \in 1 .. Len(cf)
               /\ p[2] \in 1 .. Len(cf[p[1]].pos) /\ cf[p[1]].pos[p[2]].code \in codes
    BY <1>1, <1>3
  <1>4. ASSUME p = <<p[1], p[2]>>, p[1] \in 1 .. Len(cf),
               p[2] \in 1 .. Len(cf[p[1]].pos), cf[p[1]].pos[p[2]].code \in codes
        PROVE  \E k \in DOMAIN cf : \E d \in DOMAIN cf[k].pos :
                  cf[k].pos[d].code \in codes /\ p = <<k, d>>
    BY <1>1, <1>4
  <1> QED BY <1>2, <1>3, <1>4

(* A place is a frame and a depth of that frame.                           *)
LEMMA PlaceTypes ==
    ASSUME NEW cf \in Seq(Frames), NEW codes, NEW p \in Places(cf, codes)
    PROVE  /\ p = <<p[1], p[2]>> /\ p[1] \in 1 .. Len(cf) /\ p[1] \in Nat
           /\ p[2] \in 1 .. Len(cf[p[1]].pos) /\ p[2] \in Nat
           /\ cf[p[1]].pos[p[2]].code \in codes
           /\ cf[p[1]] \in Frames
  <1>1. /\ p = <<p[1], p[2]>> /\ p[1] \in 1 .. Len(cf)
        /\ p[2] \in 1 .. Len(cf[p[1]].pos) /\ cf[p[1]].pos[p[2]].code \in codes
    BY PlacesAre
  <1>2. Len(cf) \in Nat /\ cf[p[1]] \in Frames
    BY <1>1, LenProperties, ElementOfSeq
  <1>3. Len(cf[p[1]].pos) \in Nat
    BY <1>2, LenProperties DEF Frames, Positions
  <1> QED BY <1>1, <1>2, <1>3

(* Being caught before x depends on the places before x.                   *)
Agree(cf, cf2, x) ==
    /\ \A p \in Bodies(cf2) : Before(p, x) => p \in Bodies(cf)
    /\ \A q \in Catches(cf) : Before(q, x) => q \in Catches(cf2)

(* What is caught before x stays caught when the places before x stay.     *)
LEMMA CaughtAlso ==
    ASSUME NEW cf, NEW cf2, NEW x, Agree(cf, cf2, x), CaughtBelow(cf, x)
    PROVE  CaughtBelow(cf2, x)
  BY DEF Agree, CaughtBelow

(* A completion fits as before when nothing outside its body changes.      *)
LEMMA StateFitsAlso ==
    ASSUME NEW cf, NEW cf2, NEW s, StateFits(cf, s), s.owner \in Bodies(cf),
           cf \in Seq(Frames),
           cf2[s.owner[1]].value = cf[s.owner[1]].value,
           \A i \in 1 .. s.owner[2] :
              cf2[s.owner[1]].pos[i] = cf[s.owner[1]].pos[i],
           Agree(cf, cf2, s.owner)
    PROVE  StateFits(cf2, s)
  <1> DEFINE k == s.owner[1]
             d == s.owner[2]
  <1>1. d \in 1 .. d /\ \A e \in 1 .. d - 1 : e \in 1 .. d
    <2>1. d \in Nat /\ d \in 1 .. Len(cf[k].pos)
      BY PlaceTypes DEF Bodies
    <2> HIDE DEF d
    <2> QED BY <2>1
  <1>2. Outermost(cf[k].pos, d) => Outermost(cf2[k].pos, d)
    BY <1>1 DEF Outermost
  <1>3. CaughtBelow(cf, s.owner) => CaughtBelow(cf2, s.owner)
    BY CaughtAlso
  <1> QED BY <1>2, <1>3 DEF StateFits

(* Up to depth m the running frame stays where it is.                      *)
Common(pos, pos2, m) ==
    /\ m \in Nat /\ m <= Len(pos) /\ m <= Len(pos2)
    /\ \A i \in 1 .. m : pos2[i] = pos[i]
NoneBeyond(pos, m) == \A d \in m + 1 .. Len(pos) : pos[d].code # "finally"

(* The places outside of depth m stay when the running frame moves.        *)
LEMMA MovedPlaces ==
    ASSUME NEW cf, NEW cf2, NEW f, MovesTo(cf, cf2, f), NEW m,
           Common(cf[Len(cf)].pos, f.pos, m), NEW codes
    PROVE  /\ \A p \in Places(cf, codes) : p[1] # Len(cf) \/ p[2] <= m => p \in Places(cf2, codes)
           /\ \A p \in Places(cf2, codes) : p[1] # Len(cf) \/ p[2] <= m => p \in Places(cf, codes)
  <1> DEFINE n == Len(cf)
  <1>1. /\ cf \in Seq(Frames) /\ cf2 \in Seq(Frames) /\ n \in Nat \ {0} /\ Len(cf2) = n
        /\ \A k \in 1 .. n : cf2[k] = IF k = n THEN f ELSE cf[k]
        /\ cf2[n] = f
    BY DEF MovesTo
  <1>2. /\ m \in Nat /\ Len(f.pos) \in Nat /\ Len(cf[n].pos) \in Nat
        /\ m <= Len(f.pos) /\ m <= Len(cf[n].pos)
        /\ \A i \in 1 .. m : f.pos[i] = cf[n].pos[i]
    <2>1. cf[n] \in Frames /\ f \in Frames
      BY <1>1, ElementOfSeq DEF MovesTo
    <2>2. Len(f.pos) \in Nat /\ Len(cf[n].pos) \in Nat
      BY <2>1, LenProperties DEF Frames, Positions
    <2> QED BY <2>2 DEF Common
  <1>3. ASSUME NEW p \in Places(cf, codes), p[1] # n \/ p[2] <= m PROVE p \in Places(cf2, codes)
    <2>1. /\ p = <<p[1], p[2]>> /\ p[1] \in 1 .. n /\ p[2] \in Nat
          /\ p[2] \in 1 .. Len(cf[p[1]].pos) /\ cf[p[1]].pos[p[2]].code \in codes
      BY <1>1, PlaceTypes
    <2>2. p[2] \in 1 .. Len(cf2[p[1]].pos) /\ cf2[p[1]].pos[p[2]].code \in codes
      <3>1. CASE p[1] # n
        BY <1>1, <2>1, <3>1
      <3>2. CASE p[1] = n
        <4>1. p[2] \in 1 .. m /\ p[2] \in 1 .. Len(f.pos)
          BY <1>2, <1>3, <2>1, <3>2
        <4> QED BY <1>1, <1>2, <2>1, <3>2, <4>1
      <3> QED BY <3>1, <3>2
    <2> QED BY <1>1, <2>1, <2>2, PlacesAre
  <1>4. ASSUME NEW p \in Places(cf2, codes), p[1] # n \/ p[2] <= m PROVE p \in Places(cf, codes)
    <2>1. /\ p = <<p[1], p[2]>> /\ p[1] \in 1 .. n /\ p[2] \in Nat
          /\ p[2] \in 1 .. Len(cf2[p[1]].pos) /\ cf2[p[1]].pos[p[2]].code \in codes
      BY <1>1, PlaceTypes
    <2>2. p[2] \in 1 .. Len(cf[p[1]].pos) /\ cf[p[1]].pos[p[2]].code \in codes
      <3>1. CASE p[1] # n
        BY <1>1, <2>1, <3>1
      <3>2. CASE p[1] = n
        <4>1. p[2] \in 1 .. m /\ p[2] \in 1 .. Len(cf[n].pos)
          BY <1>2, <1>4, <2>1, <3>2
        <4> QED BY <1>1, <1>2, <2>1, <3>2, <4>1
      <3> QED BY <3>1, <3>2
    <2> QED BY <1>1, <2>1, <2>2, PlacesAre
  <1> QED BY <1>3, <1>4

(* No place before a place x of the common part changes.                   *)
LEMMA MovedAgree ==
    ASSUME NEW cf, NEW cf2, NEW f, MovesTo(cf, cf2, f), NEW m,
           Common(cf[Len(cf)].pos, f.pos, m), NEW k \in 1 .. Len(cf), NEW d \in Nat,
           k = Len(cf) => d <= m + 1
    PROVE  Agree(cf, cf2, <<k, d>>)
  <1> DEFINE n == Len(cf)
             x == <<k, d>>
  <1>1. /\ cf \in Seq(Frames) /\ cf2 \in Seq(Frames) /\ n \in Nat \ {0} /\ m \in Nat
        /\ x[1] = k /\ x[2] = d
    BY DEF MovesTo, Common
  <1>2. ASSUME NEW p \in Bodies(cf2), Before(p, x) PROVE p \in Bodies(cf)
    <2>1. p[1] \in Nat /\ p[2] \in Nat
      BY <1>1, PlaceTypes DEF Bodies
    <2>2. p[1] # n \/ p[2] <= m
      <3> HIDE DEF x
      <3>1. p[1] < k \/ (p[1] = k /\ p[2] < d)
        BY <1>1, <1>2 DEF Before
      <3> QED BY <1>1, <2>1, <3>1
    <2> QED BY <2>2, MovedPlaces DEF Bodies
  <1>3. ASSUME NEW p \in Catches(cf), Before(p, x) PROVE p \in Catches(cf2)
    <2>1. p[1] \in Nat /\ p[2] \in Nat
      BY <1>1, PlaceTypes DEF Catches
    <2>2. p[1] # n \/ p[2] <= m
      <3> HIDE DEF x
      <3>1. p[1] < k \/ (p[1] = k /\ p[2] < d)
        BY <1>1, <1>3 DEF Before
      <3> QED BY <1>1, <2>1, <3>1
    <2> QED BY <2>2, MovedPlaces DEF Catches
  <1> QED BY <1>2, <1>3 DEF Agree

(* What the completions of the common part wait for does not change.       *)
LEMMA MovedStateFits ==
    ASSUME NEW cf, NEW cf2, NEW f, MovesTo(cf, cf2, f), NEW m,
           Common(cf[Len(cf)].pos, f.pos, m), NEW s, StateFits(cf, s), s.owner \in Bodies(cf),
           s.owner[1] = Len(cf) => s.owner[2] <= m
    PROVE  StateFits(cf2, s)
  <1> DEFINE n == Len(cf)
             k == s.owner[1]
             d == s.owner[2]
  <1>1. /\ cf \in Seq(Frames) /\ n \in Nat \ {0} /\ m \in Nat
        /\ \A j \in 1 .. n : cf2[j] = IF j = n THEN f ELSE cf[j]
        /\ SameCall(f, cf[n]) /\ \A i \in 1 .. m : f.pos[i] = cf[n].pos[i]
    BY DEF MovesTo, Common
  <1>2. s.owner = <<k, d>> /\ k \in 1 .. n /\ d \in Nat
    BY <1>1, PlaceTypes DEF Bodies
  <1> HIDE DEF k, d
  <1>3. cf2[k].value = cf[k].value
    BY <1>1, <1>2 DEF SameCall
  <1>4. k = n => d <= m
    BY DEF k, d
  <1>5. \A i \in 1 .. d : cf2[k].pos[i] = cf[k].pos[i]
    <2>1. CASE k = n
      <3>1. \A i \in 1 .. d : i \in 1 .. m
        BY <1>1, <1>2, <1>4, <2>1
      <3>2. cf2[k] = f
        BY <1>1, <1>2, <2>1
      <3> QED BY <1>1, <2>1, <3>1, <3>2
    <2>2. CASE k # n
      BY <1>1, <1>2, <2>2
    <2> QED BY <2>1, <2>2
  <1>6. Agree(cf, cf2, s.owner)
    <2>1. k = n => d <= m + 1
      BY <1>1, <1>2, <1>4
    <2> QED BY <1>2, <2>1, MovedAgree
  <1> QED BY <1>1, <1>3, <1>5, <1>6, StateFitsAlso DEF k, d

(* Beyond the common part there are no finally bodies.                     *)
LEMMA WithinCommon ==
    ASSUME NEW cf \in Seq(Frames), NEW n \in 1 .. Len(cf), NEW m \in Nat,
           NoneBeyond(cf[n].pos, m), NEW p \in Bodies(cf)
    PROVE  p[1] # n \/ p[2] <= m
  <1>1. /\ p[2] \in Nat /\ p[2] \in 1 .. Len(cf[p[1]].pos)
        /\ cf[p[1]].pos[p[2]].code \in {"finally"}
    BY PlaceTypes DEF Bodies
  <1> SUFFICES ASSUME p[1] = n, ~(p[2] <= m) PROVE FALSE
    OBVIOUS
  <1>2. p[2] \in m + 1 .. Len(cf[n].pos) /\ cf[n].pos[p[2]].code = "finally"
    <2>1. p[2] \in 1 .. Len(cf[n].pos) /\ cf[n] \in Frames
      BY <1>1, ElementOfSeq
    <2>2. Len(cf[n].pos) \in Nat
      BY <2>1, LenProperties DEF Frames, Positions
    <2> QED BY <1>1, <2>1, <2>2
  <1> QED BY <1>2 DEF NoneBeyond

(* The completions stay when no finally body is entered or left.           *)
LEMMA MoveKeepsStates ==
    ASSUME NEW cf, NEW cf2, NEW f, MovesTo(cf, cf2, f), NEW m,
           Common(cf[Len(cf)].pos, f.pos, m), NoneBeyond(cf[Len(cf)].pos, m),
           NoneBeyond(f.pos, m), NEW st, StatesExact(cf, st)
    PROVE  StatesExact(cf2, st)
  <1> DEFINE n == Len(cf)
  <1>1. /\ cf \in Seq(Frames) /\ cf2 \in Seq(Frames) /\ n \in Nat \ {0} /\ Len(cf2) = n
        /\ n \in 1 .. n /\ cf2[n] = f /\ m \in Nat
    BY DEF MovesTo, Common
  <1>2. ASSUME NEW i \in 1 .. Len(st) PROVE st[i].owner \in Bodies(cf2) /\ StateFits(cf2, st[i])
    <2>1. st[i].owner \in Bodies(cf) /\ StateFits(cf, st[i])
      BY DEF StatesExact
    <2>2. st[i].owner[1] # n \/ st[i].owner[2] <= m
      BY <1>1, <2>1, WithinCommon
    <2>3. st[i].owner \in Bodies(cf2)
      BY <2>1, <2>2, MovedPlaces DEF Bodies
    <2>4. StateFits(cf2, st[i])
      BY <2>1, <2>2, MovedStateFits
    <2> QED BY <2>3, <2>4
  <1>3. ASSUME NEW p \in Bodies(cf2) PROVE \E i \in 1 .. Len(st) : st[i].owner = p
    <2>1. p[1] # n \/ p[2] <= m
      BY <1>1, WithinCommon
    <2>2. p \in Bodies(cf)
      BY <2>1, MovedPlaces DEF Bodies
    <2> QED BY <2>2 DEF StatesExact
  <1> QED BY <1>2, <1>3 DEF StatesExact

(* A finally body is entered, the innermost of all.                        *)
LEMMA MoveAddsState ==
    ASSUME NEW cf, NEW cf2, NEW f, MovesTo(cf, cf2, f), NEW m,
           Common(cf[Len(cf)].pos, f.pos, m), NoneBeyond(cf[Len(cf)].pos, m),
           Len(f.pos) = m + 1, f.pos[m + 1].code = "finally",
           NEW st \in Seq(Completions), StatesExact(cf, st),
           NEW s \in Completions, s.owner = <<Len(cf), m + 1>>, StateFits(cf2, s)
    PROVE  StatesExact(cf2, Append(st, s))
  <1> DEFINE n == Len(cf)
             x == <<n, m + 1>>
             st2 == Append(st, s)
             b == Len(st)
  <1>1. /\ cf \in Seq(Frames) /\ cf2 \in Seq(Frames) /\ n \in Nat \ {0} /\ Len(cf2) = n
        /\ n \in 1 .. n /\ cf2[n] = f /\ m \in Nat
    BY DEF MovesTo, Common
  <1>2. /\ b \in Nat /\ Len(st2) = b + 1 /\ st2[b + 1] = s
        /\ \A i \in 1 .. b : st2[i] = st[i]
    BY AppendProperties, LenProperties
  <1>3. x \in Bodies(cf2)
    <2>1. x[1] = n /\ x[2] = m + 1 /\ x = <<x[1], x[2]>>
      OBVIOUS
    <2>2. m + 1 \in 1 .. Len(f.pos)
      BY <1>1
    <2> HIDE DEF x
    <2> QED BY <1>1, <2>1, <2>2, PlacesAre DEF Bodies
  <1>4. ASSUME NEW i \in 1 .. b
        PROVE  /\ st[i].owner \in Bodies(cf) /\ st[i].owner \in Bodies(cf2)
               /\ StateFits(cf2, st[i]) /\ Before(st[i].owner, x)
    <2>1. st[i].owner \in Bodies(cf) /\ StateFits(cf, st[i])
      BY DEF StatesExact
    <2>2. st[i].owner[1] # n \/ st[i].owner[2] <= m
      BY <1>1, <2>1, WithinCommon
    <2>3. st[i].owner \in Bodies(cf2)
      BY <2>1, <2>2, MovedPlaces DEF Bodies
    <2>4. StateFits(cf2, st[i])
      BY <2>1, <2>2, MovedStateFits
    <2>5. st[i].owner[1] \in 1 .. n /\ st[i].owner[2] \in Nat
      BY <1>1, <2>1, PlaceTypes DEF Bodies
    <2>6. Before(st[i].owner, x)
      BY <1>1, <2>2, <2>5 DEF Before
    <2> QED BY <2>1, <2>3, <2>4, <2>6
  <1> HIDE DEF st2, b, x
  <1>5. ASSUME NEW i \in 1 .. b + 1 PROVE st2[i].owner \in Bodies(cf2) /\ StateFits(cf2, st2[i])
    <2>1. CASE i = b + 1
      BY <1>2, <1>3, <2>1 DEF x
    <2>2. CASE i # b + 1
      <3>1. i \in 1 .. b
        BY <1>2, <2>2
      <3> QED BY <1>2, <1>4, <3>1
    <2> QED BY <2>1, <2>2
  <1>6. ASSUME NEW p \in Bodies(cf2) PROVE \E i \in 1 .. b + 1 : st2[i].owner = p
    <2>1. CASE p[1] # n \/ p[2] <= m
      <3>1. p \in Bodies(cf)
        BY <2>1, MovedPlaces DEF Bodies
      <3>2. PICK i \in 1 .. b : st[i].owner = p
        BY <3>1 DEF StatesExact, b
      <3>3. i \in 1 .. b + 1 /\ st2[i].owner = p
        BY <1>2, <3>2
      <3> QED BY <3>3
    <2>2. CASE p[1] = n /\ ~(p[2] <= m)
      <3>1. p = <<p[1], p[2]>> /\ p[2] \in 1 .. Len(cf2[n].pos) /\ p[2] \in Nat
        BY <1>1, <2>2, PlaceTypes DEF Bodies
      <3>2. p[2] = m + 1
        BY <1>1, <2>2, <3>1
      <3>3. p = x
        BY <2>2, <3>1, <3>2 DEF x
      <3>4. b + 1 \in 1 .. b + 1 /\ st2[b + 1].owner = x
        BY <1>2 DEF x
      <3> QED BY <3>3, <3>4
    <2> QED BY <2>1, <2>2
  <1>7. ASSUME NEW i \in 1 .. b + 1, NEW j \in 1 .. b + 1, i < j
        PROVE  Before(st2[i].owner, st2[j].owner)
    <2>0. i \in 1 .. b
      BY <1>2, <1>7
    <2>1. CASE j = b + 1
      <3>1. st2[i] = st[i] /\ st2[j].owner = x
        BY <1>2, <2>0, <2>1 DEF x
      <3> QED BY <1>4, <2>0, <3>1
    <2>2. CASE j # b + 1
      <3>1. j \in 1 .. b
        BY <1>2, <2>2
      <3> QED BY <1>2, <1>7, <2>0, <3>1 DEF StatesExact, b
    <2> QED BY <2>1, <2>2
  <1> QED BY <1>2, <1>5, <1>6, <1>7 DEF StatesExact, st2

(* The innermost finally body ends: the last completion is its own.        *)
LEMMA MoveEndsState ==
    ASSUME NEW cf, NEW cf2, NEW f, MovesTo(cf, cf2, f), NEW m,
           Common(cf[Len(cf)].pos, f.pos, m), Len(f.pos) = m,
           Len(cf[Len(cf)].pos) = m + 1, cf[Len(cf)].pos[m + 1].code = "finally",
           NEW st \in Seq(Completions), StatesExact(cf, st)
    PROVE  /\ st # <<>> /\ Last(st).owner = <<Len(cf), m + 1>> /\ StateFits(cf, Last(st))
           /\ StatesExact(cf2, Front(st))
  <1> DEFINE n == Len(cf)
             x == <<n, m + 1>>
             b == Len(st)
  <1>1. /\ cf \in Seq(Frames) /\ cf2 \in Seq(Frames) /\ n \in Nat \ {0} /\ Len(cf2) = n
        /\ n \in 1 .. n /\ cf2[n] = f /\ m \in Nat
    BY DEF MovesTo, Common
  <1>2. b \in Nat
    BY LenProperties
  <1>3. x \in Bodies(cf) /\ x[1] = n /\ x[2] = m + 1
    <2>1. x[1] = n /\ x[2] = m + 1 /\ x = <<x[1], x[2]>>
      OBVIOUS
    <2>2. m + 1 \in 1 .. Len(cf[n].pos)
      BY <1>1
    <2>3. cf[n].pos[m + 1].code \in {"finally"}
      OBVIOUS
    <2> HIDE DEF x
    <2>4. /\ x[1] \in 1 .. Len(cf) /\ x[2] \in 1 .. Len(cf[x[1]].pos)
          /\ cf[x[1]].pos[x[2]].code \in {"finally"}
      BY <1>1, <2>1, <2>2, <2>3
    <2>5. x \in Places(cf, {"finally"})
      BY <1>1, <2>1, <2>4, PlacesAre
    <2> QED BY <2>1, <2>5 DEF Bodies
  <1>4. ASSUME NEW p \in Bodies(cf) PROVE ~Before(x, p)
    <2>1. p[1] \in 1 .. n /\ p[2] \in 1 .. Len(cf[p[1]].pos) /\ p[2] \in Nat
      BY <1>1, PlaceTypes DEF Bodies
    <2>2. p[1] = n => p[2] <= m + 1
      BY <1>1, <2>1
    <2> HIDE DEF x
    <2> QED BY <1>1, <1>3, <2>1, <2>2 DEF Before
  <1>5. PICK i \in 1 .. b : st[i].owner = x
    BY <1>3 DEF StatesExact
  <1>6. b \in 1 .. b /\ i = b
    <2>1. b \in 1 .. b
      BY <1>2
    <2>2. i # b => Before(x, st[b].owner) /\ st[b].owner \in Bodies(cf)
      <3>1. i # b => i < b
        BY <1>2
      <3> HIDE DEF x
      <3> QED BY <1>5, <2>1, <3>1 DEF StatesExact
    <2> QED BY <1>4, <2>1, <2>2
  <1>7. /\ st # <<>> /\ Last(st) = st[b]
        /\ Len(Front(st)) = b - 1 /\ \A j \in 1 .. b - 1 : Front(st)[j] = st[j]
    <2>1. st # <<>>
      BY <1>6
    <2> QED BY <2>1, FrontAndLast
  <1> DEFINE st2 == Front(st)
  <1>8. Last(st).owner = x /\ StateFits(cf, Last(st))
    BY <1>5, <1>6, <1>7 DEF StatesExact
  <1>9. ASSUME NEW j \in 1 .. b - 1
        PROVE  /\ j \in 1 .. b /\ st2[j] = st[j]
               /\ st[j].owner \in Bodies(cf2) /\ StateFits(cf2, st[j])
    <2>1. j \in 1 .. b /\ j < b
      BY <1>2
    <2>2. st[j].owner \in Bodies(cf) /\ StateFits(cf, st[j]) /\ Before(st[j].owner, x)
      BY <1>5, <1>6, <2>1 DEF StatesExact
    <2>3. st[j].owner[1] \in 1 .. n /\ st[j].owner[2] \in Nat
      BY <1>1, <2>2, PlaceTypes DEF Bodies
    <2>4. st[j].owner[1] # n \/ st[j].owner[2] <= m
      <3> HIDE DEF x
      <3> QED BY SMTT(30), <1>1, <1>3, <2>2, <2>3 DEF Before
    <2>5. st[j].owner \in Bodies(cf2)
      BY <2>2, <2>4, MovedPlaces DEF Bodies
    <2>6. StateFits(cf2, st[j])
      BY <2>2, <2>4, MovedStateFits
    <2> QED BY <1>7, <2>1, <2>5, <2>6
  <1>10. ASSUME NEW p \in Bodies(cf2) PROVE \E j \in 1 .. b - 1 : st2[j].owner = p
    <2>1. p[1] \in 1 .. n /\ p[2] \in Nat /\ p[2] \in 1 .. Len(cf2[p[1]].pos)
      BY <1>1, PlaceTypes DEF Bodies
    <2>2. p[1] # n \/ p[2] <= m
      BY <1>1, <2>1
    <2>3. p \in Bodies(cf)
      BY <2>2, MovedPlaces DEF Bodies
    <2>4. PICK j \in 1 .. b : st[j].owner = p
      BY <2>3 DEF StatesExact
    <2>5. p # x
      <3> HIDE DEF x
      <3> QED BY <1>1, <1>3, <2>1, <2>2
    <2>6. j # b
      <3> HIDE DEF x
      <3> QED BY <1>5, <1>6, <2>4, <2>5
    <2>7. j \in 1 .. b - 1
      BY <1>2, <2>6
    <2> QED BY <1>9, <2>4, <2>7
  <1> HIDE DEF st2, x
  <1>11. StatesExact(cf2, st2)
    <2>1. Len(st2) = b - 1
      BY <1>7 DEF st2
    <2>2. ASSUME NEW i2 \in 1 .. b - 1, NEW j2 \in 1 .. b - 1, i2 < j2
          PROVE  Before(st2[i2].owner, st2[j2].owner)
      BY <1>9, <2>2 DEF StatesExact
    <2> QED BY <1>9, <1>10, <2>1, <2>2 DEF StatesExact
  <1> QED BY <1>7, <1>8, <1>11 DEF st2, x

(* A new frame is outside of every region.                                 *)
LEMMA PushedPlaces ==
    ASSUME NEW cf, NEW cf2, NEW f, Pushes(cf, cf2, f), NEW codes
    PROVE  Places(cf2, codes) = Places(cf, codes)
  <1> DEFINE n == Len(cf)
  <1>1. /\ cf \in Seq(Frames) /\ cf2 \in Seq(Frames) /\ n \in Nat /\ Len(cf2) = n + 1
        /\ cf2[n + 1] = f /\ f.pos = <<>> /\ \A k \in 1 .. n : cf2[k] = cf[k]
    BY DEF Pushes
  <1>2. ASSUME NEW p \in Places(cf2, codes) PROVE p \in Places(cf, codes)
    <2>1. /\ p = <<p[1], p[2]>> /\ p[1] \in 1 .. n + 1
          /\ p[2] \in 1 .. Len(cf2[p[1]].pos) /\ cf2[p[1]].pos[p[2]].code \in codes
      BY <1>1, PlaceTypes
    <2>2. p[1] # n + 1
      <3>1. Len(f.pos) = 0
        BY <1>1
      <3> QED BY <1>1, <2>1, <3>1
    <2>3. p[1] \in 1 .. n
      BY <1>1, <2>1, <2>2
    <2> QED BY <1>1, <2>1, <2>3, PlacesAre
  <1>3. ASSUME NEW p \in Places(cf, codes) PROVE p \in Places(cf2, codes)
    <2>1. /\ p = <<p[1], p[2]>> /\ p[1] \in 1 .. n /\ p[1] \in 1 .. n + 1
          /\ p[2] \in 1 .. Len(cf[p[1]].pos) /\ cf[p[1]].pos[p[2]].code \in codes
      BY <1>1, PlaceTypes
    <2> QED BY <1>1, <2>1, PlacesAre
  <1> QED BY <1>2, <1>3

(* A call leaves the finally bodies and their completions alone.           *)
LEMMA PushKeepsStates ==
    ASSUME NEW cf, NEW cf2, NEW f, Pushes(cf, cf2, f), NEW st, StatesExact(cf, st)
    PROVE  StatesExact(cf2, st)
  <1>1. Bodies(cf2) = Bodies(cf) /\ Catches(cf2) = Catches(cf) /\ cf \in Seq(Frames)
    BY PushedPlaces DEF Bodies, Catches, Pushes
  <1>2. ASSUME NEW i \in 1 .. Len(st) PROVE StateFits(cf2, st[i])
    <2>1. st[i].owner \in Bodies(cf) /\ StateFits(cf, st[i])
      BY DEF StatesExact
    <2>2. st[i].owner[1] \in 1 .. Len(cf)
      BY <1>1, <2>1, PlaceTypes DEF Bodies
    <2>3. cf2[st[i].owner[1]] = cf[st[i].owner[1]]
      BY <2>2 DEF Pushes
    <2>4. Agree(cf, cf2, st[i].owner)
      BY <1>1 DEF Agree
    <2> QED BY <1>1, <2>1, <2>3, <2>4, StateFitsAlso
  <1> QED BY <1>1, <1>2 DEF StatesExact

(* A frame is popped that is outside of the regions named by codes.        *)
LEMMA PoppedPlaces ==
    ASSUME NEW cf, NEW cf2, NEW v, Pops(cf, cf2, v), NEW codes
    PROVE  /\ \A p \in Places(cf2, codes) : p \in Places(cf, codes) /\ p[1] # Len(cf)
           /\ \A p \in Places(cf, codes) : p[1] # Len(cf) => p \in Places(cf2, codes)
  <1> DEFINE n == Len(cf)
  <1>1. /\ cf \in Seq(Frames) /\ cf2 \in Seq(Frames) /\ n \in Nat /\ Len(cf2) = n - 1
        /\ \A k \in 1 .. n - 1 : cf2[k].pos = cf[k].pos
    BY DEF Pops
  <1>2. ASSUME NEW p \in Places(cf2, codes) PROVE p \in Places(cf, codes) /\ p[1] # n
    <2>1. /\ p = <<p[1], p[2]>> /\ p[1] \in 1 .. n - 1 /\ p[1] \in 1 .. n /\ p[1] # n
          /\ p[2] \in 1 .. Len(cf2[p[1]].pos) /\ cf2[p[1]].pos[p[2]].code \in codes
      BY <1>1, PlaceTypes
    <2> QED BY <1>1, <2>1, PlacesAre
  <1>3. ASSUME NEW p \in Places(cf, codes), p[1] # n PROVE p \in Places(cf2, codes)
    <2>1. /\ p = <<p[1], p[2]>> /\ p[1] \in 1 .. n
          /\ p[2] \in 1 .. Len(cf[p[1]].pos) /\ cf[p[1]].pos[p[2]].code \in codes
      BY <1>1, PlaceTypes
    <2>2. p[1] \in 1 .. n - 1
      BY <1>1, <1>3, <2>1
    <2> QED BY <1>1, <2>1, <2>2, PlacesAre
  <1> QED BY <1>2, <1>3

(* So does the end of a frame in which no finally body runs.               *)
LEMMA PopKeepsStates ==
    ASSUME NEW cf, NEW cf2, NEW v, Pops(cf, cf2, v), NoneBeyond(cf[Len(cf)].pos, 0),
           NEW st, StatesExact(cf, st)
    PROVE  StatesExact(cf2, st) /\ \A i \in 1 .. Len(st) : st[i].owner[1] \in 1 .. Len(cf) - 1
  <1> DEFINE n == Len(cf)
  <1>1. /\ cf \in Seq(Frames) /\ cf2 \in Seq(Frames) /\ n \in Nat /\ Len(cf2) = n - 1
        /\ n \in 1 .. n /\ 0 \in Nat
        /\ \A k \in 1 .. n - 1 : SameCall(cf2[k], cf[k]) /\ cf2[k].pos = cf[k].pos
    BY DEF Pops
  <1>2. ASSUME NEW p \in Bodies(cf) PROVE p[1] \in 1 .. n - 1
    <2>1. p[1] # n \/ p[2] <= 0
      BY <1>1, WithinCommon
    <2>2. p[1] \in 1 .. n /\ p[2] \in 1 .. Len(cf[p[1]].pos) /\ p[2] \in Nat
      BY <1>1, PlaceTypes DEF Bodies
    <2>3. ~(p[2] <= 0)
      BY <2>2
    <2> QED BY <1>1, <2>1, <2>2, <2>3
  <1>3. Bodies(cf2) = Bodies(cf)
    <2>1. \A p \in Bodies(cf) : p[1] # n
      BY <1>1, <1>2
    <2>2. /\ \A p \in Bodies(cf2) : p \in Bodies(cf)
          /\ \A p \in Bodies(cf) : p[1] # n => p \in Bodies(cf2)
      BY PoppedPlaces DEF Bodies
    <2> QED BY <2>1, <2>2
  <1>4. ASSUME NEW i \in 1 .. Len(st)
        PROVE  st[i].owner[1] \in 1 .. n - 1 /\ StateFits(cf2, st[i])
    <2>1. st[i].owner \in Bodies(cf) /\ StateFits(cf, st[i])
      BY DEF StatesExact
    <2> DEFINE k == st[i].owner[1]
    <2>2. k \in 1 .. n - 1
      BY <1>2, <2>1
    <2>3. cf2[k].value = cf[k].value /\ cf2[k].pos = cf[k].pos
      BY <1>1, <2>2 DEF SameCall
    <2>4. Agree(cf, cf2, st[i].owner)
      <3>1. ASSUME NEW q \in Catches(cf), Before(q, st[i].owner) PROVE q[1] # n
        <4>1. q[1] \in Nat
          BY <1>1, PlaceTypes DEF Catches
        <4>2. q[1] < k \/ q[1] = k
          BY <3>1 DEF Before
        <4> HIDE DEF k
        <4> QED BY <1>1, <2>2, <4>1, <4>2
      <3> QED BY <1>3, <3>1, PoppedPlaces DEF Agree, Catches
    <2>5. StateFits(cf2, st[i])
      BY <1>1, <2>1, <2>3, <2>4, StateFitsAlso
    <2> QED BY <2>2, <2>5
  <1> QED BY <1>3, <1>4 DEF StatesExact

(***************************************************************************)
(* Operands.                                                               *)
(***************************************************************************)
HeldBelow(cf, k) == Held(SubSeq(cf, 1, k - 1))

(* What a frame is made of.                                                *)
LEMMA FrameTypes ==
    ASSUME NEW cf \in Seq(Frames)
    PROVE  /\ Len(cf) \in Nat
           /\ \A k \in 1 .. Len(cf) :
                 /\ cf[k] \in Frames /\ cf[k].height \in Nat /\ cf[k].handlerIndex \in Nat
                 /\ cf[k].startStackCount \in Int /\ cf[k].pos \in Positions
                 /\ Len(cf[k].pos) \in Nat /\ cf[k].value \in BOOLEAN
                 /\ cf[k].native \in BOOLEAN /\ cf[k].boundary \in BOOLEAN
  <1>1. ASSUME NEW k \in 1 .. Len(cf)
        PROVE  /\ cf[k] \in Frames /\ cf[k].height \in Nat /\ cf[k].handlerIndex \in Nat
               /\ cf[k].startStackCount \in Int /\ cf[k].pos \in Positions
               /\ Len(cf[k].pos) \in Nat /\ cf[k].value \in BOOLEAN
               /\ cf[k].native \in BOOLEAN /\ cf[k].boundary \in BOOLEAN
    <2>1. cf[k] \in Frames
      BY ElementOfSeq
    <2>2. cf[k].pos \in Positions
      BY <2>1 DEF Frames
    <2>3. Len(cf[k].pos) \in Nat
      BY <2>2, LenProperties DEF Positions
    <2> QED BY <2>1, <2>2, <2>3 DEF Frames
  <1> QED BY <1>1, LenProperties

(* Only the heights of the frames are counted.                             *)
LEMMA HeldAgrees ==
    ASSUME NEW cf, NEW cf2, Len(cf2) = Len(cf),
           \A k \in 1 .. Len(cf) : cf2[k].height = cf[k].height
    PROVE  Held(cf2) = Held(cf)
  <1>1. [k \in 1 .. Len(cf2) |-> cf2[k].height] = [k \in 1 .. Len(cf) |-> cf[k].height]
    OBVIOUS
  <1> QED BY <1>1 DEF Held

(* The same, below a frame.                                                *)
LEMMA HeldBelowAgrees ==
    ASSUME NEW cf \in Seq(Frames), NEW cf2 \in Seq(Frames), NEW n \in Nat,
           n <= Len(cf), n <= Len(cf2),
           \A k \in 1 .. n : cf2[k].height = cf[k].height
    PROVE  \A k \in 1 .. n + 1 : HeldBelow(cf2, k) = HeldBelow(cf, k)
  <1> TAKE k \in 1 .. n + 1
  <1>1. Len(cf) \in Nat /\ Len(cf2) \in Nat
    BY LenProperties
  <1>2. k - 1 \in 0 .. Len(cf) /\ k - 1 \in 0 .. Len(cf2) /\ \A i \in 1 .. k - 1 : i \in 1 .. n
    BY <1>1
  <1> DEFINE a == SubSeq(cf, 1, k - 1)
             b == SubSeq(cf2, 1, k - 1)
  <1>3. /\ Len(a) = k - 1 /\ Len(b) = k - 1
        /\ \A i \in 1 .. k - 1 : a[i] = cf[i] /\ b[i] = cf2[i]
    BY <1>2, Prefix
  <1> HIDE DEF a, b
  <1>4. \A i \in 1 .. Len(a) : b[i].height = a[i].height
    BY <1>2, <1>3
  <1>5. Held(b) = Held(a)
    BY <1>3, <1>4, HeldAgrees
  <1> QED BY <1>5 DEF HeldBelow, a, b

(* The last frame adds what it holds.                                      *)
LEMMA HeldOfLast ==
    ASSUME NEW cf \in Seq(Frames), NEW n \in Nat, n = Len(cf), n > 0
    PROVE  /\ Held(cf) \in Int /\ HeldBelow(cf, n) \in Int /\ cf[n].height \in Nat
           /\ Held(cf) = HeldBelow(cf, n) + cf[n].height
  <1> DEFINE f == [k \in 1 .. n |-> cf[k].height]
             below == SubSeq(cf, 1, n - 1)
             g == [k \in 1 .. Len(below) |-> below[k].height]
  <1>1. \A k \in 1 .. n : cf[k] \in Frames /\ cf[k].height \in Int
    BY FrameTypes
  <1>2. n \in 1 .. n /\ IsFiniteSet(1 .. n) /\ DOMAIN f = 1 .. n
    BY FS_Interval
  <1>3. n - 1 \in 0 .. Len(cf)
    OBVIOUS
  <1>4. Len(below) = n - 1 /\ \A k \in 1 .. n - 1 : below[k] = cf[k]
    BY <1>3, Prefix
  <1>5. (1 .. n) \ {n} = 1 .. n - 1
    OBVIOUS
  <1>6. DOMAIN g = 1 .. n - 1 /\ IsFiniteSet(1 .. n - 1)
    <2>1. IsFiniteSet(1 .. n - 1)
      BY FS_Interval
    <2> HIDE DEF below
    <2> QED BY <1>4, <2>1
  <1>7. \A k \in 1 .. n : f[k] \in Int
    BY <1>1
  <1>8. /\ SumFunctionOnSet(f, 1 .. n) \in Int
        /\ SumFunctionOnSet(f, (1 .. n) \ {n}) \in Int
        /\ SumFunctionOnSet(f, 1 .. n) = f[n] + SumFunctionOnSet(f, (1 .. n) \ {n})
    <2> HIDE DEF f
    <2> QED BY <1>2, <1>7, SumRemove
  <1>9. \A k \in 1 .. n - 1 : f[k] \in Int /\ g[k] = f[k]
    <2> HIDE DEF below
    <2>1. ASSUME NEW k \in 1 .. n - 1 PROVE k \in 1 .. n /\ k \in 1 .. Len(below)
      BY <1>4
    <2> QED BY <1>1, <1>4, <2>1
  <1>10. SumFunctionOnSet(f, 1 .. n - 1) = SumFunctionOnSet(g, 1 .. n - 1)
    <2> HIDE DEF f, g
    <2> QED BY <1>6, <1>9, SumAgrees
  <1>11. Held(cf) = SumFunctionOnSet(f, 1 .. n)
    <2>1. Held(cf) = SumFunction(f)
      BY DEF Held
    <2>2. SumFunction(f) = SumFunctionOnSet(f, 1 .. n)
      <3> HIDE DEF f
      <3> QED BY <1>2 DEF SumFunction
    <2> QED BY <2>1, <2>2
  <1>12. HeldBelow(cf, n) = SumFunctionOnSet(g, 1 .. n - 1)
    <2>1. HeldBelow(cf, n) = SumFunction(g)
      BY DEF HeldBelow, Held
    <2>2. SumFunction(g) = SumFunctionOnSet(g, 1 .. n - 1)
      <3> HIDE DEF g
      <3> QED BY <1>6 DEF SumFunction
    <2> QED BY <2>1, <2>2
  <1>13. cf[n].height \in Nat /\ f[n] = cf[n].height
    BY <1>2, FrameTypes
  <1> DEFINE all == SumFunctionOnSet(f, 1 .. n)
             rest == SumFunctionOnSet(f, 1 .. n - 1)
  <1>14. /\ all \in Int /\ rest \in Int /\ all = f[n] + rest
    <2> HIDE DEF f
    <2> QED BY <1>5, <1>8
  <1>15. Held(cf) = all /\ HeldBelow(cf, n) = rest
    BY <1>10, <1>11, <1>12
  <1> HIDE DEF f, all, rest
  <1> QED BY <1>13, <1>14, <1>15

(* The values that returns below frame k wait with.                        *)
LEMMA KeptOfAppend ==
    ASSUME NEW st \in Seq(Completions), NEW s \in Completions, NEW k \in Nat
    PROVE  /\ KeptBelow(st, k) \in Nat
           /\ KeptBelow(Append(st, s), k)
                  = KeptBelow(st, k) + (IF s.kept /\ s.owner[1] < k THEN 1 ELSE 0)
  <1> DEFINE b == Len(st)
             st2 == Append(st, s)
             K == {i \in 1 .. Len(st) : st[i].kept /\ st[i].owner[1] < k}
             K2 == {i \in 1 .. Len(st2) : st2[i].kept /\ st2[i].owner[1] < k}
  <1>1. /\ b \in Nat /\ Len(st2) = b + 1 /\ st2[b + 1] = s
        /\ \A i \in 1 .. b : st2[i] = st[i]
    BY AppendProperties, LenProperties
  <1>2. IsFiniteSet(K) /\ b + 1 \notin K
    <2>1. IsFiniteSet(1 .. b) /\ K \in SUBSET (1 .. b)
      BY <1>1, FS_Interval
    <2>2. b + 1 \notin K
      BY <1>1
    <2> HIDE DEF K
    <2>3. IsFiniteSet(K)
      BY <2>1, FS_Subset
    <2> QED BY <2>2, <2>3
  <1>3. K2 = IF s.kept /\ s.owner[1] < k THEN K \cup {b + 1} ELSE K
    <2> HIDE DEF st2
    <2>1. ASSUME NEW i \in 1 .. b + 1 PROVE i = b + 1 \/ i \in 1 .. b
      BY <1>1
    <2>2. b + 1 \in 1 .. b + 1 /\ b + 1 \notin 1 .. b /\ \A i \in 1 .. b : i \in 1 .. b + 1
      BY <1>1
    <2> QED BY <1>1, <2>1, <2>2
  <1>4. Cardinality(K) \in Nat /\ Cardinality(K \cup {b + 1}) = Cardinality(K) + 1
    <2> HIDE DEF K
    <2> QED BY <1>2, AddOne
  <1>5. KeptBelow(st, k) = Cardinality(K) /\ KeptBelow(st2, k) = Cardinality(K2)
    BY DEF KeptBelow
  <1> HIDE DEF K, K2, st2
  <1>6. KeptBelow(st2, k) = KeptBelow(st, k) + (IF s.kept /\ s.owner[1] < k THEN 1 ELSE 0)
    BY <1>3, <1>4, <1>5
  <1> QED BY <1>4, <1>5, <1>6 DEF st2

(* The last completion takes its value with it.                            *)
LEMMA KeptOfFront ==
    ASSUME NEW st \in Seq(Completions), st # <<>>, NEW k \in Nat
    PROVE  /\ KeptBelow(Front(st), k) \in Nat
           /\ KeptBelow(st, k) = KeptBelow(Front(st), k)
                  + (IF Last(st).kept /\ Last(st).owner[1] < k THEN 1 ELSE 0)
  <1> DEFINE a == Front(st)
             s == Last(st)
  <1>1. a \in Seq(Completions) /\ s \in Completions /\ st = Append(a, s)
    BY FrontAndLast
  <1> HIDE DEF a, s
  <1>2. /\ KeptBelow(a, k) \in Nat
        /\ KeptBelow(Append(a, s), k) = KeptBelow(a, k) + (IF s.kept /\ s.owner[1] < k THEN 1 ELSE 0)
    BY <1>1, KeptOfAppend
  <1> QED BY <1>1, <1>2 DEF a, s

(* A frame without completions adds none.                                  *)
LEMMA KeptBelowSame ==
    ASSUME NEW st, NEW n \in Nat,
           \A i \in 1 .. Len(st) : st[i].owner[1] \in Nat /\ st[i].owner[1] # n
    PROVE  KeptBelow(st, n + 1) = KeptBelow(st, n)
  <1>1. {i \in 1 .. Len(st) : st[i].kept /\ st[i].owner[1] < n + 1}
        = {i \in 1 .. Len(st) : st[i].kept /\ st[i].owner[1] < n}
    <2>1. \A i \in 1 .. Len(st) : st[i].owner[1] < n + 1 <=> st[i].owner[1] < n
      OBVIOUS
    <2> QED BY <2>1
  <1> QED BY <1>1 DEF KeptBelow

(* What a move, a push and a pop do to all this.                           *)
LEMMA MovedOperands ==
    ASSUME NEW cf, NEW cf2, NEW f, MovesTo(cf, cf2, f), NEW st, NEW st2, StartsFit(cf, st),
           \A k \in 1 .. Len(cf) : KeptBelow(st2, k) = KeptBelow(st, k)
    PROVE  /\ StartsFit(cf2, st2)
           /\ HeldBelow(cf, Len(cf)) \in Int /\ f.height \in Nat /\ cf[Len(cf)].height \in Nat
           /\ Held(cf) = HeldBelow(cf, Len(cf)) + cf[Len(cf)].height
           /\ Held(cf2) = HeldBelow(cf, Len(cf)) + f.height
  <1> DEFINE n == Len(cf)
  <1>1. /\ cf \in Seq(Frames) /\ cf2 \in Seq(Frames) /\ n \in Nat \ {0} /\ Len(cf2) = n
        /\ \A k \in 1 .. n : cf2[k] = IF k = n THEN f ELSE cf[k]
        /\ SameCall(f, cf[n])
    BY DEF MovesTo
  <1>2. \A k \in 1 .. n : HeldBelow(cf2, k) = HeldBelow(cf, k)
    <2>1. /\ n - 1 \in Nat /\ n - 1 <= Len(cf) /\ n - 1 <= Len(cf2)
          /\ \A k \in 1 .. n - 1 : cf2[k].height = cf[k].height
      BY <1>1
    <2>2. \A k \in 1 .. (n - 1) + 1 : HeldBelow(cf2, k) = HeldBelow(cf, k)
      BY <1>1, <2>1, HeldBelowAgrees
    <2>3. (n - 1) + 1 = n
      BY <1>1
    <2> QED BY <2>2, <2>3
  <1>3. StartsFit(cf2, st2)
    <2>1. ASSUME NEW k \in 1 .. n
          PROVE  HeldBelow(cf2, k) + KeptBelow(st2, k) <= cf2[k].startStackCount
      <3>1. HeldBelow(cf, k) + KeptBelow(st, k) <= cf[k].startStackCount
        BY DEF StartsFit, HeldBelow
      <3>2. cf2[k].startStackCount = cf[k].startStackCount
        BY <1>1 DEF SameCall
      <3> QED BY <1>2, <3>1, <3>2
    <2> QED BY <1>1, <2>1 DEF StartsFit, HeldBelow
  <1>4. /\ HeldBelow(cf, n) \in Int /\ cf[n].height \in Nat
        /\ Held(cf) = HeldBelow(cf, n) + cf[n].height
    BY <1>1, HeldOfLast
  <1>5. /\ cf2[n].height \in Nat /\ Held(cf2) = HeldBelow(cf2, n) + cf2[n].height
    BY <1>1, HeldOfLast
  <1>6. cf2[n] = f /\ HeldBelow(cf2, n) = HeldBelow(cf, n)
    BY <1>1, <1>2
  <1> QED BY <1>3, <1>4, <1>5, <1>6

(* A new frame starts above all operands and waiting values.               *)
LEMMA PushedOperands ==
    ASSUME NEW cf, NEW cf2, NEW f, Pushes(cf, cf2, f), NEW st, StartsFit(cf, st),
           Held(cf) + KeptBelow(st, Len(cf) + 1) <= f.startStackCount
    PROVE  StartsFit(cf2, st) /\ Held(cf2) = Held(cf) /\ Held(cf) \in Int
  <1> DEFINE n == Len(cf)
  <1>1. /\ cf \in Seq(Frames) /\ cf2 \in Seq(Frames) /\ n \in Nat \ {0} /\ Len(cf2) = n + 1
        /\ \A k \in 1 .. n : cf2[k] = cf[k]
        /\ cf2[n + 1] = f /\ f.height = 0
    BY DEF Pushes
  <1>2. \A k \in 1 .. n + 1 : HeldBelow(cf2, k) = HeldBelow(cf, k)
    BY <1>1, HeldBelowAgrees
  <1>3. HeldBelow(cf, n + 1) = Held(cf)
    <2> DEFINE a == SubSeq(cf, 1, n)
    <2>1. n \in 0 .. Len(cf)
      BY <1>1
    <2>2. Len(a) = n /\ \A k \in 1 .. n : a[k] = cf[k]
      BY <1>1, <2>1, Prefix
    <2>3. Held(a) = Held(cf)
      <3> HIDE DEF a
      <3> QED BY <2>2, HeldAgrees
    <2>4. (n + 1) - 1 = n
      BY <1>1
    <2> QED BY <2>3, <2>4 DEF HeldBelow
  <1>4. /\ HeldBelow(cf2, n + 1) \in Int
        /\ Held(cf2) = HeldBelow(cf2, n + 1) + cf2[n + 1].height
    BY <1>1, HeldOfLast
  <1>5. HeldBelow(cf2, n + 1) = Held(cf)
    BY <1>1, <1>2, <1>3
  <1>6. ASSUME NEW k \in 1 .. n + 1
        PROVE  HeldBelow(cf2, k) + KeptBelow(st, k) <= cf2[k].startStackCount
    <2>1. CASE k = n + 1
      BY <1>1, <1>5, <2>1
    <2>2. CASE k # n + 1
      <3>1. k \in 1 .. n
        BY <1>1, <2>2
      <3>2. HeldBelow(cf, k) + KeptBelow(st, k) <= cf[k].startStackCount
        BY <3>1 DEF StartsFit, HeldBelow
      <3> QED BY <1>1, <1>2, <3>1, <3>2
    <2> QED BY <2>1, <2>2
  <1> QED BY <1>1, <1>4, <1>5, <1>6 DEF StartsFit, HeldBelow

(* The end of a frame leaves what the frames below hold, and its value.    *)
LEMMA PoppedOperands ==
    ASSUME NEW cf, NEW cf2, NEW v, Pops(cf, cf2, v), NEW st, StartsFit(cf, st)
    PROVE  /\ StartsFit(cf2, st)
           /\ HeldBelow(cf, Len(cf)) \in Int /\ cf[Len(cf)].height \in Nat
           /\ Held(cf) = HeldBelow(cf, Len(cf)) + cf[Len(cf)].height
           /\ Held(cf2) = HeldBelow(cf, Len(cf)) + v
  <1> DEFINE n == Len(cf)
             below == SubSeq(cf, 1, n - 1)
  <1>1. /\ cf \in Seq(Frames) /\ cf2 \in Seq(Frames) /\ n \in Nat /\ n > 1 /\ Len(cf2) = n - 1
        /\ \A k \in 1 .. n - 1 :
              /\ SameCall(cf2[k], cf[k])
              /\ cf2[k].height = cf[k].height + (IF k = n - 1 THEN v ELSE 0)
        /\ v \in {0, 1} /\ \A k \in 1 .. n : cf[k] \in Frames /\ cf[k].height \in Nat
    BY FrameTypes DEF Pops
  <1>2. /\ HeldBelow(cf, n) \in Int /\ cf[n].height \in Nat
        /\ Held(cf) = HeldBelow(cf, n) + cf[n].height
    BY <1>1, HeldOfLast
  <1>3. /\ n - 2 \in Nat /\ n - 1 \in Nat /\ n - 1 > 0 /\ (n - 2) + 1 = n - 1 /\ n - 1 \in 1 .. n - 1
        /\ n - 1 \in 0 .. Len(cf)
    BY <1>1
  <1>4. below \in Seq(Frames) /\ Len(below) = n - 1 /\ \A k \in 1 .. n - 1 : below[k] = cf[k]
    BY <1>1, <1>3, Prefix
  <1>5. HeldBelow(cf, n) = Held(below)
    BY DEF HeldBelow
  <1> HIDE DEF below
  <1>6. Held(below) = HeldBelow(below, n - 1) + below[n - 1].height
        /\ HeldBelow(below, n - 1) \in Int
    BY <1>3, <1>4, HeldOfLast
  <1>7. Held(cf2) = HeldBelow(cf2, n - 1) + cf2[n - 1].height
    BY <1>1, <1>3, HeldOfLast
  <1>8. ASSUME NEW g \in Seq(Frames), NEW m \in Nat, n - 2 <= m, Len(g) = m,
               \A k \in 1 .. n - 2 : g[k].height = cf[k].height
        PROVE  \A k \in 1 .. n - 1 : HeldBelow(g, k) = HeldBelow(cf, k)
    <2>1. n - 2 <= Len(cf)
      BY <1>1
    <2>2. \A k \in 1 .. (n - 2) + 1 : HeldBelow(g, k) = HeldBelow(cf, k)
      BY <1>1, <1>3, <1>8, <2>1, HeldBelowAgrees
    <2> QED BY <1>3, <2>2
  <1>9. ASSUME NEW k \in 1 .. n - 2
        PROVE  below[k].height = cf[k].height /\ cf2[k].height = cf[k].height
    <2>1. k \in 1 .. n - 1 /\ k # n - 1 /\ k \in 1 .. n
      BY <1>1
    <2> QED BY <1>1, <1>4, <2>1
  <1>10. \A k \in 1 .. n - 1 : HeldBelow(below, k) = HeldBelow(cf, k)
    <2>1. n - 2 <= n - 1
      BY <1>1
    <2> QED BY <1>3, <1>4, <1>8, <1>9, <2>1
  <1>11. \A k \in 1 .. n - 1 : HeldBelow(cf2, k) = HeldBelow(cf, k)
    <2>1. n - 2 <= n - 1
      BY <1>1
    <2> QED BY <1>1, <1>3, <1>8, <1>9, <2>1
  <1>12. Held(cf2) = HeldBelow(cf, n) + v
    <2>1. HeldBelow(cf2, n - 1) = HeldBelow(below, n - 1)
      BY <1>3, <1>10, <1>11
    <2>2. below[n - 1].height \in Nat /\ cf2[n - 1].height = below[n - 1].height + v
      <3>1. n - 1 \in 1 .. n
        BY <1>1
      <3> QED BY <1>1, <1>3, <1>4, <3>1
    <2> QED BY <1>1, <1>5, <1>6, <1>7, <2>1, <2>2
  <1>13. ASSUME NEW k \in 1 .. n - 1
         PROVE  HeldBelow(cf2, k) + KeptBelow(st, k) <= cf2[k].startStackCount
    <2>1. k \in 1 .. n
      BY <1>1
    <2>2. HeldBelow(cf, k) + KeptBelow(st, k) <= cf[k].startStackCount
      BY <2>1 DEF StartsFit, HeldBelow
    <2> QED BY <1>1, <1>11, <2>2 DEF SameCall
  <1> QED BY <1>1, <1>2, <1>12, <1>13 DEF StartsFit, HeldBelow

(***************************************************************************)
(* Positions a step goes to.                                               *)
(***************************************************************************)
(* Regions without handlers do not count.                                  *)
LEMMA NoHandlersBeyond ==
    ASSUME NEW pos \in Positions, NEW n \in 0 .. Len(pos),
           \A e \in n + 1 .. Len(pos) : Weight(pos[e].code) = 0
    PROVE  HandlerCount(Outer(pos, n)) = HandlerCount(pos)
  <1> DEFINE T == {k \in n .. Len(pos) : HandlerCount(Outer(pos, k)) = HandlerCount(pos)}
  <1>1. Len(pos) \in Nat /\ n \in Nat /\ Outer(pos, Len(pos)) = pos
    BY OuterRegions, WholeAndNothing
  <1>2. T \in SUBSET Nat /\ Len(pos) \in T
    BY <1>1
  <1>3. PICK k \in T : \A j \in T : k <= j
    <2> HIDE DEF T
    <2> QED BY <1>2, LeastNatural
  <1>4. k \in n .. Len(pos) /\ HandlerCount(Outer(pos, k)) = HandlerCount(pos) /\ k \in Nat
    BY <1>1, <1>3
  <1>5. CASE k = n
    BY <1>4, <1>5
  <1>6. CASE k # n
    <2>1. k \in n + 1 .. Len(pos) /\ k \in 1 .. Len(pos) /\ k - 1 \in n .. Len(pos)
          /\ ~(k <= k - 1)
      BY <1>1, <1>4, <1>6
    <2>2. /\ HandlerCount(Outer(pos, k)) = HandlerCount(Outer(pos, k - 1)) + Weight(pos[k].code)
          /\ k - 1 \in 0 .. Len(pos)
      BY <2>1, CountOfOuter
    <2>3. HandlerCount(Outer(pos, k - 1)) \in Nat
      BY <2>2, CountOfOuter
    <2>4. k - 1 \in T
      BY <1>4, <2>1, <2>2, <2>3
    <2> HIDE DEF T
    <2> QED BY <1>3, <2>1, <2>4
  <1> QED BY <1>5, <1>6

(* The regions that have handlers.                                         *)
LEMMA WeightedCodes ==
    ASSUME NEW code
    PROVE  /\ Weight(code) \in Nat
           /\ Weight(code) > 0 <=> code \in Tries \cup WithFinally
           /\ code = "finally" => Weight(code) = 0
           /\ code \in {"try", "tryCF"} => Weight(code) > 0
  BY DEF Weight, Tries, WithFinally

(* Where there are no handlers there is nothing an exception would reach.  *)
LEMMA NoHandlers ==
    ASSUME NEW pos \in Positions, HandlerCount(pos) = 0
    PROVE  /\ \A d \in 1 .. Len(pos) : Weight(pos[d].code) = 0
           /\ HandlerHeight(pos) = 0
  <1>1. Len(pos) \in Nat /\ DOMAIN pos = 1 .. Len(pos)
    BY OuterRegions
  <1>2. ASSUME NEW d \in 1 .. Len(pos) PROVE Weight(pos[d].code) = 0
    <2>1. /\ d - 1 \in 0 .. Len(pos) /\ Weight(pos[d].code) \in Nat
          /\ HandlerCount(Outer(pos, d))
                 = HandlerCount(Outer(pos, d - 1)) + Weight(pos[d].code)
      BY CountOfOuter
    <2>2. d \in 0 .. Len(pos)
      BY <1>1
    <2>3. /\ HandlerCount(Outer(pos, d - 1)) \in Nat /\ HandlerCount(Outer(pos, d)) \in Nat
          /\ HandlerCount(Outer(pos, d)) <= 0
      BY <2>1, <2>2, CountOfOuter
    <2> QED BY <2>1, <2>3
  <1>3. {d \in DOMAIN pos : pos[d].code \in Tries \cup WithFinally} = {}
    <2>1. ASSUME NEW d \in 1 .. Len(pos) PROVE pos[d].code \notin Tries \cup WithFinally
      <3>1. ~(Weight(pos[d].code) > 0)
        BY <1>2
      <3> QED BY <3>1, WeightedCodes
    <2> QED BY <1>1, <2>1
  <1>4. HandlerHeight(pos) = 0
    BY <1>3 DEF HandlerHeight
  <1> QED BY <1>2, <1>4

(* The height an exception restores is that of the innermost region with a *)
(* handler.                                                                *)
LEMMA HandlerHeightIs ==
    ASSUME NEW pos \in Positions, NEW d \in 1 .. Len(pos), Weight(pos[d].code) > 0,
           \A e \in d + 1 .. Len(pos) : Weight(pos[e].code) = 0
    PROVE  HandlerHeight(pos) = pos[d].h
  <1> DEFINE A == {e \in DOMAIN pos : pos[e].code \in Tries \cup WithFinally}
  <1>1. Len(pos) \in Nat /\ DOMAIN pos = 1 .. Len(pos)
    BY OuterRegions
  <1>2. A \in SUBSET (0 .. Len(pos)) /\ d \in A
    <2>1. pos[d].code \in Tries \cup WithFinally
      BY WeightedCodes
    <2> QED BY <1>1, <2>1
  <1>3. ASSUME NEW e \in A PROVE e <= d
    <2>1. e \in 1 .. Len(pos) /\ Weight(pos[e].code) > 0
      BY <1>1, WeightedCodes
    <2>2. e \notin d + 1 .. Len(pos)
      BY <2>1
    <2> HIDE DEF A
    <2> QED BY <1>1, <2>1, <2>2
  <1>4. Max(A) = d
    <2>1. Max(A) \in A /\ \A e \in A : e <= Max(A)
      <3> HIDE DEF A
      <3>1. A # {}
        BY <1>2
      <3> QED BY <1>1, <1>2, <3>1, GreatestNumber
    <2>2. d <= Max(A) /\ Max(A) <= d /\ Max(A) \in Nat
      <3>1. Max(A) \in 0 .. Len(pos)
        <4> HIDE DEF A
        <4> QED BY <1>2, <2>1
      <3> HIDE DEF A
      <3> QED BY <1>1, <1>2, <1>3, <2>1, <3>1
    <2> HIDE DEF A
    <2> QED BY <2>2
  <1>5. HandlerHeight(pos) = IF A = {} THEN 0 ELSE pos[Max(A)].h
    BY DEF HandlerHeight
  <1> HIDE DEF A
  <1> QED BY <1>2, <1>4, <1>5

(* The heights of outer regions, of a clause, and of a region entered.     *)
LEMMA OuterHeights ==
    ASSUME NEW pos \in Positions, NEW height, NEW from, HeightsRise(pos, height),
           HeightsFit(from, pos), NEW n \in 0 .. Len(pos), NEW height2,
           \A d \in 1 .. n : pos[d].h <= height2
    PROVE  HeightsRise(Outer(pos, n), height2) /\ HeightsFit(from, Outer(pos, n))
  <1> DEFINE out == Outer(pos, n)
  <1>1. /\ Len(pos) \in Nat /\ Len(out) = n /\ \A i \in 1 .. n : out[i] = pos[i]
        /\ \A i \in 1 .. n : i \in 1 .. Len(pos) /\ i - 1 \in 0 .. n
    BY OuterRegions
  <1>2. \A i \in 0 .. n : Outer(out, i) = Outer(pos, i)
    BY OuterOfOuter
  <1> HIDE DEF out
  <1>3. HeightsRise(out, height2)
    <2>1. ASSUME NEW d \in 1 .. n, NEW e \in 1 .. d PROVE e \in 1 .. n
      BY <1>1
    <2> QED BY <1>1, <2>1 DEF HeightsRise
  <1>4. HeightsFit(from, out)
    BY <1>1, <1>2 DEF HeightsFit
  <1> QED BY <1>3, <1>4 DEF out

(* Entering a region at the height of the handlers around it.              *)
LEMMA AppendHeights ==
    ASSUME NEW pos \in Positions, NEW height \in Nat, NEW from, HeightsRise(pos, height),
           HeightsFit(from, pos), NEW r \in Regions, r.h = height,
           from + HandlerCount(pos) = 0 \/ height = HandlerHeight(pos)
    PROVE  HeightsRise(Append(pos, r), height) /\ HeightsFit(from, Append(pos, r))
  <1> DEFINE long == Append(pos, r)
             n == Len(pos)
  <1>1. /\ n \in Nat /\ Len(long) = n + 1 /\ long[n + 1] = r
        /\ \A i \in 1 .. n : long[i] = pos[i]
        /\ \A i \in 0 .. n : Outer(long, i) = Outer(pos, i)
        /\ Outer(pos, n) = pos
    BY OuterOfAppend, WholeAndNothing
  <1> HIDE DEF long
  <1>2. ASSUME NEW d \in 1 .. n + 1
        PROVE  long[d].h <= height /\ \A e \in 1 .. d : long[e].h <= long[d].h
    <2>1. CASE d = n + 1
      <3>1. ASSUME NEW e \in 1 .. d PROVE long[e].h <= height
        <4>1. e = n + 1 \/ e \in 1 .. n
          BY <1>1, <2>1
        <4> QED BY <1>1, <4>1 DEF HeightsRise
      <3> QED BY <1>1, <2>1, <3>1
    <2>2. CASE d # n + 1
      <3>1. d \in 1 .. n /\ \A e \in 1 .. d : e \in 1 .. n
        BY <1>1, <2>2
      <3> QED BY <1>1, <3>1 DEF HeightsRise
    <2> QED BY <2>1, <2>2
  <1>3. ASSUME NEW d \in 1 .. n + 1
        PROVE  \/ from + HandlerCount(Outer(long, d - 1)) = 0
               \/ long[d].h = HandlerHeight(Outer(long, d - 1))
    <2>0. d - 1 \in 0 .. n
      BY <1>1
    <2>1. CASE d = n + 1
      <3>1. Outer(long, d - 1) = pos
        BY <1>1, <2>0, <2>1
      <3> QED BY <1>1, <2>1, <3>1
    <2>2. CASE d # n + 1
      <3>1. d \in 1 .. n
        BY <1>1, <2>2
      <3> QED BY <1>1, <2>0, <3>1 DEF HeightsFit
    <2> QED BY <2>1, <2>2
  <1> QED BY <1>1, <1>2, <1>3 DEF HeightsRise, HeightsFit, long

(* A region exchanged for one with the same height, such as a try for its  *)
(* catch.                                                                  *)
LEMMA TurnIs ==
    ASSUME NEW pos \in Positions, NEW d \in 1 .. Len(pos), NEW code \in Codes
    PROVE  /\ Turn(pos, d, code) \in Positions /\ Turn(pos, d, code) # <<>>
           /\ Len(Turn(pos, d, code)) = d /\ Last(Turn(pos, d, code)).h = pos[d].h
           /\ Turn(pos, d, code)[d] = Region(code, pos[d].h)
           /\ Last(Turn(pos, d, code)) = Region(code, pos[d].h)
           /\ Common(pos, Turn(pos, d, code), d - 1) /\ pos[d].h \in Nat
           /\ Outer(Turn(pos, d, code), d - 1) = Outer(pos, d - 1)
  <1> DEFINE out == Outer(pos, d - 1)
             r == Region(code, pos[d].h)
             t == Append(out, r)
  <1>1. d - 1 \in 0 .. Len(pos) /\ Len(pos) \in Nat /\ d \in Nat /\ pos[d].h \in Nat
    BY OuterRegions
  <1>2. /\ out \in Positions /\ Len(out) = d - 1 /\ r \in Regions /\ r.h = pos[d].h
        /\ \A i \in 1 .. d - 1 : out[i] = pos[i]
    BY <1>1, OuterRegions DEF Region, Regions
  <1> HIDE DEF out, r
  <1>3. /\ t \in Positions /\ t # <<>> /\ Len(t) = (d - 1) + 1 /\ t[(d - 1) + 1] = r
        /\ \A i \in 1 .. d - 1 : t[i] = out[i]
        /\ Last(t) = r /\ Outer(t, d - 1) = Outer(out, d - 1)
    <2>1. /\ Append(out, r) \in Positions /\ Append(out, r) # <<>>
          /\ Len(Append(out, r)) = Len(out) + 1 /\ Append(out, r)[Len(out) + 1] = r
          /\ \A i \in 1 .. Len(out) : Append(out, r)[i] = out[i]
          /\ \A n \in 0 .. Len(out) : Outer(Append(out, r), n) = Outer(out, n)
          /\ Last(Append(out, r)) = r
      BY <1>2, OuterOfAppend
    <2>2. d - 1 \in 0 .. Len(out)
      BY <1>1, <1>2
    <2>3. Outer(t, d - 1) = Outer(out, d - 1)
      BY <2>1, <2>2
    <2> HIDE DEF t
    <2> QED BY <1>2, <2>1, <2>3 DEF t
  <1>4. (d - 1) + 1 = d /\ Outer(out, d - 1) = out
    BY <1>1, <1>2, WholeAndNothing
  <1> HIDE DEF t
  <1>5. Common(pos, t, d - 1)
    BY <1>1, <1>2, <1>3 DEF Common
  <1>6. Turn(pos, d, code) = t
    BY DEF Turn, t, out, r
  <1> QED BY <1>1, <1>2, <1>3, <1>4, <1>5, <1>6 DEF out, r

(* Exchanging a region keeps the heights of those around it.               *)
LEMMA TurnHeights ==
    ASSUME NEW pos \in Positions, NEW height, NEW from, HeightsRise(pos, height),
           HeightsFit(from, pos), NEW d \in 1 .. Len(pos), NEW code \in Codes
    PROVE  /\ HeightsRise(Turn(pos, d, code), pos[d].h)
           /\ HeightsFit(from, Turn(pos, d, code))
  <1> DEFINE t == Turn(pos, d, code)
  <1>1. /\ Len(t) = d /\ Last(t).h = pos[d].h /\ t[d] = Region(code, pos[d].h)
        /\ Common(pos, t, d - 1) /\ pos[d].h \in Nat /\ t \in Positions
    BY TurnIs
  <1>2. Len(pos) \in Nat /\ t[d].h = pos[d].h /\ d \in Nat
    BY <1>1, OuterRegions DEF Region
  <1> HIDE DEF t
  <1>3. ASSUME NEW i \in 1 .. d
        PROVE  t[i].h = pos[i].h /\ i \in 1 .. Len(pos) /\ i - 1 \in 0 .. d - 1
    <2>1. i \in 1 .. Len(pos) /\ (i = d \/ i \in 1 .. d - 1) /\ i - 1 \in 0 .. d - 1
      BY <1>2
    <2> QED BY <1>1, <1>2, <2>1 DEF Common
  <1>4. HeightsRise(t, pos[d].h)
    <2>1. ASSUME NEW i \in 1 .. d
          PROVE  t[i].h <= pos[d].h /\ \A e \in 1 .. i : t[e].h <= t[i].h
      <3>1. \A e \in 1 .. i : e \in 1 .. d
        BY <1>2
      <3>2. i \in 1 .. d /\ d \in 1 .. Len(pos)
        OBVIOUS
      <3> QED BY <1>3, <3>1, <3>2 DEF HeightsRise
    <2> QED BY <1>1, <2>1 DEF HeightsRise
  <1>5. ASSUME NEW i \in 0 .. d - 1 PROVE Outer(t, i) = Outer(pos, i)
    <2>1. d - 1 \in 0 .. Len(t) /\ d - 1 \in 0 .. Len(pos)
      BY <1>1, <1>2
    <2>2. Outer(t, d - 1) = Outer(pos, d - 1)
      BY TurnIs DEF t
    <2>3. Outer(Outer(t, d - 1), i) = Outer(t, i)
      BY <1>1, <2>1, OuterOfOuter
    <2>4. Outer(Outer(pos, d - 1), i) = Outer(pos, i)
      BY <2>1, OuterOfOuter
    <2> QED BY <2>2, <2>3, <2>4
  <1>6. HeightsFit(from, t)
    BY <1>1, <1>3, <1>5 DEF HeightsFit
  <1> QED BY <1>4, <1>6 DEF t

(* A prefix of a position is common to both, and has nothing beyond.       *)
LEMMA CommonOuter ==
    ASSUME NEW pos \in Positions, NEW n \in 0 .. Len(pos)
    PROVE  /\ Common(pos, Outer(pos, n), n) /\ NoneBeyond(Outer(pos, n), n)
           /\ Common(pos, pos, Len(pos)) /\ NoneBeyond(pos, Len(pos))
  <1>1. /\ Len(pos) \in Nat /\ n \in Nat /\ n <= Len(pos) /\ Len(Outer(pos, n)) = n
        /\ \A i \in 1 .. n : Outer(pos, n)[i] = pos[i]
    BY OuterRegions
  <1>2. \A j \in Nat : \A i \in j + 1 .. j : FALSE
    OBVIOUS
  <1> QED BY <1>1, <1>2 DEF Common, NoneBeyond
=============================================================================
