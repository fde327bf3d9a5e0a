----------------------------- MODULE EngineProofs -----------------------------
(***************************************************************************)
(* What the engine promises whoever uses it: the host that hands it one    *)
(* program after another (Lifecycle), and the program that expects one     *)
(* value of an expression (Operators).                                     *)
(***************************************************************************)
EXTENDS Lifecycle, Operators, TLAPS

(***************************************************************************)
(* The host: what Lifecycle.cfg checks for three libraries and two frames, *)
(* for any number of them.  LInv adds to the properties what they rest on: *)
(* how far the registered libraries are when a build begins, what the      *)
(* parser was given in each state of the compiler, and what a call of      *)
(* compile() may count on at each of its steps.                            *)
(***************************************************************************)

\* Unless a library before the last one is rejected, the registered libraries
\* are lexed in one go, and the snapshot has all their strings.
LibraryInv ==
    /\ loadedBuiltIn => lexed = 1 .. registered
    /\ rejected \in {0, registered} =>
          /\ loadedBuiltIn => stdStrings = 1 .. registered
          /\ ~loadedBuiltIn => lexed = {} /\ state = "READY"

\* In each state of the compiler, what the parser is or was given.
SourceInv ==
    /\ loadedMainSource => loadedBuiltIn
    /\ state = "ANALYZED" /\ loadedMainSource =>
          /\ tokens = mainSource
          /\ tokens \in Programs /\ tokens.text \in {"correct", "syntax"}
    /\ state = "BYTECODE_READY" => loadedMainSource /\ generated
    /\ RunsWhatWasLoaded

\* What compile() counts on, if nobody else loads a source.
CompileInv ==
    ~manual =>
        /\ ~shouldRefresh => ~generated /\ ~loadedMainSource
        /\ call # None => ~generated /\ shouldRefresh
        /\ call # None /\ call.step = "load" => ~loadedMainSource
        /\ call = None /\ loadedMainSource => state \in {"BYTECODE_READY", "ERROR"}
        /\ bytecode # Garbage

RunInv ==
    /\ ~generated => ~isFatalException
    /\ FreshProgramNotFatal
    /\ ReadyMeansClean
    /\ MessageMatchesProgram

LInv == TypeOK /\ LibraryInv /\ SourceInv /\ CompileInv /\ RunInv

-----------------------------------------------------------------------------

\* Nothing is registered, loaded or running at first, so the invariant holds.
LEMMA InitLInv == Init => LInv
<1> SUFFICES ASSUME Init PROVE LInv
  OBVIOUS
<1> USE DEF Init
<1>1. TypeOK
  <2>1. 0 \in 0 .. MaxFrames /\ 0 \in 0 .. 1 /\ 1 \in Nat
    BY LifecycleAssumption
  <2> QED BY <2>1 DEF TypeOK
<1>2. LibraryInv /\ CompileInv
  BY LifecycleAssumption DEF LibraryInv, CompileInv
<1>3. SourceInv /\ RunInv
  BY DEF SourceInv, RunInv, RunsWhatWasLoaded, FreshProgramNotFatal, ReadyMeansClean,
     MessageMatchesProgram
<1> QED BY <1>1, <1>2, <1>3 DEF LInv

\* Loading registered libraries lexes some of those that have no tokens.
LEMMA LoadLibrariesType ==
  ASSUME TypeOK, LoadLibraries
  PROVE  /\ registered' \in Nat /\ rejected' \in 0 .. registered'
         /\ lexed' \subseteq 1 .. registered'
         /\ strings' \subseteq 1 .. registered' /\ stdStrings' \subseteq strings'
         /\ loadedBuiltIn' \in BOOLEAN
<1>1. LexedNow \subseteq 1 .. registered
  BY DEF LexedNow, Unlexed
<1>2. CASE loadedBuiltIn
  BY <1>2 DEF LoadLibraries, libraryVars, TypeOK
<1>3. CASE ~loadedBuiltIn
  BY <1>1, <1>3 DEF LoadLibraries, libraryVars, TypeOK, Snapshot, AllLexed
<1> QED BY <1>2, <1>3

\* Loading the libraries leaves a state of the compiler.
LEMMA StateAfterLoading ==
  ASSUME TypeOK
  PROVE  StateOfCompiler \in {"READY", "ANALYZED", "BYTECODE_READY", "ERROR"}
BY DEF TypeOK, StateOfCompiler, StateAfterLibraries

\* Every call of the host and every step of the program keeps the types.
LEMMA StepType == ASSUME TypeOK, [Next]_vars PROVE TypeOK'
<1> USE DEF TypeOK
<1>1. CASE RegisterBuiltInLibrary
  BY <1>1 DEF RegisterBuiltInLibrary, sourceVars, callVars, vmVars, runVars
<1>2. ASSUME NEW program \in Programs, LoadThrows(program) PROVE TypeOK'
  <2>1. LoadLibraries /\ MayLoad(program)
    BY <1>2 DEF LoadThrows
  <2>2. manual' \in BOOLEAN
    BY <2>1 DEF MayLoad
  <2>3. state' \in {"READY", "ANALYZED", "BYTECODE_READY", "ERROR"}
    BY <1>2, StateAfterLoading DEF LoadThrows
  <2> QED BY <1>2, <2>1, <2>2, <2>3, LoadLibrariesType DEF LoadThrows, vmVars, runVars, TypeOK
<1>3. ASSUME NEW program \in Programs, LoadRejected(program) PROVE TypeOK'
  <2>1. LoadLibraries /\ MayLoad(program)
    BY <1>3 DEF LoadRejected
  <2>2. manual' \in BOOLEAN
    BY <2>1 DEF MayLoad
  <2> QED BY <1>3, <2>1, <2>2, LoadLibrariesType DEF LoadRejected, vmVars, runVars
<1>4. ASSUME NEW program \in Programs, LoadMainSource(program) PROVE TypeOK'
  <2>1. LoadLibraries /\ MayLoad(program)
    BY <1>4 DEF LoadMainSource
  <2>2. manual' \in BOOLEAN
    BY <2>1 DEF MayLoad
  <2>3. call' \in {None} \cup Steps
    BY <1>4, SMT DEF LoadMainSource, Idle, Steps
  <2> QED BY <1>4, <2>1, <2>2, <2>3, LoadLibrariesType DEF LoadMainSource, vmVars, runVars
<1>5. ASSUME NEW program \in Programs, Compile(program) PROVE TypeOK'
  <2>1. call' \in {None} \cup Steps
    BY <1>5 DEF Compile, Compiling, Steps
  <2>2. CASE MustRefresh
    BY <1>5, <2>1, <2>2
    DEF Compile, RefreshCompiler, StringsAfterRefresh, FatalFlagAfterRefresh
  <2>3. CASE ~MustRefresh
    <3>1. /\ UNCHANGED <<libraryVars, sourceVars, manual, vmVars, runVars>>
          /\ shouldRefresh' = TRUE
      BY <1>5, <2>3 DEF Compile
    <3> QED BY <2>1, <3>1 DEF libraryVars, sourceVars, vmVars, runVars
  <2> QED BY <2>2, <2>3
<1>6. CASE GenerateBytecodes
  BY <1>6 DEF GenerateBytecodes, libraryVars, vmVars
<1>7. CASE Refresh
  BY <1>7 DEF Refresh, RefreshCompiler, StringsAfterRefresh, FatalFlagAfterRefresh
<1>8. CASE Run
  <2>1. UNCHANGED <<libraryVars, sourceVars, callVars>>
    BY <1>8 DEF Run, RunReturns, RunLimited, RunFails, RunOnLeftovers, Returned
  <2>2. /\ isFatalException' \in BOOLEAN
        /\ operandsLeft' \in BOOLEAN /\ handlersLeft' \in BOOLEAN
        /\ vmState' \in {"READY", "RUNNING"}
        /\ lastRun' \in {"fresh", "returned", "limited", "failed", "onLeftovers"}
    BY <1>8 DEF Run, RunReturns, RunLimited, RunFails, RunOnLeftovers, Returned
  <2>3. frames' \in 0 .. MaxFrames
    <3>1. frames' = 0 \/ frames' \in frames + 1 .. MaxFrames
      BY <1>8 DEF Run, RunReturns, RunLimited, RunFails, RunOnLeftovers, Returned, FramesAfterRestart
    <3> QED BY <3>1, LifecycleAssumption
  <2>4. exceptionMessage' \in Programs \cup {None, Limit}
    <3>1. Runnable => bytecode \in Programs \cup {None}
      BY DEF Runnable
    <3>2. CASE RunFails
      BY <3>2 DEF RunFails
    <3>3. CASE RunReturns \/ RunLimited \/ RunOnLeftovers
      BY <3>1, <3>3 DEF RunReturns, RunLimited, RunOnLeftovers, Returned, Message
    <3> QED BY <1>8, <3>2, <3>3 DEF Run
  <2> QED BY <2>1, <2>2, <2>3, <2>4 DEF libraryVars, sourceVars, callVars
<1>9. CASE UNCHANGED vars
  BY <1>9 DEF vars, libraryVars, sourceVars, callVars, vmVars, runVars
<1> QED BY <1>1, <1>2, <1>3, <1>4, <1>5, <1>6, <1>7, <1>8, <1>9 DEF Next

(***************************************************************************)
(* Registered libraries.                                                   *)
(***************************************************************************)
\* Once the libraries are loaded, all of them have been lexed.
LEMMA LoadLibrariesInv ==
  ASSUME TypeOK, LibraryInv, LoadLibraries,
         loadedBuiltIn \/ AllLexed \/ rejected \notin {0, registered}
  PROVE  /\ loadedBuiltIn' => lexed' = 1 .. registered'
         /\ rejected' \in {0, registered'} =>
               /\ loadedBuiltIn'
               /\ stdStrings' = 1 .. registered'
<1>1. CASE loadedBuiltIn
  BY <1>1 DEF LoadLibraries, LibraryInv, libraryVars
<1>2. CASE ~loadedBuiltIn
  <2>1. /\ UNCHANGED <<registered, rejected>>
        /\ lexed' = lexed \cup LexedNow
        /\ loadedBuiltIn' = AllLexed
        /\ stdStrings' = IF AllLexed THEN strings \cup LexedNow ELSE stdStrings
    BY <1>2 DEF LoadLibraries, Snapshot
  <2>2. AllLexed => lexed' = 1 .. registered'
    BY <2>1 DEF AllLexed, Unlexed, TypeOK
  <2>3. rejected \in {0, registered} => AllLexed /\ lexed = {}
    BY <1>2 DEF LibraryInv
  <2> QED BY <2>1, <2>2, <2>3 DEF TypeOK
<1> QED BY <1>1, <1>2

\* If no library before the last one is rejected, none is left without tokens.
LEMMA NoneRefused ==
  ASSUME TypeOK, LibraryInv, ~loadedBuiltIn, rejected \in {0, registered}
  PROVE  AllLexed
<1>1. lexed = {} /\ state = "READY"
  BY DEF LibraryInv
<1>2. Unlexed = 1 .. registered
  BY <1>1 DEF Unlexed
<1>3. \A lib \in Unlexed : rejected \in Unlexed => lib <= rejected
  BY <1>2 DEF TypeOK
<1> QED BY <1>1, <1>3 DEF AllLexed, LexedNow

\* Every step keeps what is known of the registered libraries.
LEMMA StepLibrary == ASSUME LInv, [Next]_vars PROVE LibraryInv'
<1> USE DEF LInv
<1>1. CASE RegisterBuiltInLibrary
  BY <1>1 DEF RegisterBuiltInLibrary, LibraryInv, TypeOK, sourceVars
<1>2. ASSUME NEW program \in Programs,
             LoadThrows(program) \/ LoadRejected(program) \/ LoadMainSource(program)
      PROVE  LibraryInv'
  BY <1>2, LoadLibrariesInv, NoneRefused
  DEF LoadThrows, LoadRejected, LoadMainSource, LibraryInv
<1>3. ASSUME NEW program \in Programs, Compile(program) PROVE LibraryInv'
  BY <1>3 DEF Compile, RefreshCompiler, LibraryInv, libraryVars, sourceVars
<1>4. CASE GenerateBytecodes
  BY <1>4 DEF GenerateBytecodes, MayGenerate, LibraryInv, libraryVars
<1>5. CASE Refresh
  BY <1>5 DEF Refresh, RefreshCompiler, LibraryInv
<1>6. CASE Run
  <2>1. UNCHANGED <<libraryVars, sourceVars>>
    BY <1>6 DEF Run, RunReturns, RunLimited, RunFails, RunOnLeftovers, Returned
  <2> QED BY <2>1 DEF LibraryInv, libraryVars, sourceVars
<1>7. CASE UNCHANGED vars
  BY <1>7 DEF vars, libraryVars, sourceVars, LibraryInv
<1> QED BY <1>1, <1>2, <1>3, <1>4, <1>5, <1>6, <1>7 DEF Next

(***************************************************************************)
(* The source and the bytecode.                                            *)
(***************************************************************************)
\* Every step keeps the bytecode that of the source it was compiled from.
LEMMA StepSource == ASSUME LInv, [Next]_vars PROVE SourceInv'
<1> USE DEF LInv, SourceInv, RunsWhatWasLoaded
<1>1. CASE RegisterBuiltInLibrary
  BY <1>1 DEF RegisterBuiltInLibrary, sourceVars
<1>2. ASSUME NEW program \in Programs, LoadThrows(program) PROVE SourceInv'
  <2>1. UNCHANGED <<mainSource, loadedMainSource, tokens, generated, bytecode>>
    BY <1>2 DEF LoadThrows
  <2>2. CASE loadedBuiltIn
    BY <1>2, <2>1, <2>2 DEF LoadThrows, LoadLibraries, libraryVars, StateOfCompiler
  <2>3. CASE ~loadedBuiltIn
    BY <1>2, <2>1, <2>3 DEF LoadThrows, StateOfCompiler, StateAfterLibraries
  <2> QED BY <2>2, <2>3 DEF TypeOK
<1>3. ASSUME NEW program \in Programs, LoadRejected(program) PROVE SourceInv'
  BY <1>3 DEF LoadRejected, LoadLibraries, LibrariesRefused, libraryVars, TypeOK
<1>4. ASSUME NEW program \in Programs, LoadMainSource(program) PROVE SourceInv'
  BY <1>4 DEF LoadMainSource, LoadLibraries, LibrariesRefused, libraryVars, TypeOK
<1>5. ASSUME NEW program \in Programs, Compile(program) PROVE SourceInv'
  BY <1>5 DEF Compile, RefreshCompiler, libraryVars, sourceVars
<1>6. CASE GenerateBytecodes
  <2>1. state = "ANALYZED" /\ loadedMainSource
    BY <1>6 DEF GenerateBytecodes, MayGenerate
  <2>2. CASE generated
    BY <1>6, <2>1, <2>2 DEF GenerateBytecodes, libraryVars
  <2>3. CASE ~generated
    BY <1>6, <2>1, <2>3 DEF GenerateBytecodes, libraryVars
  <2> QED BY <2>2, <2>3
<1>7. CASE Refresh
  BY <1>7 DEF Refresh, RefreshCompiler
<1>8. CASE Run
  <2>1. UNCHANGED <<libraryVars, sourceVars>>
    BY <1>8 DEF Run, RunReturns, RunLimited, RunFails, RunOnLeftovers, Returned
  <2> QED BY <2>1 DEF libraryVars, sourceVars
<1>9. CASE UNCHANGED vars
  BY <1>9 DEF vars, libraryVars, sourceVars
<1> QED BY <1>1, <1>2, <1>3, <1>4, <1>5, <1>6, <1>7, <1>8, <1>9 DEF Next

(***************************************************************************)
(* A call of compile(), if the host leaves the loading to it.              *)
(***************************************************************************)
LEMMA StepCompile == ASSUME LInv, [Next]_vars PROVE CompileInv'
<1> USE DEF LInv, CompileInv, Idle
<1>1. CASE RegisterBuiltInLibrary
  BY <1>1 DEF RegisterBuiltInLibrary, sourceVars, callVars
<1>2. ASSUME NEW program \in Programs, LoadThrows(program) PROVE CompileInv'
  BY <1>2 DEF LoadThrows, MayLoad, Compiling
<1>3. ASSUME NEW program \in Programs, LoadRejected(program) PROVE CompileInv'
  BY <1>3 DEF LoadRejected, MayLoad, Compiling
<1>4. ASSUME NEW program \in Programs, LoadMainSource(program) PROVE CompileInv'
  <2>1. CASE manual'
    BY <2>1
  <2>2. CASE ~manual'
    <3>1. call = Compiling(program) /\ call # None /\ ~manual
      BY <1>4, <2>2 DEF LoadMainSource, MayLoad
    <3>2. call' = [step |-> "generate", source |-> program]
      BY <1>4, <3>1 DEF LoadMainSource, Compiling
    <3>3. shouldRefresh
      BY <3>1
    <3>4. ~generated' /\ bytecode' # Garbage /\ shouldRefresh' /\ call' # None
      <4>1. call' \in Steps
        BY <3>2 DEF Steps
      <4> QED BY <1>4, <3>1, <3>3, <4>1, LifecycleAssumption DEF LoadMainSource
    <3> QED BY <3>2, <3>4
  <2> QED BY <2>1, <2>2 DEF TypeOK
<1>5. ASSUME NEW program \in Programs, Compile(program) PROVE CompileInv'
  <2>1. shouldRefresh' /\ call' = Compiling(program) /\ call' # None
    BY <1>5, LifecycleAssumption DEF Compile, Compiling, Steps
  <2>2. CASE MustRefresh
    BY <1>5, <2>1, <2>2, LifecycleAssumption DEF Compile, RefreshCompiler
  <2>3. CASE ~MustRefresh
    BY <1>5, <2>1, <2>3 DEF Compile, MustRefresh, sourceVars
  <2> QED BY <2>2, <2>3
<1>6. CASE GenerateBytecodes
  <2>1. ~manual => ~generated
    BY <1>6 DEF GenerateBytecodes, MayGenerate
  <2>2. ~manual => tokens # Garbage
    BY <1>6, LifecycleAssumption DEF GenerateBytecodes, MayGenerate, SourceInv
  <2>3. ~manual => shouldRefresh
    BY <1>6 DEF GenerateBytecodes
  <2> QED BY <1>6, <2>1, <2>2, <2>3 DEF GenerateBytecodes
<1>7. CASE Refresh
  BY <1>7, LifecycleAssumption DEF Refresh, RefreshCompiler
<1>8. CASE Run
  <2>1. UNCHANGED <<sourceVars, callVars>>
    BY <1>8 DEF Run, RunReturns, RunLimited, RunFails, RunOnLeftovers, Returned
  <2> QED BY <2>1 DEF sourceVars, callVars
<1>9. CASE UNCHANGED vars
  BY <1>9 DEF vars, sourceVars, callVars
<1> QED BY <1>1, <1>2, <1>3, <1>4, <1>5, <1>6, <1>7, <1>8, <1>9 DEF Next

(***************************************************************************)
(* The virtual machine, its fatal flag and its message.                    *)
(***************************************************************************)
LEMMA StepRun == ASSUME LInv, [Next]_vars PROVE RunInv'
<1> USE DEF LInv, RunInv, FreshProgramNotFatal, ReadyMeansClean, MessageMatchesProgram
<1>1. CASE RegisterBuiltInLibrary
  BY <1>1 DEF RegisterBuiltInLibrary, sourceVars, vmVars, runVars
<1>2. ASSUME NEW program \in Programs, LoadThrows(program) PROVE RunInv'
  <2>1. state' = "BYTECODE_READY" => state = "BYTECODE_READY"
    BY <1>2 DEF LoadThrows, StateOfCompiler, StateAfterLibraries
  <2> QED BY <1>2, <2>1 DEF LoadThrows, vmVars, runVars
<1>3. ASSUME NEW program \in Programs, LoadRejected(program) PROVE RunInv'
  BY <1>3 DEF LoadRejected, vmVars, runVars
<1>4. ASSUME NEW program \in Programs, LoadMainSource(program) PROVE RunInv'
  BY <1>4 DEF LoadMainSource, vmVars, runVars
<1>5. ASSUME RefreshCompiler PROVE RunInv'
  BY <1>5 DEF RefreshCompiler, FatalFlagAfterRefresh
<1>6. ASSUME NEW program \in Programs, Compile(program) PROVE RunInv'
  <2>1. CASE ~MustRefresh
    BY <1>6, <2>1 DEF Compile, sourceVars, vmVars, runVars
  <2> QED BY <1>5, <1>6, <2>1 DEF Compile
<1>7. CASE GenerateBytecodes
  BY <1>7 DEF GenerateBytecodes, vmVars
<1>8. CASE Refresh
  BY <1>5, <1>8 DEF Refresh
<1>9. CASE Run
  <2>1. /\ state = "BYTECODE_READY" /\ generated
        /\ UNCHANGED sourceVars
    BY <1>9 DEF Run, RunReturns, RunLimited, RunFails, RunOnLeftovers, Returned,
                Runnable, SourceInv
  <2>2. lastRun' # "fresh" /\ ReadyMeansClean'
    BY <1>9 DEF Run, RunReturns, RunLimited, RunFails, RunOnLeftovers, Returned,
                FramesAfterRestart
  <2>3. MessageMatchesProgram'
    <3>1. CASE RunReturns
      BY <2>1, <3>1 DEF RunReturns, Returned, Message, Uncaught, sourceVars
    <3>2. CASE RunLimited
      BY <3>2 DEF RunLimited, Returned
    <3>3. CASE RunFails \/ RunOnLeftovers
      BY <3>3 DEF RunFails, RunOnLeftovers, Returned
    <3> QED BY <1>9, <3>1, <3>2, <3>3 DEF Run
  <2> QED BY <2>1, <2>2, <2>3 DEF sourceVars
<1>10. CASE UNCHANGED vars
  BY <1>10 DEF vars, sourceVars, vmVars, runVars
<1> QED BY <1>1, <1>2, <1>3, <1>4, <1>6, <1>7, <1>8, <1>9, <1>10 DEF Next

\* The invariant is inductive.
LEMMA Inductive == Spec => []LInv
<1>1. LInv /\ [Next]_vars => LInv'
  BY StepType, StepLibrary, StepSource, StepCompile, StepRun DEF LInv
<1> QED BY InitLInv, <1>1, PTL DEF Spec

-----------------------------------------------------------------------------

\* Every variable has its type, and the string table contains its snapshot:
\* registerBuiltInLibrary, loadMainSource and refresh() together.
THEOREM TypeCorrect == Spec => []TypeOK
<1>1. LInv => TypeOK
  BY DEF LInv
<1> QED BY Inductive, <1>1, PTL

\* loadBuiltInFunctions and refresh(): a registered library is never forgotten,
\* and its tokens stay valid over any number of builds.
THEOREM LibrariesSurvive == Spec => [](LibrariesComplete /\ TokensIntact)
<1>1. LInv => LibrariesComplete
  BY DEF LInv, LibraryInv, LibrariesComplete
<1>2. LInv => TokensIntact
  BY DEF LInv, TypeOK, LibraryInv, TokensIntact
<1> QED BY Inductive, <1>1, <1>2, PTL

\* generateBytecodes and run(): whatever calls came before, failed or not, the
\* bytecode that can be run is that of the program loaded last.
THEOREM RunsLastLoaded == Spec => []RunsWhatWasLoaded
<1>1. LInv => RunsWhatWasLoaded
  BY DEF LInv, SourceInv
<1> QED BY Inductive, <1>1, PTL

\* compile(): its own test of shouldRefresh and of the error state is enough to
\* never parse on top of an earlier program.
THEOREM CompileIsSelfContained == Spec => []SelfContained
<1>1. LInv => SelfContained
  BY DEF LInv, CompileInv, SelfContained
<1> QED BY Inductive, <1>1, PTL

\* run(), restart() and refresh(): what a program's run leaves behind for the
\* next, and what the host is told about it.
THEOREM RunsAreSeparate ==
  Spec => [](FreshProgramNotFatal /\ ReadyMeansClean /\ MessageMatchesProgram)
<1>1. LInv => FreshProgramNotFatal /\ ReadyMeansClean /\ MessageMatchesProgram
  BY DEF LInv, RunInv
<1> QED BY Inductive, <1>1, PTL

(***************************************************************************)
(* Operators, for every width of Int and Char, every set of operands and   *)
(* expressions of any length.                                              *)
(*                                                                         *)
(* The invariant, Meaning, says of an expression no disagreement is known  *)
(* of: the natives have a value or an error; its literals fold to that or  *)
(* not at all; and when the compiler accepts it, the code it emits         *)
(* computes that, of the class the compiler gave it.  It is carried over   *)
(* one more operator by two facts about the operators alone:               *)
(* FoldingAgrees (the folding of two literals is the native's value or     *)
(* refused) and TypingIsSound (the casts and opcodes emitted for two       *)
(* operands compute what the native computes of them, and its class is the *)
(* one the table gives), each by cases on the kinds and classes of the     *)
(* operands.  The compound assignments need no invariant beyond that the   *)
(* target is an operand: CompoundAssigned compares the three forms with    *)
(* the assignment spelled out.                                             *)
(***************************************************************************)

(***************************************************************************)
(* The objects an operand can be.                                          *)
(***************************************************************************)
IsObject(v) ==
    /\ v = <<v[1], v[2]>>
    /\ Kind(v) \in Classes
    /\ IsValue(v)
    /\ Kind(v) = "Null" => v[2] = 0
Errors == {Refused, NoOperator, ByZero, Trap, <<"Junk", "not an object">>}
IsResult(v) == IsObject(v) \/ v \in Errors

(* What the classes of a value say of its datum.                           *)
LEMMA ObjectData ==
    ASSUME NEW v, IsObject(v)
    PROVE  /\ v = <<v[1], v[2]>> /\ Kind(v) \in Classes
           /\ Kind(v) = "Int" => v[2] \in Int /\ v[2] \in -IntLimit .. IntLimit - 1
           /\ Kind(v) = "Char" => v[2] \in Int /\ v[2] \in 0 .. CharLimit - 1
           /\ Kind(v) = "Bool" => v[2] \in {0, 1}
           /\ Kind(v) = "Float" => v[2] \in Int
           /\ Kind(v) = "Null" => v[2] = 0
  <1>1. IntLimit \in Nat /\ CharLimit \in Nat
    BY WidthAssumption
  <1> QED BY <1>1 DEF IsObject, IsValue, Classes, Numbers, Kind, Failures

(* A number's datum, as such and in halves.                                *)
LEMMA NumberData ==
    ASSUME NEW v, IsObject(v), Kind(v) \in Numbers
    PROVE  v[2] \in Int /\ Doubled(v) \in Int /\ (Doubled(v) = 0 <=> v[2] = 0)
  BY ObjectData DEF Doubled, Numbers

(* The arithmetic of an Int's width, of quotients and of remainders.       *)
LEMMA WrapRange ==
    ASSUME NEW n \in Int
    PROVE  Wrap(n) \in -IntLimit .. IntLimit - 1
  BY WidthAssumption DEF Wrap

(* A quotient is an integer.                                               *)
LEMMA QuotientIsInt ==
    ASSUME NEW x \in Int, NEW y \in Int, y # 0
    PROVE  Truncated(x, y) \in Int
  BY DEF Truncated

(* So is a remainder.                                                      *)
LEMMA RemainderIsInt ==
    ASSUME NEW x \in Int, NEW y \in Int, y # 0
    PROVE  Remainder(x, y) \in Int
  BY QuotientIsInt DEF Remainder

(* And so is what every operator of arithmetic computes.                   *)
LEMMA ComputedIsInt ==
    ASSUME NEW op \in Arithmetic, NEW x \in Int, NEW y \in Int, op \in {"/", "%"} => y # 0
    PROVE  Computed(op, x, y) \in Int
  <1>1. CASE op = "+"
    BY <1>1 DEF Computed
  <1>2. CASE op = "-"
    BY <1>2 DEF Computed
  <1>3. CASE op = "*"
    BY <1>3 DEF Computed
  <1>4. CASE op = "/"
    BY <1>4, QuotientIsInt DEF Computed
  <1>5. CASE op = "%"
    BY <1>5, RemainderIsInt DEF Computed
  <1> QED BY <1>1, <1>2, <1>3, <1>4, <1>5 DEF Arithmetic

(* An object from its kind and its datum.                                  *)
LEMMA MadeObjects ==
    /\ \A n \in -IntLimit .. IntLimit - 1 : IsObject(<<"Int", n>>)
    /\ \A n \in 0 .. CharLimit - 1 : IsObject(<<"Char", n>>)
    /\ \A n \in {0, 1} : IsObject(<<"Bool", n>>)
    /\ \A n \in Int : IsObject(<<"Float", n>>)
    /\ \A n : IsObject(<<"String", n>>)
    /\ IsObject(Null) /\ IsObject(True) /\ IsObject(False)
  BY DEF IsObject, IsValue, Kind, Classes, Numbers, Failures, Null, True, False

(* A truth value is a Bool.                                                *)
LEMMA TruthIsObject ==
    ASSUME NEW p
    PROVE  IsObject(Truth(p)) /\ Kind(Truth(p)) = "Bool"
  BY MadeObjects DEF Truth, True, False, Kind

(* A wrapped integer is an Int, and one taken modulo the width of a Char   *)
(* is a Char.                                                              *)
LEMMA WrappedIsObject ==
    ASSUME NEW n \in Int
    PROVE  IsObject(<<"Int", Wrap(n)>>) /\ IsObject(ToChar(n))
           /\ Kind(<<"Int", Wrap(n)>>) = "Int" /\ Kind(ToChar(n)) = "Char"
  <1>1. n % CharLimit \in 0 .. CharLimit - 1
    BY WidthAssumption
  <1> QED BY <1>1, WrapRange, MadeObjects DEF ToChar, Kind

(***************************************************************************)
(* The natives return an object, or say why there is none.                 *)
(***************************************************************************)
Pair(a, b) == IsObject(a) /\ IsObject(b)

(* Two numbers: an Int, or a Float when one of them is; or the trap.       *)
LEMMA NumberResults ==
    ASSUME NEW op \in Arithmetic, NEW a, NEW b, Pair(a, b), Kinds(a, b) \subseteq Numbers,
           op \in {"/", "%"} => b[2] # 0
    PROVE  /\ Number(op, a, b) = Trap \/ IsObject(Number(op, a, b))
           /\ "Float" \in Kinds(a, b) => Kind(Number(op, a, b)) = "Float"
           /\ "Float" \notin Kinds(a, b) => \/ Kind(Number(op, a, b)) = "Int"
                                            \/ Number(op, a, b) = Trap
  <1> DEFINE p == Doubled(a)
             q == Doubled(b)
  <1>1. /\ a[2] \in Int /\ b[2] \in Int /\ p \in Int /\ q \in Int
        /\ op \in {"/", "%"} => q # 0
    BY NumberData DEF Pair, Kinds
  <1> HIDE DEF p, q
  <1>2. FloatNumber(op, p, q)[2] \in Int
    <2>1. CASE op = "*"
      <3>1. p * q \in Int
        BY <1>1
      <3> QED BY <2>1, <3>1, QuotientIsInt DEF FloatNumber
    <2>2. CASE op = "/"
      <3>1. 2 * p \in Int
        BY <1>1
      <3> QED BY <2>2, <3>1, <1>1, QuotientIsInt DEF FloatNumber
    <2>3. CASE op \notin {"*", "/"}
      BY <2>3, <1>1, ComputedIsInt DEF FloatNumber
    <2> QED BY <2>1, <2>2, <2>3
  <1>3. IsObject(FloatNumber(op, p, q)) /\ Kind(FloatNumber(op, p, q)) = "Float"
    <2>1. FloatNumber(op, p, q) = <<"Float", FloatNumber(op, p, q)[2]>>
      BY DEF FloatNumber
    <2> QED BY <1>2, <2>1, MadeObjects DEF Kind
  <1>4. IntNumber(op, a[2], b[2]) = Trap \/ (/\ IsObject(IntNumber(op, a[2], b[2]))
                                             /\ Kind(IntNumber(op, a[2], b[2])) = "Int")
    <2>1. Computed(op, a[2], b[2]) \in Int
      BY <1>1, ComputedIsInt
    <2> QED BY <2>1, WrappedIsObject DEF IntNumber
  <1> QED BY <1>3, <1>4 DEF Number, p, q

(* What each native makes of the kinds it has an operator for.             *)
LEMMA PlusCases ==
    ASSUME NEW a, NEW b
    PROVE  /\ Kinds(a, b) \subseteq Numbers => plus(a, b) = Number("+", a, b)
           /\ Kinds(a, b) = {"Int", "Char"} => plus(a, b) = ToChar(a[2] + b[2])
           /\ (Kinds(a, b) = {"Char"} \/ "String" \in Kinds(a, b)) => plus(a, b) = Joined(a, b)
           /\ ~(\/ Kinds(a, b) \subseteq Numbers \/ Kinds(a, b) = {"Int", "Char"}
                \/ Kinds(a, b) = {"Char"} \/ "String" \in Kinds(a, b)) => plus(a, b) = NoOperator
  BY DEF plus, Numbers, Kinds

(* minus, by the kinds of its operands.                                    *)
LEMMA MinusCases ==
    ASSUME NEW a, NEW b
    PROVE  /\ Kinds(a, b) \subseteq Numbers => minus(a, b) = Number("-", a, b)
           /\ Kinds(a, b) = {"Char"} => minus(a, b) = <<"Int", a[2] - b[2]>>
           /\ Kind(a) = "Char" /\ Kind(b) = "Int" => minus(a, b) = ToChar(a[2] - b[2])
           /\ ~(\/ Kinds(a, b) \subseteq Numbers
                \/ Kinds(a, b) = {"Char"}
                \/ (Kind(a) = "Char" /\ Kind(b) = "Int")) => minus(a, b) = NoOperator
  BY DEF minus, Numbers, Kinds

(* mul, by the kinds of its operands.                                      *)
LEMMA MulCases ==
    ASSUME NEW a, NEW b
    PROVE  /\ Kinds(a, b) \subseteq Numbers => mul(a, b) = Number("*", a, b)
           /\ Kind(a) = "Int" /\ Kind(b) = "String" => mul(a, b) = repeat(b, a[2])
           /\ Kind(a) = "String" /\ Kind(b) = "Int" => mul(a, b) = repeat(a, b[2])
           /\ ~(\/ Kinds(a, b) \subseteq Numbers
                \/ (Kind(a) = "Int" /\ Kind(b) = "String")
                \/ (Kind(a) = "String" /\ Kind(b) = "Int")) => mul(a, b) = NoOperator
  BY DEF mul, Numbers, Kinds

(* The comparisons, by the kinds of their operands.                        *)
LEMMA OrderedCases ==
    ASSUME NEW op, NEW a, NEW b
    PROVE  /\ Kinds(a, b) \subseteq Numbers
              => Ordered(op, a, b) = Truth(Compared(op, Doubled(a), Doubled(b)))
           /\ Kinds(a, b) = {"Char"} => Ordered(op, a, b) = Truth(Compared(op, a[2], b[2]))
           /\ ~(Kinds(a, b) \subseteq Numbers \/ Kinds(a, b) = {"Char"})
              => Ordered(op, a, b) = NoOperator
  BY DEF Ordered, Numbers, Kinds

(* negative, by the kind of its operand.                                   *)
LEMMA NegativeCases ==
    ASSUME NEW a
    PROVE  /\ Kind(a) = "Float" => negative(a) = <<"Float", -a[2]>>
           /\ Kind(a) \in {"Int", "Bool"} => negative(a) = <<"Int", Wrap(-a[2])>>
           /\ Kind(a) \notin Numbers => negative(a) = NoOperator
  BY DEF negative, Numbers

(* The native an operator stands for.                                      *)
LEMMA NativeOf ==
    ASSUME NEW a, NEW b
    PROVE  /\ Native("+", a, b) = plus(a, b) /\ Native("-", a, b) = minus(a, b)
           /\ Native("*", a, b) = mul(a, b) /\ Native("/", a, b) = divide(a, b)
           /\ Native("%", a, b) = mod(a, b)
           /\ Native("==", a, b) = op_eqeq(a, b) /\ Native("!=", a, b) = op_not_eq(a, b)
           /\ \A op \in Relations : Native(op, a, b) = Ordered(op, a, b)
           /\ Native("&", a, b) = bitwise_and(a, b) /\ Native("|", a, b) = bitwise_or(a, b)
           /\ Native("&&", a, b) = op_and_and(a, b) /\ Native("||", a, b) = op_or_or(a, b)
           /\ Native("===", a, b) = op_eq_pointer(a, b)
           /\ Native("!==", a, b) = op_not_eq_pointer(a, b)
  BY DEF Native, Relations, op_less_than, op_greater_than, op_less_than_eq, op_greater_than_eq

(* The bits of an Int are numbers, and bits make an Int.                   *)
LEMMA BitsAreNumbers ==
    ASSUME NEW n \in Int
    PROVE  Bits(n) \in [0 .. 3 -> Int]
  <1>1. ASSUME NEW k \in 0 .. 3 PROVE <<1, 2, 4, 8>>[k + 1] \in Nat \ {0}
    <2>1. k = 0 \/ k = 1 \/ k = 2 \/ k = 3
      OBVIOUS
    <2> QED BY <2>1
  <1>2. ASSUME NEW d \in Nat \ {0} PROVE (n \div d) % 2 \in Int
    OBVIOUS
  <1> QED BY <1>1, <1>2 DEF Bits

(* The operators of bits make an Int.                                      *)
LEMMA BitsAreObjects ==
    ASSUME NEW a, NEW b, a[2] \in Int, b[2] \in Int, Kinds(a, b) = {"Int"}
    PROVE  IsObject(bitwise_and(a, b)) /\ IsObject(bitwise_or(a, b))
  <1>1. \A f \in [0 .. 3 -> Int] : IsObject(<<"Int", OfBits(f)>>)
    <2>1. ASSUME NEW f \in [0 .. 3 -> Int]
          PROVE  f[0] + 2 * f[1] + 4 * f[2] + 8 * f[3] \in Int
      OBVIOUS
    <2> QED BY <2>1, WrappedIsObject DEF OfBits
  <1> DEFINE x == Bits(a[2])
             y == Bits(b[2])
             both == [k \in 0 .. 3 |-> x[k] * y[k]]
             either == [k \in 0 .. 3 |-> x[k] + y[k] - x[k] * y[k]]
  <1>2. x \in [0 .. 3 -> Int] /\ y \in [0 .. 3 -> Int]
    BY BitsAreNumbers
  <1>3. /\ bitwise_and(a, b) = <<"Int", OfBits(both)>>
        /\ bitwise_or(a, b) = <<"Int", OfBits(either)>>
    BY DEF bitwise_and, bitwise_or
  <1> HIDE DEF x, y
  <1>4. both \in [0 .. 3 -> Int] /\ either \in [0 .. 3 -> Int]
    BY <1>2
  <1> QED BY <1>1, <1>3, <1>4

(* Every native has an object, or an error, for every two objects.         *)
LEMMA NativeResults ==
    ASSUME NEW op \in BinaryOps, NEW a, NEW b, Pair(a, b)
    PROVE  IsResult(Native(op, a, b)) /\ Native(op, a, b) # Refused
  <1>0. /\ Kind(NoOperator) = "Raised" /\ Kind(ByZero) = "Raised" /\ Kind(Trap) = "Trapped"
        /\ Kind(Refused) = "Refused"
        /\ NoOperator \in Errors /\ ByZero \in Errors /\ Trap \in Errors
    BY DEF Kind, NoOperator, ByZero, Trap, Refused, Errors
  <1>1. \A v : IsObject(v) => v # Refused
    BY <1>0 DEF IsObject, Classes, Numbers
  <1>2. ASSUME NEW v, IsObject(v) \/ v \in {NoOperator, ByZero, Trap}
        PROVE  IsResult(v) /\ v # Refused
    BY <1>0, <1>1, <1>2 DEF IsResult
  <1>3. CASE op = "+"
    <2>1. CASE Kinds(a, b) \subseteq Numbers
      BY <1>2, <1>3, <2>1, PlusCases, NativeOf, NumberResults DEF Arithmetic
    <2>2. CASE Kinds(a, b) = {"Int", "Char"}
      <3>1. a[2] + b[2] \in Int
        BY <2>2, ObjectData DEF Pair, Kinds
      <3>2. IsObject(ToChar(a[2] + b[2]))
        BY <3>1, WrappedIsObject
      <3>3. Native(op, a, b) = ToChar(a[2] + b[2])
        BY <1>3, <2>2, PlusCases, NativeOf
      <3> QED BY <1>2, <3>2, <3>3
    <2>3. CASE Kinds(a, b) = {"Char"} \/ "String" \in Kinds(a, b)
      <3>1. IsObject(Joined(a, b))
        BY MadeObjects DEF Joined
      <3> QED BY <1>2, <1>3, <2>3, <3>1, PlusCases, NativeOf
    <2> QED BY <1>2, <1>3, <2>1, <2>2, <2>3, PlusCases, NativeOf
  <1>4. CASE op = "-"
    <2>1. CASE Kinds(a, b) \subseteq Numbers
      BY <1>2, <1>4, <2>1, MinusCases, NativeOf, NumberResults DEF Arithmetic
    <2>2. CASE Kinds(a, b) = {"Char"}
      <3>1. /\ a[2] \in 0 .. CharLimit - 1 /\ b[2] \in 0 .. CharLimit - 1
        BY <2>2, ObjectData DEF Pair, Kinds
      <3>2. a[2] - b[2] \in -IntLimit .. IntLimit - 1
        BY <3>1, WidthAssumption
      <3> QED BY <1>2, <1>4, <2>2, <3>2, MinusCases, NativeOf, MadeObjects
    <2>3. CASE Kind(a) = "Char" /\ Kind(b) = "Int"
      <3>1. a[2] - b[2] \in Int
        BY <2>3, ObjectData DEF Pair
      <3>2. IsObject(ToChar(a[2] - b[2]))
        BY <3>1, WrappedIsObject
      <3>3. Native(op, a, b) = ToChar(a[2] - b[2])
        BY <1>4, <2>3, MinusCases, NativeOf
      <3> QED BY <1>2, <3>2, <3>3
    <2> QED BY <1>2, <1>4, <2>1, <2>2, <2>3, MinusCases, NativeOf
  <1>5. CASE op = "*"
    <2>1. CASE Kinds(a, b) \subseteq Numbers
      BY <1>2, <1>5, <2>1, MulCases, NativeOf, NumberResults DEF Arithmetic
    <2>2. IsObject(repeat(a, b[2])) /\ IsObject(repeat(b, a[2]))
      BY MadeObjects DEF repeat
    <2> QED BY <1>2, <1>5, <2>1, <2>2, MulCases, NativeOf
  <1>6. CASE op = "/"
    <2>1. CASE Kinds(a, b) \subseteq Numbers /\ b[2] # 0
      <3>1. Number("/", a, b) = Trap \/ IsObject(Number("/", a, b))
        BY <2>1, NumberResults DEF Arithmetic
      <3> QED BY <1>2, <1>6, <2>1, <3>1, NativeOf DEF divide
    <2> QED BY <1>2, <1>6, <2>1, NativeOf DEF divide
  <1>7. CASE op = "%"
    <2>1. CASE Kinds(a, b) \subseteq Numbers /\ b[2] # 0
      <3>1. Number("%", a, b) = Trap \/ IsObject(Number("%", a, b))
        BY <2>1, NumberResults DEF Arithmetic
      <3> QED BY <1>2, <1>7, <2>1, <3>1, NativeOf DEF mod, Pair
    <2> QED BY <1>2, <1>7, <2>1, NativeOf DEF mod
  <1>9. \A p : IsObject(Truth(p))
    BY TruthIsObject
  <1>8. CASE op \in Relations
    BY <1>2, <1>8, <1>9, OrderedCases, NativeOf
  <1>10. CASE op \in Equalities \cup Identities
    BY <1>2, <1>9, <1>10, NativeOf
       DEF op_eqeq, op_not_eq, op_eq_pointer, op_not_eq_pointer, Equalities, Identities
  <1>11. CASE op \in {"&&", "||"}
    BY <1>2, <1>9, <1>11, NativeOf DEF op_and_and, op_or_or
  <1>12. CASE op \in {"&", "|"}
    <2>1. CASE Kinds(a, b) = {"Int"}
      <3>1. a[2] \in Int /\ b[2] \in Int
        BY <2>1, ObjectData DEF Pair, Kinds
      <3>2. IsObject(bitwise_and(a, b)) /\ IsObject(bitwise_or(a, b))
        BY <2>1, <3>1, BitsAreObjects
      <3> QED BY <1>2, <1>12, <3>2, NativeOf
    <2> QED BY <1>2, <1>12, <2>1, NativeOf DEF bitwise_and, bitwise_or
  <1> QED BY <1>3, <1>4, <1>5, <1>6, <1>7, <1>8, <1>10, <1>11, <1>12
          DEF BinaryOps, Arithmetic

(***************************************************************************)
(* Folding agrees with the natives.                                        *)
(***************************************************************************)

(* A Bool that folding reads as an Int is the number it was.               *)
Prepared(v) == IF Kind(v) = "Bool" THEN toInt(v) ELSE v

(* A prepared operand is an Int in the place of a Bool.                    *)
LEMMA PreparedData ==
    ASSUME NEW v, IsObject(v)
    PROVE  /\ Prepared(v)[2] = v[2]
           /\ Kind(v) \in Numbers => Doubled(Prepared(v)) = Doubled(v)
           /\ Kind(v) = "Bool" => Kind(Prepared(v)) = "Int"
           /\ Kind(v) # "Bool" => Prepared(v) = v
  <1>1. CASE Kind(v) = "Bool"
    <2>1. Prepared(v) = <<"Int", v[2]>>
      BY <1>1 DEF Prepared, toInt
    <2> QED BY <1>1, <2>1 DEF Kind, Doubled
  <1>2. CASE Kind(v) # "Bool"
    BY <1>2 DEF Prepared
  <1> QED BY <1>1, <1>2

(* Both operands, prepared.                                                *)
LEMMA PreparedOperands ==
    ASSUME NEW l, NEW r
    PROVE  prepareOperands(l, r)["left"] = Prepared(l) /\ prepareOperands(l, r)["right"] = Prepared(r)
  BY DEF prepareOperands, Prepared

(* What two operands are once they are prepared.                           *)
LEMMA PreparedKinds ==
    ASSUME NEW l, NEW r, Pair(l, r)
    PROVE  /\ Kinds(Prepared(l), Prepared(r)) \subseteq {"Int", "Float"} <=> Kinds(l, r) \subseteq Numbers
           /\ "Float" \in Kinds(Prepared(l), Prepared(r)) <=> "Float" \in Kinds(l, r)
           /\ "String" \in Kinds(Prepared(l), Prepared(r)) <=> "String" \in Kinds(l, r)
           /\ Kinds(Prepared(l), Prepared(r)) = {"Char"} <=> Kinds(l, r) = {"Char"}
           /\ \/ Kinds(l, r) \in {{"Bool", "Char"}, {"Bool", "String"}, {"Null", "Bool"}}
              \/ Kinds(l, r) \subseteq Numbers
              \/ Prepared(l) = l /\ Prepared(r) = r
  <1>1. /\ Kind(l) = "Bool" => Kind(Prepared(l)) = "Int"
        /\ Kind(r) = "Bool" => Kind(Prepared(r)) = "Int"
        /\ Kind(l) # "Bool" => Prepared(l) = l
        /\ Kind(r) # "Bool" => Prepared(r) = r
        /\ Kind(l) \in Classes /\ Kind(r) \in Classes
    BY PreparedData, ObjectData DEF Pair
  <1> QED BY <1>1 DEF Kinds, Classes, Numbers

(* Preparing two numbers does not change what is computed of them.         *)
LEMMA PreparedNumber ==
    ASSUME NEW op, NEW l, NEW r, Pair(l, r), Kinds(l, r) \subseteq Numbers
    PROVE  Number(op, Prepared(l), Prepared(r)) = Number(op, l, r)
  <1>1. /\ Prepared(l)[2] = l[2] /\ Prepared(r)[2] = r[2]
        /\ Doubled(Prepared(l)) = Doubled(l) /\ Doubled(Prepared(r)) = Doubled(r)
    BY PreparedData DEF Pair, Kinds
  <1>2. "Float" \in Kinds(Prepared(l), Prepared(r)) <=> "Float" \in Kinds(l, r)
    BY PreparedKinds
  <1> QED BY <1>1, <1>2 DEF Number

(* The literals for which an operator is known to be folded otherwise.     *)
FoldGap(op, a, b) ==
    \/ op \in {"+", "-", "*"} /\ Kinds(a, b) \in {{"Bool", "Char"}, {"Bool", "String"}}
    \/ op \in {"&&", "||"} /\ Kinds(a, b) # {"Bool"}

Agrees(op, a, b) == leftOpRight(op, a, b) \in {Refused, Native(op, a, b)}

(* The folding an operator stands for.                                     *)
LEMMA FoldOf ==
    ASSUME NEW l, NEW r
    PROVE  /\ leftOpRight("+", l, r) = fold_plus(l, r) /\ leftOpRight("-", l, r) = fold_minus(l, r)
           /\ leftOpRight("*", l, r) = fold_mul(l, r) /\ leftOpRight("/", l, r) = fold_divide(l, r)
           /\ leftOpRight("%", l, r) = fold_mod(l, r)
           /\ leftOpRight("&", l, r) = fold_bitwise_and(l, r)
           /\ leftOpRight("|", l, r) = fold_bitwise_or(l, r)
           /\ leftOpRight("==", l, r) = fold_eqeq(l, r) /\ leftOpRight("!=", l, r) = fold_not_eq(l, r)
           /\ \A op \in Relations : leftOpRight(op, l, r) = FoldOrdered(op, l, r)
           /\ \A op \in Identities : leftOpRight(op, l, r) = FoldIdentity(op, l, r)
           /\ \A op \in {"&&", "||"} : leftOpRight(op, l, r) = FoldLogical(op, l, r)
  BY DEF leftOpRight, Relations, Identities, fold_greater_than, fold_less_than,
         fold_greater_than_eq, fold_less_than_eq

(* A folded sum is what plus gives.                                        *)
LEMMA SumFolds ==
    ASSUME NEW a, NEW b, Pair(a, b), ~FoldGap("+", a, b)
    PROVE  Agrees("+", a, b)
  <1> DEFINE x == Prepared(a)
             y == Prepared(b)
             k == Kinds(x, y)
  <1>1. /\ k \subseteq {"Int", "Float"} => fold_plus(a, b) = Number("+", x, y)
        /\ k = {"Char", "Int"} => fold_plus(a, b) = ToChar(x[2] + y[2])
        /\ (k = {"Char"} \/ "String" \in k) => fold_plus(a, b) = Joined(x, y)
        /\ ~(\/ k \subseteq {"Int", "Float"} \/ k = {"Char", "Int"} \/ k = {"Char"} \/ "String" \in k)
           => fold_plus(a, b) = Refused
    BY PreparedOperands DEF fold_plus, Kinds
  <1> HIDE DEF x, y, k
  <1>2. CASE Kinds(a, b) \subseteq Numbers
    BY <1>1, <1>2, PreparedKinds, PreparedNumber, PlusCases, NativeOf, FoldOf DEF Agrees, x, y, k
  <1>3. CASE x = a /\ y = b
    BY <1>1, <1>3, PlusCases, NativeOf, FoldOf DEF Agrees, k, Numbers, Kinds
  <1>4. CASE Kinds(a, b) = {"Null", "Bool"}
    <2>1. /\ Kind(a) = "Bool" => Kind(x) = "Int"
          /\ Kind(b) = "Bool" => Kind(y) = "Int"
          /\ Kind(a) # "Bool" => x = a
          /\ Kind(b) # "Bool" => y = b
      BY PreparedData DEF Pair, x, y
    <2>2. k = {"Null", "Int"}
      BY <1>4, <2>1 DEF k, Kinds
    <2>3. fold_plus(a, b) = Refused
      BY <1>1, <2>2
    <2> QED BY <2>3, FoldOf DEF Agrees
  <1>5. Kinds(a, b) \notin {{"Bool", "Char"}, {"Bool", "String"}}
    BY DEF FoldGap
  <1>6. \/ Kinds(a, b) \in {{"Bool", "Char"}, {"Bool", "String"}, {"Null", "Bool"}}
        \/ Kinds(a, b) \subseteq Numbers
        \/ x = a /\ y = b
    BY PreparedKinds DEF x, y
  <1> QED BY <1>2, <1>3, <1>4, <1>5, <1>6

(* A folded difference is what minus gives.                                *)
LEMMA DifferenceFolds ==
    ASSUME NEW a, NEW b, Pair(a, b), ~FoldGap("-", a, b)
    PROVE  Agrees("-", a, b)
  <1> DEFINE x == Prepared(a)
             y == Prepared(b)
             k == Kinds(x, y)
  <1>1. /\ k \subseteq {"Int", "Float"} => fold_minus(a, b) = Number("-", x, y)
        /\ k = {"Char"} => fold_minus(a, b) = <<"Int", x[2] - y[2]>>
        /\ (Kind(x) = "Char" /\ Kind(y) = "Int") => fold_minus(a, b) = ToChar(x[2] - y[2])
        /\ ~(\/ k \subseteq {"Int", "Float"} \/ k = {"Char"}
             \/ (Kind(x) = "Char" /\ Kind(y) = "Int")) => fold_minus(a, b) = Refused
    BY PreparedOperands DEF fold_minus, Kinds
  <1> HIDE DEF x, y, k
  <1>2. CASE Kinds(a, b) \subseteq Numbers
    BY <1>1, <1>2, PreparedKinds, PreparedNumber, MinusCases, NativeOf, FoldOf DEF Agrees, x, y, k
  <1>3. CASE x = a /\ y = b
    BY <1>1, <1>3, MinusCases, NativeOf, FoldOf DEF Agrees, k, Numbers, Kinds
  <1>4. CASE Kinds(a, b) = {"Null", "Bool"}
    <2>1. /\ Kind(a) = "Bool" => Kind(x) = "Int"
          /\ Kind(b) = "Bool" => Kind(y) = "Int"
          /\ Kind(a) # "Bool" => x = a
          /\ Kind(b) # "Bool" => y = b
      BY PreparedData DEF Pair, x, y
    <2>2. k = {"Null", "Int"} /\ ~(Kind(x) = "Char" /\ Kind(y) = "Int")
      BY <1>4, <2>1 DEF k, Kinds
    <2>3. fold_minus(a, b) = Refused
      BY <1>1, <2>2
    <2> QED BY <2>3, FoldOf DEF Agrees
  <1>5. Kinds(a, b) \notin {{"Bool", "Char"}, {"Bool", "String"}}
    BY DEF FoldGap
  <1>6. \/ Kinds(a, b) \in {{"Bool", "Char"}, {"Bool", "String"}, {"Null", "Bool"}}
        \/ Kinds(a, b) \subseteq Numbers
        \/ x = a /\ y = b
    BY PreparedKinds DEF x, y
  <1> QED BY <1>2, <1>3, <1>4, <1>5, <1>6

(* A folded product is what mul gives.                                     *)
LEMMA ProductFolds ==
    ASSUME NEW a, NEW b, Pair(a, b), ~FoldGap("*", a, b)
    PROVE  Agrees("*", a, b)
  <1> DEFINE x == Prepared(a)
             y == Prepared(b)
             k == Kinds(x, y)
  <1>1. /\ k \subseteq {"Int", "Float"} => fold_mul(a, b) = Number("*", x, y)
        /\ (Kind(x) = "Int" /\ Kind(y) = "String") => fold_mul(a, b) = repeat(y, x[2])
        /\ (Kind(x) = "String" /\ Kind(y) = "Int") => fold_mul(a, b) = repeat(x, y[2])
        /\ ~(\/ k \subseteq {"Int", "Float"} \/ (Kind(x) = "Int" /\ Kind(y) = "String")
             \/ (Kind(x) = "String" /\ Kind(y) = "Int")) => fold_mul(a, b) = Refused
    BY PreparedOperands DEF fold_mul, Kinds
  <1> HIDE DEF x, y, k
  <1>2. CASE Kinds(a, b) \subseteq Numbers
    BY <1>1, <1>2, PreparedKinds, PreparedNumber, MulCases, NativeOf, FoldOf DEF Agrees, x, y, k
  <1>3. CASE x = a /\ y = b
    BY <1>1, <1>3, MulCases, NativeOf, FoldOf DEF Agrees, k, Numbers, Kinds
  <1>4. CASE Kinds(a, b) = {"Null", "Bool"}
    <2>1. /\ Kind(a) = "Bool" => Kind(x) = "Int"
          /\ Kind(b) = "Bool" => Kind(y) = "Int"
          /\ Kind(a) # "Bool" => x = a
          /\ Kind(b) # "Bool" => y = b
      BY PreparedData DEF Pair, x, y
    <2>2. /\ k = {"Null", "Int"} /\ ~(Kind(x) = "Int" /\ Kind(y) = "String")
          /\ ~(Kind(x) = "String" /\ Kind(y) = "Int")
      BY <1>4, <2>1 DEF k, Kinds
    <2>3. fold_mul(a, b) = Refused
      BY <1>1, <2>2
    <2> QED BY <2>3, FoldOf DEF Agrees
  <1>5. Kinds(a, b) \notin {{"Bool", "Char"}, {"Bool", "String"}}
    BY DEF FoldGap
  <1>6. \/ Kinds(a, b) \in {{"Bool", "Char"}, {"Bool", "String"}, {"Null", "Bool"}}
        \/ Kinds(a, b) \subseteq Numbers
        \/ x = a /\ y = b
    BY PreparedKinds DEF x, y
  <1> QED BY <1>2, <1>3, <1>4, <1>5, <1>6

(* A folded quotient or remainder is what divide or mod gives.             *)
LEMMA QuotientFolds ==
    ASSUME NEW a, NEW b, Pair(a, b)
    PROVE  Agrees("/", a, b) /\ Agrees("%", a, b)
  <1>1. Agrees("/", a, b)
    <2> DEFINE x == Prepared(a)
               y == Prepared(b)
    <2>1. /\ Kinds(x, y) \subseteq {"Int", "Float"} /\ y[2] # 0 => fold_divide(a, b) = Number("/", x, y)
          /\ ~(Kinds(x, y) \subseteq {"Int", "Float"} /\ y[2] # 0) => fold_divide(a, b) = Refused
      BY PreparedOperands DEF fold_divide
    <2>2. y[2] = b[2]
      BY PreparedData DEF Pair
    <2> HIDE DEF x, y
    <2>3. CASE Kinds(x, y) \subseteq {"Int", "Float"} /\ y[2] # 0
      <3>1. Kinds(a, b) \subseteq Numbers
        BY <2>3, PreparedKinds DEF x, y
      <3> QED BY <2>1, <2>2, <2>3, <3>1, PreparedNumber, NativeOf, FoldOf DEF Agrees, divide, x, y
    <2>4. CASE ~(Kinds(x, y) \subseteq {"Int", "Float"} /\ y[2] # 0)
      BY <2>1, <2>4, FoldOf DEF Agrees
    <2> QED BY <2>3, <2>4
  <1>2. Agrees("%", a, b)
    <2>1. CASE Kinds(a, b) \subseteq {"Int", "Float"} /\ b[2] # 0
      <3>1. Kinds(a, b) \subseteq Numbers /\ Kind(b) # "Bool"
        BY <2>1 DEF Numbers, Kinds
      <3> QED BY <2>1, <3>1, NativeOf, FoldOf DEF Agrees, fold_mod, mod
    <2>2. CASE ~(Kinds(a, b) \subseteq {"Int", "Float"} /\ b[2] # 0)
      BY <2>2, FoldOf DEF Agrees, fold_mod
    <2> QED BY <2>1, <2>2
  <1> QED BY <1>1, <1>2

(* Folded bits are those the natives give.                                 *)
LEMMA BitsFold ==
    ASSUME NEW a, NEW b
    PROVE  Agrees("&", a, b) /\ Agrees("|", a, b)
  BY NativeOf, FoldOf DEF Agrees, fold_bitwise_and, fold_bitwise_or

(* Equal objects of one class are those with equal data.                   *)
LEMMA SameDatum ==
    ASSUME NEW a, NEW b, Pair(a, b), Kind(a) = Kind(b), Kind(a) \in Numbers
    PROVE  Doubled(a) = Doubled(b) <=> a = b
  <1>1. a = <<a[1], a[2]>> /\ b = <<b[1], b[2]>> /\ a[1] = b[1] /\ a[2] \in Int /\ b[2] \in Int
    BY ObjectData, NumberData DEF Pair, Kind
  <1>2. Doubled(a) = Doubled(b) <=> a[2] = b[2]
    BY <1>1 DEF Doubled, Kind
  <1>3. a[2] = b[2] => <<a[1], a[2]>> = <<b[1], b[2]>>
    BY <1>1
  <1> QED BY <1>1, <1>2, <1>3

(* Folded equalities are those the natives give.                           *)
LEMMA EqualitiesFold ==
    ASSUME NEW a, NEW b, Pair(a, b)
    PROVE  Agrees("==", a, b) /\ Agrees("!=", a, b)
  <1>1. /\ Kinds(a, b) \subseteq {"Int", "Float"} => fold_eqeq(a, b) = Truth(Doubled(a) = Doubled(b))
        /\ Kinds(a, b) \in {{"Bool"}, {"Char"}, {"String"}} => fold_eqeq(a, b) = Truth(a = b)
        /\ ~(\/ Kinds(a, b) \subseteq {"Int", "Float"} \/ Kinds(a, b) \in {{"Bool"}, {"Char"}, {"String"}})
           => fold_eqeq(a, b) = Refused
    BY DEF fold_eqeq, Kinds
  <1>2. /\ Kinds(a, b) \subseteq {"Int", "Float"} => fold_not_eq(a, b) = Truth(Doubled(a) # Doubled(b))
        /\ Kinds(a, b) \in {{"Bool"}, {"Char"}, {"String"}} => fold_not_eq(a, b) = Truth(a # b)
        /\ ~(\/ Kinds(a, b) \subseteq {"Int", "Float"} \/ Kinds(a, b) \in {{"Bool"}, {"Char"}, {"String"}})
           => fold_not_eq(a, b) = Refused
    BY DEF fold_not_eq, Kinds
  <1>3. CASE Kinds(a, b) \subseteq {"Int", "Float"}
    BY <1>1, <1>2, <1>3, NativeOf, FoldOf DEF Agrees, op_eqeq, op_not_eq, Numbers
  <1>4. CASE Kinds(a, b) = {"Bool"}
    <2>1. Doubled(a) = Doubled(b) <=> a = b
      BY <1>4, SameDatum DEF Kinds, Numbers
    <2>2. op_eqeq(a, b) = Truth(a = b) /\ op_not_eq(a, b) = Truth(a # b)
      BY <1>4, <2>1 DEF op_eqeq, op_not_eq, Numbers, Truth
    <2> QED BY <1>1, <1>2, <1>4, <2>2, NativeOf, FoldOf DEF Agrees
  <1>5. CASE Kinds(a, b) \in {{"Char"}, {"String"}}
    <2>1. ~(Kinds(a, b) \subseteq Numbers)
      BY <1>5 DEF Numbers
    <2> QED BY <1>1, <1>2, <1>5, <2>1, NativeOf, FoldOf DEF Agrees, op_eqeq, op_not_eq
  <1>6. CASE ~(\/ Kinds(a, b) \subseteq {"Int", "Float"} \/ Kinds(a, b) \in {{"Bool"}, {"Char"}, {"String"}})
    BY <1>1, <1>2, <1>6, FoldOf DEF Agrees
  <1> QED BY <1>3, <1>4, <1>5, <1>6

(* Folded comparisons are those the natives give.                          *)
LEMMA RelationsFold ==
    ASSUME NEW op \in Relations, NEW a, NEW b, Pair(a, b)
    PROVE  Agrees(op, a, b)
  <1> DEFINE x == Prepared(a)
             y == Prepared(b)
  <1>1. /\ Kinds(x, y) \subseteq {"Int", "Float"}
           => FoldOrdered(op, a, b) = Truth(Compared(op, Doubled(x), Doubled(y)))
        /\ Kinds(a, b) = {"Char"} => FoldOrdered(op, a, b) = Truth(Compared(op, a[2], b[2]))
        /\ ~(Kinds(x, y) \subseteq {"Int", "Float"} \/ Kinds(a, b) = {"Char"})
           => FoldOrdered(op, a, b) = Refused
    <2>1. Kinds(x, y) = {"Char"} <=> Kinds(a, b) = {"Char"}
      BY PreparedKinds
    <2>2. Kinds(x, y) = {"Char"} => ~(Kinds(x, y) \subseteq {"Int", "Float"})
      OBVIOUS
    <2> QED BY <2>1, <2>2, PreparedOperands DEF FoldOrdered
  <1>2. Kinds(x, y) \subseteq {"Int", "Float"} <=> Kinds(a, b) \subseteq Numbers
    BY PreparedKinds
  <1> HIDE DEF x, y
  <1>3. CASE Kinds(a, b) \subseteq Numbers
    <2>1. Doubled(x) = Doubled(a) /\ Doubled(y) = Doubled(b)
      BY <1>3, PreparedData DEF Pair, Kinds, x, y
    <2>2. FoldOrdered(op, a, b) = Truth(Compared(op, Doubled(a), Doubled(b)))
      BY <1>1, <1>2, <1>3, <2>1
    <2>3. Ordered(op, a, b) = Truth(Compared(op, Doubled(a), Doubled(b)))
      BY <1>3, OrderedCases
    <2>4. leftOpRight(op, a, b) = FoldOrdered(op, a, b) /\ Native(op, a, b) = Ordered(op, a, b)
      BY NativeOf, FoldOf
    <2>5. FoldOrdered(op, a, b) = Ordered(op, a, b)
      BY <2>2, <2>3
    <2> QED BY <2>4, <2>5 DEF Agrees
  <1>4. CASE Kinds(a, b) = {"Char"}
    <2>2. FoldOrdered(op, a, b) = Truth(Compared(op, a[2], b[2]))
      BY <1>1, <1>4
    <2>3. Ordered(op, a, b) = Truth(Compared(op, a[2], b[2]))
      BY <1>4, OrderedCases
    <2>4. leftOpRight(op, a, b) = FoldOrdered(op, a, b) /\ Native(op, a, b) = Ordered(op, a, b)
      BY NativeOf, FoldOf
    <2>5. FoldOrdered(op, a, b) = Ordered(op, a, b)
      BY <2>2, <2>3
    <2> QED BY <2>4, <2>5 DEF Agrees
  <1>5. CASE ~(Kinds(a, b) \subseteq Numbers \/ Kinds(a, b) = {"Char"})
    BY <1>1, <1>2, <1>5, FoldOf DEF Agrees
  <1> QED BY <1>3, <1>4, <1>5

(* Folded logic and identities are those the natives give.                 *)
LEMMA LogicFolds ==
    ASSUME NEW op \in Identities \cup {"&&", "||"}, NEW a, NEW b, Pair(a, b), ~FoldGap(op, a, b)
    PROVE  Agrees(op, a, b)
  <1>1. CASE op \in Identities
    BY <1>1, NativeOf, FoldOf DEF Agrees, Identities, FoldIdentity
  <1>2. CASE op \in {"&&", "||"}
    <2>1. Kinds(a, b) = {"Bool"}
      BY <1>2 DEF FoldGap
    <2>2. a \in {True, False} /\ b \in {True, False} /\ True # False
      BY <2>1, ObjectData DEF Pair, Kinds, Kind, True, False
    <2>3. FoldLogical(op, a, b) = Native(op, a, b)
      BY <1>2, <2>1, <2>2, NativeOf DEF FoldLogical, op_and_and, op_or_or, Truth
    <2> QED BY <1>2, <2>3, FoldOf DEF Agrees
  <1> QED BY <1>1, <1>2

(* What is folded is what the native returns, for all literals.            *)
LEMMA FoldingAgrees ==
    ASSUME NEW op \in BinaryOps, NEW a, NEW b, Pair(a, b), ~FoldGap(op, a, b)
    PROVE  leftOpRight(op, a, b) \in {Refused, Native(op, a, b)}
  BY SumFolds, DifferenceFolds, ProductFolds, QuotientFolds, BitsFold, EqualitiesFold,
     RelationsFold, LogicFolds DEF BinaryOps, Arithmetic, Equalities, Agrees

(***************************************************************************)
(* The class the compiler gives an expression.                             *)
(***************************************************************************)

(* An operand the compiler may see: its class is that of its value or Any, *)
(* or null was declared of another class.                                  *)
IsOperand(s) ==
    /\ IsObject(s.value) /\ s.nullable \in BOOLEAN
    /\ IF Kind(s.value) = "Null" THEN s.nullable /\ s.class \in {"Null", "Int", "Bool", "String"}
       ELSE s.class \in {Kind(s.value), "Any"}

(* Where no disagreement is known.                                         *)
LEMMA NoGap ==
    ASSUME NEW op, NEW s, NEW t, BinaryGap(op, s, t) = "none"
    PROVE  /\ ~FoldGap(op, s.value, t.value)
           /\ ~(/\ "Null" \in Kinds(s.value, t.value)
                /\ {s.class, t.class} \cap {"Bool", "String"} # {} /\ op \in {"+", "-", "*", "/"})
           /\ ~(op = "+" /\ {s.class, t.class} = {"Float", "Any"} /\ "String" \in Kinds(s.value, t.value))
           /\ ~(op = "-" /\ t.class = "Char" /\ s.class \in {"Int", "Bool"})
           /\ Native(op, s.value, t.value) # Trap
  BY DEF BinaryGap, FoldGap

(* What is claimed of an operator the compiler accepts: the code emitted   *)
(* for it computes what the native computes of the operands as they are;   *)
(* without an Any among them there is an operator for them; and what it    *)
(* gives has the class of the expression.                                  *)
Sound(op, form, s, t) ==
    LET n == Native(op, s.value, t.value)
    IN  /\ Emitted(op, form, s, t) = n
        /\ n = NoOperator => "Any" \in {s.class, t.class}
        /\ ~Fails(n) => Kind(n) # "Null" /\ TypeOf(op, s, t) \in {Kind(n), "Any"}
        /\ TypeOf(op, s, t) = "Any" => "Any" \in {s.class, t.class}
        /\ TypeOf(op, s, t) \in Classes \cup {"Any"}

(* An error is no object.                                                  *)
LEMMA ErrorsFail == \A n \in Errors : Fails(n) /\ Kind(n) \notin Classes
  <1>1. /\ Kind(NoOperator) = "Raised" /\ Kind(ByZero) = "Raised" /\ Kind(Trap) = "Trapped"
        /\ Kind(Refused) = "Refused" /\ Kind(<<"Junk", "not an object">>) = "Junk"
    BY DEF Kind, NoOperator, ByZero, Trap, Refused
  <1> QED BY <1>1 DEF Errors, Fails, Failures, Classes, Numbers

(* Sound, where the natives have an object.                                *)
LEMMA SoundOf ==
    ASSUME NEW op, NEW form, NEW s, NEW t,
           Emitted(op, form, s, t) = Native(op, s.value, t.value),
           Kind(Native(op, s.value, t.value)) \in Classes \ {"Null"},
           TypeOf(op, s, t) \in {Kind(Native(op, s.value, t.value)), "Any"},
           TypeOf(op, s, t) = "Any" => "Any" \in {s.class, t.class}
    PROVE  Sound(op, form, s, t)
  <1>1. Kind(NoOperator) \notin Classes
    BY DEF Kind, NoOperator, Classes, Numbers
  <1> QED BY <1>1 DEF Sound

(* Sound, where an operand was declared Any.                               *)
LEMMA SoundWithAny ==
    ASSUME NEW op, NEW form, NEW s, NEW t, "Any" \in {s.class, t.class},
           Emitted(op, form, s, t) = Native(op, s.value, t.value),
           TypeOf(op, s, t) \in Classes \cup {"Any"},
           \/ Native(op, s.value, t.value) \in Errors
           \/ /\ Kind(Native(op, s.value, t.value)) # "Null"
              /\ TypeOf(op, s, t) \in {Kind(Native(op, s.value, t.value)), "Any"}
    PROVE  Sound(op, form, s, t)
  <1>1. \A n \in Errors : Fails(n)
    BY ErrorsFail
  <1> QED BY <1>1 DEF Sound

(* The kind of a sum.                                                      *)
LEMMA PlusKinds ==
    ASSUME NEW a, NEW b, Pair(a, b)
    PROVE  /\ Kinds(a, b) \subseteq Numbers /\ "Float" \in Kinds(a, b) => Kind(plus(a, b)) = "Float"
           /\ Kinds(a, b) \subseteq {"Int", "Bool"} => Kind(plus(a, b)) = "Int" \/ plus(a, b) = Trap
           /\ Kinds(a, b) = {"Int", "Char"} => Kind(plus(a, b)) = "Char"
           /\ (Kinds(a, b) = {"Char"} \/ "String" \in Kinds(a, b)) => Kind(plus(a, b)) = "String"
  <1>1. Kinds(a, b) \subseteq Numbers => /\ plus(a, b) = Number("+", a, b)
                                         /\ "Float" \in Kinds(a, b) => Kind(Number("+", a, b)) = "Float"
                                         /\ "Float" \notin Kinds(a, b) => \/ Kind(Number("+", a, b)) = "Int"
                                                                          \/ Number("+", a, b) = Trap
    BY PlusCases, NumberResults DEF Arithmetic
  <1>2. \A x, y : Kind(Joined(x, y)) = "String"
    BY DEF Joined, Kind
  <1>3. \A n : Kind(ToChar(n)) = "Char"
    BY DEF ToChar, Kind
  <1> QED BY <1>1, <1>2, <1>3, PlusCases DEF Numbers

(* Casting a Bool operand to Int changes nothing a number is used for.     *)
CastOf(cast, v) == IF cast THEN CastTo("Int", v) ELSE v

(* A Bool cast to Int, as a number.                                        *)
LEMMA CastData ==
    ASSUME NEW v, IsObject(v), Kind(v) = "Bool"
    PROVE  /\ Kind(CastTo("Int", v)) = "Int" /\ Doubled(CastTo("Int", v)) = Doubled(v)
           /\ CastTo("Int", v)[2] = v[2]
  <1>1. CastTo("Int", v) = <<"Int", v[2]>>
    BY DEF CastTo
  <1> QED BY <1>1 DEF Kind, Doubled

(* Two numbers give the same after the casts.                              *)
LEMMA CastNumber ==
    ASSUME NEW op, NEW a, NEW b, Pair(a, b), Kinds(a, b) \subseteq Numbers,
           NEW c \in BOOLEAN, NEW d \in BOOLEAN,
           c => Kind(a) = "Bool", d => Kind(b) = "Bool"
    PROVE  /\ Number(op, CastOf(c, a), CastOf(d, b)) = Number(op, a, b)
           /\ Kinds(CastOf(c, a), CastOf(d, b)) \subseteq Numbers
           /\ CastOf(d, b)[2] = b[2]
  <1> DEFINE x == CastOf(c, a)
             y == CastOf(d, b)
  <1>1. /\ x[2] = a[2] /\ Doubled(x) = Doubled(a) /\ Kind(x) \in Numbers
        /\ Kind(x) = "Float" <=> Kind(a) = "Float"
    BY CastData DEF CastOf, Pair, Kinds, Numbers
  <1>2. /\ y[2] = b[2] /\ Doubled(y) = Doubled(b) /\ Kind(y) \in Numbers
        /\ Kind(y) = "Float" <=> Kind(b) = "Float"
    BY CastData DEF CastOf, Pair, Kinds, Numbers
  <1> HIDE DEF x, y
  <1>3. "Float" \in Kinds(x, y) <=> "Float" \in Kinds(a, b)
    BY <1>1, <1>2 DEF Kinds
  <1>4. Number(op, x, y) = Number(op, a, b)
    BY <1>1, <1>2, <1>3 DEF Number
  <1> QED BY <1>1, <1>2, <1>4 DEF x, y, Kinds

(* What an operand's class says of its value.                              *)
LEMMA OperandClass ==
    ASSUME NEW s, IsOperand(s)
    PROVE  /\ IsObject(s.value) /\ Kind(s.value) \in Classes
           /\ s.class \in Classes \cup {"Any"}
           /\ ~s.nullable => s.class \in {Kind(s.value), "Any"} /\ Kind(s.value) # "Null"
           /\ s.class # "Any" /\ Kind(s.value) # "Null" => s.class = Kind(s.value)
           /\ s.class = "Any" => Kind(s.value) # "Null"
           /\ Kind(s.value) = "Null" => s.nullable /\ s.class \in {"Null", "Int", "Bool", "String"}
  BY ObjectData DEF IsOperand, Classes, Numbers

(* The class of a sum or of another operator of arithmetic, by the pair of *)
(* classes that is looked up.                                              *)
Looked(op, s, t) == {ClassAfter(CastsLeft(op, s, t), s), ClassAfter(CastsRight(op, s, t), t)}

(* The class the table gives a sum.                                        *)
LEMMA SumClass ==
    ASSUME NEW s, NEW t, ~NullRefused("+", s, t)
    PROVE  LET pair == Looked("+", s, t)
               type == TypeOf("+", s, t)
           IN  /\ pair \subseteq {"Int", "Bool"} => type = "Int"
               /\ pair \subseteq Numbers /\ "Float" \in pair => type = "Float"
               /\ pair = {"Char"} \/ "String" \in pair => type = "String"
               /\ pair = {"Char", "Int"} => type = "Char"
               /\ pair = {"Float", "Any"} => type = "Float"
               /\ "Any" \in pair /\ pair \cap {"String", "Float"} = {} => type = "Any"
               /\ ~(\/ pair \subseteq Numbers \/ pair = {"Char"} \/ "String" \in pair
                    \/ pair = {"Char", "Int"} \/ "Any" \in pair) => type = "none"
  <1> DEFINE pair == Looked("+", s, t)
  <1>1. /\ TypeResult("+", pair) # "none" => TypeOf("+", s, t) = TypeResult("+", pair)
        /\ TypeResult("+", pair) = "none" => TypeOf("+", s, t) = ResultBesideTable("+", pair)
    BY DEF TypeOf, Looked, Identities, Equalities
  <1>p. \E x, y : pair = {x, y}
    BY DEF Looked
  <1> HIDE DEF pair
  <1>2. /\ pair \subseteq {"Int", "Bool"} => TypeResult("+", pair) = "Int"
        /\ pair \subseteq Numbers /\ "Float" \in pair => TypeResult("+", pair) = "Float"
        /\ pair = {"Char"} => TypeResult("+", pair) = "String"
        /\ "String" \in pair /\ pair # {"String", "Any"} => TypeResult("+", pair) = "String"
        /\ pair = {"Char", "Int"} => TypeResult("+", pair) = "Char"
        /\ ~(\/ pair \subseteq Numbers \/ pair = {"Char"} \/ ("String" \in pair /\ pair # {"String", "Any"})
             \/ pair = {"Char", "Int"}) => TypeResult("+", pair) = "none"
    BY <1>p DEF TypeResult, Relations, Equalities, Arithmetic, Numbers
  <1>3. /\ "String" \in pair => ResultBesideTable("+", pair) = "String"
        /\ "Any" \notin pair /\ "String" \notin pair => ResultBesideTable("+", pair) = "none"
        /\ "Any" \in pair /\ "String" \notin pair
           => ResultBesideTable("+", pair) = IF "Float" \in pair THEN "Float" ELSE "Any"
    BY DEF ResultBesideTable, Arithmetic
  <1> QED BY <1>1, <1>2, <1>3 DEF Numbers, pair

(* A sum computes what plus computes, of the class it was given.           *)
LEMMA SumSound ==
    ASSUME NEW form, NEW s, NEW t, IsOperand(s), IsOperand(t), BinaryGap("+", s, t) = "none",
           TypeOf("+", s, t) # "none"
    PROVE  Sound("+", form, s, t)
  <1> DEFINE a == s.value
             b == t.value
             c == CastsLeft("+", s, t)
             d == CastsRight("+", s, t)
  <1>1. /\ ~(Kinds(a, b) \in {{"Bool", "Char"}, {"Bool", "String"}})
        /\ ~("Null" \in Kinds(a, b) /\ {s.class, t.class} \cap {"Bool", "String"} # {})
        /\ ~({s.class, t.class} = {"Float", "Any"} /\ "String" \in Kinds(a, b))
    BY NoGap DEF FoldGap
  <1>2. Pair(a, b) /\ Kind(a) \in Classes /\ Kind(b) \in Classes
    BY ObjectData DEF IsOperand, Pair
  <1>3. Native("+", a, b) = plus(a, b)
    BY NativeOf
  <1>4. ~NullRefused("+", s, t)
    BY DEF TypeOf
  <1>5. "Null" \notin Kinds(a, b)
    BY <1>1, <1>4, OperandClass DEF NullRefused, Kinds, Equalities, Identities
  <1>6. c \in BOOLEAN /\ d \in BOOLEAN /\ (c => s.class = "Bool") /\ (d => t.class = "Bool")
    BY DEF CastsLeft, CastsRight
  <1>7. (c \/ d) => Kinds(a, b) \subseteq Numbers
    BY <1>1, <1>2, <1>5, <1>6, OperandClass DEF Kinds, Classes, Numbers
  <1>8. Emitted("+", form, s, t) = plus(CastOf(c, a), CastOf(d, b))
    BY NativeOf DEF Emitted, CastOf
  <1>9. plus(CastOf(c, a), CastOf(d, b)) = plus(a, b)
    <2>1. CASE c \/ d
      <3>1. (c => Kind(a) = "Bool") /\ (d => Kind(b) = "Bool")
        BY <1>5, <1>6, OperandClass DEF Kinds
      <3> HIDE DEF a, b, c, d
      <3> QED BY <1>2, <1>6, <1>7, <2>1, <3>1, CastNumber, PlusCases
    <2>2. CASE ~c /\ ~d
      BY <2>2 DEF CastOf
    <2> QED BY <2>1, <2>2
  <1>10. plus(a, b) # Trap /\ Emitted("+", form, s, t) = Native("+", s.value, t.value)
    BY <1>3, <1>8, <1>9, NoGap
  <1> DEFINE pair == Looked("+", s, t)
             type == TypeOf("+", s, t)
  <1>11. /\ pair = {IF c THEN "Int" ELSE s.class, IF d THEN "Int" ELSE t.class}
         /\ ~c => s.class # "Bool" \/ t.class = "String"
         /\ ~d => t.class # "Bool"
    BY DEF Looked, ClassAfter, CastsLeft, CastsRight
  <1>12. CASE "Any" \notin {s.class, t.class}
    <2>1. s.class = Kind(a) /\ t.class = Kind(b)
      BY <1>5, <1>12, OperandClass DEF Kinds
    <2>2. CASE Kinds(a, b) \subseteq Numbers
      <3>1. pair \subseteq {"Int", "Float"} /\ ("Float" \in pair <=> "Float" \in Kinds(a, b))
        <4> HIDE DEF a, b, c, d, pair
        <4> QED BY <1>6, <1>11, <2>1, <2>2 DEF Kinds, Numbers
      <3>2. type = Kind(plus(a, b)) /\ type \in {"Int", "Float"}
        <4>1. CASE "Float" \in Kinds(a, b)
          <5>1. type = "Float"
            BY <1>4, <3>1, <4>1, SumClass DEF Numbers
          <5> QED BY <1>2, <2>2, <4>1, <5>1, PlusKinds
        <4>2. CASE "Float" \notin Kinds(a, b)
          <5>1. type = "Int"
            BY <1>4, <3>1, <4>2, SumClass DEF Numbers
          <5>2. Kinds(a, b) \subseteq {"Int", "Bool"}
            BY <2>2, <4>2 DEF Numbers
          <5> QED BY <1>2, <1>10, <5>1, <5>2, PlusKinds
        <4> QED BY <4>1, <4>2
      <3> QED BY <1>3, <1>8, <1>9, <3>2, SoundOf DEF Classes, Numbers
    <2>3. CASE ~(Kinds(a, b) \subseteq Numbers)
      <3>1. pair = Kinds(a, b)
        BY <1>7, <1>11, <2>1, <2>3 DEF Kinds
      <3>2. type = Kind(plus(a, b)) /\ type \in {"String", "Char"}
        <4>1. \/ Kinds(a, b) = {"Char"} \/ "String" \in Kinds(a, b)
              \/ Kinds(a, b) = {"Char", "Int"} \/ "Any" \in Kinds(a, b)
          BY <1>4, <2>3, <3>1, SumClass
        <4>2. "Any" \notin Kinds(a, b)
          BY <1>2 DEF Kinds, Classes, Numbers
        <4>3. CASE Kinds(a, b) = {"Char"} \/ "String" \in Kinds(a, b)
          BY <1>2, <1>4, <3>1, <4>3, SumClass, PlusKinds
        <4>4. CASE Kinds(a, b) = {"Char", "Int"}
          <5>1. Kinds(a, b) = {"Int", "Char"}
            BY <4>4
          <5> QED BY <1>2, <1>4, <3>1, <4>4, <5>1, SumClass, PlusKinds
        <4> QED BY <4>1, <4>2, <4>3, <4>4
      <3> QED BY <1>3, <1>8, <1>9, <3>2, SoundOf DEF Classes, Numbers
    <2> QED BY <2>2, <2>3
  <1>13. CASE "Any" \in {s.class, t.class}
    <2>1. "Any" \in pair
      BY <1>6, <1>11, <1>13
    <2>2. \/ plus(a, b) = NoOperator
          \/ Kind(plus(a, b)) \in {"Int", "Float", "Char", "String"}
      BY <1>2, <1>10, PlusKinds, PlusCases DEF Numbers
    <2>3. CASE "String" \in pair
      <3>1. "String" \in Kinds(a, b)
        BY <1>5, <1>11, <2>3, OperandClass DEF Kinds
      <3>2. Kind(plus(a, b)) = "String" /\ type = "String"
        BY <1>2, <1>4, <2>3, <3>1, PlusKinds, SumClass
      <3> QED BY <1>3, <1>8, <1>9, <3>2, SoundOf DEF Classes, Numbers
    <2>4. CASE "Float" \in pair /\ "String" \notin pair
      <3>1. pair = {"Float", "Any"} /\ {s.class, t.class} = {"Float", "Any"}
        BY <1>11, <2>1, <2>4
      <3>2. "Float" \in Kinds(a, b) /\ "String" \notin Kinds(a, b)
        BY <1>1, <1>5, <3>1, OperandClass DEF Kinds
      <3>3. plus(a, b) = NoOperator \/ Kind(plus(a, b)) = "Float"
        BY <1>2, <3>2, PlusKinds, PlusCases DEF Numbers, Kinds
      <3>4. type = "Float"
        BY <1>4, <3>1, SumClass
      <3>5. /\ Native("+", s.value, t.value) \in Errors \/ type = Kind(Native("+", s.value, t.value))
            /\ type \in Classes /\ type # "Null"
        BY <1>3, <3>3, <3>4 DEF Classes, Numbers, Errors
      <3> QED BY <1>10, <1>13, <3>5, SoundWithAny
    <2>5. CASE pair \cap {"String", "Float"} = {}
      <3>1. type = "Any"
        BY <1>4, <2>1, <2>5, SumClass
      <3>2. \/ Native("+", s.value, t.value) \in Errors
            \/ Kind(Native("+", s.value, t.value)) # "Null"
        BY <1>3, <2>2 DEF Errors
      <3> QED BY <1>10, <1>13, <3>1, <3>2, SoundWithAny
    <2> QED BY <2>3, <2>4, <2>5
  <1> QED BY <1>12, <1>13

(* The other operators of arithmetic.                                      *)
LEMMA SoundOrRaised ==
    ASSUME NEW op, NEW form, NEW s, NEW t,
           Emitted(op, form, s, t) = Native(op, s.value, t.value),
           Native(op, s.value, t.value) = ByZero,
           TypeOf(op, s, t) \in Classes
    PROVE  Sound(op, form, s, t)
  <1>1. ByZero # NoOperator /\ Fails(ByZero)
    BY ErrorsFail DEF ByZero, NoOperator, Errors
  <1>2. "Any" \notin Classes
    BY DEF Classes, Numbers
  <1> QED BY <1>1, <1>2 DEF Sound

Products == {"-", "*", "/", "%"}

(* The kind of what - * / and % give.                                      *)
LEMMA ProductKinds ==
    ASSUME NEW op \in Products, NEW a, NEW b, Pair(a, b)
    PROVE  LET n == Native(op, a, b)
           IN  /\ Kinds(a, b) \subseteq Numbers /\ "Float" \in Kinds(a, b)
                  => n \in {ByZero, Trap} \/ Kind(n) = "Float"
               /\ Kinds(a, b) \subseteq {"Int", "Bool"} => n \in {ByZero, Trap} \/ Kind(n) = "Int"
               /\ op = "-" /\ Kinds(a, b) = {"Char"} => Kind(n) = "Int"
               /\ op = "-" /\ Kind(a) = "Char" /\ Kind(b) = "Int" => Kind(n) = "Char"
               /\ op = "*" /\ Kinds(a, b) = {"String", "Int"} => Kind(n) = "String"
               /\ ~(\/ Kinds(a, b) \subseteq Numbers
                    \/ op = "-" /\ (Kinds(a, b) = {"Char"} \/ (Kind(a) = "Char" /\ Kind(b) = "Int"))
                    \/ op = "*" /\ Kinds(a, b) = {"String", "Int"}) => n = NoOperator
  <1> DEFINE n == Native(op, a, b)
             both == Number(op, a, b)
  <1>1. Kinds(a, b) \subseteq Numbers /\ (op \in {"/", "%"} => b[2] # 0)
           => /\ "Float" \in Kinds(a, b) => Kind(both) = "Float"
              /\ "Float" \notin Kinds(a, b) => Kind(both) = "Int" \/ both = Trap
    BY NumberResults DEF Arithmetic, Products
  <1>2. Kinds(a, b) \subseteq {"Int", "Bool"} => Kinds(a, b) \subseteq Numbers /\ "Float" \notin Kinds(a, b)
    BY DEF Numbers
  <1>3. CASE op = "-"
    <2>1. n = minus(a, b)
      BY <1>3, NativeOf
    <2>2. /\ \A x : Kind(ToChar(x)) = "Char"
          /\ \A x : Kind(<<"Int", x>>) = "Int"
      BY DEF ToChar, Kind
    <2> HIDE DEF n, both
    <2>3. Kinds(a, b) \subseteq Numbers => minus(a, b) = both
      BY <1>3, MinusCases DEF both
    <2> QED BY <1>1, <1>2, <1>3, <2>1, <2>2, <2>3, MinusCases DEF n
  <1>4. CASE op = "*"
    <2>1. n = mul(a, b)
      BY <1>4, NativeOf
    <2>2. \A x, y : Kind(repeat(x, y)) = "String"
      BY DEF repeat, Kind
    <2>3. Kinds(a, b) = {"String", "Int"} <=> \/ (Kind(a) = "Int" /\ Kind(b) = "String")
                                              \/ (Kind(a) = "String" /\ Kind(b) = "Int")
      BY DEF Kinds
    <2> HIDE DEF n, both
    <2>4. Kinds(a, b) \subseteq Numbers => mul(a, b) = both
      BY <1>4, MulCases DEF both
    <2> QED BY <1>1, <1>2, <1>4, <2>1, <2>2, <2>3, <2>4, MulCases DEF n
  <1>5. CASE op = "/"
    <2>1. /\ ~(Kinds(a, b) \subseteq Numbers) => n = NoOperator
          /\ Kinds(a, b) \subseteq Numbers /\ b[2] = 0 => n = ByZero
          /\ Kinds(a, b) \subseteq Numbers /\ b[2] # 0 => n = both
      BY <1>5, NativeOf DEF divide
    <2> HIDE DEF n, both
    <2> QED BY <1>1, <1>2, <1>5, <2>1 DEF n
  <1>6. CASE op = "%"
    <2>1. /\ ~(Kinds(a, b) \subseteq Numbers) => n = NoOperator
          /\ Kinds(a, b) \subseteq Numbers /\ b[2] = 0 => n = ByZero
          /\ Kinds(a, b) \subseteq Numbers /\ b[2] # 0 => n = both \/ (n = a /\ Kind(b) = "Bool" /\ Kind(a) # "Bool")
      BY <1>6, NativeOf DEF mod
    <2> HIDE DEF n, both
    <2> QED BY <1>1, <1>2, <1>6, <2>1 DEF n, Kinds, Numbers
  <1> QED BY <1>3, <1>4, <1>5, <1>6 DEF Products

(* The class the table gives - * / and %.                                  *)
LEMMA ProductClass ==
    ASSUME NEW op \in Products, NEW s, NEW t, ~NullRefused(op, s, t)
    PROVE  LET pair == Looked(op, s, t)
               type == TypeOf(op, s, t)
               tabled == \/ pair \subseteq Numbers
                         \/ op = "-" /\ pair \in {{"Char"}, {"Char", "Int"}}
                         \/ op = "*" /\ pair = {"String", "Int"}
           IN  /\ pair \subseteq Numbers /\ "Float" \in pair => type = "Float"
               /\ pair \subseteq {"Int", "Bool"} => type \in {"Int", "none"}
               /\ op = "-" /\ pair = {"Char"} => type = "Int"
               /\ op = "-" /\ pair = {"Char", "Int"} => type = "Char"
               /\ op = "*" /\ pair = {"String", "Int"} => type = "String"
               /\ ~tabled /\ "Any" \notin pair => type = "none"
               /\ "Any" \in pair => type = IF "String" \in pair THEN "String"
                                           ELSE IF "Float" \in pair THEN "Float" ELSE "Any"
  <1> DEFINE pair == Looked(op, s, t)
             tabled == \/ pair \subseteq Numbers
                       \/ op = "-" /\ pair \in {{"Char"}, {"Char", "Int"}}
                       \/ op = "*" /\ pair = {"String", "Int"}
  <1>1. /\ TypeResult(op, pair) # "none" => TypeOf(op, s, t) = TypeResult(op, pair)
        /\ TypeResult(op, pair) = "none" => TypeOf(op, s, t) = ResultBesideTable(op, pair)
    BY DEF TypeOf, Looked, Identities, Equalities, Products
  <1>p. \E x, y : pair = {x, y}
    BY DEF Looked
  <1> HIDE DEF pair
  <1>2. /\ pair \subseteq Numbers /\ "Float" \in pair => TypeResult(op, pair) = "Float"
        /\ pair \subseteq {"Int", "Bool"} => TypeResult(op, pair) \in {"Int", "none"}
        /\ op = "-" /\ pair = {"Char"} => TypeResult(op, pair) = "Int"
        /\ op = "-" /\ pair = {"Char", "Int"} => TypeResult(op, pair) = "Char"
        /\ op = "*" /\ pair = {"String", "Int"} => TypeResult(op, pair) = "String"
        /\ ~tabled => TypeResult(op, pair) = "none"
    BY <1>p DEF TypeResult, Relations, Equalities, Arithmetic, Numbers, Products
  <1>3. /\ "Any" \notin pair => ResultBesideTable(op, pair) = "none"
        /\ "Any" \in pair => ResultBesideTable(op, pair) = IF "String" \in pair THEN "String"
                                           ELSE IF "Float" \in pair THEN "Float" ELSE "Any"
    BY DEF ResultBesideTable, Arithmetic, Products
  <1>4. "Any" \in pair => ~tabled
    BY DEF Numbers
  <1>5. pair \subseteq {"Int", "Bool"} => "Any" \notin pair
    OBVIOUS
  <1> QED BY <1>1, <1>2, <1>3, <1>4, <1>5 DEF Numbers, pair

(* The casts do not change what such an operator gives.                    *)
LEMMA ProductEmitted ==
    ASSUME NEW op \in Products, NEW form, NEW s, NEW t, IsOperand(s), IsOperand(t),
           BinaryGap(op, s, t) = "none", "Null" \notin Kinds(s.value, t.value)
    PROVE  /\ Emitted(op, form, s, t) = Native(op, s.value, t.value)
           /\ op \in {"-", "*"} /\ (CastsLeft(op, s, t) \/ CastsRight(op, s, t))
              => Kinds(s.value, t.value) \subseteq Numbers
  <1> DEFINE a == s.value
             b == t.value
             c == CastsLeft(op, s, t)
             d == CastsRight(op, s, t)
  <1>1. op \in {"-", "*"} => Kinds(a, b) \notin {{"Bool", "Char"}, {"Bool", "String"}}
    BY NoGap DEF FoldGap
  <1>2. Pair(a, b) /\ Kind(a) \in Classes /\ Kind(b) \in Classes
    BY ObjectData DEF IsOperand, Pair
  <1>3. /\ c \in BOOLEAN /\ d \in BOOLEAN /\ (c => s.class = "Bool") /\ (d => t.class = "Bool")
        /\ op = "%" => ~c /\ ~d
    BY DEF CastsLeft, CastsRight, Products
  <1>4. (c => Kind(a) = "Bool") /\ (d => Kind(b) = "Bool")
    BY <1>3, OperandClass DEF Kinds
  <1>5. Emitted(op, form, s, t) = Native(op, CastOf(c, a), CastOf(d, b))
    BY DEF Emitted, CastOf, Products
  <1>6. op \in {"-", "*"} /\ (c \/ d) => Kinds(a, b) \subseteq Numbers
    BY <1>1, <1>2, <1>4 DEF Kinds, Classes, Numbers
  <1>7. CASE ~c /\ ~d
    BY <1>5, <1>6, <1>7 DEF CastOf
  <1>8. CASE (c \/ d) /\ Kinds(a, b) \subseteq Numbers
    <2> HIDE DEF a, b, c, d
    <2>1. /\ Number(op, CastOf(c, a), CastOf(d, b)) = Number(op, a, b)
          /\ Kinds(CastOf(c, a), CastOf(d, b)) \subseteq Numbers
          /\ CastOf(d, b)[2] = b[2]
      BY <1>2, <1>3, <1>4, <1>8, CastNumber
    <2>2. Native(op, CastOf(c, a), CastOf(d, b)) = Native(op, a, b)
      <3>1. CASE op = "-"
        BY <1>8, <2>1, <3>1, NativeOf, MinusCases
      <3>2. CASE op = "*"
        BY <1>8, <2>1, <3>2, NativeOf, MulCases
      <3>3. CASE op = "/"
        BY <1>8, <2>1, <3>3, NativeOf DEF divide
      <3> QED BY <1>3, <1>8, <3>1, <3>2, <3>3 DEF Products
    <2> QED BY <1>5, <1>6, <2>2 DEF a, b, c, d
  <1>9. CASE (c \/ d) /\ ~(Kinds(a, b) \subseteq Numbers)
    <2>1. op = "/"
      BY <1>3, <1>6, <1>9 DEF Products
    <2>2. Kinds(CastOf(c, a), CastOf(d, b)) \subseteq Numbers => Kinds(a, b) \subseteq Numbers
      BY <1>4 DEF CastOf, Kinds, Numbers
    <2>3. Native(op, a, b) = NoOperator /\ Native(op, CastOf(c, a), CastOf(d, b)) = NoOperator
      BY <1>9, <2>1, <2>2, NativeOf DEF divide
    <2> QED BY <1>5, <1>6, <2>3
  <1> QED BY <1>7, <1>8, <1>9

(* They compute what the natives compute, of the class they were given.    *)
LEMMA ProductSound ==
    ASSUME NEW op \in Products, NEW form, NEW s, NEW t, IsOperand(s), IsOperand(t),
           BinaryGap(op, s, t) = "none", TypeOf(op, s, t) # "none"
    PROVE  Sound(op, form, s, t)
  <1> DEFINE a == s.value
             b == t.value
             c == CastsLeft(op, s, t)
             d == CastsRight(op, s, t)
             n == Native(op, a, b)
             pair == Looked(op, s, t)
             type == TypeOf(op, s, t)
  <1>1. Pair(a, b) /\ Kind(a) \in Classes /\ Kind(b) \in Classes
    BY ObjectData DEF IsOperand, Pair
  <1>2. ~NullRefused(op, s, t)
    BY DEF TypeOf
  <1>3. "Null" \notin Kinds(a, b)
    <2>1. op \in {"-", "*", "/"} => ~("Null" \in Kinds(a, b) /\ {s.class, t.class} \cap {"Bool", "String"} # {})
      BY NoGap
    <2>2. op \in {"-", "*", "/"} /\ (s.nullable \/ t.nullable) => s.class = "Bool"
      BY <1>2 DEF NullRefused, Equalities, Identities
    <2>3. op = "%" => ~s.nullable /\ ~t.nullable
      BY <1>2 DEF NullRefused, Equalities, Identities
    <2>4. "Null" \in Kinds(a, b) => s.nullable \/ t.nullable
      BY OperandClass DEF Kinds
    <2> QED BY <2>1, <2>2, <2>3, <2>4 DEF Products
  <1>4. /\ Emitted(op, form, s, t) = n
        /\ op \in {"-", "*"} /\ (c \/ d) => Kinds(a, b) \subseteq Numbers
    BY <1>3, ProductEmitted
  <1>5. n # Trap
    BY NoGap
  <1>6. /\ pair = {IF c THEN "Int" ELSE s.class, IF d THEN "Int" ELSE t.class}
        /\ (c => s.class = "Bool") /\ (d => t.class = "Bool")
    BY DEF Looked, ClassAfter, CastsLeft, CastsRight
  <1>7. ~(op = "-" /\ t.class = "Char" /\ s.class \in {"Int", "Bool"})
    BY NoGap
  <1>8. CASE "Any" \notin {s.class, t.class}
    <2>1. s.class = Kind(a) /\ t.class = Kind(b) /\ "Any" \notin pair
      BY <1>3, <1>6, <1>8, OperandClass DEF Kinds
    <2>2. CASE Kinds(a, b) \subseteq Numbers
      <3>1. pair \subseteq Numbers /\ ("Float" \in pair <=> "Float" \in Kinds(a, b))
        <4> HIDE DEF a, b, c, d, pair
        <4> QED BY <1>6, <2>1, <2>2 DEF Kinds, Numbers
      <3>2. type \in {"Int", "Float"} /\ (n = ByZero \/ type = Kind(n))
        <4>1. CASE "Float" \in Kinds(a, b)
          <5>1. type = "Float"
            BY <1>2, <3>1, <4>1, ProductClass
          <5>2. n \in {ByZero, Trap} \/ Kind(n) = "Float"
            BY <1>1, <2>2, <4>1, ProductKinds
          <5> QED BY <1>5, <5>1, <5>2
        <4>2. CASE "Float" \notin Kinds(a, b)
          <5>1. pair \subseteq {"Int", "Bool"} /\ Kinds(a, b) \subseteq {"Int", "Bool"}
            BY <2>2, <3>1, <4>2 DEF Numbers
          <5>2. type = "Int"
            BY <1>2, <5>1, ProductClass
          <5>3. n \in {ByZero, Trap} \/ Kind(n) = "Int"
            BY <1>1, <5>1, ProductKinds
          <5> QED BY <1>5, <5>2, <5>3
        <4> QED BY <4>1, <4>2
      <3> QED BY <1>4, <3>2, SoundOf, SoundOrRaised DEF Classes, Numbers
    <2>3. CASE ~(Kinds(a, b) \subseteq Numbers)
      <3>1. \/ op = "-" /\ pair \in {{"Char"}, {"Char", "Int"}}
            \/ op = "*" /\ pair = {"String", "Int"}
        <4>1. ~(pair \subseteq Numbers)
          BY <1>6, <2>1, <2>3 DEF Kinds, Numbers
        <4> QED BY <1>2, <2>1, <4>1, ProductClass
      <3>2. pair = Kinds(a, b)
        BY <1>4, <1>6, <2>1, <2>3, <3>1 DEF Kinds
      <3>3. CASE op = "-" /\ pair = {"Char"}
        <4>1. type = "Int" /\ Kind(n) = "Int"
          BY <1>1, <1>2, <3>2, <3>3, ProductClass, ProductKinds
        <4> QED BY <1>4, <4>1, SoundOf DEF Classes, Numbers
      <3>4. CASE op = "-" /\ pair = {"Char", "Int"}
        <4>1. Kind(a) = "Char" /\ Kind(b) = "Int"
          BY <1>7, <2>1, <3>2, <3>4 DEF Kinds
        <4>2. type = "Char" /\ Kind(n) = "Char"
          BY <1>1, <1>2, <3>4, <4>1, ProductClass, ProductKinds
        <4> QED BY <1>4, <4>2, SoundOf DEF Classes, Numbers
      <3>5. CASE op = "*" /\ pair = {"String", "Int"}
        <4>1. type = "String" /\ Kind(n) = "String"
          BY <1>1, <1>2, <3>2, <3>5, ProductClass, ProductKinds
        <4> QED BY <1>4, <4>1, SoundOf DEF Classes, Numbers
      <3> QED BY <3>1, <3>3, <3>4, <3>5
    <2> QED BY <2>2, <2>3
  <1>9. CASE "Any" \in {s.class, t.class}
    <2>1. "Any" \in pair
      BY <1>6, <1>9
    <2>2. type = IF "String" \in pair THEN "String" ELSE IF "Float" \in pair THEN "Float" ELSE "Any"
      BY <1>2, <2>1, ProductClass
    <2>3. NoOperator \in Errors /\ ByZero \in Errors /\ Trap \in Errors
      BY DEF Errors
    <2>4. n \in Errors \/ Kind(n) \in {"Int", "Float", "Char", "String"}
      <3> HIDE DEF a, b, n
      <3>1. Kinds(a, b) \subseteq Numbers => "Float" \in Kinds(a, b) \/ Kinds(a, b) \subseteq {"Int", "Bool"}
        BY DEF Numbers
      <3> QED BY <1>1, <2>3, <3>1, ProductKinds DEF n
    <2>5. CASE "String" \in pair
      <3>1. "String" \in Kinds(a, b)
        BY <1>3, <1>6, <2>5, OperandClass DEF Kinds
      <3>2. n = NoOperator \/ Kind(n) = "String"
        BY <1>1, <3>1, ProductKinds DEF Numbers, Kinds
      <3>3. type = "String"
        BY <2>2, <2>5
      <3> QED BY <1>4, <1>9, <2>3, <3>2, <3>3, SoundWithAny DEF Classes
    <2>6. CASE "Float" \in pair /\ "String" \notin pair
      <3>1. "Float" \in Kinds(a, b)
        BY <1>3, <1>6, <2>6, OperandClass DEF Kinds
      <3>2. n \in Errors \/ Kind(n) = "Float"
        BY <1>1, <2>3, <3>1, ProductKinds DEF Numbers, Kinds
      <3>3. type = "Float"
        BY <2>2, <2>6
      <3> QED BY <1>4, <1>9, <3>2, <3>3, SoundWithAny DEF Classes, Numbers
    <2>7. CASE pair \cap {"String", "Float"} = {}
      <3>1. type = "Any"
        BY <2>2, <2>7
      <3> QED BY <1>4, <1>9, <2>4, <3>1, SoundWithAny
    <2> QED BY <2>5, <2>6, <2>7
  <1> QED BY <1>8, <1>9

(* The operators of logic and of bits, the comparisons and the identities. *)
LEMMA NoCasts ==
    ASSUME NEW op \in BinaryOps \ {"+", "-", "*", "/"}, NEW s, NEW t
    PROVE  /\ ~CastsLeft(op, s, t) /\ ~CastsRight(op, s, t)
           /\ Looked(op, s, t) = {s.class, t.class}
           /\ TypeOf(op, s, t) = IF NullRefused(op, s, t) THEN "none"
                                 ELSE IF \/ op \in Identities
                                         \/ op \in Equalities /\ {s.class, t.class} \cap {"Null", "Any"} # {}
                                 THEN "Bool"
                                 ELSE IF TypeResult(op, {s.class, t.class}) # "none"
                                 THEN TypeResult(op, {s.class, t.class})
                                 ELSE ResultBesideTable(op, {s.class, t.class})
  <1>1. ~CastsLeft(op, s, t) /\ ~CastsRight(op, s, t)
    BY DEF CastsLeft, CastsRight
  <1>2. Looked(op, s, t) = {s.class, t.class}
    BY <1>1 DEF Looked, ClassAfter
  <1> QED BY <1>1, <1>2 DEF TypeOf, Looked

(* Without a cast or a jump, the opcode calls the native on the operands.  *)
LEMMA CallsTheNative ==
    ASSUME NEW op \in BinaryOps \ {"+", "-", "*", "/", "&&", "||"}, NEW form, NEW s, NEW t
    PROVE  Emitted(op, form, s, t) = Native(op, s.value, t.value)
  BY DEF Emitted, CastsLeft, CastsRight

(* There are two Bools.                                                    *)
LEMMA BoolsAreTwo ==
    ASSUME NEW v, IsObject(v), Kind(v) = "Bool"
    PROVE  v \in {True, False}
  <1>1. v = <<v[1], v[2]>> /\ v[1] = "Bool" /\ v[2] \in {0, 1}
    BY ObjectData DEF Kind
  <1>2. v = <<"Bool", 0>> \/ v = <<"Bool", 1>>
    BY <1>1
  <1> QED BY <1>2 DEF True, False

(* The operators of bits.                                                  *)
LEMMA BitsSound ==
    ASSUME NEW op \in {"&", "|"}, NEW form, NEW s, NEW t, IsOperand(s), IsOperand(t),
           TypeOf(op, s, t) # "none"
    PROVE  Sound(op, form, s, t)
  <1> DEFINE pair == {s.class, t.class}
  <1>1. /\ op \in BinaryOps \ {"+", "-", "*", "/", "&&", "||"}
        /\ op \notin Equalities /\ op \notin Identities /\ op \notin Relations
    BY DEF BinaryOps, Equalities, Identities, Relations
  <1>2. /\ pair = {"Int"} => TypeResult(op, pair) = "Int"
        /\ pair # {"Int"} => TypeResult(op, pair) = "none"
        /\ ResultBesideTable(op, pair) = "none"
    <2> HIDE DEF pair
    <2> QED BY DEF TypeResult, ResultBesideTable, Relations, Equalities, Arithmetic, BinaryOps
  <1>3. ~NullRefused(op, s, t) /\ pair = {"Int"} /\ TypeOf(op, s, t) = "Int"
    <2>1. ~NullRefused(op, s, t)
      BY DEF TypeOf
    <2>2. op \in BinaryOps \ {"+", "-", "*", "/"}
      BY <1>1
    <2>3. TypeOf(op, s, t) = IF TypeResult(op, pair) # "none" THEN TypeResult(op, pair)
                             ELSE ResultBesideTable(op, pair)
      BY <1>1, <2>1, <2>2, NoCasts
    <2> QED BY <1>2, <2>1, <2>3
  <1>4. Kinds(s.value, t.value) = {"Int"}
    <2>1. ~s.nullable /\ ~t.nullable
      BY <1>1, <1>3 DEF NullRefused
    <2> QED BY <1>3, <2>1, OperandClass DEF Kinds
  <1>5. Kind(Native(op, s.value, t.value)) = "Int"
    <2>1. \A x : Kind(<<"Int", x>>) = "Int"
      BY DEF Kind
    <2>2. Kind(bitwise_and(s.value, t.value)) = "Int" /\ Kind(bitwise_or(s.value, t.value)) = "Int"
      BY <1>4, <2>1 DEF bitwise_and, bitwise_or
    <2> QED BY <2>2, NativeOf
  <1>6. Emitted(op, form, s, t) = Native(op, s.value, t.value)
    BY <1>1, CallsTheNative
  <1> QED BY <1>3, <1>5, <1>6, SoundOf DEF Classes, Numbers

(* && and ||, which jump over their right operand or call the native.      *)
LEMMA LogicSound ==
    ASSUME NEW op \in {"&&", "||"}, NEW form, NEW s, NEW t, IsOperand(s), IsOperand(t),
           BinaryGap(op, s, t) = "none", TypeOf(op, s, t) # "none"
    PROVE  Sound(op, form, s, t)
  <1> DEFINE a == s.value
             b == t.value
             pair == {s.class, t.class}
  <1>1. /\ op \in BinaryOps \ {"+", "-", "*", "/"}
        /\ op \notin Equalities /\ op \notin Identities /\ op \notin Relations
    BY DEF BinaryOps, Equalities, Identities, Relations
  <1>2. Kinds(a, b) = {"Bool"} /\ Pair(a, b)
    BY NoGap DEF FoldGap, IsOperand, Pair
  <1>3. a \in {True, False} /\ b \in {True, False} /\ True # False
    <2>1. True # False
      BY DEF True, False
    <2> QED BY <1>2, <2>1, BoolsAreTwo DEF Pair, Kinds
  <1>4. Emitted(op, form, s, t) = Native(op, a, b)
    <2>1. /\ Emitted("&&", form, s, t) = IF form # "variables" THEN (IF a = False THEN a ELSE b)
                                         ELSE Native("&&", a, b)
          /\ Emitted("||", form, s, t) = IF form # "variables" THEN (IF a = True THEN a ELSE b)
                                         ELSE Native("||", a, b)
      BY DEF Emitted, CastsLeft, CastsRight
    <2> HIDE DEF a, b
    <2> QED BY <1>2, <1>3, <2>1, NativeOf DEF op_and_and, op_or_or, Truth
  <1>5. TypeOf(op, s, t) = "Bool"
    <2>1. TypeResult(op, pair) \in {"Bool", "none"} /\ ResultBesideTable(op, pair) \in {"Bool", "none"}
      <3> HIDE DEF pair
      <3> QED BY DEF TypeResult, ResultBesideTable, Relations, Equalities, Arithmetic
    <2> QED BY <1>1, <2>1, NoCasts
  <1>6. Kind(Native(op, a, b)) = "Bool"
    BY <1>2, NativeOf, TruthIsObject DEF op_and_and, op_or_or
  <1> QED BY <1>4, <1>5, <1>6, SoundOf DEF Classes, Numbers

(* The comparisons.                                                        *)
LEMMA RelationSound ==
    ASSUME NEW op \in Relations, NEW form, NEW s, NEW t, IsOperand(s), IsOperand(t),
           TypeOf(op, s, t) # "none"
    PROVE  Sound(op, form, s, t)
  <1> DEFINE a == s.value
             b == t.value
             pair == {s.class, t.class}
  <1>1. /\ op \in BinaryOps \ {"+", "-", "*", "/"} /\ op \notin Equalities /\ op \notin Identities
        /\ op \notin {"&&", "||"} /\ op \notin {"&", "|"} /\ op \notin Arithmetic
    BY DEF BinaryOps, Equalities, Identities, Relations, Arithmetic
  <1>2. ~NullRefused(op, s, t) /\ ~s.nullable /\ ~t.nullable
    <2>1. ~NullRefused(op, s, t)
      BY DEF TypeOf
    <2> QED BY <1>1, <2>1 DEF NullRefused, Arithmetic
  <1>3. /\ pair \subseteq {"Int", "Float"} \/ pair = {"Char"} => TypeResult(op, pair) = "Bool"
        /\ ~(pair \subseteq {"Int", "Float"} \/ pair = {"Char"}) => TypeResult(op, pair) = "none"
        /\ ResultBesideTable(op, pair) = IF "Any" \in pair THEN "Bool" ELSE "none"
    <2> HIDE DEF pair
    <2> QED BY <1>1 DEF TypeResult, ResultBesideTable
  <1>4. /\ TypeOf(op, s, t) = "Bool"
        /\ pair \subseteq {"Int", "Float"} \/ pair = {"Char"} \/ "Any" \in pair
    BY <1>1, <1>2, <1>3, NoCasts
  <1>5. /\ Kinds(a, b) \subseteq Numbers \/ Kinds(a, b) = {"Char"} => Kind(Native(op, a, b)) = "Bool"
        /\ ~(Kinds(a, b) \subseteq Numbers \/ Kinds(a, b) = {"Char"}) => Native(op, a, b) = NoOperator
    BY NativeOf, OrderedCases, TruthIsObject
  <1>6. Emitted(op, form, s, t) = Native(op, a, b)
    BY <1>1, CallsTheNative
  <1>7. CASE "Any" \notin pair
    <2>1. Kinds(a, b) = pair
      BY <1>2, <1>7, OperandClass DEF Kinds
    <2>2. Kind(Native(op, a, b)) = "Bool"
      BY <1>4, <1>5, <1>7, <2>1 DEF Numbers
    <2> QED BY <1>4, <1>6, <2>2, SoundOf DEF Classes, Numbers
  <1>8. CASE "Any" \in pair
    <2>1. Native(op, a, b) \in Errors \/ Kind(Native(op, a, b)) = "Bool"
      BY <1>5 DEF Errors
    <2> QED BY <1>4, <1>6, <1>8, <2>1, SoundWithAny DEF Classes, Numbers
  <1> QED BY <1>7, <1>8

(* The equalities and identities.                                          *)
LEMMA EqualitySound ==
    ASSUME NEW op \in Equalities \cup Identities, NEW form, NEW s, NEW t, TypeOf(op, s, t) # "none"
    PROVE  Sound(op, form, s, t)
  <1> DEFINE pair == {s.class, t.class}
  <1>1. /\ op \in BinaryOps \ {"+", "-", "*", "/"} /\ op \notin {"&&", "||"} /\ op \notin {"&", "|"}
        /\ op \notin Arithmetic /\ op \notin Relations
    BY DEF BinaryOps, Equalities, Identities, Relations, Arithmetic
  <1>2. Kind(Native(op, s.value, t.value)) = "Bool"
    BY NativeOf, TruthIsObject
       DEF op_eqeq, op_not_eq, op_eq_pointer, op_not_eq_pointer, Equalities, Identities
  <1>3. TypeOf(op, s, t) = "Bool"
    <2>1. TypeResult(op, pair) \in {"Bool", "none"} /\ ResultBesideTable(op, pair) \in {"Bool", "none"}
      <3> HIDE DEF pair
      <3>1. CASE op \in Equalities
        BY <1>1, <3>1 DEF TypeResult, ResultBesideTable
      <3>2. CASE op \in Identities
        <4>1. op \notin Equalities
          BY <3>2 DEF Equalities, Identities
        <4>2. op # "+" /\ op # "-" /\ op # "*"
          BY <1>1
        <4> QED BY <1>1, <4>1, <4>2 DEF TypeResult, ResultBesideTable
      <3> QED BY <3>1, <3>2
    <2> QED BY <1>1, <2>1, NoCasts
  <1>4. Emitted(op, form, s, t) = Native(op, s.value, t.value)
    BY <1>1, CallsTheNative
  <1> QED BY <1>2, <1>3, <1>4, SoundOf DEF Classes, Numbers

(* Every operator the compiler accepts, where no disagreement is known.    *)
LEMMA TypingIsSound ==
    ASSUME NEW op \in BinaryOps, NEW form, NEW s, NEW t, IsOperand(s), IsOperand(t),
           BinaryGap(op, s, t) = "none", TypeOf(op, s, t) # "none"
    PROVE  Sound(op, form, s, t)
  BY SumSound, ProductSound, BitsSound, LogicSound, RelationSound, EqualitySound
     DEF BinaryOps, Arithmetic, Products, Equalities, Identities

(***************************************************************************)
(* The signs and the negation.                                             *)
(***************************************************************************)
UnaryOps == {"+", "-", "!"}
NativeUnary(op, v) ==
    CASE op = "-" -> negative(v)
      [] op = "!" -> op_not(v)
      [] op = "+" -> IF Kind(v) = "Float" THEN v
                     ELSE IF Kind(v) \in Numbers THEN toInt(v) ELSE NoOperator

(* What the natives give, and an Int for a Bool.                           *)
LEMMA UnaryResults ==
    ASSUME NEW op \in UnaryOps, NEW v, IsObject(v)
    PROVE  LET n == NativeUnary(op, v)
           IN  /\ n = NoOperator \/ IsObject(n)
               /\ op = "!" /\ Kind(v) = "Bool" => Kind(n) = "Bool"
               /\ op # "!" /\ Kind(v) = "Float" => Kind(n) = "Float"
               /\ op # "!" /\ Kind(v) \in {"Int", "Bool"} => Kind(n) = "Int"
               /\ op = "!" /\ Kind(v) # "Bool" => n = NoOperator
               /\ op # "!" /\ Kind(v) \notin Numbers => n = NoOperator
  <1>1. /\ NativeUnary("-", v) = negative(v) /\ NativeUnary("!", v) = op_not(v)
        /\ NativeUnary("+", v) = IF Kind(v) = "Float" THEN v
                                 ELSE IF Kind(v) \in Numbers THEN toInt(v) ELSE NoOperator
    BY DEF NativeUnary
  <1>2. \A x : Kind(<<"Int", x>>) = "Int" /\ Kind(<<"Float", x>>) = "Float"
    BY DEF Kind
  <1>3. CASE op = "-"
    <2>1. CASE Kind(v) = "Float"
      <3>1. -v[2] \in Int
        BY <2>1, ObjectData
      <3> QED BY <1>1, <1>2, <1>3, <2>1, <3>1, NegativeCases, MadeObjects
    <2>2. CASE Kind(v) \in {"Int", "Bool"}
      <3>1. -v[2] \in Int
        BY <2>2, ObjectData
      <3>2. IsObject(<<"Int", Wrap(-v[2])>>)
        BY <3>1, WrappedIsObject
      <3> QED BY <1>1, <1>2, <1>3, <2>2, <3>2, NegativeCases
    <2>3. CASE Kind(v) \notin Numbers
      BY <1>1, <1>3, <2>3, NegativeCases DEF Numbers
    <2> QED BY <2>1, <2>2, <2>3 DEF Numbers
  <1>4. CASE op = "+"
    <2>1. CASE Kind(v) \in {"Int", "Bool"}
      <3>1. toInt(v) = <<"Int", v[2]>>
        <4>1. CASE Kind(v) = "Int"
          BY <4>1, ObjectData DEF toInt, Kind
        <4>2. CASE Kind(v) = "Bool"
          BY <4>2 DEF toInt
        <4> QED BY <2>1, <4>1, <4>2
      <3>2. v[2] \in -IntLimit .. IntLimit - 1
        BY <2>1, ObjectData, WidthAssumption
      <3> QED BY <1>1, <1>2, <1>4, <2>1, <3>1, <3>2, MadeObjects DEF Numbers
    <2> QED BY <1>1, <1>4, <2>1 DEF Numbers
  <1>5. CASE op = "!"
    BY <1>1, <1>5, TruthIsObject DEF op_not
  <1> QED BY <1>3, <1>4, <1>5 DEF UnaryOps

(* Folding a sign, but for + before a Float, is what the native gives.     *)
LEMMA UnaryFolds ==
    ASSUME NEW op \in UnaryOps, NEW v, IsObject(v), ~(op = "+" /\ Kind(v) = "Float")
    PROVE  FoldUnary(op, v) \in {Refused, NativeUnary(op, v)}
  <1>1. /\ NativeUnary("-", v) = negative(v) /\ NativeUnary("!", v) = op_not(v)
        /\ NativeUnary("+", v) = IF Kind(v) = "Float" THEN v
                                 ELSE IF Kind(v) \in Numbers THEN toInt(v) ELSE NoOperator
    BY DEF NativeUnary
  <1>2. /\ FoldUnary("+", v) = IF Kind(v) \in Numbers THEN toInt(v) ELSE Refused
        /\ FoldUnary("-", v) = IF Kind(v) \in Numbers THEN negative(v) ELSE Refused
        /\ FoldUnary("!", v) = IF Kind(v) = "Bool" THEN op_not(v) ELSE Refused
    BY DEF FoldUnary
  <1> QED BY <1>1, <1>2 DEF UnaryOps

(* The code emitted for it, and its class.                                 *)
LEMMA UnarySound ==
    ASSUME NEW op \in UnaryOps, NEW form, NEW s, IsOperand(s), UnaryGap(op, form, s) = "none"
    PROVE  LET o == OptimizeUnary(op, form, s)
               n == NativeUnary(op, s.value)
           IN  /\ o.nullable = FALSE
               /\ ~(op = "+" /\ Kind(s.value) = "Float")
               /\ o.class = "none" => o.value = Refused
               /\ o.class # "none" => /\ o.value = n
                                      /\ n = NoOperator => s.class = "Any"
                                      /\ IsObject(n) => o.class = Kind(n) /\ Kind(n) # "Null"
                                      /\ o.class \in Numbers
  <1> DEFINE v == s.value
             n == NativeUnary(op, v)
             refused == s.nullable \/ s.class \notin Numbers \/ (op = "!" /\ s.class # "Bool")
  <1>1. ~(op = "+" /\ Kind(v) = "Float") /\ ~(op = "-" /\ form = "member" /\ Kind(v) = "Bool")
    BY DEF UnaryGap
  <1>2. CASE refused
    BY <1>1, <1>2 DEF OptimizeUnary, Typed
  <1>3. CASE ~refused
    <2>1. s.class = Kind(v) /\ IsObject(v) /\ Kind(v) \in Numbers /\ (op = "!" => Kind(v) = "Bool")
      BY <1>3, OperandClass DEF Numbers
    <2>2. /\ NativeUnary("-", v) = negative(v) /\ NativeUnary("!", v) = op_not(v)
          /\ NativeUnary("+", v) = IF Kind(v) = "Float" THEN v
                                   ELSE IF Kind(v) \in Numbers THEN toInt(v) ELSE NoOperator
      BY DEF NativeUnary
    <2>3. /\ op = "!" => OptimizeUnary(op, form, s) = Typed("Bool", n)
          /\ op # "!" => OptimizeUnary(op, form, s)
                         = Typed(IF Kind(v) = "Float" THEN "Float" ELSE "Int", n)
      <3>1. /\ op = "!" => OptimizeUnary(op, form, s) = Typed("Bool", op_not(v))
            /\ op = "+" => OptimizeUnary(op, form, s) = Typed("Int", toInt(v))
            /\ op = "-" => OptimizeUnary(op, form, s)
                           = Typed(IF Kind(v) = "Float" THEN "Float" ELSE "Int", negative(v))
        BY <1>1, <1>3, <2>1 DEF OptimizeUnary
      <3> QED BY <1>1, <2>1, <2>2, <3>1 DEF UnaryOps
    <2>4. /\ Kind(n) = IF op = "!" THEN "Bool" ELSE IF Kind(v) = "Float" THEN "Float" ELSE "Int"
          /\ n # NoOperator
      <3>1. Kind(n) = IF op = "!" THEN "Bool" ELSE IF Kind(v) = "Float" THEN "Float" ELSE "Int"
        BY <2>1, UnaryResults DEF Numbers
      <3>2. Kind(NoOperator) = "Raised"
        BY DEF Kind, NoOperator
      <3> QED BY <3>1, <3>2
    <2> HIDE DEF n, v
    <2> QED BY <1>1, <2>1, <2>3, <2>4 DEF Typed, Numbers, n, v
  <1> QED BY <1>2, <1>3

(***************************************************************************)
(* The expression, operator by operator.                                   *)
(***************************************************************************)

(* An expression no disagreement is known of: its natives have a value or  *)
(* an error; its literals are folded to that or not at all; and when the   *)
(* compiler accepts it, it computes that, of the class it was given.       *)
Meaning(l, s, n, any) ==
    /\ IsResult(n) /\ n # Refused
    /\ l \in {Refused, n}
    /\ s.class = "none" => s.value = Refused
    /\ s.class # "none" => /\ s.value = n
                           /\ n = NoOperator => any
                           /\ ~Fails(n) => IsOperand(s)
                           /\ s.class = "Any" => any
MeaningInv == known = "none" => Meaning(literal, typed, native, untyped)

(* A result is an object or an error, and not both.                        *)
LEMMA ResultOrError ==
    ASSUME NEW n, IsResult(n)
    PROVE  /\ ~Fails(n) => IsObject(n)
           /\ IsObject(n) => ~Fails(n)
  <1>1. Classes \cap Failures = {}
    BY DEF Classes, Numbers, Failures
  <1> QED BY <1>1, ErrorsFail DEF IsResult, IsObject, Fails

(* The operands the compiler may meet.                                     *)
LEMMA ValuesAreObjects ==
    ASSUME NEW v \in NonNullValues
    PROVE  IsObject(v) /\ Kind(v) # "Null"
  <1>1. CASE v \in {"Int"} \X Ints
    <2>1. PICK n \in Ints : v = <<"Int", n>>
      BY <1>1
    <2> QED BY <2>1, WidthAssumption, MadeObjects DEF Kind
  <1>2. CASE v \in {"Float"} \X Halves
    <2>1. PICK n \in Halves : v = <<"Float", n>>
      BY <1>2
    <2> QED BY <2>1, WidthAssumption, MadeObjects DEF Kind
  <1>3. CASE v \in {"Bool"} \X {0, 1}
    <2>1. PICK n \in {0, 1} : v = <<"Bool", n>>
      BY <1>3
    <2> QED BY <2>1, MadeObjects DEF Kind
  <1>4. CASE v \in {"Char"} \X Chars
    <2>1. PICK n \in Chars : v = <<"Char", n>>
      BY <1>4
    <2> QED BY <2>1, WidthAssumption, MadeObjects DEF Kind
  <1>5. CASE v \in {<<"String", <<<<"Text", x>>>>>> : x \in Texts}
    <2>1. PICK x \in Texts : v = <<"String", <<<<"Text", x>>>>>>
      BY <1>5
    <2> QED BY <2>1, MadeObjects DEF Kind
  <1> QED BY <1>1, <1>2, <1>3, <1>4, <1>5 DEF NonNullValues

(* Whatever is declared is an operand.                                     *)
LEMMA OperandsAreOperands ==
    ASSUME NEW s \in Operands \cup PlainOperands
    PROVE  IsOperand(s)
  <1>1. ASSUME NEW v \in NonNullValues, NEW class \in {Kind(v), "Any"}, NEW nullable \in BOOLEAN
        PROVE  IsOperand(Declared(class, nullable, v))
    BY ValuesAreObjects DEF IsOperand, Declared
  <1>2. ASSUME NEW class \in {"Null", "Int", "Bool", "String"}
        PROVE  IsOperand(Declared(class, TRUE, Null))
    <2>1. Kind(Null) = "Null"
      BY DEF Kind, Null
    <2> QED BY <2>1, MadeObjects DEF IsOperand, Declared
  <1>3. CASE s \in PlainOperands
    BY <1>1, <1>3 DEF PlainOperands
  <1>4. CASE s \in Operands
    <2>1. PICK v \in NonNullValues \cup {Null} : s \in Declarations(v)
      BY <1>4 DEF Operands
    <2>2. CASE v = Null
      BY <1>2, <2>1, <2>2 DEF Declarations
    <2>3. CASE v # Null
      BY <1>1, <2>1, <2>3 DEF Declarations
    <2> QED BY <2>2, <2>3
  <1> QED BY <1>3, <1>4

(* One more operator, with the operands in their order.                    *)
LEMMA MeaningOfBinary ==
    ASSUME NEW op \in BinaryOps, NEW form, NEW s, NEW t, NEW l, NEW r, NEW any \in BOOLEAN,
           IsOperand(s), IsOperand(t), BinaryGap(op, s, t) = "none",
           l \in {Refused, s.value}, r \in {Refused, t.value},
           "Any" \in {s.class, t.class} => any
    PROVE  Meaning(Folded(op, l, r), OptimizeBinary(op, form, s, t), Native(op, s.value, t.value), any)
  <1> DEFINE n == Native(op, s.value, t.value)
             o == OptimizeBinary(op, form, s, t)
  <1>1. Pair(s.value, t.value) /\ IsResult(n) /\ n # Refused
    BY NativeResults DEF Pair, IsOperand
  <1>2. Folded(op, l, r) \in {Refused, n}
    <2>1. CASE l = s.value /\ r = t.value
      BY <1>1, <2>1, FoldingAgrees, NoGap DEF Folded
    <2>2. CASE l = Refused \/ r = Refused
      <3>1. Fails(Refused)
        BY ErrorsFail DEF Errors
      <3> QED BY <2>2, <3>1 DEF Folded
    <2> QED BY <2>1, <2>2
  <1>3. CASE TypeOf(op, s, t) = "none"
    BY <1>1, <1>2, <1>3 DEF Meaning, OptimizeBinary, Typed
  <1>4. CASE TypeOf(op, s, t) # "none"
    <2>1. Sound(op, form, s, t)
      BY <1>4, TypingIsSound
    <2>2. o = [class |-> TypeOf(op, s, t), nullable |-> FALSE, value |-> n]
      BY <1>4, <2>1 DEF OptimizeBinary, Typed, Sound
    <2>3. ~Fails(n) => IsObject(n) /\ Kind(n) # "Null" /\ TypeOf(op, s, t) \in {Kind(n), "Any"}
      BY <1>1, <2>1, ResultOrError DEF Sound
    <2> HIDE DEF o, n
    <2>4. ~Fails(n) => IsOperand(o)
      BY <2>2, <2>3 DEF IsOperand
    <2>5. (n = NoOperator => any) /\ (o.class = "Any" => any)
      BY <2>1, <2>2 DEF Sound, n
    <2>6. o.class # "none" /\ o.value = n
      BY <1>4, <2>2
    <2>7. Meaning(Folded(op, l, r), o, n, any)
      BY <1>1, <1>2, <2>4, <2>5, <2>6 DEF Meaning
    <2> QED BY <2>7 DEF o, n
  <1> QED BY <1>3, <1>4

(* What a live expression is.                                              *)
LEMMA LiveMeaning ==
    ASSUME MeaningInv, Live
    PROVE  /\ IsOperand(typed) /\ typed.value = native /\ IsObject(native)
           /\ literal \in {Refused, typed.value}
           /\ typed.class = "Any" => untyped
  BY ResultOrError DEF MeaningInv, Meaning, Live

(* One more operator, on either side of the expression.                    *)
LEMMA MeaningBinary ==
    ASSUME MeaningInv, untyped \in BOOLEAN, NEW op \in BinaryOps, NEW t \in Operands \cup PlainOperands,
           NEW side \in {"left", "right"}, NEW form, Binary(op, t, side, form)
    PROVE  MeaningInv'
  <1>1. /\ IsOperand(typed) /\ typed.value = native /\ literal \in {Refused, typed.value}
        /\ typed.class = "Any" => untyped
    BY LiveMeaning DEF Binary
  <1>2. IsOperand(t)
    BY OperandsAreOperands
  <1> DEFINE any == untyped \/ t.class = "Any"
  <1>3. any \in BOOLEAN /\ untyped' = any
    BY DEF Binary
  <1> SUFFICES ASSUME known' = "none" PROVE Meaning(literal', typed', native', untyped')
    BY DEF MeaningInv
  <1>4. CASE side = "left"
    <2>1. /\ literal' = Folded(op, literal, t.value) /\ typed' = OptimizeBinary(op, form, typed, t)
          /\ native' = Native(op, typed.value, t.value) /\ known' = BinaryGap(op, typed, t)
      BY <1>1, <1>4 DEF Binary
    <2>2. ("Any" \in {typed.class, t.class} => any) /\ BinaryGap(op, typed, t) = "none"
      BY <1>1, <2>1
    <2> HIDE DEF any
    <2>3. Meaning(Folded(op, literal, t.value), OptimizeBinary(op, form, typed, t),
                  Native(op, typed.value, t.value), any)
      BY <1>1, <1>2, <1>3, <2>2, MeaningOfBinary
    <2> QED BY <1>3, <2>1, <2>3
  <1>5. CASE side = "right"
    <2>1. /\ literal' = Folded(op, t.value, literal) /\ typed' = OptimizeBinary(op, form, t, typed)
          /\ native' = Native(op, t.value, typed.value) /\ known' = BinaryGap(op, t, typed)
      BY <1>1, <1>5 DEF Binary
    <2>2. ("Any" \in {t.class, typed.class} => any) /\ BinaryGap(op, t, typed) = "none"
      BY <1>1, <2>1
    <2> HIDE DEF any
    <2>3. Meaning(Folded(op, t.value, literal), OptimizeBinary(op, form, t, typed),
                  Native(op, t.value, typed.value), any)
      BY <1>1, <1>2, <1>3, <2>2, MeaningOfBinary
    <2> QED BY <1>3, <2>1, <2>3
  <1> QED BY <1>4, <1>5

(* One more sign or negation.                                              *)
LEMMA MeaningUnary ==
    ASSUME MeaningInv, NEW op \in UnaryOps, NEW form, Unary(op, form)
    PROVE  MeaningInv'
  <1>1. /\ IsOperand(typed) /\ typed.value = native /\ IsObject(native)
        /\ literal \in {Refused, native} /\ (typed.class = "Any" => untyped)
    BY LiveMeaning DEF Unary
  <1> SUFFICES ASSUME known' = "none" PROVE Meaning(literal', typed', native', untyped')
    BY DEF MeaningInv
  <1> DEFINE n == NativeUnary(op, native)
             o == OptimizeUnary(op, form, typed)
  <1>2. /\ literal' = (IF Fails(literal) THEN Refused ELSE FoldUnary(op, literal))
        /\ typed' = o /\ native' = n /\ untyped' = untyped /\ UnaryGap(op, form, typed) = "none"
    BY DEF Unary, NativeUnary
  <1>3. /\ o.nullable = FALSE
        /\ ~(op = "+" /\ Kind(native) = "Float")
        /\ o.class = "none" => o.value = Refused
        /\ o.class # "none" => /\ o.value = n
                               /\ n = NoOperator => typed.class = "Any"
                               /\ IsObject(n) => o.class = Kind(n) /\ Kind(n) # "Null"
                               /\ o.class \in Numbers
    <2>1. /\ OptimizeUnary(op, form, typed).nullable = FALSE
          /\ ~(op = "+" /\ Kind(typed.value) = "Float")
          /\ OptimizeUnary(op, form, typed).class = "none"
             => OptimizeUnary(op, form, typed).value = Refused
          /\ OptimizeUnary(op, form, typed).class # "none"
             => /\ OptimizeUnary(op, form, typed).value = NativeUnary(op, typed.value)
                /\ NativeUnary(op, typed.value) = NoOperator => typed.class = "Any"
                /\ IsObject(NativeUnary(op, typed.value))
                   => /\ OptimizeUnary(op, form, typed).class = Kind(NativeUnary(op, typed.value))
                      /\ Kind(NativeUnary(op, typed.value)) # "Null"
                /\ OptimizeUnary(op, form, typed).class \in Numbers
      BY <1>1, <1>2, UnarySound
    <2>2. NativeUnary(op, typed.value) = n /\ OptimizeUnary(op, form, typed) = o
      BY <1>1
    <2> HIDE DEF n, o
    <2> QED BY <1>1, <2>1, <2>2
  <1>4. n = NoOperator \/ IsObject(n)
    BY <1>1, UnaryResults
  <1>5. IsResult(n) /\ n # Refused
    <2>1. Fails(Refused) /\ NoOperator # Refused
      BY ErrorsFail DEF Errors, NoOperator, Refused
    <2>2. IsResult(n)
      BY <1>4 DEF IsResult, Errors
    <2> QED BY <1>4, <2>1, <2>2, ResultOrError
  <1>6. literal' \in {Refused, n}
    <2>1. CASE Fails(literal)
      BY <1>2, <2>1
    <2>2. CASE ~Fails(literal)
      <3>1. Fails(Refused)
        BY ErrorsFail DEF Errors
      <3>2. literal = native
        BY <1>1, <2>2, <3>1
      <3>3. FoldUnary(op, native) \in {Refused, NativeUnary(op, native)}
        BY <1>1, <1>3, UnaryFolds
      <3>4. literal' = FoldUnary(op, native)
        BY <1>2, <2>2, <3>2
      <3> QED BY <3>3, <3>4
    <2> QED BY <2>1, <2>2
  <1>7. o.class # "none" => (~Fails(n) => IsOperand(o)) /\ o.class # "Any"
    <2>1. "Any" \notin Numbers
      BY DEF Numbers
    <2>2. ~Fails(n) => IsObject(n)
      BY <1>5, ResultOrError
    <2> HIDE DEF n, o
    <2> QED BY <1>3, <2>1, <2>2 DEF IsOperand
  <1> HIDE DEF n, o
  <1>8. Meaning(literal', o, n, untyped)
    BY <1>1, <1>3, <1>5, <1>6, <1>7 DEF Meaning
  <1> QED BY <1>2, <1>8

(* A single operand has its meaning.                                       *)
LEMMA MeaningInit ==
    ASSUME ExpressionInit
    PROVE  MeaningInv /\ untyped \in BOOLEAN
  <1>1. PICK s \in Operands : /\ literal = s.value /\ typed = s /\ native = s.value
                              /\ untyped = (s.class = "Any")
    BY DEF ExpressionInit
  <1>2. IsOperand(s)
    BY OperandsAreOperands
  <1>3. IsResult(s.value) /\ s.value # Refused /\ s.value # NoOperator /\ s.class # "none"
    <2>1. IsObject(s.value) /\ ~Fails(s.value)
      BY <1>2, ResultOrError DEF IsOperand, IsResult
    <2>2. Fails(Refused) /\ Fails(NoOperator)
      BY ErrorsFail DEF Errors
    <2>3. s.class # "none"
      BY <1>2 DEF IsOperand, Classes, Numbers, Kind, IsObject
    <2> QED BY <2>1, <2>2, <2>3 DEF IsResult
  <1>4. Meaning(literal, typed, native, untyped)
    BY <1>1, <1>2, <1>3 DEF Meaning
  <1> QED BY <1>1, <1>4 DEF MeaningInv

(* Every step keeps the meaning of the expression.                         *)
LEMMA MeaningNext ==
    ASSUME MeaningInv, untyped \in BOOLEAN, [ExpressionNext]_expressionVars
    PROVE  MeaningInv' /\ untyped' \in BOOLEAN
  <1>1. ASSUME NEW op \in BinaryOps, NEW t \in (IF depth = 0 THEN Operands ELSE PlainOperands),
               NEW side \in {"left", "right"}, NEW form \in {"variables", "calls"},
               Binary(op, t, side, form)
        PROVE  MeaningInv' /\ untyped' \in BOOLEAN
    <2>1. t \in Operands \cup PlainOperands
      OBVIOUS
    <2>2. MeaningInv'
      BY <1>1, <2>1, MeaningBinary
    <2> QED BY <1>1, <2>2 DEF Binary
  <1>2. ASSUME NEW op \in {"+", "-", "!"}, NEW form \in {"operand", "member"}, Unary(op, form)
        PROVE  MeaningInv' /\ untyped' \in BOOLEAN
    <2>1. op \in UnaryOps
      BY DEF UnaryOps
    <2>2. MeaningInv'
      BY <1>2, <2>1, MeaningUnary
    <2> QED BY <1>2, <2>2 DEF Unary
  <1>3. ASSUME NEW op \in Arithmetic, NEW v \in Operands, Assign(op, v)
        PROVE  MeaningInv' /\ untyped' \in BOOLEAN
    BY <1>3 DEF Assign, MeaningInv
  <1>4. CASE UNCHANGED expressionVars
    BY <1>4 DEF expressionVars, MeaningInv
  <1> QED BY <1>1, <1>2, <1>3, <1>4 DEF ExpressionNext

(* The meaning of an expression, however it grew.                          *)
THEOREM ExpressionsHaveAMeaning == ExpressionSpec => [](MeaningInv /\ untyped \in BOOLEAN)
  <1> DEFINE Inv == MeaningInv /\ untyped \in BOOLEAN
  <1>1. ExpressionInit => Inv
    BY MeaningInit
  <1>2. Inv /\ [ExpressionNext]_expressionVars => Inv'
    BY MeaningNext
  <1> HIDE DEF Inv
  <1>3. ExpressionSpec => []Inv
    BY <1>1, <1>2, PTL DEF ExpressionSpec
  <1> QED BY <1>3 DEF Inv

(* An expression has one value: folded from literals, computed by the code *)
(* emitted for its variables, or by the natives on the operands.           *)
THEOREM ExpressionsHaveOneValue == ExpressionSpec => []OneMeaning
  <1>1. MeaningInv => OneMeaning
    <2> SUFFICES ASSUME MeaningInv, known = "none" PROVE \A v, w \in {literal, typed.value, native} \ {Refused} : v = w
      BY DEF OneMeaning
    <2>1. literal \in {Refused, native} /\ typed.value \in {Refused, native}
      BY DEF MeaningInv, Meaning
    <2> QED BY <2>1
  <1> QED BY <1>1, ExpressionsHaveAMeaning, PTL

(* The class the compiler gives an operator is the class of the object the *)
(* code it emits creates, and that code has an operator for what comes.    *)
THEOREM ClassesAreKept == ExpressionSpec => []TypeIsKept
  <1>1. MeaningInv => TypeIsKept
    <2> SUFFICES ASSUME MeaningInv, known = "none", typed.class # "none"
                 PROVE  /\ typed.value = NoOperator => untyped
                        /\ ~Fails(typed.value) => typed.class \in {Kind(typed.value), "Any"}
                                    \/ (Kind(typed.value) = "Null" /\ typed.nullable)
      BY DEF TypeIsKept
    <2>1. Meaning(literal, typed, native, untyped)
      BY DEF MeaningInv
    <2>2. typed.value = native /\ (~Fails(native) => IsOperand(typed)) /\ (native = NoOperator => untyped)
      BY <2>1 DEF Meaning
    <2> QED BY <2>2 DEF IsOperand
  <1> QED BY <1>1, ExpressionsHaveAMeaning, PTL

(***************************************************************************)
(* Compound assignment.                                                    *)
(***************************************************************************)

(* What the compiler accepts of x op= v and the gaps leave: a number and a *)
(* number, a Char and an Int, a String and what is appended to it, a       *)
(* String and how often it is repeated.                                    *)
NumberByNumber(op, x, v) ==
    /\ x.class \in {"Int", "Float"} /\ v.class \in Numbers
    /\ Kind(v.value) = v.class
    /\ op = "%" => v.class # "Bool"
    /\ CompoundCast(op, x, v) = IF x.class = "Int"
                                THEN (IF v.class = "Bool" THEN "Int" ELSE "none")
                                ELSE (IF v.class = "Float" THEN "none" ELSE "Float")
CharByInt(op, x, v) ==
    /\ x.class = "Char" /\ op \in {"+", "-"}
    /\ v.class = "Int" /\ Kind(v.value) = "Int" /\ CompoundCast(op, x, v) = "none"
StringBySome(op, x, v) ==
    /\ x.class = "String" /\ op = "+"
    /\ v.class \notin {"Any", "Bool"} /\ CompoundCast(op, x, v) = "none"
StringByInt(op, x, v) ==
    /\ x.class = "String" /\ op = "*"
    /\ v.class = "Int" /\ Kind(v.value) = "Int" /\ CompoundCast(op, x, v) = "none"

(* Those are all the cases the compiler accepts.                           *)
LEMMA CompoundCases ==
    ASSUME NEW op \in Arithmetic, NEW x, NEW v, IsOperand(x), IsOperand(v),
           CompoundCast(op, x, v) # "refused", NEW w \in Ways \ CompoundGaps(op, x, v)
    PROVE  /\ ~x.nullable /\ Kind(x.value) = x.class /\ ~NullRefused(op, x, v)
           /\ \/ NumberByNumber(op, x, v) \/ CharByInt(op, x, v)
              \/ StringBySome(op, x, v) \/ StringByInt(op, x, v)
  <1>1. /\ v.class # "Null" /\ ~x.nullable
        /\ v.nullable => x.class = "String" /\ op = "+"
    BY DEF CompoundCast, NullableRefused
  <1>2. /\ "Any" \notin {x.class, v.class}
        /\ ~(v.class = "Bool" /\ (op = "%" \/ x.class = "String"))
    BY DEF CompoundGaps, Ways
  <1>3. Kind(x.value) = x.class /\ x.class \in Classes \ {"Null"} /\ v.class \in Classes \ {"Null"}
    BY <1>1, <1>2, OperandClass
  <1>4. ~v.nullable => Kind(v.value) = v.class
    BY <1>2, OperandClass
  <1>5. ~NullRefused(op, x, v)
    BY <1>1 DEF NullRefused
  <1>6. /\ x.class # "Bool"
        /\ x.class = "Int" => v.class \in Numbers
        /\ x.class = "Float" => v.class \in Numbers
        /\ x.class = "Char" => v.class = "Int" /\ op \in {"+", "-"}
        /\ x.class = "String" => op = "+" \/ (op = "*" /\ v.class = "Int")
    BY <1>2, <1>3 DEF CompoundCast, Numbers
  <1>7. CASE x.class \in {"Int", "Float"}
    <2>1. Kind(v.value) = v.class /\ v.class \in Numbers
      BY <1>1, <1>4, <1>6, <1>7
    <2>2. CompoundCast(op, x, v) = IF x.class = "Int"
                                   THEN (IF v.class = "Bool" THEN "Int" ELSE "none")
                                   ELSE (IF v.class = "Float" THEN "none" ELSE "Float")
      BY <1>2, <1>7, <2>1 DEF CompoundCast, Numbers
    <2> QED BY <1>1, <1>2, <1>3, <1>5, <1>7, <2>1, <2>2 DEF NumberByNumber
  <1>8. CASE x.class = "Char"
    <2>1. CompoundCast(op, x, v) = "none"
      BY <1>6, <1>8 DEF CompoundCast
    <2> QED BY <1>1, <1>3, <1>4, <1>5, <1>6, <1>8, <2>1 DEF CharByInt
  <1>9. CASE x.class = "String"
    <2>1. CompoundCast(op, x, v) = "none"
      BY <1>6, <1>9 DEF CompoundCast
    <2> QED BY <1>1, <1>2, <1>3, <1>4, <1>5, <1>6, <1>9, <2>1 DEF StringBySome, StringByInt
  <1> QED BY <1>3, <1>6, <1>7, <1>8, <1>9 DEF Classes, Numbers

(* A number in another guise: the natives compute the same with it.        *)
LEMMA SameNative ==
    ASSUME NEW op \in Arithmetic, NEW a, NEW b, NEW c, IsObject(a), IsObject(b), IsObject(c),
           Kind(a) \in Numbers, Kind(b) \in Numbers, Kind(c) \in Numbers,
           Doubled(c) = Doubled(b), "Float" \in Kinds(a, c) <=> "Float" \in Kinds(a, b),
           op = "%" => Kind(b) # "Bool" /\ Kind(c) # "Bool"
    PROVE  Native(op, a, c) = Native(op, a, b)
  <1>1. Kinds(a, b) \subseteq Numbers /\ Kinds(a, c) \subseteq Numbers
    BY DEF Kinds
  <1>2. c[2] = 0 <=> b[2] = 0
    BY NumberData
  <1>3. Number(op, a, c) = Number(op, a, b)
    <2>1. CASE "Float" \in Kinds(a, b)
      BY <2>1 DEF Number
    <2>2. CASE "Float" \notin Kinds(a, b)
      <3>1. b[2] \in Int /\ c[2] \in Int
        BY NumberData
      <3>2. 2 * b[2] = 2 * c[2]
        BY <2>2 DEF Doubled, Kinds
      <3>3. b[2] = c[2]
        BY <3>1, <3>2
      <3> QED BY <2>2, <3>3 DEF Number
    <2> QED BY <2>1, <2>2
  <1>4. CASE op = "+"
    BY <1>1, <1>3, <1>4, NativeOf, PlusCases
  <1>5. CASE op = "-"
    BY <1>1, <1>3, <1>5, NativeOf, MinusCases
  <1>6. CASE op = "*"
    BY <1>1, <1>3, <1>6, NativeOf, MulCases
  <1>7. CASE op = "/"
    BY <1>1, <1>2, <1>3, <1>7, NativeOf DEF divide
  <1>8. CASE op = "%"
    BY <1>1, <1>2, <1>3, <1>8, NativeOf DEF mod
  <1> QED BY <1>4, <1>5, <1>6, <1>7, <1>8 DEF Arithmetic

(* The compound natives before two numbers.                                *)
LEMMA AssignedNumber ==
    ASSUME NEW op \in Arithmetic, NEW pointed \in BOOLEAN, NEW a, NEW b,
           Kind(a) \in {"Int", "Float"}, Kind(b) \in {"Int", "Float"},
           ~(pointed /\ Kind(a) = "Int" /\ Kind(b) = "Float" /\ op \in {"+", "-"})
    PROVE  AssignNative(op, pointed, a, b) = Kept(a, Native(op, a, b))
  <1>1. Kinds(a, b) \subseteq Numbers /\ Kind(b) # "Bool" /\ Kind(b) \in Numbers
    BY DEF Kinds, Numbers
  <1>2. pointed /\ Kind(a) = "Int" /\ op \in {"+", "-"} => toInt(b) = b
    BY DEF toInt
  <1>3. CASE op = "+"
    <2>1. plus_eq(pointed, a, b) = Number("+", a, b)
      BY <1>1, <1>2, <1>3 DEF plus_eq
    <2>2. Native(op, a, b) = Number("+", a, b)
      BY <1>1, <1>3, NativeOf, PlusCases
    <2> QED BY <1>3, <2>1, <2>2 DEF AssignNative
  <1>4. CASE op = "-"
    <2>1. minus_eq(pointed, a, b) = Number("-", a, b)
      BY <1>1, <1>2, <1>4 DEF minus_eq
    <2>2. Native(op, a, b) = Number("-", a, b)
      BY <1>1, <1>4, NativeOf, MinusCases
    <2> QED BY <1>4, <2>1, <2>2 DEF AssignNative
  <1>5. CASE op = "*"
    <2>1. mul_eq(pointed, a, b) = Number("*", a, b)
      BY <1>1, <1>5 DEF mul_eq
    <2>2. Native(op, a, b) = Number("*", a, b)
      BY <1>1, <1>5, NativeOf, MulCases
    <2> QED BY <1>5, <2>1, <2>2 DEF AssignNative
  <1>6. CASE op = "/"
    <2>1. divide_eq(pointed, a, b) = divide(a, b)
      BY <1>1 DEF divide_eq, divide
    <2> QED BY <1>6, <2>1, NativeOf DEF AssignNative
  <1>7. CASE op = "%"
    <2>1. mod_eq(pointed, a, b) = mod(a, b)
      BY <1>1 DEF mod_eq, mod
    <2> QED BY <1>7, <2>1, NativeOf DEF AssignNative
  <1> QED BY <1>3, <1>4, <1>5, <1>6, <1>7 DEF Arithmetic

(* The number a target stores: an Int keeps its class.                     *)
Stored(x, v, n) ==
    IF x.class = "Int" /\ v.class = "Float" /\ ~Fails(n) THEN CastTo("Int", n) ELSE n

(* A number cast to Float, and a Bool cast to Int, are the same number.    *)
LEMMA CastNumbers ==
    ASSUME NEW v, IsObject(v), Kind(v) \in Numbers
    PROVE  /\ IsObject(CastTo("Float", v)) /\ Kind(CastTo("Float", v)) = "Float"
           /\ Doubled(CastTo("Float", v)) = Doubled(v)
           /\ Kind(v) = "Bool" => /\ IsObject(CastTo("Int", v)) /\ Kind(CastTo("Int", v)) = "Int"
                                  /\ Doubled(CastTo("Int", v)) = Doubled(v)
  <1>1. CastTo("Float", v) = <<"Float", Doubled(v)>> /\ Doubled(v) \in Int
    BY NumberData DEF CastTo
  <1>2. Kind(v) = "Bool" => CastTo("Int", v) = <<"Int", v[2]>> /\ v[2] \in -IntLimit .. IntLimit - 1
    <2>1. Kind(v) = "Bool" => v[2] \in -IntLimit .. IntLimit - 1
      BY ObjectData, WidthAssumption
    <2> QED BY <2>1 DEF CastTo
  <1>3. IsObject(CastTo("Float", v)) /\ Kind(CastTo("Float", v)) = "Float"
    BY <1>1, MadeObjects DEF Kind
  <1>4. Doubled(CastTo("Float", v)) = Doubled(v)
    BY <1>1 DEF Doubled, Kind
  <1>5. Kind(v) = "Bool" => IsObject(CastTo("Int", v)) /\ Kind(CastTo("Int", v)) = "Int"
    BY <1>2, MadeObjects DEF Kind
  <1>6. Kind(v) = "Bool" => Doubled(CastTo("Int", v)) = Doubled(v)
    BY <1>2 DEF Doubled, Kind
  <1> QED BY <1>3, <1>4, <1>5, <1>6

(* What the compound native stores is what the plain one gives, converted. *)
LEMMA KeptIsStored ==
    ASSUME NEW op \in Arithmetic, NEW x, NEW v, NumberByNumber(op, x, v),
           IsObject(x.value), IsObject(v.value), Kind(x.value) = x.class
    PROVE  Kept(x.value, Native(op, x.value, v.value)) = Stored(x, v, Native(op, x.value, v.value))
  <1> DEFINE n == Native(op, x.value, v.value)
  <1>1. Kinds(x.value, v.value) = {x.class, v.class} /\ x.class \in {"Int", "Float"} /\ v.class \in Numbers
    BY DEF NumberByNumber, Kinds
  <1>2. /\ "Float" \in {x.class, v.class} => n \in {ByZero, Trap} \/ Kind(n) = "Float"
        /\ "Float" \notin {x.class, v.class} => n \in {ByZero, Trap} \/ Kind(n) = "Int"
    <2>1. CASE op = "+"
      <3>1. n = plus(x.value, v.value)
        BY <2>1, NativeOf
      <3> QED BY <1>1, <3>1, PlusKinds DEF Pair, Numbers
    <2>2. CASE op # "+"
      <3>1. op \in Products
        BY <2>2 DEF Products, Arithmetic
      <3>2. /\ Kinds(x.value, v.value) \subseteq Numbers /\ "Float" \in Kinds(x.value, v.value)
                  => n \in {ByZero, Trap} \/ Kind(n) = "Float"
            /\ Kinds(x.value, v.value) \subseteq {"Int", "Bool"} => n \in {ByZero, Trap} \/ Kind(n) = "Int"
        BY <3>1, ProductKinds DEF Pair
      <3> HIDE DEF n
      <3> QED BY <1>1, <3>2 DEF Numbers
    <2> QED BY <2>1, <2>2
  <1>3. Fails(ByZero) /\ Fails(Trap)
    BY ErrorsFail DEF Errors
  <1> HIDE DEF n
  <1>4. Kind(n) = "Int" => toInt(n) = n
    BY DEF toInt
  <1>5. Kind(n) = "Float" => toInt(n) = CastTo("Int", n)
    BY DEF toInt, CastTo
  <1> QED BY <1>1, <1>2, <1>3, <1>4, <1>5 DEF Kept, Stored, Numbers, n

(* x = x op v of two numbers.                                              *)
LEMMA SpelledNumber ==
    ASSUME NEW op \in Arithmetic, NEW x, NEW v, NumberByNumber(op, x, v), ~NullRefused(op, x, v),
           IsObject(x.value), IsObject(v.value), Kind(x.value) = x.class
    PROVE  Spelled(op, x, v) = Stored(x, v, Native(op, x.value, v.value))
  <1> DEFINE d == CastsRight(op, x, v)
             n == Native(op, x.value, v.value)
             pair == Looked(op, x, v)
  <1>1. /\ x.class \in {"Int", "Float"} /\ v.class \in Numbers /\ Kind(v.value) = v.class
        /\ op = "%" => v.class # "Bool"
    BY DEF NumberByNumber
  <1>2. ~CastsLeft(op, x, v) /\ d \in BOOLEAN /\ (d => v.class = "Bool")
    BY <1>1 DEF CastsLeft, CastsRight
  <1>3. pair = {x.class, IF d THEN "Int" ELSE v.class}
    BY <1>2 DEF Looked, ClassAfter
  <1>4. TypeResult(op, pair) = IF "Float" \in {x.class, v.class} THEN "Float" ELSE "Int"
    <2>1. pair \subseteq Numbers /\ pair # {"Bool"} /\ ("Float" \in pair <=> "Float" \in {x.class, v.class})
      BY <1>1, <1>2, <1>3 DEF Numbers
    <2>2. /\ op \notin Relations /\ op \notin Equalities
          /\ op \notin {"&&", "||"} /\ op \notin {"&", "|"}
      BY DEF Relations, Equalities, Arithmetic
    <2>3. \E a, b : pair = {a, b}
      BY <1>3
    <2> HIDE DEF pair
    <2>4. CASE "Float" \in pair
      BY <2>1, <2>2, <2>3, <2>4 DEF TypeResult, Numbers
    <2>5. CASE "Float" \notin pair
      BY <2>1, <2>2, <2>3, <2>5 DEF TypeResult, Numbers
    <2> QED BY <2>1, <2>4, <2>5
  <1>5. TypeOf(op, x, v) = IF "Float" \in {x.class, v.class} THEN "Float" ELSE "Int"
    <2>1. op \notin Identities /\ op \notin Equalities
      BY DEF Identities, Equalities, Arithmetic
    <2> QED BY <1>4, <2>1 DEF TypeOf, Looked
  <1>6. Emitted(op, "variables", x, v) = n
    <2>1. Emitted(op, "variables", x, v) = Native(op, x.value, CastOf(d, v.value))
      BY <1>2 DEF Emitted, CastOf, Arithmetic
    <2>2. CASE ~d
      BY <2>1, <2>2 DEF CastOf
    <2>3. CASE d
      <3>1. v.class = "Bool" /\ CastOf(d, v.value) = CastTo("Int", v.value)
        BY <1>2, <2>3 DEF CastOf
      <3>2. Kind(v.value) \in Numbers /\ Kind(x.value) \in Numbers /\ op # "%"
        BY <1>1, <3>1 DEF Numbers
      <3>3. /\ IsObject(CastTo("Int", v.value)) /\ Kind(CastTo("Int", v.value)) = "Int"
            /\ Doubled(CastTo("Int", v.value)) = Doubled(v.value)
        BY <1>1, <3>1, <3>2, CastNumbers
      <3>4. "Float" \in Kinds(x.value, CastTo("Int", v.value)) <=> "Float" \in Kinds(x.value, v.value)
        BY <1>1, <3>1, <3>3 DEF Kinds
      <3>5. Native(op, x.value, CastTo("Int", v.value)) = n
        <4>1. "Int" \in Numbers
          BY DEF Numbers
        <4> QED BY <3>2, <3>3, <3>4, <4>1, SameNative
      <3> QED BY <2>1, <3>1, <3>5
    <2> QED BY <1>2, <2>2, <2>3
  <1>7. OptimizeBinary(op, "variables", x, v)
           = [class |-> TypeOf(op, x, v), nullable |-> FALSE, value |-> n]
    BY <1>5, <1>6 DEF OptimizeBinary, Typed
  <1> DEFINE sum == OptimizeBinary(op, "variables", x, v)
  <1>8. /\ sum.class = IF "Float" \in {x.class, v.class} THEN "Float" ELSE "Int"
        /\ sum.value = n
    BY <1>5, <1>7
  <1> HIDE DEF sum, n
  <1>9. StoreCast(x, sum) = IF x.class = "Int" /\ v.class = "Float" THEN "Int" ELSE "none"
    BY <1>1, <1>8 DEF StoreCast, Numbers
  <1>10. sum.class # "none" /\ StoreCast(x, sum) # "refused"
    BY <1>8, <1>9
  <1>11. Spelled(op, x, v) = Converted(StoreCast(x, sum), sum.value)
    BY <1>10 DEF Spelled, sum
  <1> QED BY <1>8, <1>9, <1>11 DEF Converted, Stored, n

(* The three forms of a number's assignment.                               *)
LEMMA NumberAssigned ==
    ASSUME NEW op \in Arithmetic, NEW x, NEW v, NumberByNumber(op, x, v), ~NullRefused(op, x, v),
           IsObject(x.value), IsObject(v.value), Kind(x.value) = x.class
    PROVE  LET b == Converted(CompoundCast(op, x, v), v.value)
           IN  /\ InPlace(op, x, b) = Spelled(op, x, v)
               /\ Recomputed(op, x, v, b) = Spelled(op, x, v)
               /\ "pointed" \notin CompoundGaps(op, x, v) => Pointed(op, x, b) = Spelled(op, x, v)
  <1> DEFINE a == x.value
             b == Converted(CompoundCast(op, x, v), v.value)
             n == Native(op, a, v.value)
  <1>1. /\ x.class \in {"Int", "Float"} /\ v.class \in Numbers /\ Kind(v.value) = v.class
        /\ op = "%" => v.class # "Bool"
        /\ CompoundCast(op, x, v) = IF x.class = "Int"
                                    THEN (IF v.class = "Bool" THEN "Int" ELSE "none")
                                    ELSE (IF v.class = "Float" THEN "none" ELSE "Float")
    BY DEF NumberByNumber
  <1>2. b = IF CompoundCast(op, x, v) = "none" THEN v.value ELSE CastTo(CompoundCast(op, x, v), v.value)
    <2>1. ~Fails(v.value)
      BY ResultOrError DEF IsResult
    <2> QED BY <2>1 DEF Converted
  <1>3. /\ IsObject(b) /\ Kind(b) \in {"Int", "Float"} /\ Doubled(b) = Doubled(v.value)
        /\ "Float" \in Kinds(a, b) <=> "Float" \in Kinds(a, v.value)
        /\ Kind(b) = "Float" /\ x.class = "Int" => v.class = "Float"
    <2>1. Kind(v.value) \in Numbers
      BY <1>1
    <2>2. CASE CompoundCast(op, x, v) = "none"
      <3>1. b = v.value
        BY <1>2, <2>2
      <3>2. v.class \in {"Int", "Float"}
        BY <1>1, <2>2 DEF Numbers
      <3> HIDE DEF b
      <3> QED BY <1>1, <3>1, <3>2
    <2>3. CASE CompoundCast(op, x, v) = "Int"
      <3>1. b = CastTo("Int", v.value) /\ v.class = "Bool" /\ x.class = "Int"
        BY <1>1, <1>2, <2>3
      <3>2. IsObject(b) /\ Kind(b) = "Int" /\ Doubled(b) = Doubled(v.value)
        BY <1>1, <2>1, <3>1, CastNumbers
      <3> HIDE DEF b
      <3> QED BY <1>1, <3>1, <3>2 DEF Kinds
    <2>4. CASE CompoundCast(op, x, v) = "Float"
      <3>1. b = CastTo("Float", v.value) /\ x.class = "Float"
        BY <1>1, <1>2, <2>4
      <3>2. IsObject(b) /\ Kind(b) = "Float" /\ Doubled(b) = Doubled(v.value)
        BY <2>1, <3>1, CastNumbers
      <3> HIDE DEF b
      <3> QED BY <3>1, <3>2 DEF Kinds
    <2> QED BY <1>1, <2>2, <2>3, <2>4
  <1> HIDE DEF b
  <1>4. Native(op, a, b) = n
    <2>1. Kind(a) \in Numbers /\ Kind(b) \in Numbers /\ Kind(v.value) \in Numbers
      BY <1>1, <1>3 DEF Numbers
    <2>2. op = "%" => Kind(v.value) # "Bool" /\ Kind(b) # "Bool"
      BY <1>1, <1>3
    <2> QED BY <1>3, <2>1, <2>2, SameNative
  <1>5. Spelled(op, x, v) = Stored(x, v, n) /\ Kept(a, n) = Stored(x, v, n)
    BY SpelledNumber, KeptIsStored
  <1>6. InPlace(op, x, b) = Spelled(op, x, v)
    <2>1. x.class # "String" /\ FALSE \in BOOLEAN
      BY <1>1
    <2>2. AssignNative(op, FALSE, a, b) = Kept(a, Native(op, a, b))
      <3>1. Kind(a) \in {"Int", "Float"} /\ Kind(b) \in {"Int", "Float"}
        BY <1>1, <1>3
      <3>2. PICK p \in BOOLEAN : p = FALSE
        OBVIOUS
      <3>3. ~(p /\ Kind(a) = "Int" /\ Kind(b) = "Float" /\ op \in {"+", "-"})
        BY <3>2
      <3> HIDE DEF a
      <3>4. AssignNative(op, p, a, b) = Kept(a, Native(op, a, b))
        BY <3>1, <3>3, AssignedNumber
      <3> QED BY <3>2, <3>4
    <2>3. InPlace(op, x, b) = AssignNative(op, FALSE, a, b)
      BY <2>1 DEF InPlace
    <2> QED BY <1>4, <1>5, <2>2, <2>3
  <1>7. Recomputed(op, x, v, b) = Spelled(op, x, v)
    BY <1>4, <1>5 DEF Recomputed, Stored
  <1>8. ASSUME "pointed" \notin CompoundGaps(op, x, v)
        PROVE  Pointed(op, x, b) = Spelled(op, x, v)
    <2>1. op # "%" /\ ~(x.class = "Int" /\ v.class = "Float" /\ op \in {"+", "-"})
      BY <1>8 DEF CompoundGaps
    <2>2. AssignNative(op, TRUE, a, b) = Kept(a, Native(op, a, b))
      <3>1. Kind(a) \in {"Int", "Float"} /\ Kind(b) \in {"Int", "Float"}
        BY <1>1, <1>3
      <3>2. PICK p \in BOOLEAN : p = TRUE
        OBVIOUS
      <3>3. ~(p /\ Kind(a) = "Int" /\ Kind(b) = "Float" /\ op \in {"+", "-"})
        BY <1>3, <2>1
      <3> HIDE DEF a
      <3>4. AssignNative(op, p, a, b) = Kept(a, Native(op, a, b))
        BY <3>1, <3>3, AssignedNumber
      <3> QED BY <3>2, <3>4
    <2> QED BY <1>4, <1>5, <2>1, <2>2 DEF Pointed
  <1> QED BY <1>6, <1>7, <1>8 DEF b

(* A target whose class the operator does not change.                      *)
LEMMA SpelledSame ==
    ASSUME NEW op \in Arithmetic, NEW x, NEW v, ~NullRefused(op, x, v),
           x.class # "Bool", v.class # "Bool", x.class # "none",
           TypeResult(op, {x.class, v.class}) = x.class
    PROVE  Spelled(op, x, v) = Native(op, x.value, v.value)
  <1>1. ~CastsLeft(op, x, v) /\ ~CastsRight(op, x, v)
    BY DEF CastsLeft, CastsRight
  <1>2. TypeOf(op, x, v) = x.class
    <2>1. op \notin Identities /\ op \notin Equalities
      BY DEF Identities, Equalities, Arithmetic
    <2> QED BY <1>1, <2>1 DEF TypeOf, ClassAfter
  <1>3. Emitted(op, "variables", x, v) = Native(op, x.value, v.value)
    BY <1>1 DEF Emitted, Arithmetic
  <1> DEFINE sum == OptimizeBinary(op, "variables", x, v)
  <1>4. sum.class = x.class /\ sum.value = Native(op, x.value, v.value)
    BY <1>2, <1>3 DEF OptimizeBinary, Typed
  <1> HIDE DEF sum
  <1>5. StoreCast(x, sum) = "none"
    BY <1>4 DEF StoreCast
  <1>6. Spelled(op, x, v) = Converted("none", sum.value)
    BY <1>4, <1>5 DEF Spelled, sum
  <1> QED BY <1>4, <1>6 DEF Converted

(* The three forms of the other assignments.                               *)
LEMMA OtherAssigned ==
    ASSUME NEW op \in Arithmetic, NEW x, NEW v, ~NullRefused(op, x, v),
           Kind(x.value) = x.class,
           CharByInt(op, x, v) \/ StringBySome(op, x, v) \/ StringByInt(op, x, v)
    PROVE  LET b == Converted(CompoundCast(op, x, v), v.value)
           IN  /\ InPlace(op, x, b) = Spelled(op, x, v)
               /\ Recomputed(op, x, v, b) = Spelled(op, x, v)
               /\ Pointed(op, x, b) = Spelled(op, x, v)
  <1> DEFINE a == x.value
             b == v.value
             n == Native(op, a, b)
  <1>1. Converted(CompoundCast(op, x, v), v.value) = b
    BY DEF Converted, CharByInt, StringBySome, StringByInt
  <1>2. x.class \in {"Char", "String"} /\ Kind(a) = x.class /\ op # "%" /\ v.class # "Bool"
    BY DEF CharByInt, StringBySome, StringByInt
  <1>3. Recomputed(op, x, v, b) = n
    BY <1>2 DEF Recomputed
  <1>4. \A m : Kept(a, m) = m
    BY <1>2 DEF Kept
  <1>5. CASE CharByInt(op, x, v)
    <2>1. x.class = "Char" /\ v.class = "Int" /\ Kind(b) = "Int" /\ op \in {"+", "-"}
      BY <1>5 DEF CharByInt
    <2>2. \A p \in BOOLEAN : AssignNative(op, p, a, b) = n
      <3>1. CASE op = "+"
        <4>1. Kinds(a, b) = {"Int", "Char"}
          BY <1>2, <2>1 DEF Kinds
        <4>2. n = ToChar(a[2] + b[2])
          BY <3>1, <4>1, NativeOf, PlusCases
        <4>3. \A p \in BOOLEAN : plus_eq(p, a, b) = ToChar(a[2] + b[2])
          BY <1>2, <2>1 DEF plus_eq
        <4> HIDE DEF a, b, n
        <4> QED BY <1>4, <3>1, <4>2, <4>3 DEF AssignNative
      <3>2. CASE op = "-"
        <4>1. n = ToChar(a[2] - b[2])
          BY <1>2, <2>1, <3>2, NativeOf, MinusCases
        <4>2. \A p \in BOOLEAN : minus_eq(p, a, b) = ToChar(a[2] - b[2])
          BY <1>2, <2>1 DEF minus_eq
        <4> HIDE DEF a, b, n
        <4> QED BY <1>4, <3>2, <4>1, <4>2 DEF AssignNative
      <3> QED BY <2>1, <3>1, <3>2
    <2>3. TypeResult(op, {x.class, v.class}) = x.class
      <3>1. {x.class, v.class} = {"Char", "Int"} /\ ~({"Char", "Int"} \subseteq Numbers)
        BY <2>1 DEF Numbers
      <3>2. TypeResult(op, {"Char", "Int"}) = "Char"
        BY <2>1, <3>1 DEF TypeResult, Relations, Equalities, Arithmetic
      <3> QED BY <2>1, <3>1, <3>2
    <2>4. Spelled(op, x, v) = n
      BY <1>2, <2>1, <2>3, SpelledSame
    <2>5. InPlace(op, x, b) = n /\ Pointed(op, x, b) = n
      BY <1>2, <2>1, <2>2 DEF InPlace, Pointed
    <2> QED BY <1>1, <1>3, <2>4, <2>5
  <1>6. CASE StringBySome(op, x, v)
    <2>1. x.class = "String" /\ op = "+" /\ v.class # "Any"
      BY <1>6 DEF StringBySome
    <2>2. n = Joined(a, b)
      <3>1. "String" \in Kinds(a, b)
        BY <1>2, <2>1 DEF Kinds
      <3> QED BY <2>1, <3>1, NativeOf, PlusCases
    <2>3. AssignNative("+", TRUE, a, b) = Joined(a, b)
      <3>1. plus_eq(TRUE, a, b) = Joined(a, b)
        BY <1>2, <2>1 DEF plus_eq
      <3> QED BY <1>4, <3>1 DEF AssignNative
    <2>4. TypeResult(op, {x.class, v.class}) = x.class
      <3> DEFINE pair == {x.class, v.class}
      <3>1. /\ "String" \in pair /\ pair # {"String", "Any"} /\ pair # {"Char"}
            /\ ~(pair \subseteq Numbers)
        BY <2>1 DEF Numbers
      <3> HIDE DEF pair
      <3>2. TypeResult("+", pair) = "String"
        BY <3>1 DEF TypeResult, Relations, Equalities, Arithmetic
      <3> QED BY <2>1, <3>2 DEF pair
    <2>5. Spelled(op, x, v) = n
      BY <1>2, <2>1, <2>4, SpelledSame
    <2>6. InPlace(op, x, b) = n /\ Pointed(op, x, b) = n
      BY <1>2, <2>1, <2>2, <2>3 DEF InPlace, Pointed
    <2> QED BY <1>1, <1>3, <2>5, <2>6
  <1>7. CASE StringByInt(op, x, v)
    <2>1. x.class = "String" /\ op = "*" /\ v.class = "Int" /\ Kind(b) = "Int"
      BY <1>7 DEF StringByInt
    <2>2. n = repeat(a, b[2])
      BY <1>2, <2>1, NativeOf, MulCases
    <2>3. AssignNative("*", TRUE, a, b) = repeat(a, b[2])
      <3>1. mul_eq(TRUE, a, b) = repeat(a, b[2])
        BY <1>2, <2>1 DEF mul_eq
      <3> QED BY <1>4, <3>1 DEF AssignNative
    <2>4. TypeResult(op, {x.class, v.class}) = x.class
      <3>1. {x.class, v.class} = {"String", "Int"} /\ ~({"String", "Int"} \subseteq Numbers)
        BY <2>1 DEF Numbers
      <3>2. TypeResult("*", {"String", "Int"}) = "String"
        BY <3>1 DEF TypeResult, Relations, Equalities, Arithmetic
      <3> QED BY <2>1, <3>1, <3>2
    <2>5. Spelled(op, x, v) = n
      BY <1>2, <2>1, <2>4, SpelledSame
    <2>6. InPlace(op, x, b) = n /\ Pointed(op, x, b) = n
      BY <1>2, <2>1, <2>2, <2>3 DEF InPlace, Pointed
    <2> QED BY <1>1, <1>3, <2>5, <2>6
  <1> QED BY <1>5, <1>6, <1>7

(* Every form of a compound assignment that is not a known gap stores what *)
(* the assignment spelled out stores.                                      *)
LEMMA CompoundAssigned ==
    ASSUME NEW op \in Arithmetic, NEW x, NEW v, IsOperand(x), IsOperand(v),
           CompoundCast(op, x, v) # "refused", NEW w \in Ways \ CompoundGaps(op, x, v)
    PROVE  LET b == Converted(CompoundCast(op, x, v), v.value)
           IN  /\ w = "inPlace" => InPlace(op, x, b) = Spelled(op, x, v)
               /\ w = "recomputed" => Recomputed(op, x, v, b) = Spelled(op, x, v)
               /\ w = "pointed" => Pointed(op, x, b) = Spelled(op, x, v)
  <1>1. /\ ~x.nullable /\ Kind(x.value) = x.class /\ ~NullRefused(op, x, v)
        /\ \/ NumberByNumber(op, x, v) \/ CharByInt(op, x, v)
           \/ StringBySome(op, x, v) \/ StringByInt(op, x, v)
    BY CompoundCases
  <1>2. IsObject(x.value) /\ IsObject(v.value)
    BY DEF IsOperand
  <1>3. CASE NumberByNumber(op, x, v)
    BY <1>1, <1>2, <1>3, NumberAssigned
  <1>4. CASE CharByInt(op, x, v) \/ StringBySome(op, x, v) \/ StringByInt(op, x, v)
    BY <1>1, <1>4, OtherAssigned
  <1> QED BY <1>1, <1>3, <1>4

(* So the step that compares them finds them equal.                        *)
LEMMA CompoundAssign ==
    ASSUME MeaningInv, NEW op \in Arithmetic, NEW v \in Operands, Assign(op, v)
    PROVE  CompoundMeansOperator'
  <1> DEFINE cast == CompoundCast(op, typed, v)
             b == Converted(cast, v.value)
             ways == (Ways \ CompoundGaps(op, typed, v)) \cup {"spelled"}
             spelled == Spelled(op, typed, v)
  <1>1. IsOperand(typed) /\ IsOperand(v) /\ cast # "refused"
    BY LiveMeaning, OperandsAreOperands DEF Assign
  <1>2. assigned' = [w \in ways |->
                 CASE w = "inPlace"    -> InPlace(op, typed, b)
                   [] w = "pointed"    -> Pointed(op, typed, b)
                   [] w = "recomputed" -> Recomputed(op, typed, v, b)
                   [] w = "spelled"    -> spelled]
    BY DEF Assign
  <1>3. /\ assigned'["spelled"] = spelled /\ DOMAIN assigned' = ways
        /\ "inPlace" \in ways => assigned'["inPlace"] = InPlace(op, typed, b)
        /\ "pointed" \in ways => assigned'["pointed"] = Pointed(op, typed, b)
        /\ "recomputed" \in ways => assigned'["recomputed"] = Recomputed(op, typed, v, b)
    <2>1. "spelled" \in ways
      OBVIOUS
    <2> HIDE DEF ways, b, cast, spelled
    <2> QED BY <1>2, <2>1
  <1>4. ASSUME NEW w \in ways PROVE assigned'[w] = spelled
    <2>1. CASE w = "spelled"
      BY <1>3, <2>1
    <2>2. CASE w # "spelled"
      <3>1. w \in Ways \ CompoundGaps(op, typed, v)
        BY <2>2
      <3>2. /\ w = "inPlace" => InPlace(op, typed, b) = spelled
            /\ w = "recomputed" => Recomputed(op, typed, v, b) = spelled
            /\ w = "pointed" => Pointed(op, typed, b) = spelled
        BY <1>1, <3>1, CompoundAssigned
      <3>3. w \in {"inPlace", "pointed", "recomputed"}
        BY <3>1 DEF Ways
      <3> HIDE DEF ways, b, cast, spelled
      <3> QED BY <1>3, <3>2, <3>3
    <2> QED BY <2>1, <2>2
  <1> QED BY <1>3, <1>4 DEF CompoundMeansOperator

(* x op= v stores what x = x op v stores, in whichever of its forms the    *)
(* compiler emits it, but for the forms known to differ.                   *)
THEOREM CompoundsMeanTheirOperator == ExpressionSpec => []CompoundMeansOperator
  <1>1. ExpressionInit => CompoundMeansOperator
    BY DEF ExpressionInit, NotAssigned, CompoundMeansOperator
  <1>2. MeaningInv /\ CompoundMeansOperator /\ [ExpressionNext]_expressionVars => CompoundMeansOperator'
    <2> SUFFICES ASSUME MeaningInv, CompoundMeansOperator, [ExpressionNext]_expressionVars
                 PROVE  CompoundMeansOperator'
      OBVIOUS
    <2>1. CASE UNCHANGED assigned
      BY <2>1 DEF CompoundMeansOperator
    <2>2. ASSUME NEW op \in Arithmetic, NEW v \in Operands, Assign(op, v)
          PROVE  CompoundMeansOperator'
      BY <2>2, CompoundAssign
    <2> QED BY <2>1, <2>2 DEF ExpressionNext, expressionVars, Binary, Unary
  <1> QED BY <1>1, <1>2, ExpressionsHaveAMeaning, PTL DEF ExpressionSpec

===============================================================================
