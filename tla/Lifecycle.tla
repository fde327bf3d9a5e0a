------------------------------ MODULE Lifecycle ------------------------------
(***************************************************************************)
(* One compiler used by its host for one program after another: the calls  *)
(* of ACompiler (registerBuiltInLibrary, loadMainSource,                   *)
(* generateBytecodes, compile, run, refresh), the state machine that       *)
(* guards them, and what each leaves behind for the next, in the parser,   *)
(* in the string table of the lexer and in the virtual machine.            *)
(*                                                                         *)
(* A program is what its text is and what it does when it runs as it was   *)
(* written.  Besides, a limit may end any run: time and memory are not in  *)
(* the program's hands.  A run "fails" when the engine or a native         *)
(* function of the host throws a C++ exception, which leaves resume() with *)
(* everything in place.  The calls run on one thread; compile() is the     *)
(* refresh, the loading and the generation it makes, one after the other.  *)
(***************************************************************************)
EXTENDS Naturals

CONSTANTS
    MaxLibraries,   \* bound: libraries the host registers
    MaxFrames,      \* bound: call frames that failed runs leave
    None,           \* a null pointer
    Limit,          \* the message of a limit that was exceeded
    Garbage         \* what comes of parsing on top of an earlier program

VARIABLES
    \* What survives refresh().
    registered,     \* builtInLibraries: the last one's number
    rejected,       \* the library whose text the lexer rejects, or 0
    lexed,          \* the registered libraries that have tokens
    loadedBuiltIn,
    stdStrings,     \* stdLexerString: the libraries whose strings it has
    \* What refresh() resets.
    strings,        \* lexerString: the libraries whose strings it has
    state,          \* CompilerState
    mainSource, loadedMainSource,
    tokens,         \* the program whose tokens the parser is given
    generated,      \* the parser was run since the last refresh()
    bytecode,       \* the program that run() executes
    shouldRefresh,
    call,           \* what is left of a call of compile()
    manual,         \* history: the host called loadMainSource itself since then
    \* The virtual machine.
    vmState, frames, operandsLeft, handlersLeft, isFatalException,
    exceptionMessage,   \* whose exception it tells of
    lastRun         \* history: how the last run of the bytecode went

libraryVars == <<registered, rejected, lexed, loadedBuiltIn, stdStrings, strings>>
sourceVars == <<state, mainSource, loadedMainSource, tokens, generated, bytecode>>
callVars == <<shouldRefresh, call, manual>>
vmVars == <<vmState, frames, operandsLeft, handlersLeft, isFatalException>>
runVars == <<exceptionMessage, lastRun>>
vars == <<libraryVars, sourceVars, callVars, vmVars, runVars>>

\* "rejected" is a lexical error or an import that is not found, "syntax" an
\* error that generateBytecodes finds, "missing" a file that does not exist.
Programs ==
    [text : {"rejected", "syntax", "missing"}, does : {"ends"}]
      \cup [text : {"correct"}, does : {"ends", "throws", "catches", "fails"}]

Steps == [step : {"load", "generate"}, source : Programs]

ASSUME LifecycleAssumption ==
    /\ MaxLibraries \in Nat /\ MaxFrames \in Nat
    /\ None \notin Programs /\ None \notin Steps
    /\ Garbage \notin Programs /\ Garbage # None

Compiling(program) == [step |-> "load", source |-> program]

Idle == call = None

Init ==
    \* The constructor registers stdlib.
    /\ registered = 1
    /\ rejected = 0
    /\ lexed = {}
    /\ loadedBuiltIn = FALSE
    /\ stdStrings = {}
    /\ strings = {}
    /\ state = "READY"
    /\ mainSource = None
    /\ loadedMainSource = FALSE
    /\ tokens = None
    /\ generated = FALSE
    /\ bytecode = None
    /\ shouldRefresh = FALSE
    /\ call = None
    /\ manual = FALSE
    /\ vmState = "READY"
    /\ frames = 0
    /\ operandsLeft = FALSE
    /\ handlersLeft = FALSE
    /\ isFatalException = FALSE
    /\ exceptionMessage = None
    /\ lastRun = "fresh"

(***************************************************************************)
(* Registered libraries.                                                   *)
(***************************************************************************)
RegisterBuiltInLibrary ==
    /\ Idle
    /\ ~loadedBuiltIn
    /\ registered < MaxLibraries
    /\ registered' = registered + 1
    /\ rejected' \in {rejected} \cup (IF rejected = 0 THEN {registered + 1} ELSE {})
    /\ UNCHANGED <<lexed, loadedBuiltIn, stdStrings, strings, sourceVars,
                   callVars, vmVars, runVars>>

\* loadBuiltInFunctions lexes the libraries without tokens, in order;
\* lexerTextToToken throws after a library that was rejected.
Unlexed == (1 .. registered) \ lexed

LexedNow ==
    IF state = "ERROR" THEN {}
    ELSE {lib \in Unlexed : rejected \in Unlexed => lib <= rejected}

AllLexed == LexedNow = Unlexed

StateAfterLibraries ==
    IF state = "ERROR" \/ rejected \in LexedNow THEN "ERROR"
    ELSE IF LexedNow # {} THEN "ANALYZED" ELSE state

SnapshotBefore == strings
Snapshot == strings \cup LexedNow

LoadLibraries ==
    IF loadedBuiltIn
    THEN UNCHANGED libraryVars
    ELSE /\ lexed' = lexed \cup LexedNow
         /\ strings' = strings \cup LexedNow
         /\ loadedBuiltIn' = AllLexed
         /\ stdStrings' = IF AllLexed THEN Snapshot ELSE stdStrings
         /\ UNCHANGED <<registered, rejected>>

LibrariesRefused == ~loadedBuiltIn /\ ~AllLexed

StateOfCompiler == IF loadedBuiltIn THEN state ELSE StateAfterLibraries

(***************************************************************************)
(* loadMainSource, called by the host or by compile().                     *)
(***************************************************************************)
MayLoad(program) ==
    \/ Idle /\ manual' = TRUE /\ call' = None
    \/ ~Idle /\ call = Compiling(program) /\ UNCHANGED manual

\* It throws: the libraries are refused, or the file does not exist.
LoadThrows(program) ==
    /\ MayLoad(program)
    /\ LibrariesRefused \/ program.text = "missing"
    /\ LoadLibraries
    /\ state' = StateOfCompiler
    /\ call' = None
    /\ UNCHANGED <<mainSource, loadedMainSource, tokens, generated, bytecode,
                   shouldRefresh, vmVars, runVars>>

LoadRejected(program) ==
    /\ MayLoad(program)
    /\ ~LibrariesRefused /\ program.text = "rejected"
    /\ LoadLibraries
    /\ mainSource' = program
    /\ state' = "ERROR"
    /\ call' = None
    /\ UNCHANGED <<loadedMainSource, tokens, generated, bytecode,
                   shouldRefresh, vmVars, runVars>>

LoadMainSource(program) ==
    /\ MayLoad(program)
    /\ ~LibrariesRefused /\ program.text \in {"correct", "syntax"}
    /\ LoadLibraries
    /\ mainSource' = program
    /\ tokens' = program
    /\ loadedMainSource' = TRUE
    /\ state' = "ANALYZED"
    /\ call' = IF Idle THEN None ELSE [call EXCEPT !.step = "generate"]
    /\ UNCHANGED <<generated, bytecode, shouldRefresh, vmVars, runVars>>

(***************************************************************************)
(* generateBytecodes parses into the lists and pools of the parser context *)
(* and of the program, which only refresh() empties: a second time it      *)
(* works on nodes of the first.                                            *)
(***************************************************************************)
MayGenerateAlways == TRUE
MayGenerate == state = "ANALYZED"

GenerateBytecodes ==
    /\ ~Idle => call.step = "generate"
    /\ MayGenerate
    /\ loadedMainSource
    /\ generated' = TRUE
    /\ IF generated
       THEN /\ bytecode' = Garbage
            /\ state' \in {"ERROR", "BYTECODE_READY"}
       ELSE IF tokens.text = "syntax"
       THEN /\ state' = "ERROR"
            /\ UNCHANGED bytecode
       ELSE /\ state' = "BYTECODE_READY"
            /\ bytecode' = tokens
    /\ lastRun' = "fresh"
    /\ call' = None
    /\ UNCHANGED <<libraryVars, mainSource, loadedMainSource, tokens,
                   shouldRefresh, manual, vmVars, exceptionMessage>>

(***************************************************************************)
(* refresh() and compile().                                                *)
(***************************************************************************)
FatalFlagAfterRefresh == FALSE

StringsAfterRefresh == stdStrings

RefreshCompiler ==
    /\ strings' = StringsAfterRefresh
    /\ state' = "READY"
    /\ mainSource' = None
    /\ loadedMainSource' = FALSE
    /\ tokens' = None
    /\ generated' = FALSE
    /\ bytecode' = None
    /\ lastRun' = "fresh"
    /\ manual' = FALSE
    /\ isFatalException' = FatalFlagAfterRefresh
    /\ UNCHANGED <<registered, rejected, lexed, loadedBuiltIn, stdStrings,
                   vmState, frames, operandsLeft, handlersLeft, exceptionMessage>>

Refresh ==
    /\ Idle
    /\ RefreshCompiler
    /\ shouldRefresh' = FALSE
    /\ UNCHANGED call

MustRefreshOnError == state = "ERROR"
MustRefresh == shouldRefresh \/ state = "ERROR"

Compile(program) ==
    /\ Idle
    /\ IF MustRefresh
       THEN RefreshCompiler
       ELSE UNCHANGED <<libraryVars, sourceVars, manual, vmVars, runVars>>
    /\ shouldRefresh' = TRUE
    /\ call' = Compiling(program)

(***************************************************************************)
(* run(): start(), what the bytecode does, and restart() if the virtual    *)
(* machine gets that far.  restart() leaves the fatal flag as it is, and a *)
(* program does not catch anything while it is set.                        *)
(***************************************************************************)
Runnable == Idle /\ state = "BYTECODE_READY" /\ bytecode # Garbage

FramesAfterRestart == 0

\* run() takes the message and restarts the machine.  resume() has removed
\* the operands and handlers of the main function's frame, which are all.
Returned(message, how) ==
    /\ exceptionMessage' = message
    /\ lastRun' = how
    /\ vmState' = "READY"
    /\ frames' = FramesAfterRestart
    /\ operandsLeft' = FALSE
    /\ handlersLeft' = FALSE
    /\ UNCHANGED <<libraryVars, sourceVars, callVars>>

Uncaught ==
    \/ bytecode.does = "throws"
    \/ bytecode.does = "catches" /\ isFatalException

MessageKept == IF Uncaught THEN bytecode ELSE exceptionMessage
Message == IF Uncaught THEN bytecode ELSE None

RunReturns ==
    /\ Runnable
    /\ vmState = "READY"
    /\ bytecode.does # "fails"
    /\ Returned(Message, "returned")
    /\ UNCHANGED isFatalException

RunLimited ==
    /\ Runnable
    /\ vmState = "READY"
    /\ Returned(Limit, "limited")
    /\ isFatalException' = TRUE

\* A C++ exception leaves run() before the message and the restart.
RunFails ==
    /\ Runnable
    /\ vmState = "READY" => bytecode.does = "fails"
    /\ vmState' = "RUNNING"
    /\ frames' \in frames + 1 .. MaxFrames
    /\ operandsLeft' \in {operandsLeft, TRUE}
    /\ handlersLeft' \in {handlersLeft, TRUE}
    /\ lastRun' = "failed"
    /\ UNCHANGED <<libraryVars, sourceVars, callVars, isFatalException, exceptionMessage>>

\* A run on what a failed one left: the main function's frame is not the
\* bottom one, whose exception run() reads, and finds handlers and operands of
\* another program.  It may do anything, or return.
RunOnLeftovers ==
    /\ Runnable
    /\ vmState = "RUNNING"
    /\ \E message \in {None, Limit, bytecode} : Returned(message, "onLeftovers")
    /\ isFatalException' \in {isFatalException, TRUE}

Run == RunReturns \/ RunLimited \/ RunFails \/ RunOnLeftovers

Next ==
    \/ RegisterBuiltInLibrary
    \/ \E program \in Programs :
          \/ LoadThrows(program) \/ LoadRejected(program)
          \/ LoadMainSource(program) \/ Compile(program)
    \/ GenerateBytecodes \/ Refresh \/ Run

\* While a call of compile() is in progress no other action is enabled: that
\* there is no deadlock says that its steps never refuse each other.
Spec == Init /\ [][Next]_vars

(***************************************************************************)
(* Properties.                                                             *)
(***************************************************************************)

\* Every variable has its type, and the string table of the lexer never has
\* less than its snapshot.
TypeOK ==
    /\ registered \in Nat /\ rejected \in 0 .. registered
    /\ lexed \subseteq 1 .. registered
    /\ strings \subseteq 1 .. registered /\ stdStrings \subseteq strings
    /\ state \in {"READY", "ANALYZED", "BYTECODE_READY", "ERROR"}
    /\ mainSource \in Programs \cup {None} /\ tokens \in Programs \cup {None}
    /\ bytecode \in Programs \cup {None, Garbage}
    /\ call \in {None} \cup Steps
    /\ loadedBuiltIn \in BOOLEAN /\ loadedMainSource \in BOOLEAN
    /\ generated \in BOOLEAN /\ shouldRefresh \in BOOLEAN /\ manual \in BOOLEAN
    /\ operandsLeft \in BOOLEAN /\ handlersLeft \in BOOLEAN
    /\ isFatalException \in BOOLEAN
    /\ vmState \in {"READY", "RUNNING"}
    /\ frames \in 0 .. MaxFrames
    /\ exceptionMessage \in Programs \cup {None, Limit}
    /\ lastRun \in {"fresh", "returned", "limited", "failed", "onLeftovers"}

\* A library can be imported once loadedBuiltIn says so, which also closes
\* the registration: none registered in time is forgotten.
LibrariesComplete == loadedBuiltIn => lexed = 1 .. registered

\* The tokens of the registered libraries are indices into the string table,
\* which every refresh() sets back to a snapshot: they stay valid, unless a
\* library before the last one was rejected when they were lexed.
TokensIntact == rejected \in {0, registered} => lexed \subseteq strings

\* What run() executes is the program loaded last, and it has no error.
RunsWhatWasLoaded ==
    state = "BYTECODE_READY" /\ bytecode # Garbage =>
        bytecode = mainSource /\ bytecode.text = "correct"

\* compile() never parses on top of an earlier program, however that one
\* ended, as long as the host leaves loadMainSource to it.
SelfContained == ~manual => bytecode # Garbage

\* A limit exceeded by one program does not keep the next one from catching
\* its exceptions.
FreshProgramNotFatal ==
    state = "BYTECODE_READY" /\ bytecode # Garbage /\ lastRun = "fresh" =>
        ~isFatalException

\* The state of the virtual machine tells whether a run left anything in it:
\* whatever a failed run left is gone after the next that returns.
ReadyMeansClean ==
    vmState = "READY" => frames = 0 /\ ~operandsLeft /\ ~handlersLeft

\* After a run the message is there exactly if the program throws, whatever
\* ran before, and however often this program did; a limit that ended an
\* earlier run of the same bytecode is the exception.
MessageMatchesProgram ==
    /\ lastRun = "limited" => exceptionMessage = Limit
    /\ lastRun = "returned" /\ ~isFatalException =>
          exceptionMessage = IF bytecode.does = "throws" THEN bytecode ELSE None

=============================================================================
