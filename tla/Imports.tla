------------------------------- MODULE Imports -------------------------------
(***************************************************************************)
(* How a program is put together from its libraries: the main source and   *)
(* everything it imports are lexed depth first (ACompiler::loadMainSource, *)
(* loadSource, requestImport, loadImport), then the tokens of each library *)
(* are spliced in where the parser meets its @import (loadAnnotations).    *)
(*                                                                         *)
(* A library's text is abstracted to its imports, in order, and one body   *)
(* after them.  What may be wrong with the program is one flaw: a kind and *)
(* the library it is in.  The kinds about an import concern the library's  *)
(* first one.  A build that has ended may be done again, by the same       *)
(* compiler and of the same source: the registered libraries keep what was *)
(* lexed the first time.                                                   *)
(***************************************************************************)
EXTENDS Naturals, Sequences, FiniteSets, SequencesExt

CONSTANTS
    Main,           \* the main source
    Files,          \* the files that may be imported
    BuiltIns,       \* the registered libraries, in order of registration
    MaxImports,     \* bound: imports of one library
    MaxBuilds,      \* bound: builds of the program
    Kinds           \* the flaws the programs of a run may have

BuiltInSet == ToSet(BuiltIns)
Libraries == {Main} \cup Files \cup BuiltInSet

ASSUME ImportsAssumption ==
    /\ Main \notin Files \cup BuiltInSet /\ Files \cap BuiltInSet = {}
    /\ BuiltIns \in Seq(BuiltInSet)
    /\ MaxImports \in Nat /\ MaxBuilds \in Nat
    /\ Kinds \subseteq {"lexical", "syntax", "missing", "otherPath"}

VARIABLES
    imports,        \* the source: what each library imports, in order
    flaw,           \* the source: what is wrong with it, and where
    state,          \* ACompiler::state
    hasError,       \* ParserContext::hasError
    logged,         \* an error was reported to the host
    loading,        \* the calls of loadSource in progress, innermost last
    lexed,          \* the libraries whose lexerContext has tokens
    dependencies,   \* LibraryData::dependencies
    importMap,      \* the libraries the parser has met
    loadingLibs,    \* the libraries being parsed, with what is left of each
    compiled,       \* the library bodies parsed, in order
    builds          \* how often the program was built

sourceVars == <<imports, flaw>>
vars == <<sourceVars, state, hasError, logged, loading, lexed, dependencies,
          importMap, loadingLibs, compiled, builds>>

HasFlaw(kind, lib) == flaw = <<kind, lib>>

(***************************************************************************)
(* requestImport finds a registered library by its name, and a file next   *)
(* to the library that imports it or else next to the main source.  The    *)
(* parser looks for the path as written, or next to the importing library  *)
(* if it begins with a dot: a file named without "./", or found next to    *)
(* the main source, is loaded and not found again ("otherPath").           *)
(***************************************************************************)
FirstImport(lib, rest) == Len(rest) = Len(imports[lib])

Requested(lib, rest) == ~(HasFlaw("missing", lib) /\ FirstImport(lib, rest))

ParserFinds(lib, rest) == ~(HasFlaw("otherPath", lib) /\ FirstImport(lib, rest))

ImportLists(targets) ==
    {s \in BoundedSeq(targets, MaxImports) : IsInjective(s)}

\* What the main source imports, directly or not: the least set of libraries
\* that contains it and whatever its members import.
ImportsStayIn(libs) == \A lib \in libs : ToSet(imports[lib]) \subseteq libs

ReachableFrom(libs) ==
    {lib \in Libraries :
        \A closed \in SUBSET Libraries :
            libs \subseteq closed /\ ImportsStayIn(closed) => lib \in closed}

Reachable == ReachableFrom({Main})

Init ==
    /\ imports \in [Libraries -> ImportLists(Libraries)]
    \* Registered libraries import registered ones, without cycles.
    /\ \A i \in DOMAIN BuiltIns :
          ToSet(imports[BuiltIns[i]]) \subseteq {BuiltIns[j] : j \in 1 .. i - 1}
    /\ \A lib \in Libraries : lib \notin ToSet(imports[lib])
    \* A file that the program does not import is not read: one text stands
    \* for all it may have.
    /\ \A file \in Files \ Reachable : imports[file] = <<>>
    /\ flaw \in {<<"none", Main>>} \cup (Kinds \X (Reachable \cup BuiltInSet))
    /\ flaw[1] \in {"missing", "otherPath"} =>
          imports[flaw[2]] # <<>> /\ Head(imports[flaw[2]]) \in Files
    /\ state = "READY"
    /\ hasError = FALSE
    /\ logged = FALSE
    /\ loading = <<>>
    /\ lexed = {}
    /\ dependencies = [lib \in Libraries |-> {}]
    /\ importMap = {}
    /\ loadingLibs = <<>>
    /\ compiled = <<>>
    /\ builds = 1

Unparsed == UNCHANGED <<hasError, importMap, loadingLibs, compiled, builds>>

(***************************************************************************)
(* Lexing.  A call of loadSource lexes its library and then goes through   *)
(* the imports it found.                                                   *)
(***************************************************************************)
Entered(lib) == Append(loading, [lib |-> lib, rest |-> imports[lib]])

\* lexerData, and the test of lexerContext.hasError: nothing is imported then.
Lex(lib) ==
    /\ lexed' = lexed \cup {lib}
    /\ IF HasFlaw("lexical", lib)
       THEN /\ state' = "ERROR"
            /\ logged' = TRUE
            /\ UNCHANGED loading
       ELSE /\ loading' = Entered(lib)
            /\ UNCHANGED <<state, logged>>

Unloaded == {i \in DOMAIN BuiltIns : BuiltIns[i] \notin lexed}

\* loadBuiltInFunctions goes through the registered libraries, in order;
\* lexerTextToToken throws when the one before was rejected.
Refused == Unloaded # {} /\ loading = <<>> /\ state = "ERROR"

LoadBuiltIn ==
    /\ loading = <<>>
    /\ Unloaded # {} /\ ~Refused
    /\ Lex(BuiltIns[CHOOSE i \in Unloaded : \A j \in Unloaded : i <= j])
    /\ UNCHANGED <<sourceVars, dependencies>> /\ Unparsed

LoadMainSource ==
    /\ loading = <<>>
    /\ Main \notin lexed
    /\ Unloaded = {}
    /\ Lex(Main)
    /\ UNCHANGED <<sourceVars, dependencies>> /\ Unparsed

Importing == Last(loading).lib
Rest == Last(loading).rest
Advanced == Append(Front(loading), [Last(loading) EXCEPT !.rest = Tail(@)])

\* The end of the loop over importOffset, for one import that is loaded.
DependenciesDirectOnly(lib, target) ==
    [dependencies EXCEPT ![lib] = @ \cup {target}]
DependenciesWith(lib, target) ==
    [dependencies EXCEPT ![lib] = @ \cup {target} \cup dependencies[target]]

\* loadImport: a library that has tokens is not loaded again, not even when it
\* is still being loaded.
AlreadyLexed(lib) == lib \in lexed

ImportLoaded ==
    /\ loading # <<>> /\ Rest # <<>>
    /\ Requested(Importing, Rest)
    /\ AlreadyLexed(Head(Rest))
    /\ dependencies' = DependenciesWith(Importing, Head(Rest))
    /\ loading' = Advanced
    /\ UNCHANGED <<sourceVars, state, logged, lexed>> /\ Unparsed

\* The others are: when their loadSource returns they have tokens.
ImportNew ==
    /\ loading # <<>> /\ Rest # <<>>
    /\ Requested(Importing, Rest)
    /\ ~AlreadyLexed(Head(Rest))
    /\ Lex(Head(Rest))
    /\ UNCHANGED <<sourceVars, dependencies>> /\ Unparsed

\* loadImport throws, and the loadSource of the importing library, or
\* loadMainSource, catches it: what it imports after that is not loaded.
ImportMissing ==
    /\ loading # <<>> /\ Rest # <<>>
    /\ ~Requested(Importing, Rest)
    /\ state' = "ERROR"
    /\ logged' = TRUE
    /\ loading' = Front(loading)
    /\ UNCHANGED <<sourceVars, lexed, dependencies>> /\ Unparsed

LibraryLoaded ==
    /\ loading # <<>> /\ Rest = <<>> /\ Importing # Main
    /\ state' = "ANALYZED"
    /\ loading' = Front(loading)
    /\ UNCHANGED <<sourceVars, logged, lexed, dependencies>> /\ Unparsed

(***************************************************************************)
(* Parsing.  loadMainSource ends by handing the main source to the parser. *)
(***************************************************************************)
MainLoaded ==
    /\ loading # <<>> /\ Rest = <<>> /\ Importing = Main
    /\ state' = "ANALYZED"
    /\ loading' = <<>>
    /\ importMap' = {Main}
    /\ loadingLibs' = <<[lib |-> Main, rest |-> imports[Main]]>>
    /\ UNCHANGED <<sourceVars, hasError, logged, lexed, dependencies,
                   compiled, builds>>

Parsing == loadingLibs # <<>>
Mode == Last(loadingLibs).lib
Left == Last(loadingLibs).rest
SkippedNot == loadingLibs
Skipped == Append(Front(loadingLibs), [Last(loadingLibs) EXCEPT !.rest = Tail(@)])

Unloading == UNCHANGED <<sourceVars, loading, lexed, dependencies, builds>>

MustAppendAlways == TRUE
MustAppend == Head(Left) \notin importMap

\* The tokens of the library are put in place of its import.
SplicedAtEnd(lib) == <<[lib |-> lib, rest |-> imports[lib]]>> \o Skipped
Spliced(lib) == Append(Skipped, [lib |-> lib, rest |-> imports[lib]])

IsDependency(lib) == lib \in dependencies[Main]

Known == Requested(Mode, Left) /\ ParserFinds(Mode, Left)

ParseKnownImport ==
    /\ Parsing /\ Left # <<>>
    /\ Known /\ ~MustAppend
    /\ loadingLibs' = Skipped
    /\ UNCHANGED <<hasError, logged, importMap, compiled, state>> /\ Unloading

ParseImport ==
    /\ Parsing /\ Left # <<>>
    /\ Known /\ MustAppend
    /\ IsDependency(Head(Left))
    /\ importMap' = importMap \cup {Head(Left)}
    /\ loadingLibs' = Spliced(Head(Left))
    /\ UNCHANGED <<hasError, logged, compiled, state>> /\ Unloading

\* "is missing dependency": the rest of the line is skipped.
ParseImportMissing ==
    /\ Parsing /\ Left # <<>>
    /\ Known => MustAppend /\ ~IsDependency(Head(Left))
    /\ hasError' = TRUE
    /\ logged' = TRUE
    /\ loadingLibs' = Skipped
    /\ UNCHANGED <<importMap, compiled, state>> /\ Unloading

\* The end of generateBytecodes.
StateAfterParsing(error) == IF error THEN "ERROR" ELSE "BYTECODE_READY"

\* The body and END_IMPORT.  What the lexer left of a line it rejected may
\* or may not parse.
ParseBody ==
    /\ Parsing /\ Left = <<>>
    /\ compiled' = Append(compiled, Mode)
    /\ \/ /\ HasFlaw("syntax", Mode) \/ HasFlaw("lexical", Mode)
          /\ hasError' = TRUE /\ logged' = TRUE
       \/ /\ ~HasFlaw("syntax", Mode)
          /\ UNCHANGED <<hasError, logged>>
    /\ loadingLibs' = Front(loadingLibs)
    /\ state' = IF Len(loadingLibs) > 1 THEN state
                ELSE StateAfterParsing(hasError')
    /\ UNCHANGED importMap /\ Unloading

(***************************************************************************)
(* The end of compile(), and the next one: refresh() drops the libraries   *)
(* that are not registered ones.                                           *)
(***************************************************************************)
Ended == loading = <<>> /\ loadingLibs = <<>> /\ (Main \in lexed \/ Refused)

Recompile ==
    /\ Ended
    /\ builds < MaxBuilds
    /\ builds' = builds + 1
    /\ state' = "READY"
    /\ hasError' = FALSE
    /\ logged' = FALSE
    /\ lexed' = lexed \ ({Main} \cup Files)
    /\ dependencies' = [lib \in Libraries |->
                          IF lib \in BuiltInSet THEN dependencies[lib] ELSE {}]
    /\ importMap' = {}
    /\ compiled' = <<>>
    /\ UNCHANGED <<sourceVars, loading, loadingLibs>>

Finished == Ended /\ builds = MaxBuilds /\ UNCHANGED vars

Load ==
    \/ LoadBuiltIn \/ LoadMainSource
    \/ ImportLoaded \/ ImportNew \/ ImportMissing
    \/ LibraryLoaded \/ MainLoaded

Parse == ParseKnownImport \/ ParseImport \/ ParseImportMissing \/ ParseBody

Next == Load \/ Parse \/ Recompile \/ Finished

Spec == Init /\ [][Next]_vars /\ WF_vars(Load) /\ WF_vars(Parse)

(***************************************************************************)
(* Properties.                                                             *)
(***************************************************************************)
\* Every variable has its type, and the parser has met only libraries that
\* were lexed: it never splices in a library without tokens.
TypeOK ==
    /\ imports \in [Libraries -> Seq(Libraries)]
    /\ state \in {"READY", "ANALYZED", "ERROR", "BYTECODE_READY"}
    /\ hasError \in BOOLEAN /\ logged \in BOOLEAN
    /\ lexed \subseteq Libraries /\ importMap \subseteq lexed
    /\ dependencies \in [Libraries -> SUBSET Libraries]
    /\ compiled \in Seq(Libraries)
    /\ \A calls \in {loading, loadingLibs} :
          \A i \in DOMAIN calls :
              calls[i].lib \in Libraries /\ calls[i].rest \in Seq(Libraries)

\* A program that compiles consists of the main source and everything it
\* imports, each library once however many others import it, and none of it
\* has an error that the parser sees.  The parser finds every library that
\* the loading of the main source went through, although a library that is
\* imported again while it is being loaded hands over the dependencies it has
\* so far.
DependenciesComplete ==
    loadingLibs # <<>> /\ flaw[1] \in {"none", "syntax"} =>
        Reachable \subseteq dependencies[Main] \cup {Main}
CompleteProgram ==
    /\ DependenciesComplete
    /\ state = "BYTECODE_READY" => IsInjective(compiled) /\ ToSet(compiled) = Reachable
    /\ state = "BYTECODE_READY" /\ flaw[1] \in {"syntax", "missing"} => flaw[2] \notin Reachable

\* The body of a library is compiled after everything it imports, except for
\* the libraries that are importing it.
ImportsComeFirst ==
    \A i \in DOMAIN compiled : \A target \in ToSet(imports[compiled[i]]) :
        \/ target \in ToSet(SubSeq(compiled, 1, i - 1))
        \/ hasError
        \/ compiled[i] \in ReachableFrom({target})

\* Every error reported rejects the program.
ErrorsReject == state = "BYTECODE_READY" => ~logged

\* Every build ends, whatever imports what.
BuildEnds == ~Ended ~> Ended

=============================================================================
