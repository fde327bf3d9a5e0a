----------------------------- MODULE ImportsProofs -----------------------------
(***************************************************************************)
(* What Imports.cfg checks for two files and two registered libraries, for *)
(* any number of both, any import graph and any number of builds: cycles,  *)
(* libraries shared by others and every kind of flaw included.             *)
(***************************************************************************)
EXTENDS Imports, BasicLemmas

(***************************************************************************)
(* The source and the types.                                               *)
(***************************************************************************)
Calls == [lib : Libraries, rest : Seq(Libraries)]
LibsOf(calls) == {calls[i].lib : i \in DOMAIN calls}
WithCall(calls, lib, source) == Append(calls, [lib |-> lib, rest |-> source[lib]])
NextImport(calls) == Append(Front(calls), [Last(calls) EXCEPT !.rest = Tail(@)])

SourceInv ==
    /\ imports \in [Libraries -> Seq(Libraries)]
    /\ \A lib \in Libraries : lib \notin ToSet(imports[lib])
    /\ \A i \in DOMAIN BuiltIns :
          ToSet(imports[BuiltIns[i]]) \subseteq {BuiltIns[j] : j \in 1 .. i - 1}
    /\ flaw = <<flaw[1], flaw[2]>>
    /\ flaw[1] = "missing" => imports[flaw[2]] # <<>>

Types ==
    /\ loading \in Seq(Calls) /\ loadingLibs \in Seq(Calls)
    /\ compiled \in Seq(Libraries)
    /\ state \in {"READY", "ANALYZED", "ERROR", "BYTECODE_READY"}
    /\ hasError \in BOOLEAN /\ logged \in BOOLEAN
    /\ lexed \subseteq Libraries
    /\ dependencies \in [Libraries -> SUBSET Libraries]

\* No library is in a stack of calls twice, and what is left of one is of it.
IsStack(calls, source) ==
    /\ \A i, j \in DOMAIN calls : calls[i].lib = calls[j].lib => i = j
    /\ \A i \in DOMAIN calls : ToSet(calls[i].rest) \subseteq ToSet(source[calls[i].lib])

(***************************************************************************)
(* The phases of a build: the registered libraries, one by one; the main   *)
(* source and what it imports; the parser.                                 *)
(***************************************************************************)
NothingParsed ==
    loadingLibs = <<>> /\ compiled = <<>> /\ importMap = {} /\ ~hasError

PhaseInv ==
    /\ loading # <<>> \/ Main \notin lexed => NothingParsed /\ state # "BYTECODE_READY"
    /\ Main \in lexed => Unloaded = {}
    /\ Main \in lexed /\ loading # <<>> => loading[1].lib = Main
    /\ Main \notin lexed => lexed \subseteq BuiltInSet
    /\ Main \notin lexed /\ loading # <<>> =>
          Len(loading) = 1 /\ ToSet(imports[Importing]) \subseteq lexed
    /\ Main \in lexed => LibsOf(loading) \cap BuiltInSet = {}
    /\ state = "BYTECODE_READY" => loadingLibs = <<>> /\ ~hasError /\ Main \in importMap

(***************************************************************************)
(* Lexing.                                                                 *)
(***************************************************************************)
LoadInv ==
    /\ IsStack(loading, imports) /\ LibsOf(loading) \subseteq lexed
    /\ \A i \in 1 .. Len(loading) - 1 :
          loading[i].rest # <<>> /\ Head(loading[i].rest) = loading[i + 1].lib
    /\ \A lib \in Libraries \ lexed : dependencies[lib] = {}
    /\ \A lib \in Libraries : dependencies[lib] \subseteq lexed
    /\ \A lib \in BuiltInSet : dependencies[lib] \subseteq BuiltInSet

\* No library fails to be loaded.
Loads == flaw[1] \in {"none", "syntax"}

\* The libraries in progress and those whose loading ended last, with what
\* they have gathered.
Ahead ==
    LibsOf(loading) \cup
    {lib \in lexed : \E i \in DOMAIN loading :
        loading[i].rest # <<>> /\ lib = Head(loading[i].rest)}
Gathered == Ahead \cup UNION {dependencies[lib] : lib \in Ahead}

\* An import is a dependency or its turn has not come.
ImportsGathered ==
    \A lib \in lexed : \A target \in ToSet(imports[lib]) :
        \/ target \in dependencies[lib]
        \/ \E i \in DOMAIN loading : loading[i].lib = lib /\ target \in ToSet(loading[i].rest)

BuiltInsClosed ==
    \A lib \in BuiltInSet : ImportsStayIn(dependencies[lib])

NothingLost ==
    Main \in lexed /\ loading # <<>> =>
        /\ \A lib \in lexed \ BuiltInSet : {lib} \cup dependencies[lib] \subseteq Gathered
        /\ \A lib \in Gathered \cap BuiltInSet : ToSet(imports[lib]) \subseteq Gathered

GatherInv ==
    Loads => ImportsGathered /\ BuiltInsClosed /\ NothingLost /\ DependenciesComplete

(***************************************************************************)
(* Parsing.                                                                *)
(***************************************************************************)
ParseInv ==
    /\ IsStack(loadingLibs, imports) /\ IsInjective(compiled)
    /\ importMap = ToSet(compiled) \cup LibsOf(loadingLibs)
    /\ ToSet(compiled) \cap LibsOf(loadingLibs) = {}
    /\ importMap \subseteq Reachable /\ importMap \subseteq lexed
    /\ loadingLibs # <<>> => Main \in importMap
    /\ \A i \in 1 .. Len(loadingLibs) - 1 :
          loadingLibs[i + 1].lib \in ToSet(imports[loadingLibs[i].lib])

\* As long as the parser has reported nothing, it has met every import it has
\* passed, and the flaw is still ahead.
ImportsMet ==
    /\ \A lib \in ToSet(compiled) : ToSet(imports[lib]) \subseteq importMap
    /\ \A i \in DOMAIN loadingLibs : \A target \in ToSet(imports[loadingLibs[i].lib]) :
          target \in importMap \cup ToSet(loadingLibs[i].rest)

FlawAhead ==
    /\ flaw[1] \in {"syntax", "missing"} => flaw[2] \notin ToSet(compiled)
    /\ \A i \in DOMAIN loadingLibs :
          HasFlaw("missing", loadingLibs[i].lib) =>
              loadingLibs[i].rest = imports[loadingLibs[i].lib]

MetInv == ~hasError => ImportsMet /\ FlawAhead

ImportsInv ==
    /\ SourceInv /\ Types /\ PhaseInv
    /\ LoadInv /\ GatherInv
    /\ ParseInv /\ MetInv /\ ImportsComeFirst

(***************************************************************************)
(* Sets of imports.                                                        *)
(***************************************************************************)
(* What is reached contains what it starts from and what it imports, and   *)
(* is contained in every set of libraries that does.                       *)
LEMMA Reached ==
    ASSUME SourceInv, NEW libs \in SUBSET Libraries
    PROVE  /\ libs \subseteq ReachableFrom(libs) /\ ReachableFrom(libs) \subseteq Libraries
           /\ ImportsStayIn(ReachableFrom(libs))
           /\ \A closed \in SUBSET Libraries :
                 libs \subseteq closed /\ ImportsStayIn(closed) => ReachableFrom(libs) \subseteq closed
  <1>1. \A lib \in Libraries : ToSet(imports[lib]) \subseteq Libraries
    BY SetOfSequence DEF SourceInv
  <1>2. ImportsStayIn(ReachableFrom(libs))
    <2> SUFFICES ASSUME NEW lib \in ReachableFrom(libs), NEW target \in ToSet(imports[lib])
                 PROVE  target \in ReachableFrom(libs)
      BY DEF ImportsStayIn
    <2>1. lib \in Libraries /\ target \in Libraries
      BY <1>1 DEF ReachableFrom
    <2>2. ASSUME NEW closed \in SUBSET Libraries, libs \subseteq closed, ImportsStayIn(closed)
          PROVE  target \in closed
      <3>1. lib \in closed
        BY <2>2 DEF ReachableFrom
      <3> QED BY <2>2, <3>1 DEF ImportsStayIn
    <2> QED BY <2>1, <2>2 DEF ReachableFrom
  <1> QED BY <1>2 DEF ReachableFrom

(* Registered libraries import registered ones.                            *)
LEMMA BuiltInImports ==
    ASSUME SourceInv, NEW lib \in BuiltInSet
    PROVE  ToSet(imports[lib]) \subseteq BuiltInSet /\ lib \in Libraries /\ lib # Main
  <1>1. PICK i \in DOMAIN BuiltIns : lib = BuiltIns[i]
    BY DEF BuiltInSet, ToSet
  <1>2. ToSet(imports[lib]) \subseteq {BuiltIns[j] : j \in 1 .. i - 1}
    BY <1>1 DEF SourceInv
  <1>3. {BuiltIns[j] : j \in 1 .. i - 1} \subseteq BuiltInSet
    <2>1. DOMAIN BuiltIns = 1 .. Len(BuiltIns) /\ Len(BuiltIns) \in Nat
      BY ImportsAssumption, LenProperties
    <2>2. \A j \in 1 .. i - 1 : j \in DOMAIN BuiltIns
      BY <2>1
    <2> QED BY <2>2 DEF BuiltInSet, ToSet
  <1> QED BY <1>2, <1>3, ImportsAssumption DEF Libraries

(***************************************************************************)
(* The stacks of calls.                                                    *)
(***************************************************************************)
LEMMA TopCall ==
    ASSUME NEW calls \in Seq(Calls), calls # <<>>
    PROVE  /\ Len(calls) \in Nat \ {0} /\ DOMAIN calls = 1 .. Len(calls)
           /\ Len(calls) \in DOMAIN calls
           /\ Last(calls) = calls[Len(calls)] /\ Last(calls) \in Calls
           /\ Last(calls).lib \in LibsOf(calls)
           /\ LibsOf(calls) \subseteq Libraries
  <1>1. /\ Len(calls) \in Nat \ {0} /\ DOMAIN calls = 1 .. Len(calls)
        /\ Last(calls) = calls[Len(calls)] /\ Last(calls) \in Calls
    BY FrontAndLast, LenProperties
  <1>2. \A i \in DOMAIN calls : calls[i].lib \in Libraries
    <2>1. \A i \in DOMAIN calls : calls[i] \in Calls
      BY <1>1, ElementOfSeq
    <2> QED BY <2>1 DEF Calls
  <1>3. LibsOf(calls) \subseteq Libraries
    BY <1>2 DEF LibsOf
  <1>4. Len(calls) \in DOMAIN calls
    BY <1>1
  <1>5. Last(calls).lib \in LibsOf(calls)
    BY <1>1, <1>4 DEF LibsOf
  <1> QED BY <1>1, <1>3, <1>4, <1>5

(* The call at hand goes on to its next import.                            *)
LEMMA StackAdvances ==
    ASSUME NEW calls \in Seq(Calls), calls # <<>>, Last(calls).rest # <<>>,
           NEW next, next = NextImport(calls)
    PROVE  /\ next \in Seq(Calls) /\ Len(next) = Len(calls) /\ DOMAIN next = DOMAIN calls
           /\ next # <<>>
           /\ \A i \in DOMAIN calls : next[i].lib = calls[i].lib
           /\ \A i \in 1 .. Len(calls) - 1 : next[i] = calls[i]
           /\ next[Len(calls)].rest = Tail(calls[Len(calls)].rest)
           /\ Head(calls[Len(calls)].rest) \in Libraries
           /\ ToSet(calls[Len(calls)].rest)
                 = {Head(calls[Len(calls)].rest)} \cup ToSet(next[Len(calls)].rest)
           /\ LibsOf(next) = LibsOf(calls)
           /\ IsStack(calls, imports) => IsStack(next, imports)
  <1> DEFINE n == Len(calls)
             top == [Last(calls) EXCEPT !.rest = Tail(@)]
  <1>1. /\ n \in Nat \ {0} /\ DOMAIN calls = 1 .. n /\ n \in DOMAIN calls
        /\ Last(calls) = calls[n] /\ calls[n] \in Calls
    BY TopCall
  <1>2. /\ Front(calls) \in Seq(Calls) /\ Len(Front(calls)) = n - 1
        /\ \A i \in 1 .. n - 1 : Front(calls)[i] = calls[i]
    BY FrontAndLast
  <1>3. /\ Tail(calls[n].rest) \in Seq(Libraries) /\ Head(calls[n].rest) \in Libraries
        /\ ToSet(calls[n].rest) = {Head(calls[n].rest)} \cup ToSet(Tail(calls[n].rest))
    BY <1>1, SetOfHeadTail DEF Calls
  <1>4. top \in Calls /\ top.lib = calls[n].lib /\ top.rest = Tail(calls[n].rest)
    BY <1>1, <1>3 DEF Calls
  <1> HIDE DEF top
  <1>5. /\ next \in Seq(Calls) /\ Len(next) = n - 1 + 1 /\ next[n - 1 + 1] = top
        /\ \A i \in 1 .. n - 1 : next[i] = calls[i]
    <2>1. next = Append(Front(calls), top)
      BY DEF top, NextImport
    <2> QED BY <1>2, <1>4, <2>1, AppendProperties
  <1> HIDE DEF n
  <1>6. Len(next) = n /\ next[n] = top /\ DOMAIN next = 1 .. n /\ next # <<>>
    <2>1. n - 1 + 1 = n
      BY <1>1
    <2>2. Len(next) = n /\ next[n] = top
      BY <1>5, <2>1
    <2>3. DOMAIN next = 1 .. n
      BY <1>5, <2>2, LenProperties
    <2> QED BY <1>1, <1>5, <2>2, <2>3, EmptySeq
  <1>7. /\ \A i \in 1 .. n : i = n \/ i \in 1 .. n - 1
        /\ \A i \in 1 .. n - 1 : i \in 1 .. n
    BY <1>1
  <1>8. \A i \in DOMAIN calls : next[i].lib = calls[i].lib
    BY <1>1, <1>4, <1>5, <1>6, <1>7
  <1>9. LibsOf(next) = LibsOf(calls)
    BY <1>1, <1>6, <1>8 DEF LibsOf
  <1>10. IsStack(calls, imports) => IsStack(next, imports)
    <2> SUFFICES ASSUME IsStack(calls, imports) PROVE IsStack(next, imports)
      OBVIOUS
    <2>1. \A i, j \in DOMAIN next : next[i].lib = next[j].lib => i = j
      BY <1>1, <1>6, <1>8 DEF IsStack
    <2>2. \A i \in DOMAIN calls : ToSet(calls[i].rest) \subseteq ToSet(imports[calls[i].lib])
      BY DEF IsStack
    <2>3. ToSet(next[n].rest) \subseteq ToSet(imports[next[n].lib])
      BY <1>1, <1>3, <1>4, <1>6, <2>2
    <2>4. \A i \in 1 .. n - 1 : ToSet(next[i].rest) \subseteq ToSet(imports[next[i].lib])
      BY <1>1, <1>5, <1>7, <2>2
    <2>5. \A i \in DOMAIN next : ToSet(next[i].rest) \subseteq ToSet(imports[next[i].lib])
      BY <1>6, <1>7, <2>3, <2>4
    <2> QED BY <2>1, <2>5 DEF IsStack
  <1> QED BY <1>1, <1>3, <1>4, <1>5, <1>6, <1>8, <1>9, <1>10 DEF n

(* A new call starts with all its imports ahead.                           *)
LEMMA StackGrows ==
    ASSUME SourceInv, NEW calls \in Seq(Calls), NEW lib \in Libraries \ LibsOf(calls),
           NEW next, next = WithCall(calls, lib, imports)
    PROVE  /\ next \in Seq(Calls) /\ Len(next) = Len(calls) + 1 /\ next # <<>>
           /\ Len(calls) \in Nat
           /\ DOMAIN calls = 1 .. Len(calls) /\ DOMAIN next = 1 .. Len(calls) + 1
           /\ \A i \in DOMAIN calls : next[i] = calls[i]
           /\ next[Len(calls) + 1] = [lib |-> lib, rest |-> imports[lib]]
           /\ LibsOf(next) = LibsOf(calls) \cup {lib}
           /\ IsStack(calls, imports) => IsStack(next, imports)
  <1> DEFINE n == Len(calls)
             top == [lib |-> lib, rest |-> imports[lib]]
  <1>1. top \in Calls /\ top.lib = lib /\ top.rest = imports[lib]
    BY DEF SourceInv, Calls
  <1>2. n \in Nat /\ DOMAIN calls = 1 .. n
    BY LenProperties
  <1> HIDE DEF top
  <1>3. /\ next \in Seq(Calls) /\ Len(next) = n + 1 /\ next[n + 1] = top
        /\ \A i \in 1 .. n : next[i] = calls[i]
    <2>1. next = Append(calls, top)
      BY DEF top, WithCall
    <2> QED BY <1>1, <2>1, AppendProperties
  <1>4. DOMAIN next = 1 .. n + 1 /\ next # <<>>
    BY <1>2, <1>3, LenProperties, EmptySeq
  <1> HIDE DEF n
  <1>5. \A i \in 1 .. n + 1 : i = n + 1 \/ i \in 1 .. n
    BY <1>2
  <1>6. LibsOf(next) = LibsOf(calls) \cup {lib}
    <2>1. n + 1 \in 1 .. n + 1 /\ \A i \in 1 .. n : i \in 1 .. n + 1
      BY <1>2
    <2> QED BY <1>1, <1>2, <1>3, <1>4, <1>5, <2>1 DEF LibsOf
  <1>7. IsStack(calls, imports) => IsStack(next, imports)
    <2>1. \A i \in DOMAIN calls : calls[i].lib # lib
      BY DEF LibsOf
    <2>2. ToSet(top.rest) \subseteq ToSet(imports[lib])
      BY <1>1 
    <2> SUFFICES ASSUME IsStack(calls, imports) PROVE IsStack(next, imports)
      OBVIOUS
    <2>3. \A i, j \in 1 .. n : calls[i].lib = calls[j].lib => i = j
      BY <1>2 DEF IsStack
    <2>4. \A i \in 1 .. n : next[i].lib # next[n + 1].lib
      BY <1>1, <1>2, <1>3, <2>1
    <2>5. \A i, j \in 1 .. n + 1 : next[i].lib = next[j].lib => i = j
      BY <1>3, <1>5, <2>3, <2>4
    <2>6. \A i \in 1 .. n : ToSet(calls[i].rest) \subseteq ToSet(imports[calls[i].lib])
      BY <1>2 DEF IsStack
    <2>7. \A i \in 1 .. n + 1 : ToSet(next[i].rest) \subseteq ToSet(imports[next[i].lib])
      BY <1>1, <1>3, <1>5, <2>2, <2>6
    <2> QED BY <1>4, <2>5, <2>7 DEF IsStack
  <1> QED BY <1>2, <1>3, <1>4, <1>6, <1>7 DEF n, top

(* The call at hand returns.                                               *)
LEMMA StackShrinks ==
    ASSUME NEW calls \in Seq(Calls), calls # <<>>, NEW next, next = Front(calls)
    PROVE  /\ next \in Seq(Calls) /\ Len(next) = Len(calls) - 1
           /\ DOMAIN next = 1 .. Len(calls) - 1 /\ DOMAIN calls = 1 .. Len(calls)
           /\ Len(calls) \in Nat \ {0}
           /\ \A i \in 1 .. Len(calls) - 1 : next[i] = calls[i]
           /\ LibsOf(calls) = LibsOf(next) \cup {Last(calls).lib}
           /\ IsStack(calls, imports) => IsStack(next, imports) /\ Last(calls).lib \notin LibsOf(next)
  <1> DEFINE n == Len(calls)
  <1>1. /\ n \in Nat \ {0} /\ DOMAIN calls = 1 .. n /\ Last(calls) = calls[n]
        /\ next \in Seq(Calls) /\ Len(next) = n - 1
        /\ \A i \in 1 .. n - 1 : next[i] = calls[i]
    BY TopCall, FrontAndLast
  <1>2. DOMAIN next = 1 .. n - 1
    BY <1>1, LenProperties
  <1> HIDE DEF n
  <1>3. /\ \A i \in 1 .. n : i = n \/ i \in 1 .. n - 1
        /\ \A i \in 1 .. n - 1 : i \in 1 .. n /\ i # n
        /\ n \in 1 .. n
    BY <1>1
  <1>4. LibsOf(calls) = LibsOf(next) \cup {Last(calls).lib}
    BY <1>1, <1>2, <1>3 DEF LibsOf
  <1>5. IsStack(calls, imports) => IsStack(next, imports) /\ Last(calls).lib \notin LibsOf(next)
    <2> SUFFICES ASSUME IsStack(calls, imports) PROVE IsStack(next, imports) /\ Last(calls).lib \notin LibsOf(next)
      OBVIOUS
    <2>1. /\ \A i, j \in 1 .. n : calls[i].lib = calls[j].lib => i = j
          /\ \A i \in 1 .. n : ToSet(calls[i].rest) \subseteq ToSet(imports[calls[i].lib])
      BY <1>1 DEF IsStack
    <2>2. IsStack(next, imports)
      <3>1. \A i, j \in DOMAIN next : next[i].lib = next[j].lib => i = j
        BY <1>1, <1>2, <1>3, <2>1
      <3>2. \A i \in DOMAIN next : ToSet(next[i].rest) \subseteq ToSet(imports[next[i].lib])
        BY <1>1, <1>2, <1>3, <2>1
      <3> QED BY <3>1, <3>2 DEF IsStack
    <2>3. \A i \in 1 .. n - 1 : next[i].lib # calls[n].lib
      BY <1>1, <1>3, <2>1
    <2> QED BY <1>1, <1>2, <2>2, <2>3 DEF LibsOf
  <1> QED BY <1>1, <1>2, <1>4, <1>5 DEF n

(***************************************************************************)
(* What a step leaves alone.                                               *)
(***************************************************************************)
(* The source never changes.                                               *)
LEMMA SourceKept ==
    ASSUME SourceInv, UNCHANGED sourceVars
    PROVE  /\ SourceInv' /\ Reachable' = Reachable
             /\ imports' = imports /\ flaw' = flaw /\ Loads' = Loads
  BY DEF sourceVars, SourceInv, Reachable, ReachableFrom, ImportsStayIn, Loads

(* Before the parser starts there is nothing to say of what it has done.   *)
LEMMA NotParsing ==
    ASSUME NothingParsed', state' # "BYTECODE_READY"
    PROVE  ParseInv' /\ MetInv' /\ ImportsComeFirst' /\ DependenciesComplete'
  <1>1. /\ loadingLibs' = <<>> /\ compiled' = <<>> /\ importMap' = {}
    BY DEF NothingParsed
  <1>2. /\ DOMAIN loadingLibs' = {} /\ DOMAIN compiled' = {} /\ Len(loadingLibs') = 0
        /\ \A i \in 1 .. Len(loadingLibs') - 1 : FALSE
    BY <1>1
  <1>3. ToSet(compiled') = {} /\ LibsOf(loadingLibs') = {}
    BY <1>2 DEF ToSet, LibsOf
  <1>4. IsStack(loadingLibs, imports)' /\ IsInjective(compiled')
    BY <1>2 DEF IsStack, IsInjective
  <1>5. ParseInv'
    BY <1>1, <1>2, <1>3, <1>4 DEF ParseInv, LibsOf
  <1>6. MetInv'
    BY <1>2, <1>3 DEF MetInv, ImportsMet, FlawAhead
  <1> QED BY <1>1, <1>2, <1>5, <1>6 DEF ImportsComeFirst, DependenciesComplete

(* While the parser runs, what was loaded stays as it is.                  *)
LEMMA ParsingKeepsLoaded ==
    ASSUME ImportsInv, Parsing, Unloading
    PROVE  /\ SourceInv' /\ LoadInv' /\ GatherInv' /\ Main \in lexed /\ loading = <<>>
           /\ loading' = <<>> /\ lexed' = lexed /\ Reachable' = Reachable
           /\ imports' = imports /\ flaw' = flaw
  <1>1. SourceInv /\ UNCHANGED <<sourceVars, loading, lexed, dependencies>>
    BY DEF ImportsInv, Unloading
  <1>2. /\ SourceInv' /\ Reachable' = Reachable /\ imports' = imports /\ flaw' = flaw
        /\ Loads' = Loads
    BY <1>1, SourceKept
  <1>3. Main \in lexed /\ loading = <<>>
    BY DEF ImportsInv, PhaseInv, NothingParsed, Parsing
  <1>4. LoadInv'
    BY <1>1, <1>2 DEF ImportsInv, LoadInv, IsStack, LibsOf
  <1>5. ImportsGathered' = ImportsGathered /\ BuiltInsClosed' = BuiltInsClosed
    BY <1>1, <1>2 DEF ImportsGathered, BuiltInsClosed, ImportsStayIn
  <1>6. NothingLost'
    BY <1>1, <1>3 DEF NothingLost
  <1>7. Loads => DependenciesComplete'
    <2>1. Loads => Reachable \subseteq dependencies[Main] \cup {Main}
      BY DEF ImportsInv, GatherInv, DependenciesComplete, Loads, Parsing
    <2> QED BY <1>1, <1>2, <2>1 DEF DependenciesComplete
  <1>8. GatherInv'
    BY <1>2, <1>5, <1>6, <1>7 DEF GatherInv, ImportsInv
  <1> QED BY <1>1, <1>2, <1>3, <1>4, <1>8

(***************************************************************************)
(* Lexing a library.                                                       *)
(***************************************************************************)
LEMMA LexKeeps ==
    ASSUME ImportsInv, NothingParsed, state # "BYTECODE_READY",
           NEW lib \in Libraries \ lexed, Lex(lib),
           UNCHANGED <<sourceVars, dependencies>>, Unparsed,
           loading # <<>> => Rest # <<>> /\ Head(Rest) = lib
    PROVE  /\ SourceInv' /\ Types' /\ LoadInv' /\ ParseInv' /\ MetInv' /\ ImportsComeFirst'
           /\ NothingParsed' /\ state' # "BYTECODE_READY" /\ DependenciesComplete'
  <1>1. /\ SourceInv /\ Types /\ LoadInv
        /\ loading \in Seq(Calls) /\ IsStack(loading, imports) /\ LibsOf(loading) \subseteq lexed
    BY DEF ImportsInv, Types, LoadInv
  <1>2. /\ SourceInv' /\ imports' = imports /\ flaw' = flaw
    BY <1>1, SourceKept
  <1>3. NothingParsed' /\ state' # "BYTECODE_READY"
    BY DEF NothingParsed, Unparsed, Lex
  <1>4. ParseInv' /\ MetInv' /\ ImportsComeFirst' /\ DependenciesComplete'
    BY <1>3, NotParsing
  <1>5. lexed' = lexed \cup {lib} /\ dependencies' = dependencies
    BY DEF Lex
  <1>6. /\ \A l \in Libraries \ lexed' : dependencies'[l] = {}
        /\ \A l \in Libraries : dependencies'[l] \subseteq lexed'
        /\ \A l \in BuiltInSet : dependencies'[l] \subseteq BuiltInSet
    BY <1>1, <1>5 DEF LoadInv
  <1>7. CASE HasFlaw("lexical", lib)
    <2>1. loading' = loading
      BY <1>7 DEF Lex
    <2>2. Types'
      BY <1>1, <1>5, <1>7, <2>1 DEF Types, Lex, Unparsed
    <2>3. LoadInv'
      BY <1>1, <1>2, <1>5, <1>6, <2>1 DEF LoadInv, IsStack, LibsOf
    <2> QED BY <1>2, <1>3, <1>4, <2>2, <2>3
  <1>8. CASE ~HasFlaw("lexical", lib)
    <2>1. loading' = Append(loading, [lib |-> lib, rest |-> imports[lib]]) /\ UNCHANGED <<state, logged>>
      BY <1>8 DEF Lex, Entered
    <2>0. PICK next : next = loading'
      OBVIOUS
    <2> DEFINE n == Len(loading)
    <2>2. /\ next \in Seq(Calls) /\ Len(next) = n + 1 /\ n \in Nat
          /\ DOMAIN loading = 1 .. n /\ \A i \in 1 .. n : next[i] = loading[i]
          /\ next[n + 1].lib = lib
          /\ LibsOf(next) = LibsOf(loading) \cup {lib} /\ IsStack(next, imports)
      <3>1. lib \in Libraries \ LibsOf(loading)
        BY <1>1
      <3>2. next = WithCall(loading, lib, imports)
        BY <2>0, <2>1 DEF WithCall
      <3>3. /\ next \in Seq(Calls) /\ Len(next) = Len(loading) + 1 /\ Len(loading) \in Nat
            /\ DOMAIN loading = 1 .. Len(loading) /\ \A i \in DOMAIN loading : next[i] = loading[i]
            /\ next[Len(loading) + 1] = [lib |-> lib, rest |-> imports[lib]]
            /\ LibsOf(next) = LibsOf(loading) \cup {lib} 
            /\ IsStack(loading, imports) => IsStack(next, imports)
        BY <1>1, <3>1, <3>2, StackGrows
      <3> QED BY <1>1, <3>3
    <2>3. Types'
      BY <1>1, <1>5, <2>0, <2>1, <2>2 DEF Types, Unparsed
    <2>4. IsStack(loading, imports)' /\ LibsOf(loading)' \subseteq lexed'
      <3>1. LibsOf(loading)' = LibsOf(next)
        BY <2>0 DEF LibsOf
      <3>2. IsStack(loading, imports)'
        BY <1>2, <2>0, <2>2 DEF IsStack
      <3> QED BY <1>1, <1>5, <2>2, <3>1, <3>2
    <2>5. ASSUME NEW i \in 1 .. Len(loading') - 1
          PROVE  loading'[i].rest # <<>> /\ Head(loading'[i].rest) = loading'[i + 1].lib
      <3>1. i \in 1 .. n /\ (i = n \/ (i \in 1 .. n - 1 /\ i + 1 \in 1 .. n)) /\ (i = n => n # 0)
        <4>1. Len(loading') = n + 1
          BY <2>0, <2>2
        <4> HIDE DEF n
        <4> QED BY <2>2, <4>1
      <3>2. CASE i = n
        <4>1. loading # <<>> /\ Last(loading) = loading[n]
          <5>1. loading # <<>>
            BY <3>1, <3>2 DEF n
          <5> QED BY <5>1 DEF Last
        <4> QED BY <2>0, <2>2, <3>1, <3>2, <4>1 DEF Rest
      <3>3. CASE i \in 1 .. n - 1 /\ i + 1 \in 1 .. n
        BY <1>1, <2>0, <2>2, <3>1, <3>3 DEF LoadInv
      <3> QED BY <3>1, <3>2, <3>3
    <2>6. LoadInv'
      BY <1>6, <2>4, <2>5 DEF LoadInv
    <2> QED BY <1>2, <1>3, <1>4, <2>3, <2>6
  <1> QED BY <1>7, <1>8

(***************************************************************************)
(* What the libraries that are loaded have gathered.                       *)
(***************************************************************************)
(* What a registered library knows, once it is loaded, contains all its    *)
(* imports.                                                                *)
LEMMA BuiltInKnown ==
    ASSUME ImportsInv, Loads, NEW lib \in BuiltInSet, lib \in lexed, lib \notin LibsOf(loading),
           NEW member \in {lib} \cup dependencies[lib]
    PROVE  ToSet(imports[member]) \subseteq dependencies[lib]
  <1>1. ImportsGathered /\ BuiltInsClosed
    BY DEF ImportsInv, GatherInv
  <1>2. CASE member = lib
    <2> SUFFICES ASSUME NEW target \in ToSet(imports[lib]) PROVE target \in dependencies[lib]
      BY <1>2
    <2>1. \A i \in DOMAIN loading : loading[i].lib # lib
      BY DEF LibsOf
    <2> QED BY <1>1, <2>1 DEF ImportsGathered
  <1>3. CASE member \in dependencies[lib]
    BY <1>1, <1>3 DEF BuiltInsClosed, ImportsStayIn
  <1> QED BY <1>2, <1>3

(* The same while the main source is loaded, of every library that the     *)
(* calls in progress may meet again.                                       *)
LEMMA KnownBuiltIn ==
    ASSUME ImportsInv, Loads, Main \in lexed, loading # <<>>, NEW lib \in lexed,
           NEW member \in {lib} \cup dependencies[lib], member \in BuiltInSet
    PROVE  ToSet(imports[member]) \subseteq Gathered \cup dependencies[lib]
  <1>1. NothingLost
    BY DEF ImportsInv, GatherInv
  <1>2. CASE lib \in BuiltInSet
    <2>1. lib \notin LibsOf(loading)
      BY <1>2 DEF ImportsInv, PhaseInv
    <2> QED BY <1>2, <2>1, BuiltInKnown
  <1>3. CASE lib \notin BuiltInSet
    <2>1. member \in Gathered
      BY <1>1, <1>3 DEF NothingLost
    <2> QED BY <1>1, <2>1 DEF NothingLost
  <1> QED BY <1>2, <1>3

(***************************************************************************)
(* The steps of the lexer.                                                 *)
(***************************************************************************)
(* Where the calls in progress are after a library was lexed.              *)
LEMMA LexedLast ==
    ASSUME ImportsInv, NEW lib \in Libraries \ lexed, Lex(lib), UNCHANGED sourceVars
    PROVE  /\ HasFlaw("lexical", lib) => loading' = loading
           /\ HasFlaw("lexical", lib) => ~Loads
           /\ ~HasFlaw("lexical", lib) =>
                 \E n \in Nat :
                     /\ Len(loading) = n /\ DOMAIN loading = 1 .. n
                     /\ Len(loading') = n + 1 /\ DOMAIN loading' = 1 .. n + 1
                     /\ \A i \in 1 .. n : loading'[i] = loading[i]
                     /\ loading'[n + 1] = [lib |-> lib, rest |-> imports[lib]]
                     /\ LibsOf(loading') = LibsOf(loading) \cup {lib}
  <1>1. /\ SourceInv /\ loading \in Seq(Calls) /\ LibsOf(loading) \subseteq lexed
    BY DEF ImportsInv, Types, LoadInv
  <1>2. HasFlaw("lexical", lib) => loading' = loading
    BY DEF Lex
  <1>3. HasFlaw("lexical", lib) => ~Loads
    BY DEF HasFlaw, Loads
  <1>4. ASSUME ~HasFlaw("lexical", lib)
        PROVE  \E n \in Nat :
                   /\ Len(loading) = n /\ DOMAIN loading = 1 .. n
                   /\ Len(loading') = n + 1 /\ DOMAIN loading' = 1 .. n + 1
                   /\ \A i \in 1 .. n : loading'[i] = loading[i]
                   /\ loading'[n + 1] = [lib |-> lib, rest |-> imports[lib]]
                   /\ LibsOf(loading') = LibsOf(loading) \cup {lib}
    <2>1. PICK next : next = loading'
      OBVIOUS
    <2>2. next = WithCall(loading, lib, imports)
      BY <1>4, <2>1 DEF WithCall, Lex, Entered
    <2>3. lib \in Libraries \ LibsOf(loading)
      BY <1>1
    <2>4. /\ Len(next) = Len(loading) + 1 /\ Len(loading) \in Nat
          /\ DOMAIN loading = 1 .. Len(loading) /\ DOMAIN next = 1 .. Len(loading) + 1
          /\ \A i \in DOMAIN loading : next[i] = loading[i]
          /\ next[Len(loading) + 1] = [lib |-> lib, rest |-> imports[lib]]
          /\ LibsOf(next) = LibsOf(loading) \cup {lib}
      BY <1>1, <2>2, <2>3, StackGrows
    <2> QED BY <2>1, <2>4
  <1> QED BY <1>2, <1>3, <1>4

(* An import that was not gathered before has its turn ahead after a       *)
(* library was lexed, and the registered ones stay complete.               *)
LEMMA LexedGathered ==
    ASSUME ImportsInv, NEW lib \in Libraries \ lexed, Lex(lib),
           UNCHANGED <<sourceVars, dependencies>>, Loads
    PROVE  ImportsGathered' /\ BuiltInsClosed'
  <1>1. SourceInv /\ ImportsGathered /\ BuiltInsClosed
    BY DEF ImportsInv, GatherInv
  <1>2. imports' = imports /\ dependencies' = dependencies /\ lexed' = lexed \cup {lib}
    BY <1>1, SourceKept DEF Lex
  <1>3. BuiltInsClosed'
    BY <1>1, <1>2 DEF BuiltInsClosed, ImportsStayIn
  <1>4. PICK n \in Nat :
            /\ Len(loading) = n /\ DOMAIN loading = 1 .. n
            /\ Len(loading') = n + 1 /\ DOMAIN loading' = 1 .. n + 1
            /\ \A i \in 1 .. n : loading'[i] = loading[i]
            /\ loading'[n + 1] = [lib |-> lib, rest |-> imports[lib]]
    BY LexedLast
  <1>5. n + 1 \in 1 .. n + 1 /\ \A i \in 1 .. n : i \in 1 .. n + 1
    OBVIOUS
  <1>6. ASSUME NEW l \in lexed', NEW target \in ToSet(imports[l])
        PROVE  \/ target \in dependencies[l]
               \/ \E i \in DOMAIN loading' :
                     loading'[i].lib = l /\ target \in ToSet(loading'[i].rest)
    <2>1. CASE l = lib
      <3>1. loading'[n + 1].lib = l /\ target \in ToSet(loading'[n + 1].rest)
        BY <1>4, <2>1
      <3> QED BY <1>4, <1>5, <3>1
    <2>2. CASE l \in lexed
      <3>1. CASE target \in dependencies[l]
        BY <3>1
      <3>2. CASE target \notin dependencies[l]
        <4>1. PICK i \in DOMAIN loading : loading[i].lib = l /\ target \in ToSet(loading[i].rest)
          BY <1>1, <2>2, <3>2 DEF ImportsGathered
        <4> QED BY <1>4, <1>5, <4>1
      <3> QED BY <3>1, <3>2
    <2> QED BY <1>2, <2>1, <2>2
  <1>7. ImportsGathered'
    BY <1>2, <1>6 DEF ImportsGathered
  <1> QED BY <1>3, <1>7

(* The next registered library is lexed.                                   *)
LEMMA LoadBuiltInKeeps ==
    ASSUME ImportsInv, LoadBuiltIn
    PROVE  ImportsInv'
  <1> DEFINE k == CHOOSE i \in Unloaded : \A j \in Unloaded : i <= j
             lib == BuiltIns[k]
  <1>1. SourceInv /\ PhaseInv
    BY DEF ImportsInv
  <1>2. Main \notin lexed /\ NothingParsed /\ state # "BYTECODE_READY" /\ lexed \subseteq BuiltInSet
    BY <1>1 DEF PhaseInv, LoadBuiltIn
  <1>3. loading = <<>> /\ Lex(lib) /\ UNCHANGED <<sourceVars, dependencies>> /\ Unparsed
    BY DEF LoadBuiltIn
  <1>4. k \in Unloaded /\ \A j \in Unloaded : k <= j
    <2>1. Unloaded \in SUBSET Nat /\ Unloaded # {}
      <3>1. DOMAIN BuiltIns \subseteq Nat
        BY ImportsAssumption, LenProperties
      <3> QED BY <3>1 DEF Unloaded, LoadBuiltIn
    <2>2. \E n \in Unloaded : \A m \in Unloaded : n <= m
      BY <2>1, LeastNatural
    <2> QED BY <2>2
  <1> HIDE DEF k
  <1>5. k \in DOMAIN BuiltIns /\ lib \in BuiltInSet /\ lib \notin lexed
    BY <1>4 DEF Unloaded, BuiltInSet, ToSet
  <1>6. lib \in Libraries \ lexed /\ lib # Main
    BY <1>5, ImportsAssumption DEF Libraries
  <1>7. ToSet(imports[lib]) \subseteq lexed
    <2>1. ToSet(imports[lib]) \subseteq {BuiltIns[j] : j \in 1 .. k - 1}
      BY <1>1, <1>5 DEF SourceInv
    <2>2. \A j \in 1 .. k - 1 : BuiltIns[j] \in lexed
      <3>1. DOMAIN BuiltIns = 1 .. Len(BuiltIns) /\ Len(BuiltIns) \in Nat
        BY ImportsAssumption, LenProperties
      <3>2. \A j \in 1 .. k - 1 : j \in DOMAIN BuiltIns /\ ~(k <= j)
        BY <1>5, <3>1
      <3>3. \A j \in 1 .. k - 1 : j \notin Unloaded
        BY <1>4, <3>2
      <3> QED BY <3>2, <3>3 DEF Unloaded
    <2> QED BY <2>1, <2>2
  <1> HIDE DEF lib
  <1>8. /\ SourceInv' /\ Types' /\ LoadInv' /\ ParseInv' /\ MetInv' /\ ImportsComeFirst'
        /\ NothingParsed' /\ state' # "BYTECODE_READY" /\ DependenciesComplete'
    BY <1>2, <1>3, <1>6, LexKeeps
  <1>9. lexed' = lexed \cup {lib} /\ Main \notin lexed' /\ imports' = imports
    BY <1>2, <1>3, <1>6 DEF Lex, sourceVars
  <1>10. loading' # <<>> => Len(loading') = 1 /\ Importing' = lib
    <2>1. loading' = loading \/ loading' = Append(loading, [lib |-> lib, rest |-> imports[lib]])
      BY <1>3 DEF Lex, Entered
    <2>2. CASE loading' = loading
      BY <1>3, <2>2
    <2>3. CASE loading' = Append(loading, [lib |-> lib, rest |-> imports[lib]])
      <3>1. loading' = <<[lib |-> lib, rest |-> imports[lib]]>>
        BY <1>3, <2>3
      <3>2. Len(loading') = 1 /\ loading'[1] = [lib |-> lib, rest |-> imports[lib]]
        BY <3>1
      <3>3. Importing' = loading'[1].lib
        BY <3>2 DEF Importing, Last
      <3> QED BY <3>2, <3>3
    <2> QED BY <2>1, <2>2, <2>3
  <1>11. PhaseInv'
    <2>1. loading' # <<>> => ToSet(imports'[Importing']) \subseteq lexed'
      BY <1>7, <1>9, <1>10
    <2>2. lexed' \subseteq BuiltInSet
      BY <1>2, <1>5, <1>9
    <2> QED BY <1>8, <1>9, <1>10, <2>1, <2>2 DEF PhaseInv
  <1>12. GatherInv'
    <2>1. Loads' => ImportsGathered' /\ BuiltInsClosed'
      <3>1. Loads' = Loads
        BY <1>1, <1>3, SourceKept
      <3> QED BY <1>3, <1>6, <3>1, LexedGathered
    <2>2. NothingLost'
      BY <1>9 DEF NothingLost
    <2> QED BY <1>8, <2>1, <2>2 DEF GatherInv
  <1> QED BY <1>8, <1>11, <1>12 DEF ImportsInv

(* The main source is lexed.                                               *)
LEMMA LoadMainSourceKeeps ==
    ASSUME ImportsInv, LoadMainSource
    PROVE  ImportsInv'
  <1>1. SourceInv /\ PhaseInv /\ LoadInv
    BY DEF ImportsInv
  <1>2. /\ Main \notin lexed /\ NothingParsed /\ state # "BYTECODE_READY" /\ lexed \subseteq BuiltInSet
        /\ loading = <<>> /\ Unloaded = {}
    BY <1>1 DEF PhaseInv, LoadMainSource
  <1>3. Lex(Main) /\ UNCHANGED <<sourceVars, dependencies>> /\ Unparsed
    BY DEF LoadMainSource
  <1>4. Main \in Libraries \ lexed /\ Main \notin BuiltInSet
    BY <1>2, ImportsAssumption DEF Libraries
  <1>5. /\ SourceInv' /\ Types' /\ LoadInv' /\ ParseInv' /\ MetInv' /\ ImportsComeFirst'
        /\ NothingParsed' /\ state' # "BYTECODE_READY" /\ DependenciesComplete'
    BY <1>2, <1>3, <1>4, LexKeeps
  <1>6. lexed' = lexed \cup {Main} /\ imports' = imports /\ dependencies' = dependencies
    BY <1>3 DEF Lex, sourceVars
  <1>7. Loads' = Loads
    BY <1>1, <1>3, SourceKept
  <1>8. /\ HasFlaw("lexical", Main) => loading' = <<>> /\ ~Loads
        /\ ~HasFlaw("lexical", Main) => /\ DOMAIN loading' = {1}
                                        /\ loading'[1] = [lib |-> Main, rest |-> imports[Main]]
                                        /\ LibsOf(loading') = {Main}
    <2>1. HasFlaw("lexical", Main) => loading' = <<>> /\ ~Loads
      BY <1>2, <1>3, <1>4, LexedLast
    <2>2. ASSUME ~HasFlaw("lexical", Main)
          PROVE  /\ DOMAIN loading' = {1}
                 /\ loading'[1] = [lib |-> Main, rest |-> imports[Main]]
                 /\ LibsOf(loading') = {Main}
      <3>1. loading' = <<[lib |-> Main, rest |-> imports[Main]]>>
        BY <1>2, <1>3, <2>2 DEF Lex, Entered
      <3>2. DOMAIN loading' = {1} /\ loading'[1] = [lib |-> Main, rest |-> imports[Main]]
        BY <3>1
      <3> QED BY <3>2 DEF LibsOf
    <2> QED BY <2>1, <2>2
  <1>9. PhaseInv'
    <2>1. Unloaded' = {}
      BY <1>2, <1>6 DEF Unloaded
    <2>2. loading' # <<>> => loading'[1].lib = Main
      BY <1>8
    <2>3. LibsOf(loading') \cap BuiltInSet = {}
      <3>1. LibsOf(<<>>) = {}
        BY DEF LibsOf
      <3> QED BY <1>4, <1>8, <3>1
    <2> QED BY <1>4, <1>5, <1>6, <2>1, <2>2, <2>3 DEF PhaseInv
  <1>10. ASSUME Loads PROVE NothingLost'
    <2>1. /\ DOMAIN loading' = {1} /\ loading'[1].lib = Main /\ loading'[1].rest = imports[Main]
          /\ LibsOf(loading') = {Main}
      BY <1>8, <1>10
    <2>2. dependencies[Main] = {}
      BY <1>1, <1>4 DEF LoadInv
    <2>3. /\ Ahead' = {Main} \cup
              {lib \in lexed' : imports[Main] # <<>> /\ lib = Head(imports[Main])}
          /\ Gathered' = Ahead' \cup UNION {dependencies[lib] : lib \in Ahead'}
      BY <1>6, <2>1 DEF Ahead, Gathered
    <2>4. \A lib \in lexed' \ BuiltInSet : {lib} \cup dependencies'[lib] \subseteq Gathered'
      BY <1>2, <1>6, <2>2, <2>3
    <2>5. ASSUME NEW member \in Gathered' \cap BuiltInSet
          PROVE  ToSet(imports[member]) \subseteq Gathered'
      <3>1. member # Main
        BY <1>4
      <3>2. PICK lib \in Ahead' : member \in {lib} \cup dependencies[lib]
        BY <2>3
      <3>3. lib # Main
        BY <2>2, <3>1, <3>2
      <3>4. lib \in lexed' /\ lib \in BuiltInSet /\ lib \in lexed
        BY <1>2, <1>6, <2>3, <3>2, <3>3
      <3>5. lib \notin LibsOf(loading)
        BY <1>2 DEF LibsOf
      <3>6. ToSet(imports[member]) \subseteq dependencies[lib]
        BY <1>10, <3>2, <3>4, <3>5, BuiltInKnown
      <3> QED BY <2>3, <3>2, <3>6
    <2> QED BY <1>6, <2>4, <2>5 DEF NothingLost
  <1>11. GatherInv'
    <2>1. Loads => ImportsGathered' /\ BuiltInsClosed'
      BY <1>3, <1>4, LexedGathered
    <2> QED BY <1>5, <1>7, <1>10, <2>1 DEF GatherInv
  <1> QED BY <1>5, <1>9, <1>11 DEF ImportsInv

(* The import at hand.                                                     *)
LEMMA ImportAtHand ==
    ASSUME ImportsInv, loading # <<>>, Rest # <<>>
    PROVE  /\ Head(Rest) \in Libraries /\ Head(Rest) \in ToSet(imports[Importing])
           /\ Importing \in Libraries /\ Importing \in lexed /\ Importing \in LibsOf(loading)
           /\ Head(Rest) # Importing
           /\ Len(loading) \in Nat \ {0} /\ DOMAIN loading = 1 .. Len(loading)
           /\ Importing = loading[Len(loading)].lib /\ Rest = loading[Len(loading)].rest
           /\ Main \notin lexed =>
                 Len(loading) = 1 /\ ToSet(imports[Importing]) \subseteq lexed
  <1>1. /\ SourceInv /\ loading \in Seq(Calls) /\ IsStack(loading, imports)
        /\ LibsOf(loading) \subseteq lexed
    BY DEF ImportsInv, Types, LoadInv
  <1>2. /\ Len(loading) \in Nat \ {0} /\ DOMAIN loading = 1 .. Len(loading)
        /\ Len(loading) \in DOMAIN loading
        /\ Last(loading) = loading[Len(loading)] /\ Last(loading) \in Calls
        /\ Last(loading).lib \in LibsOf(loading) /\ LibsOf(loading) \subseteq Libraries
    BY <1>1, TopCall
  <1>3. Rest \in Seq(Libraries)
    BY <1>2 DEF Rest, Calls
  <1>4. Head(Rest) \in Libraries /\ Head(Rest) \in ToSet(Rest)
    BY <1>3, SetOfHeadTail
  <1>5. ToSet(Rest) \subseteq ToSet(imports[Importing])
    BY <1>1, <1>2 DEF IsStack, Rest, Importing
  <1>6. Importing \in Libraries /\ Importing \in LibsOf(loading)
    BY <1>2 DEF Importing
  <1>7. Head(Rest) # Importing
    BY <1>1, <1>4, <1>5, <1>6 DEF SourceInv
  <1>8. Main \notin lexed => Len(loading) = 1 /\ ToSet(imports[Importing]) \subseteq lexed
    BY DEF ImportsInv, PhaseInv
  <1> QED BY <1>1, <1>2, <1>4, <1>5, <1>6, <1>7, <1>8 DEF Importing, Rest

(* A library that no call has met before is lexed.                         *)
LEMMA ImportNewKeeps ==
    ASSUME ImportsInv, ImportNew
    PROVE  ImportsInv'
  <1>1. SourceInv /\ PhaseInv /\ LoadInv
    BY DEF ImportsInv
  <1>2. PICK lib : lib = Head(Rest)
    OBVIOUS
  <1>3. /\ loading # <<>> /\ Rest # <<>> /\ lib \notin lexed /\ Lex(lib)
        /\ UNCHANGED <<sourceVars, dependencies>> /\ Unparsed
    BY <1>2 DEF ImportNew, AlreadyLexed
  <1>4. NothingParsed /\ state # "BYTECODE_READY"
    BY <1>1, <1>3 DEF PhaseInv
  <1>5. /\ lib \in Libraries \ lexed /\ lib \in ToSet(imports[Importing])
        /\ Main \notin lexed => ToSet(imports[Importing]) \subseteq lexed
    BY <1>2, <1>3, ImportAtHand
  <1>6. Main \in lexed
    BY <1>3, <1>5
  <1>7. Unloaded = {} /\ lib \notin BuiltInSet
    <2>1. Unloaded = {}
      BY <1>1, <1>6 DEF PhaseInv
    <2> QED BY <1>3, <2>1 DEF Unloaded, BuiltInSet, ToSet
  <1>8. /\ SourceInv' /\ Types' /\ LoadInv' /\ ParseInv' /\ MetInv' /\ ImportsComeFirst'
        /\ NothingParsed' /\ state' # "BYTECODE_READY" /\ DependenciesComplete'
    BY <1>2, <1>3, <1>4, <1>5, LexKeeps
  <1>9. lexed' = lexed \cup {lib} /\ imports' = imports /\ dependencies' = dependencies
    BY <1>3 DEF Lex, sourceVars
  <1>10. Loads' = Loads
    BY <1>1, <1>3, SourceKept
  <1>11. /\ HasFlaw("lexical", lib) => loading' = loading /\ ~Loads
         /\ ~HasFlaw("lexical", lib) =>
                 \E n \in Nat :
                     /\ Len(loading) = n /\ DOMAIN loading = 1 .. n
                     /\ DOMAIN loading' = 1 .. n + 1
                     /\ \A i \in 1 .. n : loading'[i] = loading[i]
                     /\ loading'[n + 1] = [lib |-> lib, rest |-> imports[lib]]
                     /\ LibsOf(loading') = LibsOf(loading) \cup {lib}
    BY <1>3, <1>5, LexedLast
  <1>12. PhaseInv'
    <2>1. Unloaded' = {}
      BY <1>7, <1>9 DEF Unloaded
    <2>2. loading'[1] = loading[1]
      <3>1. Len(loading) \in Nat \ {0}
        BY <1>3, ImportAtHand
      <3>2. 1 \in 1 .. Len(loading)
        BY <3>1
      <3> QED BY <1>11, <3>2
    <2>3. LibsOf(loading') \cap BuiltInSet = {}
      <3>1. LibsOf(loading) \cap BuiltInSet = {}
        BY <1>1, <1>6 DEF PhaseInv
      <3> QED BY <1>7, <1>11, <3>1
    <2>4. loading[1].lib = Main
      BY <1>1, <1>3, <1>6 DEF PhaseInv
    <2> QED BY <1>6, <1>8, <1>9, <2>1, <2>2, <2>3, <2>4 DEF PhaseInv
  <1>13. ASSUME Loads PROVE NothingLost'
    <2>1. PICK n \in Nat :
              /\ Len(loading) = n /\ DOMAIN loading = 1 .. n
              /\ DOMAIN loading' = 1 .. n + 1
              /\ \A i \in 1 .. n : loading'[i] = loading[i]
              /\ loading'[n + 1] = [lib |-> lib, rest |-> imports[lib]]
              /\ LibsOf(loading') = LibsOf(loading) \cup {lib}
      BY <1>11, <1>13
    <2>2. n + 1 \in 1 .. n + 1 /\ (\A i \in 1 .. n : i \in 1 .. n + 1)
          /\ (\A i \in 1 .. n + 1 : i \in 1 .. n \/ i = n + 1)
      OBVIOUS
    <2>3. dependencies[lib] = {}
      BY <1>1, <1>5 DEF LoadInv
    <2>4. Ahead \subseteq Ahead' /\ lib \in Ahead'
      BY <1>9, <2>1, <2>2 DEF Ahead
    <2>5. Ahead' \subseteq lexed'
      BY <1>1, <1>9, <2>1 DEF Ahead, LoadInv
    <2>6. Gathered' = Ahead' \cup UNION {dependencies[l] : l \in Ahead'}
      BY <1>9 DEF Gathered
    <2>7. Gathered \subseteq Gathered'
      BY <2>4, <2>6 DEF Gathered
    <2>8. NothingLost
      BY <1>13 DEF ImportsInv, GatherInv
    <2>9. \A l \in lexed' \ BuiltInSet : {l} \cup dependencies'[l] \subseteq Gathered'
      BY <1>3, <1>6, <1>9, <2>3, <2>4, <2>6, <2>7, <2>8 DEF NothingLost
    <2>10. ASSUME NEW member \in Gathered' \cap BuiltInSet
           PROVE  ToSet(imports[member]) \subseteq Gathered'
      <3>1. PICK l \in Ahead' : member \in {l} \cup dependencies[l]
        BY <2>6
      <3>2. l \in lexed
        BY <1>7, <1>9, <2>3, <2>5, <3>1
      <3>3. ToSet(imports[member]) \subseteq Gathered \cup dependencies[l]
        BY <1>3, <1>6, <1>13, <3>1, <3>2, KnownBuiltIn
      <3> QED BY <2>6, <2>7, <3>1, <3>3
    <2> QED BY <1>9, <2>9, <2>10 DEF NothingLost
  <1>14. GatherInv'
    <2>1. Loads => ImportsGathered' /\ BuiltInsClosed'
      BY <1>3, <1>5, LexedGathered
    <2> QED BY <1>8, <1>10, <1>13, <2>1 DEF GatherInv
  <1> QED BY <1>8, <1>12, <1>14 DEF ImportsInv

(* An import that has tokens: the library that imports it takes over the   *)
(* dependencies it has so far.                                             *)
LEMMA ImportLoadedKeeps ==
    ASSUME ImportsInv, ImportLoaded
    PROVE  ImportsInv'
  <1>1. SourceInv /\ PhaseInv /\ LoadInv /\ Types
    BY DEF ImportsInv
  <1>2. PICK x, t, n, next :
            x = Importing /\ t = Head(Rest) /\ n = Len(loading) /\ next = loading'
    OBVIOUS
  <1>3. /\ loading # <<>> /\ Rest # <<>> /\ t \in lexed
        /\ next = NextImport(loading)
        /\ UNCHANGED <<sourceVars, state, logged, lexed>> /\ Unparsed
    BY <1>2 DEF ImportLoaded, AlreadyLexed, Advanced, NextImport
  <1>4. /\ t \in Libraries /\ t \in ToSet(imports[x]) /\ t # x
        /\ x \in Libraries /\ x \in lexed /\ x \in LibsOf(loading)
        /\ n \in Nat \ {0} /\ DOMAIN loading = 1 .. n
        /\ x = loading[n].lib /\ t = Head(loading[n].rest) /\ loading[n].rest # <<>>
        /\ Main \notin lexed => n = 1 /\ ToSet(imports[x]) \subseteq lexed
    BY <1>2, <1>3, ImportAtHand
  <1>5. /\ next \in Seq(Calls) /\ Len(next) = n /\ DOMAIN next = 1 .. n /\ next # <<>>
        /\ \A i \in 1 .. n : next[i].lib = loading[i].lib
        /\ \A i \in 1 .. n - 1 : next[i] = loading[i]
        /\ ToSet(loading[n].rest) = {t} \cup ToSet(next[n].rest)
        /\ LibsOf(next) = LibsOf(loading) /\ IsStack(next, imports)
    <2>1. /\ loading \in Seq(Calls) /\ Last(loading).rest # <<>> /\ IsStack(loading, imports)
      BY <1>1, <1>3 DEF Types, LoadInv, Rest
    <2>2. /\ next \in Seq(Calls) /\ Len(next) = Len(loading) /\ DOMAIN next = DOMAIN loading
          /\ next # <<>>
          /\ \A i \in DOMAIN loading : next[i].lib = loading[i].lib
          /\ \A i \in 1 .. Len(loading) - 1 : next[i] = loading[i]
          /\ ToSet(loading[Len(loading)].rest)
                = {Head(loading[Len(loading)].rest)} \cup ToSet(next[Len(loading)].rest)
          /\ LibsOf(next) = LibsOf(loading)
          /\ IsStack(next, imports)
      BY <1>3, <2>1, StackAdvances
    <2> QED BY <1>2, <1>4, <2>2
  <1>6. /\ dependencies' = [dependencies EXCEPT ![x] = @ \cup {t} \cup dependencies[t]]
        /\ lexed' = lexed /\ imports' = imports /\ loading' = next
    BY <1>2, <1>3 DEF ImportLoaded, DependenciesWith, sourceVars
  <1>7. /\ dependencies \in [Libraries -> SUBSET Libraries]
        /\ dependencies'[x] = dependencies[x] \cup {t} \cup dependencies[t]
        /\ \A lib \in Libraries \ {x} : dependencies'[lib] = dependencies[lib]
        /\ \A lib \in Libraries : dependencies[lib] \subseteq dependencies'[lib]
    BY <1>1, <1>4, <1>6 DEF Types
  <1>8. SourceInv' /\ Loads' = Loads
    BY <1>1, <1>3, SourceKept
  <1>9. NothingParsed /\ state # "BYTECODE_READY"
    BY <1>1, <1>3 DEF PhaseInv
  <1>10. NothingParsed' /\ state' # "BYTECODE_READY"
    BY <1>3, <1>9 DEF NothingParsed, Unparsed
  <1>11. ParseInv' /\ MetInv' /\ ImportsComeFirst' /\ DependenciesComplete'
    BY <1>10, NotParsing
  <1>12. Types'
    <2>1. dependencies' \in [Libraries -> SUBSET Libraries]
      BY <1>4, <1>6, <1>7
    <2> QED BY <1>1, <1>3, <1>5, <1>6, <2>1 DEF Types, Unparsed
  <1>13. x \in BuiltInSet => t \in BuiltInSet
    BY <1>1, <1>4, BuiltInImports
  <1>14. LoadInv'
    <2>1. \A i \in 1 .. n - 1 :
              loading'[i].rest # <<>> /\ Head(loading'[i].rest) = loading'[i + 1].lib
      <3>1. \A i \in 1 .. n - 1 : i \in 1 .. n /\ i + 1 \in 1 .. n
        BY <1>4
      <3>2. \A i \in 1 .. n - 1 :
                loading[i].rest # <<>> /\ Head(loading[i].rest) = loading[i + 1].lib
        BY <1>1, <1>2 DEF LoadInv
      <3> QED BY <1>5, <1>6, <3>1, <3>2
    <2>2. \A lib \in Libraries \ lexed' : dependencies'[lib] = {}
      BY <1>1, <1>4, <1>6, <1>7 DEF LoadInv
    <2>3. \A lib \in Libraries : dependencies'[lib] \subseteq lexed'
      BY <1>1, <1>3, <1>4, <1>6, <1>7 DEF LoadInv
    <2>4. \A lib \in BuiltInSet : dependencies'[lib] \subseteq BuiltInSet
      <3>1. \A lib \in BuiltInSet : lib \in Libraries /\ dependencies[lib] \subseteq BuiltInSet
        BY <1>1 DEF LoadInv, Libraries
      <3> QED BY <1>7, <1>13, <3>1
    <2>5. IsStack(loading, imports)' /\ LibsOf(loading)' \subseteq lexed'
      BY <1>1, <1>5, <1>6 DEF LoadInv
    <2>6. Len(loading') = n
      BY <1>5, <1>6
    <2> QED BY <2>1, <2>2, <2>3, <2>4, <2>5, <2>6 DEF LoadInv
  <1>15. PhaseInv'
    <2>1. Unloaded' = Unloaded
      BY <1>6 DEF Unloaded
    <2>2. 1 \in 1 .. n
      BY <1>4
    <2>3. loading'[1].lib = loading[1].lib
      BY <1>5, <1>6, <2>2
    <2>4. Importing' = x
      <3>1. Last(next) = next[Len(next)]
        BY <1>5 DEF Last
      <3>2. next[n].lib = loading[n].lib
        BY <1>4, <1>5
      <3> QED BY <1>4, <1>5, <1>6, <3>1, <3>2 DEF Importing
    <2>5. LibsOf(loading') = LibsOf(loading) /\ Len(loading') = n
      BY <1>5, <1>6
    <2> QED BY <1>1, <1>3, <1>4, <1>6, <1>10, <2>1, <2>3, <2>4, <2>5 DEF PhaseInv
  <1>16. Loads => ImportsGathered'
    <2> SUFFICES ASSUME Loads, NEW lib \in lexed, NEW target \in ToSet(imports[lib])
                 PROVE  \/ target \in dependencies'[lib]
                        \/ \E i \in DOMAIN loading' :
                              loading'[i].lib = lib /\ target \in ToSet(loading'[i].rest)
      BY <1>6 DEF ImportsGathered
    <2>1. ImportsGathered
      BY DEF ImportsInv, GatherInv
    <2>2. CASE target \in dependencies[lib]
      BY <1>1, <1>7, <2>2 DEF Types
    <2>3. ASSUME NEW i \in DOMAIN loading, loading[i].lib = lib, target \in ToSet(loading[i].rest),
                 target \notin dependencies'[lib]
          PROVE  \E j \in DOMAIN loading' :
                    loading'[j].lib = lib /\ target \in ToSet(loading'[j].rest)
      <3>1. i = n \/ i \in 1 .. n - 1
        BY <1>4
      <3>2. target \in ToSet(next[i].rest)
        BY <1>4, <1>5, <1>7, <2>3, <3>1
      <3> QED BY <1>4, <1>5, <1>6, <2>3, <3>2
    <2> QED BY <2>1, <2>2, <2>3 DEF ImportsGathered
  <1>17. Loads => BuiltInsClosed'
    <2> SUFFICES ASSUME Loads, NEW lib \in BuiltInSet, NEW member \in dependencies'[lib]
                 PROVE  ToSet(imports[member]) \subseteq dependencies'[lib]
      BY <1>6 DEF BuiltInsClosed, ImportsStayIn
    <2>1. BuiltInsClosed
      BY DEF ImportsInv, GatherInv
    <2>2. lib \in Libraries
      BY DEF Libraries
    <2>3. CASE member \in dependencies[lib]
      <3>1. ToSet(imports[member]) \subseteq dependencies[lib]
        BY <2>1, <2>3 DEF BuiltInsClosed, ImportsStayIn
      <3> QED BY <1>7, <2>2, <3>1
    <2>4. CASE member \notin dependencies[lib]
      <3>1. lib = x /\ member \in {t} \cup dependencies[t]
        BY <1>7, <2>2, <2>4
      <3>2. Main \notin lexed
        BY <1>1, <1>4, <3>1 DEF PhaseInv
      <3>3. t \notin LibsOf(loading)
        BY <1>4, <3>2 DEF LibsOf
      <3>4. ToSet(imports[member]) \subseteq dependencies[t]
        BY <1>3, <1>13, <3>1, <3>3, BuiltInKnown
      <3> QED BY <1>7, <3>1, <3>4
    <2> QED BY <2>3, <2>4
  <1>18. ASSUME Loads, Main \in lexed PROVE NothingLost'
    <2>1. NothingLost
      BY <1>18 DEF ImportsInv, GatherInv
    <2>2. x \in Ahead /\ t \in Ahead /\ x \in Ahead'
      BY <1>3, <1>4, <1>5, <1>6 DEF Ahead
    <2>3. Ahead' \subseteq lexed
      BY <1>1, <1>5, <1>6 DEF Ahead, LoadInv
    <2>4. \A lib \in Ahead : lib = t \/ lib \in Ahead'
      <3> SUFFICES ASSUME NEW lib \in Ahead, lib \notin LibsOf(loading), lib # t
                   PROVE  lib \in Ahead'
        BY <1>5, <1>6 DEF Ahead
      <3>1. PICK i \in DOMAIN loading :
                loading[i].rest # <<>> /\ lib = Head(loading[i].rest) /\ lib \in lexed
        BY DEF Ahead
      <3>2. i \in 1 .. n - 1 /\ i \in 1 .. n
        BY <1>4, <3>1
      <3>3. loading'[i] = loading[i] /\ i \in DOMAIN loading'
        BY <1>5, <1>6, <3>2
      <3> QED BY <1>6, <3>1, <3>3 DEF Ahead
    <2>5. Gathered' = Ahead' \cup UNION {dependencies'[l] : l \in Ahead'}
      BY DEF Gathered
    <2>6. \A lib \in Ahead : lib \in Libraries /\ {lib} \cup dependencies[lib] \subseteq Gathered'
      <3> SUFFICES ASSUME NEW lib \in Ahead
                   PROVE  lib \in Libraries /\ {lib} \cup dependencies[lib] \subseteq Gathered'
        OBVIOUS
      <3>1. lib \in Libraries
        BY <1>1 DEF Ahead, LoadInv, Types
      <3>2. CASE lib = t
        <4>1. dependencies'[x] \subseteq Gathered'
          BY <2>2, <2>5
        <4> QED BY <1>7, <3>1, <3>2, <4>1
      <3>3. CASE lib \in Ahead'
        BY <1>7, <2>5, <3>1, <3>3
      <3> QED BY <2>4, <3>1, <3>2, <3>3
    <2>7. Gathered \subseteq Gathered'
      BY <2>6 DEF Gathered
    <2>8. \A lib \in lexed' \ BuiltInSet : {lib} \cup dependencies'[lib] \subseteq Gathered'
      <3> SUFFICES ASSUME NEW lib \in lexed \ BuiltInSet
                   PROVE  {lib} \cup dependencies'[lib] \subseteq Gathered'
        BY <1>6
      <3>1. CASE lib = x
        BY <2>2, <2>5, <3>1
      <3>2. CASE lib # x
        <4>1. dependencies'[lib] = dependencies[lib]
          BY <1>1, <1>7, <3>2 DEF Types
        <4>2. {lib} \cup dependencies[lib] \subseteq Gathered
          BY <1>3, <1>18, <2>1 DEF NothingLost
        <4> QED BY <2>7, <4>1, <4>2
      <3> QED BY <3>1, <3>2
    <2>9. ASSUME NEW member \in Gathered' \cap BuiltInSet
          PROVE  ToSet(imports[member]) \subseteq Gathered'
      <3>1. PICK l \in Ahead' : member \in {l} \cup dependencies'[l]
        BY <2>5
      <3>2. l \in lexed /\ l \in Libraries
        BY <1>1, <2>3 DEF Types
      <3>3. CASE l = x
        <4>1. member \in Gathered
          BY <1>7, <2>2, <3>1, <3>3 DEF Gathered
        <4>2. ToSet(imports[member]) \subseteq Gathered
          BY <1>3, <1>18, <2>1, <4>1 DEF NothingLost
        <4> QED BY <2>7, <4>2
      <3>4. CASE l # x
        <4>1. dependencies'[l] = dependencies[l]
          BY <1>7, <3>2, <3>4
        <4>2. ToSet(imports[member]) \subseteq Gathered \cup dependencies[l]
          BY <1>3, <1>18, <3>1, <3>2, <4>1, KnownBuiltIn
        <4> QED BY <2>5, <2>7, <3>1, <4>1, <4>2
      <3> QED BY <3>3, <3>4
    <2> QED BY <1>6, <2>8, <2>9 DEF NothingLost
  <1>19. Main \notin lexed => NothingLost'
    BY <1>6 DEF NothingLost
  <1>20. GatherInv'
    BY <1>8, <1>11, <1>16, <1>17, <1>18, <1>19 DEF GatherInv
  <1> QED BY <1>8, <1>11, <1>12, <1>14, <1>15, <1>20 DEF ImportsInv

(* The call at hand returns, and nothing else happens to what was loaded.  *)
LEMMA CallReturns ==
    ASSUME ImportsInv, loading # <<>>, loading' = Front(loading), state' # "BYTECODE_READY",
           state' \in {"READY", "ANALYZED", "ERROR", "BYTECODE_READY"}, logged' \in BOOLEAN,
           UNCHANGED <<sourceVars, lexed, dependencies>>, Unparsed
    PROVE  /\ SourceInv' /\ Types' /\ PhaseInv' /\ LoadInv' /\ ParseInv' /\ MetInv'
           /\ ImportsComeFirst' /\ DependenciesComplete'
           /\ Len(loading) \in Nat \ {0} /\ DOMAIN loading = 1 .. Len(loading)
           /\ DOMAIN loading' = 1 .. Len(loading) - 1
           /\ \A i \in 1 .. Len(loading) - 1 : loading'[i] = loading[i]
           /\ LibsOf(loading) = LibsOf(loading') \cup {Importing}
  <1>1. SourceInv /\ PhaseInv /\ LoadInv /\ Types
    BY DEF ImportsInv
  <1>2. PICK n, next : n = Len(loading) /\ next = loading'
    OBVIOUS
  <1>3. /\ next \in Seq(Calls) /\ Len(next) = n - 1
        /\ DOMAIN next = 1 .. n - 1 /\ DOMAIN loading = 1 .. n
        /\ n \in Nat \ {0}
        /\ \A i \in 1 .. n - 1 : next[i] = loading[i]
        /\ LibsOf(loading) = LibsOf(next) \cup {Importing}
        /\ IsStack(next, imports)
    <2>1. loading \in Seq(Calls) /\ next = Front(loading) /\ IsStack(loading, imports)
      BY <1>1, <1>2 DEF Types, LoadInv
    <2>2. /\ next \in Seq(Calls) /\ Len(next) = Len(loading) - 1
          /\ DOMAIN next = 1 .. Len(loading) - 1 /\ DOMAIN loading = 1 .. Len(loading)
          /\ Len(loading) \in Nat \ {0}
          /\ \A i \in 1 .. Len(loading) - 1 : next[i] = loading[i]
          /\ LibsOf(loading) = LibsOf(next) \cup {Last(loading).lib}
          /\ IsStack(next, imports)
      BY <2>1, StackShrinks
    <2> QED BY <1>2, <2>2 DEF Importing
  <1>4. lexed' = lexed /\ dependencies' = dependencies /\ imports' = imports
    BY DEF sourceVars
  <1>5. SourceInv'
    BY <1>1, SourceKept
  <1>6. NothingParsed'
    <2>1. NothingParsed
      BY <1>1 DEF PhaseInv
    <2> QED BY <2>1 DEF NothingParsed, Unparsed
  <1>7. ParseInv' /\ MetInv' /\ ImportsComeFirst' /\ DependenciesComplete'
    BY <1>6, NotParsing
  <1>8. Types'
    BY <1>1, <1>2, <1>3, <1>4 DEF Types, Unparsed
  <1>9. LoadInv'
    <2>1. \A i \in 1 .. n - 1 - 1 :
              loading'[i].rest # <<>> /\ Head(loading'[i].rest) = loading'[i + 1].lib
      <3>1. \A i \in 1 .. n - 1 - 1 : i \in 1 .. n - 1 /\ i + 1 \in 1 .. n - 1
        BY <1>3
      <3>2. \A i \in 1 .. n - 1 :
                loading[i].rest # <<>> /\ Head(loading[i].rest) = loading[i + 1].lib
        BY <1>1, <1>2 DEF LoadInv
      <3> QED BY <1>2, <1>3, <3>1, <3>2
    <2>2. IsStack(loading, imports)' /\ LibsOf(loading)' \subseteq lexed'
      BY <1>1, <1>2, <1>3, <1>4 DEF LoadInv
    <2>3. Len(loading') = n - 1
      BY <1>2, <1>3
    <2> QED BY <1>1, <1>4, <2>1, <2>2, <2>3 DEF LoadInv
  <1>10. PhaseInv'
    <2>1. Unloaded' = Unloaded
      BY <1>4 DEF Unloaded
    <2>2. ASSUME loading' # <<>> PROVE n # 1 /\ loading'[1] = loading[1]
      <3>1. n - 1 # 0
        BY <1>2, <1>3, <2>2, EmptySeq
      <3>2. 1 \in 1 .. n - 1
        BY <1>3, <3>1
      <3> QED BY <1>2, <1>3, <3>1, <3>2
    <2>3. LibsOf(loading') \subseteq LibsOf(loading)
      BY <1>2, <1>3
    <2> QED BY <1>1, <1>2, <1>4, <1>6, <2>1, <2>2, <2>3 DEF PhaseInv
  <1> QED BY <1>2, <1>3, <1>5, <1>7, <1>8, <1>9, <1>10

(* An import is not found: the call at hand ends, and the others go on.    *)
LEMMA ImportMissingKeeps ==
    ASSUME ImportsInv, ImportMissing
    PROVE  ImportsInv'
  <1>1. /\ loading # <<>> /\ loading' = Front(loading) /\ state' = "ERROR" /\ logged' = TRUE
        /\ UNCHANGED <<sourceVars, lexed, dependencies>> /\ Unparsed
    BY DEF ImportMissing
  <1>2. /\ SourceInv' /\ Types' /\ PhaseInv' /\ LoadInv' /\ ParseInv' /\ MetInv'
        /\ ImportsComeFirst'
    BY <1>1, CallReturns
  <1>3. ~Loads
    BY DEF ImportMissing, Requested, HasFlaw, Loads
  <1>4. GatherInv'
    <2>1. Loads' = Loads
      BY <1>1, SourceKept DEF ImportsInv
    <2> QED BY <1>3, <2>1 DEF GatherInv
  <1> QED BY <1>2, <1>4 DEF ImportsInv

(* A library is loaded, with everything it imports.                        *)
LEMMA LibraryLoadedKeeps ==
    ASSUME ImportsInv, LibraryLoaded
    PROVE  ImportsInv'
  <1>1. /\ loading # <<>> /\ loading' = Front(loading) /\ state' = "ANALYZED" /\ logged' = logged
        /\ UNCHANGED <<sourceVars, lexed, dependencies>> /\ Unparsed
        /\ Rest = <<>> /\ Importing # Main
    BY DEF LibraryLoaded
  <1>2. SourceInv /\ LoadInv /\ PhaseInv /\ logged \in BOOLEAN
    BY DEF ImportsInv, Types
  <1>3. PICK n, x : n = Len(loading) /\ x = Importing
    OBVIOUS
  <1>4. /\ SourceInv' /\ Types' /\ PhaseInv' /\ LoadInv' /\ ParseInv' /\ MetInv'
        /\ ImportsComeFirst' /\ DependenciesComplete'
        /\ n \in Nat \ {0} /\ DOMAIN loading = 1 .. n /\ DOMAIN loading' = 1 .. n - 1
        /\ \A i \in 1 .. n - 1 : loading'[i] = loading[i]
        /\ LibsOf(loading) = LibsOf(loading') \cup {x}
    BY <1>1, <1>2, <1>3, CallReturns
  <1>5. loading[n].lib = x /\ loading[n].rest = <<>>
    BY <1>1, <1>3 DEF Importing, Rest, Last
  <1>6. lexed' = lexed /\ dependencies' = dependencies /\ imports' = imports /\ Loads' = Loads
    BY <1>1, <1>2, SourceKept DEF sourceVars
  <1>7. \A i \in 1 .. n : i = n \/ i \in 1 .. n - 1
    BY <1>4
  <1>8. Loads => ImportsGathered'
    <2> SUFFICES ASSUME Loads, NEW lib \in lexed, NEW target \in ToSet(imports[lib]),
                        target \notin dependencies[lib]
                 PROVE  \E i \in DOMAIN loading' :
                            loading'[i].lib = lib /\ target \in ToSet(loading'[i].rest)
      BY <1>6 DEF ImportsGathered
    <2>1. ImportsGathered
      BY DEF ImportsInv, GatherInv
    <2>2. PICK i \in DOMAIN loading : loading[i].lib = lib /\ target \in ToSet(loading[i].rest)
      BY <2>1 DEF ImportsGathered
    <2>3. i # n
      BY <1>5, <2>2 DEF ToSet
    <2> QED BY <1>4, <1>7, <2>2, <2>3
  <1>9. Loads => BuiltInsClosed'
    BY <1>6 DEF ImportsInv, GatherInv, BuiltInsClosed, ImportsStayIn
  <1>10. ASSUME Loads PROVE NothingLost'
    <2> SUFFICES ASSUME Main \in lexed, loading' # <<>> PROVE NothingLost'
      BY <1>6 DEF NothingLost
    <2>1. n - 1 \in 1 .. n - 1
      <3>1. n = Len(loading) /\ loading[1].lib = Main
        BY <1>1, <1>2, <1>3 DEF PhaseInv
      <3>2. n # 1
        BY <1>1, <1>3, <1>5, <3>1
      <3> QED BY <1>4, <3>2
    <2>2. loading[n - 1].rest # <<>> /\ Head(loading[n - 1].rest) = x
      <3>1. \A i \in 1 .. n - 1 :
                loading[i].rest # <<>> /\ Head(loading[i].rest) = loading[i + 1].lib
        BY <1>2, <1>3 DEF LoadInv
      <3>2. n - 1 + 1 = n
        BY <1>4
      <3>3. Head(loading[n - 1].rest) = loading[n - 1 + 1].lib
        BY <2>1, <3>1
      <3> QED BY <1>5, <2>1, <3>1, <3>2, <3>3
    <2>3. x \in lexed
      BY <1>2, <1>4 DEF LoadInv
    <2>4. x \in Ahead'
      BY <1>4, <1>6, <2>1, <2>2, <2>3 DEF Ahead
    <2>5. \A i \in DOMAIN loading : loading[i].rest # <<>> =>
              i \in DOMAIN loading' /\ loading'[i] = loading[i]
      BY <1>4, <1>5, <1>7
    <2>6. \A i \in DOMAIN loading' : i \in DOMAIN loading /\ loading'[i] = loading[i]
      BY <1>4
    <2>7. Ahead \subseteq Ahead'
      BY <1>4, <1>6, <2>4, <2>5 DEF Ahead
    <2>8. Ahead' \subseteq Ahead
      BY <1>4, <1>6, <2>6 DEF Ahead
    <2>9. Gathered' = Gathered
      BY <1>6, <2>7, <2>8 DEF Gathered
    <2>10. NothingLost
      BY <1>10 DEF ImportsInv, GatherInv
    <2> QED BY <1>1, <1>6, <2>9, <2>10 DEF NothingLost
  <1>11. GatherInv'
    BY <1>4, <1>6, <1>8, <1>9, <1>10 DEF GatherInv
  <1> QED BY <1>4, <1>11 DEF ImportsInv

(* When the main source is loaded its dependencies are everything it       *)
(* reaches.                                                                *)
LEMMA MainIsComplete ==
    ASSUME ImportsInv, Loads, Main \in lexed, loading # <<>>, Len(loading) = 1,
           Importing = Main, Rest = <<>>
    PROVE  Reachable \subseteq dependencies[Main] \cup {Main}
  <1>1. SourceInv /\ LoadInv /\ Types /\ ImportsGathered /\ NothingLost
    BY DEF ImportsInv, GatherInv
  <1>2. DOMAIN loading = {1} /\ loading[1].lib = Main /\ loading[1].rest = <<>>
    <2>1. DOMAIN loading = 1 .. 1
      BY <1>1, LenProperties DEF Types
    <2> QED BY <2>1 DEF Importing, Rest, Last
  <1>3. Gathered = {Main} \cup dependencies[Main]
    <2>1. LibsOf(loading) = {Main}
      BY <1>2 DEF LibsOf
    <2>2. Ahead = {Main}
      BY <1>2, <2>1 DEF Ahead
    <2> QED BY <2>2 DEF Gathered
  <1>4. Main \in Libraries
    BY DEF Libraries
  <1>5. Gathered \subseteq lexed
    BY <1>1, <1>3, <1>4 DEF LoadInv
  <1>6. Gathered \in SUBSET Libraries /\ {Main} \in SUBSET Libraries
    BY <1>1, <1>4, <1>5 DEF Types
  <1>7. ASSUME NEW lib \in Gathered
        PROVE  ToSet(imports[lib]) \subseteq Gathered
    <2>1. CASE lib \in BuiltInSet
      BY <1>1, <2>1 DEF NothingLost
    <2>2. CASE lib \notin BuiltInSet
      <3>1. dependencies[lib] \subseteq Gathered
        BY <1>1, <1>5, <2>2 DEF NothingLost
      <3>2. \A i \in DOMAIN loading : ToSet(loading[i].rest) = {}
        BY <1>2 DEF ToSet
      <3>3. ToSet(imports[lib]) \subseteq dependencies[lib]
        BY <1>1, <1>5, <3>2 DEF ImportsGathered
      <3> QED BY <3>1, <3>3
    <2> QED BY <2>1, <2>2
  <1>8. ImportsStayIn(Gathered)
    BY <1>7 DEF ImportsStayIn
  <1> QED BY <1>3, <1>6, <1>8 DEF Reachable, ReachableFrom

(* What the main source reaches contains it and all its members import.    *)
LEMMA ReachableClosed ==
    ASSUME SourceInv
    PROVE  /\ Main \in Reachable /\ Reachable \subseteq Libraries
           /\ \A lib \in Reachable : ToSet(imports[lib]) \subseteq Reachable
  <1>1. {Main} \in SUBSET Libraries
    BY DEF Libraries
  <1>2. /\ {Main} \subseteq ReachableFrom({Main}) /\ ReachableFrom({Main}) \subseteq Libraries
        /\ ImportsStayIn(ReachableFrom({Main}))
    BY <1>1, Reached
  <1> QED BY <1>2 DEF Reachable, ImportsStayIn

(* The main source is loaded and handed to the parser.                     *)
LEMMA MainLoadedKeeps ==
    ASSUME ImportsInv, MainLoaded
    PROVE  ImportsInv'
  <1>1. /\ loading # <<>> /\ loading' = <<>> /\ state' = "ANALYZED" /\ importMap' = {Main}
        /\ loadingLibs' = <<[lib |-> Main, rest |-> imports[Main]]>>
        /\ Rest = <<>> /\ Importing = Main
        /\ UNCHANGED <<sourceVars, hasError, logged, lexed, dependencies, compiled, builds>>
    BY DEF MainLoaded
  <1>2. SourceInv /\ PhaseInv /\ LoadInv /\ Types /\ NothingParsed
    BY <1>1 DEF ImportsInv, PhaseInv
  <1>3. PICK n : n = Len(loading)
    OBVIOUS
  <1>4. n \in Nat \ {0} /\ DOMAIN loading = 1 .. n /\ loading[n].lib = Main /\ Main \in lexed
    <2>1. /\ n \in Nat \ {0} /\ DOMAIN loading = 1 .. n
          /\ Last(loading) = loading[n] /\ Last(loading).lib \in LibsOf(loading)
      BY <1>1, <1>2, <1>3, TopCall DEF Types
    <2> QED BY <1>1, <1>2, <2>1 DEF Importing, LoadInv
  <1>5. n = 1
    <2>1. loading[1].lib = Main
      BY <1>1, <1>2, <1>4 DEF PhaseInv
    <2>2. 1 \in 1 .. n /\ n \in 1 .. n
      BY <1>4
    <2> QED BY <1>2, <1>4, <2>1, <2>2 DEF LoadInv, IsStack
  <1>6. /\ lexed' = lexed /\ dependencies' = dependencies /\ imports' = imports /\ flaw' = flaw
        /\ compiled' = <<>> /\ hasError' = FALSE /\ SourceInv' /\ Loads' = Loads
        /\ Reachable' = Reachable
    BY <1>1, <1>2, SourceKept DEF sourceVars, NothingParsed, Types
  <1>7. /\ loadingLibs' \in Seq(Calls) /\ DOMAIN loadingLibs' = {1} /\ Len(loadingLibs') = 1
        /\ loadingLibs'[1].lib = Main /\ loadingLibs'[1].rest = imports[Main]
        /\ loadingLibs' # <<>>
    <2> DEFINE top == [lib |-> Main, rest |-> imports[Main]]
    <2>1. top \in Calls /\ top.lib = Main /\ top.rest = imports[Main]
      BY <1>2 DEF SourceInv, Calls, Libraries
    <2> HIDE DEF top
    <2>2. loadingLibs' = <<top>>
      BY <1>1 DEF top
    <2> QED BY <2>1, <2>2
  <1>8. Types'
    BY <1>1, <1>2, <1>6, <1>7 DEF Types
  <1>9. PhaseInv'
    <2>1. Unloaded' = {} /\ LibsOf(<<>>) = {}
      BY <1>2, <1>4, <1>6 DEF PhaseInv, Unloaded, LibsOf
    <2> QED BY <1>1, <1>4, <1>6, <2>1 DEF PhaseInv
  <1>10. LoadInv'
    <2>1. DOMAIN loading' = {} /\ Len(loading') = 0 /\ 1 .. Len(loading') - 1 = {}
      BY <1>1
    <2>2. IsStack(loading, imports)' /\ LibsOf(loading)' \subseteq lexed'
      BY <2>1 DEF IsStack, LibsOf
    <2> QED BY <1>2, <1>6, <2>1, <2>2 DEF LoadInv
  <1>11. GatherInv'
    <2>1. ASSUME Loads PROVE ImportsGathered' /\ BuiltInsClosed'
      <3>1. ImportsGathered /\ BuiltInsClosed
        BY <2>1 DEF ImportsInv, GatherInv
      <3>2. \A i \in DOMAIN loading : ToSet(loading[i].rest) = {}
        BY <1>1, <1>3, <1>4, <1>5 DEF ToSet, Rest, Last
      <3>3. \A lib \in lexed : ToSet(imports[lib]) \subseteq dependencies[lib]
        BY <3>1, <3>2 DEF ImportsGathered
      <3> QED BY <1>6, <3>1, <3>3 DEF ImportsGathered, BuiltInsClosed, ImportsStayIn
    <2>2. NothingLost'
      BY <1>1 DEF NothingLost
    <2>3. Loads => DependenciesComplete'
      <3>1. Loads => Reachable \subseteq dependencies[Main] \cup {Main}
        BY <1>1, <1>3, <1>4, <1>5, MainIsComplete
      <3> QED BY <1>6, <3>1 DEF DependenciesComplete, Loads
    <2> QED BY <1>6, <2>1, <2>2, <2>3 DEF GatherInv
  <1>12. ToSet(compiled') = {} /\ DOMAIN compiled' = {} /\ LibsOf(loadingLibs') = {Main}
    BY <1>6, <1>7 DEF ToSet, LibsOf
  <1>13. ParseInv'
    <2>1. IsStack(loadingLibs, imports)' /\ IsInjective(compiled)'
      BY <1>6, <1>7, <1>12 DEF IsStack, IsInjective
    <2>2. Main \in Reachable
      BY <1>2, ReachableClosed
    <2>3. 1 .. Len(loadingLibs') - 1 = {}
      BY <1>7
    <2> QED BY <1>1, <1>4, <1>6, <1>12, <2>1, <2>2, <2>3 DEF ParseInv
  <1>14. MetInv'
    <2>1. ImportsMet'
      BY <1>6, <1>7, <1>12 DEF ImportsMet
    <2>2. FlawAhead'
      BY <1>6, <1>7, <1>12 DEF FlawAhead
    <2> QED BY <2>1, <2>2 DEF MetInv
  <1>15. ImportsComeFirst'
    BY <1>12 DEF ImportsComeFirst
  <1> QED BY <1>6, <1>8, <1>9, <1>10, <1>11, <1>13, <1>14, <1>15 DEF ImportsInv

(***************************************************************************)
(* The steps of the parser.                                                *)
(***************************************************************************)
(* The import at hand, and the libraries being parsed once it is passed.   *)
LEMMA ImportPassed ==
    ASSUME ImportsInv, Parsing, Left # <<>>, NEW next, next = Skipped
    PROVE  /\ Head(Left) \in Libraries /\ Head(Left) \in ToSet(imports[Mode])
           /\ Mode \in importMap /\ Mode \in Libraries
           /\ Len(loadingLibs) \in Nat \ {0} /\ Mode = loadingLibs[Len(loadingLibs)].lib
           /\ Left = loadingLibs[Len(loadingLibs)].rest
           /\ DOMAIN loadingLibs = 1 .. Len(loadingLibs)
           /\ next \in Seq(Calls) /\ Len(next) = Len(loadingLibs) /\ next # <<>>
           /\ DOMAIN next = 1 .. Len(loadingLibs)
           /\ \A i \in 1 .. Len(loadingLibs) : next[i].lib = loadingLibs[i].lib
           /\ \A i \in 1 .. Len(loadingLibs) - 1 : next[i] = loadingLibs[i]
           /\ ToSet(Left) = {Head(Left)} \cup ToSet(next[Len(loadingLibs)].rest)
           /\ LibsOf(next) = LibsOf(loadingLibs) /\ IsStack(next, imports)
           /\ \A i \in 1 .. Len(next) - 1 : next[i + 1].lib \in ToSet(imports[next[i].lib])
  <1> DEFINE n == Len(loadingLibs)
  <1>1. /\ loadingLibs \in Seq(Calls) /\ IsStack(loadingLibs, imports) /\ loadingLibs # <<>>
        /\ LibsOf(loadingLibs) \subseteq importMap
        /\ \A i \in 1 .. n - 1 :
              loadingLibs[i + 1].lib \in ToSet(imports[loadingLibs[i].lib])
    BY DEF ImportsInv, Types, ParseInv, Parsing
  <1>2. /\ n \in Nat \ {0} /\ DOMAIN loadingLibs = 1 .. n /\ n \in DOMAIN loadingLibs
        /\ Last(loadingLibs) = loadingLibs[n] /\ Last(loadingLibs).lib \in LibsOf(loadingLibs)
        /\ LibsOf(loadingLibs) \subseteq Libraries
    BY <1>1, TopCall
  <1>3. next = NextImport(loadingLibs) /\ Last(loadingLibs).rest # <<>>
    BY DEF Skipped, NextImport, Left
  <1>4. /\ next \in Seq(Calls) /\ Len(next) = Len(loadingLibs) /\ next # <<>>
        /\ DOMAIN next = DOMAIN loadingLibs
        /\ \A i \in DOMAIN loadingLibs : next[i].lib = loadingLibs[i].lib
        /\ \A i \in 1 .. Len(loadingLibs) - 1 : next[i] = loadingLibs[i]
        /\ Head(loadingLibs[Len(loadingLibs)].rest) \in Libraries
        /\ ToSet(loadingLibs[Len(loadingLibs)].rest)
              = {Head(loadingLibs[Len(loadingLibs)].rest)} \cup ToSet(next[Len(loadingLibs)].rest)
        /\ LibsOf(next) = LibsOf(loadingLibs)
        /\ IsStack(next, imports)
    BY <1>1, <1>3, StackAdvances
  <1> HIDE DEF n
  <1>5. Left = loadingLibs[n].rest /\ Mode = loadingLibs[n].lib /\ Mode \in LibsOf(loadingLibs)
    BY <1>2 DEF Left, Mode
  <1>6. ToSet(Left) \subseteq ToSet(imports[Mode])
    BY <1>1, <1>2, <1>5 DEF IsStack
  <1>7. /\ Head(Left) \in Libraries /\ ToSet(Left) = {Head(Left)} \cup ToSet(next[n].rest)
    BY <1>4, <1>5 DEF n
  <1>8. \A i \in 1 .. n - 1 : next[i + 1].lib \in ToSet(imports[next[i].lib])
    <2>1. \A i \in 1 .. n - 1 : i \in 1 .. n /\ i + 1 \in 1 .. n
      BY <1>2
    <2> QED BY <1>1, <1>2, <1>4, <2>1
  <1> QED BY <1>1, <1>2, <1>4, <1>5, <1>6, <1>7, <1>8 DEF n

(* What every step of the parser keeps that leaves the state it is in.     *)
LEMMA ParserStays ==
    ASSUME ImportsInv, Parsing, Unloading, state' = state
    PROVE  PhaseInv' /\ state' # "BYTECODE_READY"
  <1>1. PhaseInv /\ state' # "BYTECODE_READY"
    BY DEF ImportsInv, PhaseInv, Parsing
  <1>2. Main \in lexed /\ loading' = <<>> /\ lexed' = lexed
    BY ParsingKeepsLoaded
  <1>3. Unloaded' = {} /\ LibsOf(<<>>) = {}
    BY <1>1, <1>2 DEF PhaseInv, Unloaded, LibsOf
  <1> QED BY <1>1, <1>2, <1>3 DEF PhaseInv

(* An import that the parser has met before is passed.                     *)
LEMMA ParseKnownImportKeeps ==
    ASSUME ImportsInv, ParseKnownImport
    PROVE  ImportsInv'
  <1>1. PICK n, next, h : n = Len(loadingLibs) /\ next = Skipped /\ h = Head(Left)
    OBVIOUS
  <1>2. /\ Parsing /\ Left # <<>> /\ Known /\ h \in importMap /\ loadingLibs' = next
        /\ UNCHANGED <<hasError, logged, importMap, compiled, state>> /\ Unloading
    BY <1>1 DEF ParseKnownImport, MustAppend
  <1>3. /\ n \in Nat \ {0} /\ Mode = loadingLibs[n].lib /\ Left = loadingLibs[n].rest
        /\ DOMAIN loadingLibs = 1 .. n
        /\ next \in Seq(Calls) /\ Len(next) = n /\ next # <<>> /\ DOMAIN next = 1 .. n
        /\ \A i \in 1 .. n : next[i].lib = loadingLibs[i].lib
        /\ \A i \in 1 .. n - 1 : next[i] = loadingLibs[i]
        /\ ToSet(Left) = {h} \cup ToSet(next[n].rest)
        /\ LibsOf(next) = LibsOf(loadingLibs) /\ IsStack(next, imports)
        /\ \A i \in 1 .. Len(next) - 1 : next[i + 1].lib \in ToSet(imports[next[i].lib])
    BY <1>1, <1>2, ImportPassed
  <1>4. /\ SourceInv' /\ LoadInv' /\ GatherInv' /\ PhaseInv'
        /\ lexed' = lexed /\ Reachable' = Reachable /\ imports' = imports /\ flaw' = flaw
    BY <1>2, ParsingKeepsLoaded, ParserStays
  <1>5. Types /\ ParseInv /\ MetInv /\ ImportsComeFirst
    BY DEF ImportsInv
  <1>6. Types'
    BY <1>2, <1>3, <1>5 DEF Types, Unloading
  <1>7. ParseInv'
    <2>1. IsStack(loadingLibs, imports)' /\ LibsOf(loadingLibs)' = LibsOf(loadingLibs)
      BY <1>2, <1>3, <1>4
    <2>2. Main \in importMap
      BY <1>2, <1>5 DEF ParseInv, Parsing
    <2> QED BY <1>2, <1>3, <1>4, <1>5, <2>1, <2>2 DEF ParseInv
  <1>8. ASSUME ~hasError' PROVE ImportsMet' /\ FlawAhead'
    <2>1. ImportsMet /\ FlawAhead
      BY <1>2, <1>5, <1>8 DEF MetInv
    <2>2. \A i \in 1 .. n : i = n \/ i \in 1 .. n - 1
      BY <1>3
    <2>3. n \in 1 .. n
      BY <1>3
    <2>4. \A i \in 1 .. n : \A target \in ToSet(imports[next[i].lib]) :
              target \in importMap \cup ToSet(next[i].rest)
      BY <1>2, <1>3, <2>1, <2>2 DEF ImportsMet
    <2>5. ImportsMet'
      BY <1>2, <1>3, <1>4, <2>1, <2>4 DEF ImportsMet
    <2>6. ~HasFlaw("missing", Mode)
      <3>1. HasFlaw("missing", Mode) => Left = imports[Mode]
        BY <1>3, <2>1, <2>3 DEF FlawAhead
      <3> QED BY <1>2, <3>1 DEF Known, Requested, FirstImport
    <2>7. \A i \in 1 .. n :
              HasFlaw("missing", next[i].lib) => next[i].rest = imports[next[i].lib]
      BY <1>3, <2>1, <2>2, <2>6 DEF FlawAhead
    <2>8. FlawAhead'
      BY <1>2, <1>3, <1>4, <2>1, <2>7 DEF FlawAhead, HasFlaw
    <2> QED BY <2>5, <2>8
  <1>9. ImportsComeFirst'
    BY <1>2, <1>4, <1>5 DEF ImportsComeFirst, ReachableFrom, ImportsStayIn
  <1> QED BY <1>4, <1>6, <1>7, <1>8, <1>9 DEF ImportsInv, MetInv

(* A dependency that the parser meets for the first time is spliced in.    *)
LEMMA ParseImportKeeps ==
    ASSUME ImportsInv, ParseImport
    PROVE  ImportsInv'
  <1>1. PICK n, rest, h, next :
            n = Len(loadingLibs) /\ rest = Skipped /\ h = Head(Left) /\ next = loadingLibs'
    OBVIOUS
  <1>2. /\ Parsing /\ Left # <<>> /\ Known /\ h \notin importMap /\ h \in dependencies[Main]
        /\ next = WithCall(rest, h, imports) /\ importMap' = importMap \cup {h}
        /\ UNCHANGED <<hasError, logged, compiled, state>> /\ Unloading
    BY <1>1 DEF ParseImport, MustAppend, IsDependency, Spliced, WithCall
  <1>3. /\ n \in Nat \ {0} /\ Mode = loadingLibs[n].lib /\ Left = loadingLibs[n].rest
        /\ DOMAIN loadingLibs = 1 .. n /\ Mode \in importMap
        /\ h \in Libraries /\ h \in ToSet(imports[Mode])
        /\ rest \in Seq(Calls) /\ Len(rest) = n
        /\ \A i \in 1 .. n : rest[i].lib = loadingLibs[i].lib
        /\ \A i \in 1 .. n - 1 : rest[i] = loadingLibs[i]
        /\ ToSet(Left) = {h} \cup ToSet(rest[n].rest)
        /\ LibsOf(rest) = LibsOf(loadingLibs) /\ IsStack(rest, imports)
        /\ \A i \in 1 .. Len(rest) - 1 : rest[i + 1].lib \in ToSet(imports[rest[i].lib])
    BY <1>1, <1>2, ImportPassed
  <1>4. /\ SourceInv' /\ LoadInv' /\ GatherInv' /\ PhaseInv'
        /\ lexed' = lexed /\ Reachable' = Reachable /\ imports' = imports /\ flaw' = flaw
    BY <1>2, ParsingKeepsLoaded, ParserStays
  <1>5. SourceInv /\ Types /\ LoadInv /\ ParseInv /\ MetInv /\ ImportsComeFirst
    BY DEF ImportsInv
  <1>6. /\ next \in Seq(Calls) /\ Len(next) = n + 1 /\ next # <<>> /\ DOMAIN next = 1 .. n + 1
        /\ \A i \in 1 .. n : next[i] = rest[i]
        /\ next[n + 1] = [lib |-> h, rest |-> imports[h]]
        /\ LibsOf(next) = LibsOf(loadingLibs) \cup {h} /\ IsStack(next, imports)
    <2>1. h \in Libraries \ LibsOf(rest)
      BY <1>2, <1>3, <1>5 DEF ParseInv
    <2>2. /\ next \in Seq(Calls) /\ Len(next) = Len(rest) + 1 /\ next # <<>>
          /\ DOMAIN rest = 1 .. Len(rest) /\ DOMAIN next = 1 .. Len(rest) + 1
          /\ \A i \in DOMAIN rest : next[i] = rest[i]
          /\ next[Len(rest) + 1] = [lib |-> h, rest |-> imports[h]]
          /\ LibsOf(next) = LibsOf(rest) \cup {h}
          /\ IsStack(next, imports)
      BY <1>2, <1>3, <1>5, <2>1, StackGrows
    <2> QED BY <1>3, <2>2
  <1>7. next[n + 1].lib = h /\ next[n + 1].rest = imports[h]
    BY <1>6
  <1>8. /\ \A i \in 1 .. n + 1 : i = n + 1 \/ i = n \/ i \in 1 .. n - 1
        /\ \A i \in 1 .. n - 1 : i \in 1 .. n
        /\ n \in 1 .. n
    BY <1>3
  <1>9. Types'
    BY <1>1, <1>2, <1>5, <1>6 DEF Types, Unloading
  <1>10. h \in Reachable /\ h \in lexed
    <2>1. h \in Reachable
      BY <1>3, <1>5, ReachableClosed DEF ParseInv
    <2>2. Main \in Libraries
      BY DEF Libraries
    <2> QED BY <1>2, <1>5, <2>1, <2>2 DEF LoadInv
  <1>11. ParseInv'
    <2>1. IsStack(loadingLibs, imports)' /\ LibsOf(loadingLibs)' = LibsOf(loadingLibs) \cup {h}
      BY <1>1, <1>4, <1>6
    <2>2. Main \in importMap
      BY <1>2, <1>5 DEF ParseInv, Parsing
    <2>3. \A i \in 1 .. n : next[i + 1].lib \in ToSet(imports[next[i].lib])
      <3> SUFFICES ASSUME NEW i \in 1 .. n
                   PROVE  next[i + 1].lib \in ToSet(imports[next[i].lib])
        OBVIOUS
      <3>1. CASE i = n
        <4>1. next[n].lib = Mode
          BY <1>3, <1>6, <1>8
        <4> QED BY <1>3, <1>7, <3>1, <4>1
      <3>2. CASE i \in 1 .. n - 1
        <4>1. i + 1 \in 1 .. n
          BY <1>3, <3>2
        <4> QED BY <1>3, <1>6, <3>2, <4>1
      <3> QED BY <1>3, <3>1, <3>2
    <2>4. \A i \in 1 .. Len(loadingLibs') - 1 :
              loadingLibs'[i + 1].lib \in ToSet(imports'[loadingLibs'[i].lib])
      <3>1. Len(loadingLibs') - 1 = n
        BY <1>1, <1>3, <1>6
      <3> QED BY <1>1, <1>4, <2>3, <3>1
    <2>5. ToSet(compiled') \cap LibsOf(loadingLibs') = {}
      BY <1>2, <1>5, <2>1 DEF ParseInv
    <2>6. importMap' = ToSet(compiled') \cup LibsOf(loadingLibs')
      BY <1>2, <1>5, <2>1 DEF ParseInv
    <2>7. importMap' \subseteq Reachable' /\ importMap' \subseteq lexed' /\ Main \in importMap'
      BY <1>2, <1>4, <1>5, <1>10, <2>2 DEF ParseInv
    <2>8. IsInjective(compiled)'
      BY <1>2, <1>5 DEF ParseInv
    <2> QED BY <2>1, <2>4, <2>5, <2>6, <2>7, <2>8 DEF ParseInv
  <1>12. ASSUME ~hasError' PROVE ImportsMet' /\ FlawAhead'
    <2>1. ImportsMet /\ FlawAhead
      BY <1>2, <1>5, <1>12 DEF MetInv
    <2>2. \A i \in 1 .. n + 1 : \A target \in ToSet(imports[next[i].lib]) :
              target \in importMap' \cup ToSet(next[i].rest)
      <3>1. \A i \in 1 .. n - 1 : \A target \in ToSet(imports[next[i].lib]) :
                target \in importMap' \cup ToSet(next[i].rest)
        BY <1>2, <1>3, <1>6, <1>8, <2>1 DEF ImportsMet
      <3>2. \A target \in ToSet(imports[next[n].lib]) :
                target \in importMap' \cup ToSet(next[n].rest)
        BY <1>2, <1>3, <1>6, <1>8, <2>1 DEF ImportsMet
      <3>3. \A target \in ToSet(imports[next[n + 1].lib]) :
                target \in importMap' \cup ToSet(next[n + 1].rest)
        BY <1>7
      <3> QED BY <1>8, <3>1, <3>2, <3>3
    <2>3. ImportsMet'
      BY <1>1, <1>2, <1>4, <1>6, <2>1, <2>2 DEF ImportsMet
    <2>4. ~HasFlaw("missing", Mode)
      <3>1. HasFlaw("missing", Mode) => Left = imports[Mode]
        BY <1>3, <1>8, <2>1 DEF FlawAhead
      <3> QED BY <1>2, <3>1 DEF Known, Requested, FirstImport
    <2>5. \A i \in 1 .. n + 1 :
              HasFlaw("missing", next[i].lib) => next[i].rest = imports[next[i].lib]
      <3>1. \A i \in 1 .. n - 1 :
                HasFlaw("missing", next[i].lib) => next[i].rest = imports[next[i].lib]
        <4>1. \A i \in 1 .. n - 1 : next[i] = loadingLibs[i] /\ i \in DOMAIN loadingLibs
          BY <1>3, <1>6, <1>8
        <4> QED BY <2>1, <4>1 DEF FlawAhead, HasFlaw
      <3>2. ~HasFlaw("missing", next[n].lib)
        BY <1>3, <1>6, <1>8, <2>4
      <3> QED BY <1>7, <1>8, <3>1, <3>2
    <2>6. FlawAhead'
      BY <1>1, <1>2, <1>4, <1>6, <2>1, <2>5 DEF FlawAhead, HasFlaw
    <2> QED BY <2>3, <2>6
  <1>13. ImportsComeFirst'
    BY <1>2, <1>4, <1>5 DEF ImportsComeFirst, ReachableFrom, ImportsStayIn
  <1> QED BY <1>4, <1>9, <1>11, <1>12, <1>13 DEF ImportsInv, MetInv

(* An import that the parser does not find is reported and passed.         *)
LEMMA ParseImportMissingKeeps ==
    ASSUME ImportsInv, ParseImportMissing
    PROVE  ImportsInv'
  <1>1. PICK n, next : n = Len(loadingLibs) /\ next = Skipped
    OBVIOUS
  <1>2. /\ Parsing /\ Left # <<>> /\ loadingLibs' = next /\ hasError' = TRUE /\ logged' = TRUE
        /\ UNCHANGED <<importMap, compiled, state>> /\ Unloading
    BY <1>1 DEF ParseImportMissing
  <1>3. /\ n \in Nat \ {0}
        /\ next \in Seq(Calls) /\ Len(next) = n /\ next # <<>>
        /\ LibsOf(next) = LibsOf(loadingLibs) /\ IsStack(next, imports)
        /\ \A i \in 1 .. Len(next) - 1 : next[i + 1].lib \in ToSet(imports[next[i].lib])
    BY <1>1, <1>2, ImportPassed
  <1>4. /\ SourceInv' /\ LoadInv' /\ GatherInv' /\ PhaseInv'
        /\ lexed' = lexed /\ Reachable' = Reachable /\ imports' = imports
    BY <1>2, ParsingKeepsLoaded, ParserStays
  <1>5. Types /\ ParseInv
    BY DEF ImportsInv
  <1>6. Types'
    BY <1>2, <1>3, <1>5 DEF Types, Unloading
  <1>7. ParseInv'
    <2>1. IsStack(loadingLibs, imports)' /\ LibsOf(loadingLibs)' = LibsOf(loadingLibs)
      BY <1>2, <1>3, <1>4
    <2>2. Main \in importMap
      BY <1>2, <1>5 DEF ParseInv, Parsing
    <2> QED BY <1>2, <1>3, <1>4, <1>5, <2>1, <2>2 DEF ParseInv
  <1>8. MetInv' /\ ImportsComeFirst'
    BY <1>2 DEF MetInv, ImportsComeFirst
  <1> QED BY <1>4, <1>6, <1>7, <1>8 DEF ImportsInv

(* A library that is being parsed reaches the one that is parsed at hand.  *)
LEMMA StillImporting ==
    ASSUME ImportsInv, Parsing, NEW target \in LibsOf(loadingLibs)
    PROVE  Mode \in ReachableFrom({target})
  <1> DEFINE n == Len(loadingLibs)
  <1>1. /\ loadingLibs \in Seq(Calls) /\ loadingLibs # <<>>
        /\ \A i \in 1 .. n - 1 :
              loadingLibs[i + 1].lib \in ToSet(imports[loadingLibs[i].lib])
    BY DEF ImportsInv, Types, ParseInv, Parsing
  <1>2. /\ n \in Nat \ {0} /\ DOMAIN loadingLibs = 1 .. n
        /\ Last(loadingLibs) = loadingLibs[n] /\ Last(loadingLibs).lib \in LibsOf(loadingLibs)
        /\ LibsOf(loadingLibs) \subseteq Libraries
    BY <1>1, TopCall
  <1> HIDE DEF n
  <1>3. PICK k \in 1 .. n : loadingLibs[k].lib = target
    BY <1>2 DEF LibsOf
  <1>4. Mode \in Libraries /\ Mode = loadingLibs[n].lib
    BY <1>2 DEF Mode
  <1>5. ASSUME NEW closed \in SUBSET Libraries, target \in closed, ImportsStayIn(closed)
        PROVE  Mode \in closed
    <2> DEFINE D == {i \in k .. n : loadingLibs[i].lib \notin closed}
    <2>1. D = {}
      <3> SUFFICES ASSUME D # {} PROVE FALSE
        OBVIOUS
      <3>1. D \in SUBSET Nat
        BY <1>2
      <3>2. PICK i \in D : \A m \in D : i <= m
        BY <3>1, LeastNatural
      <3>3. i # k
        BY <1>3, <1>5
      <3>4. i - 1 \in k .. n /\ i - 1 \in 1 .. n - 1 /\ ~(i <= i - 1) /\ i - 1 + 1 = i
        BY <1>2, <3>3
      <3>5. loadingLibs[i - 1].lib \in closed
        BY <3>2, <3>4
      <3>6. loadingLibs[i].lib \in ToSet(imports[loadingLibs[i - 1].lib])
        BY <1>1, <3>4
      <3>7. loadingLibs[i].lib \in closed
        BY <1>5, <3>5, <3>6 DEF ImportsStayIn
      <3> QED BY <3>7
    <2>2. n \in k .. n
      BY <1>2
    <2> QED BY <1>4, <2>1, <2>2
  <1> QED BY <1>4, <1>5 DEF ReachableFrom

(* The body of a library is compiled, after the imports it does not share  *)
(* with the libraries that are importing it.                               *)
LEMMA BodyComesLast ==
    ASSUME ImportsInv, Parsing, Left = <<>>, ~hasError, NEW target \in ToSet(imports[Mode])
    PROVE  target \in ToSet(compiled) \/ Mode \in ReachableFrom({target})
  <1>1. Types /\ ParseInv /\ ImportsMet
    BY DEF ImportsInv, MetInv
  <1>2. /\ Len(loadingLibs) \in DOMAIN loadingLibs
        /\ Last(loadingLibs) = loadingLibs[Len(loadingLibs)]
    BY <1>1, TopCall DEF Types, Parsing
  <1>3. target \in importMap \cup ToSet(Left)
    BY <1>1, <1>2 DEF ImportsMet, Mode, Left
  <1>4. ToSet(Left) = {}
    BY DEF ToSet
  <1>5. target \in ToSet(compiled) \/ target \in LibsOf(loadingLibs)
    BY <1>1, <1>3, <1>4 DEF ParseInv
  <1> QED BY <1>5, StillImporting

(* The parser comes to the end of a library: nothing that it has met is   *)
(* lost, and what is wrong with the library is reported.                   *)
LEMMA ParseBodyKeeps ==
    ASSUME ImportsInv, ParseBody
    PROVE  ImportsInv'
  <1>1. PICK n, m, mode, next, done :
            /\ n = Len(loadingLibs) /\ m = Len(compiled) /\ mode = Mode
            /\ next = loadingLibs' /\ done = compiled'
    OBVIOUS
  <1>2. /\ Parsing /\ Left = <<>> /\ done = Append(compiled, mode) /\ next = Front(loadingLibs)
        /\ importMap' = importMap /\ Unloading
        /\ state' = IF n > 1 THEN state ELSE StateAfterParsing(hasError')
    BY <1>1 DEF ParseBody
  <1>3. /\ hasError' \in BOOLEAN /\ logged' \in BOOLEAN
        /\ ~hasError' => ~hasError /\ ~HasFlaw("syntax", mode)
    <2>1. hasError \in BOOLEAN /\ logged \in BOOLEAN
      BY DEF ImportsInv, Types
    <2>2. CASE hasError' = TRUE /\ logged' = TRUE
      BY <2>2
    <2>3. CASE ~HasFlaw("syntax", Mode) /\ UNCHANGED <<hasError, logged>>
      <3>1. ~HasFlaw("syntax", mode)
        BY <1>1, <2>3
      <3> QED BY <2>1, <2>3, <3>1
    <2> QED BY <2>2, <2>3 DEF ParseBody
  <1>4. SourceInv /\ Types /\ PhaseInv /\ ParseInv /\ MetInv /\ ImportsComeFirst
    BY DEF ImportsInv
  <1>5. /\ SourceInv' /\ LoadInv' /\ GatherInv' /\ Main \in lexed /\ loading' = <<>>
        /\ lexed' = lexed /\ Reachable' = Reachable /\ imports' = imports /\ flaw' = flaw
    BY <1>2, ParsingKeepsLoaded
  <1>6. /\ n \in Nat \ {0} /\ DOMAIN loadingLibs = 1 .. n /\ n \in 1 .. n
        /\ mode = loadingLibs[n].lib /\ loadingLibs[n].rest = <<>> /\ mode \in Libraries
        /\ mode \in LibsOf(loadingLibs)
    <2>1. /\ n \in Nat \ {0} /\ DOMAIN loadingLibs = 1 .. n /\ n \in DOMAIN loadingLibs
          /\ Last(loadingLibs) = loadingLibs[n]
          /\ Last(loadingLibs).lib \in LibsOf(loadingLibs) /\ LibsOf(loadingLibs) \subseteq Libraries
      BY <1>1, <1>2, <1>4, TopCall DEF Types, Parsing
    <2> QED BY <1>1, <1>2, <2>1 DEF Mode, Left
  <1>7. /\ next \in Seq(Calls) /\ Len(next) = n - 1 /\ DOMAIN next = 1 .. n - 1
        /\ \A i \in 1 .. n - 1 : next[i] = loadingLibs[i]
        /\ LibsOf(loadingLibs) = LibsOf(next) \cup {mode}
        /\ IsStack(next, imports) /\ mode \notin LibsOf(next)
    <2>1. loadingLibs \in Seq(Calls) /\ loadingLibs # <<>> /\ IsStack(loadingLibs, imports)
      BY <1>2, <1>4 DEF Types, ParseInv, Parsing
    <2>2. /\ next \in Seq(Calls) /\ Len(next) = Len(loadingLibs) - 1
          /\ DOMAIN next = 1 .. Len(loadingLibs) - 1
          /\ \A i \in 1 .. Len(loadingLibs) - 1 : next[i] = loadingLibs[i]
          /\ LibsOf(loadingLibs) = LibsOf(next) \cup {Last(loadingLibs).lib}
          /\ IsStack(next, imports) /\ Last(loadingLibs).lib \notin LibsOf(next)
      BY <1>2, <2>1, StackShrinks
    <2> QED BY <1>1, <2>2 DEF Mode
  <1>8. /\ m \in Nat /\ DOMAIN compiled = 1 .. m
        /\ done \in Seq(Libraries) /\ Len(done) = m + 1 /\ DOMAIN done = 1 .. m + 1
        /\ \A i \in 1 .. m : done[i] = compiled[i]
        /\ done[m + 1] = mode
        /\ ToSet(done) = ToSet(compiled) \cup {mode}
    <2>1. m \in Nat /\ DOMAIN compiled = 1 .. m /\ compiled \in Seq(Libraries)
      BY <1>1, <1>4, LenProperties DEF Types
    <2>2. /\ done \in Seq(Libraries) /\ Len(done) = m + 1 /\ done[m + 1] = mode
          /\ \A i \in 1 .. m : done[i] = compiled[i]
      BY <1>1, <1>2, <1>6, <2>1, AppendProperties
    <2>3. ToSet(done) = ToSet(compiled) \cup {mode}
      BY <1>2, <1>6, <2>1, SetOfAppend
    <2> QED BY <2>1, <2>2, <2>3, LenProperties
  <1>9. /\ \A i \in 1 .. m + 1 : i = m + 1 \/ i \in 1 .. m
        /\ \A i \in 1 .. m : i \in 1 .. m + 1
        /\ \A i \in 1 .. n - 1 : i \in 1 .. n
    BY <1>6, <1>8
  <1>10. (next = <<>> <=> n = 1) /\ (n = 1 <=> ~(n > 1))
    BY <1>6, <1>7, EmptySeq
  <1>11. /\ n > 1 => state' = state
         /\ ~(n > 1) => state' = StateAfterParsing(hasError')
         /\ state' = "BYTECODE_READY" => next = <<>> /\ ~hasError'
         /\ state # "BYTECODE_READY"
         /\ state' \in {"READY", "ANALYZED", "ERROR", "BYTECODE_READY"}
    <2>1. state # "BYTECODE_READY"
      BY <1>2, <1>4 DEF PhaseInv, Parsing
    <2> QED BY <1>2, <1>3, <1>4, <1>10, <2>1 DEF StateAfterParsing, Types
  <1>12. Types'
    BY <1>1, <1>3, <1>4, <1>2, <1>7, <1>8, <1>11 DEF Types, Unloading
  <1>13. Main \in importMap /\ mode \in importMap /\ mode \notin ToSet(compiled)
    BY <1>2, <1>4, <1>6 DEF ParseInv, Parsing
  <1>14. PhaseInv'
    <2>1. Unloaded' = {} /\ LibsOf(<<>>) = {}
      BY <1>4, <1>5 DEF PhaseInv, Unloaded, LibsOf
    <2> QED BY <1>1, <1>2, <1>5, <1>11, <1>13, <2>1 DEF PhaseInv
  <1>15. ParseInv'
    <2>1. IsInjective(compiled)'
      <3>1. \A i \in 1 .. m : compiled[i] # mode
        BY <1>8, <1>13 DEF ToSet
      <3>2. \A i, j \in 1 .. m : compiled[i] = compiled[j] => i = j
        BY <1>4, <1>8 DEF ParseInv, IsInjective
      <3>3. \A i, j \in 1 .. m + 1 : done[i] = done[j] => i = j
        BY <1>8, <1>9, <3>1, <3>2
      <3> QED BY <1>1, <1>8, <3>3 DEF IsInjective
    <2>2. IsStack(loadingLibs, imports)' /\ LibsOf(loadingLibs)' = LibsOf(next)
      BY <1>1, <1>5, <1>7
    <2>3. importMap' = ToSet(compiled') \cup LibsOf(loadingLibs')
      BY <1>1, <1>2, <1>4, <1>7, <1>8 DEF ParseInv
    <2>4. ToSet(compiled') \cap LibsOf(loadingLibs') = {}
      BY <1>1, <1>4, <1>7, <1>8 DEF ParseInv
    <2>5. \A i \in 1 .. Len(loadingLibs') - 1 :
              loadingLibs'[i + 1].lib \in ToSet(imports'[loadingLibs'[i].lib])
      <3>1. Len(loadingLibs') - 1 = n - 1 - 1
        BY <1>1, <1>7
      <3>2. \A i \in 1 .. n - 1 - 1 : i \in 1 .. n - 1 /\ i + 1 \in 1 .. n - 1
        BY <1>6
      <3>3. \A i \in 1 .. n - 1 :
                loadingLibs[i + 1].lib \in ToSet(imports[loadingLibs[i].lib])
        BY <1>1, <1>4 DEF ParseInv
      <3> QED BY <1>1, <1>5, <1>7, <3>1, <3>2, <3>3
    <2>6. importMap' \subseteq Reachable' /\ importMap' \subseteq lexed' /\ Main \in importMap'
      BY <1>2, <1>4, <1>5, <1>13 DEF ParseInv
    <2> QED BY <2>1, <2>2, <2>3, <2>4, <2>5, <2>6 DEF ParseInv
  <1>16. ASSUME ~hasError' PROVE ImportsMet' /\ FlawAhead'
    <2>1. ImportsMet /\ FlawAhead
      BY <1>3, <1>4, <1>16 DEF MetInv
    <2>2. ToSet(imports[mode]) \subseteq importMap
      <3>1. ToSet(loadingLibs[n].rest) = {}
        BY <1>6 DEF ToSet
      <3> QED BY <1>6, <2>1, <3>1 DEF ImportsMet
    <2>3. ImportsMet'
      <3>1. \A lib \in ToSet(compiled') : ToSet(imports[lib]) \subseteq importMap
        BY <1>1, <1>8, <2>1, <2>2 DEF ImportsMet
      <3>2. \A i \in 1 .. n - 1 : \A target \in ToSet(imports[next[i].lib]) :
                target \in importMap \cup ToSet(next[i].rest)
        BY <1>6, <1>7, <1>9, <2>1 DEF ImportsMet
      <3> QED BY <1>1, <1>2, <1>5, <1>7, <3>1, <3>2 DEF ImportsMet
    <2>4. flaw[1] \in {"syntax", "missing"} => flaw[2] # mode
      <3>1. ~HasFlaw("missing", mode)
        <4>1. HasFlaw("missing", loadingLibs[n].lib) =>
                  loadingLibs[n].rest = imports[loadingLibs[n].lib]
          BY <1>6, <2>1 DEF FlawAhead
        <4>2. HasFlaw("missing", mode) => imports[mode] = <<>>
          BY <1>6, <4>1 DEF HasFlaw
        <4> QED BY <1>4, <4>2 DEF SourceInv, HasFlaw
      <3> QED BY <1>3, <1>4, <1>16, <3>1 DEF SourceInv, HasFlaw
    <2>5. FlawAhead'
      <3>1. \A i \in 1 .. n - 1 : next[i] = loadingLibs[i] /\ i \in DOMAIN loadingLibs
        BY <1>6, <1>7, <1>9
      <3>2. \A i \in 1 .. n - 1 :
                HasFlaw("missing", next[i].lib) => next[i].rest = imports[next[i].lib]
        BY <2>1, <3>1 DEF FlawAhead, HasFlaw
      <3>3. flaw[1] \in {"syntax", "missing"} => flaw[2] \notin ToSet(compiled')
        BY <1>1, <1>8, <2>1, <2>4 DEF FlawAhead
      <3> QED BY <1>1, <1>5, <1>7, <3>2, <3>3 DEF FlawAhead, HasFlaw
    <2> QED BY <2>3, <2>5
  <1>17. ImportsComeFirst'
    <2> SUFFICES ASSUME NEW i \in 1 .. m + 1, NEW target \in ToSet(imports[done[i]]), ~hasError'
                 PROVE  \/ target \in ToSet(SubSeq(done, 1, i - 1))
                        \/ done[i] \in ReachableFrom({target})
      BY <1>1, <1>5, <1>8 DEF ImportsComeFirst, ReachableFrom, ImportsStayIn
    <2>1. ToSet(SubSeq(done, 1, i - 1)) = {done[j] : j \in 1 .. i - 1}
      <3>1. i - 1 \in 0 .. Len(done)
        BY <1>8
      <3> QED BY <1>8, <3>1, SetOfPrefix
    <2>2. CASE i = m + 1
      <3>1. target \in ToSet(compiled) \/ mode \in ReachableFrom({target})
        BY <1>1, <1>2, <1>3, <1>8, <2>2, BodyComesLast
      <3>2. target \in ToSet(compiled) => \E j \in 1 .. m : target = done[j]
        BY <1>8 DEF ToSet
      <3>3. i - 1 = m
        BY <1>8, <2>2
      <3> QED BY <1>8, <2>1, <2>2, <3>1, <3>2, <3>3
    <2>3. CASE i \in 1 .. m
      <3>1. done[i] = compiled[i] /\ i \in DOMAIN compiled
        BY <1>8, <2>3
      <3>2. \/ target \in ToSet(SubSeq(compiled, 1, i - 1))
            \/ compiled[i] \in ReachableFrom({target})
        BY <1>3, <1>4, <3>1 DEF ImportsComeFirst
      <3>3. ToSet(SubSeq(compiled, 1, i - 1)) = {compiled[j] : j \in 1 .. i - 1}
        <4>1. i - 1 \in 0 .. Len(compiled)
          BY <1>1, <1>8, <2>3
        <4> QED BY <1>4, <4>1, SetOfPrefix DEF Types
      <3>4. \A j \in 1 .. i - 1 : done[j] = compiled[j]
        <4>1. \A j \in 1 .. i - 1 : j \in 1 .. m
          BY <1>8, <2>3
        <4> QED BY <1>8, <4>1
      <3> QED BY <2>1, <3>1, <3>2, <3>3, <3>4
    <2> QED BY <1>9, <2>2, <2>3
  <1> QED BY <1>5, <1>12, <1>14, <1>15, <1>16, <1>17 DEF ImportsInv, MetInv

(***************************************************************************)
(* The next build.                                                         *)
(***************************************************************************)
(* The registered libraries keep what they have, and all else is dropped.  *)
LEMMA RecompileKeeps ==
    ASSUME ImportsInv, Recompile
    PROVE  ImportsInv'
  <1>1. /\ loading = <<>> /\ loadingLibs = <<>> /\ loading' = <<>> /\ loadingLibs' = <<>>
        /\ state' = "READY" /\ hasError' = FALSE /\ logged' = FALSE
        /\ importMap' = {} /\ compiled' = <<>>
        /\ lexed' = lexed \ ({Main} \cup Files)
        /\ dependencies' = [lib \in Libraries |->
                              IF lib \in BuiltInSet THEN dependencies[lib] ELSE {}]
        /\ UNCHANGED sourceVars
    BY DEF Recompile, Ended
  <1>2. SourceInv /\ Types /\ LoadInv
    BY DEF ImportsInv
  <1>3. SourceInv' /\ imports' = imports /\ Loads' = Loads
    BY <1>1, <1>2, SourceKept
  <1>4. lexed' = lexed \cap BuiltInSet /\ Main \notin lexed' /\ lexed' \subseteq Libraries
    BY <1>1, <1>2, ImportsAssumption DEF Types, Libraries
  <1>5. /\ \A lib \in BuiltInSet : lib \in Libraries /\ dependencies'[lib] = dependencies[lib]
        /\ \A lib \in Libraries \ BuiltInSet : dependencies'[lib] = {}
    BY <1>1 DEF Libraries
  <1>6. NothingParsed' /\ ParseInv' /\ MetInv' /\ ImportsComeFirst' /\ DependenciesComplete'
    <2>1. NothingParsed'
      BY <1>1 DEF NothingParsed
    <2> QED BY <1>1, <2>1, NotParsing
  <1>7. Types'
    <2>1. dependencies' \in [Libraries -> SUBSET Libraries]
      BY <1>1, <1>2 DEF Types
    <2>2. compiled' \in Seq(Libraries) /\ loading' \in Seq(Calls) /\ loadingLibs' \in Seq(Calls)
      BY <1>1, EmptySeq
    <2> QED BY <1>1, <1>4, <2>1, <2>2 DEF Types
  <1>8. PhaseInv'
    BY <1>1, <1>4, <1>6 DEF PhaseInv
  <1>9. DOMAIN loading = {} /\ LibsOf(loading) = {}
    BY <1>1 DEF LibsOf
  <1>10. LoadInv'
    <2>1. IsStack(loading, imports)' /\ LibsOf(loading)' \subseteq lexed'
      BY <1>1, <1>9 DEF IsStack, LibsOf
    <2>2. 1 .. Len(loading') - 1 = {}
      BY <1>1
    <2>3. \A lib \in Libraries \ lexed' : dependencies'[lib] = {}
      BY <1>2, <1>4, <1>5 DEF LoadInv
    <2>4. \A lib \in Libraries : dependencies'[lib] \subseteq lexed'
      BY <1>2, <1>4, <1>5 DEF LoadInv
    <2>5. \A lib \in BuiltInSet : dependencies'[lib] \subseteq BuiltInSet
      BY <1>2, <1>5 DEF LoadInv
    <2> QED BY <2>1, <2>2, <2>3, <2>4, <2>5 DEF LoadInv
  <1>11. ASSUME Loads PROVE ImportsGathered' /\ BuiltInsClosed'
    <2>1. ImportsGathered /\ BuiltInsClosed
      BY <1>11 DEF ImportsInv, GatherInv
    <2>2. \A lib \in lexed' : ToSet(imports[lib]) \subseteq dependencies'[lib]
      BY <1>4, <1>5, <1>9, <2>1 DEF ImportsGathered
    <2> QED BY <1>3, <1>5, <2>1, <2>2 DEF ImportsGathered, BuiltInsClosed, ImportsStayIn
  <1>12. GatherInv'
    <2>1. NothingLost'
      BY <1>4 DEF NothingLost
    <2> QED BY <1>3, <1>6, <1>11, <2>1 DEF GatherInv
  <1> QED BY <1>3, <1>6, <1>7, <1>8, <1>10, <1>12 DEF ImportsInv

(***************************************************************************)
(* The invariant of the specification.                                     *)
(***************************************************************************)
(* It holds at first.                                                      *)
LEMMA ImportsInit ==
    ASSUME Init
    PROVE  ImportsInv
  <1>1. imports \in [Libraries -> Seq(Libraries)]
    <2>1. ImportLists(Libraries) \subseteq Seq(Libraries)
      <3>1. \A s \in ImportLists(Libraries) : \E n \in 0 .. MaxImports : s \in [1 .. n -> Libraries]
        BY DEF ImportLists, BoundedSeq, SeqOf
      <3>2. \A n \in 0 .. MaxImports : n \in Nat
        BY ImportsAssumption
      <3> QED BY <3>1, <3>2, SeqDef
    <2> QED BY <2>1 DEF Init
  <1>2. flaw = <<flaw[1], flaw[2]>>
    <2>1. flaw \in {<<"none", Main>>} \cup (Kinds \X (Reachable \cup BuiltInSet))
      BY DEF Init
    <2> QED BY <2>1
  <1>3. SourceInv
    BY <1>1, <1>2 DEF Init, SourceInv
  <1>4. /\ state = "READY" /\ hasError = FALSE /\ logged = FALSE /\ loading = <<>> /\ lexed = {}
        /\ dependencies = [lib \in Libraries |-> {}] /\ importMap = {} /\ loadingLibs = <<>>
        /\ compiled = <<>>
    BY DEF Init
  <1>5. Types
    <2>1. compiled \in Seq(Libraries) /\ loading \in Seq(Calls) /\ loadingLibs \in Seq(Calls)
      BY <1>4, EmptySeq
    <2> QED BY <1>4, <2>1 DEF Types
  <1>6. NothingParsed /\ PhaseInv
    BY <1>4 DEF NothingParsed, PhaseInv
  <1>7. DOMAIN loading = {} /\ LibsOf(loading) = {} /\ 1 .. Len(loading) - 1 = {}
        /\ DOMAIN loadingLibs = {} /\ LibsOf(loadingLibs) = {} /\ 1 .. Len(loadingLibs) - 1 = {}
        /\ DOMAIN compiled = {} /\ ToSet(compiled) = {}
    BY <1>4 DEF LibsOf, ToSet
  <1>8. IsStack(loading, imports) /\ IsStack(loadingLibs, imports) /\ IsInjective(compiled)
    BY <1>7 DEF IsStack, IsInjective
  <1>9. \A lib \in Libraries : dependencies[lib] = {}
    BY <1>4
  <1>10. BuiltInSet \subseteq Libraries
    BY DEF Libraries
  <1>11. LoadInv
    BY <1>4, <1>7, <1>8, <1>9, <1>10 DEF LoadInv
  <1>12. GatherInv
    BY <1>4, <1>9, <1>10 DEF GatherInv, ImportsGathered, BuiltInsClosed, ImportsStayIn,
                            NothingLost, DependenciesComplete
  <1>13. ParseInv
    BY <1>4, <1>7, <1>8 DEF ParseInv
  <1>14. MetInv /\ ImportsComeFirst
    BY <1>7 DEF MetInv, ImportsMet, FlawAhead, ImportsComeFirst
  <1> QED BY <1>3, <1>5, <1>6, <1>11, <1>12, <1>13, <1>14 DEF ImportsInv

(* A step that changes nothing keeps it.                                   *)
LEMMA StutteringKeeps ==
    ASSUME ImportsInv, UNCHANGED vars
    PROVE  ImportsInv'
  <1>1. /\ UNCHANGED <<imports, flaw, state, hasError, logged, loading, lexed, dependencies>>
        /\ UNCHANGED <<importMap, loadingLibs, compiled>>
    BY DEF vars, sourceVars
  <1>2. SourceInv' /\ Reachable' = Reachable /\ Loads' = Loads
    BY <1>1, SourceKept DEF ImportsInv, sourceVars
  <1>3. Types' /\ PhaseInv'
    BY <1>1 DEF ImportsInv, Types, PhaseInv, NothingParsed, Unloaded, Importing
  <1>4. LoadInv'
    BY <1>1 DEF ImportsInv, LoadInv
  <1>5. GatherInv'
    <2>1. ImportsGathered' = ImportsGathered /\ BuiltInsClosed' = BuiltInsClosed
      BY <1>1 DEF ImportsGathered, BuiltInsClosed, ImportsStayIn
    <2>2. Ahead' = Ahead
      BY <1>1 DEF Ahead
    <2>3. NothingLost' = NothingLost
      BY <1>1, <2>2 DEF NothingLost, Gathered
    <2>4. DependenciesComplete' = DependenciesComplete
      BY <1>1, <1>2 DEF DependenciesComplete
    <2> QED BY <1>2, <2>1, <2>3, <2>4 DEF ImportsInv, GatherInv
  <1>6. ParseInv'
    BY <1>1, <1>2 DEF ImportsInv, ParseInv
  <1>7. MetInv'
    BY <1>1 DEF ImportsInv, MetInv, ImportsMet, FlawAhead, HasFlaw
  <1>8. ImportsComeFirst'
    BY <1>1 DEF ImportsInv, ImportsComeFirst, ReachableFrom, ImportsStayIn
  <1> QED BY <1>2, <1>3, <1>4, <1>5, <1>6, <1>7, <1>8 DEF ImportsInv

(* Every step keeps the invariant.                                         *)
LEMMA NextKeeps ==
    ASSUME ImportsInv, [Next]_vars
    PROVE  ImportsInv'
  <1>1. CASE LoadBuiltIn
    BY <1>1, LoadBuiltInKeeps
  <1>2. CASE LoadMainSource
    BY <1>2, LoadMainSourceKeeps
  <1>3. CASE ImportLoaded
    BY <1>3, ImportLoadedKeeps
  <1>4. CASE ImportNew
    BY <1>4, ImportNewKeeps
  <1>5. CASE ImportMissing
    BY <1>5, ImportMissingKeeps
  <1>6. CASE LibraryLoaded
    BY <1>6, LibraryLoadedKeeps
  <1>7. CASE MainLoaded
    BY <1>7, MainLoadedKeeps
  <1>8. CASE ParseKnownImport
    BY <1>8, ParseKnownImportKeeps
  <1>9. CASE ParseImport
    BY <1>9, ParseImportKeeps
  <1>10. CASE ParseImportMissing
    BY <1>10, ParseImportMissingKeeps
  <1>11. CASE ParseBody
    BY <1>11, ParseBodyKeeps
  <1>12. CASE Recompile
    BY <1>12, RecompileKeeps
  <1>13. CASE Finished \/ UNCHANGED vars
    BY <1>13, StutteringKeeps DEF Finished
  <1> QED BY <1>1, <1>2, <1>3, <1>4, <1>5, <1>6, <1>7, <1>8, <1>9, <1>10, <1>11, <1>12, <1>13
          DEF Next, Load, Parse

(* The phases of a build, what the loading has gathered and what the       *)
(* parser has met, in every state that a build reaches.                    *)
THEOREM ImportsInvariant == Spec => []ImportsInv
  <1>1. Init => ImportsInv
    BY ImportsInit
  <1>2. ImportsInv /\ [Next]_vars => ImportsInv'
    BY NextKeeps
  <1> QED BY <1>1, <1>2, PTL DEF Spec

(* A program that compiles is the main source and everything it imports,   *)
(* once each, with no error that the parser sees; and the parser is handed *)
(* all the dependencies that it needs for that, whatever libraries import  *)
(* each other.                                                             *)
THEOREM ProgramIsComplete == Spec => []CompleteProgram
  <1>1. ASSUME ImportsInv PROVE CompleteProgram
    <2>1. SourceInv /\ PhaseInv /\ ParseInv /\ MetInv /\ GatherInv
      BY <1>1 DEF ImportsInv
    <2>2. DependenciesComplete
      <3>1. Loads => DependenciesComplete
        BY <2>1 DEF GatherInv
      <3> QED BY <3>1 DEF DependenciesComplete, Loads
    <2>3. ASSUME state = "BYTECODE_READY"
          PROVE  /\ IsInjective(compiled) /\ ToSet(compiled) = Reachable
                 /\ flaw[1] \in {"syntax", "missing"} => flaw[2] \notin Reachable
      <3>1. loadingLibs = <<>> /\ ~hasError /\ Main \in importMap
        BY <2>1, <2>3 DEF PhaseInv
      <3>2. IsInjective(compiled) /\ importMap = ToSet(compiled) /\ importMap \subseteq Reachable
        BY <2>1, <3>1 DEF ParseInv, LibsOf
      <3>3. ImportsMet /\ FlawAhead
        BY <2>1, <3>1 DEF MetInv
      <3>4. Reachable \subseteq Libraries
        BY <2>1, ReachableClosed
      <3>5. Reachable \subseteq importMap
        <4>1. importMap \in SUBSET Libraries /\ Main \in importMap
          BY <3>1, <3>2, <3>4
        <4>2. ImportsStayIn(importMap)
          BY <3>2, <3>3 DEF ImportsMet, ImportsStayIn
        <4> QED BY <4>1, <4>2 DEF Reachable, ReachableFrom
      <3> QED BY <3>2, <3>3, <3>5 DEF FlawAhead
    <2> QED BY <2>2, <2>3 DEF CompleteProgram
  <1> QED BY <1>1, ImportsInvariant, PTL

(* The body of a library is compiled after all it imports, unless an error *)
(* was reported or the import imports the library in turn.                 *)
THEOREM ImportsAreFirst == Spec => []ImportsComeFirst
  <1>1. ImportsInv => ImportsComeFirst
    BY DEF ImportsInv
  <1> QED BY <1>1, ImportsInvariant, PTL
================================================================================
