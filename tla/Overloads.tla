------------------------------ MODULE Overloads ------------------------------
(***************************************************************************)
(* Which function a call means, and what it is passed (CallNode::optimize, *)
(* match and matchFunction).  The functions of a name stand in up to two   *)
(* lists, that of a class and that of the file.  They are tried one after  *)
(* another: a function that takes the arguments has a score, the better    *)
(* one is kept, and a tie is remembered until a better one comes.  Then    *)
(* the arguments are put in the order of the parameters, defaults are      *)
(* filled in, and each is converted to its parameter's type.  A function   *)
(* object is called with what there is.                                    *)
(*                                                                         *)
(* A type is a class and what it is `of': the elements of an Array, the    *)
(* parameters of a Function ("zero" or "one").                             *)
(***************************************************************************)
EXTENDS Integers, Sequences, FiniteSets, SequencesExt, FiniteSetsExt

CONSTANTS
    Names,    \* of classes, of kinds of arguments and of parameters
    Families, \* sets of [functions, call]: the calls that are compiled
    Implicit  \* [class -> the parameters of its implicit constructors, in order]

None == "none"
\* Derived extends Base; every other class extends none.
Extends(class, base) == class = "Derived" /\ base = "Base"

(* What a function, an argument and a call are.  Nothing is declared a     *)
(* Null: that is the class of null and of a literal that has no type yet.  *)
Declared == Names \ {"Null"}
Arguments == [kind : Names, class : Names, of : Declared, nullable : BOOLEAN, name : Names]
Parameters == [name : Names, class : Declared, of : Declared, nullable : BOOLEAN]
Functions == [parameters : Seq(Parameters), optional : Nat, generic : BOOLEAN, bound : Names,
              public : BOOLEAN, later : BOOLEAN, static : BOOLEAN, safe : BOOLEAN]
CallRecords == [form : Names, inside : BOOLEAN, arguments : Seq(Arguments)]
CallsAreTyped ==
    /\ {"none", "bad", "Base", "Any", "Array", "value"} \subseteq Names
    /\ \A family \in Families : \A c \in family :
          /\ c.functions \in Seq(Seq(Functions)) /\ c.functions # <<>>
          /\ c.call \in CallRecords
          /\ c.call.form = "object" => c.functions[1] # <<>>
          /\ \A k \in DOMAIN c.call.arguments :
                c.call.arguments[k].kind = "array" => c.call.arguments[k].class = "Null"

VARIABLES
    functions,  \* the lists of functions of the name
    call,       \* the call
    phase,      \* "infer", "match", "bind", "object" or "done"
    at,         \* [list, index] of the function to try next
    score,      \* what the match at work has added up
    best,       \* [function, score] of the best so far, or NoBest
    ambiguous,  \* another one has the same score
    outcome,    \* the function called, or why there is none
    passed,     \* the arguments, in the order of the parameters
    doubt       \* what known construct the call has met

vars == <<functions, call, phase, at, score, best, ambiguous, outcome, passed, doubt>>

NoFunction == [parameters |-> <<>>, optional |-> 0, generic |-> FALSE, bound |-> None,
               public |-> TRUE, later |-> FALSE, static |-> TRUE, safe |-> FALSE]
NoBest == [function |-> NoFunction, score |-> -1]

-----------------------------------------------------------------------------
(* How well an argument suits a parameter.                                 *)

SameClass(a, p) == a.class = p.class /\ (a.of = p.of \/ a.class = "Function")
Inherits(a, p) == Extends(a.class, p.class)
Literal(a) == a.kind = "array"            \* [...] without a type yet
Untyped(a) == a.class = "Null"            \* null, or a literal

(* canImplicitConvert: an implicit constructor takes the argument.         *)
Takes(c, a) ==
    /\ a.nullable => c.nullable
    /\ \/ SameClass(a, c) \/ c.class = "Any" \/ Inherits(a, c)
       \/ c.class = "Float" /\ a.class = "Int"
       \/ Literal(a) /\ c.class = "Array"
\* A constructor without parameters (None) makes an object of an empty literal.
Makes(c, a) == IF c.class = None THEN Literal(a) /\ a.of = None ELSE Takes(c, a)
CanConvert(a, p) == \E c \in ToSet(Implicit[p.class]) : Makes(c, a)

(* A Function fits one with as many parameters, a closure without any also *)
(* one with `it'; a name of a function is looked at later.                 *)
SignatureIs(a, p) == a.of = p.of \/ (a.kind = "closure" /\ a.of = "zero" /\ p.of = "one")
SignatureFits(a, p) == a.kind = "access" \/ SignatureIs(a, p)

\* -1: the function does not take it.
Points(a, p, named) ==
    IF SameClass(a, p) THEN (IF a.class # "Function" \/ SignatureFits(a, p) THEN 2 ELSE -1)
    ELSE IF p.class = "Any" THEN 1
    ELSE IF Literal(a)
         THEN IF p.class = "Array" THEN (IF ~named /\ a.of # None /\ a.of = p.of THEN 3 ELSE 1)
              ELSE IF CanConvert(a, p) THEN 1 ELSE -1
    ELSE IF Untyped(a) \/ Inherits(a, p) \/ (a.class = "Int" /\ p.class = "Float")
            \/ CanConvert(a, p) THEN 1
    ELSE -1

(* Which argument goes to which parameter, 0 for none: those with a name   *)
(* stand behind those without.                                             *)
Positional(c) == Cardinality({k \in DOMAIN c.arguments : c.arguments[k].name = None})
Named(c) == Positional(c) < Len(c.arguments)
AssignedTo(f, c, p) ==
    IF p <= Positional(c) THEN p
    ELSE LET by == {k \in DOMAIN c.arguments : c.arguments[k].name = f.parameters[p].name}
         IN  IF by = {} THEN 0 ELSE Min(by)
Assigned(f, c) == [p \in DOMAIN f.parameters |-> AssignedTo(f, c, p)]
Bindable(f, c) ==
    /\ Len(c.arguments) <= Len(f.parameters)
    /\ \A k \in DOMAIN c.arguments : \E p \in DOMAIN f.parameters : Assigned(f, c)[p] = k
    /\ \A p \in DOMAIN f.parameters :
          Assigned(f, c)[p] = 0 => p > Len(f.parameters) - f.optional

(* The parameters are looked at in order; a function that does not take an *)
(* argument has already scored with those before.                          *)
Scan(f, c) ==
    LET Add(sum, p) ==
            LET k == Assigned(f, c)[p]
                points == Points(c.arguments[k], f.parameters[p], Named(c))
            IN  IF ~sum.takes \/ k = 0 THEN sum
                ELSE IF points < 0 THEN [sum EXCEPT !.takes = FALSE]
                ELSE [sum EXCEPT !.score = @ + points]
    IN  FoldLeft(Add, [takes |-> TRUE, score |-> 0], [p \in DOMAIN f.parameters |-> p])

-----------------------------------------------------------------------------
(* The type argument of a generic function (tryInferGenericArguments).     *)
(* The type variable is "T".                                               *)

Type(class, of) == [class |-> class, of |-> of]
Unbound == Type(None, None)
Bad == Type("bad", None)
Fits(x, base) == x.class = base \/ Extends(x.class, base)
Common(x, y) ==
    Type(IF {x.class, y.class} \subseteq {"Base", "Derived"} THEN "Base" ELSE "Any", None)
Bind(t, x) ==
    IF t \in {Unbound, x} \/ Extends(t.class, x.class) THEN x
    ELSE IF Extends(x.class, t.class) THEN t ELSE Common(t, x)
(* What an argument binds T to, if anything; Bad when it may not.          *)
Binds(f, a, p) ==
    LET x == IF p.class = "T" THEN (IF Untyped(a) THEN Unbound ELSE Type(a.class, a.of))
             ELSE IF p.of = "T" /\ a.class = "Array" THEN Type(a.of, None)
             ELSE Unbound
    IN  IF \/ p.class = "T" /\ x = Unbound /\ ~p.nullable
           \/ x # Unbound /\ f.bound # None /\ ~Fits(x, f.bound)
        THEN Bad ELSE x
Inferred(f, c) ==
    LET fits == /\ Len(c.arguments) <= Len(f.parameters)
                /\ Len(c.arguments) >= Len(f.parameters) - f.optional
        Add(t, k) == LET x == Binds(f, c.arguments[k], f.parameters[k])
                     IN  IF Bad \in {t, x} THEN Bad ELSE IF x = Unbound THEN t ELSE Bind(t, x)
        t == FoldLeft(Add, Unbound, [k \in DOMAIN c.arguments |-> k])
    IN  IF fits /\ t # Bad THEN t ELSE Unbound

(* loadFunctionGenerics makes every generic function of the name.          *)
Substitute(f, t) ==
    [f EXCEPT !.generic = FALSE,
              !.parameters = [p \in DOMAIN @ |->
                  IF @[p].class = "T" THEN [@[p] EXCEPT !.class = t.class, !.of = t.of]
                  ELSE IF @[p].of = "T" THEN [@[p] EXCEPT !.of = t.class]
                  ELSE @[p]]]

\* Those of the first list that can be inferred from, and what stands in the way.
Generic(list) ==
    FoldLeft(LAMBDA found, f : IF f.generic THEN Append(found, f) ELSE found, <<>>, list)
TakesAsTheyAre(f, c) ==
    /\ ~f.generic
    /\ Len(c.arguments) <= Len(f.parameters)
    /\ Len(c.arguments) >= Len(f.parameters) - f.optional
    /\ \A k \in DOMAIN c.arguments :
          LET a == c.arguments[k]
              p == f.parameters[k]
          IN  SameClass(a, p) \/ p.class = "Any" \/ Inherits(a, p)
\* A literal has been given the type of its elements by then.
Typed(a) == IF Literal(a) THEN [a EXCEPT !.kind = "value", !.class = "Array"] ELSE a

Infer ==
    LET list == Last(functions)
        typed == [call EXCEPT !.arguments = [k \in DOMAIN @ |-> Typed(@[k])]]
        able == SelectSeq(Generic(list), LAMBDA f : Inferred(f, typed) # Unbound)
        needed == Generic(list) # <<>> /\ \A f \in ToSet(list) : ~TakesAsTheyAre(f, call)
    IN  /\ phase = "infer" /\ phase' = "match"
        /\ call' = IF needed THEN typed ELSE call
        /\ functions' =
             IF ~needed \/ able = <<>> THEN functions
             ELSE LET t == Inferred(able[1], typed)
                  IN  [functions EXCEPT ![Len(functions)] =
                          [k \in DOMAIN Generic(list) |-> Substitute(Generic(list)[k], t)]]
        /\ UNCHANGED <<at, score, best, ambiguous, outcome, passed, doubt>>

-----------------------------------------------------------------------------
(* The search.  A call of match goes on until a function takes the         *)
(* arguments or its list ends.                                             *)

List == functions[at.list]
Trying == List[at.index]
Skipped(f) ==
    \/ ~f.static /\ call.form = "class"
    \/ f.later \/ f.generic
    \/ ~Bindable(f, call)
Suitable(f) == ~Skipped(f) /\ Scan(f, call).takes
GoOn == at' = [at EXCEPT !.index = @ + 1]
InMatch == phase = "match" /\ at.list <= Len(functions) /\ UNCHANGED <<functions, call, passed>>

Reject ==
    /\ InMatch /\ at.index <= Len(List)
    /\ ~Suitable(Trying)
    /\ GoOn
    /\ score' = IF Skipped(Trying) THEN score ELSE score + Scan(Trying, call).score
    /\ doubt' = IF score' > 0 THEN doubt \cup {"kept"} ELSE doubt
    /\ UNCHANGED <<phase, best, ambiguous, outcome>>

(* The score of the functions rejected in this call of match counts.       *)
Total == score + Scan(Trying, call).score
\* Mutant: a tie is not forgotten when a better function comes.
ConsiderForTies(total, f) ==
    /\ best' = IF total > best.score THEN [function |-> f, score |-> total] ELSE best
    /\ ambiguous' = (ambiguous \/ total = best.score)
Consider(total, f) ==
    /\ best' = IF total > best.score THEN [function |-> f, score |-> total] ELSE best
    /\ ambiguous' = ((ambiguous /\ total <= best.score) \/ total = best.score)
Accept ==
    /\ InMatch /\ at.index <= Len(List)
    /\ Suitable(Trying)
    /\ GoOn /\ score' = 0
    /\ Consider(Total, Trying)
    /\ UNCHANGED <<phase, outcome, doubt>>

EndOfList ==
    /\ InMatch /\ at.index > Len(List)
    /\ at' = [list |-> at.list + 1, index |-> 1] /\ score' = 0
    /\ UNCHANGED <<phase, best, ambiguous, outcome, doubt>>

NotFound ==
    /\ phase = "match" /\ at.list > Len(functions) /\ best = NoBest
    /\ phase' = "done" /\ outcome' = "missing"
    /\ UNCHANGED <<functions, call, at, score, best, ambiguous, passed, doubt>>
Ambiguous ==
    /\ phase = "match" /\ at.list > Len(functions) /\ best # NoBest /\ ambiguous
    /\ phase' = "done" /\ outcome' = "ambiguous"
    /\ UNCHANGED <<functions, call, at, score, best, ambiguous, passed, doubt>>

-----------------------------------------------------------------------------
(* The function is known: the arguments take their places.                 *)

Chosen == best.function.parameters
DefaultOf(p) ==
    [kind |-> "default", class |-> p.class, of |-> p.of, nullable |-> FALSE, name |-> None]
Arrange ==
    /\ phase = "match" /\ at.list > Len(functions) /\ best # NoBest /\ ~ambiguous
    /\ IF call.form = "nullable" /\ ~best.function.safe
       THEN phase' = "done" /\ outcome' = "receiver" /\ UNCHANGED passed
       ELSE /\ phase' = "bind" /\ UNCHANGED outcome
            /\ passed' = [p \in DOMAIN Chosen |->
                 LET k == Assigned(best.function, call)[p]
                 IN  IF k = 0 THEN DefaultOf(Chosen[p]) ELSE call.arguments[k]]
    /\ UNCHANGED <<functions, call, at, score, best, ambiguous, doubt>>

(* An argument becomes what its parameter expects, if it can.              *)
As(a, p) == [a EXCEPT !.kind = "value", !.class = p.class, !.of = p.of]
\* Mutant: what an implicit constructor takes is passed as it is.
ConvertedBuiltIn(a, p) ==
    IF (a.class = "Int" /\ p.class = "Float") \/ (Literal(a) /\ p.class = "Array") THEN As(a, p)
    ELSE a
Converted(a, p) ==
    IF SameClass(a, p) \/ Inherits(a, p) \/ (Untyped(a) /\ ~Literal(a)) THEN a
    ELSE IF (a.class = "Int" /\ p.class = "Float") \/ (Literal(a) /\ p.class = "Array")
            \/ (p.class # "Any" /\ CanConvert(a, p)) THEN As(a, p)
    ELSE a
(* Why a call is refused after all.  Every literal is counted off from the *)
(* nulls that parameters do not take, whether it was counted there or not. *)
Nulls(arguments, parameters) ==
    Cardinality({p \in DOMAIN parameters : Untyped(arguments[p]) /\ ~parameters[p].nullable})
        - Cardinality({p \in DOMAIN parameters : Literal(arguments[p])})
Refused(a, p) ==
    IF a.nullable /\ ~p.nullable THEN "null"
    ELSE IF Literal(a) /\ p.class # "Array" /\ ~CanConvert(a, p) THEN "missing"
    ELSE IF \/ Literal(a) /\ p.class = "Array" /\ a.of \notin {None, p.of}
            \/ a.class = "Function" /\ SameClass(a, p) /\ ~SignatureIs(a, p)
            \/ a.kind \in {"closure", "access"} /\ p.class = "Any" THEN "mismatch"
    ELSE None
\* The reason of the first argument that has one.
FirstReason(reasons) ==
    LET bad == {p \in DOMAIN reasons : reasons[p] # None}
    IN  IF bad = {} THEN None ELSE reasons[Min(bad)]
Convert ==
    /\ phase = "bind" /\ phase' = "done"
    /\ passed' = [p \in DOMAIN Chosen |-> Converted(passed[p], Chosen[p])]
    /\ LET reason == FirstReason([p \in DOMAIN Chosen |-> Refused(passed[p], Chosen[p])])
       IN  outcome' =
              IF reason # None THEN reason
              ELSE IF Nulls(passed, Chosen) # 0 THEN "null"
              ELSE IF ~best.function.public /\ ~call.inside THEN "private"
              ELSE "called"
    /\ doubt' = doubt \cup
         (IF \E p \in DOMAIN Chosen : Literal(passed[p])
                /\ (Chosen[p].nullable \/ Chosen[p].class = "Any")
          THEN {"literal"} ELSE {})
    /\ UNCHANGED <<functions, call, at, score, best, ambiguous>>

(* A function object: the arguments are looked at until one is a Function. *)
(* Any takes whatever is not null as it is, and what is of a class that    *)
(* has nothing to do with the parameter's goes through.                    *)
RefusedByObject(a, p) ==
    IF p.class = "Any" /\ (p.nullable \/ ~a.nullable) THEN None ELSE Refused(a, p)
ConvertedByObject(a, p) ==
    IF p.class # "Any" /\ (Literal(a) \/ (a.class = "Int" /\ p.class = "Float"))
    THEN Converted(a, p) ELSE a
Unsuited(a, p) ==
    \/ Points(a, p, FALSE) < 0 \/ CanConvert(a, p)
    \/ p.class = "Any" /\ a.kind \in {"array", "closure", "access"}
Object == functions[1][1]
ObjectNotFound ==
    /\ phase = "object" /\ Len(Object.parameters) # Len(call.arguments)
    /\ phase' = "done" /\ outcome' = "missing"
    /\ UNCHANGED <<functions, call, at, score, best, ambiguous, passed, doubt>>
CallObject ==
    LET parameters == Object.parameters
        isFunction == {p \in DOMAIN parameters :
                         {call.arguments[p].class, parameters[p].class} = {"Function"}}
        seen == IF isFunction = {} THEN DOMAIN parameters ELSE 1 .. Min(isFunction)
        reason == FirstReason([p \in seen |-> RefusedByObject(call.arguments[p], parameters[p])])
    IN  /\ phase = "object" /\ Len(parameters) = Len(call.arguments)
        /\ phase' = "done" /\ best' = [function |-> Object, score |-> 0]
        /\ outcome' = IF reason # None THEN reason ELSE "called"
        /\ passed' = [p \in DOMAIN parameters |->
                        IF p \in seen THEN ConvertedByObject(call.arguments[p], parameters[p])
                        ELSE call.arguments[p]]
        /\ doubt' = IF seen # DOMAIN parameters
                       \/ \E p \in seen : Unsuited(passed'[p], parameters[p])
                    THEN {"unchecked"} ELSE {}
        /\ UNCHANGED <<functions, call, at, score, ambiguous>>

Init ==
    /\ \E family \in Families : \E c \in family : functions = c.functions /\ call = c.call
    /\ phase = IF call.form = "object" THEN "object" ELSE "infer"
    /\ at = [list |-> 1, index |-> 1] /\ score = 0
    /\ best = NoBest /\ ambiguous = FALSE
    /\ outcome = None /\ passed = <<>> /\ doubt = {}

Next ==
    \/ Infer \/ Reject \/ Accept \/ EndOfList \/ NotFound \/ Ambiguous
    \/ Arrange \/ Convert \/ ObjectNotFound \/ CallObject

Spec == Init /\ [][Next]_vars

-----------------------------------------------------------------------------
(* What a call means, whatever the order of the functions: of those that   *)
(* take the arguments, the one with the highest score.                     *)
Places == UNION {{<<k, i>> : i \in DOMAIN functions[k]} : k \in DOMAIN functions}
FunctionAt(place) == functions[place[1]][place[2]]
Candidates == {q \in Places : Suitable(FunctionAt(q))}
ScoreOf(place) == Scan(FunctionAt(place), call).score
Winners == {q \in Candidates : \A r \in Candidates : ScoreOf(r) <= ScoreOf(q)}

(* A call means the function that suits it best, in whatever order the     *)
(* functions are declared: it is ambiguous only if two suit it as well,    *)
(* and not found only if none takes the arguments.  Except that match      *)
(* keeps the score of a function it has rejected for the next one, and     *)
(* that a literal it takes for Any is then not found (CallNode::match,     *)
(* optimize).                                                              *)
BestIsChosen ==
    phase = "done" /\ call.form # "object" /\ doubt = {} =>
        /\ outcome = "missing" <=> Candidates = {}
        /\ outcome = "ambiguous" <=> Cardinality(Winners) > 1
        /\ outcome \notin {"missing", "ambiguous"} =>
              Winners = {q \in Candidates : FunctionAt(q) = best.function}

(* An argument can be read as what its parameter says it is.               *)
Suits(a, p) ==
    /\ a.nullable => p.nullable
    /\ SameClass(a, p) \/ p.class = "Any" \/ Inherits(a, p) \/ (Untyped(a) /\ ~Literal(a))

(* Every parameter of a function that is called holds what its type says,  *)
(* as many as it has; except that a function object does not look behind   *)
(* an argument that is a Function, nor at the class of any other           *)
(* (CallNode::optimize, matchFunction).                                    *)
ArgumentsSuit ==
    outcome = "called" /\ "unchecked" \notin doubt =>
        /\ Len(passed) = Len(Chosen)
        /\ \A p \in DOMAIN Chosen : Suits(passed[p], Chosen[p])
=============================================================================
