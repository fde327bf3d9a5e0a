------------------------------ MODULE Generics ------------------------------
(***************************************************************************)
(* Specialising generic classes, functions, member functions and type      *)
(* aliases (DebuggerGenericClass.cpp, DebuggerGenericFunction.cpp,         *)
(* ClassDeclaration.cpp).                                                  *)
(*                                                                         *)
(* Every generic definition is a template with one type parameter, T, or U *)
(* for a member function, whose class has T.  A type is the sequence of    *)
(* its names: <<"Box", "Int">> is Box<Int>.  The uses of types in a        *)
(* template (ClassDeclaration) are trees that all its specialisations      *)
(* share: each level remembers the class it has been resolved to until it  *)
(* is reset, and a call remembers the name it was last given.  Making a    *)
(* specialisation binds the parameter, resolves the uses, which may make   *)
(* others first, copies what was resolved, and puts the parameter back.    *)
(***************************************************************************)
EXTENDS Integers, Sequences, SequencesExt, FiniteSetsExt

CONSTANTS
    Programs,   \* [templates, calls]: what is declared, and what the program asks for
    Extends,    \* pairs of plain classes: the first inherits from the second
    MaxDepth    \* bound: specialisations under way at the same time

VARIABLES
    templates,  \* by name: [kind, of, bound, uses], uses a sequence of [place, type, on]
    tree,       \* by use: its levels, [name, is]: the class it has been resolved to
    name,       \* by use in a call: the type the call names
    bind,       \* by template: the type its parameter stands for
    stack,      \* the specialisations under way, below them the program
    made,       \* the specialisations that are complete, in order
    registered, \* the classes and functions that can be found by name
    result      \* "none", "compiled", "exhausted" or the reason of a refusal

vars == <<templates, tree, name, bind, stack, made, registered, result>>

NoType == <<>>
NoTemplate == "none"

-----------------------------------------------------------------------------
(* Uses of types.                                                          *)

Kind(t) == templates[t].kind
Owner(t) == templates[t].of
IsA(t, kinds) == t \in DOMAIN templates /\ Kind(t) \in kinds
Uses(t) == [i \in DOMAIN templates[t].uses |-> <<t, i>>]
AllUses == UNION {ToSet(Uses(t)) : t \in DOMAIN templates}
Place(u) == templates[u[1]].uses[u[2]].place
Written(u) == templates[u[1]].uses[u[2]].type
On(u) == templates[u[1]].uses[u[2]].on

(* The template whose parameter a name is in a use: that of the template   *)
(* itself, and in a member function also that of its class.                *)
ParameterOf(t, leaf) ==
    CASE leaf = "U" /\ Kind(t) = "method"                       -> t
      [] leaf = "T" /\ Kind(t) = "method"                       -> Owner(t)
      [] leaf = "T" /\ Kind(t) \in {"class", "function", "alias"} -> t
      [] OTHER                                                  -> NoTemplate
IsGeneric(u) == ParameterOf(u[1], Last(Written(u))) # NoTemplate

Levels(type) == [k \in DOMAIN type |-> [name |-> type[k], is |-> NoType]]
Names(levels) == [k \in DOMAIN levels |-> levels[k].name]
(* Most places forget the outermost class only; resetClassDeclTree forgets *)
(* all but the parameter itself.                                           *)
Forget(levels) == IF Len(levels) > 1 THEN [levels EXCEPT ![1].is = NoType] ELSE levels
Reset(levels) == [k \in DOMAIN levels |->
                     IF k < Len(levels) THEN [levels[k] EXCEPT !.is = NoType] ELSE levels[k]]

(* ClassDeclaration::getName: what is resolved gives its name.             *)
Stands(t, leaf) ==
    CASE leaf.is # NoType                                        -> leaf.is
      [] leaf.is = NoType /\ ParameterOf(t, leaf.name) # NoTemplate -> bind[ParameterOf(t, leaf.name)]
      [] OTHER                                                 -> <<leaf.name>>
NameFrom(t, levels, k) ==
    LET j == Min({i \in k .. Len(levels) : levels[i].is # NoType} \cup {Len(levels)})
    IN  Names(SubSeq(levels, k, j - 1))
        \o (IF j = Len(levels) THEN Stands(t, levels[j]) ELSE levels[j].is)

(* A copy keeps what the parameter stands for (ClassDeclaration::copy).    *)
Copied(t, levels) == [levels EXCEPT ![Len(levels)].is = Stands(t, levels[Len(levels)])]

-----------------------------------------------------------------------------
(* What a specialisation does: jobs on its uses of types, in order.        *)

Job(do, use) == [do |-> do, use |-> use]
Jobs(do, uses) == [i \in DOMAIN uses |-> Job(do, uses[i])]
At(t, place) == SelectSeq(Uses(t), LAMBDA u : Place(u) = place)
GenericAt(t, place) == SelectSeq(At(t, place), IsGeneric)
PlainAt(t, place) == SelectSeq(At(t, place), LAMBDA u : ~ IsGeneric(u))

(* The calls that are renamed with t: those of its parameter, which for a  *)
(* class may stand in a generic member function too (mustRenameNodes).     *)
(* The calls T() are renamed at once, with the binding (allCallNodes).     *)
CallsIn(s, t) == SelectSeq(At(s, "call"), LAMBDA u : ParameterOf(s, Last(Written(u))) = t)
MethodsOf(t) == {s \in DOMAIN templates : Kind(s) = "method" /\ Owner(s) = t}
Renamed(t) == CallsIn(t, t) \o FlattenSeq(SetToSeq({CallsIn(s, t) : s \in MethodsOf(t)}))
NestedCalls(t) == SelectSeq(Renamed(t), LAMBDA u : Len(Written(u)) > 1)

(* loadClassGenerics after the binding: a member of generic type is loaded *)
(* and then copied, and so are the locals of the member functions.         *)
ClassJobs(t) ==
    Jobs("call", NestedCalls(t)) \o Jobs("super", At(t, "super"))
    \o FlattenSeq([i \in DOMAIN At(t, "member") |->
           LET u == At(t, "member")[i]
           IN  <<Job("member", u)>> \o IF IsGeneric(u) THEN <<Job("copy", u)>> ELSE <<>>])
    \o Jobs("shared", At(t, "local")) \o <<Job("body", t)>>
    \o Jobs("name", GenericAt(t, "return")) \o Jobs("copy", GenericAt(t, "local"))

(* loadFunctionGenerics and loadMemberFunctionGenerics after the binding.  *)
FunctionJobs(t) ==
    Jobs("copy", GenericAt(t, "parameter")) \o <<Job("register", t)>> \o Jobs("call", NestedCalls(t))
    \o Jobs(IF Kind(t) = "method" THEN "own" ELSE "return", GenericAt(t, "return"))
    \o Jobs("copy", GenericAt(t, "local")) \o Jobs("static", GenericAt(t, "static"))
    \o <<Job("body", t)>>

(* The calls without a parameter are loaded before all else, those in      *)
(* templates too; calls of member functions when bodies are optimised.     *)
ProgramJobs(calls) ==
    FlattenSeq([i \in DOMAIN calls |-> Jobs("call", PlainAt(calls[i], "call"))])
    \o FlattenSeq([i \in DOMAIN calls |-> Jobs("member call", At(calls[i], "member call"))])

JobsOf(t) ==
    CASE Kind(t) = "class" -> ClassJobs(t)
      [] Kind(t) = "alias" -> Jobs("target", At(t, "target"))
      [] OTHER             -> FunctionJobs(t)

-----------------------------------------------------------------------------
(* The specialisation on top of the stack and its job.                     *)

Frame(t, arg, on, jobs) ==
    [of |-> t, arg |-> arg, on |-> on, jobs |-> jobs, open |-> FALSE, copy |-> <<>>,
     got |-> <<>>, before |-> bind, level |-> 0, first |-> TRUE, again |-> FALSE]

Top == Last(stack)
Todo == Head(Top.jobs)
Use == Todo.use
Doing(do) == result = "none" /\ Top.jobs # <<>> /\ Todo.do \in do
OnTypes == {"call", "member call", "super", "member", "shared", "copy", "static", "return", "own", "target"}
(* A parameter, a local and the type of a member function's result are     *)
(* resolved on a copy; the other uses on the tree that is shared.          *)
OnCopy == {"copy", "own"}
Decl == IF Todo.do \in OnCopy THEN Top.copy ELSE tree[Use]
Called == Todo.do \in {"call", "member call"}

WithTop(f) == Append(Front(stack), f)
Done(f) == [f EXCEPT !.jobs = Tail(@), !.open = FALSE]
Got(f, type) == [Done(f) EXCEPT !.got = (Head(f.jobs).use :> type) @@ @]
Refuse(reason) ==
    result' = reason /\ UNCHANGED <<templates, tree, name, bind, stack, made, registered>>

(* What is forgotten before a use is resolved.                             *)
OpenUse ==
    /\ Doing(OnTypes) /\ ~ Top.open
    /\ LET levels == CASE Todo.do \in {"copy", "own", "return"} -> Reset(tree[Use])
                       [] Todo.do = "super"                     -> Forget(tree[Use])
                       [] OTHER                                 -> tree[Use]
       IN  /\ tree' = [tree EXCEPT ![Use] = levels]
           /\ stack' = WithTop([Top EXCEPT !.open = TRUE,
                                  !.copy = IF Todo.do \in OnCopy THEN Copied(Top.of, levels) ELSE <<>>])
    /\ UNCHANGED <<templates, name, bind, made, registered, result>>

(* load goes down to what is resolved and comes back up level by level.    *)
Resolved(levels, j) ==
    levels[j].is # NoType \/ (j = Len(levels) /\ ~ IsA(levels[j].name, {"class", "function", "alias"}))
Level == Min({j \in DOMAIN Decl : Resolved(Decl, j)} \cup {Len(Decl) + 1}) - 1
Wanted == Decl[Level].name
Given == Level < Len(Decl)
Argument == NameFrom(Top.of, Decl, Level + 1)
Type == <<Wanted>> \o Argument
Loading == Doing(OnTypes) /\ Top.open /\ Level > 0
Loaded(do) == Doing(do) /\ Top.open /\ Level = 0
Meaning == NameFrom(Top.of, Decl, 1)


(* What load refuses: a class inside that a static of a function, or an    *)
(* argument of a function in a template, would have to make first; a name  *)
(* without its argument, or with one too many; an alias in place of a      *)
(* function; an alias that is being resolved.                              *)
Nested ==
    \/ Todo.do = "static" /\ Level > 1
    \/ Todo.do = "call" /\ IsGeneric(Use) /\ Level > 2 /\ IsA(Decl[1].name, {"function"})
Suited ==
    IF Called /\ Level = 1
    THEN IsA(Wanted, {"class", IF Todo.do = "call" THEN "function" ELSE "method"})
    ELSE IsA(Wanted, {"class", "alias"})
Circular == \E i \in DOMAIN stack : stack[i].of = Wanted /\ IsA(Wanted, {"alias"})
RefuseUse ==
    \/ Loading /\ Nested /\ Refuse("unresolved")
    \/ Loading /\ ~ Nested /\ ~ (Given /\ Suited) /\ Refuse("not found")
    \/ Loading /\ ~ Nested /\ Given /\ Suited /\ Circular /\ Refuse("circular")

Make == Loading /\ ~ Nested /\ Given /\ Suited /\ ~ Circular
(* A member function is found in the class of its receiver.                *)
Key == IF IsA(Wanted, {"method"}) THEN On(Use) \o <<".">> \o Type ELSE Type

SetDecl(f, levels) ==
    IF Head(f.jobs).do \in OnCopy THEN [f EXCEPT !.copy = levels] ELSE f
SetTree(f, levels) ==
    IF Head(f.jobs).do \in OnCopy THEN tree ELSE [tree EXCEPT ![Head(f.jobs).use] = levels]

(* What is found by its name is not made again.                            *)
FindUse ==
    /\ Make /\ Key \in registered
    /\ LET levels == [Decl EXCEPT ![Level].is = Type]
       IN  stack' = WithTop(SetDecl(Top, levels)) /\ tree' = SetTree(Top, levels)
    /\ UNCHANGED <<templates, name, bind, made, registered, result>>

(* The parameter is bound, for a member function also that of its class; a *)
(* class can be found from now on, a function not yet.                     *)
Bound(t) == {t} \cup (IF Kind(t) = "method" THEN {Owner(t)} ELSE {})
Constructed(t) == {u \in ToSet(At(t, "call")) : Written(u) = <<"T">>}
MakeUse ==
    /\ Make /\ Key \notin registered
    /\ IF Len(stack) > MaxDepth
       THEN result' = "exhausted" /\ UNCHANGED <<tree, name, bind, stack, registered>>
       ELSE /\ bind' = [t \in DOMAIN bind |->
                          CASE t = Wanted                                -> Argument
                            [] t # Wanted /\ t \in Bound(Wanted) -> Tail(On(Use))
                            [] OTHER                                     -> bind[t]]
            /\ stack' = Append([i \in DOMAIN stack |->
                                   [stack[i] EXCEPT !.again = @ \/ stack[i].of = Wanted,
                                                    !.level = IF i = Len(stack) THEN Level ELSE @]],
                               [Frame(Wanted, Argument, On(Use), JobsOf(Wanted)) EXCEPT
                                   !.first = \A m \in ToSet(made) \cup ToSet(stack) : m.of # Wanted])
            /\ name' = IF Kind(Wanted) = "class"
                       THEN [u \in Constructed(Wanted) |-> Argument] @@ name ELSE name
            /\ registered' = registered \cup (IF Kind(Wanted) = "class" THEN {Type} ELSE {})
            /\ UNCHANGED <<tree, result>>
    /\ UNCHANGED <<templates, made>>

(* What becomes of a use that is resolved.                                 *)
CloseUse ==
    /\ Loaded(OnTypes)
    /\ tree' = [tree EXCEPT ![Use] = CASE Todo.do \in {"copy", "return"}                          -> Reset(@)
                                       [] Todo.do \in {"call", "member call", "super", "shared", "static"} -> Forget(@)
                                       [] OTHER                                                  -> @]
    /\ name' = IF Todo.do = "call" /\ IsGeneric(Use) THEN [name EXCEPT ![Use] = Meaning] ELSE name
    /\ stack' = WithTop(IF Todo.do \in {"call", "member call", "shared", "target"}
                            \/ (Todo.do = "member" /\ IsGeneric(Use))
                        THEN Done(Top) ELSE Got(Top, Meaning))
    /\ UNCHANGED <<templates, bind, made, registered, result>>

(* A member function's type is only named: it is loaded with the function. *)
NameUse ==
    /\ Doing({"name"})
    /\ stack' = WithTop(Got(Top, NameFrom(Top.of, Reset(tree[Use]), 1)))
    /\ UNCHANGED <<templates, tree, name, bind, made, registered, result>>

(* A function can be found once its parameters are copied.                 *)
Itself(f) == (IF Kind(f.of) = "method" THEN f.on \o <<".">> ELSE <<>>) \o <<f.of>> \o f.arg
Register ==
    /\ Doing({"register"})
    /\ registered' = registered \cup {Itself(Top)}
    /\ stack' = WithTop(Done(Top))
    /\ UNCHANGED <<templates, tree, name, bind, made, result>>

(* The calls in the body are copied with the names they have by then.      *)
Body == [u \in ToSet(At(Top.of, "call")) |-> name[u]]
CopyBody ==
    /\ Doing({"body"})
    /\ stack' = WithTop([Done(Top) EXCEPT !.got = Body @@ @])
    /\ UNCHANGED <<templates, tree, name, bind, made, registered, result>>

(* A specialisation is complete: its parameter is put back, an alias's is  *)
(* not.  A use of an alias becomes a copy of what the alias stands for.    *)
Below == stack[Len(stack) - 1]
Returned ==
    LET decl == IF Head(Below.jobs).do \in OnCopy THEN Below.copy ELSE tree[Head(Below.jobs).use]
    IN  IF Kind(Top.of) = "alias"
        THEN SubSeq(decl, 1, Below.level - 1) \o Copied(Top.of, tree[<<Top.of, 1>>])
        ELSE [decl EXCEPT ![Below.level].is = <<Top.of>> \o Top.arg]
Restored == [t \in DOMAIN bind |-> IF t \in Bound(Top.of) THEN Top.before[t] ELSE bind[t]]
Finish ==
    /\ result = "none" /\ Top.jobs = <<>> /\ Len(stack) > 1
    /\ stack' = Append(Front(Front(stack)), SetDecl(Below, Returned))
    /\ tree' = LET settled == SetTree(Below, Returned)
               IN  IF Kind(Top.of) = "alias" THEN [settled EXCEPT ![<<Top.of, 1>>] = Forget(@)] ELSE settled
    /\ bind' = IF Kind(Top.of) = "alias" THEN bind ELSE Restored
    /\ made' = Append(made, [of |-> Top.of, arg |-> Top.arg, on |-> Top.on, got |-> Top.got,
                             first |-> Top.first, again |-> Top.again])
    /\ UNCHANGED <<templates, name, registered, result>>

(* The bounds of the parameters are tested at the end (checkValidateExtends); *)
(* a function that exists twice cannot be called.                          *)
Inherits(type, class) == type = <<class>> \/ (Len(type) = 1 /\ <<type[1], class>> \in Extends)
Suits(m) == templates[m.of].bound = NoTemplate \/ Inherits(m.arg, templates[m.of].bound)
Same(m, n) == m.of = n.of /\ m.arg = n.arg /\ m.on = n.on /\ Kind(m.of) # "alias"
Validate ==
    /\ result = "none" /\ Top.jobs = <<>> /\ Len(stack) = 1
    /\ result' = CASE \E m \in ToSet(made) : ~ Suits(m)                     -> "bound"
                   [] \E i, j \in DOMAIN made : i < j /\ Same(made[i], made[j]) -> "ambiguous"
                   [] OTHER                                                    -> "compiled"
    /\ UNCHANGED <<templates, tree, name, bind, stack, made, registered>>

Init ==
    \E p \in Programs :
        /\ templates = p.templates
        /\ tree = [u \in AllUses |-> Levels(Written(u))]
        /\ name = [u \in AllUses |-> Written(u)]
        /\ bind = [t \in DOMAIN templates |-> NoType]
        /\ stack = <<Frame("Program", NoType, NoType, ProgramJobs(p.order))>>
        /\ made = <<>> /\ registered = {} /\ result = "none"

Next == OpenUse \/ RefuseUse \/ FindUse \/ MakeUse \/ CloseUse \/ NameUse \/ Register
            \/ CopyBody \/ Finish \/ Validate
Spec == Init /\ [][Next]_vars

-----------------------------------------------------------------------------
(* What the specialisations should be.                                     *)

Target(a) == templates[a].uses[1].type
Expanded(type) ==
    FoldRight(LAMBDA n, inner : IF IsA(n, {"alias"}) THEN Front(Target(n)) \o inner ELSE <<n>> \o inner,
              Front(type), <<Last(type)>>)
Aliases(type) == {a \in ToSet(type) : IsA(a, {"alias"})}
MeantFor(m, u) ==
    LET leaf == Last(Written(u))
        p == ParameterOf(m.of, leaf)
        own == CASE p = NoTemplate -> <<leaf>> [] p = m.of -> m.arg [] OTHER -> Tail(m.on)
        front == Front(Expanded(Written(u)))
    IN  Front(Expanded(front \o <<leaf>>)) \o own

(* Where the code is known to take another specialisation's type:          *)
(* - a call, when the template is specialised again while it is;           *)
(* - a call of a member function on the parameter of its class;            *)
(* - what stands inside the type of a call or a superclass, kept from the  *)
(*   first specialisation;                                                 *)
(* - a use of an alias on a shared tree, which becomes what the alias was  *)
(*   for the first, and there whatever an alias of nested types is for.    *)
Shared(m, u) ==
    ~(Kind(m.of) # "class" /\ Place(u) \in {"parameter", "local"})
    /\ ~(Kind(m.of) = "method" /\ Place(u) = "return")
Doubtful(m, u) ==
    \/ Place(u) = "call" /\ (m.again \/ ParameterOf(m.of, Last(Written(u))) \notin {m.of, NoTemplate})
    \/ (~ m.first \/ m.again) /\ Place(u) \in {"call", "super"} /\ Len(Written(u)) > 2
    \/ (~ m.first \/ m.again) /\ Shared(m, u) /\ Aliases(Written(u)) # {}
    \/ Shared(m, u) /\ \E a \in Aliases(Written(u)) : Len(Target(a)) > 2 \/ Aliases(Target(a)) # {}

(* In a program that compiles each use of a type in a specialisation means *)
(* the type as written with the argument for the parameter                 *)
(* (loadClassGenerics, loadFunctionGenerics).                              *)
UsesAreMeant ==
    result = "compiled" =>
        \A i \in DOMAIN made : \A u \in DOMAIN made[i].got :
            Expanded(made[i].got[u]) = MeantFor(made[i], u) \/ Doubtful(made[i], u)
(* Every class and function is specialised once for an argument, but a     *)
(* function that is needed for its own parameters (Parameter::copy before  *)
(* pushFunction).                                                          *)
MadeOnce ==
    \A i, j \in DOMAIN made :
        i # j /\ Same(made[i], made[j]) =>
            \E u \in ToSet(GenericAt(made[i].of, "parameter")) : Len(Written(u)) > 1
(* No parameter stays bound (the snapshots of both functions).             *)
BindingsEnd == Len(stack) = 1 => \A t \in DOMAIN bind : Kind(t) = "alias" \/ bind[t] = NoType
(* Compiling ends, but for types that grow (nothing stops those).          *)
GrowthIsTheCause ==
    result = "exhausted" =>
        \E i, j \in DOMAIN stack : i < j /\ stack[i].of = stack[j].of /\ Len(stack[i].arg) < Len(stack[j].arg)

SpecialisationsAreMeant == UsesAreMeant /\ MadeOnce /\ BindingsEnd /\ GrowthIsTheCause
=============================================================================
