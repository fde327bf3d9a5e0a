----------------------------- MODULE MCGenerics -----------------------------
(***************************************************************************)
(* The programs Generics is checked with.  X and Y are plain classes, Box  *)
(* and Deep classes that use no type, P and Q aliases, m is a member       *)
(* function of Cc.  A class, function or member function that is looked at *)
(* is asked for with both plain classes, and has one or two uses of types. *)
(*                                                                         *)
(* Left out are classes that inherit from themselves, which the compiler   *)
(* does not survive, and the member functions' types that are loaded with  *)
(* the function: one that goes round or that makes what is refused.        *)
(***************************************************************************)
EXTENDS Naturals, Sequences, FiniteSets

Use(place, type) == [place |-> place, type |-> type, on |-> <<>>]
OnClass(class, type) == [place |-> "member call", type |-> type, on |-> class]
Template(kind, of, bound, uses) == [kind |-> kind, of |-> of, bound |-> bound, uses |-> uses]
Class(uses) == Template("class", "none", "none", uses)
Fun(uses) == Template("function", "none", "none", uses)
Alias(target) == Template("alias", "none", "none", <<Use("target", target)>>)

X == <<"X">>
Y == <<"Y">>
T == <<"T">>
Box(type) == <<"Box">> \o type
Deep(type) == <<"Deep">> \o type
P(type) == <<"P">> \o type
Q(type) == <<"Q">> \o type
Cc(type) == <<"Cc">> \o type
F(type) == <<"f">> \o type

Inheritance == {<<"Y", "X">>}
Order == <<"Box", "Deep", "P", "Q", "Cc", "Dd", "f", "m", "Program">>
Of(p, q, cc, dd, f, m, calls) ==
    [order |-> Order,
     templates |-> [Box |-> Class(<<>>), Deep |-> Class(<<>>), P |-> Alias(p), Q |-> Alias(q),
                    Cc |-> Class(cc), Dd |-> Class(dd), f |-> Fun(f),
                    m |-> Template("method", "Cc", "none", m),
                    Program |-> Template("program", "none", "none", calls)]]
Empty == Of(Box(T), Box(T), <<>>, <<>>, <<>>, <<>>, <<>>)
Calls(t) == <<Use("call", <<t, "X">>), Use("call", <<t, "Y">>)>>

At(places, types) == {Use(p, t) : p \in places, t \in types}
One(uses) == {<<a>> : a \in uses}
(* The order of two uses matters in one place only.                        *)
Places == <<"call", "super", "member", "return", "parameter", "local", "static">>
Rank(use) == CHOOSE i \in DOMAIN Places : Places[i] = use.place
Two(uses) ==
    {p \in uses \X uses : Rank(p[1]) < Rank(p[2])
                          \/ (p[1].place = p[2].place /\ p[1].place \in {"call", "member"})}

InClass(types) ==
    At({"call", "super", "member", "return", "local"}, types) \ At({"super"}, {T, Cc(Y)})
OfCc == (InClass({T, Box(T), Deep(Box(T)), P(T), Deep(P(T)), Cc(Y), <<"Dd", "T">>})
         \ At({"return"}, {<<"Dd", "T">>}))
        \cup At({"call"}, {F(T), F(Box(T)), F(Deep(Box(T)))}) \cup At({"member"}, {Cc(Box(T))})
OfDd == InClass({T, Box(T), P(T), Cc(Y)})
OfF == (At({"call", "return", "parameter", "local", "static"},
           {T, Box(T), Deep(Box(T)), P(T), Deep(P(T)), Cc(T)}) \ At({"call"}, {T}))
       \cup At({"call"}, {F(Box(T)), F(Y)})
OfM == At({"call", "return", "parameter"},
          {t \o leaf : t \in {<<>>, <<"Box">>, <<"Deep", "Box">>, <<"P">>}, leaf \in {T, <<"U">>}})
       \ At({"call"}, {T, <<"U">>})
Targets == {Box(T), Deep(Box(T)), Q(T), P(T), Cc(T)}

Classes ==
    {Of(Box(T), Box(T), <<w[1]>>, <<w[2]>>, <<>>, <<>>, Calls("Cc")) :
        w \in {p \in OfCc \X OfDd : ~(p[1].place = "super" /\ p[2].place = "super")}}
    \cup {Of(Box(T), Box(T), a, <<>>, <<>>, <<>>, Calls("Cc")) : a \in Two(OfCc)}
Functions ==
    {Of(Box(T), Box(T), b, <<>>, a, <<>>, Calls("f")) :
        a \in One(OfF) \cup Two(OfF), b \in {<<>>, <<Use("member", Cc(Y))>>, <<Use("call", F(T))>>}}
Aliases ==
    {Of(p, q, <<a>>, <<>>, <<>>, <<>>, Calls("Cc")) :
        p, q \in Targets, a \in {u \in OfCc : u.place \notin {"return", "super"}}}
MemberFunctions ==
    {Of(Box(T), Box(T), <<>>, <<>>, <<>>, a,
        Calls("Cc") \o <<OnClass(Cc(X), <<"m", "Y">>), OnClass(Cc(Y), <<"m", "X">>), OnClass(Cc(X), <<"m", "X">>)>>) :
        a \in One(OfM) \cup Two(OfM)}
(* The parameter of Cc or of f must be a bound or inherit from it.         *)
Bounds ==
    {[p EXCEPT !.templates[t].bound = bound] :
        p \in {Of(Box(T), Box(T), <<Use("member", type)>>, <<>>, <<Use("call", call)>>, <<>>, Calls(asked)) :
                 type \in {Box(T), Cc(Y)}, call \in {Cc(T), F(Y)}, asked \in {"Cc", "f"}},
        t \in {"Cc", "f"}, bound \in {"X", "Y"}}

AllPrograms == Classes \cup Functions \cup Aliases \cup MemberFunctions \cup Bounds
=============================================================================
