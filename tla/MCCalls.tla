------------------------------- MODULE MCCalls -------------------------------
(***************************************************************************)
(* The calls that Overloads is checked with, in seven families: the order  *)
(* of three functions; a member and a function of the file; the forms of a *)
(* receiver; names and defaults; literals, closures and implicit           *)
(* constructors; generic functions; function objects.  Two functions of    *)
(* one signature, and a name given twice, are refused before.              *)
(***************************************************************************)
EXTENDS Naturals

Type(class, of) == [class |-> class, of |-> of]
Plain(class) == Type(class, "none")
Integer == Plain("Int")
Float == Plain("Float")
String == Plain("String")
Anything == Plain("Any")
Array(class) == Type("Array", class)

Parameter(name, t, nullable) ==
    [name |-> name, class |-> t.class, of |-> t.of, nullable |-> nullable]
Argument(kind, t, nullable) ==
    [kind |-> kind, class |-> t.class, of |-> t.of, nullable |-> nullable, name |-> "none"]
Value(t) == Argument("value", t, FALSE)
Nil == Argument("null", Plain("Null"), TRUE)
Literal(of) == Argument("array", Type("Null", of), FALSE)
Function(kind, n) == Argument(kind, Type("Function", n), FALSE)
Named(name, a) == [a EXCEPT !.name = name]

Fun(parameters) ==
    [parameters |-> parameters, optional |-> 0, generic |-> FALSE, bound |-> "none",
     public |-> TRUE, later |-> FALSE, static |-> TRUE, safe |-> FALSE]
One(t, nullable) == Fun(<<Parameter("a", t, nullable)>>)
Two(s, t) == Fun(<<Parameter("a", s, FALSE), Parameter("b", t, FALSE)>>)
Program(lists, form, inside, arguments) ==
    [functions |-> lists, call |-> [form |-> form, inside |-> inside, arguments |-> arguments]]
Call(f, g, arguments) == Program(<<<<f, g>>>>, "plain", FALSE, arguments)
Pairs(set) == {pair \in set \X set : pair[1] # pair[2]}

Scored == {Two(s, t) : s, t \in {Integer, Float, Anything}}
Orders == {Program(<<<<p[1], p[2], h>>>>, "plain", FALSE, <<Value(Integer), Value(t)>>) :
             p \in Pairs(Scored), h \in Scored, t \in {Integer, Float}}

Family == {Plain("Base"), Plain("Derived"), Anything, Plain("Box")}
Kinds(f) == {f, [f EXCEPT !.static = FALSE], [f EXCEPT !.later = TRUE],
             [f EXCEPT !.public = FALSE], [f EXCEPT !.safe = TRUE]}
MemberFunctions == UNION {Kinds(One(t, FALSE)) : t \in Family}
Lists == {Program(<<<<f>>, <<g>>>>, "plain", FALSE, <<a>>) :
            f, g \in MemberFunctions, a \in {Value(Plain("Derived")), Value(Plain("Base")), Value(Integer)}}
Receivers == {Program(<<<<f, g>>>>, form, inside, <<a>>) :
                form \in {"member", "nullable", "class"}, inside \in BOOLEAN,
                f \in MemberFunctions, g \in {One(t, n) : t \in Family, n \in BOOLEAN},
                a \in {Value(Plain("Derived")), Argument("value", Plain("Base"), TRUE), Nil}}

Optional == {[Fun(<<Parameter(n[1], s, FALSE), Parameter(n[2], t, FALSE)>>) EXCEPT !.optional = k] :
               n \in {<<"a", "b">>, <<"b", "a">>}, s, t \in {Integer, String}, k \in 0 .. 2}
ByName == {Call(f, g, arguments) : f, g \in Optional, arguments \in
            {<<>>, <<Value(Integer)>>, <<Named("a", Value(Integer))>>, <<Named("b", Value(Integer))>>,
             <<Named("c", Value(Integer))>>, <<Value(Integer), Value(Integer)>>,
             <<Value(Integer), Named("b", Value(String))>>, <<Value(Integer), Named("c", Value(String))>>,
             <<Named("b", Value(Integer)), Named("a", Value(String))>>}}

Wide == {One(t, n) : n \in BOOLEAN,
           t \in {Anything, Plain("Box"), Plain("Holder"), Plain("List"), Float,
                  Array("Int"), Array("String"), Type("Function", "zero"), Type("Function", "one")}}
Odd == {Nil, Literal("Int"), Literal("none"), Value(Array("Int")), Value(Integer), Value(String),
        Argument("value", Integer, TRUE), Function("closure", "zero"), Function("closure", "one"),
        Function("access", "one"), Function("value", "zero")}
Arrays == {One(Array("Int"), FALSE), One(Array("String"), FALSE)}
Literals == {Call(p[1], p[2], <<a>>) : p \in Pairs(Wide), a \in Odd}
            \cup {Call(p[1], p[2], <<Named("a", a)>>) : p \in Pairs(Arrays), a \in Odd}

Templates == {[Two(s, t) EXCEPT !.generic = TRUE, !.bound = bound] :
                s \in {Plain("T"), Array("T")}, t \in {Plain("T"), Array("T"), Integer, String},
                bound \in {"none", "Base"}}
Generics == {Call(f, g, arguments) : f \in Templates, g \in Templates \cup Scored, arguments \in
               {<<Value(Integer), Value(Integer)>>, <<Value(Integer), Value(String)>>, <<Literal("Int"), Value(Integer)>>,
                <<Value(Plain("Derived")), Value(Plain("Base"))>>, <<Value(Array("Int")), Nil>>}}

Objects == {Program(<<<<Fun(<<Parameter("a", s, n), Parameter("b", t, FALSE)>>)>>>>,
                    "object", FALSE, arguments) :
              n \in BOOLEAN, t \in {Float, String, Array("Int")},
              s \in {Integer, Plain("Box"), Array("Int"), Type("Function", "one"), Anything},
              arguments \in {<<Value(Integer)>>}
                  \cup {<<a, b>> : a \in Odd, b \in {Value(Integer), Value(String), Literal("Int"), Nil}}}

AllFamilies == {Orders, Lists, Receivers, ByName, Literals, Generics, Objects}

Classes == {"Int", "Float", "String", "Any", "Base", "Derived", "Null", "Array", "Function",
            "Box", "Holder", "List"}
AllNames ==
    Classes \cup {"none", "bad", "T", "zero", "one", "a", "b", "c"}
        \cup {"value", "null", "array", "closure", "access"}
        \cup {"plain", "member", "nullable", "class", "object"}
Constructor(t, nullable) == [class |-> t.class, of |-> t.of, nullable |-> nullable]
Constructors ==
    [class \in Classes |->
        CASE class = "Box" -> <<Constructor(Float, FALSE), Constructor(String, TRUE)>>
          [] class = "Holder" -> <<Constructor(Plain("none"), FALSE)>>
          [] class = "List" -> <<Constructor(Array("Int"), FALSE)>>
          [] OTHER -> <<>>]
=============================================================================
