------------------------------ MODULE Operators ------------------------------
(***************************************************************************)
(* The operators of AutoLang exist three times: the natives that run when  *)
(* a program is executed (shared/operators), the folding of expressions    *)
(* whose operands are literals (OptimizeNode.cpp), and the static typing   *)
(* with the casts and opcodes it emits (BinaryNode, UnaryNode, CastNode,   *)
(* SetNode).  This module keeps the three side by side: an expression      *)
(* grows one operator at a time, and each step evaluates it as literals    *)
(* (literal), as declared variables or calls (typed), and by the natives   *)
(* on the operands as they are (native).                                   *)
(*                                                                         *)
(* A value is <<kind, datum>>.  A Float is counted in halves, products and *)
(* quotients rounded to a half: both stages use the same double            *)
(* arithmetic, of which only this matters here.  A String is the sequence  *)
(* of the values it was put together from: both stages render a number     *)
(* with std::to_string.                                                    *)
(***************************************************************************)
EXTENDS Integers, Sequences, FiniteSets

CONSTANTS
    IntLimit,   \* bound: an Int is in -IntLimit .. IntLimit - 1 (64 bits in the code)
    CharLimit,  \* bound: a Char is in 0 .. CharLimit - 1 (32 bits in the code)
    Ints, Halves, Chars, Texts,  \* the data of the operands
    MaxOperators                 \* bound: operators applied to one expression

ASSUME WidthAssumption == /\ IntLimit \in Nat \ {0, 1}
                          /\ CharLimit \in 1 .. IntLimit
                          /\ Ints \subseteq -IntLimit .. IntLimit - 1
                          /\ Halves \subseteq Int
                          /\ Chars \subseteq 0 .. CharLimit - 1
                          /\ MaxOperators \in Nat

VARIABLES
    depth,     \* operators applied so far
    literal,   \* the value folded at compile time, or why there is none
    typed,     \* [class, value]: the class the compiler gave it, the value it has
    native,    \* the value the natives compute
    untyped,   \* whether an operand was declared Any
    assigned,  \* the outcomes of a compound assignment, by the code emitted for it
    known      \* a known disagreement the last operator ran into, or "none"

expressionVars == <<depth, literal, typed, native, untyped, assigned, known>>

Numbers   == {"Int", "Float", "Bool"}
Classes   == Numbers \cup {"Char", "String", "Null"}
Failures  == {"Refused", "Raised", "Trapped", "Junk"}
Relations == {"<", ">", "<=", ">="}
Equalities == {"==", "!="}
Identities == {"===", "!=="}
Arithmetic == {"+", "-", "*", "/", "%"}
BinaryOps == Arithmetic \cup Relations \cup Equalities \cup Identities
                \cup {"&", "|", "&&", "||"}

Kind(v) == v[1]
Fails(v) == Kind(v) \in Failures
Kinds(a, b) == {Kind(a), Kind(b)}
True        == <<"Bool", 1>>
False       == <<"Bool", 0>>
Null        == <<"Null", 0>>
Truth(p) == IF p THEN True ELSE False
Refused     == <<"Refused", "compile error">>
NoOperator  == <<"Raised", "no operator for these classes">>
ByZero      == <<"Raised", "division by zero">>
Trap        == <<"Trapped", "quotient out of range">>

(* Two's complement wrap-around of an Int. *)
Wrap(n) == ((n + IntLimit) % (2 * IntLimit)) - IntLimit
(* Division that truncates toward zero. *)
Truncated(x, y) == LET sign(n) == IF n < 0 THEN -1 ELSE 1
                   IN  sign(x) * sign(y) * ((sign(x) * x) \div (sign(y) * y))
Remainder(x, y) == x - y * Truncated(x, y)
Doubled(v) == IF Kind(v) = "Float" THEN v[2] ELSE 2 * v[2]
(* A double that no Int can hold converts to the smallest Int. *)
FloatToInt(q) == LET n == Truncated(q, 2)
                 IN  IF n \in -IntLimit .. IntLimit - 1 THEN n ELSE -IntLimit
Pieces(v) == IF Kind(v) = "String" THEN v[2] ELSE <<v>>
Joined(a, b) == <<"String", Pieces(a) \o Pieces(b)>>
repeat(v, n) ==
    <<"String", [i \in 1 .. (IF n <= 0 THEN 0 ELSE n * Len(v[2])) |->
                    v[2][((i - 1) % Len(v[2])) + 1]]>>
ToChar(n) == <<"Char", n % CharLimit>>

Computed(op, x, y) == CASE op = "+" -> x + y
                        [] op = "-" -> x - y
                        [] op = "*" -> x * y
                        [] op = "/" -> Truncated(x, y)
                        [] op = "%" -> Remainder(x, y)
(* What C++ computes for two numbers: in double when one of them is.       *)
(* A divisor of zero is for the callers to refuse; the processor traps a   *)
(* quotient that has no Int.                                               *)
IntNumber(op, x, y) == IF op \in {"/", "%"} /\ x = -IntLimit /\ y = -1 THEN Trap
                       ELSE <<"Int", Wrap(Computed(op, x, y))>>
FloatNumber(op, p, q) ==
    <<"Float", CASE op = "*" -> Truncated(p * q, 2)
                 [] op = "/" -> Truncated(2 * p, q)
                 [] OTHER    -> Computed(op, p, q)>>
Number(op, a, b) == IF "Float" \in Kinds(a, b) THEN FloatNumber(op, Doubled(a), Doubled(b))
                    ELSE IntNumber(op, a[2], b[2])
Compared(op, x, y) == CASE op = "<"  -> x < y
                        [] op = ">"  -> x > y
                        [] op = "<=" -> x <= y
                        [] op = ">=" -> x >= y
                        [] op = "==" -> x = y
                        [] op = "!=" -> x # y

-----------------------------------------------------------------------------
(* The natives: operators/ArithmeticOperator.cpp.                          *)
plus(a, b) ==
    CASE Kinds(a, b) \subseteq Numbers  -> Number("+", a, b)
      [] Kinds(a, b) = {"Int", "Char"}  -> ToChar(a[2] + b[2])
      [] Kinds(a, b) = {"Char"}         -> Joined(a, b)
      [] "String" \in Kinds(a, b)       -> Joined(a, b)
      [] OTHER                          -> NoOperator
minus(a, b) ==
    CASE Kinds(a, b) \subseteq Numbers            -> Number("-", a, b)
      [] Kinds(a, b) = {"Char"}                   -> <<"Int", a[2] - b[2]>>
      [] Kind(a) = "Char" /\ Kind(b) = "Int"      -> ToChar(a[2] - b[2])
      [] OTHER                                    -> NoOperator
mul(a, b) ==
    CASE Kinds(a, b) \subseteq Numbers            -> Number("*", a, b)
      [] Kind(a) = "Int" /\ Kind(b) = "String"    -> repeat(b, a[2])
      [] Kind(a) = "String" /\ Kind(b) = "Int"    -> repeat(a, b[2])
      [] OTHER                                    -> NoOperator
divide(a, b) ==
    IF ~(Kinds(a, b) \subseteq Numbers) THEN NoOperator
    ELSE IF b[2] = 0 THEN ByZero ELSE Number("/", a, b)
mod(a, b) ==
    IF ~(Kinds(a, b) \subseteq Numbers) THEN NoOperator
    ELSE IF b[2] = 0 THEN ByZero
    ELSE IF Kind(b) = "Bool" /\ Kind(a) # "Bool" THEN a ELSE Number("%", a, b)

(* The natives: operators/ComparisonOperator.cpp.  What has no common      *)
(* order is the same only when it is one object; of the operands here that *)
(* are not compared by value, only null is.                                *)
op_eqeq(a, b) == IF Kinds(a, b) \subseteq Numbers
                 THEN Truth(Doubled(a) = Doubled(b)) ELSE Truth(a = b)
op_not_eq(a, b) == IF Kinds(a, b) \subseteq Numbers
                   THEN Truth(Doubled(a) # Doubled(b)) ELSE Truth(a # b)
Ordered(op, a, b) ==
    CASE Kinds(a, b) \subseteq Numbers -> Truth(Compared(op, Doubled(a), Doubled(b)))
      [] Kinds(a, b) = {"Char"}        -> Truth(Compared(op, a[2], b[2]))
      [] OTHER                         -> NoOperator
op_less_than(a, b) == Ordered("<", a, b)
op_greater_than(a, b) == Ordered(">", a, b)
op_less_than_eq(a, b) == Ordered("<=", a, b)
op_greater_than_eq(a, b) == Ordered(">=", a, b)
op_eq_pointer(a, b) == Truth(a = b)
op_not_eq_pointer(a, b) == Truth(a # b)

(* The natives: operators/LogicalOperator.cpp.  Of the bits of an Int, the *)
(* four lowest are followed: all that an Int of IntLimit 8 or less has.    *)
Bits(n) == [k \in 0 .. 3 |-> (n \div <<1, 2, 4, 8>>[k + 1]) % 2]
OfBits(f) == Wrap(f[0] + 2 * f[1] + 4 * f[2] + 8 * f[3])
bitwise_and(a, b) ==
    IF Kinds(a, b) # {"Int"} THEN NoOperator
    ELSE <<"Int", OfBits([k \in 0 .. 3 |-> Bits(a[2])[k] * Bits(b[2])[k]])>>
bitwise_or(a, b) ==
    IF Kinds(a, b) # {"Int"} THEN NoOperator
    ELSE <<"Int", OfBits([k \in 0 .. 3 |->
                    Bits(a[2])[k] + Bits(b[2])[k] - Bits(a[2])[k] * Bits(b[2])[k]])>>
op_and_and(a, b) == IF Kinds(a, b) = {"Bool"} THEN Truth(a = True /\ b = True) ELSE NoOperator
op_or_or(a, b) == IF Kinds(a, b) = {"Bool"} THEN Truth(a = True \/ b = True) ELSE NoOperator
negative(a) == CASE Kind(a) = "Float"           -> <<"Float", -a[2]>>
                 [] Kind(a) \in {"Int", "Bool"} -> <<"Int", Wrap(-a[2])>>
                 [] OTHER                       -> NoOperator
op_not(a) == IF Kind(a) = "Bool" THEN Truth(a = False) ELSE NoOperator

(* The native an operator stands for (operatorTable and the opcodes).      *)
Native(op, a, b) ==
    CASE op = "+"  -> plus(a, b)             [] op = "-"   -> minus(a, b)
      [] op = "*"  -> mul(a, b)              [] op = "/"   -> divide(a, b)
      [] op = "%"  -> mod(a, b)              [] op = "=="  -> op_eqeq(a, b)
      [] op = "!=" -> op_not_eq(a, b)        [] op = "<"   -> op_less_than(a, b)
      [] op = ">"  -> op_greater_than(a, b)  [] op = "<="  -> op_less_than_eq(a, b)
      [] op = ">=" -> op_greater_than_eq(a, b)
      [] op = "&"  -> bitwise_and(a, b)      [] op = "|"   -> bitwise_or(a, b)
      [] op = "&&" -> op_and_and(a, b)       [] op = "||"  -> op_or_or(a, b)
      [] op = "===" -> op_eq_pointer(a, b)   [] op = "!==" -> op_not_eq_pointer(a, b)

-----------------------------------------------------------------------------
(* Folding: parser/node/OptimizeNode.cpp.                                  *)
toInt(v) == CASE Kind(v) = "Int"             -> v
              [] Kind(v) \in {"Char", "Bool"} -> <<"Int", v[2]>>
              [] Kind(v) = "Float"            -> <<"Int", FloatToInt(v[2])>>
              [] OTHER                        -> Refused
toFloat(v) == IF Kind(v) \in Numbers THEN <<"Float", Doubled(v)>> ELSE Refused
prepareOperands(l, r) == [o \in {"left", "right"} |->
    LET v == IF o = "left" THEN l ELSE r
    IN  IF Kind(v) = "Bool" THEN toInt(v) ELSE v]

fold_plus(l, r) ==
    LET o == prepareOperands(l, r)
        x == o["left"]  y == o["right"]
        k == Kinds(x, y)
    IN  CASE k \subseteq {"Int", "Float"}             -> Number("+", x, y)
          [] k = {"Char", "Int"}                      -> ToChar(x[2] + y[2])
          [] k = {"Char"} \/ "String" \in k           -> Joined(x, y)
          [] OTHER                                    -> Refused
fold_minus(l, r) ==
    LET o == prepareOperands(l, r)
        x == o["left"]  y == o["right"]
    IN  CASE Kinds(x, y) \subseteq {"Int", "Float"}   -> Number("-", x, y)
          [] Kinds(x, y) = {"Char"}                   -> <<"Int", x[2] - y[2]>>
          [] Kind(x) = "Char" /\ Kind(y) = "Int"      -> ToChar(x[2] - y[2])
          [] OTHER                                    -> Refused
fold_mul(l, r) ==
    LET o == prepareOperands(l, r)
        x == o["left"]  y == o["right"]
    IN  CASE Kinds(x, y) \subseteq {"Int", "Float"}   -> Number("*", x, y)
          [] Kind(x) = "Int" /\ Kind(y) = "String"    -> repeat(y, x[2])
          [] Kind(x) = "String" /\ Kind(y) = "Int"    -> repeat(x, y[2])
          [] OTHER                                    -> Refused
fold_divide(l, r) ==
    LET o == prepareOperands(l, r)
    IN  IF Kinds(o["left"], o["right"]) \subseteq {"Int", "Float"} /\ o["right"][2] # 0
        THEN Number("/", o["left"], o["right"]) ELSE Refused
fold_mod(l, r) ==
    IF Kinds(l, r) \subseteq {"Int", "Float"} /\ r[2] # 0
    THEN Number("%", l, r) ELSE Refused
fold_bitwise_and(l, r) == IF Kinds(l, r) = {"Int"} THEN bitwise_and(l, r) ELSE Refused
fold_bitwise_or(l, r) == IF Kinds(l, r) = {"Int"} THEN bitwise_or(l, r) ELSE Refused
fold_eqeq(l, r) ==
    CASE Kinds(l, r) \subseteq {"Int", "Float"} -> Truth(Doubled(l) = Doubled(r))
      [] Kinds(l, r) \in {{"Bool"}, {"Char"}, {"String"}} -> Truth(l = r)
      [] OTHER -> Refused
fold_not_eq(l, r) ==
    CASE Kinds(l, r) \subseteq {"Int", "Float"} -> Truth(Doubled(l) # Doubled(r))
      [] Kinds(l, r) \in {{"Bool"}, {"Char"}, {"String"}} -> Truth(l # r)
      [] OTHER -> Refused
FoldOrdered(op, l, r) ==
    LET o == prepareOperands(l, r)
    IN  CASE Kinds(o["left"], o["right"]) \subseteq {"Int", "Float"}
                 -> Truth(Compared(op, Doubled(o["left"]), Doubled(o["right"])))
          [] Kinds(l, r) = {"Char"} -> Truth(Compared(op, l[2], r[2]))
          [] OTHER -> Refused
fold_greater_than(l, r) == FoldOrdered(">", l, r)
fold_less_than(l, r) == FoldOrdered("<", l, r)
fold_greater_than_eq(l, r) == FoldOrdered(">=", l, r)
\* Mutant: the other test of the two.
fold_less_than_eq_strict(l, r) == FoldOrdered("<", l, r)
fold_less_than_eq(l, r) == FoldOrdered("<=", l, r)

(* && and || read the flag of an object in the operand's node, where only  *)
(* a Bool has one: for any other literal the compiler reads what is there. *)
FoldLogical(op, l, r) ==
    LET decides == IF op = "&&" THEN False ELSE True
    IN  IF l = decides THEN l
        ELSE IF Kinds(l, r) = {"Bool"} THEN r ELSE <<"Junk", "not an object">>
FoldIdentity(op, l, r) ==
    IF Kinds(l, r) \subseteq {"Bool", "Null"}
    THEN (IF op = "===" THEN op_eq_pointer(l, r) ELSE op_not_eq_pointer(l, r))
    ELSE Refused

(* The value of an operator between two literals.                          *)
leftOpRight(op, l, r) ==
    CASE op = "+"  -> fold_plus(l, r)         [] op = "-"  -> fold_minus(l, r)
      [] op = "*"  -> fold_mul(l, r)          [] op = "/"  -> fold_divide(l, r)
      [] op = "%"  -> fold_mod(l, r)          [] op = "&"  -> fold_bitwise_and(l, r)
      [] op = "|"  -> fold_bitwise_or(l, r)   [] op = "==" -> fold_eqeq(l, r)
      [] op = "!=" -> fold_not_eq(l, r)       [] op = "<=" -> fold_less_than_eq(l, r)
      [] op = ">=" -> fold_greater_than_eq(l, r)
      [] op = "<"  -> fold_less_than(l, r)    [] op = ">"  -> fold_greater_than(l, r)
      [] op \in Identities                    -> FoldIdentity(op, l, r)
      [] op \in {"&&", "||"}                  -> FoldLogical(op, l, r)

(* UnaryNode::resolve on a literal.                                        *)
FoldUnary(op, v) ==
    CASE op = "+" /\ Kind(v) \in Numbers -> toInt(v)
      [] op = "-" /\ Kind(v) \in Numbers -> negative(v)
      [] op = "!" /\ Kind(v) = "Bool"    -> op_not(v)
      [] OTHER                           -> Refused

-----------------------------------------------------------------------------
(* Static typing.  An operand is [class, nullable, value]: what it was     *)
(* declared as and what it holds.                                          *)

(* BinaryNode::optimize casts a Bool operand to Int.  With - * and / the   *)
(* cast of the left one leaves the switch, and nothing else is looked at.  *)
CastsLeft(op, s, t) == /\ s.class = "Bool"
                       /\ \/ op = "+" /\ t.class # "String"
                          \/ op \in {"-", "*", "/"}
CastsRight(op, s, t) == /\ t.class = "Bool"
                        /\ op = "+" \/ (op \in {"-", "*", "/"} /\ s.class # "Bool")
ClassAfter(cast, s) == IF cast THEN "Int" ELSE s.class
\* Mutant: only comparisons look at nullability.
NullRefusedToCompare(op, s, t) == (s.nullable \/ t.nullable) /\ op \in Relations
NullRefused(op, s, t) ==
    /\ s.nullable \/ t.nullable
    /\ op \notin Equalities \cup Identities
    /\ op = "+" => "String" \notin {s.class, t.class}
    /\ op \in {"-", "*", "/"} => s.class # "Bool"

(* binaryOpResultType.  getTypeResult looks the pair up in either order.   *)
TypeResult(op, pair) ==
    CASE op \in Relations
             -> IF pair \subseteq {"Int", "Float"} \/ pair = {"Char"} THEN "Bool" ELSE "none"
      [] op \in Equalities
             -> IF \/ pair \subseteq {"Int", "Float"}
                   \/ pair \in {{"Char"}, {"String"}, {"Bool"}}
                THEN "Bool" ELSE "none"
      [] op \in {"&&", "||"} -> IF pair = {"Bool"} THEN "Bool" ELSE "none"
      [] op \in {"&", "|"}   -> IF pair = {"Int"} THEN "Int" ELSE "none"
      [] op \in Arithmetic /\ pair \subseteq Numbers
             -> CASE "Float" \in pair               -> "Float"
                  [] op = "%" /\ pair = {"Bool"}    -> "none"
                  [] OTHER                          -> "Int"
      [] op = "+" /\ pair = {"Char"}                -> "String"
      [] op = "+" /\ "String" \in pair /\ pair # {"String", "Any"} -> "String"
      [] op = "-" /\ pair = {"Char"}                -> "Int"
      [] op \in {"+", "-"} /\ pair = {"Char", "Int"} -> "Char"
      [] op = "*" /\ pair = {"String", "Int"}       -> "String"
      [] OTHER                                      -> "none"

(* What BinaryNode::optimize makes of the classes the table does not have. *)
ResultBesideTable(op, pair) ==
    IF op = "+" /\ "String" \in pair THEN "String"
    ELSE IF "Any" \notin pair \/ op \in {"&", "|"} THEN "none"
    ELSE IF op \notin Arithmetic THEN "Bool"
    ELSE IF "String" \in pair THEN "String"
    ELSE IF "Float" \in pair THEN "Float" ELSE "Any"

(* The class of an expression, "none" when it is a compile error.          *)
TypeOf(op, s, t) ==
    LET pair == {ClassAfter(CastsLeft(op, s, t), s), ClassAfter(CastsRight(op, s, t), t)}
    IN  IF NullRefused(op, s, t) THEN "none"
        ELSE IF \/ op \in Identities
                \/ op \in Equalities /\ pair \cap {"Null", "Any"} # {} THEN "Bool"
        ELSE IF TypeResult(op, pair) # "none" THEN TypeResult(op, pair)
        ELSE ResultBesideTable(op, pair)

(* BOOL_TO_INT and BOOL_TO_FLOAT read the flag of whatever object comes:   *)
(* the null object's is 0.                                                 *)
CastTo(class, v) ==
    CASE class = "Int"   -> (IF Kind(v) = "Float" THEN <<"Int", FloatToInt(v[2])>>
                             ELSE <<"Int", v[2]>>)
      [] class = "Float" -> <<"Float", Doubled(v)>>

(* The code for an operator: one opcode that calls the native, except that *)
(* && and || jump over their right operand unless both are variables.      *)
Emitted(op, form, s, t) ==
    LET a == IF CastsLeft(op, s, t) THEN CastTo("Int", s.value) ELSE s.value
        b == IF CastsRight(op, s, t) THEN CastTo("Int", t.value) ELSE t.value
    IN  CASE op = "&&" /\ form # "variables" -> IF a = False THEN a ELSE b
          [] op = "||" /\ form # "variables" -> IF a = True THEN a ELSE b
          [] OTHER                           -> Native(op, a, b)

Typed(class, value) == [class |-> class, nullable |-> FALSE, value |-> value]
OptimizeBinary(op, form, s, t) ==
    IF TypeOf(op, s, t) = "none" THEN Typed("none", Refused)
    ELSE Typed(TypeOf(op, s, t), Emitted(op, form, s, t))

(* UnaryNode::optimize and putBytecodes: + and - of numbers, ! of a Bool.  *)
(* The opcode that negates a Bool member makes a Bool of the result.       *)
OptimizeUnary(op, form, s) ==
    IF s.nullable \/ s.class \notin Numbers \/ (op = "!" /\ s.class # "Bool")
    THEN Typed("none", Refused)
    ELSE CASE op = "!" -> Typed("Bool", op_not(s.value))
           [] op = "+" -> IF s.class = "Float" THEN Typed("Float", s.value)
                          ELSE Typed("Int", toInt(s.value))
           [] op = "-" -> Typed(IF s.class = "Float" THEN "Float" ELSE "Int",
                                IF form = "member" /\ Kind(s.value) = "Bool" THEN s.value
                                ELSE negative(s.value))

-----------------------------------------------------------------------------
(* Compound assignment: operators/AssignOperator.cpp.  pointed says whether *)
(* GET_POINTER has left the address of the target; without it a String has *)
(* nowhere to put its new object.                                          *)
Dropped == <<"Junk", "the new object is not stored">>
(* A number changed in place keeps its class.                              *)
Kept(a, n) == IF Kind(a) = "Int" /\ ~Fails(n) THEN toInt(n) ELSE n
plus_eq(pointed, a, b) ==
    CASE Kind(a) \in {"Int", "Float"} /\ Kind(b) \in Numbers
             -> Number("+", a, IF pointed /\ Kind(a) = "Int" THEN toInt(b) ELSE b)
      [] Kind(a) = "Char" /\ Kind(b) = "Int" -> ToChar(a[2] + b[2])
      [] Kind(a) = "String" -> IF pointed THEN Joined(a, b) ELSE Dropped
      [] OTHER -> NoOperator
minus_eq(pointed, a, b) ==
    CASE Kind(a) \in {"Int", "Float"} /\ Kind(b) \in Numbers
             -> Number("-", a, IF pointed /\ Kind(a) = "Int" THEN toInt(b) ELSE b)
      [] Kind(a) = "Char" /\ Kind(b) = "Int" -> ToChar(a[2] - b[2])
      [] OTHER -> NoOperator
mul_eq(pointed, a, b) ==
    CASE Kind(a) \in {"Int", "Float"} /\ Kind(b) \in Numbers -> Number("*", a, b)
      [] Kind(a) = "String" /\ Kind(b) = "Int"
             -> IF pointed THEN repeat(a, b[2]) ELSE Dropped
      [] OTHER -> NoOperator
\* Mutant: the divisor of an Int is truncated, as += does with an addend.
divide_eq_by_int(pointed, a, b) ==
    IF ~(Kind(a) \in {"Int", "Float"} /\ Kind(b) \in Numbers) THEN NoOperator
    ELSE IF b[2] = 0 \/ (Kind(a) = "Int" /\ toInt(b)[2] = 0) THEN ByZero
    ELSE Number("/", a, IF Kind(a) = "Int" THEN toInt(b) ELSE b)
divide_eq(pointed, a, b) ==
    IF ~(Kind(a) \in {"Int", "Float"} /\ Kind(b) \in Numbers) THEN NoOperator
    ELSE IF b[2] = 0 THEN ByZero ELSE Number("/", a, b)
mod_eq(pointed, a, b) ==
    IF ~(Kind(a) \in {"Int", "Float"} /\ Kind(b) \in Numbers) THEN NoOperator
    ELSE IF b[2] = 0 THEN ByZero
    ELSE IF Kind(b) = "Bool" THEN a ELSE Number("%", a, b)
AssignNative(op, pointed, a, b) ==
    Kept(a, CASE op = "+" -> plus_eq(pointed, a, b)
              [] op = "-" -> minus_eq(pointed, a, b)
              [] op = "*" -> mul_eq(pointed, a, b)
              [] op = "/" -> divide_eq(pointed, a, b)
              [] op = "%" -> mod_eq(pointed, a, b))

(* SetNode::optimize of x op= v: refused, or the class v is cast to first. *)
NullableRefused(op, x, v) ==
    \/ v.class = "Null" \/ x.nullable
    \/ v.nullable /\ ~(x.class = "String" /\ op = "+")
CompoundCast(op, x, v) ==
    IF NullableRefused(op, x, v) THEN "refused"
    ELSE IF x.class = v.class
    THEN IF x.class \in {"Int", "Float"} \/ (x.class = "String" /\ op = "+")
         THEN "none" ELSE "refused"
    ELSE IF x.class = "Int" /\ v.class = "Bool" THEN "Int"
    ELSE IF x.class = "Float" /\ v.class \in {"Int", "Bool"} THEN "Float"
    ELSE IF \/ x.class = "Char" /\ v.class = "Int" /\ op \in {"+", "-"}
            \/ x.class = "Int" /\ v.class = "Float"
            \/ x.class = "String" /\ (op = "+" \/ (op = "*" /\ v.class = "Int"))
            \/ "Any" \in {x.class, v.class}
    THEN "none" ELSE "refused"
(* SetNode::optimize of x = v.                                             *)
StoreCast(x, v) ==
    CASE v.class = x.class \/ "Any" \in {x.class, v.class} -> "none"
      [] x.class = "Int" /\ v.class \in {"Float", "Bool"}   -> "Int"
      [] x.class = "Float" /\ v.class \in {"Int", "Bool"}   -> "Float"
      [] OTHER                                              -> "refused"
Converted(cast, v) == IF cast = "none" \/ Fails(v) THEN v ELSE CastTo(cast, v)

(* SetNode::putBytecodes.  A plain variable and a simple operand go to the *)
(* native at once, without a pointer; a String target takes the pointer    *)
(* first, and so does every target when the operand is computed, for which *)
(* %= has no case and falls through to a plain store; a captured variable  *)
(* is read, computed and written back.                                     *)
InPlace(op, x, b) ==
    AssignNative(op, x.class = "String" /\ op \in {"+", "-", "*"}, x.value, b)
Pointed(op, x, b) == IF op = "%" THEN b ELSE AssignNative(op, TRUE, x.value, b)
Recomputed(op, x, v, b) ==
    LET n == Native(op, x.value, b)
    IN  IF x.class = "Int" /\ v.class = "Float" /\ ~Fails(n) THEN CastTo("Int", n) ELSE n
Spelled(op, x, v) ==
    LET sum == OptimizeBinary(op, "variables", x, v)
    IN  IF sum.class = "none" \/ StoreCast(x, sum) = "refused" THEN Refused
        ELSE Converted(StoreCast(x, sum), sum.value)

-----------------------------------------------------------------------------
(* The expression and its evaluations.                                     *)
NonNullValues == ({"Int"} \X Ints) \cup ({"Float"} \X Halves) \cup ({"Bool"} \X {0, 1})
                    \cup ({"Char"} \X Chars) \cup {<<"String", <<<<"Text", x>>>>>> : x \in Texts}
Declared(class, nullable, v) == [class |-> class, nullable |-> nullable, value |-> v]
Declarations(v) ==
    IF v = Null
    THEN {Declared("Null", TRUE, v)} \cup {Declared(c, TRUE, v) : c \in {"Int", "Bool", "String"}}
    ELSE {Declared(Kind(v), FALSE, v), Declared(Kind(v), TRUE, v), Declared("Any", FALSE, v)}
Operands == UNION {Declarations(v) : v \in NonNullValues \cup {Null}}
PlainOperands == {Declared(Kind(v), FALSE, v) : v \in NonNullValues}

-----------------------------------------------------------------------------
(* Where the three are known to disagree, or the class not to hold.  The   *)
(* expression ends there.                                                  *)
BinaryGap(op, s, t) ==
    LET kinds == Kinds(s.value, t.value)
        classes == {s.class, t.class}
    IN  CASE op \in {"+", "-", "*"} /\ kinds \in {{"Bool", "Char"}, {"Bool", "String"}}
                 -> "a Bool is read as a number"
          [] op \in {"&&", "||"} /\ kinds # {"Bool"}
                 -> "the flag of another class is read"
          [] "Null" \in kinds /\ classes \cap {"Bool", "String"} # {}
                /\ op \in {"+", "-", "*", "/"}
                 -> "null passes for a Bool or a String"
          [] op = "+" /\ classes = {"Float", "Any"} /\ "String" \in kinds
                 -> "a String is typed Float"
          [] op = "-" /\ t.class = "Char" /\ s.class \in {"Int", "Bool"}
                 -> "the pair of classes has an order"
          [] Native(op, s.value, t.value) = Trap -> "no such quotient"
          [] OTHER -> "none"
UnaryGap(op, form, s) ==
    CASE op = "+" /\ Kind(s.value) = "Float" -> "unary + truncates a literal"
      [] op = "-" /\ form = "member" /\ Kind(s.value) = "Bool" -> "the member stays a Bool"
      [] OTHER -> "none"
(* The ways of compiling x op= v that are known not to mean x = x op v.    *)
CompoundGaps(op, x, v) ==
    IF \/ "Any" \in {x.class, v.class}
       \/ v.class = "Bool" /\ (op = "%" \/ x.class = "String")
    THEN {"inPlace", "pointed", "recomputed"}
    ELSE IF op = "%" \/ (x.class = "Int" /\ v.class = "Float" /\ op \in {"+", "-"})
    THEN {"pointed"} ELSE {}

-----------------------------------------------------------------------------
Ways == {"inPlace", "pointed", "recomputed"}
NotAssigned == [w \in {} |-> Refused]

ExpressionInit == \E s \in Operands :
    /\ depth = 0
    /\ literal = s.value
    /\ typed = s
    /\ native = s.value
    /\ untyped = (s.class = "Any")
    /\ assigned = NotAssigned
    /\ known = "none"

Live == known = "none" /\ depth < MaxOperators /\ ~Fails(native) /\ typed.class # "none"

Folded(op, l, r) == IF Fails(l) \/ Fails(r) THEN Refused ELSE leftOpRight(op, l, r)

(* The next operator has the expression on its left or on its right; the   *)
(* other operand is a literal, a variable or a call.                       *)
Binary(op, t, side, form) ==
    LET At(x, y) == IF side = "left" THEN <<x, y>> ELSE <<y, x>>
        operand == At(typed, t)
        constant == At(literal, t.value)
        object  == At(native, t.value)
    IN  /\ Live
        /\ op \in Identities => Kinds(native, t.value) \subseteq {"Bool", "Null"}
        /\ form = "variables" => depth = 0
        /\ literal' = Folded(op, constant[1], constant[2])
        /\ typed' = OptimizeBinary(op, form, operand[1], operand[2])
        /\ native' = Native(op, object[1], object[2])
        /\ untyped' = (untyped \/ t.class = "Any")
        /\ known' = BinaryGap(op, operand[1], operand[2])
        /\ depth' = depth + 1
        /\ UNCHANGED assigned

(* The sign of a number, or a negation; a member is negated by an opcode   *)
(* of its own.                                                             *)
Unary(op, form) ==
    /\ Live
    /\ form = "member" => depth = 0 /\ op = "-"
    /\ literal' = IF Fails(literal) THEN Refused ELSE FoldUnary(op, literal)
    /\ typed' = OptimizeUnary(op, form, typed)
    /\ native' = CASE op = "-" -> negative(native)
                   [] op = "!" -> op_not(native)
                   [] op = "+" -> IF Kind(native) = "Float" THEN native
                                  ELSE IF Kind(native) \in Numbers THEN toInt(native)
                                  ELSE NoOperator
    /\ known' = UnaryGap(op, form, typed)
    /\ depth' = depth + 1
    /\ UNCHANGED <<untyped, assigned>>

(* x op= v ends the expression x: what each way of compiling it stores     *)
(* (those not known to differ), and what x = x op v stores.                *)
Assign(op, v) ==
    LET cast == CompoundCast(op, typed, v)
        b == Converted(cast, v.value)
    IN  /\ Live /\ depth = 0
        /\ cast # "refused" /\ Spelled(op, typed, v) # Refused
        /\ assigned' = [w \in (Ways \ CompoundGaps(op, typed, v)) \cup {"spelled"} |->
                 CASE w = "inPlace"    -> InPlace(op, typed, b)
                   [] w = "pointed"    -> Pointed(op, typed, b)
                   [] w = "recomputed" -> Recomputed(op, typed, v, b)
                   [] w = "spelled"    -> Spelled(op, typed, v)]
        /\ depth' = MaxOperators
        /\ UNCHANGED <<literal, typed, native, untyped, known>>

ExpressionNext ==
    \/ \E op \in BinaryOps, t \in (IF depth = 0 THEN Operands ELSE PlainOperands),
          side \in {"left", "right"}, form \in {"variables", "calls"} :
            Binary(op, t, side, form)
    \/ \E op \in {"+", "-", "!"}, form \in {"operand", "member"} : Unary(op, form)
    \/ \E op \in Arithmetic, v \in Operands : Assign(op, v)

ExpressionSpec == ExpressionInit /\ [][ExpressionNext]_expressionVars

-----------------------------------------------------------------------------
(* Every value is an object the machine can hold: an Int of its width, a   *)
(* Char of its width, a Bool, a Float, a String or null; or the operator   *)
(* has failed.                                                             *)
IsValue(v) == CASE Kind(v) = "Int"   -> v[2] \in -IntLimit .. IntLimit - 1
                [] Kind(v) = "Char"  -> v[2] \in 0 .. CharLimit - 1
                [] Kind(v) = "Bool"  -> v[2] \in {0, 1}
                [] Kind(v) = "Float" -> v[2] \in Int
                [] OTHER             -> Kind(v) \in {"String", "Null"} \cup Failures

ExpressionTypes ==
    /\ depth \in 0 .. MaxOperators
    /\ \A v \in {literal, typed.value, native} : IsValue(v)
    /\ typed.class \in Classes \cup {"Any", "none"}
    /\ untyped \in BOOLEAN
    /\ \A w \in DOMAIN assigned : IsValue(assigned[w])
    /\ known # "none" => depth > 0

(* An expression has one value, whether its operands are literals the      *)
(* compiler folds, variables the emitted code reads with the casts the     *)
(* compiler has put in, or objects handed to the natives: where two of     *)
(* them give a value (or fail while running), it is the same, except where *)
(* the module names the disagreement.                                      *)
OneMeaning ==
    known = "none" =>
        \A v, w \in {literal, typed.value, native} \ {Refused} : v = w

(* What the compiler promises of an operator it accepts: the native it     *)
(* emits has an operator for the operands that come, and the object it     *)
(* creates is of the class the expression was given.  A division by zero   *)
(* is left to the program, and an operand declared Any may be anything.    *)
TypeIsKept ==
    (known = "none" /\ typed.class # "none") =>
        /\ typed.value = NoOperator => untyped
        /\ ~Fails(typed.value) => typed.class \in {Kind(typed.value), "Any"}
                                    \/ (Kind(typed.value) = "Null" /\ typed.nullable)

(* x op= v stores what x = x op v stores, whichever of its three forms the *)
(* compiler emits: in place on a plain variable, through the address       *)
(* GET_POINTER has left, or read and written back for a captured variable. *)
(* The forms that are known to differ are not compared.                    *)
CompoundMeansOperator ==
    \A w \in DOMAIN assigned : assigned[w] = assigned["spelled"]
=============================================================================
