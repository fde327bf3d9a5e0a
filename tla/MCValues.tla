------------------------------ MODULE MCValues ------------------------------
(***************************************************************************)
(* The operators, the functions of String and the smart casts on small     *)
(* values: a behaviour is an expression of Operators, a text of Strings or *)
(* a function's body of Narrowing.                                         *)
(*                                                                         *)
(* Expressions are over an Int of three bits: its smallest value, a        *)
(* negative one, zero and positive ones; halves, zero and one and a half.  *)
(* The texts have characters of one to four bytes, NUL, both cases, blanks *)
(* and lines, the words for a Bool, and numbers at the ends of an Int of   *)
(* five bits.  The bodies have two variables, of which y is assigned calls *)
(* only.                                                                   *)
(***************************************************************************)
EXTENDS Operators, Narrowing

CONSTANTS Absent, Exception, Ended  \* null, an exception, the end of the process

MCInts == -4 .. 3
MCHalves == {-3, -1, 0, 2, 3}

MCTexts ==
    {<<>>, <<97>>, <<0, 97>>, <<97, 0, 32>>, <<48, 0>>, <<32, 233>>, <<201, 97, 169>>,
     <<97, 65, 97>>, <<8364, 97>>, <<97, 128512>>, <<116, 114, 117, 101>>, <<48>>,
     <<45, 49, 54>>, <<49, 55>>, <<32, 97, 13, 10, 124, 98, 10, 32>>,
     <<10, 32, 97, 10, 10, 32, 65>>}
MCArguments == {<<>>, <<97>>, <<97, 0>>, <<233>>, <<0>>}
MCPositions == {-1, 0, 1, 2, 15}
MCPredicates == {[holds |-> {97, 32, 233}, raises |-> {}],
                 [holds |-> {65, 233}, raises |-> {97}],
                 [holds |-> {97, 195}, raises |-> {169}]}

IsNull(var, not) == [test |-> "isNull", var |-> var, not |-> not]
Maybe(test, var, not) == [test |-> test, var |-> var, not |-> not]
One(test) == [op |-> "one", left |-> test, right |-> test, not |-> FALSE]
Both(op, not, turned) ==
    [op |-> op, left |-> IsNull("x", not), right |-> IsNull("y", not), not |-> turned]

MCAssignments ==
    {<<"x", "null">>, <<"x", "value">>, <<"x", "call">>, <<"x", "y">>, <<"y", "nullableCall">>}
MCHeaders ==
    ({"if"} \X {One(IsNull("x", FALSE)), One(IsNull("x", TRUE)), One(Maybe("opaque", "x", FALSE)),
                One(Maybe("maybeNull", "y", FALSE)),
                Both("and", TRUE, FALSE), Both("or", FALSE, TRUE), Both("and", FALSE, FALSE)})
    \cup {<<"when", One(IsNull("x", FALSE))>>,
          <<"while", One(IsNull("x", TRUE))>>, <<"while", One(Maybe("surely", "y", TRUE))>>}

VARIABLES
    subject,  \* "expression", "text" or "body"
    text, meant, answer, expected, doubt, calls    \* those of Strings

textVars == <<text, meant, answer, expected, doubt, calls>>

OfText == INSTANCE Strings WITH
    Texts <- MCTexts, Arguments <- MCArguments, Positions <- MCPositions,
    Predicates <- MCPredicates, IntLimit <- 16, MaxCalls <- 2, MaxSize <- 5,
    Raised <- Exception, Null <- Absent, Aborted <- Ended

NoExpression ==
    /\ depth = 0 /\ literal = Null /\ native = Null /\ untyped = FALSE
    /\ typed = Declared("Null", TRUE, Null) /\ assigned = NotAssigned /\ known = "none"
NoText ==
    /\ text = <<>> /\ meant = <<>> /\ answer = Absent /\ expected = Absent
    /\ doubt = {} /\ calls = 0
NoBody == BodyInit /\ main = FALSE /\ run.nulls = {}

MCInit ==
    \/ subject = "expression" /\ ExpressionInit /\ NoText /\ NoBody
    \/ subject = "text" /\ OfText!Init /\ NoExpression /\ NoBody
    \/ subject = "body" /\ BodyInit /\ NoExpression /\ NoText

MCNext ==
    \/ subject = "expression" /\ ExpressionNext /\ UNCHANGED <<subject, textVars, bodyVars>>
    \/ subject = "text" /\ OfText!Next /\ UNCHANGED <<subject, expressionVars, bodyVars>>
    \/ subject = "body" /\ BodyNext /\ UNCHANGED <<subject, expressionVars, textVars>>

MCSpec == MCInit /\ [][MCNext]_<<subject, expressionVars, textVars, bodyVars>>

(* A function of String means the same on characters as it does on bytes,  *)
(* but for the causes of doubt, and leaves no half a character behind, but *)
(* for those that cut at bytes (StringFunctions.hpp).                      *)
AnswersAreMeant == OfText!AnswersAreMeant

=============================================================================
