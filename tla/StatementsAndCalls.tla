------------------------- MODULE StatementsAndCalls -------------------------
(***************************************************************************)
(* Two sides of a small program: its statements, which are those of        *)
(* Variables, and a call in it, which is one of Overloads.                 *)
(***************************************************************************)
EXTENDS Variables

CONSTANTS  \* those of Overloads
    CallNames, CallFamilies, ImplicitConstructors

VARIABLES
    subject,  \* what a behaviour is about: "call", or something else
    functions, call, phase, at, score, best, ambiguous, outcome, passed, uncertain  \* of Overloads

Call == INSTANCE Overloads WITH
    Names <- CallNames, Families <- CallFamilies, Implicit <- ImplicitConstructors,
    doubt <- uncertain

ASSUME CallsAssumption == Call!CallsAreTyped

(* A call means the function that suits it best (CallNode::match).         *)
BestIsChosen == subject = "call" => Call!BestIsChosen
(* A function that is called has arguments of the types of its parameters  *)
(* (CallNode::optimize, matchFunction).                                    *)
ArgumentsSuit == subject = "call" => Call!ArgumentsSuit
=============================================================================
