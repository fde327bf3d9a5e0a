----------------------------- MODULE MCPrograms -----------------------------
(***************************************************************************)
(* Statements on small programs: a behaviour is a program of Variables, a  *)
(* loop of Loops, a call of Overloads or the specialisations of a program  *)
(* of Generics.                                                            *)
(*                                                                         *)
(* The loops are every header with a body of one or two statements, and    *)
(* six headers around every other.  A statement that changes a collection  *)
(* or a range stands in a loop over one.  The Ints of the loops are        *)
(* -3 .. 2, so that a range may end at the last of them.                   *)
(***************************************************************************)
EXTENDS StatementsAndCalls

VARIABLES
    program, code, pc, slot, retained, items, variable, limit, frames, stale, met,  \* of Loops
    templates, tree, name, bind, stack, made, registered, result  \* of Generics

loopVars == <<program, code, pc, slot, retained, items, variable, limit, frames, stale, met>>
callVars == <<functions, call, phase, at, score, best, ambiguous, outcome, passed, uncertain>>
genericVars == <<templates, tree, name, bind, stack, made, registered, result>>

Header(kind, to, less, temporary) ==
    [kind |-> kind, to |-> to, less |-> less, temporary |-> temporary]
While == Header("while", "none", FALSE, FALSE)
Forever == Header("true", "none", FALSE, FALSE)
CStyle == Header("cstyle", "none", TRUE, FALSE)
Range2(to, less) == Header("range", to, less, FALSE)
Each(kind, temporary) == Header(kind, "none", FALSE, temporary)
MCHeaders ==
    {While, Forever, CStyle, Each("string", FALSE), Each("keys", FALSE), Each("entries", TRUE)}
    \cup {Range2(to, less) : to \in {"variable", "call"}, less \in BOOLEAN}
    \cup {Each(kind, temporary) : kind \in {"list", "set"}, temporary \in BOOLEAN}
Around == {Forever, CStyle, Range2("variable", FALSE), Range2("call", TRUE),
           Each("list", FALSE), Each("set", TRUE)}

LoopOf(over, body) == [do |-> "loop", over |-> over, body |-> body]
Leaf(do) == [do |-> do, over |-> While, body |-> <<>>]
LeavesOf(over) ==
    {Leaf(do) : do \in {"work", "break", "continue", "return"}
        \cup (IF over.kind \in {"list", "set", "keys", "entries"}
              THEN {"drop", "grow", "assign"} ELSE {})
        \cup (IF over.kind = "range" THEN {"limit"} ELSE {})}

Single == UNION {{LoopOf(h, <<a>>) : a \in LeavesOf(h)}
                 \cup {LoopOf(h, <<a, b>>) : a, b \in LeavesOf(h)} : h \in MCHeaders}
Inners == {LoopOf(h, <<Leaf(do)>>) : h \in MCHeaders, do \in {"work", "break", "continue"}}
Nested == UNION {{LoopOf(h, <<inner>>), LoopOf(h, <<inner, Leaf("work")>>),
                  LoopOf(h, <<inner, Leaf("break")>>), LoopOf(h, <<Leaf("continue"), inner>>)}
                    : h \in Around, inner \in Inners}

OfLoop == INSTANCE Loops WITH
    Programs <- Single \cup Nested, IntLimit <- 3, Sizes <- {0, 1, 2}, MaxSize <- 3,
    MaxStale <- 1, doubt <- met

The == INSTANCE MCCalls
AllNames == The!AllNames
AllFamilies == The!AllFamilies
Constructors == The!Constructors

NoLoop ==
    /\ program = LoopOf(While, <<>>) /\ code = <<>> /\ pc = 0 /\ slot = <<>> /\ retained = <<>>
    /\ items = <<>> /\ variable = <<>> /\ limit = <<>> /\ frames = <<>> /\ stale = <<>> /\ met = "none"

NoCall ==
    /\ functions = <<>> /\ call = "none" /\ phase = "none" /\ at = "none" /\ score = 0
    /\ best = "none" /\ ambiguous = FALSE /\ outcome = "none" /\ passed = <<>> /\ uncertain = {}

OfGenerics == INSTANCE MCGenerics
Specialising == INSTANCE Generics WITH
    Programs <- OfGenerics!AllPrograms, Extends <- OfGenerics!Inheritance, MaxDepth <- 5

NoGenerics ==
    /\ templates = <<>> /\ tree = <<>> /\ name = <<>> /\ bind = <<>> /\ stack = <<>>
    /\ made = <<>> /\ registered = {} /\ result = "none"

(* Beside a loop, a call or specialisations the variables of Variables stay as at first.    *)
MCInit ==
    \/ subject = "variables" /\ Init /\ NoLoop /\ NoCall /\ NoGenerics
    \/ subject = "loop" /\ Init /\ NoCall /\ NoGenerics /\ OfLoop!Init
    \/ subject = "call" /\ Init /\ NoLoop /\ NoGenerics /\ Call!Init
    \/ subject = "generics" /\ Init /\ NoLoop /\ NoCall /\ Specialising!Init
MCNext ==
    \/ subject = "variables" /\ Next /\ UNCHANGED <<subject, loopVars, callVars, genericVars>>
    \/ subject = "loop" /\ OfLoop!Bounded /\ OfLoop!Next /\ UNCHANGED <<subject, vars, callVars, genericVars>>
    \/ subject = "call" /\ Call!Next /\ UNCHANGED <<subject, vars, loopVars, genericVars>>
    \/ subject = "generics" /\ Specialising!Next /\ UNCHANGED <<subject, vars, loopVars, callVars>>
MCSpec == MCInit /\ [][MCNext]_<<subject, vars, loopVars, callVars, genericVars>>

(* The code of a loop does what the loop says (ForNode::putBytecodes).     *)
LoopsFollowTheSource == subject = "loop" => OfLoop!LoopsFollowTheSource
(* The slot of a loop holds one count on its element (FOR_LIST).           *)
SlotsAreCounted == subject = "loop" => OfLoop!SlotsAreCounted
(* A specialisation means what its template says with the argument for the *)
(* parameter (loadClassGenerics, loadFunctionGenerics).                    *)
SpecialisationsAreMeant == subject = "generics" => Specialising!SpecialisationsAreMeant
=============================================================================
