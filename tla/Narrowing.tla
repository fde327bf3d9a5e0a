------------------------------ MODULE Narrowing ------------------------------
(***************************************************************************)
(* The smart casts of the type checker: where a variable declared nullable *)
(* counts as not null.                                                     *)
(*                                                                         *)
(* The text of a function is walked once, statement by statement, and the  *)
(* three passes over it and one run of it are followed side by side:       *)
(* loadIf, loadWhile and loadWhen parse it, resolve and optimize visit the *)
(* nodes.  A pass narrows a variable by setting `nullable' of its          *)
(* declaration and sets it back at the end of the block.  The node of a    *)
(* read stays "not null" once any pass has seen the declaration narrowed   *)
(* (VarNode.cpp), so a read is sure when one pass was sure there.          *)
(*                                                                         *)
(* Variables are locals with a nullable type.  The text is kept only while *)
(* a loop is open: its body runs at most twice, and a run that would go on *)
(* is followed no further.                                                 *)
(***************************************************************************)
EXTENDS Integers, Sequences, FiniteSets, SequencesExt

CONSTANTS
    Variables,     \* locals declared with a nullable type
    Headers,       \* its if, when and while: a form and a condition
    Assignments,   \* its assignments: a variable and a value
    MaxStatements, \* bound: statements, `else' and ends of blocks
    MaxDepth       \* bound: blocks open inside each other

Passes == {"parse", "resolve", "optimize"}
Checks == {"resolve", "optimize"}     \* the passes that follow assignments
UpTo == [parse |-> {"parse"}, resolve |-> {"parse", "resolve"}, optimize |-> Passes]
VARIABLES
    main,        \* the text is the top level of the program
    nullable,    \* pass -> variable -> `nullable' of its declaration
    open,        \* the blocks the walk is in, outermost first
    run,         \* the run of the text
    loop,        \* the statements of the open loop
    statements   \* statements walked so far

bodyVars == <<main, nullable, open, run, loop, statements>>

(***************************************************************************)
(* Conditions: one test, or two joined by && or ||; both may be negated.   *)
(***************************************************************************)
Tests == [test : {"isNull", "maybeNull", "surely", "opaque"}, var : Variables, not : BOOLEAN]
Conditions ==
    {c \in [op : {"one", "and", "or"}, left : Tests, right : Tests, not : BOOLEAN] :
        c.op = "one" => c.right = c.left}
Values == {"null", "nullableCall", "call", "value"}

ASSUME BodyAssumption ==
    /\ Variables \cap Values = {}
    /\ Headers \subseteq {"if", "when", "while"} \X Conditions
    /\ Assignments \subseteq Variables \X (Variables \cup Values)

Turned(casts, not) == IF not THEN [true |-> casts.false, false |-> casts.true] ELSE casts

(* The variables a test proves not null when it holds and when it does not: *)
(* x == null, x.isNullOrEmpty() and x is T / x.isNotNullOrEmpty() / x in r. *)
TestCasts(t) ==
    Turned([true |-> IF t.test = "surely" THEN {t.var} ELSE {},
            false |-> IF t.test \in {"isNull", "maybeNull"} THEN {t.var} ELSE {}], t.not)

(* A plausible slip: the dummies of && and || are not used.                *)
extractSmartCastsOfAll(c) ==
    LET left == TestCasts(c.left)
        right == TestCasts(c.right)
    IN  Turned([true |-> left.true \cup right.true,
                false |-> left.false \cup right.false], c.not)

extractSmartCasts(c) ==
    LET left == TestCasts(c.left)
        right == TestCasts(c.right)
    IN  Turned([true |-> IF c.op = "or" THEN {} ELSE left.true \cup right.true,
                false |-> IF c.op = "and" THEN {} ELSE left.false \cup right.false], c.not)

(* What the right operand of && and || is read with.                       *)
OperandCasts(c) ==
    CASE c.op = "and" -> TestCasts(c.left).true
      [] c.op = "or" -> TestCasts(c.left).false
      [] OTHER -> {}

(* The answers of a test in the run.                                       *)
Answers(t, nulls) ==
    {answer # t.not : answer \in
        CASE t.test = "isNull" -> {t.var \in nulls}
          [] t.test = "maybeNull" -> IF t.var \in nulls THEN {TRUE} ELSE BOOLEAN
          [] t.test = "surely" -> IF t.var \in nulls THEN {FALSE} ELSE BOOLEAN
          [] t.test = "opaque" -> BOOLEAN}

Connected(op, l, r) == CASE op = "and" -> l /\ r [] op = "or" -> l \/ r [] OTHER -> l

(* The ways a condition is evaluated: its answer, and the variables its    *)
(* right operand reads as not null.                                        *)
Evaluations(c, nulls) ==
    {[holds |-> Connected(c.op, e[1], e[2]) # c.not,
      reads |-> IF c.op = (IF e[1] THEN "and" ELSE "or") THEN OperandCasts(c) ELSE {}] :
        e \in Answers(c.left, nulls) \X Answers(c.right, nulls)}

(***************************************************************************)
(* The passes.                                                             *)
(***************************************************************************)
Sure(n) == {x \in Variables : \E p \in Passes : ~n[p][x]}

(* isNullable of the value of an assignment: a call is nullable until it   *)
(* is optimized, and a read until a pass was sure of it.                   *)
isNullable(p, v) ==
    CASE v \in Variables -> \A q \in UpTo[p] : nullable[q][v]
      [] v = "call" -> p = "resolve"
      [] OTHER -> v \in {"null", "nullableCall"}

Assignment(p, v) == IF isNullable(p, v) THEN "ASSIGNED_NULLABLE" ELSE "ASSIGNED_NON_NULL"
Nothing == [p \in Checks |-> [x \in Variables |-> "UNMODIFIED"]]

(* A block: the form of the statement it belongs to, the casts of the      *)
(* condition, the casts to take back at its end, what its own statements   *)
(* assigned and whether the last one leaves; for an else block, what the   *)
(* then block did.                                                         *)
Block(form, casts, undo) ==
    [form |-> form, casts |-> casts, undo |-> undo, wrote |-> Nothing, exits |-> FALSE,
     inElse |-> FALSE, then |-> [wrote |-> Nothing, exits |-> FALSE]]

NoCasts == [true |-> {}, false |-> {}]
Body == Block("body", NoCasts, [p \in Passes |-> <<>>])
Top == open[Len(open)]
ReplaceTop(blocks, b) == [blocks EXCEPT ![Len(blocks)] = b]

(* SmartCastInfo::apply, on a pass' declarations.                          *)
Apply(declared, xs) == [x \in Variables |-> declared[x] /\ x \notin xs]
Originals(declared, xs) == [x \in xs |-> declared[x]]

(* SmartCastInfo::restore.                                                 *)
Back(cast, declared) ==
    [x \in Variables |-> IF x \in DOMAIN cast THEN cast[x] ELSE declared[x]]

(* A plausible slip: the first one first.                                  *)
RestoreInOrder(n, b) ==
    [p \in Passes |-> FoldLeft(LAMBDA declared, cast : Back(cast, declared), n[p], b.undo[p])]

(* Every cast of a block is restored at its end, the last one first.       *)
Restore(n, b) ==
    [p \in Passes |-> FoldRight(Back, b.undo[p], n[p])]

analyzeVarInBranch(p, branch, x) ==
    IF branch.exits THEN "EXITS_EARLY" ELSE branch.wrote[p][x]

NonNullAfter(p, branch, x, cast) ==
    LET status == analyzeVarInBranch(p, branch, x)
    IN  status \in {"ASSIGNED_NON_NULL", "EXITS_EARLY"} \/ (cast /\ status = "UNMODIFIED")

(* The variables narrowed behind an if statement, one set per round of     *)
(* casts.                                                                  *)
guardCasts(p, b) ==
    IF ~b.inElse
    THEN <<{x \in b.casts.false :
              b.exits \/ analyzeVarInBranch(p, b, x) = "ASSIGNED_NON_NULL"}>>
    ELSE LET candidates == b.casts.true \cup b.casts.false
                           \cup {x \in Variables : b.then.wrote[p][x] # "UNMODIFIED"}
         IN  <<IF b.exits THEN b.casts.true ELSE {},
               {x \in candidates :
                  NonNullAfter(p, b.then, x, x \in b.casts.true)
                  /\ NonNullAfter(p, b, x, x \in b.casts.false)}>>

(* Where casts stay behind a statement: in every block that is resolved or *)
(* optimized as a block; the top level is resolved node by node.           *)
Guards(p, blocks) == p = "optimize" \/ (p = "resolve" /\ ~(main /\ Len(blocks) = 1))

(* checkAndApplyGuardCasts at the end of statement b, in the blocks around *)
(* it.                                                                     *)
Guarded(n, blocks, b) ==
    LET rounds == [p \in Passes |->
                     IF b.form = "if" /\ Guards(p, blocks) THEN guardCasts(p, b) ELSE <<>>]
        After(p, i) == Apply(n[p], UNION {rounds[p][j] : j \in 1 .. i})
        around == blocks[Len(blocks)]
    IN  [nullable |-> [p \in Passes |-> After(p, Len(rounds[p]))],
         open |-> ReplaceTop(blocks,
            [around EXCEPT !.exits = FALSE,
                           !.undo = [p \in Passes |-> around.undo[p] \o
                              [i \in DOMAIN rounds[p] |->
                                 Originals(After(p, i - 1), rounds[p][i])]]])]

-----------------------------------------------------------------------------
(***************************************************************************)
(* The run: the variables that are null, those whose null the passes are   *)
(* known to miss, whether it is in this block, and for every open block    *)
(* whether it came by and whether the condition held.                      *)
(***************************************************************************)
Running(r) == r.at = "running"

(* A read at a point where the run is and the passes are sure.             *)
Read(r, sure) ==
    IF Running(r) THEN [r EXCEPT !.wrong = @ \cup ((sure \cap r.nulls) \ r.doubt)] ELSE r

Assigned(r, s) ==
    IF ~Running(r) THEN {r}
    ELSE {[r EXCEPT !.nulls = IF null THEN @ \cup {s.var} ELSE @ \ {s.var},
                    !.doubt = IF null /\ (s.missed \/ s.value \in r.doubt)
                              THEN @ \cup {s.var} ELSE @ \ {s.var}] :
            null \in CASE s.value \in Variables -> {s.value \in r.nulls}
                       [] s.value = "nullableCall" -> BOOLEAN
                       [] OTHER -> {s.value = "null"}}

Entered(r, c) ==
    IF ~Running(r) THEN {[r EXCEPT !.way = Append(@, [came |-> FALSE, held |-> FALSE])]}
    ELSE {[Read(r, e.reads) EXCEPT
              !.way = Append(@, [came |-> TRUE, held |-> e.holds]),
              !.at = IF e.holds THEN "running" ELSE "skipping"] : e \in Evaluations(c, r.nulls)}

Switched(r) ==
    LET way == r.way[Len(r.way)]
    IN  IF way.came
        THEN {[r EXCEPT !.at = IF ~way.held THEN "running"
                               ELSE IF @ = "running" THEN "skipping" ELSE @]}
        ELSE {r}

Closed(r, looping) ==
    {[r EXCEPT !.way = Front(@),
               !.at = IF r.way[Len(r.way)].came /\ (@ = "skipping" \/ (looping /\ @ = "broken"))
                      THEN "running" ELSE @]}

(* A run that is followed no further.                                      *)
Returned(r) ==
    [r EXCEPT !.at = "returned", !.nulls = {}, !.doubt = {},
              !.way = [i \in DOMAIN @ |-> [came |-> FALSE, held |-> FALSE]]]

Left(r, how) ==
    IF ~Running(r) THEN r
    ELSE IF how = "returned" THEN Returned(r) ELSE [r EXCEPT !.at = how]

(* The run goes through a statement, and everything is read behind it.     *)
Stepped(r, step) ==
    LET s == step.statement
    IN  {Read(next, step.sure) : next \in
            CASE s.kind = "set" -> Assigned(r, s)
              [] s.kind = "enter" -> Entered(r, s.condition)
              [] s.kind = "else" -> Switched(r)
              [] s.kind = "end" -> Closed(r, FALSE)
              [] s.kind = "leave" -> {Left(r, s.how)}}

Again(rs, steps) ==
    FoldLeft(LAMBDA runs, step : UNION {Stepped(r, step) : r \in runs}, rs, steps)

(* The end of a loop: a run that came through its body tests the condition *)
(* again, and is followed through one more round.                          *)
Looped(r) ==
    LET way == r.way[Len(r.way)]
        through == way.came /\ way.held /\ Running(r)
        next == IF through THEN Again({[r EXCEPT !.way = Front(@)]}, loop) ELSE {r}
        (* the run that came through the second round as well *)
        Unfollowed(q) == through /\ q.way[Len(q.way)].held /\ Running(q)
    IN  UNION {IF Unfollowed(q) THEN {Returned([q EXCEPT !.way = Front(@)])}
                                ELSE Closed(q, TRUE) : q \in next}

-----------------------------------------------------------------------------
InLoop(blocks) == \E i \in DOMAIN blocks : blocks[i].form = "while"

(* One statement of the text: the run goes through it, and a loop it is in *)
(* remembers it.                                                           *)
Walk(s, n, blocks) ==
    LET step == [statement |-> s, sure |-> Sure(n)]
    IN  /\ statements' = statements + 1
        /\ statements' + Len(blocks) <= MaxStatements + 1  \* every block can be closed
        /\ run' \in Stepped(run, step)
        /\ nullable' = n /\ open' = blocks
        /\ loop' = IF \E i \in DOMAIN blocks : blocks[i].form = "while" /\ run'.way[i - 1].held
                   THEN Append(loop, step) ELSE <<>>
        /\ UNCHANGED main

(* The variables a pass is sure of, or will be again at the end of a block *)
(* around: a guard may have found them narrowed.                           *)
Relied(n, blocks) ==
    Sure(n) \cup UNION {Sure(Restore([p \in Passes |-> [x \in Variables |-> TRUE]], blocks[i])) :
                         i \in 1 .. Len(blocks)}

(* Null is assigned where a pass relies on the variable, or did at the     *)
(* head of the loop, or in a block inside a branch that has given it a     *)
(* value: the passes do not follow it.                                     *)
Missed(x) ==
    \/ x \in Relied(nullable, open)
    \/ loop # <<>> /\ x \in loop[1].statement.relied
    \/ \E i \in 1 .. Len(open) - 1, p \in Checks : open[i].wrote[p][x] = "ASSIGNED_NON_NULL"

(* x = v: only optimize makes the declaration nullable again.              *)
Set(x, v) ==
    /\ Walk([kind |-> "set", var |-> x, value |-> v, missed |-> Missed(x)],
            [nullable EXCEPT !["optimize"][x] = @ \/ isNullable("optimize", v)],
            ReplaceTop(open, [Top EXCEPT
                !.exits = FALSE,
                !.wrote = [p \in Checks |-> [@[p] EXCEPT ![x] = Assignment(p, v)]]]))

(* if, a branch of when, while: every pass casts around the body.          *)
Enter(form, c) ==
    LET casts == extractSmartCasts(c)
    IN  /\ Len(open) <= MaxDepth /\ (form = "while" => ~InLoop(open))
        /\ Walk([kind |-> "enter", condition |-> c, relied |-> Relied(nullable, open)],
                [p \in Passes |-> Apply(nullable[p], casts.true)],
                Append(open, Block(form, casts,
                    [p \in Passes |-> <<Originals(nullable[p], casts.true)>>])))

(* else, and the next branches of when, which the parser does not cast.    *)
Else ==
    LET restored == Restore(nullable, Top)
        casts == [p \in Passes |-> IF p = "parse" /\ Top.form = "when"
                                   THEN {} ELSE Top.casts.false]
    IN  /\ Top.form \in {"if", "when"} /\ ~Top.inElse
        /\ Walk([kind |-> "else"],
                [p \in Passes |-> Apply(restored[p], casts[p])],
                ReplaceTop(open, [Block(Top.form, Top.casts,
                    [p \in Passes |-> <<Originals(restored[p], casts[p])>>]) EXCEPT
                        !.inElse = TRUE,
                        !.then = [wrote |-> Top.wrote, exits |-> Top.exits]]))

EndOfIf ==
    LET after == Guarded(Restore(nullable, Top), Front(open), Top)
    IN  /\ Top.form \in {"if", "when"}
        /\ Walk([kind |-> "end"], after.nullable, after.open)

EndOfLoop ==
    LET restored == Restore(nullable, Top)
    IN  /\ Top.form = "while"
        /\ statements' = statements + 1
        /\ nullable' = restored
        /\ open' = ReplaceTop(Front(open), [open[Len(open) - 1] EXCEPT !.exits = FALSE])
        /\ run' \in {Read(r, Sure(restored)) : r \in Looped(run)}
        /\ loop' = <<>> /\ UNCHANGED main

Leave(how) ==
    /\ how = "broken" => InLoop(open)
    /\ Walk([kind |-> "leave", how |-> how], nullable,
            ReplaceTop(open, [Top EXCEPT !.exits = TRUE]))

(* The end of the text.                                                    *)
Finish ==
    /\ Len(open) = 1 /\ open[1].form = "body"
    /\ nullable' = Restore(nullable, Top)
    /\ open' = <<[Top EXCEPT !.form = "done"]>>
    /\ statements' = MaxStatements
    /\ UNCHANGED <<main, run, loop>>

BodyInit ==
    /\ main \in BOOLEAN
    /\ nullable = [p \in Passes |-> [x \in Variables |-> TRUE]]
    /\ open = <<Body>> /\ loop = <<>> /\ statements = 0
    /\ \E nulls \in SUBSET Variables :
         run = [nulls |-> nulls, doubt |-> {}, at |-> "running", way |-> <<>>, wrong |-> {}]

BodyNext ==
    /\ open[1].form = "body"
    /\ \/ \E a \in Assignments : Set(a[1], a[2])
       \/ \E h \in Headers : Enter(h[1], h[2])
       \/ Else
       \/ EndOfIf
       \/ EndOfLoop
       \/ \E how \in {"broken", "returned"} : Leave(how)
       \/ Finish

BodySpec == BodyInit /\ [][BodyNext]_bodyVars

-----------------------------------------------------------------------------
(* Behind the last statement every declaration is as nullable as it was    *)
(* declared.                                                               *)
CastsAreUndone == open[1].form = "done" => Sure(nullable) = {}

(* A variable that is read as not null holds a value, unless its null was  *)
(* assigned where the passes do not follow it (VarNode::resolve,           *)
(* checkAndApplyGuardCasts); and what a branch has made of a declaration   *)
(* is undone behind it (SmartCastInfo::restore).                           *)
SureReadsHold == run.wrong = {} /\ CastsAreUndone

=============================================================================
