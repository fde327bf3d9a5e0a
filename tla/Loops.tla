-------------------------------- MODULE Loops --------------------------------
(***************************************************************************)
(* Loops, from the statement to the opcodes.  A program is a loop, perhaps *)
(* with a second one in its body.  The compiler lays out its code, with    *)
(* the jumps of break and continue left open until the loop around them    *)
(* knows its addresses (putBytecodes and rewrite), and the virtual machine *)
(* runs it.  Beside it the same program runs as the language has it, a     *)
(* statement at a time: each waits for the other where the program does    *)
(* something that can be seen, an event.                                   *)
(*                                                                         *)
(* A loop over a collection keeps three slots: an iterator, null before    *)
(* the first step, the element, on which it holds a count, and for an      *)
(* expression that is not a variable, the collection.                      *)
(***************************************************************************)
EXTENDS Integers, Sequences, SequencesExt, FiniteSetsExt

CONSTANTS
    Programs,   \* the loops that are compiled and run
    IntLimit,   \* bound: Ints are -IntLimit .. IntLimit - 1
    Sizes,      \* bound: how large a collection is, and where a range ends, at first
    MaxSize,    \* bound: elements one collection ever has
    MaxStale    \* bound: elements left in the slot of a loop that was broken

Levels == 1 .. 2             \* the loop, and the loop in its body
None == "none"
Null == -1 - IntLimit         \* an empty slot: no Int
Collections == {"list", "string", "set", "keys", "entries"}
Dense == {"set", "keys", "entries"}   \* an iterator points into a vector
Wrap(k) == ((k + IntLimit) % (2 * IntLimit)) - IntLimit

VARIABLES
    program,    \* the statement
    code, pc,   \* what it is compiled to, and the next instruction
    slot,       \* of each loop: its iterator, element or counter, and collection
    retained,   \* counts the element slot of each loop has taken
    items,      \* what is in the two collections each loop may read
    variable,   \* which of them the variable of the loop holds
    limit,      \* where the range of each loop ends
    frames,     \* the loops the program is in, as the language has it
    stale,      \* counts that a step forgot: the slot was not empty
    doubt       \* what known construct the program has met, or None

vars == <<program, code, pc, slot, retained, items, variable, limit, frames, stale, doubt>>

-----------------------------------------------------------------------------
(* The code of a program.  An instruction has an opcode, the level it      *)
(* belongs to, the line of its statement and the address it may jump to.   *)

Instruction(op, n, line, to) == [op |-> op, level |-> n, line |-> line, to |-> to]
Open == 0                             \* an address rewrite fills in
Asked == {"break", "continue", "return"}   \* leaves that stand behind an if

LeafCode(leaf, n, line, at) ==
    IF leaf \notin Asked THEN <<Instruction(leaf, n, line, Open)>>
    ELSE <<Instruction("ask", n, line, at + 2),
           IF leaf = "return" THEN Instruction("RETURN", n, line, Open)
           ELSE Instruction(leaf, n, line, Open)>>

(* SkipNode::rewrite: an open jump of this body goes to this loop.         *)
Rewrite(body, n, continuePos, breakPos) ==
    [k \in DOMAIN body |->
        IF body[k].level # n \/ body[k].op \notin {"break", "continue"} THEN body[k]
        ELSE Instruction("JUMP", n, body[k].line,
                         IF body[k].op = "break" THEN breakPos ELSE continuePos)]

(* How a step of a range is laid out: `to' as a variable or a constant has *)
(* an instruction of its own that jumps when the range is over, any other  *)
(* expression is compared like a condition.                                *)
PutSwappedRange(over, n, exit) ==
    <<Instruction("PLUS_PLUS", n, 0, Open),
      Instruction(IF over.less THEN "JUMP_IF_GREATER" ELSE "JUMP_IF_GREATER_EQ", n, 0, exit)>>
PutOptimizedRange(over, n, exit) ==
    <<Instruction("PLUS_PLUS", n, 0, Open),
      Instruction(IF over.less THEN "JUMP_IF_GREATER_EQ" ELSE "JUMP_IF_GREATER", n, 0, exit)>>
PutPlainRange(over, n, exit) ==
    <<Instruction("FAST_PLUS_PLUS", n, 0, Open),
      Instruction(IF over.less THEN "JUMP_UNLESS_LESS" ELSE "JUMP_UNLESS_LESS_EQ", n, 0, exit)>>

(* What stands before the body, where continue goes to, and what stands    *)
(* after the body.                                                         *)
RangeHead(over, n, at, exit) ==
    <<Instruction("from", n, 0, Open),
      Instruction(IF over.less THEN "JUMP_UNLESS_LESS" ELSE "JUMP_UNLESS_LESS_EQ", n, 0, exit),
      Instruction("JUMP", n, 0, at + 5)>>
    \o (IF over.to \in {"variable", "constant"}
        THEN PutOptimizedRange(over, n, exit) ELSE PutPlainRange(over, n, exit))
CollectionHead(over, n, exit) ==
    <<Instruction("null", n, 0, Open)>>
    \o (IF over.temporary THEN <<Instruction("hold", n, 0, Open)>> ELSE <<>>)
    \o <<Instruction("FOR", n, 0, exit)>>
WhileHead(over, n, exit) ==
    IF over.kind = "true" THEN <<>> ELSE <<Instruction("ask", n, 0, exit)>>
CStyleHead(over, n, exit) ==
    <<Instruction("from", n, 0, Open), Instruction("JUMP_UNLESS_LESS", n, 0, exit)>>

HeadCode(over, n, at, exit) ==
    CASE over.kind = "range" -> RangeHead(over, n, at, exit)
      [] over.kind \in Collections -> CollectionHead(over, n, exit)
      [] over.kind \in {"while", "true"} -> WhileHead(over, n, exit)
      [] over.kind = "cstyle" -> CStyleHead(over, n, exit)

(* Where continue goes to, counted from the start of the head.             *)
ContinueAt(over) ==
    CASE over.kind = "range" -> 3
      [] over.kind \in Collections -> IF over.temporary THEN 2 ELSE 1
      [] over.kind \in {"while", "true"} -> 0
      [] over.kind = "cstyle" -> 1
(* The step of a C-style for is the last statement of its body.            *)
TailCode(over, n) ==
    IF over.kind = "cstyle" THEN <<Instruction("step", n, 0, Open)>> ELSE <<>>

RECURSIVE LoopCode(_, _, _)
BodyCode(body, n, at) ==
    LET Add(before, line) ==
            LET next == at + Len(before)
            IN  before \o (IF body[line].do = "loop" THEN LoopCode(body[line], n + 1, next)
                         ELSE LeafCode(body[line].do, n, line, next))
    IN  FoldLeft(Add, <<>>, [line \in DOMAIN body |-> line])
LoopCode(loop, n, at) ==
    LET start == at + Len(HeadCode(loop.over, n, at, at))
        body == BodyCode(loop.body, n, start) \o TailCode(loop.over, n)
        exit == start + Len(body) + 1
        again == at + ContinueAt(loop.over)
    IN  HeadCode(loop.over, n, at, exit) \o Rewrite(body, n, again, exit)
            \o <<Instruction("JUMP", n, 0, again)>>

CodeOf(loop) == Append(LoopCode(loop, 1, 1), Instruction("RETURN", 1, 0, Open))
This == code[pc]

-----------------------------------------------------------------------------
(* The loop at a level, and where both machines are.                       *)

Inner(loop) == SelectSeq(loop.body, LAMBDA s : s.do = "loop")
Loop(n) == IF n = 1 THEN program ELSE Inner(program)[1]
Over(n) == Loop(n).over
HasElement(n) == Over(n).kind \notin {"while", "true"}
Empty == [iterator |-> Null, element |-> Null, collection |-> Null]

Events == {"ask", "work", "drop", "grow", "assign", "limit", "RETURN"}
AtEvent == This.op \in Events

(* An event is a statement, or the condition of a while, and the elements  *)
(* of the loops around it.                                                 *)
Event(n, line, element(_)) ==
    [level |-> n, line |-> line,
     elements |-> [k \in 1 .. n |->
        IF ~HasElement(k) \/ (k = n /\ line = 0) THEN Null ELSE element(k)]]
Ended == [level |-> 0, line |-> 0, elements |-> <<>>]
SeenByMachine ==
    IF This.op = "RETURN" THEN Ended
    ELSE Event(This.level, This.line, LAMBDA k : slot[k].element)

-----------------------------------------------------------------------------
(* The program as the language has it.  A frame is a loop the program is   *)
(* in: the next line of its body, its element, the elements it has visited *)
(* and the end its range had when the loop was entered.                    *)

Depth == Len(frames)
Frame == frames[Depth]
Lines == Loop(Depth).body
AtTest == Frame.line > Len(Lines)
SourceAtEvent ==
    \/ frames = <<>>
    \/ AtTest /\ Over(Depth).kind = "while"
    \/ ~AtTest /\ Lines[Frame.line].do # "loop"
SeenInSource ==
    IF frames = <<>> THEN Ended
    ELSE Event(Depth, IF AtTest THEN 0 ELSE Frame.line, LAMBDA k : frames[k].element)

Entered(n) ==
    [line |-> Len(Loop(n).body) + 1, element |-> -1, visited |-> {},
     of |-> variable[n], last |-> limit[n]]
Leave(stack) == SubSeq(stack, 1, Len(stack) - 1)
Again(frame) == [frame EXCEPT !.line = 1]

(* What the next element is, if there is one.                              *)
Remaining(n, frame) == SelectSeq(items[n][frame.of], LAMBDA e : e \notin frame.visited)
HasNext(n, frame) ==
    CASE Over(n).kind = "true" -> TRUE
      [] Over(n).kind \in {"range", "cstyle"} ->
            frame.element + (IF Over(n).less THEN 1 ELSE 0) < frame.last
      [] OTHER -> Remaining(n, frame) # <<>>
Visit(n, frame) ==
    CASE Over(n).kind = "true" -> frame
      [] Over(n).kind \in {"range", "cstyle"} -> [frame EXCEPT !.element = @ + 1]
      [] OTHER -> LET e == Remaining(n, frame)[1]
                  IN  [frame EXCEPT !.element = e, !.visited = @ \cup {e}]

Source ==
    /\ doubt = None /\ AtEvent /\ ~SourceAtEvent
    /\ frames' =
        CASE ~AtTest -> [frames EXCEPT ![Depth].line = @ + 1] \o <<Entered(Depth + 1)>>
          [] AtTest /\ HasNext(Depth, Frame) ->
                [frames EXCEPT ![Depth] = Again(Visit(Depth, Frame))]
          [] AtTest /\ ~HasNext(Depth, Frame) -> Leave(frames)
    /\ UNCHANGED <<program, code, pc, slot, retained, items, variable, limit, stale, doubt>>

-----------------------------------------------------------------------------
(* The opcodes.                                                            *)

Runs(op) == doubt = None /\ pc <= Len(code) /\ This.op = op
GoTo(address) == pc' = address
Counter(n, k) == slot' = [slot EXCEPT ![n].element = k]
Quiet == UNCHANGED <<program, code, items, variable, limit, frames, stale, doubt>>

Jump == Runs("JUMP") /\ GoTo(This.to) /\ UNCHANGED <<slot, retained>> /\ Quiet

(* STORE of `from', and the step at the end of a C-style for.              *)
StoreFrom ==
    /\ Runs("from") /\ GoTo(pc + 1) /\ Counter(This.level, 0)
    /\ UNCHANGED retained /\ Quiet
CStyleStep ==
    /\ Runs("step") /\ GoTo(pc + 1) /\ Counter(This.level, Wrap(slot[This.level].element + 1))
    /\ UNCHANGED retained /\ Quiet

(* PLUS_PLUS_LOCAL, PLUS_PLUS_GLOBAL and FAST_PLUS_PLUS write into the     *)
(* object of the counter; past the largest Int it goes on at the smallest. *)
PlusPlus ==
    /\ This.op \in {"PLUS_PLUS", "FAST_PLUS_PLUS"} /\ Runs(This.op) /\ GoTo(pc + 1)
    /\ Counter(This.level, Wrap(slot[This.level].element + 1))
    /\ doubt' = IF slot[This.level].element = IntLimit - 1 THEN "overflow" ELSE None
    /\ UNCHANGED <<program, code, retained, items, variable, limit, frames, stale>>

(* LESS_THAN and LESS_THAN_EQ with JUMP_IF_FALSE, and the instructions     *)
(* that compare a variable and jump.  All of them read the end of the      *)
(* range as it is now.                                                     *)
Leaves(op, counter, last) ==
    CASE op = "JUMP_UNLESS_LESS" -> ~(counter < last)
      [] op = "JUMP_UNLESS_LESS_EQ" -> ~(counter <= last)
      [] op = "JUMP_IF_GREATER_EQ" -> counter >= last
      [] op = "JUMP_IF_GREATER" -> counter > last
Compare ==
    /\ This.op \in {"JUMP_UNLESS_LESS", "JUMP_UNLESS_LESS_EQ", "JUMP_IF_GREATER_EQ",
                    "JUMP_IF_GREATER"}
    /\ Runs(This.op)
    /\ GoTo(IF Leaves(This.op, slot[This.level].element, limit[This.level])
            THEN This.to ELSE pc + 1)
    /\ UNCHANGED <<slot, retained>> /\ Quiet

(* GLOBAL_STORE_CONST or LOCAL_STORE_CONST of null to the iterator, and    *)
(* the store of the collection that is no variable.                        *)
StoreNull ==
    /\ Runs("null") /\ GoTo(pc + 1) /\ slot' = [slot EXCEPT ![This.level].iterator = Null]
    /\ UNCHANGED retained /\ Quiet
StoreCollection ==
    /\ Runs("hold") /\ GoTo(pc + 1)
    /\ slot' = [slot EXCEPT ![This.level].collection = variable[This.level]]
    /\ UNCHANGED retained /\ Quiet

(* What a step finds: the collection it loads, its iterator, its element.  *)
Read(n) == items[n][IF Over(n).temporary THEN slot[n].collection ELSE variable[n]]
First(n) == slot[n].iterator = Null
Index(n) == slot[n].iterator + 1
Full(n) == slot[n].element # Null

(* The first step takes a count on the first element whether or not the    *)
(* slot was empty; a later one gives up the count of the element before.   *)
Begin(n) ==
    /\ First(n)
    /\ IF Read(n) = <<>>
       THEN GoTo(This.to) /\ UNCHANGED <<slot, retained, stale>>
       ELSE /\ GoTo(pc + 1)
            /\ slot' = [slot EXCEPT ![n].iterator = 0, ![n].element = Read(n)[1]]
            /\ retained' = [retained EXCEPT ![n] = @ + 1]
            /\ stale' = IF Full(n) THEN [stale EXCEPT ![n] = @ + 1] ELSE stale
ProceedKeeping(n, atEnd) ==
    /\ ~First(n) /\ UNCHANGED stale
    /\ IF atEnd
       THEN /\ GoTo(This.to)
            /\ slot' = [slot EXCEPT ![n].iterator = Null]
            /\ UNCHANGED retained
       ELSE /\ GoTo(pc + 1)
            /\ slot' = [slot EXCEPT ![n].iterator = Index(n),
                                    ![n].element = Read(n)[Index(n) + 1]]
            /\ retained' = [retained EXCEPT ![n] = @ + 1]
Proceed(n, atEnd) ==
    /\ ~First(n) /\ UNCHANGED stale
    /\ IF atEnd
       THEN /\ GoTo(This.to)
            /\ slot' = [slot EXCEPT ![n].iterator = Null, ![n].element = Null]
            /\ retained' = [retained EXCEPT ![n] = @ - 1]
       ELSE /\ GoTo(pc + 1)
            /\ slot' = [slot EXCEPT ![n].iterator = Index(n),
                                    ![n].element = Read(n)[Index(n) + 1]]
            /\ UNCHANGED retained

(* A step of a loop over a list or a set compares for equality with the    *)
(* end, so one whose element has been removed from the end runs past it.   *)
Beyond(n) == ~First(n) /\ Index(n) > Len(Read(n))
Steps(kind) == /\ Runs("FOR") /\ Over(This.level).kind = kind
               /\ UNCHANGED <<program, code, items, variable, limit, frames>>
StepByEquality(n) ==
    \/ ~Beyond(n) /\ UNCHANGED doubt
       /\ (Begin(n) \/ Proceed(n, Index(n) = Len(Read(n))))
    \/ Beyond(n) /\ doubt' = "beyond" /\ UNCHANGED <<pc, slot, retained, stale>>

ForList == Steps("list") /\ StepByEquality(This.level)
ForSet == Steps("set") /\ StepByEquality(This.level)
ForMapKey == Steps("keys") /\ StepByEquality(This.level)
ForMapKeyValue == Steps("entries") /\ StepByEquality(This.level)
ForString ==
    /\ Steps("string") /\ UNCHANGED doubt
    /\ \/ Begin(This.level)
       \/ Proceed(This.level, Index(This.level) >= Len(Read(This.level)))

-----------------------------------------------------------------------------
(* What can be seen is done by both at once: the condition of a while or   *)
(* of an if has one answer, and a statement of the body changes a          *)
(* collection, the variable that holds it or the end of the range.         *)

Meet(op) == Runs(op) /\ SourceAtEvent
Here == This.level
NextLine == [frames EXCEPT ![Depth].line = @ + 1]
Unchanged == UNCHANGED <<program, code, slot, retained, stale>>

Work ==
    /\ Meet("work") /\ GoTo(pc + 1) /\ frames' = NextLine
    /\ Unchanged /\ UNCHANGED <<items, variable, limit, doubt>>

(* The condition of a while (line 0).                                      *)
AskWhile ==
    /\ Meet("ask") /\ This.line = 0
    /\ \/ GoTo(pc + 1) /\ frames' = [frames EXCEPT ![Depth] = Again(@)]
       \/ GoTo(This.to) /\ frames' = Leave(frames)
    /\ Unchanged /\ UNCHANGED <<items, variable, limit, doubt>>

(* The condition before a break, a continue or a return.  A continue in a  *)
(* C-style for goes to the condition and not to the step.                  *)
Leaf == Loop(Here).body[This.line].do
AskLeaf ==
    /\ Meet("ask") /\ This.line # 0
    /\ \/ /\ GoTo(This.to) /\ frames' = NextLine /\ UNCHANGED doubt
       \/ /\ GoTo(pc + 1)
          /\ frames' = CASE Leaf = "break" -> Leave(frames)
                          [] Leaf = "continue" ->
                                [frames EXCEPT ![Depth].line = Len(Lines) + 1]
                          [] Leaf = "return" -> <<>>
          /\ doubt' = IF Leaf = "continue" /\ Over(Here).kind = "cstyle"
                      THEN "step skipped" ELSE None
    /\ Unchanged /\ UNCHANGED <<items, variable, limit>>

(* pop, add and an assignment to the variable the loop names.  A set or a  *)
(* map that grows may move its elements, and the iterator does not follow; *)
(* what is added where a removed element was is not visited.               *)
Current(n) == items[n][variable[n]]
Change(n, content) == items' = [items EXCEPT ![n][variable[n]] = content]
Drop ==
    /\ Meet("drop") /\ GoTo(pc + 1) /\ frames' = NextLine
    /\ Change(Here, IF Current(Here) = <<>> THEN <<>> ELSE Front(Current(Here)))
    /\ Unchanged /\ UNCHANGED <<variable, limit, doubt>>
Grow ==
    /\ Meet("grow") /\ GoTo(pc + 1) /\ frames' = NextLine
    /\ LET added == 1 + Max(ToSet(Current(Here)) \cup Frame.visited)
       IN  IF added > MaxSize THEN UNCHANGED <<items, doubt>>
           ELSE /\ Change(Here, Append(Current(Here), added))
                /\ \/ doubt' = IF slot[Here].iterator < Len(Current(Here)) THEN None ELSE "missed"
                   \/ Over(Here).kind \in Dense /\ doubt' = "moved"
    /\ Unchanged /\ UNCHANGED <<variable, limit>>
Reassign ==
    /\ Meet("assign") /\ GoTo(pc + 1) /\ frames' = NextLine
    /\ variable' = [variable EXCEPT ![Here] = 2]
    /\ doubt' = IF Over(Here).temporary \/ variable[Here] = 2 THEN None ELSE "reassigned"
    /\ Unchanged /\ UNCHANGED <<items, limit>>
(* The end of a range is read again before every step.                     *)
ChangeLimit ==
    /\ Meet("limit") /\ GoTo(pc + 1) /\ frames' = NextLine
    /\ limit' = [limit EXCEPT ![Here] = IF @ > 0 THEN @ - 1 ELSE @]
    /\ doubt' = IF limit[Here] = 0 THEN None ELSE "limit changed"
    /\ Unchanged /\ UNCHANGED <<items, variable>>

Init ==
    /\ program \in Programs
    /\ code = CodeOf(program) /\ pc = 1
    /\ slot = [n \in Levels |-> Empty]
    /\ retained = [n \in Levels |-> 0] /\ stale = [n \in Levels |-> 0]
    /\ \E k \in Sizes :
        /\ items = [n \in Levels |-> <<[e \in 1 .. k |-> e], <<MaxSize + 1>>>>]
        /\ limit = [n \in Levels |-> k]
    /\ variable = [n \in Levels |-> 1]
    /\ frames = <<Entered(1)>>
    /\ doubt = None

Next ==
    \/ Source
    \/ Jump \/ StoreFrom \/ CStyleStep \/ PlusPlus \/ Compare \/ StoreNull \/ StoreCollection
    \/ ForList \/ ForString \/ ForSet \/ ForMapKey \/ ForMapKeyValue
    \/ Work \/ AskWhile \/ AskLeaf \/ Drop \/ Grow \/ Reassign \/ ChangeLimit

Bounded == \A n \in Levels : stale[n] <= MaxStale
Spec == Init /\ [][Bounded /\ Next]_vars

-----------------------------------------------------------------------------
(* Whenever the code of a program and the program itself have come to      *)
(* something that can be seen, it is the same thing: the loop variables    *)
(* have the same values, in the same order, and break and continue have    *)
(* left the same loops (ForNode::putBytecodes, SkipNode::rewrite).         *)
LoopsFollowTheSource ==
    doubt = None /\ AtEvent /\ SourceAtEvent => SeenByMachine = SeenInSource

(* The slot of a loop holds one count on its element and none when it is   *)
(* empty, but for the elements a broken loop left behind and the next      *)
(* entry overwrote; and what it holds is in the collection's range.        *)
SlotsAreCounted ==
    \A n \in Levels : (n = 1 \/ Inner(program) # <<>>) /\ Over(n).kind \in Collections =>
        retained[n] = stale[n] + (IF Full(n) THEN 1 ELSE 0)
=============================================================================
