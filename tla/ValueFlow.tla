------------------------------ MODULE ValueFlow -----------------------------
(***************************************************************************)
(* Where references to objects go when the VM runs a function: the data    *)
(* opcodes of AVM::resume (src/backend/vm/AVM_run_switch.cpp) over one     *)
(* frame's locals (stackAllocator), the operand stack, the members of      *)
(* objects and the frame's exception.  Each opcode retains, moves and      *)
(* releases references by hand; an opcode that releases runs the release   *)
(* cascade of ObjectManager to its end, and what it does afterwards is     *)
(* pending below the cascade in todo.                                      *)
(*                                                                         *)
(* Uses says which constructs the programs of a run contain: "catch" (the  *)
(* function has a try with a catch clause around its code),                *)
(* "fieldOfVariable" (an assignment v.field = e where v is a variable) and *)
(* "limits" (the host limits the opcodes or the time of a run).            *)
(***************************************************************************)
EXTENDS ObjectManager

CONSTANTS
    NumLocals,      \* locals of the frame (maxDeclaration)
    MaxStack,       \* bound: operands on the stack
    MaxMemory,      \* maxManagedMemory
    MaxCount,       \* bound: references to a miscounted object
    Uses            \* constructs the programs use

ASSUME FlowAssumption ==
    /\ NumLocals \in Nat /\ NumLocals > 0
    /\ MaxStack \in Nat
    /\ MaxMemory \in Nat /\ MaxCount \in Nat
    /\ Uses \subseteq {"catch", "fieldOfVariable", "limits"}

VARIABLES
    local,          \* the frame's locals, Null before initialization
    stack,          \* operands, top last
    exception,      \* currentCallFrame->exception
    phase,          \* "run", "fatal" (isFatalException) or "ended"
    forgotten       \* references that were counted and that nothing will release

frameVars == <<local, stack, exception, phase>>
allFlowVars == <<allocVars, objectVars, frameVars, forgotten>>

Locals == 1 .. NumLocals
Values == Objects \cup {Null}

Top == Last(stack)
Below == Front(stack)

(***************************************************************************)
(* Every opcode starts at the top of the interpreter loop, where the       *)
(* memory counter is compared with the limit if it has moved.  A catch     *)
(* clause starts there with the exception still in the frame.              *)
(***************************************************************************)
Looping ==
    /\ phase = "run"
    /\ todo = <<>>
    /\ exception = Null \/ "catch" \in Uses
Checked == Looping /\ ~changedMemory
AtOpcode == Checked /\ exception = Null

Push(v) ==
    /\ Len(stack) < MaxStack
    /\ stack' = Append(stack, v)

\* Bound: the arena of the model can still supply an object.
HasRoom == freeSlot # Null \/ countObject < MaxChunks * ChunkSize

\* Bound: references an object may have whose count only ever grows.
BelowMaxCount(o) == Counted(o) => refCount[o] < MaxCount

Unmanaged == UNCHANGED <<allocVars, kind, member, pool>>
NewReference(o) == refCount' = Retained(o, refCount)
Forgetting(o) == IF Counted(o) THEN [forgotten EXCEPT ![o] = @ + 1] ELSE forgotten

CheckMemory ==
    /\ Looping
    /\ currentManagedMemory <= MaxMemory
    /\ MemoryChecked
    /\ UNCHANGED <<objectVars, frameVars>>

\* createException: an object with its message as the one member.
CreateException(o) ==
    /\ New("obj", o, Const)
    /\ NewReference(o)
    /\ exception' = o
    /\ UNCHANGED <<todo, local, stack>>

\* throwFatalException: an exception that is still in the frame is overwritten.
ThrowFatal(o) ==
    /\ CreateException(o)
    /\ forgotten' = Forgetting(exception)
    /\ phase' = "fatal"

MemoryLimitExceeded(o) ==
    /\ Looping
    /\ changedMemory /\ currentManagedMemory > MaxMemory
    /\ ThrowFatal(o)

\* The limit of opcodes or of time, tested before that of memory.
OtherLimitExceeded(o) ==
    /\ "limits" \in Uses
    /\ Looping
    /\ ThrowFatal(o)

(***************************************************************************)
(* Opcodes that create.                                                    *)
(***************************************************************************)
LoadConst ==
    /\ AtOpcode
    /\ Push(Const)
    /\ Unmanaged
    /\ UNCHANGED <<refCount, todo, local, exception, phase>>

\* LOAD_CONST of a number and the operators that yield one.
LoadNumber(o) ==
    /\ AtOpcode
    /\ New("int", o, Null)
    /\ NewReference(o)
    /\ Push(o)
    /\ UNCHANGED <<todo, local, exception, phase>>

CreateObject(o) ==
    /\ AtOpcode
    /\ New("obj", o, Null)
    /\ NewReference(o)
    /\ Push(o)
    /\ UNCHANGED <<todo, local, exception, phase>>

\* CLONE: a number on the stack is replaced by a copy.
Clone(o) ==
    /\ AtOpcode
    /\ stack # <<>> /\ Counted(Top) /\ kind[Top] = "int"
    /\ New("int", o, Null)
    /\ NewReference(o)
    /\ stack' = Append(Below, o)
    /\ todo' = <<Call("release", Top, 0)>>
    /\ UNCHANGED <<local, exception, phase>>

\* operate<native, 2>: the operands are released after the result is pushed.
Operate(o) ==
    /\ AtOpcode
    /\ Len(stack) >= 2
    /\ New("int", o, Null)
    /\ NewReference(o)
    /\ stack' = Append(Front(Below), o)
    /\ todo' = <<Call("release", Last(Below), 0), Call("release", Top, 0)>>
    /\ UNCHANGED <<local, exception, phase>>

(***************************************************************************)
(* Opcodes on locals.  The old value of a local is released before the new *)
(* one is written: until the cascade returns the local still holds it.     *)
(***************************************************************************)
LoadLocal(i) ==
    /\ AtOpcode
    /\ local[i] # Null
    /\ Push(local[i])
    /\ NewReference(local[i])
    /\ Unmanaged
    /\ UNCHANGED <<todo, local, exception, phase>>

Overwrite(i, v) == <<Call("setLocal", v, i), Call("release", local[i], i)>>

StoreLocal(i) ==
    /\ AtOpcode
    /\ stack # <<>>
    /\ stack' = Below
    /\ todo' = Overwrite(i, Top)
    /\ Unmanaged
    /\ UNCHANGED <<refCount, local, exception, phase>>

LocalStoreLocal(i, j) ==
    /\ AtOpcode
    /\ local[j] # Null
    /\ NewReference(local[j])
    /\ todo' = Overwrite(i, local[j])
    /\ Unmanaged
    /\ UNCHANGED frameVars

\* Emitted for variables of a cloneable class: a number or null.
LocalStoreLocalClone(i, j) ==
    /\ AtOpcode /\ HasRoom
    /\ local[j] # Null /\ (Counted(local[j]) => kind[local[j]] = "int")
    /\ todo' = <<Call("cloneInto", local[j], i), Call("release", local[i], i)>>
    /\ Unmanaged
    /\ UNCHANGED <<refCount, frameVars>>

(***************************************************************************)
(* Opcodes on members.                                                     *)
(***************************************************************************)
IsParent(v) == Counted(v) /\ kind[v] = "obj"

LocalLoadMember(i) ==
    /\ AtOpcode
    /\ IsParent(local[i]) /\ member[local[i]] # Null
    /\ Push(member[local[i]])
    /\ NewReference(member[local[i]])
    /\ Unmanaged
    /\ UNCHANGED <<todo, local, exception, phase>>

\* The member takes the parent's place, then the parent is released.
LoadMemberUnretained == refCount
LoadMemberRetained == Retained(member[Top], refCount)

LoadMember ==
    /\ AtOpcode
    /\ stack # <<>> /\ IsParent(Top) /\ member[Top] # Null
    /\ stack' = Append(Below, member[Top])
    /\ refCount' = LoadMemberRetained
    /\ todo' = <<Call("release", Top, 0)>>
    /\ Unmanaged
    /\ UNCHANGED <<local, exception, phase>>

\* STORE_MEMBER: parent on top, value below; the old member is released,
\* then the value is popped into its place, then the parent is released.
StoreMember ==
    /\ AtOpcode
    /\ Len(stack) >= 2 /\ IsParent(Top)
    /\ stack' = Below
    /\ todo' = <<Call("setMember", Top, 0), Call("release", member[Top], 0)>>
    /\ Unmanaged
    /\ UNCHANGED <<refCount, local, exception, phase>>

\* LOCAL_LOAD_MEMBER_AND_STORE writes the member and releases nothing.  A
\* constructor initializes members with it, an assignment overwrites them.
LocalLoadMemberAndStore(i) ==
    /\ AtOpcode
    /\ stack # <<>> /\ IsParent(local[i])
    /\ \/ member[local[i]] = Null
       \/ "fieldOfVariable" \in Uses /\ BelowMaxCount(member[local[i]])
    /\ forgotten' = Forgetting(member[local[i]])
    /\ member' = [member EXCEPT ![local[i]] = Top]
    /\ stack' = Below
    /\ UNCHANGED <<allocVars, kind, pool, refCount, todo, local, exception, phase>>

(***************************************************************************)
(* Opcodes on operands.                                                    *)
(***************************************************************************)
Dup ==
    /\ AtOpcode
    /\ stack # <<>>
    /\ Push(Top)
    /\ NewReference(Top)
    /\ Unmanaged
    /\ UNCHANGED <<todo, local, exception, phase>>

AfterPopNothing == <<>>
AfterPop == <<Call("tryRelease", Top, 0)>>

PopUncounted ==
    IF Counted(Top) THEN [refCount EXCEPT ![Top] = @ - 1] ELSE refCount

Pop ==
    /\ AtOpcode
    /\ stack # <<>>
    /\ stack' = Below
    /\ refCount' = PopUncounted
    /\ todo' = AfterPop
    /\ Unmanaged
    /\ UNCHANGED <<local, exception, phase>>

(***************************************************************************)
(* Exceptions and the end of the frame.  LOAD_EXCEPTION starts every catch *)
(* clause: it pushes the exception, retained once more, and forgets it.    *)
(***************************************************************************)
ThrowException(o) ==
    /\ AtOpcode /\ Len(stack) < MaxStack
    /\ CreateException(o)
    /\ UNCHANGED phase

ThrowOperand ==
    /\ AtOpcode
    /\ stack # <<>> /\ IsParent(Top)
    /\ BelowMaxCount(Top)
    /\ exception' = Top
    /\ stack' = Below
    /\ Unmanaged
    /\ UNCHANGED <<refCount, todo, local, phase>>

LoadException ==
    /\ Checked /\ exception # Null
    /\ Push(exception)
    /\ NewReference(exception)
    /\ exception' = Null
    /\ forgotten' = Forgetting(exception)
    /\ Unmanaged
    /\ UNCHANGED <<todo, local, phase>>

\* No handler: the locals are released, then the operands.
Unwind ==
    /\ todo = <<>> /\ exception # Null
    /\ \/ phase = "fatal"
       \/ phase = "run" /\ "catch" \notin Uses
    /\ todo' = <<Call("dropOperands", Null, 0), Call("clearLocals", Null, 1)>>
    /\ phase' = "ended"
    /\ Unmanaged
    /\ UNCHANGED <<refCount, local, stack, exception>>

\* RETURN, RETURN_VALUE (whose value the caller drops) and falling off the
\* end: the operands are released, then the locals.
EndFunction ==
    /\ AtOpcode
    /\ todo' = <<Call("clearLocals", Null, 1), Call("dropOperands", Null, 0)>>
    /\ phase' = "ended"
    /\ Unmanaged
    /\ UNCHANGED <<refCount, local, stack, exception>>

\* The run is over: the host restarts the VM.
Restart ==
    /\ phase = "ended" /\ todo = <<>>
    /\ ManagerRefresh
    /\ local' = [i \in Locals |-> Null]
    /\ stack' = <<>>
    /\ exception' = Null
    /\ phase' = "run"
    /\ forgotten' = [o \in Addresses |-> 0]

(***************************************************************************)
(* What is left of an opcode when the cascade it started has returned.     *)
(***************************************************************************)
FinishSetLocal(call) ==
    /\ call.op = "setLocal"
    /\ local' = [local EXCEPT ![call.at] = call.obj]
    /\ Return(<<>>)
    /\ Unmanaged
    /\ UNCHANGED <<refCount, stack, exception, phase>>

FinishClone(call, o) ==
    /\ call.op = "cloneInto"
    /\ IF Counted(call.obj)
       THEN /\ New("int", o, Null)
            /\ NewReference(o)
            /\ local' = [local EXCEPT ![call.at] = o]
       ELSE /\ o = 0
            /\ local' = [local EXCEPT ![call.at] = call.obj]
            /\ Unmanaged
            /\ UNCHANGED refCount
    /\ Return(<<>>)
    /\ UNCHANGED <<stack, exception, phase>>

FinishSetMember(call) ==
    /\ call.op = "setMember"
    /\ member' = [member EXCEPT ![call.obj] = Top]
    /\ stack' = Below
    /\ Return(<<Call("release", call.obj, 0)>>)
    /\ UNCHANGED <<allocVars, kind, pool, refCount, local, exception, phase>>

\* stackAllocator.clear visits each local: release, then null.
ClearNext(call) ==
    /\ call.op = "clearLocals"
    /\ IF call.at > NumLocals
       THEN Return(<<>>) /\ UNCHANGED local
       ELSE /\ Return(<<Call("clearLocals", Null, call.at + 1),
                        Call("release", local[call.at], 0)>>)
            /\ local' = [local EXCEPT ![call.at] = Null]
    /\ Unmanaged
    /\ UNCHANGED <<refCount, stack, exception, phase>>

OperandsAfterDropKept == stack
OperandsAfterDrop == Below

DropNext(call) ==
    /\ call.op = "dropOperands"
    /\ IF stack = <<>>
       THEN Return(<<>>) /\ UNCHANGED stack
       ELSE /\ stack' = OperandsAfterDrop
            /\ Return(<<call, Call("release", Top, 0)>>)
    /\ Unmanaged
    /\ UNCHANGED <<refCount, local, exception, phase>>

Finish ==
    /\ todo # <<>>
    /\ LET call == Last(todo) IN
       \/ FinishSetLocal(call)
       \/ \E o \in Addresses : FinishClone(call, o)
       \/ FinishSetMember(call)
       \/ ClearNext(call)
       \/ DropNext(call)

Init ==
    /\ ManagerInit
    /\ local = [i \in Locals |-> Null]
    /\ stack = <<>>
    /\ exception = Null
    /\ phase = "run"
    /\ forgotten = [o \in Addresses |-> 0]

Opcode ==
    \/ LoadConst \/ LoadMember \/ StoreMember \/ Dup \/ Pop
    \/ \E o \in Addresses :
          LoadNumber(o) \/ CreateObject(o) \/ Clone(o) \/ Operate(o) \/ ThrowException(o)
    \/ \E i \in Locals :
          LoadLocal(i) \/ StoreLocal(i) \/ LocalLoadMember(i)
    \/ \E i, j \in Locals : LocalStoreLocal(i, j) \/ LocalStoreLocalClone(i, j)
    \/ ThrowOperand \/ EndFunction

CascadeStep == Cascade /\ UNCHANGED <<frameVars, forgotten>>
FinishStep == Finish /\ UNCHANGED forgotten

Next ==
    \/ Opcode /\ UNCHANGED forgotten
    \/ LoadException
    \/ \E i \in Locals : LocalLoadMemberAndStore(i)
    \/ CheckMemory /\ UNCHANGED forgotten
    \/ \E o \in Addresses : MemoryLimitExceeded(o) \/ OtherLimitExceeded(o)
    \/ Unwind /\ UNCHANGED forgotten
    \/ CascadeStep
    \/ FinishStep
    \/ Restart

\* The cascade and the rest of an opcode are C++ calls: they always return.
\* Nothing makes a program execute another opcode.
Fairness == WF_allFlowVars(CascadeStep) /\ WF_allFlowVars(FinishStep)

Spec == Init /\ [][Next]_allFlowVars /\ Fairness

-----------------------------------------------------------------------------
(***************************************************************************)
(* Properties                                                              *)
(***************************************************************************)

(* The type invariant.                                                     *)
TypeOK ==
    /\ ArenaTypeOK
    /\ kind \in [Addresses -> Kinds]
    /\ refCount \in [Addresses -> Nat]
    /\ member \in [Addresses -> Values]
    /\ pool \in Seq(Addresses) /\ Len(pool) <= PoolSize
    /\ local \in [Locals -> Values]
    /\ stack \in Seq(Objects)
    /\ exception \in Values
    /\ forgotten \in [Addresses -> Nat]
    /\ phase \in {"run", "fatal", "ended"}

PendingAt(op, at) == \E n \in DOMAIN todo : todo[n].op = op /\ todo[n].at = at
PendingOn(op, o) == \E n \in DOMAIN todo : todo[n].op = op /\ todo[n].obj = o

Dying(o) == PendingOn("reclaim", o)
InUse == held \ isFree

\* A local or a member about to be overwritten no longer owns what it holds:
\* the pending release does.
LocalOwns(i) == ~PendingAt("setLocal", i) /\ ~PendingAt("cloneInto", i)
MemberOwns(p) == p \in InUse /\ ~Dying(p) /\ ~PendingOn("setMember", p)
CallOwns(call) == call.op \in {"release", "setLocal", "setMember"}

\* The references to o that somebody owns and will release.
LocalRefs(o) == {i \in Locals : local[i] = o /\ LocalOwns(i)}
StackRefs(o) == {n \in DOMAIN stack : stack[n] = o}
MemberRefs(o) == {p \in Addresses : member[p] = o /\ kind[p] = "obj" /\ MemberOwns(p)}
CallRefs(o) == {n \in DOMAIN todo : todo[n].obj = o /\ CallOwns(todo[n])}

References(o) ==
    Cardinality(LocalRefs(o)) + Cardinality(StackRefs(o))
    + Cardinality(MemberRefs(o)) + Cardinality(CallRefs(o))
    + (IF exception = o THEN 1 ELSE 0)

(* Every object's count is the number of references to it, in the middle   *)
(* of every cascade too: no opcode counts a reference twice or forgets to  *)
(* give one up (deterministic reference counting, llms.txt:53).            *)
RefCountExact == \A o \in Addresses : refCount[o] = References(o)

(* An object's count is the number of references to it and those three    *)
(* constructs are known to forget, in the middle of every cascade too:     *)
(* LOAD_EXCEPTION, a store to a field of a variable, and a limit exceeded  *)
(* while a catch clause has not yet taken the exception out of the frame.  *)
(* Nothing else counts a reference twice or forgets to give one up, and    *)
(* nothing that may still be used refers to a freed or pooled object.      *)
CountsAccounted ==
    /\ \A o \in Addresses : refCount[o] = References(o) + forgotten[o]
    /\ \A o \in Addresses \ InUse : References(o) = 0

(* An object is reclaimed once: it is on at most one pending reclaim, and  *)
(* never when it is already in the pool or back in the arena; the pool has *)
(* a place for every int it is given (ObjectManager.hpp:20).               *)
ReclaimedOnce ==
    /\ \A m, n \in DOMAIN todo :
          todo[m].op = "reclaim" /\ todo[n] = todo[m] => m = n
    /\ \A o \in Addresses : Dying(o) => o \in InUse
    /\ \A m, n \in DOMAIN pool : pool[m] = pool[n] => m = n
    /\ Len(pool) <= PoolSize

(* When an opcode is done, no object in use has lost its last reference:   *)
(* everything unreachable by counts has been reclaimed.                    *)
NothingForgotten == todo = <<>> => \A o \in InUse : refCount[o] > 0

(* Memory is charged for every slot that is not on the arena's free list   *)
(* and for the members of every object in use: what the limit is compared  *)
(* with does not drift over any history of creations and releases.  And no *)
(* opcode starts while more than the limit is charged, the first of a      *)
(* catch clause included: every charge is noticed at the next opcode       *)
(* (README.md:86, llms.txt:24).                                            *)
MemoryMatchesObjects ==
    currentManagedMemory =
        ObjectSize * Cardinality(held)
        + MemberMemory * Cardinality({o \in InUse : kind[o] = "obj"})
LimitEnforced ==
    MemoryMatchesObjects /\ (Checked => currentManagedMemory <= MaxMemory)

(* The manager gives back to the arena only slots it was handed and has    *)
(* not given back: the contract AreaAllocator is specified under.          *)
Arena == INSTANCE AreaAllocator WITH
            currentManagedMemory <- ObjectSize * Cardinality(held),
            isFree <- Slots \ held
KeepsArenaContract == Arena!ArenaSpec

(* An opcode that releases, however deep the graph it frees and whatever   *)
(* cycles it meets, comes to an end.                                       *)
CascadeEnds == (todo # <<>>) ~> (todo = <<>>)
=============================================================================
