------------------------------ MODULE Variables ------------------------------
(***************************************************************************)
(* Variables hold objects, and the objects of numbers and characters are   *)
(* mutable: ++ and op= write into them.  A variable behaves like a value   *)
(* only because the compiler copies an object where two variables would    *)
(* share it (CLONE, the _CLONE stores, getConstObject), and because a      *)
(* compound assignment whose operand has to be computed first takes a      *)
(* fresh object when its own is shared (GET_POINTER), and leaves its       *)
(* address in the virtual machine until the operator uses it.              *)
(*                                                                         *)
(* One step is a statement of a program; a statement with a call in it is  *)
(* pending while the callee runs statements of its own, returns or raises. *)
(* The callee reaches globals, members and captured variables.             *)
(*                                                                         *)
(* Beside the objects, the module keeps what each variable would hold if   *)
(* variables were values (want), the variables that a construct known to   *)
(* share, lose or misplace a write has reached (doubt), and the objects    *)
(* such a construct has handed to a second variable (handed).              *)
(***************************************************************************)
EXTENDS Integers, Sequences, FiniteSets, SequencesExt, FiniteSetsExt

CONSTANTS
    Globals, Locals, Members,  \* the variables of the program, by where they are
    Captured,                  \* locals that a closure captures
    Chars,                     \* those that hold a Char; the others hold an Int
    Modulus,                   \* bound: data are counted modulo this
    NumObjects,                \* bound: objects created and not yet reclaimed
    MaxPending,                \* bound: statements waiting for a call
    MaxStatements              \* bound: statements of a program

Places == Globals \cup Locals \cup Members \cup Captured

ASSUME VariablesAssumption ==
    /\ IsFiniteSet(Places) /\ Chars \subseteq Places
    /\ Modulus \in Nat \ {0, 1} /\ MaxPending \in Nat /\ MaxStatements \in Nat
    /\ NumObjects \in Nat /\ NumObjects >= Cardinality(Places)
    /\ Cardinality(Places) = Cardinality(Globals) + Cardinality(Locals)
                                + Cardinality(Members) + Cardinality(Captured)

VARIABLES
    place,     \* the object each variable holds
    datum,     \* the number or character in each object
    pointer,   \* pointerVariable: the object an op= left the address of
    pending,   \* statements waiting for a call, innermost last
    want,      \* what each variable would hold if variables were values
    doubt,     \* the variables a known construct has reached
    handed,    \* objects a known construct has handed to a second variable
    stranded,  \* [object, depth]: operands a caught exception left on the stack
    statements \* statements executed

vars == <<place, datum, pointer, pending, want, doubt, handed, stranded, statements>>

Objects    == 1 .. NumObjects
IntConst   == NumObjects + 1   \* the literal in the constant pool
CharConst  == NumObjects + 2
AllObjects == 1 .. NumObjects + 2
Cell       == 0                \* the box of a captured variable, itself
None       == -1
Literal    == 1                \* the number every literal stands for

Plus(n, k) == (n + k) % Modulus
Kind(p) == IF p \in Chars THEN "Char" ELSE "Int"
References(b) == Cardinality({p \in Places : place[p] = b})
                    + Cardinality({i \in DOMAIN pending : pending[i].operand = b})
                    + Cardinality({s \in stranded : s.object = b})
Free == {b \in Objects : References(b) = 0}
(* The object createInt or createChar hands out: any that is free, that an *)
(* old address points to or not.                                           *)
Fresh == (Free \cap {pointer}) \cup
            (IF Free \subseteq {pointer} THEN {} ELSE {Min(Free \ {pointer})})

(* A callee does not see the locals of its callers; the box that was       *)
(* stored by mistake cannot be read as a number.                           *)
Visible == IF pending = <<>> THEN Places ELSE Places \ Locals
Readable == {q \in Visible : place[q] # Cell}

-----------------------------------------------------------------------------
(* What statements have in common.                                         *)

Step ==
    /\ statements < MaxStatements /\ statements' = statements + 1
    /\ UNCHANGED stranded

(* An object nobody holds keeps its number while an old address leads to   *)
(* it, and is forgotten otherwise.                                         *)
InUse == {place'[p] : p \in Places} \cup {pending'[i].operand : i \in DOMAIN pending'}
            \cup {s.object : s \in stranded'} \cup {pointer', IntConst, CharConst}
Keep(d, h) ==
    /\ datum' = [b \in AllObjects |-> IF b \in InUse THEN d[b] ELSE 0]
    /\ handed' = h \cap InUse
Data(d, over) == Keep(d, handed \cup over)

(* A statement whose variable is assigned while it waits loses the update, *)
(* and one whose operand is written into sees the new number.              *)
Touched(waiting, reassigned, written) ==
    [i \in DOMAIN waiting |->
        [waiting[i] EXCEPT !.touched = @ \/ waiting[i].operand \in written
            \/ (waiting[i].form = "compound" /\ waiting[i].target \in reassigned)]]

(* p gets the object b; n is what the statement means, sure whether nothing *)
(* in doubt went into it.                                                  *)
Assign(p, b, n, sure) ==
    /\ place' = [place EXCEPT ![p] = b]
    /\ want' = [want EXCEPT ![p] = n]
    /\ doubt' = IF sure THEN doubt \ {p} ELSE doubt \cup {p}
    /\ UNCHANGED pointer

(* p gets an object of its own with the number k.                          *)
AssignNew(p, k, n, sure) ==
    \E b \in Fresh :
        /\ Assign(p, b, n, sure)
        /\ Data([datum EXCEPT ![b] = k], {})
(* p gets an object that others hold, in a way that is known or not.       *)
AssignShared(p, b, n, sure, known) ==
    Assign(p, b, n, sure) /\ Data(datum, {o \in {b} : known})

(* Whoever else holds the object sees a write into it that p makes, which  *)
(* is known of the objects handed over.                                    *)
Sharers(p, b) == IF b \in handed THEN {q \in Places \ {p} : place[q] = b} ELSE {}
(* A write through the address of another object reaches its holders, and  *)
(* does not reach those of b as it should.                                 *)
Misled(b, through) ==
    IF through = b THEN {} ELSE {q \in Places : place[q] \in {b, through}}

-----------------------------------------------------------------------------
(* Statements.                                                             *)

(* p = literal: the stores into a local or a global copy the constant,     *)
(* getConstObject copies an Int and hands out a Char.                      *)
ConstantOf(p) == IF Kind(p) = "Char" THEN CharConst ELSE IntConst
CopiesConstant(p) == p \in Globals \cup Locals \/ Kind(p) = "Int"
AssignConst(p) ==
    LET c == ConstantOf(p)
        sure == c = IntConst \/ datum[c] = Literal
    IN  /\ Step /\ p \in Visible
        /\ pending' = Touched(pending, {p}, {})
        /\ IF CopiesConstant(p) THEN AssignNew(p, datum[c], Literal, sure)
           ELSE AssignShared(p, c, Literal, sure, c = CharConst)

(* p = q copies a number and shares a character; the variable a closure    *)
(* captures is loaded without a copy.  Between two plain variables the     *)
(* store opcodes do not look into the box: they hand over the box itself.  *)
\* Mutant: CLONE is left out for a member.
CopiesVariables(q) == Kind(q) = "Int" /\ q \notin Captured \cup Members
Copies(q) == Kind(q) = "Int" /\ q \notin Captured
AssignVar(p, q) ==
    /\ Step /\ p \in Visible /\ q \in Readable /\ p # q /\ Kind(p) = Kind(q)
    /\ pending' = Touched(pending, {p}, {})
    /\ CASE q \in Captured /\ p \in Globals \cup Locals ->
                Assign(p, Cell, want[q], FALSE) /\ Data(datum, {})
         [] Copies(q) -> AssignNew(p, datum[place[q]], want[q], q \notin doubt)
         [] OTHER     -> AssignShared(p, place[q], want[q], q \notin doubt,
                                      Kind(q) = "Char" \/ q \in Captured)

(* p = o.inner.q: a member that is not read off a variable is not copied.  *)
AssignNested(p, q) ==
    /\ Step /\ p \in Visible /\ q \in Readable \cap Members /\ p # q /\ Kind(p) = Kind(q)
    /\ pending' = Touched(pending, {p}, {})
    /\ AssignShared(p, place[q], want[q], q \notin doubt, TRUE)

(* p = q + 1, and p += 1 of a captured variable: a new object.             *)
AssignSum(p, q) ==
    /\ Step /\ p \in Visible /\ q \in Readable /\ Kind(p) = Kind(q)
    /\ pending' = Touched(pending, {p}, {})
    /\ AssignNew(p, Plus(datum[place[q]], 1), Plus(want[q], 1), q \notin doubt)

(* ++p and p++ write into the object that is loaded.                       *)
Increment(p) ==
    /\ Step /\ p \in Readable
    /\ want' = [want EXCEPT ![p] = Plus(@, 1)]
    /\ doubt' = doubt \cup Sharers(p, place[p])
    /\ pending' = Touched(pending, {}, {place[p]})
    /\ UNCHANGED <<place, pointer>>
    /\ Data([datum EXCEPT ![place[p]] = Plus(@, 1)], {})

(* q = ++p leaves the object itself to be stored.                          *)
AssignIncremented(q, p) ==
    LET b == place[p]
        n == Plus(want[p], 1)
    IN  /\ Step /\ p \in Readable /\ q \in Visible /\ p # q /\ Kind(p) = Kind(q)
        /\ place' = [place EXCEPT ![q] = b]
        /\ want' = [want EXCEPT ![p] = n, ![q] = n]
        /\ doubt' = ((doubt \cup Sharers(p, b)) \ {q}) \cup {r \in {q} : p \in doubt}
        /\ pending' = Touched(pending, {q}, {b})
        /\ UNCHANGED pointer
        /\ Data([datum EXCEPT ![b] = Plus(@, 1)], {b})

(* p += 1 of any other variable: the native writes through the address     *)
(* that is there, and copies what it finds into p's object; without one it *)
(* writes into p's object.                                                 *)
Through(b) == IF pointer = None THEN b ELSE pointer
FastCompound(p) ==
    LET b == place[p]
        through == Through(b)
        sum == Plus(datum[through], 1)
    IN  /\ Step /\ p \in Readable \ Captured
        /\ pointer' = None
        /\ want' = [want EXCEPT ![p] = Plus(@, 1)]
        /\ doubt' = doubt \cup Sharers(p, b) \cup Misled(b, through)
        /\ pending' = Touched(pending, {}, {b, through})
        /\ UNCHANGED place
        /\ Data([datum EXCEPT ![b] = sum, ![through] = sum], {})

-----------------------------------------------------------------------------
(* Statements with a call.                                                 *)
Waiting(form, p, b, n, sure) ==
    [form |-> form, target |-> p, operand |-> b, base |-> n, sure |-> sure, touched |-> FALSE]
MayCall == Len(pending) < MaxPending

(* p = f()                                                                 *)
CallAssign(p) ==
    /\ Step /\ MayCall /\ p \in Visible
    /\ pending' = Append(pending, Waiting("assign", p, None, 0, TRUE))
    /\ UNCHANGED <<place, datum, pointer, want, doubt, handed>>

(* p = q + f(): the object of q is an operand while f runs.  A captured    *)
(* variable's op= is this.                                                 *)
CallBinary(p, q) ==
    /\ Step /\ MayCall /\ p \in Visible /\ q \in Readable /\ Kind(p) = Kind(q)
    /\ pending' = Append(pending, Waiting("binary", p, place[q], want[q], q \notin doubt))
    /\ UNCHANGED <<place, datum, pointer, want, doubt, handed>>

(* p += f(): GET_POINTER takes a fresh object if p's is shared or of the   *)
(* constant pool, so that p has one of its own.                            *)
\* Mutant: GET_POINTER does not look at the count of references.
IsConstantOnly(b) == b \notin Objects
IsShared(b) == b \notin Objects \/ References(b) > 1
CallCompound(p) ==
    /\ Step /\ MayCall /\ p \in Readable \ Captured
    /\ \E b \in IF IsShared(place[p]) THEN Fresh ELSE {place[p]} :
          /\ place' = [place EXCEPT ![p] = b]
          /\ pending' = Append(Touched(pending, {p}, {}),
                               Waiting("compound", p, b, want[p], p \notin doubt))
          /\ pointer' = b
          /\ UNCHANGED <<want, doubt>>
          /\ Keep([datum EXCEPT ![b] = datum[place[p]]], handed \ {b})

(* What comes back: [object, number in it, what it means, sure].  An       *)
(* expression or a local of the callee is an object of its own, RETURN_    *)
(* CONST copies an Int only, a global or a member is handed over.          *)
Result(b, n, w, sure) == [object |-> b, number |-> n, meant |-> w, sure |-> sure]
Results(kind) ==
    {Result(None, Plus(Literal, 1), Plus(Literal, 1), TRUE)}
    \cup (IF kind = "Int" THEN {Result(None, datum[IntConst], Literal, TRUE)}
          ELSE {Result(CharConst, datum[CharConst], Literal, datum[CharConst] = Literal)})
    \cup {Result(place[q], datum[place[q]], want[q], q \notin doubt) :
              q \in {q \in (Globals \cup Members) \cap Readable : Kind(q) = kind}}

Caller == Last(pending)
Waiters == Front(pending)

ReturnToAssign(r) ==
    LET p == Caller.target
    IN  /\ Caller.form = "assign"
        /\ pending' = Touched(Waiters, {p}, {})
        /\ IF r.object = None THEN AssignNew(p, r.number, r.meant, r.sure)
           ELSE AssignShared(p, r.object, r.meant, r.sure, TRUE)

ReturnToBinary(r) ==
    LET p == Caller.target
    IN  /\ Caller.form = "binary"
        /\ pending' = Touched(Waiters, {p}, {})
        /\ AssignNew(p, Plus(datum[Caller.operand], r.number), Plus(Caller.base, r.meant),
                     Caller.sure /\ r.sure /\ ~Caller.touched)

(* The operator writes through the address, if it is still there, and      *)
(* copies into its operand; else it writes into its operand.               *)
ReturnToCompound(r) ==
    LET p == Caller.target
        b == Caller.operand
        through == Through(b)
        sum == Plus(datum[through], r.number)
    IN  /\ Caller.form = "compound"
        /\ pending' = Touched(Waiters, {}, {b, through})
        /\ pointer' = None
        /\ want' = [want EXCEPT ![p] = Plus(Caller.base, r.meant)]
        /\ doubt' = (IF Caller.sure /\ r.sure /\ ~Caller.touched THEN doubt \ {p}
                     ELSE doubt \cup {p}) \cup Sharers(p, b) \cup Misled(b, through)
        /\ UNCHANGED place
        /\ Data([datum EXCEPT ![b] = sum, ![through] = sum], {})

Return ==
    /\ pending # <<>>
    /\ stranded' = {s \in stranded : s.depth < Len(pending)}
    /\ \E r \in Results(IF Caller.form = "assign" THEN Kind(Caller.target) ELSE "Int") :
          ReturnToAssign(r) \/ ReturnToBinary(r) \/ ReturnToCompound(r)
    /\ UNCHANGED statements

(* The callee raises.  The operands of the frames that end are released;   *)
(* that of the frame whose handler catches stays on the stack until it     *)
(* returns.  The address stays.                                            *)
Raise ==
    /\ \E n \in 0 .. Len(pending) - 1, here \in BOOLEAN :
          LET b == pending[n + 1].operand
          IN  /\ here => b # None
              /\ pending' = SubSeq(pending, 1, n)
              /\ stranded' = {s \in stranded : s.depth <= n}
                                 \cup IF here THEN {[object |-> b, depth |-> n]} ELSE {}
    /\ UNCHANGED <<place, pointer, want, doubt, statements>>
    /\ Data(datum, {})

Init ==
    /\ place = [p \in Places |-> CHOOSE i \in 1 .. Cardinality(Places) :
                                    SetToSeq(Places)[i] = p]
    /\ datum = [b \in AllObjects |->
                    IF b <= Cardinality(Places) \/ b \notin Objects THEN Literal ELSE 0]
    /\ pointer = None /\ pending = <<>>
    /\ want = [p \in Places |-> Literal]
    /\ doubt = {} /\ handed = {} /\ stranded = {}
    /\ statements = 0

Next ==
    \/ \E p \in Places : AssignConst(p) \/ FastCompound(p) \/ Increment(p)
                            \/ CallAssign(p) \/ CallCompound(p)
    \/ \E p, q \in Places : AssignVar(p, q) \/ AssignNested(p, q) \/ AssignSum(p, q)
                               \/ AssignIncremented(p, q) \/ CallBinary(p, q)
    \/ Return
    \/ Raise

Spec == Init /\ [][Next]_vars

-----------------------------------------------------------------------------
(* The state keeps its types, and every variable has an object.            *)
TypeOK ==
    /\ place \in [Places -> AllObjects \cup {Cell}]
    /\ datum \in [AllObjects -> 0 .. Modulus - 1]
    /\ pointer \in AllObjects \cup {None}
    /\ want \in [Places -> 0 .. Modulus - 1]
    /\ doubt \subseteq Places /\ handed \subseteq AllObjects
    /\ Len(pending) <= MaxPending
    /\ \A s \in stranded : s.object \in AllObjects /\ s.depth < MaxPending

(* A variable reads as what was last assigned to it, whatever is done to   *)
(* the others, by the program or by what it calls, and whatever is raised  *)
(* on the way; except one that a construct known to share an object, to    *)
(* lose an update or to write through an old address has reached.          *)
ReadsLastWrite ==
    \A p \in Places \ doubt : place[p] # Cell /\ datum[place[p]] = want[p]

(* Two variables hold one object, and a variable holds one of the constant *)
(* pool, only after a construct known to hand objects over.                *)
NumbersAreNotShared ==
    \A p \in Places : place[p] \in Objects \cup {IntConst, CharConst} =>
        (\/ place[p] \in handed
         \/ place[p] \in Objects /\ \A q \in Places : place[q] = place[p] => p = q)
=============================================================================
