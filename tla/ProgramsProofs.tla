----------------------------- MODULE ProgramsProofs -----------------------------
(***************************************************************************)
(* What Programs.cfg checks of variables, for six of them and three        *)
(* statements, and of calls, for those of MCCalls: here for any number of  *)
(* variables of every kind, programs of any length and calls of any depth, *)
(* and for every set of calls.                                             *)
(***************************************************************************)
EXTENDS StatementsAndCalls, BasicLemmas

(***************************************************************************)
(* The invariant.  Only a Char of the constant pool is ever in a variable, *)
(* so the Int literal keeps its number.                                    *)
(***************************************************************************)
Numbers == AllObjects \ {IntConst}
Data0   == 0 .. Modulus - 1
Waitings == [form : {"assign", "binary", "compound"}, target : Places,
             operand : Numbers \cup {None}, base : Data0, sure : BOOLEAN, touched : BOOLEAN]

ValueTypes ==
    /\ place \in [Places -> Numbers \cup {Cell}]
    /\ datum \in [AllObjects -> Data0] /\ datum[IntConst] = Literal
    /\ pointer \in Numbers \cup {None}
    /\ pending \in Seq(Waitings)
    /\ want \in [Places -> Data0]
    /\ doubt \in SUBSET Places /\ handed \in SUBSET AllObjects
StackTypes ==
    /\ Len(pending) <= MaxPending
    /\ IsFiniteSet(stranded)
    /\ \A s \in stranded : s.object \in AllObjects /\ s.depth \in 0 .. MaxPending - 1
VarTypes == ValueTypes /\ StackTypes

(* A statement that waits has an operand unless it is an assignment; one   *)
(* that nothing has touched finds in it the number it read; and the        *)
(* operand of an op= is its variable's own unless it was handed over.      *)
WaiterHolds(w, places, data, shared) ==
    /\ w.form # "assign" => w.operand \in Numbers
    /\ w.form # "assign" /\ w.sure /\ ~w.touched => data[w.operand] = w.base
    /\ w.form = "compound" /\ ~w.touched => places[w.target] = w.operand
    /\ w.form = "compound" /\ w.operand \notin shared =>
          \A q \in Places : places[q] = w.operand => q = w.target
WaitersHold(waiting, places, data, shared) ==
    \A i \in 1 .. Len(waiting) : WaiterHolds(waiting[i], places, data, shared)
WaitersInv == WaitersHold(pending, place, datum, handed)

ValuesInv == ValueTypes /\ WaitersInv /\ ReadsLastWrite /\ NumbersAreNotShared
VarInv == ValuesInv /\ StackTypes

(***************************************************************************)
(* Numbers and objects.                                                    *)
(***************************************************************************)
(* The constants of the pool are objects, and no place holds the Int one.  *)
LEMMA TheObjects ==
    /\ Modulus \in Nat /\ Modulus > 1 /\ NumObjects \in Nat /\ MaxPending \in Nat
    /\ IntConst \in AllObjects /\ CharConst \in Numbers
    /\ Objects \subseteq Numbers /\ Numbers \subseteq AllObjects
    /\ Numbers = Objects \cup {CharConst}
    /\ None \notin AllObjects /\ Cell \notin AllObjects /\ IntConst \notin Numbers
    /\ Literal \in Data0 /\ 0 \in Data0
    /\ IntConst \notin Objects /\ CharConst \notin Objects
  BY VariablesAssumption DEF AllObjects, Objects, IntConst, CharConst, Numbers, None, Cell,
     Literal, Data0

(* Sums stay in the range of the data.                                     *)
LEMMA PlusIsDatum ==
    ASSUME NEW n \in Data0, NEW k \in Data0 \cup {1}
    PROVE  Plus(n, k) \in Data0
  <1>1. n + k \in Nat /\ Modulus \in Nat /\ Modulus > 0
    BY TheObjects DEF Data0
  <1>2. (n + k) % Modulus \in 0 .. Modulus - 1
    BY <1>1
  <1> QED BY <1>2 DEF Plus, Data0

(* What References counts.                                                 *)
HoldersOf(b) == {p \in Places : place[p] = b}
UsersOf(b)   == {i \in DOMAIN pending : pending[i].operand = b}
StrandedOf(b) == {s \in stranded : s.object = b}

(* The three sets are finite, and References is their size.                *)
LEMMA CountsAreFinite ==
    ASSUME VarTypes, NEW b
    PROVE  /\ IsFiniteSet(HoldersOf(b)) /\ Cardinality(HoldersOf(b)) \in Nat
           /\ IsFiniteSet(UsersOf(b)) /\ Cardinality(UsersOf(b)) \in Nat
           /\ IsFiniteSet(StrandedOf(b)) /\ Cardinality(StrandedOf(b)) \in Nat
           /\ References(b) = Cardinality(HoldersOf(b)) + Cardinality(UsersOf(b))
                                  + Cardinality(StrandedOf(b))
  <1>1. IsFiniteSet(HoldersOf(b))
    <2>1. HoldersOf(b) \in SUBSET Places
      BY DEF HoldersOf
    <2> QED BY <2>1, VariablesAssumption, FS_Subset
  <1>2. IsFiniteSet(UsersOf(b))
    <2>1. DOMAIN pending = 1 .. Len(pending) /\ Len(pending) \in Nat
      BY LenProperties DEF VarTypes, ValueTypes, StackTypes
    <2>2. IsFiniteSet(1 .. Len(pending))
      BY <2>1, FS_Interval
    <2>3. UsersOf(b) \in SUBSET (1 .. Len(pending))
      BY <2>1 DEF UsersOf
    <2> QED BY <2>2, <2>3, FS_Subset
  <1>3. IsFiniteSet(StrandedOf(b))
    <2>1. StrandedOf(b) \in SUBSET stranded
      BY DEF StrandedOf
    <2> QED BY <2>1, FS_Subset DEF VarTypes, ValueTypes, StackTypes
  <1>4. References(b) = Cardinality(HoldersOf(b)) + Cardinality(UsersOf(b))
                            + Cardinality(StrandedOf(b))
    BY DEF References, HoldersOf, UsersOf, StrandedOf
  <1> QED BY <1>1, <1>2, <1>3, <1>4, FS_CardinalityType

(* The object createInt and createChar hand out belongs to nobody.         *)
LEMMA FreshIsFree ==
    ASSUME VarTypes, NEW b \in Fresh
    PROVE  /\ b \in Objects
           /\ \A q \in Places : place[q] # b
           /\ \A i \in 1 .. Len(pending) : pending[i].operand # b
  <1>1. b \in Free
    <2>1. CASE b \in Free \cap {pointer}
      BY <2>1
    <2>2. CASE b \notin Free \cap {pointer}
      <3> DEFINE T == Free \ {pointer}
      <3>1. T # {} /\ b = Min(T)
        BY <2>2 DEF Fresh
      <3>2. T \in SUBSET Nat
        BY DEF Free, Objects
      <3>3. \E n \in T : \A m \in T : n <= m
        BY <3>1, <3>2, LeastNatural
      <3>4. Min(T) \in T
        BY <3>3 DEF Min
      <3> QED BY <3>1, <3>4
    <2> QED BY <2>1, <2>2
  <1>2. b \in Objects /\ References(b) = 0
    BY <1>1 DEF Free
  <1>3. Cardinality(HoldersOf(b)) = 0 /\ Cardinality(UsersOf(b)) = 0
    BY <1>2, CountsAreFinite
  <1>4. HoldersOf(b) = {} /\ UsersOf(b) = {}
    BY <1>3, CountsAreFinite, FS_EmptySet
  <1>5. DOMAIN pending = 1 .. Len(pending)
    BY LenProperties DEF VarTypes, ValueTypes, StackTypes
  <1> QED BY <1>2, <1>4, <1>5 DEF HoldersOf, UsersOf

(* An object GET_POINTER does not find shared is its variable's alone.     *)
LEMMA OwnObject ==
    ASSUME VarTypes, NEW p \in Places, ~IsShared(place[p])
    PROVE  /\ place[p] \in Objects
           /\ \A q \in Places : place[q] = place[p] => q = p
           /\ \A i \in 1 .. Len(pending) : pending[i].operand # place[p]
  <1> DEFINE b == place[p]
  <1>1. b \in Objects /\ ~(References(b) > 1)
    BY DEF IsShared
  <1> HIDE DEF b
  <1>2. p \in HoldersOf(b)
    BY DEF HoldersOf, b
  <1>3. /\ References(b) = Cardinality(HoldersOf(b)) + Cardinality(UsersOf(b))
                               + Cardinality(StrandedOf(b))
        /\ Cardinality(HoldersOf(b)) \in Nat \ {0} /\ Cardinality(UsersOf(b)) \in Nat
        /\ Cardinality(StrandedOf(b)) \in Nat
        /\ IsFiniteSet(HoldersOf(b)) /\ IsFiniteSet(UsersOf(b))
    BY <1>2, CountsAreFinite, TakeOne
  <1>4. ASSUME NEW q \in Places, place[q] = place[p], q # p PROVE FALSE
    <2>1. q \in HoldersOf(b)
      BY <1>4 DEF HoldersOf, b
    <2>2. Cardinality(HoldersOf(b)) >= 2
      BY <1>2, <1>3, <2>1, <1>4, TakeTwo
    <2> QED BY <1>1, <1>3, <2>2
  <1>5. ASSUME NEW i \in 1 .. Len(pending), pending[i].operand = place[p] PROVE FALSE
    <2>1. i \in UsersOf(b)
      <3>1. DOMAIN pending = 1 .. Len(pending)
        BY LenProperties DEF VarTypes, ValueTypes, StackTypes
      <3> QED BY <1>5, <3>1 DEF UsersOf, b
    <2>2. Cardinality(UsersOf(b)) \in Nat \ {0}
      BY <1>3, <2>1, TakeOne
    <2> QED BY <1>1, <1>3, <2>2
  <1> QED BY <1>1, <1>4, <1>5 DEF b

(***************************************************************************)
(* What a step keeps.                                                      *)
(***************************************************************************)
(* One waiting statement becomes another: it is the same, and it is not    *)
(* touched only if it was not, its operand was not written into and its    *)
(* variable was not assigned.                                              *)
Becomes(old, new, reassigned, written) ==
    /\ new.form = old.form /\ new.target = old.target /\ new.operand = old.operand
    /\ new.base = old.base /\ new.sure = old.sure
    /\ ~new.touched => /\ ~old.touched /\ old.operand \notin written
                       /\ old.form = "compound" => old.target \notin reassigned

AllBecome(old, new, R, W) ==
    Len(new) = Len(old) /\ \A i \in 1 .. Len(old) : Becomes(old[i], new[i], R, W)
(* The numbers of operands outside W are kept, variables outside R are, and *)
(* the operand of an op= is not handed over, nor given to a variable of R, *)
(* behind its back.                                                        *)
NumbersKept(s, W, dt, dt2) ==
    \A i \in 1 .. Len(s) : s[i].operand \in Numbers \ W => dt2[s[i].operand] = dt[s[i].operand]
OthersKept(R, pl, pl2) == \A q \in Places \ R : pl2[q] = pl[q]
OperandsKept(s, R, pl2, hd, hd2) ==
    \A i \in 1 .. Len(s) : s[i].form = "compound" /\ s[i].operand \notin hd2 =>
        /\ s[i].operand \notin hd
        /\ \A q \in R : pl2[q] # s[i].operand

(* Touched does that to every statement that waits.                        *)
LEMMA TouchedBecomes ==
    ASSUME NEW s \in Seq(Waitings), NEW R, NEW W
    PROVE  /\ Touched(s, R, W) \in Seq(Waitings)
           /\ AllBecome(s, Touched(s, R, W), R, W)
  <1> DEFINE n == Len(s)
             T == Touched(s, R, W)
             touch(w) == w.touched \/ w.operand \in W
                            \/ (w.form = "compound" /\ w.target \in R)
  <1>1. n \in Nat /\ DOMAIN s = 1 .. n /\ \A i \in 1 .. n : s[i] \in Waitings
    BY LenProperties, ElementOfSeq
  <1>2. T = [i \in 1 .. n |-> [s[i] EXCEPT !.touched = touch(s[i])]]
    BY <1>1 DEF Touched
  <1> HIDE DEF n, T
  <1>3. ASSUME NEW i \in 1 .. n
        PROVE  T[i] \in Waitings /\ Becomes(s[i], T[i], R, W)
    <2>1. s[i] \in Waitings
      BY <1>1
    <2>2. touch(s[i]) \in BOOLEAN
      BY <2>1 DEF Waitings
    <2>3. T[i] = [s[i] EXCEPT !.touched = touch(s[i])]
      BY <1>2
    <2>4. /\ T[i] \in Waitings /\ T[i].touched = touch(s[i])
          /\ T[i].form = s[i].form /\ T[i].target = s[i].target
          /\ T[i].operand = s[i].operand /\ T[i].base = s[i].base /\ T[i].sure = s[i].sure
      <3> HIDE DEF touch
      <3> QED BY <2>1, <2>2, <2>3 DEF Waitings
    <2> QED BY <2>4 DEF Becomes
  <1>4. T \in [1 .. n -> Waitings]
    BY <1>2, <1>3
  <1>5. T \in Seq(Waitings) /\ Len(T) = n
    BY <1>1, <1>4, SeqDef, LenProperties
  <1> QED BY <1>3, <1>5 DEF n, T, AllBecome

(* What waits goes on holding: the numbers of the operands that were not   *)
(* written into are kept, the variables that were not assigned are, and no *)
(* other variable got the operand of an op= without its being handed over. *)
LEMMA WaitersKeep ==
    ASSUME NEW old \in Seq(Waitings), NEW new \in Seq(Waitings),
           NEW R \in SUBSET Places, NEW W, AllBecome(old, new, R, W),
           NEW pl, NEW pl2, NEW dt, NEW dt2, NEW hd, NEW hd2,
           WaitersHold(old, pl, dt, hd), NumbersKept(old, W, dt, dt2),
           OthersKept(R, pl, pl2), OperandsKept(old, R, pl2, hd, hd2)
    PROVE  WaitersHold(new, pl2, dt2, hd2)
  <1> SUFFICES ASSUME NEW i \in 1 .. Len(old)
               PROVE  WaiterHolds(new[i], pl2, dt2, hd2)
    BY DEF WaitersHold, AllBecome
  <1>1. /\ WaiterHolds(old[i], pl, dt, hd) /\ Becomes(old[i], new[i], R, W)
        /\ old[i] \in Waitings
    BY ElementOfSeq DEF WaitersHold, AllBecome
  <1>2. old[i].target \in Places /\ old[i].form \in {"assign", "binary", "compound"}
    BY <1>1 DEF Waitings
  <1>3. new[i].form # "assign" => new[i].operand \in Numbers
    BY <1>1 DEF WaiterHolds, Becomes
  <1>4. new[i].form # "assign" /\ new[i].sure /\ ~new[i].touched =>
            dt2[new[i].operand] = new[i].base
    BY <1>1 DEF WaiterHolds, Becomes, NumbersKept
  <1>5. new[i].form = "compound" /\ ~new[i].touched => pl2[new[i].target] = new[i].operand
    BY <1>1, <1>2 DEF WaiterHolds, Becomes, OthersKept
  <1>6. new[i].form = "compound" /\ new[i].operand \notin hd2 =>
            \A q \in Places : pl2[q] = new[i].operand => q = new[i].target
    BY <1>1 DEF WaiterHolds, Becomes, OthersKept, OperandsKept
  <1> QED BY <1>3, <1>4, <1>5, <1>6 DEF WaiterHolds

(* One more that holds.                                                    *)
LEMMA WaitersAppend ==
    ASSUME NEW s \in Seq(Waitings), NEW w \in Waitings, NEW pl, NEW dt, NEW hd,
           WaitersHold(s, pl, dt, hd), WaiterHolds(w, pl, dt, hd)
    PROVE  /\ Append(s, w) \in Seq(Waitings) /\ Len(Append(s, w)) = Len(s) + 1
           /\ WaitersHold(Append(s, w), pl, dt, hd)
  <1> DEFINE n == Len(s)
             long == Append(s, w)
  <1>1. /\ n \in Nat /\ long \in Seq(Waitings) /\ Len(long) = n + 1 /\ long[n + 1] = w
        /\ \A i \in 1 .. n : long[i] = s[i]
    BY LenProperties, AppendProperties
  <1> HIDE DEF n, long
  <1>2. \A i \in 1 .. n + 1 : i = n + 1 \/ i \in 1 .. n
    BY <1>1
  <1>3. \A i \in 1 .. n + 1 : WaiterHolds(long[i], pl, dt, hd)
    <2>1. \A i \in 1 .. n : WaiterHolds(s[i], pl, dt, hd)
      BY DEF WaitersHold, n
    <2> QED BY <1>1, <1>2, <2>1
  <1>4. WaitersHold(long, pl, dt, hd)
    BY <1>1, <1>3 DEF WaitersHold
  <1> QED BY <1>1, <1>4 DEF n, long

(* Those of the frames that go on.                                         *)
LEMMA WaitersPrefix ==
    ASSUME NEW s \in Seq(Waitings), NEW n \in 0 .. Len(s), NEW pl, NEW dt, NEW hd,
           WaitersHold(s, pl, dt, hd)
    PROVE  /\ SubSeq(s, 1, n) \in Seq(Waitings) /\ Len(SubSeq(s, 1, n)) = n
           /\ WaitersHold(SubSeq(s, 1, n), pl, dt, hd)
  <1> DEFINE first == SubSeq(s, 1, n)
  <1>1. /\ first \in Seq(Waitings) /\ Len(first) = n /\ Len(s) \in Nat
        /\ \A i \in 1 .. n : first[i] = s[i]
    BY Prefix, LenProperties
  <1> HIDE DEF first
  <1>2. \A i \in 1 .. n : i \in 1 .. Len(s)
    BY <1>1
  <1>3. WaitersHold(first, pl, dt, hd)
    BY <1>1, <1>2 DEF WaitersHold
  <1> QED BY <1>1, <1>3 DEF first

(* Nothing that a variable holds or a statement waits with loses its       *)
(* number, nor that it was handed over.                                    *)
LEMMA KeepsUsed ==
    ASSUME NEW d \in [AllObjects -> Data0], d[IntConst] = Literal,
           NEW h \in SUBSET AllObjects, Keep(d, h),
           place' \in [Places -> Numbers \cup {Cell}], pending' \in Seq(Waitings)
    PROVE  /\ datum' \in [AllObjects -> Data0] /\ datum'[IntConst] = Literal
           /\ handed' \in SUBSET AllObjects /\ handed' \subseteq h
           /\ \A q \in Places : place'[q] \in Numbers =>
                 /\ datum'[place'[q]] = d[place'[q]]
                 /\ place'[q] \in h => place'[q] \in handed'
           /\ \A i \in 1 .. Len(pending') : pending'[i].operand \in Numbers =>
                 /\ datum'[pending'[i].operand] = d[pending'[i].operand]
                 /\ pending'[i].operand \in h => pending'[i].operand \in handed'
  <1>1. PICK used : used = InUse
    OBVIOUS
  <1>2. /\ datum' = [b \in AllObjects |-> IF b \in used THEN d[b] ELSE 0]
        /\ handed' = h \cap used
    BY <1>1 DEF Keep
  <1>3. \A q \in Places : place'[q] \in used
    BY <1>1 DEF InUse
  <1>4. \A i \in 1 .. Len(pending') : pending'[i].operand \in used
    <2>1. DOMAIN pending' = 1 .. Len(pending')
      BY LenProperties
    <2> QED BY <1>1, <2>1 DEF InUse
  <1>5. IntConst \in used
    BY <1>1 DEF InUse
  <1>6. datum' \in [AllObjects -> Data0] /\ datum'[IntConst] = Literal
    BY <1>2, <1>5, TheObjects
  <1>7. \A b \in Numbers : b \in used => /\ datum'[b] = d[b]
                                         /\ b \in h => b \in handed'
    BY <1>2, TheObjects
  <1> QED BY <1>2, <1>3, <1>4, <1>6, <1>7

(***************************************************************************)
(* Assignments.                                                            *)
(***************************************************************************)
(* The statements that waited first, which is what a step leaves waiting.  *)
Outer(s) ==
    /\ s \in Seq(Waitings) /\ Len(s) <= Len(pending)
    /\ \A i \in 1 .. Len(s) : s[i] = pending[i]

(* All of them, and all but the caller, are such.                          *)
LEMMA OutersAre ==
    ASSUME ValueTypes
    PROVE  /\ Outer(pending)
           /\ pending # <<>> => /\ Outer(Waiters) /\ Caller \in Waitings
                                /\ Len(Waiters) = Len(pending) - 1
                                /\ Len(pending) \in Nat \ {0}
                                /\ Caller = pending[Len(pending)]
           /\ \A n \in 0 .. Len(pending) - 1 :
                 Outer(SubSeq(pending, 1, n)) /\ Len(SubSeq(pending, 1, n)) = n
  <1>1. pending \in Seq(Waitings) /\ Len(pending) \in Nat
    BY LenProperties DEF ValueTypes
  <1>2. Outer(pending)
    BY <1>1 DEF Outer
  <1>3. ASSUME pending # <<>>
        PROVE  /\ Outer(Waiters) /\ Caller \in Waitings /\ Len(Waiters) = Len(pending) - 1
               /\ Len(pending) \in Nat \ {0} /\ Caller = pending[Len(pending)]
    <2>1. /\ Len(pending) \in Nat \ {0} /\ Waiters \in Seq(Waitings)
          /\ Len(Waiters) = Len(pending) - 1 /\ Caller \in Waitings
          /\ Caller = pending[Len(pending)]
          /\ \A i \in 1 .. Len(pending) - 1 : Waiters[i] = pending[i]
      BY <1>1, <1>3, FrontAndLast DEF Waiters, Caller
    <2> QED BY <2>1 DEF Outer
  <1>4. ASSUME NEW n \in 0 .. Len(pending) - 1
        PROVE  Outer(SubSeq(pending, 1, n)) /\ Len(SubSeq(pending, 1, n)) = n
    <2>1. n \in 0 .. Len(pending) /\ n \in Nat
      BY <1>1
    <2>2. /\ SubSeq(pending, 1, n) \in Seq(Waitings) /\ Len(SubSeq(pending, 1, n)) = n
          /\ \A i \in 1 .. n : SubSeq(pending, 1, n)[i] = pending[i]
      BY <1>1, <2>1, Prefix
    <2> QED BY <2>1, <2>2 DEF Outer
  <1> QED BY <1>2, <1>3, <1>4

(* They hold, and their operands are those of statements that wait.        *)
LEMMA OutersHold ==
    ASSUME ValuesInv, NEW s, Outer(s)
    PROVE  /\ s \in Seq(Waitings) /\ Len(s) \in Nat
           /\ WaitersHold(s, place, datum, handed)
           /\ \A i \in 1 .. Len(s) : i \in 1 .. Len(pending) /\ s[i] = pending[i]
           /\ \A i \in 1 .. Len(s) : s[i] \in Waitings
           /\ \A i \in 1 .. Len(s) : s[i].form # "assign" => s[i].operand \in Numbers
  <1>1. /\ s \in Seq(Waitings) /\ pending \in Seq(Waitings) /\ Len(s) <= Len(pending)
        /\ \A i \in 1 .. Len(s) : s[i] = pending[i]
    BY DEF Outer, ValuesInv, ValueTypes
  <1>2. Len(s) \in Nat /\ Len(pending) \in Nat
    BY <1>1, LenProperties
  <1>3. \A i \in 1 .. Len(s) : i \in 1 .. Len(pending) /\ s[i] = pending[i]
    BY <1>1, <1>2
  <1>4. WaitersHold(s, place, datum, handed)
    BY <1>3 DEF WaitersHold, ValuesInv, WaitersInv
  <1>5. \A i \in 1 .. Len(s) : s[i] \in Waitings
    BY <1>1, ElementOfSeq
  <1>6. \A i \in 1 .. Len(s) : s[i].form # "assign" => s[i].operand \in Numbers
    BY <1>4 DEF WaitersHold, WaiterHolds
  <1> QED BY <1>1, <1>2, <1>3, <1>4, <1>5, <1>6

(* What every step that only leaves statements waiting does to the objects *)
(* in use and to the statements.                                           *)
LEMMA StepKeeps ==
    ASSUME ValuesInv, NEW s, Outer(s), NEW R \in SUBSET Places, NEW W,
           NEW d \in [AllObjects -> Data0], d[IntConst] = Literal,
           NEW h \in SUBSET AllObjects, Keep(d, h),
           pending' = Touched(s, R, W), place' \in [Places -> Numbers \cup {Cell}],
           NumbersKept(s, W, datum, d), OthersKept(R, place, place'),
           OperandsKept(s, R, place', handed, h)
    PROVE  /\ WaitersInv' /\ pending' \in Seq(Waitings) /\ Len(pending') = Len(s)
           /\ datum' \in [AllObjects -> Data0] /\ datum'[IntConst] = Literal
           /\ handed' \in SUBSET AllObjects
           /\ \A q \in Places : place'[q] \in Numbers =>
                 /\ datum'[place'[q]] = d[place'[q]]
                 /\ place'[q] \in h => place'[q] \in handed'
  <1>1. /\ s \in Seq(Waitings) /\ Len(s) \in Nat /\ WaitersHold(s, place, datum, handed)
        /\ \A i \in 1 .. Len(s) : s[i].form # "assign" => s[i].operand \in Numbers
    BY OutersHold
  <1>2. /\ pending' \in Seq(Waitings) /\ Len(pending') = Len(s)
        /\ AllBecome(s, pending', R, W)
    <2>1. pending' \in Seq(Waitings) /\ AllBecome(s, pending', R, W)
      BY <1>1, TouchedBecomes
    <2> QED BY <2>1 DEF AllBecome
  <1>3. /\ datum' \in [AllObjects -> Data0] /\ datum'[IntConst] = Literal
        /\ handed' \in SUBSET AllObjects
        /\ \A q \in Places : place'[q] \in Numbers =>
              /\ datum'[place'[q]] = d[place'[q]]
              /\ place'[q] \in h => place'[q] \in handed'
        /\ \A i \in 1 .. Len(pending') : pending'[i].operand \in Numbers =>
              /\ datum'[pending'[i].operand] = d[pending'[i].operand]
              /\ pending'[i].operand \in h => pending'[i].operand \in handed'
    BY <1>2, KeepsUsed
  <1>4. \A i \in 1 .. Len(s) : pending'[i].operand = s[i].operand
    BY <1>2 DEF AllBecome, Becomes
  <1>5. NumbersKept(s, W, datum, datum')
    BY <1>2, <1>3, <1>4 DEF NumbersKept
  <1>6. OperandsKept(s, R, place', handed, handed')
    BY <1>1, <1>2, <1>3, <1>4 DEF OperandsKept
  <1>7. WaitersHold(pending', place', datum', handed')
    BY <1>1, <1>2, <1>5, <1>6, WaitersKeep
  <1> QED BY <1>2, <1>3, <1>7 DEF WaitersInv

(* An object of its own that nobody has: no other variable changes.        *)
LEMMA AssignNewKeeps ==
    ASSUME ValuesInv, StackTypes, NEW p \in Places, NEW k \in Data0, NEW n \in Data0,
           NEW sure \in BOOLEAN, sure => k = n, AssignNew(p, k, n, sure),
           NEW s, Outer(s), pending' = Touched(s, {p}, {})
    PROVE  ValuesInv' /\ Len(pending') = Len(s)
  <1>1. PICK b \in Fresh : /\ Assign(p, b, n, sure)
                           /\ Data([datum EXCEPT ![b] = k], {})
    BY DEF AssignNew
  <1>2. /\ b \in Objects /\ \A q \in Places : place[q] # b
        /\ \A i \in 1 .. Len(pending) : pending[i].operand # b
    BY FreshIsFree DEF VarTypes, ValuesInv
  <1> DEFINE d == [datum EXCEPT ![b] = k]
  <1>3. /\ place \in [Places -> Numbers \cup {Cell}] /\ datum \in [AllObjects -> Data0]
        /\ datum[IntConst] = Literal /\ pointer \in Numbers \cup {None}
        /\ want \in [Places -> Data0] /\ doubt \in SUBSET Places
        /\ handed \in SUBSET AllObjects
    BY DEF ValuesInv, ValueTypes
  <1>4. /\ b \in Numbers /\ b \in AllObjects /\ b # IntConst /\ Cell \notin Numbers
        /\ Numbers \subseteq AllObjects
    BY <1>2, TheObjects
  <1>5. /\ d \in [AllObjects -> Data0] /\ d[IntConst] = Literal /\ d[b] = k
        /\ \A o \in Numbers : o # b => d[o] = datum[o]
    BY <1>3, <1>4
  <1>6. Keep(d, handed)
    <2>1. handed \cup {} = handed
      OBVIOUS
    <2> QED BY <1>1, <2>1 DEF Data
  <1> HIDE DEF d
  <1>7. /\ place' \in [Places -> Numbers \cup {Cell}] /\ place'[p] = b
        /\ \A q \in Places : q # p => place'[q] = place[q]
        /\ want' \in [Places -> Data0] /\ want'[p] = n
        /\ \A q \in Places : q # p => want'[q] = want[q]
        /\ doubt' \in SUBSET Places /\ pointer' = pointer
        /\ \A q \in Places : q # p => (q \in doubt' <=> q \in doubt)
        /\ p \notin doubt' => sure
    BY <1>1, <1>3, <1>4 DEF Assign
  <1>8. \A i \in 1 .. Len(s) : s[i].operand # b
    BY <1>2, OutersHold
  <1>9. /\ WaitersInv' /\ pending' \in Seq(Waitings) /\ Len(pending') = Len(s)
        /\ datum' \in [AllObjects -> Data0] /\ datum'[IntConst] = Literal
        /\ handed' \in SUBSET AllObjects
        /\ \A q \in Places : place'[q] \in Numbers =>
              /\ datum'[place'[q]] = d[place'[q]]
              /\ place'[q] \in handed => place'[q] \in handed'
    <2>1. /\ NumbersKept(s, {}, datum, d) /\ OthersKept({p}, place, place')
          /\ OperandsKept(s, {p}, place', handed, handed)
      BY <1>5, <1>7, <1>8 DEF NumbersKept, OthersKept, OperandsKept
    <2>2. {p} \in SUBSET Places
      OBVIOUS
    <2> QED BY <1>3, <1>5, <1>6, <1>7, <2>1, <2>2, StepKeeps
  <1>10. ValueTypes'
    BY <1>3, <1>7, <1>9 DEF ValueTypes
  <1>11. ReadsLastWrite'
    <2> SUFFICES ASSUME NEW q \in Places, q \notin doubt'
                 PROVE  place'[q] # Cell /\ datum'[place'[q]] = want'[q]
      BY DEF ReadsLastWrite
    <2>1. CASE q = p
      BY <2>1, <1>4, <1>5, <1>7, <1>9
    <2>2. CASE q # p
      <3>1. q \notin doubt /\ place'[q] = place[q] /\ place[q] # b /\ want'[q] = want[q]
        BY <2>2, <1>2, <1>7
      <3>2. place[q] # Cell /\ datum[place[q]] = want[q] /\ place[q] \in Numbers
        BY <3>1, <1>3 DEF ValuesInv, ReadsLastWrite
      <3> QED BY <3>1, <3>2, <1>5, <1>9
    <2> QED BY <2>1, <2>2
  <1>12. NumbersAreNotShared'
    <2> SUFFICES ASSUME NEW q \in Places, place'[q] \in Objects \cup {IntConst, CharConst}
                 PROVE  \/ place'[q] \in handed'
                        \/ /\ place'[q] \in Objects
                           /\ \A r \in Places : place'[r] = place'[q] => q = r
      BY DEF NumbersAreNotShared
    <2>1. CASE q = p
      BY <2>1, <1>2, <1>7
    <2>2. CASE q # p
      <3>1. place'[q] = place[q] /\ place[q] # b
        BY <2>2, <1>2, <1>7
      <3>2. place[q] \in Numbers
        BY <3>1, <1>3, TheObjects
      <3>3. CASE place[q] \in handed
        BY <3>1, <3>2, <3>3, <1>9
      <3>4. CASE place[q] \notin handed
        <4>1. place[q] \in Objects /\ \A r \in Places : place[r] = place[q] => q = r
          BY <3>1, <3>4 DEF ValuesInv, NumbersAreNotShared
        <4> QED BY <3>1, <4>1, <1>7
      <3> QED BY <3>3, <3>4
    <2> QED BY <2>1, <2>2
  <1> QED BY <1>9, <1>10, <1>11, <1>12 DEF ValuesInv

(* The object of another variable, which is remembered as handed over.     *)
LEMMA AssignSharedKeeps ==
    ASSUME ValuesInv, NEW p \in Places, NEW b \in Numbers, NEW n \in Data0,
           NEW sure \in BOOLEAN, sure => datum[b] = n, AssignShared(p, b, n, sure, TRUE),
           NEW s, Outer(s), pending' = Touched(s, {p}, {})
    PROVE  ValuesInv' /\ Len(pending') = Len(s)
  <1> DEFINE h == handed \cup {b}
  <1>1. Assign(p, b, n, sure) /\ Keep(datum, h)
    <2>1. {o \in {b} : TRUE} = {b}
      OBVIOUS
    <2> QED BY <2>1 DEF AssignShared, Data
  <1>2. /\ place \in [Places -> Numbers \cup {Cell}] /\ datum \in [AllObjects -> Data0]
        /\ datum[IntConst] = Literal /\ pointer \in Numbers \cup {None}
        /\ want \in [Places -> Data0] /\ doubt \in SUBSET Places
        /\ handed \in SUBSET AllObjects
    BY DEF ValuesInv, ValueTypes
  <1>3. Numbers \subseteq AllObjects /\ Cell \notin Numbers
    BY TheObjects
  <1>4. h \in SUBSET AllObjects /\ b \in h /\ handed \subseteq h
    BY <1>2, <1>3
  <1> HIDE DEF h
  <1>5. /\ place' \in [Places -> Numbers \cup {Cell}] /\ place'[p] = b
        /\ \A q \in Places : q # p => place'[q] = place[q]
        /\ want' \in [Places -> Data0] /\ want'[p] = n
        /\ \A q \in Places : q # p => want'[q] = want[q]
        /\ doubt' \in SUBSET Places /\ pointer' = pointer
        /\ \A q \in Places : q # p => (q \in doubt' <=> q \in doubt)
        /\ p \notin doubt' => sure
    BY <1>1, <1>2 DEF Assign
  <1>6. /\ WaitersInv' /\ pending' \in Seq(Waitings) /\ Len(pending') = Len(s)
        /\ datum' \in [AllObjects -> Data0] /\ datum'[IntConst] = Literal
        /\ handed' \in SUBSET AllObjects
        /\ \A q \in Places : place'[q] \in Numbers =>
              /\ datum'[place'[q]] = datum[place'[q]]
              /\ place'[q] \in h => place'[q] \in handed'
    <2>1. /\ NumbersKept(s, {}, datum, datum) /\ OthersKept({p}, place, place')
          /\ OperandsKept(s, {p}, place', handed, h)
      BY <1>4, <1>5 DEF NumbersKept, OthersKept, OperandsKept
    <2>2. {p} \in SUBSET Places
      OBVIOUS
    <2> QED BY <1>1, <1>2, <1>4, <1>5, <2>1, <2>2, StepKeeps
  <1>7. ValueTypes'
    BY <1>2, <1>5, <1>6 DEF ValueTypes
  <1>8. ReadsLastWrite'
    <2> SUFFICES ASSUME NEW q \in Places, q \notin doubt'
                 PROVE  place'[q] # Cell /\ datum'[place'[q]] = want'[q]
      BY DEF ReadsLastWrite
    <2>1. CASE q = p
      BY <2>1, <1>3, <1>5, <1>6
    <2>2. CASE q # p
      <3>1. q \notin doubt /\ place'[q] = place[q] /\ want'[q] = want[q]
        BY <2>2, <1>5
      <3>2. place[q] # Cell /\ datum[place[q]] = want[q] /\ place[q] \in Numbers
        BY <3>1, <1>2 DEF ValuesInv, ReadsLastWrite
      <3> QED BY <3>1, <3>2, <1>6
    <2> QED BY <2>1, <2>2
  <1>9. NumbersAreNotShared'
    <2> SUFFICES ASSUME NEW q \in Places, place'[q] \in Objects \cup {IntConst, CharConst}
                 PROVE  \/ place'[q] \in handed'
                        \/ /\ place'[q] \in Objects
                           /\ \A r \in Places : place'[r] = place'[q] => q = r
      BY DEF NumbersAreNotShared
    <2>1. place'[q] \in Numbers
      BY <1>5, TheObjects
    <2>2. CASE place'[q] = b
      BY <2>1, <2>2, <1>4, <1>6
    <2>3. CASE place'[q] # b
      <3>1. q # p /\ place'[q] = place[q]
        BY <2>3, <1>5
      <3>2. CASE place[q] \in handed
        BY <3>1, <3>2, <2>1, <1>4, <1>6
      <3>3. CASE place[q] \notin handed
        <4>1. place[q] \in Objects /\ \A r \in Places : place[r] = place[q] => q = r
          BY <3>1, <3>3 DEF ValuesInv, NumbersAreNotShared
        <4> QED BY <2>3, <3>1, <4>1, <1>5
      <3> QED BY <3>2, <3>3
    <2> QED BY <2>2, <2>3
  <1> QED BY <1>6, <1>7, <1>8, <1>9 DEF ValuesInv

(* An operator writes k into b, the object of p, and through an address;   *)
(* n is what that means, and D the variables in doubt before they are that *)
(* see the write and should not.                                           *)
Writes(p, b, through, k, n, D, s) ==
    /\ D \in SUBSET Places /\ doubt \ {p} \subseteq D
    /\ b \notin handed => \A q \in Places : place[q] = b => q = p
    /\ p \notin D => place[p] = b /\ (through = b => k = n)
    /\ place' = place /\ pointer' \in Numbers \cup {None}
    /\ Data([datum EXCEPT ![b] = k, ![through] = k], {})
    /\ want' = [want EXCEPT ![p] = n]
    /\ doubt' = D \cup Sharers(p, b) \cup Misled(b, through)
    /\ pending' = Touched(s, {}, {b, through})
(* Whoever sees the write and should not is in doubt afterwards.           *)
LEMMA WriteKeeps ==
    ASSUME ValuesInv, NEW p \in Places, NEW b \in Numbers, NEW through \in Numbers,
           NEW k \in Data0, NEW n \in Data0, NEW D, NEW s, Outer(s),
           Writes(p, b, through, k, n, D, s)
    PROVE  ValuesInv' /\ Len(pending') = Len(s)
  <1> USE DEF Writes
  <1> DEFINE d == [datum EXCEPT ![b] = k, ![through] = k]
  <1>1. Keep(d, handed)
    <2>1. handed \cup {} = handed
      OBVIOUS
    <2> QED BY <2>1 DEF Data
  <1>2. /\ place \in [Places -> Numbers \cup {Cell}] /\ datum \in [AllObjects -> Data0]
        /\ datum[IntConst] = Literal /\ want \in [Places -> Data0]
        /\ doubt \in SUBSET Places /\ handed \in SUBSET AllObjects
    BY DEF ValuesInv, ValueTypes
  <1>3. Numbers \subseteq AllObjects /\ Cell \notin Numbers /\ IntConst \notin Numbers
    BY TheObjects
  <1>4. /\ d \in [AllObjects -> Data0] /\ d[IntConst] = Literal /\ d[b] = k
        /\ \A o \in Numbers : o # b /\ o # through => d[o] = datum[o]
    BY <1>2, <1>3, TheObjects
  <1> HIDE DEF d
  <1>5. /\ WaitersInv' /\ pending' \in Seq(Waitings) /\ Len(pending') = Len(s)
        /\ datum' \in [AllObjects -> Data0] /\ datum'[IntConst] = Literal
        /\ handed' \in SUBSET AllObjects
        /\ \A q \in Places : place'[q] \in Numbers =>
              /\ datum'[place'[q]] = d[place'[q]]
              /\ place'[q] \in handed => place'[q] \in handed'
    <2>1. /\ NumbersKept(s, {b, through}, datum, d) /\ OthersKept({}, place, place')
          /\ OperandsKept(s, {}, place', handed, handed)
      BY <1>4 DEF NumbersKept, OthersKept, OperandsKept
    <2>2. {} \in SUBSET Places /\ place' \in [Places -> Numbers \cup {Cell}]
      BY <1>2
    <2> QED BY <1>1, <1>2, <1>4, <2>1, <2>2, StepKeeps
  <1>6. /\ want' \in [Places -> Data0] /\ want'[p] = n
        /\ \A q \in Places : q # p => want'[q] = want[q]
    BY <1>2
  <1>7. doubt' \in SUBSET Places
    BY DEF Sharers, Misled
  <1>8. ValueTypes'
    BY <1>2, <1>5, <1>6, <1>7 DEF ValueTypes
  <1>9. ReadsLastWrite'
    <2> SUFFICES ASSUME NEW q \in Places, q \notin doubt'
                 PROVE  place'[q] # Cell /\ datum'[place'[q]] = want'[q]
      BY DEF ReadsLastWrite
    <2>1. q \notin D /\ q \notin Sharers(p, b) /\ q \notin Misled(b, through)
      OBVIOUS
    <2>2. CASE q = p
      <3>1. place[q] = b /\ (through = b => k = n)
        BY <2>1, <2>2
      <3>2. through = b
        BY <2>1, <3>1 DEF Misled
      <3> QED BY <2>2, <3>1, <3>2, <1>3, <1>4, <1>5, <1>6
    <2>3. CASE q # p
      <3>1. q \notin doubt /\ want'[q] = want[q]
        BY <2>1, <2>3, <1>6
      <3>2. place[q] # Cell /\ datum[place[q]] = want[q] /\ place[q] \in Numbers
        BY <3>1, <1>2 DEF ValuesInv, ReadsLastWrite
      <3>3. place[q] # b
        BY <2>1, <2>3 DEF Sharers
      <3>4. place[q] # through
        BY <2>1, <3>3 DEF Misled
      <3> QED BY <3>1, <3>2, <3>3, <3>4, <1>4, <1>5
    <2> QED BY <2>2, <2>3
  <1>10. NumbersAreNotShared'
    <2> SUFFICES ASSUME NEW q \in Places, place'[q] \in Objects \cup {IntConst, CharConst}
                 PROVE  \/ place'[q] \in handed'
                        \/ /\ place'[q] \in Objects
                           /\ \A r \in Places : place'[r] = place'[q] => q = r
      BY DEF NumbersAreNotShared
    <2>1. place'[q] \in Numbers
      BY <1>2, TheObjects
    <2>2. \/ place[q] \in handed
          \/ /\ place[q] \in Objects
             /\ \A r \in Places : place[r] = place[q] => q = r
      BY DEF ValuesInv, NumbersAreNotShared
    <2> QED BY <2>1, <2>2, <1>5
  <1> QED BY <1>5, <1>8, <1>9, <1>10 DEF ValuesInv

(***************************************************************************)
(* The statements.                                                         *)
(***************************************************************************)
(* A step that leaves as many statements waiting, and the stack as it was. *)
LEMMA StackKeeps ==
    ASSUME StackTypes, stranded' = stranded, Len(pending') = Len(pending)
    PROVE  StackTypes'
  BY DEF StackTypes

(* The types, one by one, and that what can be read is a number.           *)
LEMMA TypesAre ==
    ASSUME VarInv
    PROVE  /\ ValuesInv /\ ValueTypes /\ StackTypes /\ VarTypes
           /\ place \in [Places -> Numbers \cup {Cell}]
           /\ datum \in [AllObjects -> Data0] /\ datum[IntConst] = Literal
           /\ pointer \in Numbers \cup {None} /\ want \in [Places -> Data0]
           /\ doubt \in SUBSET Places /\ handed \in SUBSET AllObjects
           /\ pending \in Seq(Waitings) /\ Outer(pending)
           /\ Readable \subseteq Places /\ Visible \subseteq Places
           /\ \A q \in Readable : place[q] \in Numbers /\ datum[place[q]] \in Data0
           /\ \A q \in Places \ doubt : place[q] \in Numbers /\ datum[place[q]] = want[q]
           /\ \A q \in Places : place[q] \in Numbers /\ place[q] \notin handed =>
                 /\ place[q] \in Objects
                 /\ \A r \in Places : place[r] = place[q] => r = q
  <1>1. /\ ValuesInv /\ ValueTypes /\ StackTypes /\ VarTypes
        /\ place \in [Places -> Numbers \cup {Cell}]
        /\ datum \in [AllObjects -> Data0] /\ datum[IntConst] = Literal
        /\ pointer \in Numbers \cup {None} /\ want \in [Places -> Data0]
        /\ doubt \in SUBSET Places /\ handed \in SUBSET AllObjects
        /\ pending \in Seq(Waitings)
    BY DEF VarInv, ValuesInv, VarTypes, ValueTypes
  <1>2. Outer(pending)
    BY <1>1, OutersAre
  <1>3. Readable \subseteq Places /\ Visible \subseteq Places
    BY DEF Readable, Visible
  <1>4. \A q \in Readable : place[q] \in Numbers /\ datum[place[q]] \in Data0
    BY <1>1, <1>3, TheObjects DEF Readable
  <1>5. \A q \in Places \ doubt : place[q] \in Numbers /\ datum[place[q]] = want[q]
    BY <1>1 DEF ValuesInv, ReadsLastWrite
  <1>6. \A q \in Places : place[q] \in Numbers /\ place[q] \notin handed =>
            /\ place[q] \in Objects
            /\ \A r \in Places : place[r] = place[q] => r = q
    BY <1>1, TheObjects DEF ValuesInv, NumbersAreNotShared
  <1> QED BY <1>1, <1>2, <1>3, <1>4, <1>5, <1>6

(* p = literal.                                                            *)
LEMMA AssignConstStep ==
    ASSUME VarInv, NEW p \in Places, AssignConst(p)
    PROVE  VarInv'
  <1> DEFINE c == ConstantOf(p)
             sure == c = IntConst \/ datum[c] = Literal
  <1>1. /\ stranded' = stranded /\ pending' = Touched(pending, {p}, {})
        /\ IF CopiesConstant(p) THEN AssignNew(p, datum[c], Literal, sure)
           ELSE AssignShared(p, c, Literal, sure, c = CharConst)
    BY DEF AssignConst, Step
  <1>2. /\ c \in {IntConst, CharConst} /\ c \in AllObjects
        /\ ~CopiesConstant(p) => c = CharConst
    BY TheObjects DEF ConstantOf, CopiesConstant, Kind
  <1>3. /\ datum[c] \in Data0 /\ Literal \in Data0 /\ (sure => datum[c] = Literal)
    BY <1>2, TypesAre, TheObjects
  <1> HIDE DEF c
  <1>4. ValuesInv' /\ Len(pending') = Len(pending)
    <2>1. CASE CopiesConstant(p)
      <3>1. PICK k \in Data0 : k = datum[c]
        BY <1>3
      <3>2. AssignNew(p, k, Literal, sure)
        BY <1>1, <2>1, <3>1
      <3> QED BY <1>1, <1>3, <3>1, <3>2, TypesAre, AssignNewKeeps
    <2>2. CASE ~CopiesConstant(p)
      <3>1. c = CharConst /\ c \in Numbers
        BY <1>2, <2>2, TheObjects
      <3>2. AssignShared(p, c, Literal, sure, TRUE)
        BY <1>1, <2>2, <3>1
      <3> QED BY <1>1, <1>3, <3>1, <3>2, TypesAre, AssignSharedKeeps
    <2> QED BY <2>1, <2>2
  <1> QED BY <1>1, <1>4, StackKeeps DEF VarInv

(* The box of a captured variable, handed over itself: that variable is in *)
(* doubt until it is assigned.                                             *)
LEMMA AssignCellKeeps ==
    ASSUME VarInv, NEW p \in Places, NEW n \in Data0, Assign(p, Cell, n, FALSE),
           Data(datum, {}), pending' = Touched(pending, {p}, {})
    PROVE  ValuesInv' /\ Len(pending') = Len(pending)
  <1>1. Keep(datum, handed)
    <2>1. handed \cup {} = handed
      OBVIOUS
    <2> QED BY <2>1 DEF Data
  <1>2. Numbers \subseteq AllObjects /\ Cell \notin Numbers /\ Cell \notin AllObjects
    BY TheObjects
  <1>3. /\ place' \in [Places -> Numbers \cup {Cell}] /\ place'[p] = Cell
        /\ \A q \in Places : q # p => place'[q] = place[q]
        /\ want' \in [Places -> Data0] /\ \A q \in Places : q # p => want'[q] = want[q]
        /\ doubt' = doubt \cup {p} /\ doubt' \in SUBSET Places /\ pointer' = pointer
    BY TypesAre DEF Assign
  <1>4. \A i \in 1 .. Len(pending) : pending[i].form = "compound" => pending[i].operand # Cell
    BY <1>2, TypesAre, OutersHold
  <1>5. /\ WaitersInv' /\ pending' \in Seq(Waitings) /\ Len(pending') = Len(pending)
        /\ datum' \in [AllObjects -> Data0] /\ datum'[IntConst] = Literal
        /\ handed' \in SUBSET AllObjects
        /\ \A q \in Places : place'[q] \in Numbers =>
              /\ datum'[place'[q]] = datum[place'[q]]
              /\ place'[q] \in handed => place'[q] \in handed'
    <2>1. /\ NumbersKept(pending, {}, datum, datum) /\ OthersKept({p}, place, place')
          /\ OperandsKept(pending, {p}, place', handed, handed)
      BY <1>3, <1>4 DEF NumbersKept, OthersKept, OperandsKept
    <2>2. {p} \in SUBSET Places
      OBVIOUS
    <2> QED BY <1>1, <1>3, <2>1, <2>2, TypesAre, StepKeeps
  <1>6. ValueTypes'
    BY <1>3, <1>5, TypesAre DEF ValueTypes
  <1>7. ReadsLastWrite'
    <2> SUFFICES ASSUME NEW q \in Places, q \notin doubt'
                 PROVE  place'[q] # Cell /\ datum'[place'[q]] = want'[q]
      BY DEF ReadsLastWrite
    <2>1. q # p /\ q \notin doubt
      BY <1>3
    <2> QED BY <2>1, <1>2, <1>3, <1>5, TypesAre
  <1>8. NumbersAreNotShared'
    <2> SUFFICES ASSUME NEW q \in Places, place'[q] \in Objects \cup {IntConst, CharConst}
                 PROVE  \/ place'[q] \in handed'
                        \/ /\ place'[q] \in Objects
                           /\ \A r \in Places : place'[r] = place'[q] => q = r
      BY DEF NumbersAreNotShared
    <2>1. place'[q] \in Numbers /\ q # p /\ place'[q] = place[q]
      BY <1>2, <1>3, TheObjects
    <2>2. CASE place[q] \in handed
      BY <2>1, <2>2, <1>5
    <2>3. CASE place[q] \notin handed
      <3>1. place[q] \in Objects /\ \A r \in Places : place[r] = place[q] => q = r
        BY <2>1, <2>3, TypesAre
      <3> QED BY <2>1, <3>1, <1>2, <1>3
    <2> QED BY <2>2, <2>3
  <1> QED BY <1>5, <1>6, <1>7, <1>8 DEF ValuesInv

(* p = q.                                                                  *)
LEMMA AssignVarStep ==
    ASSUME VarInv, NEW p \in Places, NEW q \in Places, AssignVar(p, q)
    PROVE  VarInv'
  <1>1. /\ stranded' = stranded /\ pending' = Touched(pending, {p}, {}) /\ q \in Readable
        /\ \/ Assign(p, Cell, want[q], FALSE) /\ Data(datum, {})
           \/ /\ Copies(q)
              /\ AssignNew(p, datum[place[q]], want[q], q \notin doubt)
           \/ /\ ~Copies(q)
              /\ AssignShared(p, place[q], want[q], q \notin doubt,
                              Kind(q) = "Char" \/ q \in Captured)
    BY DEF AssignVar, Step
  <1>2. /\ place[q] \in Numbers /\ datum[place[q]] \in Data0 /\ want[q] \in Data0
        /\ (q \notin doubt) \in BOOLEAN /\ (q \notin doubt => datum[place[q]] = want[q])
    BY <1>1, TypesAre
  <1>3. ValuesInv' /\ Len(pending') = Len(pending)
    <2>1. CASE Assign(p, Cell, want[q], FALSE) /\ Data(datum, {})
      BY <1>1, <1>2, <2>1, AssignCellKeeps
    <2>2. CASE AssignNew(p, datum[place[q]], want[q], q \notin doubt)
      BY <1>1, <1>2, <2>2, TypesAre, AssignNewKeeps
    <2>3. CASE /\ ~Copies(q)
               /\ AssignShared(p, place[q], want[q], q \notin doubt,
                               Kind(q) = "Char" \/ q \in Captured)
      <3>1. (Kind(q) = "Char" \/ q \in Captured) = TRUE
        BY <2>3 DEF Copies, Kind
      <3>2. AssignShared(p, place[q], want[q], q \notin doubt, TRUE)
        BY <2>3, <3>1
      <3> QED BY <1>1, <1>2, <3>2, TypesAre, AssignSharedKeeps
    <2> QED BY <1>1, <2>1, <2>2, <2>3
  <1> QED BY <1>1, <1>3, TypesAre, StackKeeps DEF VarInv

(* p = o.inner.q.                                                          *)
LEMMA AssignNestedStep ==
    ASSUME VarInv, NEW p \in Places, NEW q \in Places, AssignNested(p, q)
    PROVE  VarInv'
  <1>1. /\ stranded' = stranded /\ pending' = Touched(pending, {p}, {}) /\ q \in Readable
        /\ AssignShared(p, place[q], want[q], q \notin doubt, TRUE)
    BY DEF AssignNested, Step
  <1>2. /\ place[q] \in Numbers /\ datum[place[q]] \in Data0 /\ want[q] \in Data0
        /\ (q \notin doubt) \in BOOLEAN /\ (q \notin doubt => datum[place[q]] = want[q])
    BY <1>1, TypesAre
  <1>3. ValuesInv' /\ Len(pending') = Len(pending)
    BY <1>1, <1>2, TypesAre, AssignSharedKeeps
  <1> QED BY <1>1, <1>3, TypesAre, StackKeeps DEF VarInv

(* p = q + 1.                                                              *)
LEMMA AssignSumStep ==
    ASSUME VarInv, NEW p \in Places, NEW q \in Places, AssignSum(p, q)
    PROVE  VarInv'
  <1>1. /\ stranded' = stranded /\ pending' = Touched(pending, {p}, {}) /\ q \in Readable
        /\ AssignNew(p, Plus(datum[place[q]], 1), Plus(want[q], 1), q \notin doubt)
    BY DEF AssignSum, Step
  <1>2. /\ datum[place[q]] \in Data0 /\ want[q] \in Data0
        /\ (q \notin doubt => datum[place[q]] = want[q])
    BY <1>1, TypesAre
  <1>3. /\ Plus(datum[place[q]], 1) \in Data0 /\ Plus(want[q], 1) \in Data0
        /\ (q \notin doubt) \in BOOLEAN
        /\ (q \notin doubt => Plus(datum[place[q]], 1) = Plus(want[q], 1))
    BY <1>2, PlusIsDatum
  <1>4. ValuesInv' /\ Len(pending') = Len(pending)
    BY <1>1, <1>3, TypesAre, AssignNewKeeps
  <1> QED BY <1>1, <1>4, TypesAre, StackKeeps DEF VarInv

(* ++p.                                                                    *)
LEMMA IncrementStep ==
    ASSUME VarInv, NEW p \in Places, Increment(p)
    PROVE  VarInv'
  <1> DEFINE b == place[p]
             k == Plus(datum[b], 1)
             n == Plus(want[p], 1)
  <1>1. /\ stranded' = stranded /\ p \in Readable /\ place' = place /\ pointer' = pointer
        /\ want' = [want EXCEPT ![p] = n] /\ doubt' = doubt \cup Sharers(p, b)
        /\ pending' = Touched(pending, {}, {b})
        /\ Data([datum EXCEPT ![b] = k], {})
    BY DEF Increment, Step
  <1>2. /\ b \in Numbers /\ b \in AllObjects /\ datum[b] \in Data0 /\ want[p] \in Data0
        /\ p \notin doubt => datum[b] = want[p]
        /\ b \notin handed => \A q \in Places : place[q] = b => q = p
    BY <1>1, TypesAre, TheObjects
  <1>3. k \in Data0 /\ n \in Data0 /\ (p \notin doubt => k = n)
    BY <1>2, PlusIsDatum
  <1> HIDE DEF k, n
  <1>4. /\ Misled(b, b) = {} /\ {b, b} = {b}
        /\ [datum EXCEPT ![b] = k, ![b] = k] = [datum EXCEPT ![b] = k]
    BY <1>2, TypesAre DEF Misled
  <1>5. Writes(p, b, b, k, n, doubt, pending)
    BY <1>1, <1>2, <1>3, <1>4, TypesAre DEF Writes
  <1> HIDE DEF b
  <1>7. ValuesInv' /\ Len(pending') = Len(pending)
    BY <1>2, <1>3, <1>5, TypesAre, WriteKeeps
  <1> QED BY <1>1, <1>7, TypesAre, StackKeeps DEF VarInv

(* q = ++p: both variables have the object, which is remembered.           *)
LEMMA AssignIncrementedStep ==
    ASSUME VarInv, NEW q \in Places, NEW p \in Places, AssignIncremented(q, p)
    PROVE  VarInv'
  <1> DEFINE b == place[p]
             n == Plus(want[p], 1)
             k == Plus(datum[b], 1)
             d == [datum EXCEPT ![b] = k]
             h == handed \cup {b}
  <1>1. /\ stranded' = stranded /\ p \in Readable /\ p # q /\ pointer' = pointer
        /\ place' = [place EXCEPT ![q] = b] /\ want' = [want EXCEPT ![p] = n, ![q] = n]
        /\ doubt' = ((doubt \cup Sharers(p, b)) \ {q}) \cup {r \in {q} : p \in doubt}
        /\ pending' = Touched(pending, {q}, {b})
        /\ Keep(d, h)
    <2>1. {o \in {b} : TRUE} = {b}
      OBVIOUS
    <2> QED BY <2>1 DEF AssignIncremented, Step, Data
  <1>2. /\ b \in Numbers /\ b \in AllObjects /\ datum[b] \in Data0 /\ want[p] \in Data0
        /\ p \notin doubt => datum[b] = want[p]
        /\ b \notin handed => \A r \in Places : place[r] = b => r = p
    BY <1>1, TypesAre, TheObjects
  <1>3. k \in Data0 /\ n \in Data0 /\ (p \notin doubt => k = n)
    BY <1>2, PlusIsDatum
  <1> HIDE DEF k, n
  <1>4. /\ d \in [AllObjects -> Data0] /\ d[IntConst] = Literal /\ d[b] = k
        /\ \A o \in Numbers : o # b => d[o] = datum[o]
    BY <1>2, <1>3, TypesAre, TheObjects
  <1>5. h \in SUBSET AllObjects /\ b \in h /\ handed \subseteq h
    BY <1>2, TypesAre
  <1>6. /\ place' \in [Places -> Numbers \cup {Cell}] /\ place'[q] = b /\ place'[p] = b
        /\ \A r \in Places : r # q => place'[r] = place[r]
        /\ want' \in [Places -> Data0] /\ want'[p] = n /\ want'[q] = n
        /\ \A r \in Places : r # p /\ r # q => want'[r] = want[r]
    BY <1>1, <1>2, <1>3, TypesAre
  <1>7. /\ doubt' \in SUBSET Places
        /\ \A r \in Places : r # q /\ r \notin doubt' => r \notin doubt /\ r \notin Sharers(p, b)
        /\ q \notin doubt' => p \notin doubt
    BY <1>1, TypesAre DEF Sharers
  <1> HIDE DEF b, d, h
  <1>8. /\ WaitersInv' /\ pending' \in Seq(Waitings) /\ Len(pending') = Len(pending)
        /\ datum' \in [AllObjects -> Data0] /\ datum'[IntConst] = Literal
        /\ handed' \in SUBSET AllObjects
        /\ \A r \in Places : place'[r] \in Numbers =>
              /\ datum'[place'[r]] = d[place'[r]]
              /\ place'[r] \in h => place'[r] \in handed'
    <2>1. /\ NumbersKept(pending, {b}, datum, d) /\ OthersKept({q}, place, place')
          /\ OperandsKept(pending, {q}, place', handed, h)
      BY <1>4, <1>5, <1>6 DEF NumbersKept, OthersKept, OperandsKept
    <2>2. {q} \in SUBSET Places
      OBVIOUS
    <2> QED BY <1>1, <1>4, <1>5, <1>6, <2>1, <2>2, TypesAre, StepKeeps
  <1>9. ValueTypes'
    BY <1>1, <1>6, <1>7, <1>8, TypesAre DEF ValueTypes
  <1>10. ReadsLastWrite'
    <2> SUFFICES ASSUME NEW r \in Places, r \notin doubt'
                 PROVE  place'[r] # Cell /\ datum'[place'[r]] = want'[r]
      BY DEF ReadsLastWrite
    <2>1. CASE r = q \/ r = p
      <3>1. p \notin doubt
        BY <2>1, <1>1, <1>7
      <3>2. place'[r] = b /\ want'[r] = n
        BY <2>1, <1>6
      <3> QED BY <3>1, <3>2, <1>2, <1>3, <1>4, <1>8, TheObjects
    <2>2. CASE r # q /\ r # p
      <3>1. r \notin doubt /\ r \notin Sharers(p, b) /\ place'[r] = place[r] /\ want'[r] = want[r]
        BY <2>2, <1>6, <1>7
      <3>2. place[r] \in Numbers /\ datum[place[r]] = want[r]
        BY <3>1, TypesAre
      <3>3. place[r] # b
        BY <2>2, <3>1, <1>2 DEF Sharers
      <3> QED BY <3>1, <3>2, <3>3, <1>4, <1>8, TheObjects
    <2> QED BY <2>1, <2>2
  <1>11. NumbersAreNotShared'
    <2> SUFFICES ASSUME NEW r \in Places, place'[r] \in Objects \cup {IntConst, CharConst}
                 PROVE  \/ place'[r] \in handed'
                        \/ /\ place'[r] \in Objects
                           /\ \A o \in Places : place'[o] = place'[r] => r = o
      BY DEF NumbersAreNotShared
    <2>1. place'[r] \in Numbers
      BY <1>6, TheObjects
    <2>2. CASE place'[r] = b
      BY <2>1, <2>2, <1>5, <1>8
    <2>3. CASE place'[r] # b
      <3>1. r # q /\ place'[r] = place[r]
        BY <2>3, <1>6
      <3>2. CASE place[r] \in handed
        BY <3>1, <3>2, <2>1, <1>5, <1>8
      <3>3. CASE place[r] \notin handed
        <4>1. place[r] \in Objects /\ \A o \in Places : place[o] = place[r] => o = r
          BY <3>1, <3>3, <2>1, TypesAre
        <4> QED BY <2>3, <3>1, <4>1, <1>6
      <3> QED BY <3>2, <3>3
    <2> QED BY <2>2, <2>3
  <1>12. ValuesInv' /\ Len(pending') = Len(pending)
    BY <1>8, <1>9, <1>10, <1>11 DEF ValuesInv
  <1> QED BY <1>1, <1>12, TypesAre, StackKeeps DEF VarInv

(* p += 1, through the address that is there.                              *)
LEMMA FastCompoundStep ==
    ASSUME VarInv, NEW p \in Places, FastCompound(p)
    PROVE  VarInv'
  <1> DEFINE b == place[p]
             through == Through(b)
             k == Plus(datum[through], 1)
             n == Plus(want[p], 1)
  <1>1. /\ stranded' = stranded /\ p \in Readable /\ place' = place /\ pointer' = None
        /\ want' = [want EXCEPT ![p] = n]
        /\ doubt' = doubt \cup Sharers(p, b) \cup Misled(b, through)
        /\ pending' = Touched(pending, {}, {b, through})
        /\ Data([datum EXCEPT ![b] = k, ![through] = k], {})
    BY DEF FastCompound, Step
  <1>2. /\ b \in Numbers /\ want[p] \in Data0
        /\ p \notin doubt => datum[b] = want[p]
        /\ b \notin handed => \A q \in Places : place[q] = b => q = p
    BY <1>1, TypesAre
  <1>3. through \in Numbers /\ datum[through] \in Data0
    <2>1. through \in Numbers
      BY <1>2, TypesAre, TheObjects DEF Through
    <2> QED BY <2>1, TypesAre, TheObjects
  <1>4. k \in Data0 /\ n \in Data0 /\ (p \notin doubt /\ through = b => k = n)
    BY <1>2, <1>3, PlusIsDatum
  <1> HIDE DEF k, n, through
  <1>5. Writes(p, b, through, k, n, doubt, pending)
    BY <1>1, <1>2, <1>4, TypesAre DEF Writes
  <1> HIDE DEF b
  <1>6. ValuesInv' /\ Len(pending') = Len(pending)
    BY <1>2, <1>3, <1>4, <1>5, TypesAre, WriteKeeps
  <1> QED BY <1>1, <1>6, TypesAre, StackKeeps DEF VarInv

(***************************************************************************)
(* Statements with a call.                                                 *)
(***************************************************************************)
(* A call that changes nothing but what waits for it.                      *)
LEMMA CallKeeps ==
    ASSUME VarInv, NEW w \in Waitings, WaiterHolds(w, place, datum, handed), MayCall,
           pending' = Append(pending, w), stranded' = stranded,
           UNCHANGED <<place, datum, pointer, want, doubt, handed>>
    PROVE  VarInv'
  <1>1. WaitersHold(pending, place, datum, handed) /\ pending \in Seq(Waitings)
    BY TypesAre DEF ValuesInv, WaitersInv
  <1>2. /\ pending' \in Seq(Waitings) /\ Len(pending') = Len(pending) + 1
        /\ WaitersHold(pending', place, datum, handed)
    BY <1>1, WaitersAppend
  <1>3. ValueTypes'
    BY <1>2, TypesAre DEF ValueTypes
  <1>4. WaitersInv'
    BY <1>2 DEF WaitersInv
  <1>5. ReadsLastWrite' /\ NumbersAreNotShared'
    BY TypesAre DEF ValuesInv, ReadsLastWrite, NumbersAreNotShared
  <1>6. StackTypes'
    <2>1. Len(pending) \in Nat /\ MaxPending \in Nat /\ Len(pending) < MaxPending
      BY <1>1, TheObjects, LenProperties DEF MayCall
    <2>2. Len(pending') <= MaxPending
      BY <1>2, <2>1
    <2> QED BY <2>2, TypesAre DEF StackTypes
  <1> QED BY <1>3, <1>4, <1>5, <1>6 DEF VarInv, ValuesInv

(* p = f().                                                                *)
LEMMA CallAssignStep ==
    ASSUME VarInv, NEW p \in Places, CallAssign(p)
    PROVE  VarInv'
  <1> DEFINE w == Waiting("assign", p, None, 0, TRUE)
  <1>1. w \in Waitings
    BY TheObjects DEF Waiting, Waitings
  <1>2. WaiterHolds(w, place, datum, handed)
    BY DEF Waiting, WaiterHolds
  <1>3. /\ MayCall /\ pending' = Append(pending, w) /\ stranded' = stranded
        /\ UNCHANGED <<place, datum, pointer, want, doubt, handed>>
    BY DEF CallAssign, Step
  <1> HIDE DEF w
  <1> QED BY <1>1, <1>2, <1>3, CallKeeps

(* p = q + f().                                                            *)
LEMMA CallBinaryStep ==
    ASSUME VarInv, NEW p \in Places, NEW q \in Places, CallBinary(p, q)
    PROVE  VarInv'
  <1> DEFINE w == Waiting("binary", p, place[q], want[q], q \notin doubt)
  <1>1. q \in Readable
    BY DEF CallBinary
  <1>2. place[q] \in Numbers /\ want[q] \in Data0 /\ (q \notin doubt => datum[place[q]] = want[q])
    BY <1>1, TypesAre
  <1>3. /\ w.form = "binary" /\ w.target = p /\ w.operand = place[q] /\ w.base = want[q]
        /\ w.sure = (q \notin doubt) /\ w.touched = FALSE
    BY DEF Waiting
  <1>4. w \in Waitings
    BY <1>2 DEF Waiting, Waitings
  <1>5. /\ MayCall /\ pending' = Append(pending, w) /\ stranded' = stranded
        /\ UNCHANGED <<place, datum, pointer, want, doubt, handed>>
    BY DEF CallBinary, Step
  <1> HIDE DEF w
  <1>6. WaiterHolds(w, place, datum, handed)
    BY <1>2, <1>3 DEF WaiterHolds
  <1> QED BY <1>4, <1>5, <1>6, CallKeeps

(* p += f(): the object is p's alone from here on.                         *)
LEMMA CallCompoundStep ==
    ASSUME VarInv, NEW p \in Places, CallCompound(p)
    PROVE  VarInv'
  <1> DEFINE old == place[p]
  <1>1. /\ stranded' = stranded /\ MayCall /\ p \in Readable
        /\ want' = want /\ doubt' = doubt
    BY DEF CallCompound, Step
  <1>2. PICK b \in IF IsShared(old) THEN Fresh ELSE {old} :
          /\ place' = [place EXCEPT ![p] = b]
          /\ pending' = Append(Touched(pending, {p}, {}),
                               Waiting("compound", p, b, want[p], p \notin doubt))
          /\ pointer' = b
          /\ Keep([datum EXCEPT ![b] = datum[old]], handed \ {b})
    BY DEF CallCompound
  <1> DEFINE d == [datum EXCEPT ![b] = datum[old]]
             h == handed \ {b}
             w == Waiting("compound", p, b, want[p], p \notin doubt)
             outer == Touched(pending, {p}, {})
  <1>3. /\ old \in Numbers /\ datum[old] \in Data0 /\ want[p] \in Data0
        /\ p \notin doubt => datum[old] = want[p]
    BY <1>1, TypesAre
  <1>4. /\ b \in Objects /\ \A q \in Places : place[q] = b => q = p
        /\ \A i \in 1 .. Len(pending) : pending[i].operand # b
    <2>1. CASE IsShared(old)
      <3>1. b \in Fresh
        BY <1>2, <2>1
      <3> QED BY <3>1, TypesAre, FreshIsFree
    <2>2. CASE ~IsShared(old)
      <3>1. b = old
        BY <1>2, <2>2
      <3> QED BY <3>1, <2>2, TypesAre, OwnObject
    <2> QED BY <2>1, <2>2
  <1>5. b \in Numbers /\ b \in AllObjects /\ b # IntConst
    BY <1>4, TheObjects
  <1>6. /\ d \in [AllObjects -> Data0] /\ d[IntConst] = Literal /\ d[b] = datum[old]
        /\ \A o \in Numbers : o # b => d[o] = datum[o]
    BY <1>3, <1>5, TypesAre, TheObjects
  <1>7. /\ h \in SUBSET AllObjects /\ b \notin h
        /\ \A o \in Numbers : o # b => (o \in h <=> o \in handed)
    BY TypesAre
  <1>8. /\ place' \in [Places -> Numbers \cup {Cell}] /\ place'[p] = b
        /\ \A q \in Places : q # p => place'[q] = place[q] /\ place[q] # b
    BY <1>2, <1>4, <1>5, TypesAre
  <1>9. /\ w \in Waitings /\ w.form = "compound" /\ w.target = p /\ w.operand = b
        /\ w.base = want[p] /\ w.sure = (p \notin doubt)
    BY <1>3, <1>5 DEF Waiting, Waitings
  <1>10. outer \in Seq(Waitings) /\ AllBecome(pending, outer, {p}, {})
    BY TypesAre, TouchedBecomes
  <1>11. pending' = Append(outer, w) /\ Keep(d, h)
    BY <1>2
  <1> HIDE DEF old, d, h, w, outer
  <1>12. /\ pending' \in Seq(Waitings) /\ Len(pending') = Len(outer) + 1
         /\ Len(outer) = Len(pending) /\ Len(pending) \in Nat
         /\ pending'[Len(outer) + 1] = w
         /\ \A i \in 1 .. Len(outer) : pending'[i] = outer[i]
    <2>1. Len(outer) = Len(pending) /\ Len(pending) \in Nat /\ pending \in Seq(Waitings)
      BY <1>10, TypesAre, LenProperties DEF AllBecome
    <2> QED BY <1>9, <1>10, <1>11, <2>1, AppendProperties
  <1>13. /\ datum' \in [AllObjects -> Data0] /\ datum'[IntConst] = Literal
         /\ handed' \in SUBSET AllObjects /\ handed' \subseteq h
         /\ \A q \in Places : place'[q] \in Numbers =>
               /\ datum'[place'[q]] = d[place'[q]]
               /\ place'[q] \in h => place'[q] \in handed'
         /\ \A i \in 1 .. Len(pending') : pending'[i].operand \in Numbers =>
               /\ datum'[pending'[i].operand] = d[pending'[i].operand]
               /\ pending'[i].operand \in h => pending'[i].operand \in handed'
    BY <1>6, <1>7, <1>8, <1>11, <1>12, KeepsUsed
  <1>14. WaitersHold(outer, place', datum', handed')
    <2>1. ASSUME NEW i \in 1 .. Len(pending), pending[i].operand \in Numbers
          PROVE  /\ datum'[pending[i].operand] = datum[pending[i].operand]
                 /\ pending[i].operand \in handed => pending[i].operand \in handed'
                 /\ pending[i].operand # b
      <3>1. i \in 1 .. Len(pending') /\ pending'[i] = outer[i]
        BY <1>12
      <3>2. pending'[i].operand = pending[i].operand
        BY <1>10, <3>1 DEF AllBecome, Becomes
      <3>3. pending[i].operand # b
        BY <1>4
      <3> QED BY <1>6, <1>7, <1>13, <2>1, <3>1, <3>2, <3>3
    <2>2. \A i \in 1 .. Len(pending) :
              pending[i].form = "compound" => pending[i].operand \in Numbers
      BY TypesAre, OutersHold
    <2>3. NumbersKept(pending, {}, datum, datum')
      BY <2>1 DEF NumbersKept
    <2>4. OthersKept({p}, place, place')
      BY <1>8 DEF OthersKept
    <2>5. OperandsKept(pending, {p}, place', handed, handed')
      BY <1>8, <2>1, <2>2 DEF OperandsKept
    <2>6. {p} \in SUBSET Places /\ pending \in Seq(Waitings)
          /\ WaitersHold(pending, place, datum, handed)
      BY TypesAre DEF ValuesInv, WaitersInv
    <2> QED BY <1>10, <2>3, <2>4, <2>5, <2>6, WaitersKeep
  <1>15. datum'[b] = datum[old]
    BY <1>5, <1>6, <1>8, <1>13
  <1>16. WaiterHolds(w, place', datum', handed')
    BY <1>3, <1>5, <1>8, <1>9, <1>15 DEF WaiterHolds
  <1>17. WaitersInv'
    <2>1. WaitersHold(Append(outer, w), place', datum', handed')
      BY <1>9, <1>10, <1>14, <1>16, WaitersAppend
    <2> QED BY <1>11, <2>1 DEF WaitersInv
  <1>18. ValueTypes'
    <2>1. pointer' \in Numbers \cup {None}
      BY <1>2, <1>5
    <2> QED BY <1>1, <1>8, <1>12, <1>13, <2>1, TypesAre DEF ValueTypes
  <1>19. ReadsLastWrite'
    <2> SUFFICES ASSUME NEW q \in Places, q \notin doubt'
                 PROVE  place'[q] # Cell /\ datum'[place'[q]] = want'[q]
      BY DEF ReadsLastWrite
    <2>1. place[q] \in Numbers /\ datum[place[q]] = want[q]
      BY <1>1, TypesAre
    <2>2. CASE q = p
      BY <2>2, <1>1, <1>3, <1>5, <1>8, <1>15, TheObjects
    <2>3. CASE q # p
      BY <2>1, <2>3, <1>1, <1>6, <1>8, <1>13, TheObjects
    <2> QED BY <2>2, <2>3
  <1>20. NumbersAreNotShared'
    <2> SUFFICES ASSUME NEW q \in Places, place'[q] \in Objects \cup {IntConst, CharConst}
                 PROVE  \/ place'[q] \in handed'
                        \/ /\ place'[q] \in Objects
                           /\ \A r \in Places : place'[r] = place'[q] => q = r
      BY DEF NumbersAreNotShared
    <2>1. CASE q = p
      BY <2>1, <1>4, <1>8
    <2>2. CASE q # p
      <3>1. place'[q] = place[q] /\ place[q] # b /\ place[q] \in Numbers
        BY <2>2, <1>8, TheObjects
      <3>2. CASE place[q] \in handed
        BY <3>1, <3>2, <1>7, <1>13
      <3>3. CASE place[q] \notin handed
        <4>1. place[q] \in Objects /\ \A r \in Places : place[r] = place[q] => r = q
          BY <3>1, <3>3, TypesAre
        <4> QED BY <3>1, <4>1, <1>8
      <3> QED BY <3>2, <3>3
    <2> QED BY <2>1, <2>2
  <1>21. StackTypes'
    <2>1. Len(pending) < MaxPending /\ MaxPending \in Nat
      BY <1>1, TheObjects DEF MayCall
    <2>2. Len(pending') <= MaxPending
      BY <1>12, <2>1
    <2> QED BY <1>1, <2>2, TypesAre DEF StackTypes
  <1> QED BY <1>17, <1>18, <1>19, <1>20, <1>21 DEF VarInv, ValuesInv

(* What comes back is a number of an object, or one that the caller makes, *)
(* and it is what it means where it is sure.                               *)
LEMMA ResultsAre ==
    ASSUME VarInv, NEW kind, NEW r \in Results(kind)
    PROVE  /\ r.object \in Numbers \cup {None} /\ r.number \in Data0 /\ r.meant \in Data0
           /\ r.sure \in BOOLEAN /\ (r.sure => r.number = r.meant)
           /\ r.object # None => datum[r.object] = r.number
  <1>1. CASE r = Result(None, Plus(Literal, 1), Plus(Literal, 1), TRUE)
    <2>1. Plus(Literal, 1) \in Data0
      BY TheObjects, PlusIsDatum
    <2> QED BY <1>1, <2>1 DEF Result
  <1>2. CASE r = Result(None, datum[IntConst], Literal, TRUE)
    BY <1>2, TypesAre, TheObjects DEF Result
  <1>3. CASE r = Result(CharConst, datum[CharConst], Literal, datum[CharConst] = Literal)
    BY <1>3, TypesAre, TheObjects DEF Result
  <1>4. ASSUME NEW q \in Readable, r = Result(place[q], datum[place[q]], want[q], q \notin doubt)
        PROVE  /\ r.object \in Numbers \cup {None} /\ r.number \in Data0 /\ r.meant \in Data0
               /\ r.sure \in BOOLEAN /\ (r.sure => r.number = r.meant)
               /\ r.object # None => datum[r.object] = r.number
    <2>1. /\ place[q] \in Numbers /\ datum[place[q]] \in Data0 /\ want[q] \in Data0
          /\ q \notin doubt => datum[place[q]] = want[q]
      BY TypesAre
    <2> QED BY <1>4, <2>1 DEF Result
  <1>5. \/ r = Result(None, Plus(Literal, 1), Plus(Literal, 1), TRUE)
        \/ r = Result(None, datum[IntConst], Literal, TRUE)
        \/ r = Result(CharConst, datum[CharConst], Literal, datum[CharConst] = Literal)
        \/ \E q \in Readable : r = Result(place[q], datum[place[q]], want[q], q \notin doubt)
    BY DEF Results
  <1> QED BY <1>1, <1>2, <1>3, <1>4, <1>5

(* A call returns to the innermost statement.                              *)
LEMMA ReturnStep ==
    ASSUME VarInv, Return
    PROVE  VarInv'
  <1> DEFINE kind == IF Caller.form = "assign" THEN Kind(Caller.target) ELSE "Int"
  <1>1. /\ pending # <<>> /\ stranded' = {s \in stranded : s.depth < Len(pending)}
        /\ \E r \in Results(kind) :
              ReturnToAssign(r) \/ ReturnToBinary(r) \/ ReturnToCompound(r)
    BY DEF Return
  <1> HIDE DEF kind
  <1>2. PICK r \in Results(kind) :
            ReturnToAssign(r) \/ ReturnToBinary(r) \/ ReturnToCompound(r)
    BY <1>1
  <1>3. /\ r.object \in Numbers \cup {None} /\ r.number \in Data0 /\ r.meant \in Data0
        /\ r.sure \in BOOLEAN /\ (r.sure => r.number = r.meant)
        /\ r.object # None => datum[r.object] = r.number
    BY ResultsAre
  <1>4. /\ Outer(Waiters) /\ Caller \in Waitings /\ Len(Waiters) = Len(pending) - 1
        /\ Len(pending) \in Nat \ {0} /\ Caller = pending[Len(pending)]
    BY <1>1, TypesAre, OutersAre
  <1>5. WaiterHolds(Caller, place, datum, handed)
    <2>1. Len(pending) \in 1 .. Len(pending)
      BY <1>4
    <2> QED BY <1>4, <2>1, TypesAre DEF ValuesInv, WaitersInv, WaitersHold
  <1>6. /\ Caller.target \in Places /\ Caller.base \in Data0 /\ Caller.sure \in BOOLEAN
        /\ Caller.touched \in BOOLEAN
        /\ Caller.form # "assign" => Caller.operand \in Numbers
                                     /\ datum[Caller.operand] \in Data0
    BY <1>4, <1>5, TypesAre, TheObjects DEF Waitings, WaiterHolds
  <1> DEFINE p == Caller.target
             b == Caller.operand
  <1>7. ValuesInv' /\ Len(pending') = Len(Waiters)
    <2>1. CASE ReturnToAssign(r)
      <3>1. pending' = Touched(Waiters, {p}, {})
        BY <2>1 DEF ReturnToAssign
      <3>2. CASE r.object = None
        <4>1. AssignNew(p, r.number, r.meant, r.sure = TRUE)
          <5>1. AssignNew(p, r.number, r.meant, r.sure) /\ r.sure = (r.sure = TRUE)
            BY <2>1, <3>2, <1>3 DEF ReturnToAssign
          <5> QED BY <5>1
        <4> QED BY <1>3, <1>4, <1>6, <3>1, <4>1, TypesAre, AssignNewKeeps
      <3>3. CASE r.object # None
        <4>1. /\ AssignShared(p, r.object, r.meant, r.sure = TRUE, TRUE)
              /\ r.object \in Numbers /\ (r.sure = TRUE => datum[r.object] = r.meant)
          <5>1. /\ AssignShared(p, r.object, r.meant, r.sure, TRUE)
                /\ r.sure = (r.sure = TRUE)
            BY <2>1, <3>3, <1>3 DEF ReturnToAssign
          <5> QED BY <3>3, <1>3, <5>1
        <4> QED BY <1>3, <1>4, <1>6, <3>1, <4>1, TypesAre, AssignSharedKeeps
      <3> QED BY <3>2, <3>3
    <2>2. CASE ReturnToBinary(r)
      <3> DEFINE k == Plus(datum[b], r.number)
                 n == Plus(Caller.base, r.meant)
                 sure == Caller.sure /\ r.sure /\ ~Caller.touched
      <3>1. /\ Caller.form = "binary" /\ pending' = Touched(Waiters, {p}, {})
            /\ AssignNew(p, k, n, sure)
        BY <2>2 DEF ReturnToBinary
      <3>2. k \in Data0 /\ n \in Data0
        BY <3>1, <1>3, <1>6, PlusIsDatum
      <3>3. sure \in BOOLEAN /\ (sure => k = n)
        BY <3>1, <1>3, <1>5, <1>6 DEF WaiterHolds
      <3> HIDE DEF k, n
      <3> QED BY <1>4, <1>6, <3>1, <3>2, <3>3, TypesAre, AssignNewKeeps
    <2>3. CASE ReturnToCompound(r)
      <3> DEFINE through == Through(b)
                 k == Plus(datum[through], r.number)
                 n == Plus(Caller.base, r.meant)
                 D == IF Caller.sure /\ r.sure /\ ~Caller.touched THEN doubt \ {p}
                      ELSE doubt \cup {p}
      <3>1. /\ Caller.form = "compound" /\ pending' = Touched(Waiters, {}, {b, through})
            /\ pointer' = None /\ want' = [want EXCEPT ![p] = n] /\ place' = place
            /\ doubt' = D \cup Sharers(p, b) \cup Misled(b, through)
            /\ Data([datum EXCEPT ![b] = k, ![through] = k], {})
        BY <2>3 DEF ReturnToCompound
      <3>2. b \in Numbers /\ through \in Numbers /\ datum[through] \in Data0
        <4>1. b \in Numbers /\ through \in Numbers
          BY <3>1, <1>6, TypesAre, TheObjects DEF Through
        <4> QED BY <4>1, TypesAre, TheObjects
      <3>3. k \in Data0 /\ n \in Data0
        BY <3>2, <1>3, <1>6, PlusIsDatum
      <3>4. D \in SUBSET Places /\ doubt \ {p} \subseteq D
        BY <1>6, TypesAre
      <3>5. p \notin D => Caller.sure /\ r.sure /\ ~Caller.touched
        OBVIOUS
      <3>6. p \notin D => place[p] = b /\ (through = b => k = n)
        BY <3>1, <3>5, <1>3, <1>5 DEF WaiterHolds
      <3>7. b \notin handed => \A q \in Places : place[q] = b => q = p
        BY <3>1, <1>5 DEF WaiterHolds
      <3> HIDE DEF k, n, D, through
      <3>8. Writes(p, b, through, k, n, D, Waiters)
        BY <3>1, <3>4, <3>6, <3>7 DEF Writes
      <3> QED BY <1>4, <1>6, <3>2, <3>3, <3>8, TypesAre, WriteKeeps
    <2> QED BY <1>2, <2>1, <2>2, <2>3
  <1>8. StackTypes'
    <2>1. IsFiniteSet(stranded') /\ stranded' \subseteq stranded
      <3>1. stranded' \in SUBSET stranded
        BY <1>1
      <3> QED BY <3>1, TypesAre, FS_Subset DEF StackTypes
    <2>2. Len(pending') <= MaxPending
      BY <1>4, <1>7, TypesAre, TheObjects DEF StackTypes
    <2> QED BY <2>1, <2>2, TypesAre DEF StackTypes
  <1> QED BY <1>7, <1>8 DEF VarInv

(* A callee raises: the statements of the frames that end are given up.    *)
LEMMA RaiseStep ==
    ASSUME VarInv, Raise
    PROVE  VarInv'
  <1>1. /\ UNCHANGED <<place, pointer, want, doubt>> /\ Keep(datum, handed)
        /\ \E n \in 0 .. Len(pending) - 1, here \in BOOLEAN :
              LET b == pending[n + 1].operand
              IN  /\ here => b # None
                  /\ pending' = SubSeq(pending, 1, n)
                  /\ stranded' = {s \in stranded : s.depth <= n}
                                     \cup IF here THEN {[object |-> b, depth |-> n]} ELSE {}
    <2>1. handed \cup {} = handed
      OBVIOUS
    <2> QED BY <2>1 DEF Raise, Data
  <1>2. PICK n \in 0 .. Len(pending) - 1, here \in BOOLEAN :
            LET b == pending[n + 1].operand
            IN  /\ here => b # None
                /\ pending' = SubSeq(pending, 1, n)
                /\ stranded' = {s \in stranded : s.depth <= n}
                                   \cup IF here THEN {[object |-> b, depth |-> n]} ELSE {}
    BY <1>1
  <1> DEFINE b == pending[n + 1].operand
  <1>3. /\ Len(pending) \in Nat /\ n \in Nat /\ n + 1 \in 1 .. Len(pending)
        /\ Len(pending) <= MaxPending /\ MaxPending \in Nat
        /\ n \in 0 .. Len(pending) /\ n \in 0 .. MaxPending - 1
    BY TypesAre, TheObjects, LenProperties DEF StackTypes
  <1>4. b \in Numbers \cup {None}
    <2>1. pending[n + 1] \in Waitings
      BY <1>3, TypesAre, ElementOfSeq
    <2> QED BY <2>1 DEF Waitings
  <1>5. /\ pending' \in Seq(Waitings) /\ Len(pending') = n
        /\ WaitersHold(pending', place, datum, handed)
    BY <1>2, <1>3, TypesAre, WaitersPrefix DEF ValuesInv, WaitersInv
  <1>6. place' = place /\ place' \in [Places -> Numbers \cup {Cell}]
    BY <1>1, TypesAre
  <1>7. /\ datum' \in [AllObjects -> Data0] /\ datum'[IntConst] = Literal
        /\ handed' \in SUBSET AllObjects /\ handed' \subseteq handed
        /\ \A q \in Places : place[q] \in Numbers =>
              /\ datum'[place[q]] = datum[place[q]]
              /\ place[q] \in handed => place[q] \in handed'
        /\ \A i \in 1 .. Len(pending') : pending'[i].operand \in Numbers =>
              /\ datum'[pending'[i].operand] = datum[pending'[i].operand]
              /\ pending'[i].operand \in handed => pending'[i].operand \in handed'
    BY <1>1, <1>5, <1>6, TypesAre, KeepsUsed
  <1>8. WaitersInv'
    <2> SUFFICES ASSUME NEW i \in 1 .. Len(pending')
                 PROVE  WaiterHolds(pending'[i], place', datum', handed')
      BY DEF WaitersInv, WaitersHold
    <2>1. WaiterHolds(pending'[i], place, datum, handed)
      BY <1>5 DEF WaitersHold
    <2> QED BY <2>1, <1>6, <1>7 DEF WaiterHolds
  <1>9. ValueTypes'
    BY <1>1, <1>5, <1>6, <1>7, TypesAre DEF ValueTypes
  <1>10. ReadsLastWrite'
    BY <1>1, <1>7, TypesAre, TheObjects DEF ReadsLastWrite
  <1>11. NumbersAreNotShared'
    <2> SUFFICES ASSUME NEW q \in Places, place'[q] \in Objects \cup {IntConst, CharConst}
                 PROVE  \/ place'[q] \in handed'
                        \/ /\ place'[q] \in Objects
                           /\ \A r \in Places : place'[r] = place'[q] => q = r
      BY DEF NumbersAreNotShared
    <2>1. place[q] \in Numbers
      BY <1>6, TheObjects
    <2>2. CASE place[q] \in handed
      BY <2>1, <2>2, <1>6, <1>7
    <2>3. CASE place[q] \notin handed
      <3>1. place[q] \in Objects /\ \A r \in Places : place[r] = place[q] => r = q
        BY <2>1, <2>3, TypesAre
      <3> QED BY <3>1, <1>6
    <2> QED BY <2>2, <2>3
  <1>12. StackTypes'
    <2> DEFINE kept == {s \in stranded : s.depth <= n}
               left == IF here THEN {[object |-> b, depth |-> n]} ELSE {}
    <2>1. stranded' = kept \cup left /\ (here => b # None)
      BY <1>2
    <2>2. kept \in SUBSET stranded
      OBVIOUS
    <2>3. IsFiniteSet(kept)
      BY <2>2, TypesAre, FS_Subset DEF StackTypes
    <2>4. IsFiniteSet(left)
      BY FS_EmptySet, FS_Singleton
    <2>5. \A s \in left : s.object \in AllObjects /\ s.depth \in 0 .. MaxPending - 1
      BY <2>1, <1>3, <1>4, TheObjects
    <2>6. \A s \in kept : s.object \in AllObjects /\ s.depth \in 0 .. MaxPending - 1
      BY TypesAre DEF StackTypes
    <2> HIDE DEF kept, left
    <2>7. IsFiniteSet(stranded')
      BY <2>1, <2>3, <2>4, FS_Union
    <2>8. Len(pending') <= MaxPending
      BY <1>3, <1>5
    <2> QED BY <2>1, <2>5, <2>6, <2>7, <2>8 DEF StackTypes
  <1> QED BY <1>8, <1>9, <1>10, <1>11, <1>12 DEF VarInv, ValuesInv

(***************************************************************************)
(* The theorems.                                                           *)
(***************************************************************************)
(* At the start every variable has an object of its own with the literal.  *)
LEMMA VarInvAtStart ==
    ASSUME Init
    PROVE  VarInv
  <1> DEFINE n == Cardinality(Places)
             all == SetToSeq(Places)
  <1>1. n \in Nat /\ ExistsBijection(1 .. n, Places) /\ IsFiniteSet(Places)
    BY VariablesAssumption, FS_CardinalityType
  <1>2. \E f \in [1 .. n -> Places] : IsInjective(f)
    <2>1. PICK f \in Bijection(1 .. n, Places) : TRUE
      BY <1>1 DEF ExistsBijection
    <2>2. f \in [1 .. n -> Places] /\ \A i, j \in 1 .. n : f[i] = f[j] => i = j
      BY <2>1 DEF Bijection, Injection, IsInjective
    <2> QED BY <2>2 DEF IsInjective
  <1>3. all \in [1 .. n -> Places] /\ IsInjective(all)
    BY <1>2 DEF SetToSeq
  <1> HIDE DEF all
  <1>4. \A p \in Places : \E i \in 1 .. n : all[i] = p
    <2>1. all \in Injection(1 .. n, Places)
      BY <1>3 DEF Injection, IsInjective
    <2>2. IsFiniteSet(1 .. n) /\ Cardinality(1 .. n) = n
      BY <1>1, FS_Interval
    <2>3. all \in Surjection(1 .. n, Places)
      BY <1>1, <2>1, <2>2, FS_Injection
    <2> QED BY <2>3 DEF Surjection
  <1>5. \A p \in Places : place[p] \in 1 .. n /\ all[place[p]] = p
    <2>1. \A p \in Places : place[p] = CHOOSE i \in 1 .. n : all[i] = p
      BY DEF Init, all
    <2> QED BY <1>4, <2>1
  <1>6. n <= NumObjects /\ 1 .. n \subseteq Objects
    BY <1>1, VariablesAssumption DEF Objects
  <1>7. /\ place \in [Places -> Numbers \cup {Cell}]
        /\ \A p \in Places : place[p] \in Objects
        /\ \A p, q \in Places : place[p] = place[q] => p = q
    <2>1. place = [p \in Places |-> place[p]]
      BY DEF Init
    <2>2. \A p \in Places : place[p] \in Objects /\ place[p] \in Numbers
      BY <1>5, <1>6, TheObjects
    <2> QED BY <1>5, <2>1, <2>2
  <1>8. /\ datum \in [AllObjects -> Data0] /\ datum[IntConst] = Literal
        /\ \A p \in Places : datum[place[p]] = Literal
    <2>1. datum = [b \in AllObjects |-> IF b <= n \/ b \notin Objects THEN Literal ELSE 0]
      BY DEF Init
    <2>2. \A p \in Places : place[p] <= n /\ place[p] \in AllObjects
      BY <1>1, <1>5, <1>7, TheObjects
    <2> QED BY <2>1, <2>2, TheObjects
  <1>9. /\ pending = <<>> /\ Len(pending) = 0 /\ pending \in Seq(Waitings)
    BY DEF Init
  <1>10. /\ want \in [Places -> Data0] /\ \A p \in Places : want[p] = Literal
    BY TheObjects DEF Init
  <1>11. ValueTypes
    BY <1>7, <1>8, <1>9, <1>10, TheObjects DEF ValueTypes, Init
  <1>12. StackTypes
    BY <1>9, TheObjects, FS_EmptySet DEF StackTypes, Init
  <1>13. WaitersInv
    BY <1>9 DEF WaitersInv, WaitersHold
  <1>14. ReadsLastWrite
    BY <1>7, <1>8, <1>10, TheObjects DEF ReadsLastWrite
  <1>15. NumbersAreNotShared
    BY <1>7 DEF NumbersAreNotShared
  <1> QED BY <1>11, <1>12, <1>13, <1>14, <1>15 DEF VarInv, ValuesInv

(* Every statement, call, return and exception preserves the invariant.    *)
THEOREM VariablesInvariant == Spec => []VarInv
  <1>1. VarInv /\ [Next]_vars => VarInv'
    <2> SUFFICES ASSUME VarInv, [Next]_vars PROVE VarInv'
      OBVIOUS
    <2>1. CASE UNCHANGED vars
      BY <2>1 DEF vars, VarInv, ValuesInv, ValueTypes, StackTypes, WaitersInv,
         ReadsLastWrite, NumbersAreNotShared
    <2>2. ASSUME NEW p \in Places,
                 AssignConst(p) \/ FastCompound(p) \/ Increment(p)
                     \/ CallAssign(p) \/ CallCompound(p)
          PROVE  VarInv'
      BY <2>2, AssignConstStep, FastCompoundStep, IncrementStep, CallAssignStep,
         CallCompoundStep
    <2>3. ASSUME NEW p \in Places, NEW q \in Places,
                 AssignVar(p, q) \/ AssignNested(p, q) \/ AssignSum(p, q)
                     \/ AssignIncremented(p, q) \/ CallBinary(p, q)
          PROVE  VarInv'
      BY <2>3, AssignVarStep, AssignNestedStep, AssignSumStep, AssignIncrementedStep,
         CallBinaryStep
    <2>4. CASE Return
      BY <2>4, ReturnStep
    <2>5. CASE Raise
      BY <2>5, RaiseStep
    <2> QED BY <2>1, <2>2, <2>3, <2>4, <2>5 DEF Next
  <1> QED BY <1>1, VarInvAtStart, PTL DEF Spec

(* Whatever a program does to other variables, by itself or in what it     *)
(* calls, and whatever is raised on the way: a variable that no construct  *)
(* known to share, to lose or to misplace a write has reached reads as     *)
(* what was last assigned to it.                                           *)
THEOREM VariablesAreValues == Spec => []ReadsLastWrite
  <1>1. VarInv => ReadsLastWrite
    BY DEF VarInv, ValuesInv
  <1> QED BY <1>1, VariablesInvariant, PTL

(* No two variables hold one mutable object, and none holds an object of   *)
(* the constant pool, unless a construct known to has handed it over.      *)
THEOREM NumbersHaveOneHolder == Spec => []NumbersAreNotShared
  <1>1. VarInv => NumbersAreNotShared
    BY DEF VarInv, ValuesInv
  <1> QED BY <1>1, VariablesInvariant, PTL

(* The types the model declares.                                           *)
THEOREM VariablesTypes == Spec => []TypeOK
  <1>1. VarInv => TypeOK
    <2> SUFFICES ASSUME VarInv PROVE TypeOK
      OBVIOUS
    <2>1. \A s \in stranded : s.object \in AllObjects /\ s.depth < MaxPending
      BY TypesAre, TheObjects DEF StackTypes
    <2>2. /\ place \in [Places -> AllObjects \cup {Cell}]
          /\ pointer \in AllObjects \cup {None} /\ Len(pending) <= MaxPending
      BY TypesAre, TheObjects DEF StackTypes
    <2> QED BY <2>1, <2>2, TypesAre DEF TypeOK, Data0
  <1> QED BY <1>1, VariablesInvariant, PTL

(***************************************************************************)
(* Which function a call means.                                            *)
(***************************************************************************)
Types == [class : Call!Declared, of : Call!Declared]

(* What Scan adds for one parameter.                                       *)
Sums0 == [takes : BOOLEAN, score : Nat]
Added(f, c, sum, p) ==
    LET k == Call!Assigned(f, c)[p]
        points == Call!Points(c.arguments[k], f.parameters[p], Call!Named(c))
    IN  IF ~sum.takes \/ k = 0 THEN sum
        ELSE IF points < 0 THEN [sum EXCEPT !.takes = FALSE]
        ELSE [sum EXCEPT !.score = @ + points]

(* An argument has at least -1 and at most 3 points.                       *)
LEMMA PointsAre ==
    ASSUME NEW a, NEW p, NEW named
    PROVE  Call!Points(a, p, named) \in -1 .. 3
  BY DEF Call!Points

(* One more parameter leaves a sum.                                        *)
LEMMA AddedType ==
    ASSUME NEW f, NEW c, NEW sum \in Sums0, NEW p
    PROVE  Added(f, c, sum, p) \in Sums0
  <1> DEFINE k == Call!Assigned(f, c)[p]
             points == Call!Points(c.arguments[k], f.parameters[p], Call!Named(c))
  <1>1. points \in -1 .. 3
    BY PointsAre
  <1> HIDE DEF k, points
  <1>2. points < 0 \/ points \in Nat
    BY <1>1
  <1>3. [sum EXCEPT !.takes = FALSE] \in Sums0
    BY DEF Sums0
  <1>4. points \in Nat => [sum EXCEPT !.score = @ + points] \in Sums0
    BY DEF Sums0
  <1> QED BY <1>2, <1>3, <1>4 DEF Added, k, points

(* The sums Scan goes through, parameter by parameter.                     *)
ScanRun(run, f, c) ==
    /\ run[0] = [takes |-> TRUE, score |-> 0]
    /\ \A p \in 1 .. Len(f.parameters) : run[p] = Added(f, c, run[p - 1], p)
    /\ run[Len(f.parameters)] = Call!Scan(f, c)
(* A scan goes through such sums.                                          *)
LEMMA ScanRuns ==
    ASSUME NEW f, NEW c, f.parameters \in Seq(Call!Parameters)
    PROVE  \E run : ScanRun(run, f, c)
  <1> DEFINE n == Len(f.parameters)
             S == DOMAIN f.parameters
             seq == [p \in DOMAIN f.parameters |-> p]
             base == [takes |-> TRUE, score |-> 0]
             Is(k) == k = [s \in SUBSET DOMAIN seq |->
                              IF s = {} THEN base
                              ELSE Added(f, c, k[s \ {Max(s)}], seq[Max(s)])]
             h == CHOOSE k : Is(k)
  <1>1. Call!Scan(f, c) = h[DOMAIN seq]
    BY DEF Call!Scan, Call!FoldLeft, Call!MapThenFoldSet, Call!Max, Max, Added
  <1>2. n \in Nat /\ S = 1 .. n /\ DOMAIN seq = S
    BY LenProperties
  <1>3. base \in Sums0
    BY DEF Sums0
  <1> DEFINE step == [p \in S |-> [v \in Sums0 |-> Added(f, c, v, p)]]
  <1>4. \A p \in 1 .. n, v \in Sums0 : step[p][v] \in Sums0 /\ step[p][v] = Added(f, c, v, p)
    BY <1>2, AddedType
  <1>5. PICK g : LeftRecursive(g, n, Sums0, base, step)
    <2>1. \A p \in 1 .. n, v \in Sums0 : step[p][v] \in Sums0
      BY <1>4
    <2> HIDE DEF base, step, n
    <2> QED BY <1>2, <1>3, <2>1, LeftRecursion
  <1>6. Is(g)
    <2>1. ASSUME NEW s \in SUBSET S
          PROVE  g[s] = IF s = {} THEN base ELSE Added(f, c, g[s \ {Max(s)}], seq[Max(s)])
      <3>1. CASE s = {}
        <4> HIDE DEF base, step
        <4> QED BY <1>2, <1>5, <3>1 DEF LeftRecursive
      <3>2. CASE s # {}
        <4>1. Max(s) \in s /\ Max(s) \in 1 .. n /\ s \ {Max(s)} \in SUBSET (1 .. n)
          <5> HIDE DEF base, step, n
          <5> QED BY <1>2, <1>5, <3>2 DEF LeftRecursive
        <4>2. seq[Max(s)] = Max(s) /\ g[s \ {Max(s)}] \in Sums0
          <5>1. seq[Max(s)] = Max(s)
            BY <1>2, <4>1
          <5> QED BY <1>5, <4>1, <5>1 DEF LeftRecursive
        <4>3. g[s] = step[Max(s)][g[s \ {Max(s)}]]
          <5> HIDE DEF base, step
          <5> QED BY <1>2, <1>5, <3>2 DEF LeftRecursive
        <4> HIDE DEF base, step, seq
        <4> QED BY <1>4, <3>2, <4>1, <4>2, <4>3
      <3> QED BY <3>1, <3>2
    <2>2. g = [s \in SUBSET DOMAIN seq |-> g[s]]
      <3> HIDE DEF base, step, seq
      <3> QED BY <1>2, <1>5 DEF LeftRecursive
    <2> HIDE DEF base, step, seq, n, S
    <2> QED BY <1>2, <2>1, <2>2
  <1>7. Is(h)
    <2> HIDE DEF Is
    <2> QED BY <1>6
  <1>8. ASSUME NEW s \in SUBSET (1 .. n)
        PROVE  h[s] = IF s = {} THEN base ELSE Added(f, c, h[s \ {Max(s)}], seq[Max(s)])
    <2>1. h = [t \in SUBSET DOMAIN seq |->
                  IF t = {} THEN base ELSE Added(f, c, h[t \ {Max(t)}], seq[Max(t)])]
      BY <1>7
    <2> HIDE DEF h, base, seq
    <2> QED BY <1>2, <2>1
  <1> HIDE DEF h, Is
  <1> DEFINE run == [p \in 0 .. n |-> h[1 .. p]]
  <1>9. run[0] = base
    <2>1. 0 \in 0 .. n /\ 1 .. 0 = {} /\ {} \in SUBSET (1 .. n)
      BY <1>2
    <2>2. h[{}] = base
      <3> HIDE DEF base, seq
      <3> QED BY <1>8, <2>1
    <2> HIDE DEF base, n
    <2> QED BY <2>1, <2>2
  <1>10. ASSUME NEW p \in 1 .. n
         PROVE  run[p] = Added(f, c, run[p - 1], p)
    <2>1. /\ 1 .. p \in SUBSET (1 .. n) /\ 1 .. p # {}
          /\ Max(1 .. p) = p /\ (1 .. p) \ {p} = 1 .. p - 1
      BY <1>2, UpToNumber
    <2>2. seq[p] = p
      BY <1>2
    <2>3. h[1 .. p] = Added(f, c, h[1 .. p - 1], p)
      <3> HIDE DEF base, seq
      <3> QED BY <1>8, <2>1, <2>2
    <2>4. p \in 0 .. n /\ p - 1 \in 0 .. n
      BY <1>2
    <2> HIDE DEF n
    <2> QED BY <2>3, <2>4
  <1>11. run[n] = Call!Scan(f, c)
    <2>1. n \in 0 .. n
      BY <1>2
    <2> HIDE DEF n, seq
    <2> QED BY <1>1, <1>2, <2>1
  <1> HIDE DEF run
  <1> QED BY <1>9, <1>10, <1>11 DEF ScanRun

(* A function that takes the arguments has points for each of them, and    *)
(* the sum of a scan is never negative.                                    *)
LEMMA ScanIs ==
    ASSUME NEW f, NEW c, f.parameters \in Seq(Call!Parameters)
    PROVE  /\ Call!Scan(f, c).takes \in BOOLEAN
           /\ Call!Scan(f, c).score \in Nat
           /\ Call!Scan(f, c).takes =>
                \A p \in 1 .. Len(f.parameters) :
                   LET k == Call!Assigned(f, c)[p]
                   IN  k # 0 => Call!Points(c.arguments[k], f.parameters[p], Call!Named(c)) >= 0
  <1> DEFINE n == Len(f.parameters)
             Suited(p) == LET k == Call!Assigned(f, c)[p]
                          IN  k # 0 => Call!Points(c.arguments[k], f.parameters[p], Call!Named(c)) >= 0
  <1>1. n \in Nat
    BY LenProperties
  <1>2. PICK run : ScanRun(run, f, c)
    BY ScanRuns
  <1> DEFINE Good(p) == run[p] \in Sums0 /\ (run[p].takes => \A q \in 1 .. p : Suited(q))
             Wrong == {p \in 0 .. n : ~Good(p)}
  <1>3. Good(0)
    <2>1. run[0] = [takes |-> TRUE, score |-> 0]
      BY <1>2 DEF ScanRun
    <2> QED BY <2>1 DEF Sums0
  <1>4. ASSUME NEW p \in 1 .. n, Good(p - 1)
        PROVE  Good(p)
    <2> DEFINE before == run[p - 1]
               k == Call!Assigned(f, c)[p]
               points == Call!Points(c.arguments[k], f.parameters[p], Call!Named(c))
    <2>1. run[p] = Added(f, c, before, p)
      BY <1>2 DEF ScanRun
    <2>2. before \in Sums0
      BY <1>4
    <2>3. run[p] \in Sums0
      <3> HIDE DEF before
      <3> QED BY <2>1, <2>2, AddedType
    <2>4. points \in -1 .. 3
      BY PointsAre
    <2>5. run[p].takes => before.takes /\ Suited(p)
      <3>1. /\ run[p] = IF ~before.takes \/ k = 0 THEN before
                        ELSE IF points < 0 THEN [before EXCEPT !.takes = FALSE]
                        ELSE [before EXCEPT !.score = @ + points]
        BY <2>1 DEF Added
      <3>2. Suited(p) <=> (k = 0 \/ points >= 0)
        OBVIOUS
      <3>3. [before EXCEPT !.takes = FALSE].takes = FALSE
        BY <2>2 DEF Sums0
      <3>4. [before EXCEPT !.score = @ + points].takes = before.takes
        BY <2>2 DEF Sums0
      <3> HIDE DEF Suited, before, k, points
      <3> QED BY <2>4, <3>1, <3>2, <3>3, <3>4
    <2>6. run[p].takes => \A q \in 1 .. p : Suited(q)
      <3> HIDE DEF Suited
      <3> SUFFICES ASSUME run[p].takes, NEW q \in 1 .. p PROVE Suited(q)
        OBVIOUS
      <3>1. q = p \/ q \in 1 .. p - 1
        OBVIOUS
      <3> QED BY <1>4, <2>5, <3>1
    <2> QED BY <2>3, <2>6
  <1> HIDE DEF Good
  <1>5. Good(n)
    <2> SUFFICES ASSUME ~Good(n) PROVE FALSE
      OBVIOUS
    <2>1. Wrong \in SUBSET Nat /\ n \in Wrong
      BY <1>1
    <2>2. PICK p \in Wrong : \A q \in Wrong : p <= q
      <3> HIDE DEF Wrong
      <3> QED BY <2>1, LeastNatural
    <2>3. p \in 0 .. n /\ ~Good(p) /\ p # 0
      BY <1>3, <2>2
    <2>4. p - 1 \in 0 .. n /\ p - 1 \notin Wrong
      <3>1. p - 1 \in 0 .. n /\ ~(p <= p - 1)
        BY <1>1, <2>3
      <3> HIDE DEF Wrong
      <3> QED BY <2>2, <3>1
    <2> QED BY <1>1, <1>4, <2>3, <2>4
  <1>6. run[n] = Call!Scan(f, c)
    BY <1>2 DEF ScanRun
  <1> QED BY <1>5, <1>6 DEF Good, Sums0

(***************************************************************************)
(* The search, for the functions fs and the call c.                        *)
(***************************************************************************)
SuitableIn(f, c) ==
    /\ f.static \/ c.form # "class"
    /\ ~f.later /\ ~f.generic
    /\ Call!Bindable(f, c)
    /\ Call!Scan(f, c).takes
PlacesOf(fs) == UNION {{<<k, i>> : i \in DOMAIN fs[k]} : k \in DOMAIN fs}
FunctionOf(fs, q) == fs[q[1]][q[2]]
SuitableOnes(S, fs, c) == {q \in S : SuitableIn(FunctionOf(fs, q), c)}
ScoreIn(fs, c, q) == Call!Scan(FunctionOf(fs, q), c).score
Seen(fs, a) ==
    {q \in PlacesOf(fs) : q[1] < a.list \/ (q[1] = a.list /\ q[2] < a.index)}

(* What is known of the places S: b is the best function there, and am     *)
(* says whether another suits as well.                                     *)
Summary(S, fs, c, b, am) ==
    /\ SuitableOnes(S, fs, c) = {} => b = Call!NoBest /\ ~am
    /\ SuitableOnes(S, fs, c) # {} =>
          \E q \in SuitableOnes(S, fs, c) :
             /\ b.function = FunctionOf(fs, q) /\ b.score = ScoreIn(fs, c, q)
             /\ \A r \in SuitableOnes(S, fs, c) : ScoreIn(fs, c, r) <= ScoreIn(fs, c, q)
             /\ am <=> \E r \in SuitableOnes(S, fs, c) :
                          r # q /\ ScoreIn(fs, c, r) = ScoreIn(fs, c, q)

FunctionLists == Seq(Seq(Call!Functions))
Positions == [list : Nat \ {0}, index : Nat \ {0}]

(* What there is at a place of the lists.                                  *)
LEMMA PlacesAre ==
    ASSUME NEW fs \in FunctionLists
    PROVE  /\ \A q \in PlacesOf(fs) :
                 /\ q = <<q[1], q[2]>>
                 /\ q[1] \in 1 .. Len(fs) /\ q[2] \in 1 .. Len(fs[q[1]])
                 /\ FunctionOf(fs, q) \in Call!Functions
           /\ \A k \in 1 .. Len(fs) : \A i \in 1 .. Len(fs[k]) : <<k, i>> \in PlacesOf(fs)
           /\ \A k \in 1 .. Len(fs) : fs[k] \in Seq(Call!Functions) /\ Len(fs[k]) \in Nat
           /\ Len(fs) \in Nat
  <1>1. Len(fs) \in Nat /\ DOMAIN fs = 1 .. Len(fs)
    BY LenProperties DEF FunctionLists
  <1>2. \A k \in 1 .. Len(fs) : fs[k] \in Seq(Call!Functions)
    BY ElementOfSeq DEF FunctionLists
  <1>3. \A k \in 1 .. Len(fs) : Len(fs[k]) \in Nat /\ DOMAIN fs[k] = 1 .. Len(fs[k])
    BY <1>2, LenProperties
  <1>4. ASSUME NEW q \in PlacesOf(fs)
        PROVE  /\ q = <<q[1], q[2]>>
               /\ q[1] \in 1 .. Len(fs) /\ q[2] \in 1 .. Len(fs[q[1]])
               /\ FunctionOf(fs, q) \in Call!Functions
    <2>1. PICK k \in DOMAIN fs : q \in {<<k, i>> : i \in DOMAIN fs[k]}
      BY DEF PlacesOf
    <2>2. PICK i \in DOMAIN fs[k] : q = <<k, i>>
      BY <2>1
    <2>3. q[1] = k /\ q[2] = i /\ k \in 1 .. Len(fs) /\ i \in 1 .. Len(fs[k])
      BY <1>1, <1>3, <2>2
    <2>4. fs[k][i] \in Call!Functions
      BY <1>2, <2>3, ElementOfSeq
    <2> QED BY <2>2, <2>3, <2>4 DEF FunctionOf
  <1>5. ASSUME NEW k \in 1 .. Len(fs), NEW i \in 1 .. Len(fs[k])
        PROVE  <<k, i>> \in PlacesOf(fs)
    BY <1>1, <1>3 DEF PlacesOf
  <1> QED BY <1>1, <1>2, <1>3, <1>4, <1>5

(* One more place has been looked at.                                      *)
LEMMA SeenOneMore ==
    ASSUME NEW fs \in FunctionLists, NEW a \in Positions,
           a.list <= Len(fs), a.index <= Len(fs[a.list])
    PROVE  LET p == <<a.list, a.index>>
           IN  /\ p \in PlacesOf(fs) /\ p \notin Seen(fs, a)
               /\ Seen(fs, [a EXCEPT !.index = @ + 1]) = Seen(fs, a) \cup {p}
               /\ [a EXCEPT !.index = @ + 1] \in Positions
  <1> DEFINE p == <<a.list, a.index>>
             b == [a EXCEPT !.index = @ + 1]
  <1>1. /\ a.list \in Nat \ {0} /\ a.index \in Nat \ {0}
        /\ b.list = a.list /\ b.index = a.index + 1 /\ b \in Positions
    BY DEF Positions
  <1>2. a.list \in 1 .. Len(fs) /\ Len(fs[a.list]) \in Nat /\ Len(fs) \in Nat
    BY <1>1, PlacesAre
  <1>3. p \in PlacesOf(fs)
    BY <1>1, <1>2, PlacesAre
  <1>4. p[1] = a.list /\ p[2] = a.index
    OBVIOUS
  <1>5. p \notin Seen(fs, a)
    BY <1>1, <1>4 DEF Seen
  <1>6. ASSUME NEW q \in PlacesOf(fs)
        PROVE  q \in Seen(fs, b) <=> q \in Seen(fs, a) \/ q = p
    <2>1. q = <<q[1], q[2]>> /\ q[1] \in Nat /\ q[2] \in Nat
      <3>1. q = <<q[1], q[2]>> /\ q[1] \in 1 .. Len(fs) /\ Len(fs[q[1]]) \in Nat /\ q[2] \in 1 .. Len(fs[q[1]])
        BY PlacesAre
      <3> QED BY <1>2, <3>1
    <2>2. q = p <=> q[1] = a.list /\ q[2] = a.index
      BY <2>1
    <2>3. q[2] < a.index + 1 <=> q[2] < a.index \/ q[2] = a.index
      BY <1>1, <2>1
    <2> HIDE DEF p, b
    <2> QED BY <1>1, <2>2, <2>3 DEF Seen
  <1>7. Seen(fs, b) = Seen(fs, a) \cup {p}
    <2> HIDE DEF p, b
    <2>1. Seen(fs, b) \subseteq PlacesOf(fs) /\ Seen(fs, a) \subseteq PlacesOf(fs)
      BY DEF Seen
    <2> QED BY <1>3, <1>6, <2>1
  <1> QED BY <1>1, <1>3, <1>5, <1>7

(* The end of a list, and of the last one.                                 *)
LEMMA SeenList ==
    ASSUME NEW fs \in FunctionLists, NEW a \in Positions,
           a.list <= Len(fs), a.index > Len(fs[a.list])
    PROVE  /\ Seen(fs, [list |-> a.list + 1, index |-> 1]) = Seen(fs, a)
           /\ [list |-> a.list + 1, index |-> 1] \in Positions
  <1> DEFINE b == [list |-> a.list + 1, index |-> 1]
  <1>1. /\ a.list \in Nat \ {0} /\ a.index \in Nat \ {0}
        /\ b.list = a.list + 1 /\ b.index = 1 /\ b \in Positions
    BY DEF Positions
  <1>2. a.list \in 1 .. Len(fs) /\ Len(fs[a.list]) \in Nat /\ Len(fs) \in Nat
    BY <1>1, PlacesAre
  <1>3. ASSUME NEW q \in PlacesOf(fs)
        PROVE  q \in Seen(fs, b) <=> q \in Seen(fs, a)
    <2>1. q[1] \in 1 .. Len(fs) /\ Len(fs[q[1]]) \in Nat /\ q[2] \in 1 .. Len(fs[q[1]])
      BY PlacesAre
    <2>2. q[1] \in Nat /\ q[2] \in Nat /\ ~(q[2] < 1)
      BY <1>2, <2>1
    <2>3. q[1] = a.list => q[2] < a.index
      BY <1>1, <1>2, <2>1
    <2>4. q[1] < a.list + 1 <=> q[1] < a.list \/ q[1] = a.list
      BY <1>1, <2>2
    <2> HIDE DEF b
    <2> QED BY <1>1, <2>2, <2>3, <2>4 DEF Seen
  <1>4. Seen(fs, b) = Seen(fs, a)
    <2> HIDE DEF b
    <2>1. Seen(fs, b) \subseteq PlacesOf(fs) /\ Seen(fs, a) \subseteq PlacesOf(fs)
      BY DEF Seen
    <2> QED BY <1>3, <2>1
  <1> QED BY <1>1, <1>4
(* At first nothing has been looked at.                                    *)
LEMMA SeenNone ==
    ASSUME NEW fs \in FunctionLists
    PROVE  Seen(fs, [list |-> 1, index |-> 1]) = {}
  <1> SUFFICES ASSUME NEW q \in Seen(fs, [list |-> 1, index |-> 1]) PROVE FALSE
    OBVIOUS
  <1>1. q \in PlacesOf(fs) /\ (q[1] < 1 \/ (q[1] = 1 /\ q[2] < 1))
    BY DEF Seen
  <1>2. Len(fs) \in Nat /\ q[1] \in 1 .. Len(fs) /\ Len(fs[q[1]]) \in Nat /\ q[2] \in 1 .. Len(fs[q[1]])
    BY <1>1, PlacesAre
  <1> QED BY <1>1, <1>2
(* Behind the last list everything has been.                               *)
LEMMA SeenAll ==
    ASSUME NEW fs \in FunctionLists, NEW a \in Positions, a.list > Len(fs)
    PROVE  Seen(fs, a) = PlacesOf(fs)
  <1>1. Len(fs) \in Nat /\ a.list \in Nat
    BY PlacesAre DEF Positions
  <1>2. ASSUME NEW q \in PlacesOf(fs) PROVE q[1] < a.list
    <2>1. q[1] \in 1 .. Len(fs)
      BY PlacesAre
    <2> QED BY <1>1, <2>1
  <1> QED BY <1>2 DEF Seen

(* A score is a natural number.                                            *)
LEMMA ScoresAre ==
    ASSUME NEW fs \in FunctionLists, NEW c, NEW q \in PlacesOf(fs)
    PROVE  ScoreIn(fs, c, q) \in Nat
  <1>1. FunctionOf(fs, q) \in Call!Functions
    BY PlacesAre
  <1>2. FunctionOf(fs, q).parameters \in Seq(Call!Parameters)
    BY <1>1 DEF Call!Functions
  <1> QED BY <1>2, ScanIs DEF ScoreIn

(* Nothing is known at first.                                              *)
LEMMA SummaryNone ==
    ASSUME NEW fs, NEW c
    PROVE  Summary({}, fs, c, Call!NoBest, FALSE)
  BY DEF Summary, SuitableOnes

(* A function that does not take the arguments changes nothing.            *)
LEMMA SummarySkip ==
    ASSUME NEW S, NEW fs, NEW c, NEW b, NEW am, NEW p,
           Summary(S, fs, c, b, am), ~SuitableIn(FunctionOf(fs, p), c)
    PROVE  Summary(S \cup {p}, fs, c, b, am)
  <1>1. SuitableOnes(S \cup {p}, fs, c) = SuitableOnes(S, fs, c)
    BY DEF SuitableOnes
  <1> QED BY <1>1 DEF Summary

(* One that does is compared with the best so far.                         *)
LEMMA SummaryAdd ==
    ASSUME NEW fs \in FunctionLists, NEW c, NEW S \in SUBSET PlacesOf(fs),
           NEW b \in [function : Call!Functions, score : Int], NEW am \in BOOLEAN,
           NEW p \in PlacesOf(fs), p \notin S,
           Summary(S, fs, c, b, am), SuitableIn(FunctionOf(fs, p), c),
           NEW total, total = ScoreIn(fs, c, p),
           NEW best2,
           best2 = IF total > b.score THEN [function |-> FunctionOf(fs, p), score |-> total] ELSE b,
           NEW am2 \in BOOLEAN, am2 <=> (am /\ total <= b.score) \/ total = b.score
    PROVE  Summary(S \cup {p}, fs, c, best2, am2)
  <1> DEFINE T == SuitableOnes(S, fs, c)
             U == SuitableOnes(S \cup {p}, fs, c)
             fresh == [function |-> FunctionOf(fs, p), score |-> total]
             Score(q) == ScoreIn(fs, c, q)
  <1>1. U = T \cup {p} /\ p \notin T /\ p \in U
    BY DEF SuitableOnes
  <1>2. total \in Nat /\ \A q \in U : Score(q) \in Nat
    <2>1. U \subseteq PlacesOf(fs)
      BY DEF SuitableOnes
    <2> QED BY <2>1, ScoresAre
  <1>3. b.score \in Int
    OBVIOUS
  <1>4. fresh.function = FunctionOf(fs, p) /\ fresh.score = total
    OBVIOUS
  <1> DEFINE New == Summary(S \cup {p}, fs, c, best2, am2)
  <1>5. ASSUME T = {} PROVE New
    <2>1. b = Call!NoBest /\ ~am
      BY <1>5 DEF Summary
    <2>2. b.score = -1
      BY <2>1 DEF Call!NoBest
    <2>3. best2 = fresh /\ ~am2
      BY <1>2, <2>1, <2>2
    <2>4. U = {p}
      BY <1>1, <1>5
    <2>5. \E q \in U :
             /\ best2.function = FunctionOf(fs, q) /\ best2.score = Score(q)
             /\ \A r \in U : Score(r) <= Score(q)
             /\ am2 <=> \E r \in U : r # q /\ Score(r) = Score(q)
      <3> HIDE DEF fresh, U
      <3>1. Score(p) \in Nat /\ Score(p) = total
        BY <1>2, <2>4
      <3>2. Score(p) <= Score(p)
        BY <3>1
      <3> HIDE DEF Score
      <3> QED BY <1>4, <2>3, <2>4, <3>1, <3>2
    <2> HIDE DEF Score
    <2> QED BY <1>1, <2>5 DEF Summary, Score
  <1>6. ASSUME T # {} PROVE New
    <2>1. PICK q \in T : /\ b.function = FunctionOf(fs, q) /\ b.score = Score(q)
                         /\ \A r \in T : Score(r) <= Score(q)
                         /\ am <=> \E r \in T : r # q /\ Score(r) = Score(q)
      BY <1>6 DEF Summary
    <2>2. q \in U /\ q # p /\ Score(q) \in Nat /\ Score(p) = total
      BY <1>1, <1>2
    <2> HIDE DEF Score, U, T, fresh
    <2>3. ASSUME total > b.score PROVE New
      <3>4. ~(total <= b.score) /\ total # b.score
        BY <1>2, <1>3, <2>3
      <3>5. best2 = fresh
        BY <2>3 DEF fresh
      <3>6. ~am2
        BY Zenon, <3>4
      <3>1. best2 = fresh /\ ~am2
        BY <3>5, <3>6
      <3>2. \A r \in T : Score(r) < total
        BY <1>1, <1>2, <2>1, <2>2, <2>3
      <3>3. \A r \in U : Score(r) <= Score(p) /\ (r # p => Score(r) # Score(p))
        BY <1>1, <1>2, <2>2, <3>2
      <3> QED BY <1>1, <1>4, <2>2, <3>1, <3>3 DEF Summary, Score, U
    <2>4. ASSUME total <= b.score PROVE New
      <3>1. best2 = b
        BY <1>2, <1>3, <2>4
      <3>2. \A r \in U : Score(r) <= Score(q)
        BY <1>1, <1>2, <2>1, <2>2, <2>4
      <3>3. am2 <=> \E r \in U : r # q /\ Score(r) = Score(q)
        <4>1. am2 <=> am \/ total = b.score
          BY <2>4
        <4> QED BY <1>1, <2>1, <2>2, <4>1
      <3> QED BY <2>1, <2>2, <3>1, <3>2, <3>3 DEF Summary, Score, U
    <2> HIDE DEF New
    <2> QED BY <1>2, <1>3, <2>3, <2>4
  <1> QED BY <1>5, <1>6

(***************************************************************************)
(* What a type argument is inferred to be.                                 *)
(***************************************************************************)
LEMMA DeclaredNames ==
    ASSUME Call!CallsAreTyped
    PROVE  /\ "none" \in Call!Declared /\ "bad" \in Call!Declared
           /\ "Base" \in Call!Declared /\ "Any" \in Call!Declared
    /\ "Array" \in Call!Declared
  <1>1. "none" # "Null" /\ "bad" # "Null" /\ "Base" # "Null" /\ "Any" # "Null"
       /\ "Array" # "Null"
    OBVIOUS
  <1> QED BY <1>1 DEF Call!Declared, Call!CallsAreTyped
(* What an argument binds is a type.                                       *)
LEMMA BindsType ==
    ASSUME Call!CallsAreTyped, NEW f, NEW a \in Call!Arguments, NEW p
    PROVE  Call!Binds(f, a, p) \in Types
  <1>1. Call!Unbound \in Types /\ Call!Bad \in Types
    BY DeclaredNames DEF Call!Unbound, Call!Bad, Call!Type, Types, Call!None
  <1>2. Call!Type(a.of, Call!None) \in Types
    BY DeclaredNames DEF Call!Type, Types, Call!None, Call!Arguments
  <1>3. ~Call!Untyped(a) => Call!Type(a.class, a.of) \in Types
    BY DEF Call!Type, Types, Call!Untyped, Call!Declared, Call!Arguments
  <1> QED BY <1>1, <1>2, <1>3 DEF Call!Binds
(* Two types bound one after the other give a type.                        *)
LEMMA BindType ==
    ASSUME Call!CallsAreTyped, NEW t \in Types, NEW x \in Types
    PROVE  Call!Bind(t, x) \in Types
  <1>1. Call!Common(t, x) \in Types
    BY DeclaredNames DEF Call!Common, Call!Type, Types, Call!None
  <1> QED BY <1>1 DEF Call!Bind

Joined(f, c, t, k) ==
    LET x == Call!Binds(f, c.arguments[k], f.parameters[k])
    IN  IF Call!Bad \in {t, x} THEN Call!Bad ELSE IF x = Call!Unbound THEN t ELSE Call!Bind(t, x)
(* So does an argument and what was bound before it.                       *)
LEMMA JoinedType ==
    ASSUME Call!CallsAreTyped, NEW f, NEW c, NEW t \in Types, NEW k, c.arguments[k] \in Call!Arguments
    PROVE  Joined(f, c, t, k) \in Types
  <1>1. Call!Binds(f, c.arguments[k], f.parameters[k]) \in Types
    BY BindsType
  <1>2. Call!Bad \in Types
    BY DeclaredNames DEF Call!Bad, Call!Type, Types, Call!None
  <1>3. Call!Bind(t, Call!Binds(f, c.arguments[k], f.parameters[k])) \in Types
    BY <1>1, BindType
  <1> QED BY <1>1, <1>2, <1>3 DEF Joined

(* What is inferred from a call is a type.                                 *)
LEMMA InferredType ==
    ASSUME Call!CallsAreTyped, NEW f, NEW c, c.arguments \in Seq(Call!Arguments)
    PROVE  Call!Inferred(f, c) \in Types
  <1> DEFINE n == Len(c.arguments)
             S == DOMAIN c.arguments
             seq == [k \in DOMAIN c.arguments |-> k]
             Is(h) == h = [s \in SUBSET DOMAIN seq |->
                              IF s = {} THEN Call!Unbound
                              ELSE Joined(f, c, h[s \ {Max(s)}], seq[Max(s)])]
             fold == CHOOSE h : Is(h)
  <1>1. Call!Inferred(f, c) \in {Call!Unbound, fold[DOMAIN seq]}
    BY DEF Call!Inferred, Call!FoldLeft, Call!MapThenFoldSet, Call!Max, Max, Joined
  <1>2. n \in Nat /\ S = 1 .. n /\ DOMAIN seq = S /\ \A k \in S : c.arguments[k] \in Call!Arguments
    BY LenProperties, ElementOfSeq
  <1>3. Call!Unbound \in Types
    BY DeclaredNames DEF Call!Unbound, Call!Type, Types, Call!None
  <1> DEFINE step == [k \in S |-> [t \in Types |-> Joined(f, c, t, k)]]
  <1>4. \A k \in 1 .. n, t \in Types : step[k][t] \in Types /\ step[k][t] = Joined(f, c, t, k)
    BY <1>2, JoinedType
  <1>5. PICK g : LeftRecursive(g, n, Types, Call!Unbound, step)
    <2>1. \A k \in 1 .. n, t \in Types : step[k][t] \in Types
      BY <1>4
    <2> HIDE DEF step, n
    <2> QED BY <1>2, <1>3, <2>1, LeftRecursion
  <1>6. Is(g)
    <2>1. ASSUME NEW s \in SUBSET S
          PROVE  g[s] = IF s = {} THEN Call!Unbound ELSE Joined(f, c, g[s \ {Max(s)}], seq[Max(s)])
      <3>1. CASE s = {}
        <4> HIDE DEF step
        <4> QED BY <1>2, <1>5, <3>1 DEF LeftRecursive
      <3>2. CASE s # {}
        <4>1. Max(s) \in s /\ Max(s) \in 1 .. n /\ s \ {Max(s)} \in SUBSET (1 .. n)
          <5> HIDE DEF step, n
          <5> QED BY <1>2, <1>5, <3>2 DEF LeftRecursive
        <4>2. seq[Max(s)] = Max(s) /\ g[s \ {Max(s)}] \in Types
          <5>1. seq[Max(s)] = Max(s)
            BY <1>2, <4>1
          <5> QED BY <1>5, <4>1, <5>1 DEF LeftRecursive
        <4>3. g[s] = step[Max(s)][g[s \ {Max(s)}]]
          <5> HIDE DEF step
          <5> QED BY <1>2, <1>5, <3>2 DEF LeftRecursive
        <4> HIDE DEF step, seq
        <4> QED BY <1>4, <3>2, <4>1, <4>2, <4>3
      <3> QED BY <3>1, <3>2
    <2>2. g = [s \in SUBSET DOMAIN seq |-> g[s]]
      <3> HIDE DEF step, seq
      <3> QED BY <1>2, <1>5 DEF LeftRecursive
    <2> HIDE DEF step, seq, n, S
    <2> QED BY <1>2, <2>1, <2>2
  <1>7. Is(fold)
    <2> HIDE DEF Is
    <2> QED BY <1>6
  <1>8. ASSUME NEW s \in SUBSET (1 .. n)
        PROVE  fold[s] = IF s = {} THEN Call!Unbound
                         ELSE Joined(f, c, fold[s \ {Max(s)}], seq[Max(s)])
    <2>1. fold = [t \in SUBSET DOMAIN seq |->
                  IF t = {} THEN Call!Unbound ELSE Joined(f, c, fold[t \ {Max(t)}], seq[Max(t)])]
      BY <1>7
    <2> HIDE DEF fold, seq
    <2> QED BY <1>2, <2>1
  <1> HIDE DEF fold, Is
  <1>9. fold[{}] \in Types
    <2>1. {} \in SUBSET (1 .. n)
      OBVIOUS
    <2> QED BY <1>3, <1>8, <2>1
  <1>10. ASSUME NEW k \in 1 .. n, fold[1 .. k - 1] \in Types
         PROVE  fold[1 .. k] \in Types
    <2>1. /\ 1 .. k \in SUBSET (1 .. n) /\ 1 .. k # {}
          /\ Max(1 .. k) = k /\ (1 .. k) \ {k} = 1 .. k - 1
      BY <1>2, UpToNumber
    <2>2. seq[k] = k
      BY <1>2
    <2>3. fold[1 .. k] = Joined(f, c, fold[1 .. k - 1], k)
      <3> HIDE DEF seq
      <3> QED BY <1>8, <2>1, <2>2
    <2> QED BY <1>2, <1>10, <2>3, JoinedType
  <1>11. fold[1 .. n] \in Types
    BY <1>2, <1>9, <1>10, FoldStays
  <1> QED BY <1>1, <1>2, <1>3, <1>11

(* A generic function with its type argument put in.                       *)
LEMMA SubstituteType ==
    ASSUME NEW f \in Call!Functions, NEW t \in Types
    PROVE  Call!Substitute(f, t) \in Call!Functions
  <1> DEFINE q == [p \in DOMAIN f.parameters |->
                  IF f.parameters[p].class = "T" THEN [f.parameters[p] EXCEPT !.class = t.class, !.of = t.of]
                  ELSE IF f.parameters[p].of = "T" THEN [f.parameters[p] EXCEPT !.of = t.class]
                  ELSE f.parameters[p]]
  <1>1. f.parameters \in Seq(Call!Parameters)
    BY DEF Call!Functions
  <1>2. \A p \in DOMAIN f.parameters : f.parameters[p] \in Call!Parameters
    BY <1>1, ElementOfSeq
  <1>3. \A p \in DOMAIN f.parameters : q[p] \in Call!Parameters
    <2> SUFFICES ASSUME NEW p \in DOMAIN f.parameters PROVE q[p] \in Call!Parameters
      OBVIOUS
    <2>1. t.class \in Call!Declared /\ t.of \in Call!Declared
      BY DEF Types
    <2>2. f.parameters[p] \in Call!Parameters
      BY <1>2
    <2>3. \A r \in Call!Parameters : /\ [r EXCEPT !.class = t.class, !.of = t.of] \in Call!Parameters
                                /\ [r EXCEPT !.of = t.class] \in Call!Parameters
      BY <2>1 DEF Call!Parameters
    <2> QED BY <2>2, <2>3
  <1>4. q \in Seq(Call!Parameters)
    <2>1. DOMAIN f.parameters = 1 .. Len(f.parameters) /\ Len(f.parameters) \in Nat
      BY <1>1, LenProperties
    <2>2. q \in [1 .. Len(f.parameters) -> Call!Parameters]
      <3>1. q = [p \in 1 .. Len(f.parameters) |-> q[p]]
        BY <2>1
      <3> HIDE DEF q
      <3> QED BY <1>3, <2>1, <3>1
    <2> HIDE DEF q
    <2> QED BY <2>1, <2>2, IsASeq
  <1>5. Call!Substitute(f, t) = [f EXCEPT !.generic = FALSE, !.parameters = q]
    BY DEF Call!Substitute
  <1> HIDE DEF q
  <1> QED BY <1>4, <1>5 DEF Call!Functions

(***************************************************************************)
(* The generic functions of a list are some of its functions.              *)
(***************************************************************************)
LEMMA GenericType ==
    ASSUME NEW list \in Seq(Call!Functions)
    PROVE  Call!Generic(list) \in Seq(Call!Functions)
  <1> DEFINE n == Len(list)
             S == DOMAIN list
             V == Seq(Call!Functions)
             Kept(v, f) == IF f.generic THEN Append(v, f) ELSE v
             Is(h) == h = [s \in SUBSET DOMAIN list |->
                              IF s = {} THEN <<>>
                              ELSE IF list[Max(s)].generic
                                   THEN Append(h[s \ {Max(s)}], list[Max(s)])
                                   ELSE h[s \ {Max(s)}]]
             fold == CHOOSE h : Is(h)
             step == [i \in S |-> [v \in V |-> Kept(v, list[i])]]
  <1>1. Call!Generic(list) = fold[DOMAIN list]
    BY DEF Call!Generic, Call!FoldLeft, Call!MapThenFoldSet, Call!Max, Max
  <1>2. n \in Nat /\ S = 1 .. n /\ \A i \in S : list[i] \in Call!Functions
    BY LenProperties, ElementOfSeq
  <1>3. <<>> \in V
    OBVIOUS
  <1>4. \A i \in 1 .. n, v \in V :
           Kept(v, list[i]) \in V /\ step[i][v] = Kept(v, list[i])
    <2>1. \A i \in 1 .. n, v \in V : Append(v, list[i]) \in V
      BY <1>2, AppendProperties
    <2> QED BY <1>2, <2>1
  <1>5. PICK g : LeftRecursive(g, n, V, <<>>, step)
    <2>1. \A i \in 1 .. n, v \in V : step[i][v] \in V
      BY <1>4
    <2> HIDE DEF step, n, V
    <2> QED BY <1>2, <1>3, <2>1, LeftRecursion
  <1>6. Is(g)
    <2>1. ASSUME NEW s \in SUBSET S
          PROVE  g[s] = IF s = {} THEN <<>> ELSE Kept(g[s \ {Max(s)}], list[Max(s)])
      <3>1. CASE s = {}
        <4> HIDE DEF step, V
        <4> QED BY <1>2, <1>5, <3>1 DEF LeftRecursive
      <3>2. CASE s # {}
        <4>1. Max(s) \in s /\ Max(s) \in 1 .. n /\ s \ {Max(s)} \in SUBSET (1 .. n)
          <5> HIDE DEF step, n, V
          <5> QED BY <1>2, <1>5, <3>2 DEF LeftRecursive
        <4>2. g[s \ {Max(s)}] \in V
          <5> HIDE DEF step, V
          <5> QED BY <1>5, <4>1 DEF LeftRecursive
        <4>3. g[s] = step[Max(s)][g[s \ {Max(s)}]]
          <5> HIDE DEF step, V
          <5> QED BY <1>2, <1>5, <3>2 DEF LeftRecursive
        <4> HIDE DEF step, V, Kept
        <4> QED BY <1>4, <3>2, <4>1, <4>2, <4>3
      <3> QED BY <3>1, <3>2
    <2>2. g = [s \in SUBSET DOMAIN list |-> g[s]]
      <3> HIDE DEF step, V
      <3> QED BY <1>2, <1>5 DEF LeftRecursive
    <2> HIDE DEF step, n, V
    <2> QED BY <1>2, <2>1, <2>2
  <1>7. Is(fold)
    <2> HIDE DEF Is
    <2> QED BY <1>6
  <1>8. ASSUME NEW s \in SUBSET (1 .. n)
        PROVE  fold[s] = IF s = {} THEN <<>> ELSE Kept(fold[s \ {Max(s)}], list[Max(s)])
    <2>1. fold = [t \in SUBSET DOMAIN list |->
                      IF t = {} THEN <<>>
                      ELSE IF list[Max(t)].generic
                           THEN Append(fold[t \ {Max(t)}], list[Max(t)])
                           ELSE fold[t \ {Max(t)}]]
      BY <1>7
    <2> HIDE DEF fold
    <2> QED BY <1>2, <2>1
  <1> HIDE DEF fold, Is, step
  <1>9. fold[{}] \in V
    <2>1. {} \in SUBSET (1 .. n)
      OBVIOUS
    <2> QED BY <1>3, <1>8, <2>1
  <1>10. ASSUME NEW k \in 1 .. n, fold[1 .. k - 1] \in V
         PROVE  fold[1 .. k] \in V
    <2>1. /\ 1 .. k \in SUBSET (1 .. n) /\ 1 .. k # {}
          /\ Max(1 .. k) = k /\ (1 .. k) \ {k} = 1 .. k - 1
      BY <1>2, UpToNumber
    <2>2. fold[1 .. k] = Kept(fold[1 .. k - 1], list[k])
      <3> HIDE DEF Kept, V
      <3> QED BY <1>8, <2>1
    <2> HIDE DEF Kept, V
    <2> QED BY <1>4, <1>10, <2>2
  <1>11. fold[1 .. n] \in V
    <2> HIDE DEF n, V
    <2> QED BY <1>2, <1>9, <1>10, FoldStays
  <1> QED BY <1>1, <1>2, <1>11

(***************************************************************************)
(* The invariant.                                                          *)
(***************************************************************************)
LiteralsAreNull(c) ==
    \A k \in DOMAIN c.arguments : Call!Literal(c.arguments[k]) => c.arguments[k].class = "Null"
Program(fs, c) ==
    /\ fs \in FunctionLists /\ fs # <<>>
    /\ c \in Call!CallRecords /\ LiteralsAreNull(c)
    /\ c.form = "object" => fs[1] # <<>>

TypeInv ==
    /\ Program(functions, call)
    /\ phase \in {"infer", "match", "bind", "object", "done"}
    /\ at \in Positions /\ score \in Nat
    /\ best \in [function : Call!Functions, score : Int]
    /\ ambiguous \in BOOLEAN

(* Before the search nothing is known; the search is over the functions    *)
(* before `at'; and what has been found suits the call.                    *)
PhaseInv ==
    /\ phase \in {"infer", "object"} =>
          /\ at = [list |-> 1, index |-> 1] /\ score = 0
          /\ best = Call!NoBest /\ ~ambiguous /\ uncertain = {}
    /\ phase # "done" => outcome = Call!None
    /\ phase = "object" => call.form = "object"
    /\ phase \in {"infer", "match", "bind"} => call.form # "object"
    /\ phase \in {"match", "bind"} /\ best # Call!NoBest => SuitableIn(best.function, call)
    /\ phase = "bind" \/ (phase = "done" /\ call.form # "object") => at.list > Len(functions)

SearchInv ==
    phase # "object" /\ call.form # "object" /\ uncertain = {} =>
        /\ phase = "match" => score = 0
        /\ Summary(Seen(functions, at), functions, call, best, ambiguous)

(* The arguments in the places of the parameters.                          *)
Arranged(f, c) ==
    [p \in DOMAIN f.parameters |->
        LET k == Call!Assigned(f, c)[p]
        IN  IF k = 0 THEN Call!DefaultOf(f.parameters[p]) ELSE c.arguments[k]]
BindInv ==
    phase = "bind" =>
        /\ best # Call!NoBest /\ ~ambiguous
        /\ passed = Arranged(best.function, call)

(* The outcome is that of the search unless an argument is refused.        *)
DoneInv ==
    phase = "done" /\ call.form # "object" /\ uncertain = {} =>
        /\ outcome = "missing" <=> best = Call!NoBest
        /\ outcome = "ambiguous" <=> best # Call!NoBest /\ ambiguous

OverloadsInv == TypeInv /\ PhaseInv /\ SearchInv /\ BindInv /\ DoneInv /\ Call!ArgumentsSuit

(***************************************************************************)
(* The steps.                                                              *)
(***************************************************************************)
(* That nothing has been found is of the type of what is found.            *)
LEMMA NoBestType ==
    ASSUME Call!CallsAreTyped
    PROVE  Call!NoBest \in [function : Call!Functions, score : Int]
  <1>1. <<>> \in Seq(Call!Parameters) /\ "none" \in CallNames
    BY DEF Call!CallsAreTyped
  <1>2. Call!NoFunction \in Call!Functions
    BY <1>1 DEF Call!NoFunction, Call!Functions, Call!None
  <1> QED BY <1>2 DEF Call!NoBest

(* The invariant holds before a call is looked at.                         *)
LEMMA OverloadsInit ==
    ASSUME Call!CallsAreTyped, Call!Init
    PROVE  OverloadsInv
  <1>1. Program(functions, call)
    BY DEF Call!Init, Call!CallsAreTyped, Program, FunctionLists, LiteralsAreNull, Call!Literal
  <1>2. TypeInv
    <2>1. /\ phase \in {"infer", "object"} /\ at = [list |-> 1, index |-> 1]
          /\ score = 0 /\ best = Call!NoBest /\ ambiguous = FALSE
      BY DEF Call!Init
    <2>2. at \in Positions
      BY <2>1 DEF Positions
    <2> QED BY <1>1, <2>1, <2>2, NoBestType DEF TypeInv
  <1>3. PhaseInv
    BY DEF Call!Init, PhaseInv
  <1>4. SearchInv
    <2>1. Seen(functions, at) = {}
      BY <1>1, SeenNone DEF Call!Init, Program
    <2> QED BY <2>1, SummaryNone DEF Call!Init, SearchInv
  <1>5. BindInv /\ DoneInv /\ Call!ArgumentsSuit
    <2>1. phase \in {"infer", "object"} /\ outcome = "none"
      BY DEF Call!Init, Call!None
    <2> QED BY <2>1 DEF BindInv, DoneInv, Call!ArgumentsSuit
  <1> QED BY <1>2, <1>3, <1>4, <1>5 DEF OverloadsInv

(* The type argument is put into the generic functions.                    *)
LEMMA InferStep ==
    ASSUME Call!CallsAreTyped, OverloadsInv, Call!Infer
    PROVE  OverloadsInv'
  <1> DEFINE list == Call!Last(functions)
             typed == [call EXCEPT !.arguments = [k \in DOMAIN @ |-> Call!Typed(@[k])]]
             able == Call!SelectSeq(Call!Generic(list), LAMBDA f : Call!Inferred(f, typed) # Call!Unbound)
             needed == Call!Generic(list) # <<>> /\ \A f \in Call!ToSet(list) : ~Call!TakesAsTheyAre(f, call)
             t == Call!Inferred(able[1], typed)
             made == [k \in DOMAIN Call!Generic(list) |-> Call!Substitute(Call!Generic(list)[k], t)]
  <1>1. /\ phase = "infer" /\ phase' = "match"
        /\ call' = IF needed THEN typed ELSE call
        /\ functions' = IF ~needed \/ able = <<>> THEN functions
                        ELSE [functions EXCEPT ![Len(functions)] = made]
        /\ UNCHANGED <<at, score, best, ambiguous, outcome, passed, uncertain>>
    BY DEF Call!Infer
  <1>2. Program(functions, call) /\ call.form # "object"
    BY <1>1 DEF OverloadsInv, TypeInv, PhaseInv
  <1>3. /\ typed \in Call!CallRecords /\ LiteralsAreNull(typed) /\ typed.form = call.form
        /\ typed.arguments \in Seq(Call!Arguments)
    <2> DEFINE args == [k \in DOMAIN call.arguments |-> Call!Typed(call.arguments[k])]
    <2>1. /\ call.arguments \in Seq(Call!Arguments)
          /\ DOMAIN call.arguments = 1 .. Len(call.arguments) /\ Len(call.arguments) \in Nat
          /\ \A k \in DOMAIN call.arguments : call.arguments[k] \in Call!Arguments
      BY <1>2, LenProperties, ElementOfSeq DEF Program, Call!CallRecords
    <2>2. \A a \in Call!Arguments : Call!Typed(a) \in Call!Arguments /\ ~Call!Literal(Call!Typed(a))
      <3> SUFFICES ASSUME NEW a \in Call!Arguments
                   PROVE  Call!Typed(a) \in Call!Arguments /\ ~Call!Literal(Call!Typed(a))
        OBVIOUS
      <3>1. "value" \in CallNames /\ "Array" \in CallNames
        BY DEF Call!CallsAreTyped
      <3> QED BY <3>1 DEF Call!Typed, Call!Literal, Call!Arguments
    <2>3. args \in Seq(Call!Arguments) /\ DOMAIN args = DOMAIN call.arguments
      <3>1. args \in [1 .. Len(call.arguments) -> Call!Arguments]
        <4>1. \A k \in 1 .. Len(call.arguments) : Call!Typed(call.arguments[k]) \in Call!Arguments
          BY <2>1, <2>2
        <4> QED BY <2>1, <4>1
      <3> HIDE DEF args
      <3> QED BY <2>1, <3>1, IsASeq
    <2>4. \A k \in DOMAIN args : ~Call!Literal(args[k])
      BY <2>1, <2>2
    <2>5. typed = [call EXCEPT !.arguments = args]
      OBVIOUS
    <2>6. call \in Call!CallRecords
      BY <1>2 DEF Program
    <2> HIDE DEF args, typed
    <2>7. typed.arguments = args /\ typed.form = call.form /\ typed \in Call!CallRecords
      BY <2>3, <2>5, <2>6 DEF Call!CallRecords
    <2> QED BY <2>3, <2>4, <2>7 DEF LiteralsAreNull
  <1>4. list \in Seq(Call!Functions) /\ Len(functions) \in Nat \ {0}
    <2>1. functions \in Seq(Seq(Call!Functions)) /\ functions # <<>>
      BY <1>2 DEF Program, FunctionLists
    <2>2. Len(functions) \in Nat \ {0}
      BY <2>1, EmptySeq, LenProperties
    <2> QED BY <2>1, <2>2, ElementOfSeq DEF Call!Last
  <1>5. made \in Seq(Call!Functions)
    <2>1. t \in Types
      <3> HIDE DEF able, typed
      <3> QED BY <1>3, InferredType
    <2>2. /\ Call!Generic(list) \in Seq(Call!Functions)
          /\ DOMAIN Call!Generic(list) = 1 .. Len(Call!Generic(list)) /\ Len(Call!Generic(list)) \in Nat
          /\ \A k \in DOMAIN Call!Generic(list) : Call!Generic(list)[k] \in Call!Functions
      <3> HIDE DEF list
      <3>1. Call!Generic(list) \in Seq(Call!Functions)
        BY <1>4, GenericType
      <3> QED BY <3>1, LenProperties, ElementOfSeq
    <2> HIDE DEF t, list
    <2>3. \A k \in 1 .. Len(Call!Generic(list)) : Call!Substitute(Call!Generic(list)[k], t) \in Call!Functions
      BY <2>1, <2>2, SubstituteType
    <2>4. made \in [1 .. Len(Call!Generic(list)) -> Call!Functions]
      BY <2>2, <2>3
    <2> HIDE DEF made
    <2> QED BY <2>2, <2>4, IsASeq
  <1>6. functions' \in FunctionLists /\ functions' # <<>>
    <2>1. functions \in Seq(Seq(Call!Functions)) /\ functions # <<>>
      BY <1>2 DEF Program, FunctionLists
    <2> HIDE DEF made, needed, able
    <2>2. ASSUME functions' = [functions EXCEPT ![Len(functions)] = made]
          PROVE  functions' \in Seq(Seq(Call!Functions)) /\ functions' # <<>>
      <3>1. /\ functions' \in Seq(Seq(Call!Functions)) /\ Len(functions') = Len(functions)
        BY <1>4, <1>5, <2>1, <2>2, ExceptSeq
      <3> QED BY <1>4, <3>1, EmptySeq
    <2> QED BY <1>1, <2>1, <2>2 DEF FunctionLists
  <1>7. Program(functions, call)'
    <2> HIDE DEF typed, needed
    <2> QED BY <1>1, <1>2, <1>3, <1>6 DEF Program
  <1>8. TypeInv'
    BY <1>1, <1>7 DEF OverloadsInv, TypeInv
  <1>9. call'.form # "object"
    <2> HIDE DEF typed, needed
    <2> QED BY <1>1, <1>2, <1>3
  <1>10. PhaseInv'
    BY <1>1, <1>9 DEF OverloadsInv, PhaseInv
  <1>11. SearchInv'
    <2>1. at' = [list |-> 1, index |-> 1] /\ best' = Call!NoBest /\ ambiguous' = FALSE /\ score' = 0
      BY <1>1 DEF OverloadsInv, PhaseInv, TypeInv
    <2>2. Seen(functions', at') = {}
      BY <1>6, <2>1, SeenNone
    <2> QED BY <1>1, <2>1, <2>2, SummaryNone DEF SearchInv
  <1>12. (BindInv /\ DoneInv /\ Call!ArgumentsSuit)'
    <2>1. outcome' = "none"
      BY <1>1 DEF OverloadsInv, PhaseInv, Call!None
    <2> QED BY <1>1, <2>1 DEF BindInv, DoneInv, Call!ArgumentsSuit
  <1> QED BY <1>8, <1>10, <1>11, <1>12 DEF OverloadsInv

(* The function to try next.                                               *)
LEMMA TryingIs ==
    ASSUME TypeInv, at.list <= Len(functions), at.index <= Len(Call!List)
    PROVE  /\ Call!Trying \in Call!Functions
           /\ Call!Trying = FunctionOf(functions, <<at.list, at.index>>)
           /\ Call!Suitable(Call!Trying) <=> SuitableIn(Call!Trying, call)
           /\ Call!Scan(Call!Trying, call).score \in Nat
  <1>1. functions \in FunctionLists /\ at.list \in Nat \ {0} /\ at.index \in Nat \ {0}
    BY DEF TypeInv, Program, Positions
  <1>2. at.list \in 1 .. Len(functions) /\ Len(functions) \in Nat
    BY <1>1, PlacesAre
  <1>3. Call!List \in Seq(Call!Functions) /\ Len(Call!List) \in Nat
    BY <1>1, <1>2, PlacesAre DEF Call!List
  <1>4. Call!Trying \in Call!Functions
    BY <1>1, <1>3, ElementOfSeq DEF Call!Trying
  <1>5. Call!Trying.parameters \in Seq(Call!Parameters)
    BY <1>4 DEF Call!Functions
  <1> QED BY <1>4, <1>5, ScanIs DEF Call!Trying, Call!List, FunctionOf, Call!Suitable, Call!Skipped, SuitableIn

(* A function that does not take the arguments is passed over.             *)
LEMMA RejectStep ==
    ASSUME OverloadsInv, Call!Reject
    PROVE  OverloadsInv'
  <1> DEFINE p == <<at.list, at.index>>
  <1>1. /\ phase = "match" /\ at.list <= Len(functions) /\ at.index <= Len(Call!List)
        /\ ~Call!Suitable(Call!Trying)
        /\ at' = [at EXCEPT !.index = @ + 1]
        /\ score' = IF Call!Skipped(Call!Trying) THEN score ELSE score + Call!Scan(Call!Trying, call).score
        /\ uncertain' = IF score' > 0 THEN uncertain \cup {"kept"} ELSE uncertain
        /\ UNCHANGED <<functions, call, passed, phase, best, ambiguous, outcome>>
    BY DEF Call!Reject, Call!InMatch, Call!GoOn
  <1>2. TypeInv /\ PhaseInv /\ SearchInv
    BY DEF OverloadsInv
  <1>3. /\ functions \in FunctionLists /\ at \in Positions /\ score \in Nat
        /\ Call!Scan(Call!Trying, call).score \in Nat
        /\ ~SuitableIn(FunctionOf(functions, p), call)
    BY <1>1, <1>2, TryingIs DEF TypeInv, Program
  <1>4. /\ at' \in Positions
        /\ Seen(functions, at') = Seen(functions, at) \cup {p}
    <2>1. Len(Call!List) = Len(functions[at.list])
      BY DEF Call!List
    <2> QED BY <1>1, <1>3, <2>1, SeenOneMore
  <1>5. score' \in Nat
    <2>1. score' = score \/ score' = score + Call!Scan(Call!Trying, call).score
      BY <1>1
    <2> QED BY <1>3, <2>1
  <1>6. TypeInv'
    BY <1>1, <1>2, <1>4, <1>5 DEF TypeInv
  <1>7. PhaseInv'
    BY <1>1, <1>2 DEF PhaseInv
  <1>8. SearchInv'
    <2> SUFFICES ASSUME call.form # "object", uncertain' = {}
                 PROVE  score' = 0 /\ Summary(Seen(functions, at'), functions, call, best, ambiguous)
      BY <1>1 DEF SearchInv
    <2>1. ~(score' > 0) /\ uncertain = {}
      BY <1>1
    <2>2. Summary(Seen(functions, at), functions, call, best, ambiguous)
      BY <1>1, <1>2, <2>1 DEF SearchInv
    <2> HIDE DEF p
    <2> QED BY <1>3, <1>4, <1>5, <2>1, <2>2, SummarySkip
  <1>9. (BindInv /\ DoneInv /\ Call!ArgumentsSuit)'
    <2>1. outcome' = "none" /\ phase' = "match"
      BY <1>1, <1>2 DEF PhaseInv, Call!None
    <2> QED BY <2>1 DEF BindInv, DoneInv, Call!ArgumentsSuit
  <1> QED BY <1>6, <1>7, <1>8, <1>9 DEF OverloadsInv

(* One that does is compared with the best so far.                         *)
LEMMA AcceptStep ==
    ASSUME OverloadsInv, Call!Accept
    PROVE  OverloadsInv'
  <1> DEFINE p == <<at.list, at.index>>
             total == score + Call!Scan(Call!Trying, call).score
  <1>1. /\ phase = "match" /\ at.list <= Len(functions) /\ at.index <= Len(Call!List)
        /\ Call!Suitable(Call!Trying)
        /\ at' = [at EXCEPT !.index = @ + 1] /\ score' = 0
        /\ best' = IF total > best.score THEN [function |-> Call!Trying, score |-> total] ELSE best
        /\ ambiguous' = ((ambiguous /\ total <= best.score) \/ total = best.score)
        /\ UNCHANGED <<functions, call, passed, phase, outcome, uncertain>>
    BY DEF Call!Accept, Call!InMatch, Call!GoOn, Call!Consider, Call!Total
  <1>2. TypeInv /\ PhaseInv /\ SearchInv
    BY DEF OverloadsInv
  <1>3. /\ functions \in FunctionLists /\ at \in Positions /\ score \in Nat
        /\ Call!Scan(Call!Trying, call).score \in Nat /\ total \in Nat
        /\ Call!Trying \in Call!Functions /\ Call!Trying = FunctionOf(functions, p)
        /\ SuitableIn(Call!Trying, call)
    BY <1>1, <1>2, TryingIs DEF TypeInv, Program
  <1>4. /\ at' \in Positions
        /\ p \in PlacesOf(functions) /\ p \notin Seen(functions, at)
        /\ Seen(functions, at') = Seen(functions, at) \cup {p}
    <2>1. Len(Call!List) = Len(functions[at.list])
      BY DEF Call!List
    <2> QED BY <1>1, <1>3, <2>1, SeenOneMore
  <1>5. /\ best \in [function : Call!Functions, score : Int] /\ ambiguous \in BOOLEAN
        /\ best' \in [function : Call!Functions, score : Int] /\ ambiguous' \in BOOLEAN
    <2>1. best \in [function : Call!Functions, score : Int] /\ ambiguous \in BOOLEAN
      BY <1>2 DEF TypeInv
    <2>2. [function |-> Call!Trying, score |-> total] \in [function : Call!Functions, score : Int]
      BY <1>3
    <2> HIDE DEF total
    <2> QED BY <1>1, <2>1, <2>2
  <1>6. TypeInv'
    BY <1>1, <1>2, <1>4, <1>5 DEF TypeInv
  <1>7. PhaseInv'
    <2>1. best' # Call!NoBest => SuitableIn(best'.function, call)
      <3>1. best # Call!NoBest => SuitableIn(best.function, call)
        BY <1>1, <1>2 DEF PhaseInv
      <3> HIDE DEF total
      <3> QED BY <1>1, <1>3, <3>1
    <2> QED BY <1>1, <1>2, <2>1 DEF PhaseInv
  <1>8. SearchInv'
    <2> SUFFICES ASSUME call.form # "object", uncertain = {}
                 PROVE  Summary(Seen(functions, at'), functions, call, best', ambiguous')
      BY <1>1 DEF SearchInv
    <2>1. /\ score = 0
          /\ Summary(Seen(functions, at), functions, call, best, ambiguous)
      BY <1>1, <1>2 DEF SearchInv
    <2>2. total = ScoreIn(functions, call, p)
      BY <1>3, <2>1 DEF ScoreIn
    <2>3. Seen(functions, at) \in SUBSET PlacesOf(functions)
      BY DEF Seen
    <2>4. PICK S \in SUBSET PlacesOf(functions) : S = Seen(functions, at)
      BY <2>3
    <2>7. p \in PlacesOf(functions) /\ p \notin S /\ SuitableIn(FunctionOf(functions, p), call)
      BY <1>3, <1>4, <2>4
    <2>8. Summary(S, functions, call, best, ambiguous)
      BY <2>1, <2>4
    <2>9. /\ functions \in FunctionLists
          /\ best \in [function : Call!Functions, score : Int] /\ ambiguous \in BOOLEAN
      BY <1>3, <1>5
    <2> HIDE DEF p, total
    <2>5. PICK am \in BOOLEAN, am2 \in BOOLEAN :
             /\ am = ambiguous /\ am2 = ambiguous'
             /\ am2 <=> (am /\ total <= best.score) \/ total = best.score
      BY <1>1, <1>5
    <2>6. best' = IF total > best.score THEN [function |-> FunctionOf(functions, p), score |-> total] ELSE best
      BY <1>1, <1>3
    <2>10. Summary(S, functions, call, best, am)
      BY <2>5, <2>8
    <2>11. Summary(S \cup {p}, functions, call, best', am2)
      BY <2>2, <2>5, <2>6, <2>7, <2>9, <2>10, SummaryAdd
    <2> QED BY <1>4, <2>4, <2>5, <2>11
  <1>9. (BindInv /\ DoneInv /\ Call!ArgumentsSuit)'
    <2>1. outcome' = "none" /\ phase' = "match"
      BY <1>1, <1>2 DEF PhaseInv, Call!None
    <2> QED BY <2>1 DEF BindInv, DoneInv, Call!ArgumentsSuit
  <1> QED BY <1>6, <1>7, <1>8, <1>9 DEF OverloadsInv

(* The search goes on in the next list.                                    *)
LEMMA EndOfListStep ==
    ASSUME OverloadsInv, Call!EndOfList
    PROVE  OverloadsInv'
  <1>1. /\ phase = "match" /\ at.list <= Len(functions) /\ at.index > Len(Call!List)
        /\ at' = [list |-> at.list + 1, index |-> 1] /\ score' = 0
        /\ UNCHANGED <<functions, call, passed, phase, best, ambiguous, outcome, uncertain>>
    BY DEF Call!EndOfList, Call!InMatch
  <1>2. TypeInv /\ PhaseInv /\ SearchInv
    BY DEF OverloadsInv
  <1>3. functions \in FunctionLists /\ at \in Positions
    BY <1>2 DEF TypeInv, Program
  <1>4. at' \in Positions /\ Seen(functions, at') = Seen(functions, at)
    BY <1>1, <1>3, SeenList DEF Call!List
  <1>5. TypeInv'
    BY <1>1, <1>2, <1>4 DEF TypeInv
  <1>6. PhaseInv'
    BY <1>1, <1>2 DEF PhaseInv
  <1>7. SearchInv'
    BY <1>1, <1>2, <1>4 DEF SearchInv
  <1>8. (BindInv /\ DoneInv /\ Call!ArgumentsSuit)'
    <2>1. outcome' = "none" /\ phase' = "match"
      BY <1>1, <1>2 DEF PhaseInv, Call!None
    <2> QED BY <2>1 DEF BindInv, DoneInv, Call!ArgumentsSuit
  <1> QED BY <1>5, <1>6, <1>7, <1>8 DEF OverloadsInv

(* The search ends without a function, or with two.                        *)
LEMMA FailedStep ==
    ASSUME OverloadsInv, Call!NotFound \/ Call!Ambiguous
    PROVE  OverloadsInv'
  <1>1. /\ phase = "match" /\ at.list > Len(functions) /\ phase' = "done"
        /\ \/ best = Call!NoBest /\ outcome' = "missing"
           \/ best # Call!NoBest /\ ambiguous /\ outcome' = "ambiguous"
        /\ UNCHANGED <<functions, call, at, score, best, ambiguous, passed, uncertain>>
    BY DEF Call!NotFound, Call!Ambiguous
  <1>2. TypeInv /\ PhaseInv /\ SearchInv
    BY DEF OverloadsInv
  <1>3. TypeInv'
    BY <1>1, <1>2 DEF TypeInv
  <1>4. PhaseInv'
    BY <1>1, <1>2 DEF PhaseInv
  <1>5. SearchInv'
    BY <1>1, <1>2 DEF SearchInv
  <1>6. DoneInv'
    BY <1>1 DEF DoneInv
  <1>7. (BindInv /\ Call!ArgumentsSuit)'
    BY <1>1 DEF BindInv, Call!ArgumentsSuit
  <1> QED BY <1>3, <1>4, <1>5, <1>6, <1>7 DEF OverloadsInv

(* The arguments of the function take their places.                        *)
LEMMA ArrangeStep ==
    ASSUME OverloadsInv, Call!Arrange
    PROVE  OverloadsInv'
  <1>1. /\ phase = "match" /\ at.list > Len(functions) /\ best # Call!NoBest /\ ~ambiguous
        /\ UNCHANGED <<functions, call, at, score, best, ambiguous, uncertain>>
        /\ \/ phase' = "done" /\ outcome' = "receiver" /\ UNCHANGED passed
           \/ phase' = "bind" /\ UNCHANGED outcome /\ passed' = Arranged(best.function, call)
    BY DEF Call!Arrange, Arranged, Call!Chosen
  <1>2. TypeInv /\ PhaseInv /\ SearchInv
    BY DEF OverloadsInv
  <1>3. TypeInv'
    BY <1>1, <1>2 DEF TypeInv
  <1>4. PhaseInv'
    BY <1>1, <1>2 DEF PhaseInv
  <1>5. SearchInv'
    BY <1>1, <1>2 DEF SearchInv
  <1>6. DoneInv'
    BY <1>1 DEF DoneInv
  <1>7. BindInv'
    BY <1>1 DEF BindInv
  <1>8. Call!ArgumentsSuit'
    <2>1. outcome' # "called"
      BY <1>1, <1>2 DEF PhaseInv, Call!None
    <2> QED BY <2>1 DEF Call!ArgumentsSuit
  <1> QED BY <1>3, <1>4, <1>5, <1>6, <1>7, <1>8 DEF OverloadsInv

(* The first reason is None only if all are.                               *)
LEMMA NoReason ==
    ASSUME NEW n \in Nat, NEW D \in SUBSET (1 .. n), NEW reasons, DOMAIN reasons = D,
           Call!FirstReason(reasons) = Call!None
    PROVE  \A p \in D : reasons[p] = Call!None
  <1> DEFINE bad == {p \in DOMAIN reasons : reasons[p] # Call!None}
  <1> SUFFICES ASSUME bad # {} PROVE FALSE
    OBVIOUS
  <1>1. bad \in SUBSET Nat
    <2>1. bad \subseteq D /\ D \subseteq 1 .. n
      OBVIOUS
    <2> HIDE DEF bad
    <2> QED BY <2>1
  <1>2. PICK k \in bad : \A j \in bad : k <= j
    <2> HIDE DEF bad
    <2> QED BY <1>1, LeastNatural
  <1>3. Call!Min(bad) \in bad
    <2> HIDE DEF bad
    <2>1. \E x \in bad : \A y \in bad : x <= y
      BY <1>2
    <2> QED BY <2>1 DEF Call!Min
  <1>4. Call!FirstReason(reasons) = reasons[Call!Min(bad)]
    BY DEF Call!FirstReason
  <1> HIDE DEF bad
  <1>5. reasons[Call!Min(bad)] # Call!None
    BY <1>3 DEF bad
  <1> QED BY <1>4, <1>5

(* There are not more arguments without a name than arguments.             *)
LEMMA PositionalIs ==
    ASSUME NEW c, NEW n \in Nat, DOMAIN c.arguments = 1 .. n
    PROVE  Call!Positional(c) \in Nat /\ Call!Positional(c) <= n
  <1> DEFINE those == {k \in DOMAIN c.arguments : c.arguments[k].name = Call!None}
  <1>1. IsFiniteSet(1 .. n) /\ Cardinality(1 .. n) = n
    BY FS_Interval
  <1>2. those \subseteq 1 .. n
    OBVIOUS
  <1> HIDE DEF those
  <1>3. IsFiniteSet(those) /\ Cardinality(those) <= n
    BY <1>1, <1>2, FS_Subset
  <1>4. Cardinality(those) \in Nat
    BY <1>3, FS_CardinalityType
  <1> QED BY <1>3, <1>4 DEF Call!Positional, those, Cardinality, Call!Cardinality

(* The arguments a suitable function is passed.                            *)
Passable(a, p, named) ==
    \/ a = Call!DefaultOf(p)
    \/ a \in Call!Arguments /\ Call!Points(a, p, named) >= 0 /\ (Call!Literal(a) => a.class = "Null")
(* Each suits its parameter, as far as match looks.                        *)
LEMMA ArrangedIs ==
    ASSUME NEW fs, NEW c, Program(fs, c), NEW f \in Call!Functions, SuitableIn(f, c)
    PROVE  /\ DOMAIN Arranged(f, c) = DOMAIN f.parameters
           /\ DOMAIN f.parameters = 1 .. Len(f.parameters) /\ Len(f.parameters) \in Nat
           /\ \A p \in DOMAIN f.parameters :
                /\ f.parameters[p] \in Call!Parameters
                /\ Passable(Arranged(f, c)[p], f.parameters[p], Call!Named(c))
  <1>1. /\ f.parameters \in Seq(Call!Parameters) /\ Call!Scan(f, c).takes /\ Call!Bindable(f, c)
        /\ c.arguments \in Seq(Call!Arguments) /\ LiteralsAreNull(c)
    BY DEF Call!Functions, SuitableIn, Program, Call!CallRecords
  <1>2. /\ DOMAIN f.parameters = 1 .. Len(f.parameters) /\ Len(f.parameters) \in Nat
        /\ \A p \in DOMAIN f.parameters : f.parameters[p] \in Call!Parameters
        /\ DOMAIN c.arguments = 1 .. Len(c.arguments) /\ Len(c.arguments) \in Nat
        /\ \A k \in DOMAIN c.arguments : c.arguments[k] \in Call!Arguments
    BY <1>1, LenProperties, ElementOfSeq
  <1>3. ASSUME NEW p \in DOMAIN f.parameters
        PROVE  Passable(Arranged(f, c)[p], f.parameters[p], Call!Named(c))
    <2> DEFINE k == Call!Assigned(f, c)[p]
    <2>1. Arranged(f, c)[p] = IF k = 0 THEN Call!DefaultOf(f.parameters[p]) ELSE c.arguments[k]
      BY DEF Arranged
    <2>2. ASSUME k # 0 PROVE k \in DOMAIN c.arguments
      <3> DEFINE by == {j \in DOMAIN c.arguments : c.arguments[j].name = f.parameters[p].name}
      <3>1. k = IF p <= Call!Positional(c) THEN p ELSE IF by = {} THEN 0 ELSE Call!Min(by)
        BY DEF Call!Assigned, Call!AssignedTo
      <3>2. CASE p <= Call!Positional(c)
        <4>1. Call!Positional(c) \in Nat /\ Call!Positional(c) <= Len(c.arguments)
          BY <1>2, PositionalIs
        <4> QED BY <1>2, <3>1, <3>2, <4>1
      <3>3. CASE ~(p <= Call!Positional(c))
        <4>1. by # {}
          BY <2>2, <3>1, <3>3
        <4>2. by \in SUBSET Nat
          BY <1>2
        <4>3. PICK j \in by : \A i \in by : j <= i
          <5> HIDE DEF by
          <5> QED BY <4>1, <4>2, LeastNatural
        <4>4. Call!Min(by) \in by
          <5> HIDE DEF by
          <5>1. \E x \in by : \A y \in by : x <= y
            BY <4>3
          <5> QED BY <5>1 DEF Call!Min
        <4> QED BY <3>1, <3>3, <4>1, <4>4
      <3> QED BY <3>2, <3>3
    <2>3. k # 0 => Call!Points(c.arguments[k], f.parameters[p], Call!Named(c)) >= 0
      BY <1>1, <1>2, ScanIs
    <2> HIDE DEF k
    <2> QED BY <1>1, <1>2, <2>1, <2>2, <2>3 DEF Passable, LiteralsAreNull
  <1> QED BY <1>2, <1>3 DEF Arranged

(* A call that is refused is refused for one of the arguments.             *)
LEMMA SomeReason ==
    ASSUME NEW n \in Nat, NEW D \in SUBSET (1 .. n), NEW reasons, DOMAIN reasons = D,
           Call!FirstReason(reasons) # Call!None
    PROVE  \E p \in D : reasons[p] = Call!FirstReason(reasons)
  <1> DEFINE bad == {p \in DOMAIN reasons : reasons[p] # Call!None}
  <1>1. bad # {}
    BY DEF Call!FirstReason
  <1>2. bad \in SUBSET Nat
    <2>1. bad \subseteq D /\ D \subseteq 1 .. n
      OBVIOUS
    <2> HIDE DEF bad
    <2> QED BY <2>1
  <1>3. PICK k \in bad : \A j \in bad : k <= j
    <2> HIDE DEF bad
    <2> QED BY <1>1, <1>2, LeastNatural
  <1>4. Call!Min(bad) \in bad
    <2> HIDE DEF bad
    <2>1. \E x \in bad : \A y \in bad : x <= y
      BY <1>3
    <2> QED BY <2>1 DEF Call!Min
  <1>5. Call!FirstReason(reasons) = reasons[Call!Min(bad)]
    BY <1>1 DEF Call!FirstReason
  <1> QED BY <1>4, <1>5

(* What is passed in the end suits its parameter, unless it is refused.    *)
LEMMA ConvertedSuits ==
    ASSUME NEW p \in Call!Parameters, NEW a, NEW named, Passable(a, p, named), Call!Refused(a, p) = Call!None
    PROVE  Call!Suits(Call!Converted(a, p), p)
  <1>1. a.nullable => p.nullable
    BY DEF Call!Refused, Call!None
  <1>2. CASE a = Call!DefaultOf(p)
    <2>1. Call!SameClass(a, p)
      BY <1>2 DEF Call!DefaultOf, Call!SameClass
    <2> QED BY <1>1, <2>1 DEF Call!Converted, Call!Suits
  <1>3. CASE a \in Call!Arguments /\ Call!Points(a, p, named) >= 0
    <2> DEFINE made == Call!As(a, p)
    <2>1. made.nullable = a.nullable /\ made.class = p.class /\ made.of = p.of
      BY <1>3 DEF Call!As, Call!Arguments
    <2>2. Call!Suits(made, p)
      <3> HIDE DEF made
      <3> QED BY <1>1, <2>1 DEF Call!Suits, Call!SameClass
    <2> DEFINE builtIn == (a.class = "Int" /\ p.class = "Float") \/ (Call!Literal(a) /\ p.class = "Array")
               can == Call!CanConvert(a, p)
    <2>3. CASE Call!SameClass(a, p) \/ Call!Inherits(a, p) \/ (Call!Untyped(a) /\ ~Call!Literal(a))
      BY <1>1, <2>3 DEF Call!Converted, Call!Suits
    <2>4. CASE /\ ~(Call!SameClass(a, p) \/ Call!Inherits(a, p) \/ (Call!Untyped(a) /\ ~Call!Literal(a)))
               /\ builtIn \/ (p.class # "Any" /\ can)
      BY <2>2, <2>4 DEF Call!Converted
    <2>5. CASE /\ ~(Call!SameClass(a, p) \/ Call!Inherits(a, p) \/ (Call!Untyped(a) /\ ~Call!Literal(a)))
               /\ ~(builtIn \/ (p.class # "Any" /\ can))
      <3>1. Call!Converted(a, p) = a
        BY <2>5 DEF Call!Converted
      <3>2. p.class = "Any"
        <4> SUFFICES ASSUME p.class # "Any" PROVE FALSE
          OBVIOUS
        <4>1. ~can
          BY <2>5
        <4>2. Call!Points(a, p, named) = -1
          <5>1. CASE Call!Literal(a)
            <6>1. p.class # "Array" /\ ~Call!SameClass(a, p)
              BY <2>5, <5>1
            <6> QED BY <4>1, <5>1, <6>1 DEF Call!Points
          <5>2. CASE ~Call!Literal(a)
            <6>1. /\ ~Call!Untyped(a) /\ ~Call!SameClass(a, p) /\ ~Call!Inherits(a, p)
                  /\ ~(a.class = "Int" /\ p.class = "Float")
              BY <2>5, <5>2
            <6> QED BY <4>1, <5>2, <6>1 DEF Call!Points
          <5> QED BY <5>1, <5>2
        <4> QED BY <1>3, <4>2
      <3> QED BY <1>1, <3>1, <3>2 DEF Call!Suits
    <2> QED BY <2>3, <2>4, <2>5
  <1> QED BY <1>2, <1>3 DEF Passable

(* A literal that a function takes is not unknown to its parameter, unless *)
(* that is an Any.                                                         *)
LEMMA LiteralIsFound ==
    ASSUME NEW p \in Call!Parameters, NEW a, NEW named, Passable(a, p, named),
           ~(Call!Literal(a) /\ p.class = "Any")
    PROVE  Call!Refused(a, p) # "missing"
  <1> SUFFICES ASSUME Call!Literal(a) /\ p.class # "Array" /\ ~Call!CanConvert(a, p) PROVE FALSE
    BY DEF Call!Refused, Call!None
  <1>1. a # Call!DefaultOf(p)
    BY DEF Call!Literal, Call!DefaultOf
  <1>2. a \in Call!Arguments /\ Call!Points(a, p, named) >= 0 /\ a.class = "Null"
    BY <1>1 DEF Passable
  <1>3. p.class # "Null" /\ p.class # "Any"
    BY DEF Call!Parameters, Call!Declared
  <1>4. ~Call!SameClass(a, p)
    BY <1>2, <1>3 DEF Call!SameClass
  <1>5. Call!Points(a, p, named) = -1
    BY <1>3, <1>4 DEF Call!Points
  <1> QED BY <1>2, <1>5

(* The arguments are converted, or one of them is refused.                 *)
LEMMA ConvertStep ==
    ASSUME OverloadsInv, Call!Convert
    PROVE  OverloadsInv'
  <1> DEFINE f == best.function
             reasons == [p \in DOMAIN Call!Chosen |-> Call!Refused(passed[p], Call!Chosen[p])]
             reason == Call!FirstReason(reasons)
  <1>1. /\ phase = "bind" /\ phase' = "done"
        /\ passed' = [p \in DOMAIN Call!Chosen |-> Call!Converted(passed[p], Call!Chosen[p])]
        /\ outcome' = IF reason # Call!None THEN reason
                      ELSE IF Call!Nulls(passed, Call!Chosen) # 0 THEN "null"
                      ELSE IF ~best.function.public /\ ~call.inside THEN "private"
                      ELSE "called"
        /\ uncertain' = uncertain \cup
              (IF \E p \in DOMAIN Call!Chosen : Call!Literal(passed[p])
                     /\ (Call!Chosen[p].nullable \/ Call!Chosen[p].class = "Any")
               THEN {"literal"} ELSE {})
        /\ UNCHANGED <<functions, call, at, score, best, ambiguous>>
    BY DEF Call!Convert
  <1>2. TypeInv /\ PhaseInv /\ SearchInv /\ BindInv
    BY DEF OverloadsInv
  <1>3. /\ best # Call!NoBest /\ ~ambiguous /\ passed = Arranged(f, call)
        /\ f \in Call!Functions /\ SuitableIn(f, call) /\ Program(functions, call)
    BY <1>1, <1>2 DEF BindInv, PhaseInv, TypeInv
  <1>4. /\ DOMAIN Call!Chosen = 1 .. Len(Call!Chosen) /\ Len(Call!Chosen) \in Nat
        /\ \A p \in DOMAIN Call!Chosen :
             Call!Chosen[p] \in Call!Parameters /\ Passable(passed[p], Call!Chosen[p], Call!Named(call))
    <2>1. Call!Chosen = f.parameters
      BY DEF Call!Chosen
    <2> HIDE DEF f
    <2> QED BY <1>3, <2>1, ArrangedIs
  <1>5. TypeInv'
    BY <1>1, <1>2 DEF TypeInv
  <1>6. PhaseInv'
    BY <1>1, <1>2 DEF PhaseInv
  <1>7. SearchInv'
    BY <1>1, <1>2 DEF SearchInv
  <1>8. BindInv'
    BY <1>1 DEF BindInv
  <1>9. /\ reason # Call!None => (outcome' = reason /\ \E p \in DOMAIN Call!Chosen : reasons[p] = reason)
        /\ reason = Call!None => /\ outcome' \in {"null", "private", "called"}
                            /\ \A p \in DOMAIN Call!Chosen : reasons[p] = Call!None
    <2>1. DOMAIN Call!Chosen \in SUBSET (1 .. Len(Call!Chosen)) /\ DOMAIN reasons = DOMAIN Call!Chosen
      BY <1>4
    <2>2. reason # Call!None => \E p \in DOMAIN Call!Chosen : reasons[p] = reason
      <3> HIDE DEF reasons
      <3> QED BY <1>4, <2>1, SomeReason
    <2>3. reason = Call!None => \A p \in DOMAIN Call!Chosen : reasons[p] = Call!None
      <3> HIDE DEF reasons
      <3> QED BY <1>4, <2>1, NoReason
    <2> HIDE DEF reasons, reason
    <2> QED BY <1>1, <2>2, <2>3
  <1>10. \A p \in DOMAIN Call!Chosen :
            /\ reasons[p] = Call!Refused(passed[p], Call!Chosen[p])
            /\ reasons[p] \in {Call!None, "null", "missing", "mismatch"}
    <2>1. \A p \in DOMAIN Call!Chosen : reasons[p] = Call!Refused(passed[p], Call!Chosen[p])
      OBVIOUS
    <2>2. \A a, p : Call!Refused(a, p) \in {Call!None, "null", "missing", "mismatch"}
      BY DEF Call!Refused
    <2> HIDE DEF reasons
    <2> QED BY <2>1, <2>2
  <1> DEFINE toAny == \E p \in DOMAIN Call!Chosen : Call!Literal(passed[p])
                         /\ (Call!Chosen[p].nullable \/ Call!Chosen[p].class = "Any")
  <1>11. uncertain' = {} => ~toAny
    <2> HIDE DEF toAny
    <2> QED BY <1>1 DEF toAny
  <1> HIDE DEF reasons, reason
  <1>12. DoneInv'
    <2> SUFFICES ASSUME uncertain' = {} PROVE outcome' # "missing" /\ outcome' # "ambiguous"
      <3>1. best' # Call!NoBest /\ ~ambiguous' /\ phase' = "done" /\ call' = call
        BY <1>1, <1>3
      <3> QED BY <3>1 DEF DoneInv
    <2>1. \A p \in DOMAIN Call!Chosen : reasons[p] # "missing"
      <3> SUFFICES ASSUME NEW p \in DOMAIN Call!Chosen PROVE Call!Refused(passed[p], Call!Chosen[p]) # "missing"
        BY <1>10
      <3>1. ~(Call!Literal(passed[p]) /\ Call!Chosen[p].class = "Any")
        BY <1>11
      <3>2. Call!Chosen[p] \in Call!Parameters /\ Passable(passed[p], Call!Chosen[p], Call!Named(call))
        BY <1>4
      <3> QED BY <3>1, <3>2, LiteralIsFound
    <2> QED BY <1>9, <1>10, <2>1 DEF Call!None
  <1>13. Call!ArgumentsSuit'
    <2> SUFFICES ASSUME outcome' = "called"
                 PROVE  /\ Len(passed') = Len(Call!Chosen)
                        /\ \A p \in DOMAIN Call!Chosen : Call!Suits(passed'[p], Call!Chosen[p])
      <3>1. best' = best
        BY <1>1
      <3> QED BY <3>1 DEF Call!ArgumentsSuit, Call!Chosen
    <2>1. Len(passed') = Len(Call!Chosen)
      BY <1>1, <1>4
    <2>2. \A p \in DOMAIN Call!Chosen : reasons[p] = Call!None
      BY <1>9, <1>10 DEF Call!None
    <2>3. \A p \in DOMAIN Call!Chosen : Call!Suits(passed'[p], Call!Chosen[p])
      <3> SUFFICES ASSUME NEW p \in DOMAIN Call!Chosen PROVE Call!Suits(passed'[p], Call!Chosen[p])
        OBVIOUS
      <3>1. passed'[p] = Call!Converted(passed[p], Call!Chosen[p])
        BY <1>1
      <3>2. Call!Refused(passed[p], Call!Chosen[p]) = Call!None
        BY <1>10, <2>2
      <3>3. Call!Chosen[p] \in Call!Parameters /\ Passable(passed[p], Call!Chosen[p], Call!Named(call))
        BY <1>4
      <3> QED BY <3>1, <3>2, <3>3, ConvertedSuits
    <2> QED BY <2>1, <2>3
  <1> QED BY <1>5, <1>6, <1>7, <1>8, <1>12, <1>13 DEF OverloadsInv

(* What a function object is passed suits its parameter, unless it is      *)
(* refused or has not been looked at.                                      *)
LEMMA ObjectSuits ==
    ASSUME NEW p \in Call!Parameters, NEW a \in Call!Arguments, Call!RefusedByObject(a, p) = Call!None,
           ~Call!Unsuited(Call!ConvertedByObject(a, p), p)
    PROVE  Call!Suits(Call!ConvertedByObject(a, p), p)
  <1> DEFINE x == Call!ConvertedByObject(a, p)
             made == Call!As(a, p)
             builtIn == (a.class = "Int" /\ p.class = "Float") \/ (Call!Literal(a) /\ p.class = "Array")
  <1>1. a.nullable => p.nullable
    BY DEF Call!RefusedByObject, Call!Refused, Call!None
  <1>2. made.nullable = a.nullable /\ made.class = p.class /\ made.of = p.of
    BY DEF Call!As, Call!Arguments
  <1>3. x = a \/ x = made
    <2>1. Call!Converted(a, p) = a \/ Call!Converted(a, p) = made
      BY DEF Call!Converted
    <2> HIDE DEF made
    <2> QED BY <2>1 DEF Call!ConvertedByObject
  <1>4. Call!Suits(made, p)
    <2> HIDE DEF made
    <2> QED BY <1>1, <1>2 DEF Call!Suits, Call!SameClass
  <1>5. CASE x = made
    BY <1>4, <1>5
  <1>6. CASE x = a
    <2>4. PICK named \in BOOLEAN : named = FALSE
      OBVIOUS
    <2>1. ~(Call!Points(a, p, named) < 0) /\ ~Call!CanConvert(a, p)
      <3>1. ~Call!Unsuited(a, p)
        <4> HIDE DEF x
        <4> QED BY <1>6 DEF x
      <3>2. ~(Call!Points(a, p, FALSE) < 0) /\ ~Call!CanConvert(a, p)
        BY Zenon, <3>1 DEF Call!Unsuited
      <3> QED BY Zenon, <2>4, <3>2
    <2>2. CASE \/ Call!SameClass(a, p) \/ p.class = "Any" \/ Call!Inherits(a, p)
               \/ Call!Untyped(a) /\ ~Call!Literal(a)
      <3> HIDE DEF x
      <3> QED BY <1>1, <1>6, <2>2 DEF Call!Suits, x
    <2>3. CASE ~(\/ Call!SameClass(a, p) \/ p.class = "Any" \/ Call!Inherits(a, p)
                 \/ Call!Untyped(a) /\ ~Call!Literal(a))
      <3>1. builtIn
        <4> SUFFICES ASSUME ~builtIn PROVE FALSE
          OBVIOUS
        <4>1. Call!Points(a, p, named) = -1
          BY <2>1, <2>3 DEF Call!Points
        <4>2. -1 < 0
          OBVIOUS
        <4> QED BY <2>1, <4>1, <4>2
      <3>2. x = made
        <4>1. Call!Converted(a, p) = made
          BY <2>3, <3>1 DEF Call!Converted
        <4>2. x = Call!Converted(a, p)
          BY <2>3, <3>1 DEF Call!ConvertedByObject
        <4> QED BY <4>1, <4>2
      <3> QED BY <1>4, <3>2
    <2> QED BY <2>2, <2>3
  <1> QED BY <1>3, <1>5, <1>6

(* A function object is called, or not.                                    *)
LEMMA ObjectStep ==
    ASSUME OverloadsInv, Call!ObjectNotFound \/ Call!CallObject
    PROVE  OverloadsInv'
  <1>1. /\ phase = "object" /\ phase' = "done" /\ call.form = "object"
        /\ TypeInv
        /\ UNCHANGED <<functions, call, at, score, ambiguous>>
    BY DEF OverloadsInv, PhaseInv, Call!ObjectNotFound, Call!CallObject
  <1>2. /\ Call!Object \in Call!Functions
        /\ call.arguments \in Seq(Call!Arguments)
        /\ DOMAIN call.arguments = 1 .. Len(call.arguments)
        /\ Call!Object.parameters \in Seq(Call!Parameters)
        /\ DOMAIN Call!Object.parameters = 1 .. Len(Call!Object.parameters)
        /\ Len(Call!Object.parameters) \in Nat
        /\ \A p \in DOMAIN Call!Object.parameters : Call!Object.parameters[p] \in Call!Parameters
        /\ \A p \in DOMAIN call.arguments : call.arguments[p] \in Call!Arguments
    <2>1. /\ functions \in Seq(Seq(Call!Functions)) /\ functions # <<>> /\ functions[1] # <<>>
          /\ call \in Call!CallRecords
      BY <1>1 DEF TypeInv, Program, FunctionLists
    <2>2. Len(functions) \in Nat \ {0}
      BY <2>1, EmptySeq, LenProperties
    <2>3. functions[1] \in Seq(Call!Functions)
      BY <2>1, <2>2, ElementOfSeq
    <2>4. Len(functions[1]) \in Nat \ {0}
      BY <2>1, <2>3, EmptySeq, LenProperties
    <2>5. Call!Object \in Call!Functions
      BY <2>3, <2>4, ElementOfSeq DEF Call!Object
    <2>6. Call!Object.parameters \in Seq(Call!Parameters) /\ call.arguments \in Seq(Call!Arguments)
      BY <2>1, <2>5 DEF Call!Functions, Call!CallRecords
    <2> QED BY <2>5, <2>6, LenProperties, ElementOfSeq
  <1>3. best' \in [function : Call!Functions, score : Int]
    <2>1. best \in [function : Call!Functions, score : Int]
      BY <1>1 DEF TypeInv
    <2>2. best' = best \/ best' = [function |-> Call!Object, score |-> 0]
      BY DEF Call!ObjectNotFound, Call!CallObject
    <2> QED BY <1>2, <2>1, <2>2
  <1>4. TypeInv'
    BY <1>1, <1>3 DEF TypeInv
  <1>5. PhaseInv' /\ SearchInv' /\ BindInv' /\ DoneInv'
    BY <1>1 DEF PhaseInv, SearchInv, BindInv, DoneInv
  <1>6. Call!ArgumentsSuit'
    <2>1. CASE Call!ObjectNotFound
      BY <2>1 DEF Call!ObjectNotFound, Call!ArgumentsSuit
    <2>2. CASE Call!CallObject
      <3> SUFFICES ASSUME outcome' = "called", "unchecked" \notin uncertain'
                   PROVE  /\ Len(passed') = Len(Call!Object.parameters)
                          /\ \A p \in DOMAIN Call!Object.parameters :
                                Call!Suits(passed'[p], Call!Object.parameters[p])
        <4>1. best'.function = Call!Object
          BY <2>2 DEF Call!CallObject
        <4> QED BY <4>1 DEF Call!ArgumentsSuit, Call!Chosen
      <3> DEFINE parameters == Call!Object.parameters
                 isFunction == {p \in DOMAIN parameters :
                         {call.arguments[p].class, parameters[p].class} = {"Function"}}
                 seen == IF isFunction = {} THEN DOMAIN parameters ELSE 1 .. Call!Min(isFunction)
                 reasons == [p \in seen |-> Call!RefusedByObject(call.arguments[p], parameters[p])]
                 reason == Call!FirstReason(reasons)
                 unsuited == \E p \in seen : Call!Unsuited(passed'[p], parameters[p])
      <3>1. /\ Len(parameters) = Len(call.arguments)
            /\ outcome' = IF reason # Call!None THEN reason ELSE "called"
            /\ passed' = [p \in DOMAIN parameters |->
                            IF p \in seen
                            THEN Call!ConvertedByObject(call.arguments[p], parameters[p])
                            ELSE call.arguments[p]]
            /\ uncertain' = IF seen # DOMAIN parameters \/ unsuited THEN {"unchecked"} ELSE {}
        BY <2>2 DEF Call!CallObject
      <3>2. seen = DOMAIN parameters /\ ~unsuited
        <4> HIDE DEF seen, unsuited
        <4> QED BY <3>1
      <3> HIDE DEF seen
      <3>3. Len(passed') = Len(parameters)
        BY <1>2, <3>1
      <3>4. reason = Call!None
        <4> SUFFICES ASSUME reason # Call!None PROVE FALSE
          OBVIOUS
        <4>1. \E p \in DOMAIN parameters : reasons[p] = reason
          <5>1. DOMAIN reasons = DOMAIN parameters /\ DOMAIN parameters \in SUBSET (1 .. Len(parameters))
            BY <1>2, <3>2
          <5> HIDE DEF reasons
          <5> QED BY <1>2, <5>1, SomeReason
        <4>2. \A a, p : Call!RefusedByObject(a, p) # "called"
          BY DEF Call!RefusedByObject, Call!Refused, Call!None
        <4>3. \A p \in DOMAIN parameters : reasons[p] # "called"
          BY <3>2, <4>2
        <4> HIDE DEF reasons, reason
        <4> QED BY <3>1, <4>1, <4>3
      <3>5. \A p \in DOMAIN parameters : Call!RefusedByObject(call.arguments[p], parameters[p]) = Call!None
        <4>1. \A p \in DOMAIN parameters : reasons[p] = Call!None
          <5>1. DOMAIN reasons = DOMAIN parameters /\ DOMAIN parameters \in SUBSET (1 .. Len(parameters))
            BY <1>2, <3>2
          <5> HIDE DEF reasons
          <5> QED BY <1>2, <3>4, <5>1, NoReason
        <4> QED BY <3>2, <4>1
      <3>6. ASSUME NEW p \in DOMAIN parameters PROVE Call!Suits(passed'[p], parameters[p])
        <4>1. passed'[p] = Call!ConvertedByObject(call.arguments[p], parameters[p])
          BY <3>1, <3>2
        <4>2. ~Call!Unsuited(passed'[p], parameters[p])
          BY <3>2
        <4>3. call.arguments[p] \in Call!Arguments /\ parameters[p] \in Call!Parameters
          BY <1>2, <3>1
        <4>4. Call!RefusedByObject(call.arguments[p], parameters[p]) = Call!None
          BY <3>5
        <4> HIDE DEF parameters
        <4> QED BY <4>1, <4>2, <4>3, <4>4, ObjectSuits
      <3> QED BY <3>3, <3>6
    <2> QED BY <2>1, <2>2
  <1> QED BY <1>4, <1>5, <1>6 DEF OverloadsInv

(* The invariant holds, for every set of typed calls.                      *)
THEOREM OverloadsInvariant == Call!Spec => []OverloadsInv
  <1>1. Call!Init => OverloadsInv
    BY CallsAssumption, OverloadsInit
  <1>2. OverloadsInv /\ [Call!Next]_Call!vars => OverloadsInv'
    <2> SUFFICES ASSUME OverloadsInv, [Call!Next]_Call!vars PROVE OverloadsInv'
      OBVIOUS
    <2>1. CASE Call!Infer
      BY CallsAssumption, <2>1, InferStep
    <2>2. CASE Call!Reject
      BY <2>2, RejectStep
    <2>3. CASE Call!Accept
      BY <2>3, AcceptStep
    <2>4. CASE Call!EndOfList
      BY <2>4, EndOfListStep
    <2>5. CASE Call!NotFound \/ Call!Ambiguous
      BY <2>5, FailedStep
    <2>6. CASE Call!Arrange
      BY <2>6, ArrangeStep
    <2>7. CASE Call!Convert
      BY <2>7, ConvertStep
    <2>8. CASE Call!ObjectNotFound \/ Call!CallObject
      BY <2>8, ObjectStep
    <2>9. CASE UNCHANGED Call!vars
      <3>1. /\ UNCHANGED <<functions, call, phase, at, score>>
            /\ UNCHANGED <<best, ambiguous, outcome, passed, uncertain>>
        BY <2>9 DEF Call!vars
      <3>2. TypeInv' /\ PhaseInv' /\ SearchInv'
        BY <3>1 DEF OverloadsInv, TypeInv, PhaseInv, SearchInv
      <3>3. BindInv' /\ DoneInv'
        BY <3>1 DEF OverloadsInv, BindInv, DoneInv
      <3>4. Call!ArgumentsSuit'
        BY <3>1 DEF OverloadsInv, Call!ArgumentsSuit, Call!Chosen
      <3> QED BY <3>2, <3>3, <3>4 DEF OverloadsInv
    <2> QED BY <2>1, <2>2, <2>3, <2>4, <2>5, <2>6, <2>7, <2>8, <2>9 DEF Call!Next
  <1> QED BY <1>1, <1>2, PTL DEF Call!Spec

(* A function that is called has arguments of the types of its parameters. *)
THEOREM ArgumentsAlwaysSuit == Call!Spec => []ArgumentsSuit
  <1>1. OverloadsInv => ArgumentsSuit
    BY DEF OverloadsInv, ArgumentsSuit
  <1> QED BY <1>1, OverloadsInvariant, PTL

(* The images of a finite set are finitely many.                           *)
LEMMA ImagesAreFinite ==
    ASSUME NEW D, IsFiniteSet(D), NEW f
    PROVE  IsFiniteSet({f[x] : x \in D})
  <1> DEFINE g == [x \in D |-> f[x]]
             T == {f[x] : x \in D}
  <1>1. g \in Surjection(D, T)
    BY DEF Surjection
  <1> HIDE DEF g, T
  <1> QED BY <1>1, FS_Surjection DEF T

(* The functions of a call are finitely many.                              *)
LEMMA PlacesAreFinite ==
    ASSUME NEW fs \in FunctionLists
    PROVE  IsFiniteSet(PlacesOf(fs))
  <1> DEFINE row == [k \in DOMAIN fs |-> {<<k, i>> : i \in DOMAIN fs[k]}]
             rows == {row[k] : k \in DOMAIN fs}
  <1>1. /\ DOMAIN fs = 1 .. Len(fs) /\ Len(fs) \in Nat
        /\ \A k \in DOMAIN fs : DOMAIN fs[k] = 1 .. Len(fs[k]) /\ Len(fs[k]) \in Nat
    <2>1. DOMAIN fs = 1 .. Len(fs) /\ Len(fs) \in Nat
      BY LenProperties DEF FunctionLists
    <2>2. \A k \in DOMAIN fs : fs[k] \in Seq(Call!Functions)
      BY <2>1, ElementOfSeq DEF FunctionLists
    <2> QED BY <2>1, <2>2, LenProperties
  <1>2. ASSUME NEW k \in DOMAIN fs PROVE IsFiniteSet(row[k])
    <2> DEFINE spot == [i \in DOMAIN fs[k] |-> <<k, i>>]
    <2>1. IsFiniteSet(DOMAIN fs[k])
      BY <1>1, FS_Interval
    <2>2. row[k] = {spot[i] : i \in DOMAIN fs[k]}
      OBVIOUS
    <2> HIDE DEF spot, row
    <2> QED BY <2>1, <2>2, ImagesAreFinite
  <1>3. IsFiniteSet(rows)
    <2>1. IsFiniteSet(DOMAIN fs)
      BY <1>1, FS_Interval
    <2> HIDE DEF row
    <2> QED BY <2>1, ImagesAreFinite
  <1>4. \A T \in rows : IsFiniteSet(T)
    <2> HIDE DEF row
    <2> QED BY <1>2
  <1>5. PlacesOf(fs) = UNION rows
    BY DEF PlacesOf
  <1> HIDE DEF rows
  <1> QED BY <1>3, <1>4, <1>5, FS_UNION

(* The outcome of the search is that of a comparison of all the functions. *)
LEMMA BestIsBest ==
    ASSUME OverloadsInv
    PROVE  Call!BestIsChosen
  <1> SUFFICES ASSUME phase = "done", call.form # "object", uncertain = {}
               PROVE  /\ outcome = "missing" <=> Call!Candidates = {}
                      /\ outcome = "ambiguous" <=> Cardinality(Call!Winners) > 1
                      /\ outcome \notin {"missing", "ambiguous"} =>
                            Call!Winners = {q \in Call!Candidates : Call!FunctionAt(q) = best.function}
    BY DEF Call!BestIsChosen, Cardinality, Call!Cardinality
  <1>1. /\ functions \in FunctionLists /\ at \in Positions /\ at.list > Len(functions)
        /\ ambiguous \in BOOLEAN /\ best \in [function : Call!Functions, score : Int]
        /\ outcome = "missing" <=> best = Call!NoBest
        /\ outcome = "ambiguous" <=> best # Call!NoBest /\ ambiguous
        /\ Summary(Seen(functions, at), functions, call, best, ambiguous)
    BY DEF OverloadsInv, TypeInv, PhaseInv, DoneInv, SearchInv, Program
  <1> DEFINE S == SuitableOnes(PlacesOf(functions), functions, call)
             Score(q) == ScoreIn(functions, call, q)
  <1>2. Seen(functions, at) = PlacesOf(functions)
    BY <1>1, SeenAll
  <1>3. /\ Call!Candidates = S /\ Call!Candidates \subseteq PlacesOf(functions)
        /\ \A q : Call!FunctionAt(q) = FunctionOf(functions, q) /\ Call!ScoreOf(q) = Score(q)
    <2>1. Call!Places = PlacesOf(functions)
      BY DEF Call!Places, PlacesOf
    <2>2. \A q : Call!FunctionAt(q) = FunctionOf(functions, q) /\ Call!ScoreOf(q) = Score(q)
      BY DEF Call!FunctionAt, FunctionOf, Call!ScoreOf, ScoreIn
    <2>3. \A f : Call!Suitable(f) <=> SuitableIn(f, call)
      BY DEF Call!Suitable, Call!Skipped, SuitableIn
    <2> QED BY <2>1, <2>2, <2>3 DEF Call!Candidates, SuitableOnes
  <1>4. /\ Call!Winners \subseteq Call!Candidates /\ IsFiniteSet(Call!Winners)
        /\ Call!Winners = {} => Cardinality(Call!Winners) = 0
    <2>1. Call!Winners \subseteq Call!Candidates
      BY DEF Call!Winners
    <2>2. IsFiniteSet(Call!Winners)
      BY <1>1, <1>3, <2>1, PlacesAreFinite, FS_Subset
    <2> QED BY <2>1, <2>2, FS_EmptySet
  <1>5. \A q \in Call!Candidates : Score(q) \in Nat
    BY <1>1, <1>3, ScoresAre
  <1>6. CASE S = {}
    <2>1. best = Call!NoBest /\ ~ambiguous
      BY <1>1, <1>2, <1>6 DEF Summary
    <2>2. outcome = "missing" /\ outcome # "ambiguous"
      BY <1>1, <2>1
    <2>3. Call!Candidates = {} /\ Cardinality(Call!Winners) = 0
      BY <1>3, <1>4, <1>6
    <2> HIDE DEF S
    <2> QED BY <2>2, <2>3
  <1>7. CASE S # {}
    <2>1. PICK q \in S :
             /\ best.function = FunctionOf(functions, q) /\ best.score = Score(q)
             /\ \A r \in S : Score(r) <= Score(q)
             /\ ambiguous <=> \E r \in S : r # q /\ Score(r) = Score(q)
      BY <1>1, <1>2, <1>7 DEF Summary
    <2> HIDE DEF S
    <2>2. best # Call!NoBest
      <3>1. best.score \in Nat
        BY <1>3, <1>5, <2>1
      <3> QED BY <3>1 DEF Call!NoBest
    <2>3. Call!Winners = {r \in S : Score(r) = Score(q)} /\ q \in Call!Winners
      <3>1. \A r \in S : Score(r) \in Nat
        BY <1>3, <1>5
      <3>2. Call!Winners = {r \in S : \A t \in S : Score(t) <= Score(r)}
        BY <1>3 DEF Call!Winners
      <3> HIDE DEF Score
      <3>3. \A r \in S : (\A t \in S : Score(t) <= Score(r)) <=> Score(r) = Score(q)
        BY <2>1, <3>1
      <3> QED BY <3>2, <3>3
    <2> HIDE DEF Score
    <2>4. CASE ambiguous
      <3>1. PICK r \in S : r # q /\ Score(r) = Score(q)
        BY <2>1, <2>4
      <3>2. Cardinality(Call!Winners) \in Nat /\ Cardinality(Call!Winners) >= 2
        BY <1>4, <2>3, <3>1, TakeTwo
      <3>3. Cardinality(Call!Winners) > 1
        BY <3>2
      <3>4. outcome = "ambiguous" /\ outcome # "missing"
        BY <1>1, <2>2, <2>4
      <3> QED BY <1>3, <1>7, <3>3, <3>4
    <2>5. CASE ~ambiguous
      <3>1. Call!Winners = {q}
        BY <2>1, <2>3, <2>5
      <3>2. Cardinality(Call!Winners) = 1
        BY <3>1, FS_Singleton
      <3>3. outcome # "ambiguous" /\ outcome # "missing"
        BY <1>1, <2>2, <2>5
      <3>4. \A r \in Call!Candidates : Call!FunctionAt(r) = best.function <=> r = q
        <4>1. \A r \in Call!Candidates : Call!FunctionAt(r) = best.function => Score(r) = Score(q)
          BY <1>3, <2>1 DEF Score, ScoreIn
        <4> QED BY <1>3, <2>1, <2>3, <3>1, <4>1
      <3>5. Call!Winners = {r \in Call!Candidates : Call!FunctionAt(r) = best.function}
        BY <1>3, <3>1, <3>4
      <3>6. ~(Cardinality(Call!Winners) > 1)
        BY <3>2
      <3> QED BY <1>3, <1>7, <3>3, <3>5, <3>6
    <2> QED BY <1>1, <2>4, <2>5
  <1> QED BY <1>6, <1>7

(* A call means the function that suits it best.                           *)
THEOREM BestIsAlwaysChosen == Call!Spec => []BestIsChosen
  <1>1. OverloadsInv => BestIsChosen
    BY BestIsBest DEF BestIsChosen
  <1> QED BY <1>1, OverloadsInvariant, PTL

=============================================================================
