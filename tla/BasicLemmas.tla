------------------------------ MODULE BasicLemmas ------------------------------
(***************************************************************************)
(* Facts about numbers, finite sets, sequences and sums over finite sets   *)
(* (SumFunctionOnSet, a fold) that the proofs of this project share.  The  *)
(* library states induction for an operator parameter; here it is the      *)
(* existence of a least element, which needs none.                         *)
(***************************************************************************)
EXTENDS Integers, Sequences, FiniteSets, SequencesExt, FiniteSetsExt,
        FiniteSetTheorems, SequenceTheorems, WellFoundedInduction, TLAPS

(* Every set of natural numbers that is not empty has a least element.     *)
LEMMA LeastNatural ==
    ASSUME NEW S \in SUBSET Nat, S # {}
    PROVE  \E n \in S : \A m \in S : n <= m
  <1> DEFINE R == {ss \in Nat \X Nat : ss[1] < ss[2]}
  <1>1. IsWellFoundedOn(R, Nat)
    BY NatLessThanWellFounded DEF OpToRel
  <1>2. PICK n \in S : \A m \in S : ~(<<m, n>> \in R)
    BY <1>1, WFMin
  <1>3. ASSUME NEW m \in S PROVE n <= m
    <2>1. m \in Nat /\ n \in Nat
      OBVIOUS
    <2>2. <<m, n>> \in Nat \X Nat /\ <<m, n>> \notin R
      BY <1>2, <2>1
    <2>3. ~(m < n)
      BY <2>1, <2>2
    <2> QED BY <2>1, <2>3
  <1> QED BY <1>3

(* A set of numbers up to b has a greatest element, and Max finds it.      *)
LEMMA GreatestNumber ==
    ASSUME NEW b \in Nat, NEW S \in SUBSET (0 .. b), S # {}
    PROVE  /\ Max(S) \in S
           /\ \A m \in S : m <= Max(S)
  <1> DEFINE T == {n \in Nat : \A m \in S : m <= n}
  <1>1. T \in SUBSET Nat /\ b \in T
    OBVIOUS
  <1>2. PICK n \in T : \A k \in T : n <= k
    BY <1>1, LeastNatural
  <1>3. n \in S
    <2> SUFFICES ASSUME n \notin S PROVE FALSE
      OBVIOUS
    <2>1. PICK m \in S : TRUE
      OBVIOUS
    <2>2. m \in Nat /\ m <= n /\ m # n /\ n \in Nat
      BY <2>1
    <2>3. n - 1 \in T
      BY <2>2
    <2> QED BY <1>2, <2>2, <2>3
  <1>4. \E x \in S : \A y \in S : x >= y
    BY <1>3
  <1>5. Max(S) \in S /\ \A y \in S : Max(S) >= y
    BY <1>4 DEF Max
  <1> QED BY <1>5

(* Min of two numbers is the smaller.                                      *)
LEMMA LeastOfTwo ==
    ASSUME NEW a \in Int, NEW b \in Int
    PROVE  Min({a, b}) = IF a <= b THEN a ELSE b
  <1>1. \E x \in {a, b} : \A y \in {a, b} : x <= y
    OBVIOUS
  <1>2. Min({a, b}) \in {a, b} /\ \A y \in {a, b} : Min({a, b}) <= y
    BY <1>1 DEF Min
  <1> QED BY <1>2

(* Adding a new element to a finite set.                                   *)
LEMMA AddOne ==
    ASSUME NEW S, IsFiniteSet(S), NEW x, x \notin S
    PROVE  /\ Cardinality(S) \in Nat
           /\ Cardinality(S \cup {x}) = Cardinality(S) + 1
  BY FS_AddElement, FS_CardinalityType

(* A sequence that is not empty is its front and its last element.         *)
LEMMA FrontAndLast ==
    ASSUME NEW S, NEW s \in Seq(S), s # <<>>
    PROVE  /\ Len(s) \in Nat \ {0}
           /\ Front(s) \in Seq(S)
           /\ Len(Front(s)) = Len(s) - 1
           /\ Last(s) \in S
           /\ Last(s) = s[Len(s)]
           /\ \A i \in 1 .. Len(s) - 1 : Front(s)[i] = s[i]
           /\ s = Append(Front(s), Last(s))
  <1>1. Len(s) \in Nat \ {0} /\ s \in [1 .. Len(s) -> S]
    BY EmptySeq, LenProperties
  <1>2. \A i \in 1 .. Len(s) - 1 : s[i] \in S
    BY <1>1
  <1>3. /\ Front(s) \in Seq(S)
        /\ Len(Front(s)) = Len(s) - 1
        /\ \A i \in 1 .. Len(s) - 1 : Front(s)[i] = s[i]
    BY <1>1, <1>2, SubSeqProperties DEF Front
  <1>4. Last(s) \in S /\ Last(s) = s[Len(s)]
    BY <1>1 DEF Last
  <1> DEFINE again == Append(Front(s), Last(s))
  <1>5. again \in Seq(S) /\ Len(again) = Len(s)
    <2>1. again \in Seq(S) /\ Len(again) = Len(Front(s)) + 1
      BY <1>3, <1>4, AppendProperties
    <2> HIDE DEF again
    <2> QED BY <1>1, <1>3, <2>1
  <1>6. \A i \in 1 .. Len(s) : again[i] = s[i]
    BY <1>1, <1>3, <1>4, AppendProperties
  <1> HIDE DEF again
  <1>7. again = s
    BY <1>5, <1>6, SeqEqual
  <1> QED BY <1>1, <1>3, <1>4, <1>7 DEF again

(* The first n elements of a sequence.                                     *)
LEMMA Prefix ==
    ASSUME NEW S, NEW s \in Seq(S), NEW n \in 0 .. Len(s)
    PROVE  /\ SubSeq(s, 1, n) \in Seq(S)
           /\ Len(SubSeq(s, 1, n)) = n
           /\ \A i \in 1 .. n : SubSeq(s, 1, n)[i] = s[i]
  <1>1. Len(s) \in Nat /\ \A i \in 1 .. n : s[i] \in S
    BY ElementOfSeq, LenProperties
  <1>2. n \in Nat
    BY <1>1
  <1> QED BY <1>1, <1>2, SubSeqProperties

(* Taking an element out of a finite set.                                  *)
LEMMA TakeOne ==
    ASSUME NEW S, IsFiniteSet(S), NEW x \in S
    PROVE  /\ Cardinality(S) \in Nat \ {0}
           /\ Cardinality(S \ {x}) \in Nat
           /\ Cardinality(S) = Cardinality(S \ {x}) + 1
  <1>1. IsFiniteSet(S \ {x}) /\ x \notin S \ {x} /\ S = (S \ {x}) \cup {x}
    BY FS_Subset
  <1> QED BY <1>1, AddOne

(* A set with two elements has at least two.                               *)
LEMMA TakeTwo ==
    ASSUME NEW S, IsFiniteSet(S), NEW x \in S, NEW y \in S, x # y
    PROVE  Cardinality(S) \in Nat /\ Cardinality(S) >= 2
  <1>1. /\ Cardinality(S \ {x}) \in Nat
        /\ Cardinality(S) = Cardinality(S \ {x}) + 1
    BY TakeOne
  <1>2. IsFiniteSet(S \ {x}) /\ y \in S \ {x}
    BY FS_Subset
  <1>3. Cardinality(S \ {x}) \in Nat \ {0}
    BY <1>2, TakeOne
  <1> QED BY <1>1, <1>3

(* The number of elements of a set that one element joins or leaves.       *)
Bit(b) == IF b THEN 1 ELSE 0

(* Two sets that differ at most in x.                                      *)
LEMMA SetsDiffer ==
    ASSUME NEW P, NEW Q, IsFiniteSet(P), NEW x, P \ {x} = Q \ {x}
    PROVE  /\ Cardinality(P) \in Nat /\ Cardinality(Q) \in Nat
           /\ Cardinality(Q) + Bit(x \in P) = Cardinality(P) + Bit(x \in Q)
  <1> DEFINE R == P \ {x}
  <1>1. IsFiniteSet(R) /\ x \notin R
    BY FS_Subset
  <1>2. /\ Cardinality(R) \in Nat
        /\ Cardinality(R \cup {x}) = Cardinality(R) + 1
    BY <1>1, AddOne
  <1>3. /\ x \in P => P = R \cup {x}
        /\ x \notin P => P = R
        /\ x \in Q => Q = R \cup {x}
        /\ x \notin Q => Q = R
    OBVIOUS
  <1> HIDE DEF R
  <1>4. Cardinality(P) = Cardinality(R) + Bit(x \in P)
    <2>1. CASE x \in P
      BY <1>2, <1>3, <2>1 DEF Bit
    <2>2. CASE x \notin P
      BY <1>2, <1>3, <2>2 DEF Bit
    <2> QED BY <2>1, <2>2
  <1>5. Cardinality(Q) = Cardinality(R) + Bit(x \in Q)
    <2>1. CASE x \in Q
      BY <1>2, <1>3, <2>1 DEF Bit
    <2>2. CASE x \notin Q
      BY <1>2, <1>3, <2>2 DEF Bit
    <2> QED BY <2>1, <2>2
  <1>6. Bit(x \in P) \in Nat /\ Bit(x \in Q) \in Nat
    BY DEF Bit
  <1> DEFINE a == Bit(x \in P)
             b == Bit(x \in Q)
             r == Cardinality(R)
  <1>7. Cardinality(P) = r + a /\ Cardinality(Q) = r + b /\ a \in Nat /\ b \in Nat /\ r \in Nat
    BY <1>2, <1>4, <1>5, <1>6
  <1> HIDE DEF a, b, r
  <1>8. /\ Cardinality(P) \in Nat /\ Cardinality(Q) \in Nat
        /\ Cardinality(Q) + a = Cardinality(P) + b
    BY <1>7
  <1> QED BY <1>8 DEF a, b

(* Concatenating one element appends it.                                   *)
LEMMA ConcatOne ==
    ASSUME NEW S, NEW s \in Seq(S), NEW a \in S
    PROVE  s \o <<a>> = Append(s, a)
  BY AppendIsConcat

(* Two sequences of one element make one of two.                           *)
LEMMA JoinOnes ==
    ASSUME NEW S, NEW a \in S, NEW b \in S
    PROVE  <<a>> \o <<b>> = <<a, b>>
  <1>1. <<a>> \in Seq(S) /\ <<b>> \in Seq(S)
    OBVIOUS
  <1>2. <<a>> \o <<b>> = Append(<<a>>, b)
    BY <1>1, ConcatOne
  <1>3. /\ Append(<<a>>, b) \in Seq(S) /\ Len(Append(<<a>>, b)) = 2
        /\ Append(<<a>>, b)[1] = a /\ Append(<<a>>, b)[2] = b
    BY <1>1, AppendProperties
  <1>4. <<a, b>> \in Seq(S) /\ Len(<<a, b>>) = 2 /\ <<a, b>>[1] = a /\ <<a, b>>[2] = b
    OBVIOUS
  <1>5. \A i \in 1 .. 2 : Append(<<a>>, b)[i] = <<a, b>>[i]
    <2>1. \A i \in 1 .. 2 : i = 1 \/ i = 2
      OBVIOUS
    <2> QED BY <1>3, <1>4, <2>1
  <1>6. Append(<<a>>, b) = <<a, b>>
    BY <1>3, <1>4, <1>5, SeqEqual
  <1> QED BY <1>2, <1>6

(* Concatenating two elements appends one after the other.                 *)
LEMMA ConcatTwo ==
    ASSUME NEW S, NEW s \in Seq(S), NEW a \in S, NEW b \in S
    PROVE  s \o <<a, b>> = Append(Append(s, a), b)
  <1>1. <<a>> \in Seq(S) /\ <<b>> \in Seq(S) /\ Append(s, a) \in Seq(S)
    BY AppendProperties
  <1>2. <<a>> \o <<b>> = <<a, b>>
    BY JoinOnes
  <1>3. (s \o <<a>>) \o <<b>> = s \o (<<a>> \o <<b>>)
    BY <1>1, ConcatAssociative
  <1>4. s \o <<a>> = Append(s, a)
    BY ConcatOne
  <1>5. Append(s, a) \o <<b>> = Append(Append(s, a), b)
    BY <1>1, ConcatOne
  <1> QED BY <1>2, <1>3, <1>4, <1>5

(* The elements of a sequence.                                             *)
LEMMA SetOfSequence ==
    ASSUME NEW S, NEW s \in Seq(S)
    PROVE  /\ ToSet(s) \subseteq S
           /\ \A i \in 1 .. Len(s) : s[i] \in ToSet(s)
           /\ \A x \in ToSet(s) : \E i \in 1 .. Len(s) : x = s[i]
           /\ s = <<>> <=> ToSet(s) = {}
  <1>1. Len(s) \in Nat /\ DOMAIN s = 1 .. Len(s) /\ \A i \in 1 .. Len(s) : s[i] \in S
    BY LenProperties, ElementOfSeq
  <1>2. s # <<>> => 1 \in DOMAIN s
    BY <1>1, EmptySeq
  <1>3. s = <<>> => DOMAIN s = {}
    BY <1>1
  <1> QED BY <1>1, <1>2, <1>3 DEF ToSet

(* An element more.                                                        *)
LEMMA SetOfAppend ==
    ASSUME NEW S, NEW s \in Seq(S), NEW e \in S
    PROVE  ToSet(Append(s, e)) = ToSet(s) \cup {e}
  <1> DEFINE n == Len(s)
             long == Append(s, e)
  <1>1. n \in Nat /\ DOMAIN s = 1 .. n
    BY LenProperties
  <1>2. /\ long \in Seq(S) /\ Len(long) = n + 1 /\ long[n + 1] = e
        /\ \A i \in 1 .. n : long[i] = s[i]
    BY AppendProperties
  <1>3. DOMAIN long = 1 .. n + 1
    BY <1>2, LenProperties
  <1> HIDE DEF n, long
  <1>4. /\ \A i \in 1 .. n + 1 : i = n + 1 \/ i \in 1 .. n
        /\ \A i \in 1 .. n : i \in 1 .. n + 1
        /\ n + 1 \in 1 .. n + 1
    BY <1>1
  <1>5. ToSet(long) = ToSet(s) \cup {e}
    BY <1>1, <1>2, <1>3, <1>4 DEF ToSet
  <1> QED BY <1>5 DEF long

(* A sequence that is not empty is its head and its tail.                  *)
LEMMA SetOfHeadTail ==
    ASSUME NEW S, NEW s \in Seq(S), s # <<>>
    PROVE  /\ Head(s) \in S /\ Tail(s) \in Seq(S)
           /\ ToSet(s) = {Head(s)} \cup ToSet(Tail(s))
  <1> DEFINE n == Len(s)
             t == Tail(s)
  <1>1. n \in Nat \ {0} /\ DOMAIN s = 1 .. n
    BY EmptySeq, LenProperties
  <1>2. /\ Head(s) \in S /\ t \in Seq(S) /\ Len(t) = n - 1 /\ Head(s) = s[1]
        /\ \A i \in 1 .. n - 1 : t[i] = s[i + 1]
    BY HeadTailProperties
  <1>3. DOMAIN t = 1 .. n - 1
    BY <1>2, LenProperties
  <1> HIDE DEF n, t
  <1>4. /\ \A i \in 1 .. n : i = 1 \/ (i - 1 \in 1 .. n - 1 /\ (i - 1) + 1 = i)
        /\ \A i \in 1 .. n - 1 : i + 1 \in 1 .. n
        /\ 1 \in 1 .. n
    BY <1>1
  <1>5. ToSet(s) \subseteq {Head(s)} \cup ToSet(t)
    <2> SUFFICES ASSUME NEW i \in 1 .. n PROVE s[i] \in {s[1]} \cup ToSet(t)
      BY <1>1, <1>2 DEF ToSet
    <2>1. CASE i = 1
      BY <2>1
    <2>2. CASE i - 1 \in 1 .. n - 1 /\ (i - 1) + 1 = i
      BY <1>2, <1>3, <2>2 DEF ToSet
    <2> QED BY <1>4, <2>1, <2>2
  <1>6. {Head(s)} \cup ToSet(t) \subseteq ToSet(s)
    BY <1>1, <1>2, <1>3, <1>4 DEF ToSet
  <1> QED BY <1>2, <1>5, <1>6 DEF t

(* The elements of a prefix.                                               *)
LEMMA SetOfPrefix ==
    ASSUME NEW S, NEW s \in Seq(S), NEW n \in 0 .. Len(s)
    PROVE  ToSet(SubSeq(s, 1, n)) = {s[i] : i \in 1 .. n}
  <1> DEFINE first == SubSeq(s, 1, n)
  <1>1. first \in Seq(S) /\ Len(first) = n /\ \A i \in 1 .. n : first[i] = s[i]
    BY Prefix
  <1>2. DOMAIN first = 1 .. n
    BY <1>1, LenProperties
  <1> HIDE DEF first
  <1>3. ToSet(first) = {s[i] : i \in 1 .. n}
    BY <1>1, <1>2 DEF ToSet
  <1> QED BY <1>3 DEF first

(***************************************************************************)
(* Folds.  A function over the subsets of a finite set that is defined     *)
(* from the subset without a chosen element exists, and the sum of a       *)
(* function is one of them.                                                *)
(***************************************************************************)
Recursion(S, V, b, c, step) ==
    /\ IsFiniteSet(S) /\ b \in V
    /\ \A s \in SUBSET S : s # {} => c[s] \in s
    /\ \A x \in S, v \in V : step[x][v] \in V
Recursive(f, S, V, b, c, step) ==
    /\ f \in [SUBSET S -> V]
    /\ \A s \in SUBSET S : f[s] = IF s = {} THEN b ELSE step[c[s]][f[s \ {c[s]}]]

(* A recursion over the subsets of a finite set has a solution: the least  *)
(* size without one would have one.                                        *)
LEMMA FiniteRecursion ==
    ASSUME NEW S, NEW V, NEW b, NEW c, NEW step, Recursion(S, V, b, c, step)
    PROVE  \E f : Recursive(f, S, V, b, c, step)
  <1> DEFINE Up(n) == {s \in SUBSET S : Cardinality(s) <= n}
             Value(f, s) == IF s = {} THEN b ELSE step[c[s]][f[s \ {c[s]}]]
             Good(f, n) == \A s \in Up(n) : f[s] = Value(f, s)
             Bad == {n \in Nat : ~\E f \in [SUBSET S -> V] : Good(f, n)}
  <1>0. /\ IsFiniteSet(S) /\ b \in V
        /\ \A s \in SUBSET S : s # {} => c[s] \in s
        /\ \A x \in S, v \in V : step[x][v] \in V
    BY DEF Recursion
  <1>1. \A s \in SUBSET S : IsFiniteSet(s) /\ Cardinality(s) \in Nat /\ Cardinality(s) <= Cardinality(S)
    BY <1>0, FS_Subset, FS_CardinalityType
  <1>2. \A s \in SUBSET S : s # {} =>
           /\ c[s] \in S /\ s \ {c[s]} \in SUBSET S
           /\ Cardinality(s \ {c[s]}) = Cardinality(s) - 1
    BY <1>0, <1>1, FS_RemoveElement
  <1>3. \A s \in SUBSET S : Cardinality(s) = 0 <=> s = {}
    BY <1>1, FS_EmptySet
  <1>4. Bad = {}
    <2> SUFFICES ASSUME Bad # {} PROVE FALSE
      OBVIOUS
    <2>1. PICK n \in Bad : \A m \in Bad : n <= m
      <3>1. Bad \in SUBSET Nat
        OBVIOUS
      <3> HIDE DEF Bad
      <3> QED BY <3>1, LeastNatural
    <2>2. n \in Nat /\ ~\E f \in [SUBSET S -> V] : Good(f, n)
      BY <2>1
    <2>3. CASE n = 0
      <3> DEFINE f == [s \in SUBSET S |-> b]
      <3>1. f \in [SUBSET S -> V]
        BY <1>0
      <3>2. \A s \in Up(n) : s = {}
        <4> SUFFICES ASSUME NEW s \in SUBSET S, Cardinality(s) <= n PROVE s = {}
          OBVIOUS
        <4>1. Cardinality(s) = 0
          BY <1>1, <2>3
        <4> QED BY <1>3, <4>1
      <3>3. Good(f, n)
        <4>1. ASSUME NEW s \in Up(n) PROVE f[s] = Value(f, s)
          <5>1. s = {} /\ s \in SUBSET S
            BY <3>2
          <5>2. f[s] = b
            BY <5>1
          <5> QED BY <5>1, <5>2
        <4> QED BY <4>1
      <3> QED BY <2>2, <3>1, <3>3
    <2>4. CASE n # 0
      <3>1. n - 1 \in Nat /\ n - 1 \notin Bad
        <4> HIDE DEF Bad
        <4>1. n - 1 \in Nat /\ ~(n <= n - 1)
          BY <2>2, <2>4
        <4> QED BY <2>1, <4>1
      <3>2. PICK f \in [SUBSET S -> V] : Good(f, n - 1)
        BY <3>1
      <3> DEFINE g == [s \in SUBSET S |-> Value(f, s)]
      <3>3. g \in [SUBSET S -> V]
        <4>1. \A s \in SUBSET S : s # {} => c[s] \in S /\ f[s \ {c[s]}] \in V
          BY <1>0, <1>2, <3>2
        <4>2. \A s \in SUBSET S : Value(f, s) \in V
          BY <1>0, <4>1
        <4> QED BY <4>2
      <3>4. \A s \in Up(n - 1) : g[s] = f[s]
        BY <3>2
      <3>5. ASSUME NEW s \in Up(n) PROVE g[s] = Value(g, s)
        <4>1. CASE s = {}
          BY <4>1
        <4>2. CASE s # {}
          <5>1. s \ {c[s]} \in Up(n - 1)
            <6>1. /\ s \in SUBSET S /\ Cardinality(s) \in Nat /\ Cardinality(s) <= n
                  /\ s \ {c[s]} \in SUBSET S
                  /\ Cardinality(s \ {c[s]}) = Cardinality(s) - 1
              BY <1>1, <1>2, <3>5, <4>2
            <6>2. Cardinality(s \ {c[s]}) <= n - 1
              BY <2>2, <6>1
            <6> QED BY <6>1, <6>2
          <5>2. g[s \ {c[s]}] = f[s \ {c[s]}]
            BY <3>4, <5>1
          <5> QED BY <4>2, <5>2
        <4> QED BY <4>1, <4>2
      <3>6. Good(g, n)
        BY <3>5
      <3> HIDE DEF g, Good
      <3> QED BY <2>2, <3>3, <3>6
    <2> QED BY <2>3, <2>4
  <1>5. PICK f \in [SUBSET S -> V] : Good(f, Cardinality(S))
    BY <1>0, <1>4, FS_CardinalityType
  <1>6. \A s \in SUBSET S : s \in Up(Cardinality(S))
    BY <1>1
  <1> QED BY <1>5, <1>6 DEF Recursive

(* g gives the sum of f over every subset of S.                            *)
Sums(g, f, S) ==
    \A s \in SUBSET S :
        /\ g[s] \in Int
        /\ g[s] = IF s = {} THEN 0
                  ELSE f[CHOOSE x \in s : TRUE] + g[s \ {CHOOSE x \in s : TRUE}]

(* Sums over all the subsets exist.                                        *)
LEMMA SumsExist ==
    ASSUME NEW S, IsFiniteSet(S), NEW f, \A x \in S : f[x] \in Int
    PROVE  \E g : Sums(g, f, S)
  <1> DEFINE c == [s \in SUBSET S |-> CHOOSE x \in s : TRUE]
             step == [x \in S |-> [v \in Int |-> f[x] + v]]
  <1>1. \A s \in SUBSET S : s # {} => c[s] \in s
    OBVIOUS
  <1>2. \A x \in S, v \in Int : step[x][v] \in Int
    OBVIOUS
  <1>3. PICK g : Recursive(g, S, Int, 0, c, step)
    <2> HIDE DEF c, step
    <2>1. Recursion(S, Int, 0, c, step)
      BY <1>1, <1>2 DEF Recursion
    <2> QED BY <2>1, FiniteRecursion
  <1>4. /\ g \in [SUBSET S -> Int]
        /\ \A s \in SUBSET S : g[s] = IF s = {} THEN 0 ELSE step[c[s]][g[s \ {c[s]}]]
    <2> HIDE DEF c, step
    <2> QED BY <1>3 DEF Recursive
  <1>5. \A s \in SUBSET S : s # {} => c[s] \in s /\ s \ {c[s]} \in SUBSET S /\ g[s \ {c[s]}] \in Int
    BY <1>1, <1>4
  <1>6. ASSUME NEW s \in SUBSET S
        PROVE  g[s] = IF s = {} THEN 0 ELSE f[c[s]] + g[s \ {c[s]}]
    <2>1. s # {} => step[c[s]][g[s \ {c[s]}]] = f[c[s]] + g[s \ {c[s]}]
      <3>1. s # {} => c[s] \in S /\ g[s \ {c[s]}] \in Int
        BY <1>5
      <3> HIDE DEF c
      <3> QED BY <3>1
    <2> HIDE DEF c, step
    <2> QED BY <1>4, <2>1
  <1>7. \A s \in SUBSET S : c[s] = CHOOSE x \in s : TRUE
    OBVIOUS
  <1>8. Sums(g, f, S)
    <2> HIDE DEF c
    <2> QED BY ZenonT(30), <1>4, <1>6, <1>7 DEF Sums
  <1> QED BY <1>8

(* They are what SumFunctionOnSet, a fold, chooses.                        *)
LEMMA SumIs ==
    ASSUME NEW S, IsFiniteSet(S), NEW f, NEW g, Sums(g, f, S)
    PROVE  SumFunctionOnSet(f, S) = g[S]
  <1> DEFINE Is(k) == k = [s \in SUBSET S |-> IF s = {} THEN 0
                              ELSE f[CHOOSE x \in s : TRUE] + k[s \ {CHOOSE x \in s : TRUE}]]
             h == CHOOSE k : Is(k)
             c == [s \in SUBSET S |-> CHOOSE x \in s : TRUE]
             short == [s \in SUBSET S |-> g[s]]
  <1>1. SumFunctionOnSet(f, S) = h[S]
    BY DEF SumFunctionOnSet, FoldFunctionOnSet, MapThenFoldSet
  <1>2. ASSUME NEW s \in SUBSET S
        PROVE  /\ s # {} => c[s] \in s /\ s \ {c[s]} \in SUBSET S
               /\ g[s] = IF s = {} THEN 0 ELSE f[c[s]] + g[s \ {c[s]}]
    <2>1. c[s] = CHOOSE x \in s : TRUE
      OBVIOUS
    <2>2. s # {} => c[s] \in s
      BY <2>1
    <2>3. g[s] = IF s = {} THEN 0
                 ELSE f[CHOOSE x \in s : TRUE] + g[s \ {CHOOSE x \in s : TRUE}]
      BY DEF Sums
    <2> HIDE DEF c
    <2> QED BY <2>1, <2>2, <2>3
  <1>3. Is(short)
    <2>1. ASSUME NEW s \in SUBSET S
          PROVE  short[s] = IF s = {} THEN 0
                   ELSE f[CHOOSE x \in s : TRUE] + short[s \ {CHOOSE x \in s : TRUE}]
      <3>1. /\ short[s] = g[s] /\ c[s] = CHOOSE x \in s : TRUE
            /\ s # {} => short[s \ {c[s]}] = g[s \ {c[s]}]
        BY <1>2
      <3> HIDE DEF c, short
      <3> QED BY <1>2, <3>1
    <2>2. short = [s \in SUBSET S |-> short[s]]
      OBVIOUS
    <2> HIDE DEF short
    <2> QED BY <2>1, <2>2
  <1>4. Is(h)
    <2> HIDE DEF Is, short
    <2> QED BY <1>3
  <1>5. ASSUME NEW s \in SUBSET S
        PROVE  h[s] = IF s = {} THEN 0 ELSE f[c[s]] + h[s \ {c[s]}]
    <2>1. h = [t \in SUBSET S |-> IF t = {} THEN 0
                     ELSE f[CHOOSE x \in t : TRUE] + h[t \ {CHOOSE x \in t : TRUE}]]
      BY <1>4
    <2>2. c[s] = CHOOSE x \in s : TRUE
      OBVIOUS
    <2> HIDE DEF c, h
    <2> QED BY <2>1, <2>2
  <1> HIDE DEF c, h, Is, short
  <1> DEFINE Differ == {t \in SUBSET S : h[t] # g[t]}
             Sizes == {Cardinality(t) : t \in Differ}
  <1>6. ASSUME Differ # {} PROVE FALSE
    <2>1. \A t \in SUBSET S : IsFiniteSet(t) /\ Cardinality(t) \in Nat
      BY FS_Subset, FS_CardinalityType
    <2>2. Sizes \in SUBSET Nat /\ Sizes # {}
      BY <1>6, <2>1
    <2>3. PICK n \in Sizes : \A m \in Sizes : n <= m
      <3> HIDE DEF Sizes
      <3> QED BY <2>2, LeastNatural
    <2>4. PICK t \in Differ : n = Cardinality(t)
      BY <2>3
    <2>5. t \in SUBSET S /\ h[t] # g[t]
      BY <2>4
    <2>6. t # {} /\ c[t] \in t /\ t \ {c[t]} \in SUBSET S
      BY <1>2, <1>5, <2>5
    <2>7. h[t \ {c[t]}] # g[t \ {c[t]}]
      BY <1>2, <1>5, <2>5, <2>6
    <2>8. /\ Cardinality(t \ {c[t]}) \in Sizes
          /\ Cardinality(t \ {c[t]}) = n - 1 /\ n \in Nat
      BY <2>1, <2>2, <2>3, <2>4, <2>5, <2>6, <2>7, FS_RemoveElement
    <2>9. n <= n - 1
      <3> HIDE DEF Sizes
      <3> QED BY <2>3, <2>8
    <2> QED BY <2>8, <2>9
  <1>7. S \in SUBSET S
    OBVIOUS
  <1> QED BY <1>1, <1>6, <1>7

(* Any element may be taken out first: the order of a sum does not matter. *)
LEMMA SumRemove ==
    ASSUME NEW S, IsFiniteSet(S), NEW f, \A x \in S : f[x] \in Int, NEW a \in S
    PROVE  /\ SumFunctionOnSet(f, S) \in Int /\ SumFunctionOnSet(f, S \ {a}) \in Int
           /\ SumFunctionOnSet(f, S) = f[a] + SumFunctionOnSet(f, S \ {a})
  <1>1. PICK g : Sums(g, f, S)
    BY SumsExist
  <1>2. ASSUME NEW s \in SUBSET S
        PROVE  /\ IsFiniteSet(s) /\ Cardinality(s) \in Nat /\ g[s] \in Int
               /\ s # {} => \E x \in s : g[s] = f[x] + g[s \ {x}]
    <2>1. s # {} => (CHOOSE x \in s : TRUE) \in s
      OBVIOUS
    <2> QED BY <1>1, <2>1, FS_Subset, FS_CardinalityType DEF Sums
  <1> DEFINE Wrong(t) == \E x \in t : g[t] # f[x] + g[t \ {x}]
             Differ == {t \in SUBSET S : Wrong(t)}
             Sizes == {Cardinality(t) : t \in Differ}
  <1>3. ASSUME Differ # {} PROVE FALSE
    <2>1. Sizes \in SUBSET Nat /\ Sizes # {}
      BY <1>2, <1>3
    <2>2. PICK n \in Sizes : \A m \in Sizes : n <= m
      <3> HIDE DEF Sizes
      <3> QED BY <2>1, LeastNatural
    <2>3. PICK t \in Differ : n = Cardinality(t)
      BY <2>2
    <2>4. PICK x \in t : g[t] # f[x] + g[t \ {x}]
      BY <2>3
    <2>5. PICK y \in t : g[t] = f[y] + g[t \ {y}]
      BY <1>2, <2>3, <2>4
    <2>6. t \in SUBSET S /\ x # y /\ n \in Nat
      BY <2>1, <2>2, <2>3, <2>4, <2>5
    <2>7. ASSUME NEW u \in t
          PROVE  /\ t \ {u} \in SUBSET S
                 /\ \A v \in t \ {u} : g[t \ {u}] = f[v] + g[(t \ {u}) \ {v}]
      <3>1. t \ {u} \in SUBSET S /\ Cardinality(t \ {u}) = n - 1
        BY <1>2, <2>3, <2>6, FS_RemoveElement
      <3>2. t \ {u} \notin Differ
        <4> SUFFICES ASSUME t \ {u} \in Differ PROVE FALSE
          OBVIOUS
        <4>1. n - 1 \in Sizes
          BY <3>1
        <4> HIDE DEF Sizes
        <4>2. n <= n - 1
          BY <2>2, <4>1
        <4> QED BY <2>6, <4>2
      <3> QED BY <3>1, <3>2
    <2>8. /\ g[t \ {y}] = f[x] + g[(t \ {y}) \ {x}]
          /\ g[t \ {x}] = f[y] + g[(t \ {x}) \ {y}]
      BY <2>6, <2>7
    <2>9. /\ (t \ {y}) \ {x} = (t \ {x}) \ {y} /\ (t \ {y}) \ {x} \in SUBSET S
          /\ f[x] \in Int /\ f[y] \in Int /\ t \ {x} \in SUBSET S /\ t \ {y} \in SUBSET S
      BY <2>4, <2>6
    <2>10. g[(t \ {y}) \ {x}] \in Int
      BY <1>2, <2>9
    <2> DEFINE rest == g[(t \ {y}) \ {x}]
    <2>11. /\ g[t] = f[y] + (f[x] + rest) /\ g[t] # f[x] + (f[y] + rest)
           /\ f[x] \in Int /\ f[y] \in Int /\ rest \in Int
      BY <2>4, <2>5, <2>8, <2>9, <2>10
    <2> HIDE DEF rest
    <2> QED BY <2>11
  <1>4. g[S] = f[a] + g[S \ {a}]
    <2>1. S \notin Differ
      BY <1>3
    <2> QED BY <2>1
  <1>5. SumFunctionOnSet(f, S) = g[S]
    BY <1>1, SumIs
  <1>6. SumFunctionOnSet(f, S \ {a}) = g[S \ {a}]
    <2>1. S \ {a} \in SUBSET S
      OBVIOUS
    <2>2. Sums(g, f, S \ {a})
      BY <1>1 DEF Sums
    <2> QED BY <1>2, <2>1, <2>2, SumIs
  <1>7. g[S] \in Int /\ g[S \ {a}] \in Int
    BY <1>2
  <1> QED BY <1>4, <1>5, <1>6, <1>7

(* The sum depends on the values only.                                     *)
LEMMA SumAgrees ==
    ASSUME NEW S, IsFiniteSet(S), NEW f, NEW f2, \A x \in S : f[x] \in Int /\ f2[x] = f[x]
    PROVE  SumFunctionOnSet(f, S) = SumFunctionOnSet(f2, S)
  <1>1. PICK g : Sums(g, f, S)
    BY SumsExist
  <1>2. Sums(g, f2, S)
    <2> SUFFICES ASSUME NEW s \in SUBSET S
                 PROVE  /\ g[s] \in Int
                        /\ g[s] = IF s = {} THEN 0
                             ELSE f2[CHOOSE x \in s : TRUE] + g[s \ {CHOOSE x \in s : TRUE}]
      BY DEF Sums
    <2>1. s # {} => (CHOOSE x \in s : TRUE) \in S
      OBVIOUS
    <2> QED BY <1>1, <2>1 DEF Sums
  <1> QED BY <1>1, <1>2, SumIs

(* Nothing summed up is 0.                                                 *)
LEMMA SumOfNothing ==
    ASSUME NEW f
    PROVE  SumFunctionOnSet(f, {}) = 0
  <1>1. IsFiniteSet({})
    BY FS_EmptySet
  <1>2. PICK g : Sums(g, f, {})
    BY <1>1, SumsExist
  <1>3. g[{}] = 0
    BY <1>2 DEF Sums
  <1> QED BY <1>1, <1>2, <1>3, SumIs

(***************************************************************************)
(* Folds from the left.                                                    *)
(***************************************************************************)
(* The sets 1 .. i, by which a fold over 1 .. n goes.                      *)
LEMMA UpToNumber ==
    ASSUME NEW n \in Nat, NEW i \in 1 .. n
    PROVE  /\ 1 .. i \in SUBSET (1 .. n) /\ 1 .. i # {}
           /\ Max(1 .. i) = i
           /\ (1 .. i) \ {i} = 1 .. i - 1
  <1>1. \A j \in 1 .. i : j <= i
    OBVIOUS
  <1>2. i \in 1 .. i
    OBVIOUS
  <1>3. Max(1 .. i) \in 1 .. i /\ \A j \in 1 .. i : Max(1 .. i) >= j
    <2>1. \E x \in 1 .. i : \A y \in 1 .. i : x >= y
      BY <1>1, <1>2
    <2> QED BY <2>1 DEF Max
  <1> QED BY <1>1, <1>2, <1>3

(* The solutions of a recursion that takes the greatest element first.     *)
LeftRecursive(f, n, V, b, step) ==
    /\ f \in [SUBSET (1 .. n) -> V]
    /\ \A s \in SUBSET (1 .. n) :
          /\ s # {} => Max(s) \in s
          /\ f[s] = IF s = {} THEN b ELSE step[Max(s)][f[s \ {Max(s)}]]
(* It has one.                                                             *)
LEMMA LeftRecursion ==
    ASSUME NEW n \in Nat, NEW V, NEW b \in V, NEW step,
           \A i \in 1 .. n, v \in V : step[i][v] \in V
    PROVE  \E f : LeftRecursive(f, n, V, b, step)
  <1> DEFINE S == 1 .. n
             c == [s \in SUBSET S |-> Max(s)]
  <1>1. IsFiniteSet(S)
    BY FS_Interval
  <1>2. \A s \in SUBSET S : s # {} => Max(s) \in s
    <2> SUFFICES ASSUME NEW s \in SUBSET S, s # {} PROVE Max(s) \in s
      OBVIOUS
    <2>1. s \in SUBSET (0 .. n)
      OBVIOUS
    <2> QED BY <2>1, GreatestNumber DEF Max
  <1>3. \A s \in SUBSET S : c[s] = Max(s)
    OBVIOUS
  <1> HIDE DEF c
  <1>4. Recursion(S, V, b, c, step)
    <2> HIDE DEF S
    <2> QED BY <1>1, <1>2, <1>3 DEF Recursion, S
  <1>5. PICK f : Recursive(f, S, V, b, c, step)
    <2> HIDE DEF S
    <2> QED BY <1>4, FiniteRecursion
  <1>6. \A s \in SUBSET S : f[s] = IF s = {} THEN b ELSE step[Max(s)][f[s \ {Max(s)}]]
    BY <1>3, <1>5 DEF Recursive
  <1> QED BY <1>2, <1>5, <1>6 DEF Recursive, LeftRecursive

(* What a fold has before and after each of its steps: P[i] after i.       *)
LEMMA FoldGrows ==
    ASSUME NEW n \in Nat, NEW P, NEW h, h[{}] \in P[0],
           \A i \in 1 .. n : h[1 .. i - 1] \in P[i - 1] => h[1 .. i] \in P[i]
    PROVE  h[1 .. n] \in P[n]
  <1> DEFINE Wrong == {i \in 0 .. n : h[1 .. i] \notin P[i]}
  <1> SUFFICES ASSUME h[1 .. n] \notin P[n] PROVE FALSE
    OBVIOUS
  <1>1. Wrong \in SUBSET Nat /\ n \in Wrong
    OBVIOUS
  <1>2. PICK k \in Wrong : \A j \in Wrong : k <= j
    <2> HIDE DEF Wrong
    <2> QED BY <1>1, LeastNatural
  <1>3. k \in 0 .. n /\ h[1 .. k] \notin P[k]
    BY <1>2
  <1>4. k # 0
    <2>1. 1 .. 0 = {}
      OBVIOUS
    <2> QED BY <1>3, <2>1
  <1>5. k \in 1 .. n /\ k - 1 \in 0 .. n /\ k - 1 \notin Wrong
    <2>1. k \in 1 .. n /\ k - 1 \in 0 .. n /\ ~(k <= k - 1)
      BY <1>3, <1>4
    <2> HIDE DEF Wrong
    <2> QED BY <1>2, <2>1
  <1>6. h[1 .. k - 1] \in P[k - 1]
    BY <1>5
  <1> QED BY <1>3, <1>5, <1>6

(* What holds at the start of a fold and over each of its steps holds at   *)
(* its end.                                                                *)
LEMMA FoldStays ==
    ASSUME NEW n \in Nat, NEW V, NEW h, h[{}] \in V,
           \A i \in 1 .. n : h[1 .. i - 1] \in V => h[1 .. i] \in V
    PROVE  h[1 .. n] \in V
  <1> DEFINE P == [i \in 0 .. n |-> V]
  <1>1. \A i \in 0 .. n : P[i] = V
    OBVIOUS
  <1>2. 0 \in 0 .. n /\ n \in 0 .. n /\ \A i \in 1 .. n : i \in 0 .. n /\ i - 1 \in 0 .. n
    OBVIOUS
  <1> HIDE DEF P
  <1>3. h[{}] \in P[0] /\ \A i \in 1 .. n : h[1 .. i - 1] \in P[i - 1] => h[1 .. i] \in P[i]
    BY <1>1, <1>2
  <1>4. h[1 .. n] \in P[n]
    BY <1>3, FoldGrows
  <1> QED BY <1>1, <1>2, <1>4

====
