-------------------------- MODULE CollectionsProofs --------------------------
(***************************************************************************)
(* Collections, for any contents, number of objects and length, and for    *)
(* any sequence of the functions, with callbacks that change the           *)
(* collection while a native loop waits.                                   *)
(*                                                                         *)
(* None of the three properties is inductive.  That keys differ needs to   *)
(* know where a loop stands: what it has made so far bears names of        *)
(* entries before its index, of a map whose entries no callback has        *)
(* changed (MapCall, SetCall); one that has ends the run in undefined      *)
(* behaviour, or the loop.  That the charge is exact needs that nothing is *)
(* half done between calls.  That a stale index takes a callback that      *)
(* moved the list needs that, without one, every index, bound and place a  *)
(* function keeps is inside the list (ListCall).  The heap is in none of   *)
(* the invariants: no step looks at a reference count to decide what the   *)
(* collection becomes.                                                     *)
(***************************************************************************)
EXTENDS Collections, BasicLemmas

(***************************************************************************)
(* Sequences of whatever they have.                                        *)
(***************************************************************************)
IsSeq(s) == s \in Seq(ToSet(s))

(* A sequence over any set is one.                                         *)
LEMMA SeqIs ==
    ASSUME NEW S, NEW s \in Seq(S)
    PROVE  IsSeq(s)
  <1>1. Len(s) \in Nat /\ s \in [1 .. Len(s) -> S]
    BY LenProperties
  <1>2. \A i \in 1 .. Len(s) : s[i] \in ToSet(s)
    BY <1>1 DEF ToSet
  <1>3. s = [i \in 1 .. Len(s) |-> s[i]]
    BY <1>1
  <1> DEFINE n == Len(s)
  <1>4. n \in Nat /\ \A i \in 1 .. n : s[i] \in ToSet(s)
    BY <1>1, <1>2
  <1>5. [i \in 1 .. n |-> s[i]] \in Seq(ToSet(s))
    <2> HIDE DEF n
    <2> QED BY <1>4, IsASeq
  <1> QED BY <1>3, <1>5 DEF IsSeq

(* What a sequence has.                                                    *)
LEMMA SeqHas ==
    ASSUME NEW s, IsSeq(s)
    PROVE  /\ Len(s) \in Nat /\ DOMAIN s = 1 .. Len(s)
           /\ s = <<>> <=> Len(s) = 0
           /\ \A i \in DOMAIN s : s[i] \in ToSet(s)
  BY LenProperties, EmptySeq, ElementOfSeq DEF IsSeq

(* Two sequences are over one set.                                         *)
LEMMA SeqOver ==
    ASSUME NEW s, IsSeq(s), NEW S, ToSet(s) \subseteq S
    PROVE  s \in Seq(S)
  <1> DEFINE n == Len(s)
  <1>1. n \in Nat /\ s \in [1 .. n -> ToSet(s)]
    BY LenProperties DEF IsSeq
  <1>2. \A i \in 1 .. n : s[i] \in S
    <2> HIDE DEF n
    <2> QED BY <1>1
  <1>3. s = [i \in 1 .. n |-> s[i]]
    <2> HIDE DEF n
    <2> QED BY <1>1
  <1>4. [i \in 1 .. n |-> s[i]] \in Seq(S)
    <2> HIDE DEF n
    <2> QED BY <1>1, <1>2, IsASeq
  <1> HIDE DEF n
  <1> QED BY <1>3, <1>4

(* The empty sequence is one.                                              *)
LEMMA EmptyIsSeq == IsSeq(<<>>) /\ Len(<<>>) = 0
  BY EmptySeq, SeqIs

(* Appending, replacing, removing and joining.                             *)
LEMMA AppendIs ==
    ASSUME NEW s, IsSeq(s), NEW x
    PROVE  /\ IsSeq(Append(s, x))
           /\ Len(Append(s, x)) = Len(s) + 1
           /\ DOMAIN Append(s, x) = 1 .. Len(s) + 1
           /\ \A i \in DOMAIN s : Append(s, x)[i] = s[i]
           /\ Append(s, x)[Len(s) + 1] = x
  <1> DEFINE S == ToSet(s) \cup {x}
  <1>1. s \in Seq(S) /\ x \in S
    BY SeqOver
  <1> HIDE DEF S
  <1>2. DOMAIN s = 1 .. Len(s)
    BY SeqHas
  <1> DEFINE t == Append(s, x)
  <1>3. /\ t \in Seq(S) /\ Len(t) = Len(s) + 1
        /\ \A i \in DOMAIN s : t[i] = s[i]
        /\ t[Len(s) + 1] = x
    BY <1>1, <1>2, AppendProperties
  <1> HIDE DEF t
  <1>4. DOMAIN t = 1 .. Len(s) + 1
    BY <1>3, LenProperties
  <1> QED BY <1>3, <1>4, SeqIs DEF t

(* A sequence with one element replaced.                                   *)
Put(s, i, x) == [s EXCEPT ![i] = x]

(* One element replaced: a sequence of the same length.                    *)
LEMMA ReplaceIs ==
    ASSUME NEW s, IsSeq(s), NEW i \in DOMAIN s, NEW x, NEW t, t = Put(s, i, x)
    PROVE  /\ IsSeq(t) /\ Len(t) = Len(s) /\ DOMAIN t = DOMAIN s
           /\ \A j \in DOMAIN s : t[j] = IF j = i THEN x ELSE s[j]
  <1> DEFINE S == ToSet(s) \cup {x}
  <1>1. s \in Seq(S) /\ x \in S
    BY SeqOver
  <1> HIDE DEF S
  <1>2. DOMAIN s = 1 .. Len(s)
    BY SeqHas
  <1>3. /\ t \in Seq(S) /\ Len(t) = Len(s)
        /\ \A j \in DOMAIN s : t[j] = IF j = i THEN x ELSE s[j]
    BY <1>1, <1>2, ExceptSeq DEF Put
  <1> QED BY <1>2, <1>3, SeqIs, SeqHas

(* All elements but the last.                                              *)
LEMMA FrontIs ==
    ASSUME NEW s, IsSeq(s), s # <<>>
    PROVE  /\ IsSeq(Front(s))
           /\ Len(s) >= 1 /\ Len(Front(s)) = Len(s) - 1
           /\ DOMAIN Front(s) = 1 .. Len(s) - 1
           /\ \A i \in 1 .. Len(s) - 1 : Front(s)[i] = s[i]
           /\ Last(s) = s[Len(s)]
  <1>1. /\ Len(s) \in Nat \ {0} /\ Front(s) \in Seq(ToSet(s))
        /\ Len(Front(s)) = Len(s) - 1 /\ Last(s) = s[Len(s)]
        /\ \A i \in 1 .. Len(s) - 1 : Front(s)[i] = s[i]
    BY FrontAndLast DEF IsSeq
  <1>2. IsSeq(Front(s))
    BY <1>1, SeqIs
  <1> QED BY <1>1, <1>2, SeqHas

(* Two sequences, one after the other.                                     *)
LEMMA JoinIs ==
    ASSUME NEW s, IsSeq(s), NEW t, IsSeq(t)
    PROVE  IsSeq(s \o t) /\ Len(s \o t) = Len(s) + Len(t)
  <1> DEFINE S == ToSet(s) \cup ToSet(t)
  <1>1. s \in Seq(S) /\ t \in Seq(S)
    BY SeqOver
  <1> HIDE DEF S
  <1> QED BY <1>1, ConcatProperties, SeqIs

(* A part of a sequence, also an empty one.                                *)
LEMMA PartIs ==
    ASSUME NEW s, IsSeq(s), NEW m \in Int, NEW n \in Int, m >= 1, n <= Len(s)
    PROVE  /\ IsSeq(SubSeq(s, m, n))
           /\ Len(SubSeq(s, m, n)) = IF m <= n THEN n - m + 1 ELSE 0
  <1>1. \A i \in m .. n : s[i] \in ToSet(s)
    BY SeqHas
  <1>2. /\ SubSeq(s, m, n) \in Seq(ToSet(s))
        /\ Len(SubSeq(s, m, n)) = IF m <= n THEN n - m + 1 ELSE 0
    BY <1>1, SubSeqProperties
  <1> QED BY <1>2, SeqIs

(***************************************************************************)
(* The key of an entry of a map, the content of an element of a set.       *)
(***************************************************************************)
Name(k, u, x) ==
    LET y == IF k = "map" THEN x[1] ELSE x IN IF u THEN y ELSE y[1]
Unique(k, u, s) ==
    \A m, n \in DOMAIN s : m # n => Name(k, u, s[m]) # Name(k, u, s[n])

(* An empty collection has nothing twice.                                  *)
LEMMA NoneUnique == \A k, u : Unique(k, u, <<>>)
  BY EmptyIsSeq, SeqHas DEF Unique

(* A collection gets an element whose name it does not have.               *)
LEMMA AppendUnique ==
    ASSUME NEW k, NEW u, NEW s, IsSeq(s), Unique(k, u, s), NEW x,
           \A m \in DOMAIN s : Name(k, u, s[m]) # Name(k, u, x)
    PROVE  Unique(k, u, Append(s, x))
  <1> DEFINE t == Append(s, x)
  <1>1. /\ DOMAIN t = 1 .. Len(s) + 1 /\ t[Len(s) + 1] = x
        /\ \A i \in DOMAIN s : t[i] = s[i]
    BY AppendIs
  <1>2. DOMAIN s = 1 .. Len(s) /\ Len(s) \in Nat
    BY SeqHas
  <1> HIDE DEF t
  <1>3. \A i \in DOMAIN t : i \in DOMAIN s \/ i = Len(s) + 1
    BY <1>1, <1>2
  <1>4. Unique(k, u, t)
    BY <1>1, <1>3 DEF Unique
  <1> QED BY <1>4 DEF t

(* An element replaced by one with its name.                               *)
LEMMA ReplaceUnique ==
    ASSUME NEW k, NEW u, NEW s, IsSeq(s), Unique(k, u, s), NEW i \in DOMAIN s, NEW x,
           Name(k, u, x) = Name(k, u, s[i]), NEW t, t = Put(s, i, x)
    PROVE  /\ IsSeq(t) /\ Len(t) = Len(s) /\ DOMAIN t = DOMAIN s
           /\ Unique(k, u, t)
           /\ \A j \in DOMAIN s : Name(k, u, t[j]) = Name(k, u, s[j])
  <1>1. /\ IsSeq(t) /\ Len(t) = Len(s) /\ DOMAIN t = DOMAIN s
        /\ \A j \in DOMAIN s : t[j] = IF j = i THEN x ELSE s[j]
    BY ReplaceIs
  <1>2. \A j \in DOMAIN s : Name(k, u, t[j]) = Name(k, u, s[j])
    BY <1>1
  <1>3. Unique(k, u, t)
    BY <1>1, <1>2 DEF Unique
  <1> QED BY <1>1, <1>2, <1>3

(* What a hash map does with a hole: it takes its last entry.              *)
LEMMA ErasedUnique ==
    ASSUME NEW k, NEW u, NEW s, IsSeq(s), Unique(k, u, s), NEW i \in DOMAIN s,
           NEW t, t = IF i = Len(s) THEN Front(s) ELSE [Front(s) EXCEPT ![i] = Last(s)]
    PROVE  IsSeq(t) /\ Len(t) = Len(s) - 1 /\ Unique(k, u, t)
  <1>1. i \in 1 .. Len(s) /\ Len(s) \in Nat /\ s # <<>> /\ DOMAIN s = 1 .. Len(s)
    BY SeqHas
  <1>2. /\ IsSeq(Front(s)) /\ Len(Front(s)) = Len(s) - 1
        /\ DOMAIN Front(s) = 1 .. Len(s) - 1
        /\ \A j \in 1 .. Len(s) - 1 : Front(s)[j] = s[j]
        /\ Last(s) = s[Len(s)]
    BY <1>1, FrontIs
  <1>3. CASE i = Len(s)
    <2>1. t = Front(s)
      BY <1>3
    <2>2. Unique(k, u, t)
      BY <1>1, <1>2, <2>1 DEF Unique
    <2> QED BY <1>2, <2>1, <2>2
  <1>4. CASE i # Len(s)
    <2>1. t = [Front(s) EXCEPT ![i] = Last(s)] /\ i \in DOMAIN Front(s)
      BY <1>1, <1>2, <1>4
    <2>2. /\ IsSeq(t) /\ Len(t) = Len(s) - 1 /\ DOMAIN t = 1 .. Len(s) - 1
          /\ \A j \in 1 .. Len(s) - 1 : t[j] = IF j = i THEN s[Len(s)] ELSE s[j]
      <3>1. PICK f : f = Front(s)
        OBVIOUS
      <3>2. IsSeq(f) /\ i \in DOMAIN f /\ t = Put(f, i, s[Len(s)])
        BY <1>2, <2>1, <3>1 DEF Put
      <3>3. /\ IsSeq(t) /\ Len(t) = Len(f) /\ DOMAIN t = DOMAIN f
            /\ \A j \in DOMAIN f : t[j] = IF j = i THEN s[Len(s)] ELSE f[j]
        BY <3>2, ReplaceIs
      <3> QED BY <1>2, <3>1, <3>3
    <2> DEFINE from(j) == IF j = i THEN Len(s) ELSE j
    <2>3. \A j \in DOMAIN t : from(j) \in DOMAIN s /\ t[j] = s[from(j)]
      BY <1>1, <2>2
    <2>4. \A j, m \in DOMAIN t : j # m => from(j) # from(m)
      BY <1>1, <2>2
    <2> HIDE DEF from
    <2>5. Unique(k, u, t)
      BY <2>3, <2>4 DEF Unique
    <2> QED BY <2>2, <2>5
  <1> QED BY <1>3, <1>4

(***************************************************************************)
(* Finding.                                                                *)
(***************************************************************************)
LEMMA LeastIndex ==
    ASSUME NEW n \in Nat, NEW S \in SUBSET (1 .. n), S # {}
    PROVE  Min(S) \in S
  <1>1. S \in SUBSET Nat
    OBVIOUS
  <1>2. \E m \in S : \A j \in S : m <= j
    BY <1>1, LeastNatural
  <1> QED BY <1>2 DEF Min

(* The search for a key finds an entry with it, or there is none.          *)
LEMMA MapFind ==
    ASSUME NEW s, IsSeq(s), NEW key
    PROVE  /\ Map!Find(s, key) = 0 =>
                 \A m \in DOMAIN s : Name("map", unboxed, s[m]) # key[1]
           /\ Map!Find(s, key) # 0 =>
                 /\ Map!Find(s, key) \in DOMAIN s
                 /\ Name("map", unboxed, s[Map!Find(s, key)]) = key[1]
  <1> DEFINE S == {i \in 1 .. Len(s) : Map!KeyContent(s[i]) = Map!Content(key)}
  <1>1. \A e : Map!KeyContent(e) = Name("map", unboxed, e)
    BY DEF Map!KeyContent, Map!Content, Name
  <1>2. Map!Content(key) = key[1]
    BY DEF Map!Content
  <1>3. Len(s) \in Nat /\ DOMAIN s = 1 .. Len(s)
    BY SeqHas
  <1>4. Map!Find(s, key) = IF S # {} THEN Min(S) ELSE 0
    BY DEF Map!Find, Map!SelectInSeq, Map!Min, Min
  <1>5. S # {} => Min(S) \in S
    <2>1. S \in SUBSET (1 .. Len(s))
      OBVIOUS
    <2> HIDE DEF S
    <2> QED BY <1>3, <2>1, LeastIndex
  <1> QED BY <1>1, <1>2, <1>3, <1>4, <1>5

(* And so does the search for the key of an entry.                         *)
LEMMA MapSameKey ==
    ASSUME NEW s, IsSeq(s), NEW e
    PROVE  /\ Map!SameKey(s, e) = 0 =>
                 \A m \in DOMAIN s : Name("map", unboxed, s[m]) # Name("map", unboxed, e)
           /\ Map!SameKey(s, e) # 0 =>
                 /\ Map!SameKey(s, e) \in DOMAIN s
                 /\ Name("map", unboxed, s[Map!SameKey(s, e)]) = Name("map", unboxed, e)
  <1> DEFINE S == {i \in 1 .. Len(s) : Map!KeyContent(s[i]) = Map!KeyContent(e)}
  <1>1. \A d : Map!KeyContent(d) = Name("map", unboxed, d)
    BY DEF Map!KeyContent, Map!Content, Name
  <1>3. Len(s) \in Nat /\ DOMAIN s = 1 .. Len(s)
    BY SeqHas
  <1>4. Map!SameKey(s, e) = IF S # {} THEN Min(S) ELSE 0
    BY DEF Map!SameKey, Map!SelectInSeq, Map!Min, Min
  <1>5. S # {} => Min(S) \in S
    <2>1. S \in SUBSET (1 .. Len(s))
      OBVIOUS
    <2> HIDE DEF S
    <2> QED BY <1>3, <2>1, LeastIndex
  <1> QED BY <1>1, <1>3, <1>4, <1>5

(* The search for an element of a set finds an equal one, or there is      *)
(* none.                                                                   *)
LEMMA SetFind ==
    ASSUME NEW s, IsSeq(s), NEW x
    PROVE  /\ Set!Find(s, x) = 0 =>
                 \A m \in DOMAIN s : Name("set", unboxed, s[m]) # Name("set", unboxed, x)
           /\ Set!Find(s, x) # 0 =>
                 /\ Set!Find(s, x) \in DOMAIN s
                 /\ Name("set", unboxed, s[Set!Find(s, x)]) = Name("set", unboxed, x)
  <1> DEFINE S == {i \in 1 .. Len(s) : Set!ContentOf(s[i]) = Set!ContentOf(x)}
  <1>1. \A d : Set!ContentOf(d) = Name("set", unboxed, d)
    BY DEF Set!ContentOf, Set!Content, Name
  <1>3. Len(s) \in Nat /\ DOMAIN s = 1 .. Len(s)
    BY SeqHas
  <1>4. Set!Find(s, x) = IF S # {} THEN Min(S) ELSE 0
    BY DEF Set!Find, Set!SelectInSeq, Set!Min, Min
  <1>5. S # {} => Min(S) \in S
    <2>1. S \in SUBSET (1 .. Len(s))
      OBVIOUS
    <2> HIDE DEF S
    <2> QED BY <1>3, <2>1, LeastIndex
  <1> QED BY <1>1, <1>3, <1>4, <1>5

(* What the search in a list finds is in the list.                         *)
LEMMA ListFind ==
    ASSUME IsSeq(held), NEW o
    PROVE  List!FirstOf(o) # 0 => List!FirstOf(o) \in DOMAIN held
  <1> DEFINE S == {i \in 1 .. Len(held) : List!Is(held[i], o)}
  <1>3. Len(held) \in Nat /\ DOMAIN held = 1 .. Len(held)
    BY SeqHas
  <1>4. List!FirstOf(o) = IF S # {} THEN Min(S) ELSE 0
    BY DEF List!FirstOf, List!SelectInSeq, List!Min, Min
  <1>5. S # {} => Min(S) \in S
    <2>1. S \in SUBSET (1 .. Len(held))
      OBVIOUS
    <2> HIDE DEF S
    <2> QED BY <1>3, <2>1, LeastIndex
  <1> QED BY <1>3, <1>4, <1>5

(* What holds at first and after each element, holds of the elements kept. *)
LEMMA AmongFold ==
    ASSUME NEW s, NEW wanted, IsSeq(s),
           NEW V, <<>> \in V, \A i \in DOMAIN s, v \in V : (IF s[i] \in wanted THEN Append(v, s[i]) ELSE v) \in V,
           NEW P, <<>> \in P[0],
           \A i \in DOMAIN s : \A v \in P[i - 1] : (IF s[i] \in wanted THEN Append(v, s[i]) ELSE v) \in P[i]
    PROVE  Map!Among(s, wanted) \in P[Len(s)]
  <1> DEFINE n == Len(s)
             S == DOMAIN s
             Then(v, i) == (IF s[i] \in wanted THEN Append(v, s[i]) ELSE v)
             Is(h) == h = [t \in SUBSET DOMAIN s |->
                              IF t = {} THEN <<>>
                              ELSE Then(h[t \ {Max(t)}], Max(t))]
             fold == CHOOSE h : Is(h)
             step == [i \in S |-> [v \in V |-> Then(v, i)]]
  <1>1. Map!Among(s, wanted) = fold[DOMAIN s]
    BY DEF Map!Among, Map!FoldLeft, Map!MapThenFoldSet, Map!Max, Max
  <1>2. n \in Nat /\ S = 1 .. n
    BY SeqHas
  <1> DEFINE base == <<>>
  <1>3. base \in V /\ base \in P[0]
    OBVIOUS
  <1>4. \A i \in 1 .. n, v \in V : Then(v, i) \in V /\ step[i][v] = Then(v, i)
    BY <1>2
  <1>5. PICK g : LeftRecursive(g, n, V, base, step)
    <2>1. \A i \in 1 .. n, v \in V : step[i][v] \in V
      BY <1>4
    <2> HIDE DEF step, n, base
    <2> QED BY <1>2, <1>3, <2>1, LeftRecursion
  <1>6. Is(g)
    <2>1. ASSUME NEW t \in SUBSET S
          PROVE  g[t] = IF t = {} THEN base ELSE Then(g[t \ {Max(t)}], Max(t))
      <3> HIDE DEF step, Then, base, n, S
      <3>1. CASE t = {}
        BY <1>2, <1>5, <3>1 DEF LeftRecursive
      <3>2. CASE t # {}
        <4>1. Max(t) \in t /\ Max(t) \in 1 .. n /\ t \ {Max(t)} \in SUBSET (1 .. n)
          BY <1>2, <1>5, <3>2 DEF LeftRecursive
        <4>2. g[t \ {Max(t)}] \in V
          BY <1>5, <4>1 DEF LeftRecursive
        <4>3. g[t] = step[Max(t)][g[t \ {Max(t)}]]
          BY <1>2, <1>5, <3>2 DEF LeftRecursive
        <4> QED BY <1>4, <3>2, <4>1, <4>2, <4>3
      <3> QED BY <3>1, <3>2
    <2>2. g = [t \in SUBSET DOMAIN s |-> g[t]]
      <3> HIDE DEF step, base, n
      <3> QED BY <1>2, <1>5 DEF LeftRecursive
    <2> HIDE DEF step, Then
    <2> QED BY <2>1, <2>2 DEF S
  <1>7. Is(fold)
    <2> HIDE DEF Is
    <2> QED BY <1>6
  <1>8. ASSUME NEW t \in SUBSET (1 .. n)
        PROVE  fold[t] = IF t = {} THEN base ELSE Then(fold[t \ {Max(t)}], Max(t))
    <2>1. fold = [r \in SUBSET DOMAIN s |->
                      IF r = {} THEN base ELSE Then(fold[r \ {Max(r)}], Max(r))]
      BY <1>7
    <2> HIDE DEF fold, Then, base
    <2> QED BY <1>2, <2>1
  <1> HIDE DEF fold, Is, step
  <1>9. fold[{}] \in P[0]
    <2>1. {} \in SUBSET (1 .. n)
      OBVIOUS
    <2> HIDE DEF base, Then
    <2> QED BY <1>3, <1>8, <2>1
  <1>10. ASSUME NEW i \in 1 .. n, fold[1 .. i - 1] \in P[i - 1]
         PROVE  fold[1 .. i] \in P[i]
    <2>1. /\ 1 .. i \in SUBSET (1 .. n) /\ 1 .. i # {}
          /\ Max(1 .. i) = i /\ (1 .. i) \ {i} = 1 .. i - 1
      BY <1>2, UpToNumber
    <2>2. fold[1 .. i] = Then(fold[1 .. i - 1], i)
      <3> HIDE DEF Then, base
      <3> QED BY <1>8, <2>1
    <2>3. \A v \in P[i - 1] : Then(v, i) \in P[i]
      BY <1>2
    <2> HIDE DEF Then
    <2> QED BY <1>10, <2>2, <2>3
  <1>11. fold[1 .. n] \in P[n]
    <2> HIDE DEF n
    <2> QED BY <1>2, <1>9, <1>10, FoldGrows
  <1> HIDE DEF n
  <1> QED BY <1>1, <1>2, <1>11 DEF n

(* And of the entries of two maps.                                         *)
LEMMA MergeFold ==
    ASSUME NEW s, NEW more, IsSeq(more),
           NEW V, s \in V, \A i \in DOMAIN more, v \in V : Map!Merge(v, more[i]) \in V,
           NEW P, s \in P[0],
           \A i \in DOMAIN more : \A v \in P[i - 1] : Map!Merge(v, more[i]) \in P[i]
    PROVE  Map!MergedEntries(s, more) \in P[Len(more)]
  <1> DEFINE n == Len(more)
             S == DOMAIN more
             Then(v, i) == Map!Merge(v, more[i])
             Is(h) == h = [t \in SUBSET DOMAIN more |->
                              IF t = {} THEN s
                              ELSE Then(h[t \ {Max(t)}], Max(t))]
             fold == CHOOSE h : Is(h)
             step == [i \in S |-> [v \in V |-> Then(v, i)]]
  <1>1. Map!MergedEntries(s, more) = fold[DOMAIN more]
    BY DEF Map!MergedEntries, Map!FoldLeft, Map!MapThenFoldSet, Map!Max, Max
  <1>2. n \in Nat /\ S = 1 .. n
    BY SeqHas
  <1> DEFINE base == s
  <1>3. base \in V /\ base \in P[0]
    OBVIOUS
  <1>4. \A i \in 1 .. n, v \in V : Then(v, i) \in V /\ step[i][v] = Then(v, i)
    BY <1>2
  <1>5. PICK g : LeftRecursive(g, n, V, base, step)
    <2>1. \A i \in 1 .. n, v \in V : step[i][v] \in V
      BY <1>4
    <2> HIDE DEF step, n, base
    <2> QED BY <1>2, <1>3, <2>1, LeftRecursion
  <1>6. Is(g)
    <2>1. ASSUME NEW t \in SUBSET S
          PROVE  g[t] = IF t = {} THEN base ELSE Then(g[t \ {Max(t)}], Max(t))
      <3> HIDE DEF step, Then, base, n, S
      <3>1. CASE t = {}
        BY <1>2, <1>5, <3>1 DEF LeftRecursive
      <3>2. CASE t # {}
        <4>1. Max(t) \in t /\ Max(t) \in 1 .. n /\ t \ {Max(t)} \in SUBSET (1 .. n)
          BY <1>2, <1>5, <3>2 DEF LeftRecursive
        <4>2. g[t \ {Max(t)}] \in V
          BY <1>5, <4>1 DEF LeftRecursive
        <4>3. g[t] = step[Max(t)][g[t \ {Max(t)}]]
          BY <1>2, <1>5, <3>2 DEF LeftRecursive
        <4> QED BY <1>4, <3>2, <4>1, <4>2, <4>3
      <3> QED BY <3>1, <3>2
    <2>2. g = [t \in SUBSET DOMAIN more |-> g[t]]
      <3> HIDE DEF step, base, n
      <3> QED BY <1>2, <1>5 DEF LeftRecursive
    <2> HIDE DEF step, Then
    <2> QED BY <2>1, <2>2 DEF S
  <1>7. Is(fold)
    <2> HIDE DEF Is
    <2> QED BY <1>6
  <1>8. ASSUME NEW t \in SUBSET (1 .. n)
        PROVE  fold[t] = IF t = {} THEN base ELSE Then(fold[t \ {Max(t)}], Max(t))
    <2>1. fold = [r \in SUBSET DOMAIN more |->
                      IF r = {} THEN base ELSE Then(fold[r \ {Max(r)}], Max(r))]
      BY <1>7
    <2> HIDE DEF fold, Then, base
    <2> QED BY <1>2, <2>1
  <1> HIDE DEF fold, Is, step
  <1>9. fold[{}] \in P[0]
    <2>1. {} \in SUBSET (1 .. n)
      OBVIOUS
    <2> HIDE DEF base, Then
    <2> QED BY <1>3, <1>8, <2>1
  <1>10. ASSUME NEW i \in 1 .. n, fold[1 .. i - 1] \in P[i - 1]
         PROVE  fold[1 .. i] \in P[i]
    <2>1. /\ 1 .. i \in SUBSET (1 .. n) /\ 1 .. i # {}
          /\ Max(1 .. i) = i /\ (1 .. i) \ {i} = 1 .. i - 1
      BY <1>2, UpToNumber
    <2>2. fold[1 .. i] = Then(fold[1 .. i - 1], i)
      <3> HIDE DEF Then, base
      <3> QED BY <1>8, <2>1
    <2>3. \A v \in P[i - 1] : Then(v, i) \in P[i]
      BY <1>2
    <2> HIDE DEF Then
    <2> QED BY <1>10, <2>2, <2>3
  <1>11. fold[1 .. n] \in P[n]
    <2> HIDE DEF n
    <2> QED BY <1>2, <1>9, <1>10, FoldGrows
  <1> HIDE DEF n
  <1> QED BY <1>1, <1>2, <1>11 DEF n

(* Of the elements of two sets.                                            *)
LEMMA FitsFold ==
    ASSUME NEW s, NEW more, IsSeq(more),
           NEW V, s \in V, \A i \in DOMAIN more, v \in V : Set!Fits(v, more[i]) \in V,
           NEW P, s \in P[0],
           \A i \in DOMAIN more : \A v \in P[i - 1] : Set!Fits(v, more[i]) \in P[i]
    PROVE  Set!FoldLeft(Set!Fits, s, more) \in P[Len(more)]
  <1> DEFINE n == Len(more)
             S == DOMAIN more
             Then(v, i) == Set!Fits(v, more[i])
             Is(h) == h = [t \in SUBSET DOMAIN more |->
                              IF t = {} THEN s
                              ELSE Then(h[t \ {Max(t)}], Max(t))]
             fold == CHOOSE h : Is(h)
             step == [i \in S |-> [v \in V |-> Then(v, i)]]
  <1>1. Set!FoldLeft(Set!Fits, s, more) = fold[DOMAIN more]
    BY DEF Set!FoldLeft, Set!MapThenFoldSet, Set!Max, Max
  <1>2. n \in Nat /\ S = 1 .. n
    BY SeqHas
  <1> DEFINE base == s
  <1>3. base \in V /\ base \in P[0]
    OBVIOUS
  <1>4. \A i \in 1 .. n, v \in V : Then(v, i) \in V /\ step[i][v] = Then(v, i)
    BY <1>2
  <1>5. PICK g : LeftRecursive(g, n, V, base, step)
    <2>1. \A i \in 1 .. n, v \in V : step[i][v] \in V
      BY <1>4
    <2> HIDE DEF step, n, base
    <2> QED BY <1>2, <1>3, <2>1, LeftRecursion
  <1>6. Is(g)
    <2>1. ASSUME NEW t \in SUBSET S
          PROVE  g[t] = IF t = {} THEN base ELSE Then(g[t \ {Max(t)}], Max(t))
      <3> HIDE DEF step, Then, base, n, S
      <3>1. CASE t = {}
        BY <1>2, <1>5, <3>1 DEF LeftRecursive
      <3>2. CASE t # {}
        <4>1. Max(t) \in t /\ Max(t) \in 1 .. n /\ t \ {Max(t)} \in SUBSET (1 .. n)
          BY <1>2, <1>5, <3>2 DEF LeftRecursive
        <4>2. g[t \ {Max(t)}] \in V
          BY <1>5, <4>1 DEF LeftRecursive
        <4>3. g[t] = step[Max(t)][g[t \ {Max(t)}]]
          BY <1>2, <1>5, <3>2 DEF LeftRecursive
        <4> QED BY <1>4, <3>2, <4>1, <4>2, <4>3
      <3> QED BY <3>1, <3>2
    <2>2. g = [t \in SUBSET DOMAIN more |-> g[t]]
      <3> HIDE DEF step, base, n
      <3> QED BY <1>2, <1>5 DEF LeftRecursive
    <2> HIDE DEF step, Then
    <2> QED BY <2>1, <2>2 DEF S
  <1>7. Is(fold)
    <2> HIDE DEF Is
    <2> QED BY <1>6
  <1>8. ASSUME NEW t \in SUBSET (1 .. n)
        PROVE  fold[t] = IF t = {} THEN base ELSE Then(fold[t \ {Max(t)}], Max(t))
    <2>1. fold = [r \in SUBSET DOMAIN more |->
                      IF r = {} THEN base ELSE Then(fold[r \ {Max(r)}], Max(r))]
      BY <1>7
    <2> HIDE DEF fold, Then, base
    <2> QED BY <1>2, <2>1
  <1> HIDE DEF fold, Is, step
  <1>9. fold[{}] \in P[0]
    <2>1. {} \in SUBSET (1 .. n)
      OBVIOUS
    <2> HIDE DEF base, Then
    <2> QED BY <1>3, <1>8, <2>1
  <1>10. ASSUME NEW i \in 1 .. n, fold[1 .. i - 1] \in P[i - 1]
         PROVE  fold[1 .. i] \in P[i]
    <2>1. /\ 1 .. i \in SUBSET (1 .. n) /\ 1 .. i # {}
          /\ Max(1 .. i) = i /\ (1 .. i) \ {i} = 1 .. i - 1
      BY <1>2, UpToNumber
    <2>2. fold[1 .. i] = Then(fold[1 .. i - 1], i)
      <3> HIDE DEF Then, base
      <3> QED BY <1>8, <2>1
    <2>3. \A v \in P[i - 1] : Then(v, i) \in P[i]
      BY <1>2
    <2> HIDE DEF Then
    <2> QED BY <1>10, <2>2, <2>3
  <1>11. fold[1 .. n] \in P[n]
    <2> HIDE DEF n
    <2> QED BY <1>2, <1>9, <1>10, FoldGrows
  <1> HIDE DEF n
  <1> QED BY <1>1, <1>2, <1>11 DEF n

(* Of what is left when elements are removed.                              *)
LEMMA WithoutFold ==
    ASSUME NEW gone, IsSeq(gone),
           NEW V, held \in V, \A i \in DOMAIN gone, v \in V : Set!Without(v, gone[i]) \in V,
           NEW P, held \in P[0],
           \A i \in DOMAIN gone : \A v \in P[i - 1] : Set!Without(v, gone[i]) \in P[i]
    PROVE  Set!Rest(gone) \in P[Len(gone)]
  <1> DEFINE n == Len(gone)
             S == DOMAIN gone
             Then(v, i) == Set!Without(v, gone[i])
             Is(h) == h = [t \in SUBSET DOMAIN gone |->
                              IF t = {} THEN held
                              ELSE Then(h[t \ {Max(t)}], Max(t))]
             fold == CHOOSE h : Is(h)
             step == [i \in S |-> [v \in V |-> Then(v, i)]]
  <1>1. Set!Rest(gone) = fold[DOMAIN gone]
    BY DEF Set!Rest, Set!FoldLeft, Set!MapThenFoldSet, Set!Max, Max
  <1>2. n \in Nat /\ S = 1 .. n
    BY SeqHas
  <1> DEFINE base == held
  <1>3. base \in V /\ base \in P[0]
    OBVIOUS
  <1>4. \A i \in 1 .. n, v \in V : Then(v, i) \in V /\ step[i][v] = Then(v, i)
    BY <1>2
  <1>5. PICK g : LeftRecursive(g, n, V, base, step)
    <2>1. \A i \in 1 .. n, v \in V : step[i][v] \in V
      BY <1>4
    <2> HIDE DEF step, n, base
    <2> QED BY <1>2, <1>3, <2>1, LeftRecursion
  <1>6. Is(g)
    <2>1. ASSUME NEW t \in SUBSET S
          PROVE  g[t] = IF t = {} THEN base ELSE Then(g[t \ {Max(t)}], Max(t))
      <3> HIDE DEF step, Then, base, n, S
      <3>1. CASE t = {}
        BY <1>2, <1>5, <3>1 DEF LeftRecursive
      <3>2. CASE t # {}
        <4>1. Max(t) \in t /\ Max(t) \in 1 .. n /\ t \ {Max(t)} \in SUBSET (1 .. n)
          BY <1>2, <1>5, <3>2 DEF LeftRecursive
        <4>2. g[t \ {Max(t)}] \in V
          BY <1>5, <4>1 DEF LeftRecursive
        <4>3. g[t] = step[Max(t)][g[t \ {Max(t)}]]
          BY <1>2, <1>5, <3>2 DEF LeftRecursive
        <4> QED BY <1>4, <3>2, <4>1, <4>2, <4>3
      <3> QED BY <3>1, <3>2
    <2>2. g = [t \in SUBSET DOMAIN gone |-> g[t]]
      <3> HIDE DEF step, base, n
      <3> QED BY <1>2, <1>5 DEF LeftRecursive
    <2> HIDE DEF step, Then
    <2> QED BY <2>1, <2>2 DEF S
  <1>7. Is(fold)
    <2> HIDE DEF Is
    <2> QED BY <1>6
  <1>8. ASSUME NEW t \in SUBSET (1 .. n)
        PROVE  fold[t] = IF t = {} THEN base ELSE Then(fold[t \ {Max(t)}], Max(t))
    <2>1. fold = [r \in SUBSET DOMAIN gone |->
                      IF r = {} THEN base ELSE Then(fold[r \ {Max(r)}], Max(r))]
      BY <1>7
    <2> HIDE DEF fold, Then, base
    <2> QED BY <1>2, <2>1
  <1> HIDE DEF fold, Is, step
  <1>9. fold[{}] \in P[0]
    <2>1. {} \in SUBSET (1 .. n)
      OBVIOUS
    <2> HIDE DEF base, Then
    <2> QED BY <1>3, <1>8, <2>1
  <1>10. ASSUME NEW i \in 1 .. n, fold[1 .. i - 1] \in P[i - 1]
         PROVE  fold[1 .. i] \in P[i]
    <2>1. /\ 1 .. i \in SUBSET (1 .. n) /\ 1 .. i # {}
          /\ Max(1 .. i) = i /\ (1 .. i) \ {i} = 1 .. i - 1
      BY <1>2, UpToNumber
    <2>2. fold[1 .. i] = Then(fold[1 .. i - 1], i)
      <3> HIDE DEF Then, base
      <3> QED BY <1>8, <2>1
    <2>3. \A v \in P[i - 1] : Then(v, i) \in P[i]
      BY <1>2
    <2> HIDE DEF Then
    <2> QED BY <1>10, <2>2, <2>3
  <1>11. fold[1 .. n] \in P[n]
    <2> HIDE DEF n
    <2> QED BY <1>2, <1>9, <1>10, FoldGrows
  <1> HIDE DEF n
  <1> QED BY <1>1, <1>2, <1>11 DEF n

(* The elements kept are fewer and have the names they had.                *)
LEMMA AmongIs ==
    ASSUME NEW s, IsSeq(s), NEW wanted
    PROVE  /\ IsSeq(Map!Among(s, wanted)) /\ Len(Map!Among(s, wanted)) <= Len(s)
           /\ \A k, u : Unique(k, u, s) => Unique(k, u, Map!Among(s, wanted))
  <1> DEFINE V == Seq(ToSet(s))
             n == Len(s)
             Fine(t, i) ==
                /\ Len(t) <= i
                /\ \A m \in DOMAIN t : \E j \in 1 .. i : t[m] = s[j]
                /\ \A k, u : Unique(k, u, s) => Unique(k, u, t)
             P == [i \in 0 .. n |-> {t \in V : Fine(t, i)}]
  <1>1. n \in Nat /\ DOMAIN s = 1 .. n /\ \A i \in 1 .. n : s[i] \in ToSet(s)
    BY SeqHas
  <1>2. <<>> \in V
    BY EmptySeq
  <1>3. \A i \in DOMAIN s, v \in V : (IF s[i] \in wanted THEN Append(v, s[i]) ELSE v) \in V
    BY <1>1, AppendProperties
  <1>4. <<>> \in P[0]
    <2>1. Fine(<<>>, 0)
      BY EmptyIsSeq, SeqHas, NoneUnique
    <2> HIDE DEF Fine
    <2> QED BY <1>1, <1>2, <2>1
  <1>5. ASSUME NEW i \in DOMAIN s, NEW v \in P[i - 1]
        PROVE  (IF s[i] \in wanted THEN Append(v, s[i]) ELSE v) \in P[i]
    <2>1. i \in 1 .. n /\ i \in 0 .. n /\ i - 1 \in 0 .. n
      BY <1>1
    <2>2. v \in V /\ Fine(v, i - 1)
      <3> HIDE DEF Fine, V, n
      <3> QED BY <2>1
    <2>3. IsSeq(v)
      BY <2>2, SeqIs
    <2>4. Len(v) \in Nat /\ DOMAIN v = 1 .. Len(v)
      BY <2>3, SeqHas
    <2>5. Fine(v, i)
      BY <2>1, <2>2, <2>4
    <2> DEFINE t == Append(v, s[i])
    <2>6. /\ IsSeq(t) /\ Len(t) = Len(v) + 1 /\ DOMAIN t = 1 .. Len(v) + 1
          /\ \A m \in DOMAIN v : t[m] = v[m]
          /\ t[Len(v) + 1] = s[i]
      BY <2>3, AppendIs
    <2>7. ASSUME NEW k, NEW u, Unique(k, u, s) PROVE Unique(k, u, t)
      <3>1. Unique(k, u, v)
        BY <2>2, <2>7
      <3>2. ASSUME NEW m \in DOMAIN v PROVE Name(k, u, v[m]) # Name(k, u, s[i])
        <4>1. PICK j \in 1 .. i - 1 : v[m] = s[j]
          BY <2>2, <3>2
        <4>2. j \in DOMAIN s /\ i \in DOMAIN s /\ j # i
          BY <1>1, <2>1, <4>1
        <4> QED BY <2>7, <4>1, <4>2 DEF Unique
      <3> HIDE DEF t
      <3> QED BY <2>3, <3>1, <3>2, AppendUnique DEF t
    <2>8. Fine(t, i)
      <3> HIDE DEF t
      <3>1. Len(t) <= i
        BY <2>1, <2>2, <2>4, <2>6
      <3>2. ASSUME NEW m \in DOMAIN t PROVE \E j \in 1 .. i : t[m] = s[j]
        <4>1. m \in DOMAIN v \/ m = Len(v) + 1
          BY <2>4, <2>6
        <4> QED BY <2>1, <2>5, <2>6, <4>1
      <3> QED BY <2>7, <3>1, <3>2
    <2>9. t \in V
      BY <1>1, <2>1, <2>2, AppendProperties
    <2> HIDE DEF Fine, V, n
    <2> QED BY <2>1, <2>2, <2>5, <2>8, <2>9
  <1>6. Map!Among(s, wanted) \in P[n]
    <2> HIDE DEF V, P
    <2> QED BY <1>2, <1>3, <1>4, <1>5, AmongFold DEF n
  <1>7. Map!Among(s, wanted) \in V /\ Fine(Map!Among(s, wanted), n)
    <2>1. n \in 0 .. n
      BY <1>1
    <2> HIDE DEF V, Fine, n
    <2> QED BY <1>6, <2>1
  <1> QED BY <1>7, SeqIs

(* The lists', the maps' and the sets' selection are the same function.    *)
LEMMA AmongSame ==
    ASSUME NEW s, NEW wanted
    PROVE  Set!Among(s, wanted) = Map!Among(s, wanted) /\ List!Among(s, wanted) = Map!Among(s, wanted)
  BY DEF Map!Among, Set!Among, List!Among, Map!FoldLeft, Set!FoldLeft, List!FoldLeft,
     Map!MapThenFoldSet, Set!MapThenFoldSet, List!MapThenFoldSet, Map!Max, Set!Max, List!Max

(* One entry more in a map: in place of that with its key, or at the end.  *)
LEMMA MergeIs ==
    ASSUME NEW s, IsSeq(s), Unique("map", unboxed, s), NEW e
    PROVE  IsSeq(Map!Merge(s, e)) /\ Unique("map", unboxed, Map!Merge(s, e))
  <1>1. PICK i : i = Map!SameKey(s, e)
    OBVIOUS
  <1>2. /\ i = 0 => \A m \in DOMAIN s : Name("map", unboxed, s[m]) # Name("map", unboxed, e)
        /\ i # 0 => i \in DOMAIN s
    BY <1>1, MapSameKey
  <1>3. Map!Merge(s, e) = IF i = 0 THEN Append(s, e) ELSE [s EXCEPT ![i] = <<@[1], e[2]>>]
    BY <1>1 DEF Map!Merge
  <1>4. CASE i = 0
    <2>1. Map!Merge(s, e) = Append(s, e)
      BY <1>3, <1>4
    <2>2. \A m \in DOMAIN s : Name("map", unboxed, s[m]) # Name("map", unboxed, e)
      BY <1>2, <1>4
    <2>3. IsSeq(Append(s, e))
      BY AppendIs
    <2>4. Unique("map", unboxed, Append(s, e))
      BY <2>2, AppendUnique
    <2> QED BY <2>1, <2>3, <2>4
  <1>5. CASE i # 0
    <2>1. PICK x : x = <<s[i][1], e[2]>>
      OBVIOUS
    <2>2. Map!Merge(s, e) = Put(s, i, x)
      BY <1>3, <1>5, <2>1 DEF Put
    <2>3. Name("map", unboxed, x) = Name("map", unboxed, s[i])
      BY <2>1 DEF Name
    <2>4. i \in DOMAIN s
      BY <1>2, <1>5
    <2> QED BY <2>2, <2>3, <2>4, ReplaceUnique
  <1> QED BY <1>4, <1>5

(* The entries of two maps, those of the second in place of the first's,   *)
(* have each key once.                                                     *)
LEMMA MergedIs ==
    ASSUME NEW s, IsSeq(s), Unique("map", unboxed, s), NEW more, IsSeq(more)
    PROVE  /\ IsSeq(Map!MergedEntries(s, more))
           /\ Unique("map", unboxed, Map!MergedEntries(s, more))
  <1> DEFINE E == ToSet(s) \cup ToSet(more)
             S == E \cup ({x[1] : x \in E} \X {x[2] : x \in E})
             V == {t \in Seq(S) : Unique("map", unboxed, t)}
             n == Len(more)
             P == [i \in 0 .. n |-> V]
  <1>1. n \in Nat /\ DOMAIN more = 1 .. n /\ \A i \in 1 .. n : more[i] \in E
    BY SeqHas
  <1>2. s \in V
    <2>1. ToSet(s) \subseteq S
      OBVIOUS
    <2> HIDE DEF S
    <2> QED BY <2>1, SeqOver
  <1>3. ASSUME NEW t \in V, NEW e \in E PROVE Map!Merge(t, e) \in V
    <2> HIDE DEF E
    <2>1. t \in Seq(S) /\ IsSeq(t) /\ Unique("map", unboxed, t)
      <3> HIDE DEF S
      <3> QED BY SeqIs
    <2>2. DOMAIN t = 1 .. Len(t) /\ \A i \in DOMAIN t : t[i] \in S
      <3> HIDE DEF S
      <3> QED BY <2>1, LenProperties, ElementOfSeq
    <2>3. PICK i : i = Map!SameKey(t, e)
      OBVIOUS
    <2>4. i # 0 => i \in DOMAIN t
      BY <2>1, <2>3, MapSameKey
    <2>5. Map!Merge(t, e) = IF i = 0 THEN Append(t, e) ELSE [t EXCEPT ![i] = <<@[1], e[2]>>]
      BY <2>3 DEF Map!Merge
    <2>6. e \in S /\ (i # 0 => <<t[i][1], e[2]>> \in S)
      <3>1. e \in S
        OBVIOUS
      <3>2. ASSUME NEW y \in S PROVE <<y[1], e[2]>> \in S
        <4>1. y[1] \in {x[1] : x \in E}
          OBVIOUS
        <4>2. e[2] \in {x[2] : x \in E}
          OBVIOUS
        <4> QED BY <4>1, <4>2
      <3> HIDE DEF S
      <3> QED BY <2>2, <2>4, <3>1, <3>2
    <2>7. Map!Merge(t, e) \in Seq(S)
      <3> HIDE DEF S
      <3>1. CASE i = 0
        BY <2>1, <2>5, <2>6, <3>1, AppendProperties
      <3>2. CASE i # 0
        <4>1. PICK x : x = <<t[i][1], e[2]>>
          OBVIOUS
        <4> QED BY <2>1, <2>2, <2>4, <2>5, <2>6, <3>2, <4>1, ExceptSeq
      <3> QED BY <3>1, <3>2
    <2> HIDE DEF S
    <2> QED BY <2>1, <2>7, MergeIs
  <1> HIDE DEF V, E
  <1>4. Map!MergedEntries(s, more) \in P[n]
    <2>1. \A i \in DOMAIN more, v \in V : Map!Merge(v, more[i]) \in V
      BY <1>1, <1>3
    <2>2. s \in P[0]
      BY <1>1, <1>2
    <2>3. \A i \in DOMAIN more : \A v \in P[i - 1] : Map!Merge(v, more[i]) \in P[i]
      <3>1. \A i \in DOMAIN more : P[i] = V /\ P[i - 1] = V
        BY <1>1
      <3> HIDE DEF P
      <3> QED BY <2>1, <3>1
    <2> HIDE DEF P
    <2> QED BY <1>2, <2>1, <2>2, <2>3, MergeFold DEF n
  <1>5. Map!MergedEntries(s, more) \in V
    <2>1. n \in 0 .. n
      BY <1>1
    <2> QED BY <1>4, <2>1
  <1> QED BY <1>5, SeqIs DEF V

(* One element more in a set, if it is not there.                          *)
LEMMA SetFitsIs ==
    ASSUME NEW s, IsSeq(s), Unique("set", unboxed, s), NEW x
    PROVE  /\ IsSeq(Set!Fits(s, x)) /\ Unique("set", unboxed, Set!Fits(s, x))
           /\ Set!Fits(s, x) = s \/ Set!Fits(s, x) = Append(s, x)
  <1>1. CASE Set!Find(s, x) = 0
    <2>1. Set!Fits(s, x) = Append(s, x)
      BY <1>1 DEF Set!Fits
    <2>2. \A m \in DOMAIN s : Name("set", unboxed, s[m]) # Name("set", unboxed, x)
      BY <1>1, SetFind
    <2>3. IsSeq(Append(s, x))
      BY AppendIs
    <2>4. Unique("set", unboxed, Append(s, x))
      BY <2>2, AppendUnique
    <2> QED BY <2>1, <2>3, <2>4
  <1>2. CASE Set!Find(s, x) # 0
    BY <1>2 DEF Set!Fits
  <1> QED BY <1>1, <1>2

(* The union of two sets has each element once.                            *)
LEMMA SetUnionIs ==
    ASSUME NEW s, IsSeq(s), Unique("set", unboxed, s), NEW more, IsSeq(more)
    PROVE  /\ IsSeq(Set!FoldLeft(Set!Fits, s, more))
           /\ Unique("set", unboxed, Set!FoldLeft(Set!Fits, s, more))
  <1> DEFINE S == ToSet(s) \cup ToSet(more)
             V == {t \in Seq(S) : Unique("set", unboxed, t)}
             n == Len(more)
             P == [i \in 0 .. n |-> V]
  <1>1. n \in Nat /\ DOMAIN more = 1 .. n /\ \A i \in 1 .. n : more[i] \in S
    BY SeqHas
  <1>2. s \in V
    <2>1. ToSet(s) \subseteq S
      OBVIOUS
    <2> HIDE DEF S
    <2> QED BY <2>1, SeqOver
  <1>3. ASSUME NEW t \in V, NEW x \in S PROVE Set!Fits(t, x) \in V
    <2> HIDE DEF S
    <2>1. t \in Seq(S) /\ IsSeq(t) /\ Unique("set", unboxed, t)
      BY SeqIs
    <2>2. Append(t, x) \in Seq(S)
      BY <2>1, AppendProperties
    <2> QED BY <2>1, <2>2, SetFitsIs
  <1> HIDE DEF V, S
  <1>4. Set!FoldLeft(Set!Fits, s, more) \in P[n]
    <2>1. \A i \in DOMAIN more, v \in V : Set!Fits(v, more[i]) \in V
      BY <1>1, <1>3
    <2>2. s \in P[0]
      BY <1>1, <1>2
    <2>3. \A i \in DOMAIN more : \A v \in P[i - 1] : Set!Fits(v, more[i]) \in P[i]
      <3>1. \A i \in DOMAIN more : P[i] = V /\ P[i - 1] = V
        BY <1>1
      <3> HIDE DEF P
      <3> QED BY <2>1, <3>1
    <2> HIDE DEF P
    <2> QED BY <1>2, <2>1, <2>2, <2>3, FitsFold DEF n
  <1>5. Set!FoldLeft(Set!Fits, s, more) \in V
    <2>1. n \in 0 .. n
      BY <1>1
    <2> QED BY <1>4, <2>1
  <1> QED BY <1>5, SeqIs DEF V

(* What is left of a set when some of its elements go.                     *)
LEMMA SetWithoutIs ==
    ASSUME NEW S, NEW s \in Seq(S), Unique("set", unboxed, s), NEW x
    PROVE  Set!Without(s, x) \in Seq(S) /\ Unique("set", unboxed, Set!Without(s, x))
  <1>1. PICK i : i = Set!Find(s, x)
    OBVIOUS
  <1>2. IsSeq(s)
    BY SeqIs
  <1>3. i # 0 => i \in DOMAIN s
    BY <1>1, <1>2, SetFind
  <1>4. CASE i = 0
    BY <1>1, <1>4 DEF Set!Without
  <1>5. CASE i # 0
    <2>1. Set!Without(s, x) = Set!Erased(s, i)
      BY <1>1, <1>5 DEF Set!Without
    <2>2. Set!Erased(s, i) = IF i = Len(s) THEN Front(s) ELSE [Front(s) EXCEPT ![i] = Last(s)]
      BY DEF Set!Erased, Set!Front, Set!Last, Front, Last
    <2>3. i \in DOMAIN s
      BY <1>3, <1>5
    <2>4. IsSeq(Set!Erased(s, i)) /\ Unique("set", unboxed, Set!Erased(s, i))
      BY <1>2, <2>2, <2>3, ErasedUnique
    <2>5. /\ i \in 1 .. Len(s) /\ s # <<>> /\ Len(s) \in Nat
      BY <1>2, <2>3, SeqHas
    <2>6. PICK f : f = Front(s)
      OBVIOUS
    <2>7. f \in Seq(S) /\ Len(f) = Len(s) - 1 /\ Last(s) \in S
      BY <2>5, <2>6, FrontAndLast
    <2>8. Set!Erased(s, i) \in Seq(S)
      <3>1. CASE i = Len(s)
        BY <2>2, <2>6, <2>7, <3>1
      <3>2. CASE i # Len(s)
        <4>1. PICK l : l = Last(s)
          OBVIOUS
        <4>2. i \in 1 .. Len(f) /\ l \in S
          BY <2>5, <2>7, <3>2, <4>1
        <4>3. [f EXCEPT ![i] = l] \in Seq(S)
          BY <2>7, <4>2, ExceptSeq
        <4>4. Set!Erased(s, i) = [f EXCEPT ![i] = l]
          BY <2>2, <2>6, <3>2, <4>1
        <4> QED BY <4>3, <4>4
      <3> QED BY <3>1, <3>2
    <2> QED BY <2>1, <2>4, <2>8
  <1> QED BY <1>4, <1>5

(* And so has what a set keeps of its own when elements are removed.       *)
LEMMA SetRestIs ==
    ASSUME IsSeq(held), Unique("set", unboxed, held), NEW gone, IsSeq(gone)
    PROVE  IsSeq(Set!Rest(gone)) /\ Unique("set", unboxed, Set!Rest(gone))
  <1> DEFINE S == ToSet(held)
             V == {t \in Seq(S) : Unique("set", unboxed, t)}
             n == Len(gone)
             P == [i \in 0 .. n |-> V]
  <1>1. n \in Nat /\ DOMAIN gone = 1 .. n
    BY SeqHas
  <1>2. held \in V
    BY DEF IsSeq
  <1>3. ASSUME NEW t \in V, NEW x PROVE Set!Without(t, x) \in V
    BY SetWithoutIs
  <1> HIDE DEF V, S
  <1>4. Set!Rest(gone) \in P[n]
    <2>1. \A i \in DOMAIN gone, v \in V : Set!Without(v, gone[i]) \in V
      BY <1>1, <1>3
    <2>2. held \in P[0]
      BY <1>1, <1>2
    <2>3. \A i \in DOMAIN gone : \A v \in P[i - 1] : Set!Without(v, gone[i]) \in P[i]
      <3>1. \A i \in DOMAIN gone : P[i] = V /\ P[i - 1] = V
        BY <1>1
      <3> HIDE DEF P
      <3> QED BY <2>1, <3>1
    <2> HIDE DEF P
    <2> QED BY <1>2, <2>1, <2>2, <2>3, WithoutFold DEF n
  <1>5. Set!Rest(gone) \in V
    <2>1. n \in 0 .. n
      BY <1>1
    <2> QED BY <1>4, <2>1
  <1> QED BY <1>5, SeqIs DEF V

(***************************************************************************)
(* A call is a record.                                                     *)
(***************************************************************************)
CallShape(c) ==
    c = [fn |-> c.fn, pc |-> c.pc, i |-> c.i, n |-> c.n, at |-> c.at, item |-> c.item,
         acc |-> c.acc, res |-> c.res, yes |-> c.yes, out |-> c.out, moved |-> c.moved]

(* The call d is c, whose callback has grown or shrunk the collection if    *)
(* one is running.                                                         *)
Moving(c, d) ==
    /\ CallShape(d) /\ d.fn = c.fn /\ d.pc = c.pc /\ d.out = c.out
    /\ d.i = c.i /\ d.n = c.n /\ d.at = c.at
    /\ c.pc = "calling" => d.moved # {}
    /\ c.pc # "calling" => d = c

LEMMA MovingIs ==
    ASSUME NEW c, CallShape(c), NEW how, NEW d,
           d = IF c.pc = "calling" THEN [c EXCEPT !.moved = @ \cup {how}] ELSE c
    PROVE  /\ Moving(c, d)
           /\ c.pc = "calling" => d.moved = c.moved \cup {how}
  <1>1. CASE c.pc = "calling"
    <2>1. PICK m : m = c.moved \cup {how}
      OBVIOUS
    <2>2. d = [c EXCEPT !.moved = m]
      BY <1>1, <2>1
    <2>3. /\ CallShape(d) /\ d.fn = c.fn /\ d.pc = c.pc /\ d.out = c.out
          /\ d.i = c.i /\ d.n = c.n /\ d.at = c.at /\ d.moved = m
      BY <2>2 DEF CallShape
    <2>4. m # {}
      BY <2>1
    <2> QED BY <1>1, <2>1, <2>3, <2>4 DEF Moving
  <1>2. CASE c.pc # "calling"
    BY <1>2 DEF Moving
  <1> QED BY <1>1, <1>2

(***************************************************************************)
(* Maps.                                                                   *)
(***************************************************************************)
(* The loops whose result has the keys of the entries seen.                *)
FromEntries == {"filter", "filter_values", "map_values"}
(* Where a call of a map's functions stands: what a loop has made so far   *)
(* has names of entries before its index, as long as no callback has       *)
(* changed which entries there are.                                        *)
MapCall(u, s, c) ==
    /\ c.pc \in {"idle", "stopped"} => c.fn = "none"
    /\ c.fn \notin Map!Makers => c.out = <<>>
    /\ c.fn \in Map!Loops /\ c.moved = {} =>
          /\ c.n = Len(s) /\ c.i \in Nat \ {0}
          /\ c.pc # "loop" => c.i <= c.n
    /\ c.fn \in FromEntries /\ c.moved = {} =>
          \A m \in DOMAIN c.out : \E j \in DOMAIN s :
              j < c.i /\ Name("map", u, c.out[m]) = Name("map", u, s[j])

(* The invariant of maps: both maps and the one a loop makes have each key *)
(* once, and the charge is their size.                                     *)
MapInv ==
    /\ unboxed \in BOOLEAN /\ charged \in Nat
    /\ IsSeq(held) /\ IsSeq(second)
    /\ CallShape(call) /\ IsSeq(call.out)
    /\ Unique("map", unboxed, held) /\ Unique("map", unboxed, second)
    /\ Unique("map", unboxed, call.out)
    /\ MapCall(unboxed, held, call)
    /\ Map!ChargeIsSize

(* Between calls there is nothing a call has made.                         *)
LEMMA MapIdle ==
    ASSUME MapInv, Map!Idle
    PROVE  call.out = <<>> /\ call.fn = "none" /\ Len(call.out) = 0
  BY EmptyIsSeq DEF MapInv, MapCall, Map!Idle, Map!Makers

(* What a call is when none is running, or when the run has stopped.       *)
LEMMA NewCall ==
    /\ CallShape(Map!NoCall) /\ Map!NoCall.fn = "none" /\ Map!NoCall.out = <<>>
    /\ Map!NoCall.pc = "idle" /\ Map!NoCall.moved = {}
    /\ CallShape(Map!Stopped) /\ Map!Stopped.fn = "none" /\ Map!Stopped.out = <<>>
    /\ Map!Stopped.pc = "stopped"
  <1>1. PICK c : c = Map!NoCall
    OBVIOUS
  <1>2. CallShape(c) /\ c.fn = "none" /\ c.out = <<>> /\ c.pc = "idle" /\ c.moved = {}
    BY <1>1 DEF CallShape, Map!NoCall
  <1>3. PICK d : d = [c EXCEPT !.pc = "stopped"]
    OBVIOUS
  <1>4. CallShape(d) /\ d.fn = "none" /\ d.out = <<>> /\ d.pc = "stopped"
    BY <1>2, <1>3 DEF CallShape
  <1>5. d = Map!Stopped
    BY <1>1, <1>3 DEF Map!Stopped
  <1> QED BY <1>1, <1>2, <1>4, <1>5

(* A step that leaves the maps alone.                                      *)
LEMMA MapSame ==
    ASSUME MapInv, UNCHANGED <<unboxed, held, second, charged, call, past>>
    PROVE  MapInv'
  BY DEF MapInv, Map!ChargeIsSize, Map!At

(* A step of the call that leaves the maps and what it has made alone.     *)
LEMMA MapCallStep ==
    ASSUME MapInv, UNCHANGED <<unboxed, held, second, charged>>, CallShape(call'),
           call.pc \notin {"idle", "stopped"}, call'.pc \notin {"idle", "stopped"},
           past' = past,
           call'.out = call.out, call'.fn = call.fn, call'.i = call.i, call'.n = call.n,
           call'.moved = call.moved,
           call'.pc # "loop" /\ call.pc = "loop" => call.i <= call.n
    PROVE  MapInv'
  <1>1. MapCall(unboxed', held', call')
    BY DEF MapInv, MapCall
  <1> QED BY <1>1 DEF MapInv, Map!ChargeIsSize, Map!At

(* The call ends, and there is nothing it has made.                        *)
LEMMA MapNoCall ==
    ASSUME MapInv, UNCHANGED <<unboxed, held, second, charged>>,
           call' \in {Map!NoCall, Map!Stopped},
           call.pc \notin {"idle", "stopped"},
           past' # {} \/ (past' = past /\ (call'.pc = "stopped" \/ call.out = <<>>))
    PROVE  MapInv'
  <1>1. CallShape(call') /\ call'.fn = "none" /\ call'.out = <<>> /\ call'.pc \in {"idle", "stopped"}
    BY NewCall
  <1>2. IsSeq(call'.out) /\ Len(call'.out) = 0 /\ Unique("map", unboxed, call'.out)
    BY <1>1, EmptyIsSeq, NoneUnique
  <1>3. MapCall(unboxed', held', call')
    BY <1>1 DEF MapCall, Map!Loops, Map!Predicates, Map!Transforms, FromEntries
  <1>4. Map!ChargeIsSize'
    BY <1>1, <1>2 DEF MapInv, Map!ChargeIsSize, Map!At
  <1> QED BY <1>1, <1>2, <1>3, <1>4 DEF MapInv

(* A step that changes the maps while no loop goes over them.              *)
LEMMA MapChanged ==
    ASSUME MapInv, unboxed' = unboxed, charged' \in Nat,
           IsSeq(held'), Unique("map", unboxed, held'),
           IsSeq(second'), Unique("map", unboxed, second'),
           CallShape(call'), call'.out = <<>>, call'.fn \notin Map!Loops,
           call'.pc \in {"idle", "stopped"} => call'.fn = "none",
           past' = {} /\ call'.pc # "stopped" => charged' = Len(held') + Len(second')
    PROVE  MapInv'
  <1>1. IsSeq(call'.out) /\ Len(call'.out) = 0 /\ Unique("map", unboxed, call'.out)
    BY EmptyIsSeq, NoneUnique
  <1>2. MapCall(unboxed', held', call')
    BY DEF MapCall, FromEntries, Map!Loops, Map!Predicates, Map!Transforms
  <1>3. Map!ChargeIsSize'
    BY <1>1, SeqHas DEF Map!ChargeIsSize, Map!At
  <1> QED BY <1>1, <1>2, <1>3 DEF MapInv

(* Between calls no loop goes over the entries.                            *)
LEMMA MapNotRunning ==
    ASSUME MapInv, Map!Idle
    PROVE  /\ call.out = <<>> /\ call.fn \notin Map!Loops
           /\ call.pc = "idle" /\ CallShape(call)
           /\ call.pc \in {"idle", "stopped"} => call.fn = "none"
           /\ past = {} => charged = Len(held) + Len(second)
  <1>1. call.out = <<>> /\ call.fn \notin Map!Loops /\ call.pc = "idle"
    BY DEF MapInv, MapCall, Map!Idle, Map!Loops, Map!Makers, Map!Predicates, Map!Transforms
  <1>2. Len(call.out) = 0 /\ Len(held) \in Nat /\ Len(second) \in Nat
    BY <1>1, EmptyIsSeq, SeqHas DEF MapInv
  <1>3. past = {} => charged = Len(held) + Len(second)
    BY <1>1, <1>2 DEF MapInv, Map!ChargeIsSize, Map!At
  <1> QED BY <1>1, <1>3 DEF MapInv, MapCall

(* The entries change between calls or in a callback, and a loop that waits *)
(* for it knows nothing of them any more.                                  *)
LEMMA MapMoves ==
    ASSUME MapInv, Map!Running, Moving(call, call'), past' = past,
           unboxed' = unboxed, second' = second,
           IsSeq(held'), Unique("map", unboxed, held'),
           charged' = Map!Counter(charged + Len(held') - Len(held))
    PROVE  MapInv'
  <1>1. /\ CallShape(call') /\ call'.fn = call.fn /\ call'.pc = call.pc /\ call'.out = call.out
        /\ call.pc = "calling" => call'.moved # {}
        /\ call.pc \in {"idle", "calling"}
    BY DEF Moving, Map!Running
  <1>2. /\ Len(held) \in Nat /\ Len(held') \in Nat /\ Len(second) \in Nat /\ Len(call.out) \in Nat
        /\ charged \in Nat
    BY SeqHas DEF MapInv
  <1>3. charged' \in Nat /\ (past = {} => charged' = Len(held') + Len(second) + Len(call.out))
    <2>1. past = {} => charged = Len(held) + Len(second) + Len(call.out)
      BY <1>1 DEF MapInv, Map!ChargeIsSize, Map!At
    <2>2. PICK m, k, s, o : m = Len(held) /\ k = Len(held') /\ s = Len(second) /\ o = Len(call.out)
      OBVIOUS
    <2>3. m \in Nat /\ k \in Nat /\ s \in Nat /\ o \in Nat /\ charged \in Nat
      BY <1>2, <2>2
    <2>4. charged + k - m \in Int /\ (charged = m + s + o => charged + k - m = k + s + o)
      BY <2>3
    <2>5. charged' = Map!Counter(charged + k - m)
      BY <2>2
    <2>6. charged' \in Nat /\ (charged = m + s + o => charged' = k + s + o)
      <3>1. PICK c : c = charged + k - m
        OBVIOUS
      <3>2. c \in Int /\ (charged = m + s + o => c = k + s + o) /\ charged' = IF c < 0 THEN 0 ELSE c
        BY <2>4, <2>5, <3>1 DEF Map!Counter
      <3>3. k + s + o \in Nat
        BY <2>3
      <3> QED BY <3>2, <3>3
    <2>7. call'.out = call.out
      BY <1>1
    <2> QED BY <2>1, <2>2, <2>6, <2>7
  <1>4. MapCall(unboxed', held', call')
    <2>1. CASE call.pc = "calling"
      <3>1. call'.moved # {} /\ call'.pc = "calling"
        BY <1>1, <2>1
      <3> QED BY <1>1, <3>1 DEF MapInv, MapCall
    <2>2. CASE call.pc = "idle"
      <3>1. call'.fn = "none" /\ call'.out = <<>>
        BY <1>1, <2>2, MapNotRunning DEF Map!Idle
      <3> QED BY <3>1 DEF MapCall, Map!Loops, Map!Predicates, Map!Transforms, FromEntries
    <2> QED BY <1>1, <2>1, <2>2
  <1>5. Map!ChargeIsSize'
    BY <1>1, <1>3 DEF Map!ChargeIsSize, Map!At
  <1> QED BY <1>1, <1>3, <1>4, <1>5 DEF MapInv

(* What set makes of the entries.                                          *)
LEMMA MapAfterSet ==
    ASSUME unboxed \in BOOLEAN, NEW s, IsSeq(s), Unique("map", unboxed, s), NEW key, NEW value
    PROVE  /\ IsSeq(Map!EntriesAfterSet(s, key, value))
           /\ Unique("map", unboxed, Map!EntriesAfterSet(s, key, value))
           /\ Map!Find(s, key) # 0 =>
                 /\ DOMAIN Map!EntriesAfterSet(s, key, value) = DOMAIN s
                 /\ Len(Map!EntriesAfterSet(s, key, value)) = Len(s)
                 /\ \A m \in DOMAIN s : Name("map", unboxed, Map!EntriesAfterSet(s, key, value)[m])
                                          = Name("map", unboxed, s[m])
  <1>1. PICK i : i = Map!Find(s, key)
    OBVIOUS
  <1>2. PICK e : e = Map!Entry(key, value)
    OBVIOUS
  <1>3. PICK t : t = Map!EntriesAfterSet(s, key, value)
    OBVIOUS
  <1>4. t = IF i # 0 THEN [s EXCEPT ![i] = <<@[1], value>>] ELSE Append(s, e)
    BY <1>1, <1>2, <1>3 DEF Map!EntriesAfterSet
  <1>5. Name("map", unboxed, e) = key[1]
    BY <1>2 DEF Map!Entry, Map!Content, Name
  <1>6. /\ i = 0 => \A m \in DOMAIN s : Name("map", unboxed, s[m]) # key[1]
        /\ i # 0 => i \in DOMAIN s
    BY <1>1, MapFind
  <1>7. CASE i = 0
    <2>1. t = Append(s, e)
      BY <1>4, <1>7
    <2>2. \A m \in DOMAIN s : Name("map", unboxed, s[m]) # Name("map", unboxed, e)
      BY <1>5, <1>6, <1>7
    <2>3. IsSeq(Append(s, e))
      BY AppendIs
    <2>4. Unique("map", unboxed, Append(s, e))
      BY <2>2, AppendUnique
    <2> QED BY <1>1, <1>3, <1>7, <2>1, <2>3, <2>4
  <1>8. CASE i # 0
    <2>1. PICK x : x = <<s[i][1], value>>
      OBVIOUS
    <2>2. t = Put(s, i, x) /\ i \in DOMAIN s
      BY <1>4, <1>6, <1>8, <2>1 DEF Put
    <2>3. Name("map", unboxed, x) = Name("map", unboxed, s[i])
      BY <2>1 DEF Name
    <2>4. /\ IsSeq(t) /\ Len(t) = Len(s) /\ DOMAIN t = DOMAIN s /\ Unique("map", unboxed, t)
          /\ \A j \in DOMAIN s : Name("map", unboxed, t[j]) = Name("map", unboxed, s[j])
      BY <2>2, <2>3, ReplaceUnique
    <2> QED BY <1>3, <2>4
  <1> QED BY <1>7, <1>8

(* set.                                                                    *)
LEMMA MapSet ==
    ASSUME MapInv, NEW key, Map!set(key)
    PROVE  MapInv'
  <1> DEFINE t == Map!EntriesAfterSet(held, key, local)
  <1>1. /\ held' = t /\ unboxed' = unboxed /\ second' = second /\ past' = past
        /\ charged' = Map!Counter(charged + Len(t) - Len(held))
        /\ Map!Running
    BY DEF Map!set
  <1>2. /\ IsSeq(t) /\ Unique("map", unboxed, t)
        /\ Map!Find(held, key) # 0 =>
              /\ DOMAIN t = DOMAIN held /\ Len(t) = Len(held)
              /\ \A m \in DOMAIN held : Name("map", unboxed, t[m]) = Name("map", unboxed, held[m])
    BY MapAfterSet DEF MapInv
  <1> HIDE DEF t
  <1>3. Len(t) \in Nat /\ Len(held) \in Nat /\ Len(second) \in Nat /\ Len(call.out) \in Nat /\ charged \in Nat
    BY <1>2, SeqHas DEF MapInv
  <1>4. CASE Map!Find(held, key) # 0
    <2>1. charged' = charged /\ call' = call
      BY <1>1, <1>2, <1>3, <1>4 DEF Map!Counter, Map!set
    <2>2. MapCall(unboxed', held', call')
      BY <1>1, <1>2, <1>4, <2>1 DEF MapInv, MapCall
    <2>3. Map!ChargeIsSize'
      BY <1>1, <1>2, <1>4, <2>1 DEF MapInv, Map!ChargeIsSize, Map!At
    <2> QED BY <1>1, <1>2, <2>1, <2>2, <2>3 DEF MapInv
  <1>5. CASE Map!Find(held, key) = 0
    <2>1. Moving(call, call')
      BY <1>5, MovingIs DEF Map!set, Map!Grows, Map!Moves, Map!At, MapInv
    <2> QED BY <1>1, <1>2, <2>1, MapMoves
  <1> QED BY <1>4, <1>5

(* get, and the other looks into the map.                                  *)
LEMMA MapGet ==
    ASSUME MapInv, NEW key, Map!get(key)
    PROVE  MapInv'
  BY MapSame DEF Map!get, Map!mapDataVars

(* get_or_default.                                                         *)
LEMMA MapDefault ==
    ASSUME MapInv, NEW key, Map!get_or_default(key)
    PROVE  MapInv'
  <1>1. CASE Map!Find(held, key) # 0
    BY <1>1, MapGet DEF Map!get_or_default
  <1>2. CASE Map!Find(held, key) = 0
    <2>1. PICK e : e = Map!Entry(key, local)
      OBVIOUS
    <2>2. /\ held' = Append(held, e) /\ Map!Idle
          /\ unboxed' = unboxed /\ second' = second /\ charged' = charged
          /\ past' # {} /\ (call' = call \/ call' = Map!Stopped)
      BY <1>2, <2>1 DEF Map!get_or_default, Map!Miscounts, Map!Records
    <2>3. Name("map", unboxed, e) = key[1]
      BY <2>1 DEF Map!Entry, Map!Content, Name
    <2>4. \A m \in DOMAIN held : Name("map", unboxed, held[m]) # Name("map", unboxed, e)
      BY <1>2, <2>3, MapFind DEF MapInv
    <2>5. IsSeq(held) /\ Unique("map", unboxed, held)
      BY DEF MapInv
    <2>6. IsSeq(Append(held, e)) /\ Unique("map", unboxed, Append(held, e))
      <3>1. IsSeq(Append(held, e))
        BY <2>5, AppendIs
      <3> QED BY <2>4, <2>5, <3>1, AppendUnique
    <2>7. /\ CallShape(call') /\ call'.out = <<>> /\ call'.fn \notin Map!Loops
          /\ call'.pc \in {"idle", "stopped"} => call'.fn = "none"
      BY <2>2, MapNotRunning, NewCall DEF Map!Loops, Map!Predicates, Map!Transforms
    <2> QED BY <2>2, <2>6, <2>7, MapChanged DEF MapInv
  <1> QED BY <1>1, <1>2

(* An entry is removed: the last entry takes its place.                    *)
LEMMA MapRemoved ==
    ASSUME MapInv, Map!Running, NEW key, NEW i \in DOMAIN held, Map!Removed(i, key)
    PROVE  MapInv'
  <1>1. /\ held' = Map!Erased(held, i) /\ charged' = Map!Counter(charged - 1)
        /\ unboxed' = unboxed /\ second' = second
        /\ call' = Map!Stopped \/ (Map!Shrinks /\ past' = past)
    BY DEF Map!Removed, Map!Undefined, Map!Miscounts, Map!Records, Map!Exactly
  <1>2. held' = IF i = Len(held) THEN Front(held) ELSE [Front(held) EXCEPT ![i] = Last(held)]
    BY <1>1 DEF Map!Erased, Map!Front, Map!Last, Front, Last
  <1>3. IsSeq(held') /\ Len(held') = Len(held) - 1 /\ Unique("map", unboxed, held')
    BY <1>2, ErasedUnique DEF MapInv
  <1>4. Len(held') \in Nat /\ Len(held) \in Nat /\ Len(second) \in Nat /\ charged \in Nat
    BY <1>3, SeqHas DEF MapInv
  <1>5. charged' \in Nat /\ charged' = Map!Counter(charged + Len(held') - Len(held))
    BY <1>1, <1>3, <1>4 DEF Map!Counter
  <1>6. CASE call' = Map!Stopped
    <2>1. /\ CallShape(call') /\ call'.out = <<>> /\ call'.fn = "none" /\ call'.pc = "stopped"
          /\ call'.fn \notin Map!Loops
      BY <1>6, NewCall DEF Map!Loops, Map!Predicates, Map!Transforms
    <2> QED BY <1>1, <1>3, <1>5, <2>1, MapChanged DEF MapInv
  <1>7. CASE Map!Shrinks /\ past' = past
    <2>1. Moving(call, call')
      BY <1>7, MovingIs DEF Map!Shrinks, Map!Moves, Map!At, MapInv
    <2> QED BY <1>1, <1>3, <1>5, <1>7, <2>1, MapMoves
  <1> QED BY <1>1, <1>6, <1>7

(* remove and remove_pair.                                                 *)
LEMMA MapRemove ==
    ASSUME MapInv, NEW key, Map!remove(key) \/ Map!remove_pair(key)
    PROVE  MapInv'
  <1>1. Map!Running /\ Map!Find(held, key) # 0 /\ Map!Removed(Map!Find(held, key), key)
    BY DEF Map!remove, Map!remove_pair
  <1>2. Map!Find(held, key) \in DOMAIN held
    BY <1>1, MapFind DEF MapInv
  <1> QED BY <1>1, <1>2, MapRemoved

(* clear.                                                                  *)
LEMMA MapClear ==
    ASSUME MapInv, Map!clear
    PROVE  MapInv'
  <1>1. /\ held' = <<>> /\ charged' = Map!Counter(charged - Len(held))
        /\ unboxed' = unboxed /\ second' = second /\ past' = past
        /\ Map!Running
        /\ IF held = <<>> THEN call' = call ELSE Map!Shrinks
    BY DEF Map!clear
  <1>2. IsSeq(held') /\ Len(held') = 0 /\ Unique("map", unboxed, held')
    BY <1>1, EmptyIsSeq, NoneUnique
  <1>3. Len(held) \in Nat /\ Len(second) \in Nat /\ charged \in Nat
    BY SeqHas DEF MapInv
  <1>4. charged' = Map!Counter(charged + Len(held') - Len(held))
    BY <1>1, <1>2, <1>3 DEF Map!Counter
  <1>5. CASE held = <<>>
    <2>1. held' = held /\ call' = call /\ Len(held') = Len(held) /\ charged' = charged
      BY <1>1, <1>2, <1>3, <1>4, <1>5 DEF Map!Counter
    <2> QED BY <1>1, <2>1, MapSame
  <1>6. CASE held # <<>>
    <2>1. Moving(call, call')
      BY <1>1, <1>6, MovingIs DEF Map!Shrinks, Map!Moves, Map!At, MapInv
    <2> QED BY <1>1, <1>2, <1>4, <2>1, MapMoves
  <1> QED BY <1>5, <1>6

(* A new map takes the place of the second.                                *)
LEMMA MapNewMap ==
    ASSUME MapInv, NEW h, NEW s, IsSeq(s), Unique("map", unboxed, s), Map!NewMap(h, s)
    PROVE  MapInv'
  <1>1. /\ second' = s /\ charged' = Map!Counter(charged + Len(s) - Len(second))
        /\ unboxed' = unboxed /\ held' = held /\ call' = call /\ past' = past
        /\ Map!Idle
    BY DEF Map!NewMap
  <1>2. Len(held) \in Nat /\ Len(second) \in Nat /\ Len(s) \in Nat /\ charged \in Nat
    BY SeqHas DEF MapInv
  <1>3. charged' \in Nat /\ (past = {} => charged' = Len(held) + Len(s))
    BY <1>1, <1>2, MapNotRunning DEF Map!Counter
  <1> QED BY <1>1, <1>3, MapNotRunning, MapChanged DEF MapInv

(* Functions that return a new map of the entries of one or two.           *)
LEMMA MapWholeMaps ==
    ASSUME MapInv,
           Map!clone \/ Map!plus \/ (\E key : Map!minus(key) \/ Map!plus_pair(key))
    PROVE  MapInv'
  <1>0. /\ IsSeq(held) /\ Unique("map", unboxed, held) /\ unboxed \in BOOLEAN
        /\ IsSeq(second) /\ Unique("map", unboxed, second)
    BY DEF MapInv
  <1>1. CASE Map!clone
    BY <1>0, <1>1, MapNewMap DEF Map!clone
  <1>2. CASE Map!plus
    <2>1. PICK h, s : Map!NewMap(h, s) /\ s = Map!MergedEntries(held, second)
      BY <1>2 DEF Map!plus
    <2> QED BY <1>0, <2>1, MergedIs, MapNewMap
  <1>3. ASSUME NEW key, Map!minus(key) PROVE MapInv'
    <2>1. PICK h, s, w : Map!NewMap(h, s) /\ s = Map!Among(held, w)
      BY <1>3 DEF Map!minus
    <2> QED BY <1>0, <2>1, AmongIs, MapNewMap
  <1>4. ASSUME NEW key, Map!plus_pair(key) PROVE MapInv'
    <2>1. PICK h, s : Map!NewMap(h, s) /\ s = Map!EntriesAfterSet(held, key, local)
      BY <1>4 DEF Map!plus_pair
    <2> QED BY <1>0, <2>1, MapAfterSet, MapNewMap
  <1> QED BY <1>1, <1>2, <1>3, <1>4

(* put_all.                                                                *)
LEMMA MapPutAll ==
    ASSUME MapInv, Map!put_all
    PROVE  MapInv'
  <1>1. /\ held' = Map!MergedEntries(held, second)
        /\ charged' = Map!Counter(charged + Len(held') - Len(held))
        /\ unboxed' = unboxed /\ second' = second /\ call' = call /\ past' = past
        /\ Map!Idle
    BY DEF Map!put_all
  <1>2. IsSeq(held') /\ Unique("map", unboxed, held')
    BY <1>1, MergedIs DEF MapInv
  <1>3. Len(held) \in Nat /\ Len(second) \in Nat /\ Len(held') \in Nat /\ charged \in Nat
    BY <1>2, SeqHas DEF MapInv
  <1>4. charged' \in Nat /\ (past = {} => charged' = Len(held') + Len(second))
    BY <1>1, <1>3, MapNotRunning DEF Map!Counter
  <1> QED BY <1>1, <1>2, <1>4, MapNotRunning, MapChanged DEF MapInv

(* The program keeps its second map in place of the first.                 *)
LEMMA MapUseSecond ==
    ASSUME MapInv, Map!UseSecond
    PROVE  MapInv'
  <1>1. /\ held' = second /\ second' = <<>> /\ charged' = Map!Counter(charged - Len(held))
        /\ unboxed' = unboxed /\ call' = call /\ past' = past
        /\ Map!Idle
    BY DEF Map!UseSecond
  <1>2. IsSeq(second') /\ Len(second') = 0 /\ Unique("map", unboxed, second')
    BY <1>1, EmptyIsSeq, NoneUnique
  <1>3. Len(held) \in Nat /\ Len(second) \in Nat /\ charged \in Nat
    BY SeqHas DEF MapInv
  <1>4. charged' \in Nat /\ (past = {} => charged' = Len(held') + Len(second'))
    BY <1>1, <1>2, <1>3, MapNotRunning DEF Map!Counter
  <1> QED BY <1>1, <1>2, <1>4, MapNotRunning, MapChanged DEF MapInv

(***************************************************************************)
(* Functions with callbacks.                                               *)
(***************************************************************************)
LEMMA MapBegin ==
    ASSUME MapInv, NEW fn, Map!Begin(fn)
    PROVE  MapInv'
  <1>1. PICK c : c = Map!NoCall
    OBVIOUS
  <1>2. CallShape(c) /\ c.out = <<>>
    BY <1>1, NewCall
  <1>3. PICK d : d = [c EXCEPT !.fn = fn, !.pc = "loop", !.i = 1, !.n = Len(held)]
    OBVIOUS
  <1>4. CallShape(d) /\ d.fn = fn /\ d.pc = "loop" /\ d.i = 1 /\ d.n = Len(held) /\ d.out = <<>>
    BY <1>2, <1>3 DEF CallShape
  <1>5. /\ call' = d /\ Map!Idle /\ fn \in Map!Loops
        /\ unboxed' = unboxed /\ held' = held /\ second' = second
        /\ charged' = charged /\ past' = past
    BY <1>1, <1>3 DEF Map!Begin, Map!MayBegin, Map!mapDataVars
  <1>6. IsSeq(call'.out) /\ Len(call'.out) = 0 /\ DOMAIN call'.out = {} /\ Unique("map", unboxed, call'.out)
    BY <1>4, <1>5, EmptyIsSeq, SeqHas, NoneUnique
  <1>7. MapCall(unboxed', held', call')
    BY <1>4, <1>5, <1>6 DEF MapCall
  <1>8. Map!ChargeIsSize'
    BY <1>5, <1>6, MapIdle DEF MapInv, Map!ChargeIsSize, Map!At, Map!Idle
  <1> QED BY <1>4, <1>5, <1>6, <1>7, <1>8 DEF MapInv

(* get_or_put and get_or_else begin.                                       *)
LEMMA MapBeginDefault ==
    ASSUME MapInv, NEW fn, NEW key, Map!BeginDefault(fn, key)
    PROVE  MapInv'
  <1>1. PICK c : c = Map!NoCall
    OBVIOUS
  <1>2. CallShape(c) /\ c.out = <<>>
    BY <1>1, NewCall
  <1>3. PICK d : d = [c EXCEPT !.fn = fn, !.pc = "calling", !.acc = key]
    OBVIOUS
  <1>4. CallShape(d) /\ d.fn = fn /\ d.pc = "calling" /\ d.out = <<>>
    BY <1>2, <1>3 DEF CallShape
  <1>5. /\ call' = d /\ Map!Idle /\ fn \in Map!Defaults
        /\ unboxed' = unboxed /\ held' = held /\ second' = second
        /\ charged' = charged /\ past' = past
    BY <1>1, <1>3 DEF Map!BeginDefault, Map!MayBegin, Map!mapDataVars
  <1>6. fn \notin Map!Loops
    BY <1>5 DEF Map!Defaults, Map!Loops, Map!Predicates, Map!Transforms
  <1>7. past = {} => charged' = Len(held) + Len(second)
    BY <1>5, MapNotRunning
  <1> QED BY <1>4, <1>5, <1>6, <1>7, MapChanged DEF MapInv

(* A loop calls the script.                                                *)
LEMMA MapInvoke ==
    ASSUME MapInv, Map!Invoke
    PROVE  MapInv'
  <1>1. PICK x, y : call' = [call EXCEPT !.pc = "calling", !.item = x, !.acc = y]
    BY DEF Map!Invoke
  <1>2. /\ CallShape(call') /\ call'.pc = "calling" /\ call'.out = call.out /\ call'.fn = call.fn
        /\ call'.i = call.i /\ call'.n = call.n /\ call'.moved = call.moved
    BY <1>1 DEF CallShape, MapInv
  <1>3. /\ call.pc = "loop" /\ call.i <= call.n
        /\ UNCHANGED <<unboxed, held, second, charged, past>>
    BY DEF Map!Invoke, Map!At, Map!InLoop, Map!mapDataVars
  <1> QED BY <1>2, <1>3, MapCallStep

(* The memory limit ends the run while a native function works.            *)
LEMMA MapOut ==
    ASSUME MapInv, Map!OutOfObjects
    PROVE  MapInv'
  <1>1. /\ call' = Map!Stopped /\ call.pc \in {"loop", "returned"}
        /\ UNCHANGED <<unboxed, held, second, charged, past>>
    BY DEF Map!OutOfObjects, Map!TooFewCopies, Map!mapDataVars
  <1> QED BY <1>1, NewCall, MapNoCall

(* The script answers.                                                     *)
LEMMA MapScript ==
    ASSUME MapInv, Map!ScriptAnswers \/ Map!ScriptReturns \/ Map!ScriptEnds
    PROVE  MapInv'
  <1>1. \/ \E x : call' = [call EXCEPT !.pc = "returned", !.yes = x]
        \/ \E x : call' = [call EXCEPT !.pc = "returned", !.res = x]
        \/ call' = [call EXCEPT !.pc = "returned"]
    BY DEF Map!ScriptAnswers, Map!ScriptReturns, Map!ScriptEnds
  <1>2. /\ CallShape(call') /\ call'.pc = "returned" /\ call'.out = call.out /\ call'.fn = call.fn
        /\ call'.i = call.i /\ call'.n = call.n /\ call'.moved = call.moved
    BY <1>1 DEF CallShape, MapInv
  <1>3. /\ call.pc = "calling"
        /\ UNCHANGED <<unboxed, held, second, charged, past>>
    BY DEF Map!ScriptAnswers, Map!ScriptReturns, Map!ScriptEnds, Map!At, Map!mapDataVars
  <1> QED BY <1>2, <1>3, MapCallStep

(* The script raises.                                                      *)
LEMMA MapRaises ==
    ASSUME MapInv, Map!ScriptRaises
    PROVE  MapInv'
  <1>1. /\ call' = Map!NoCall /\ call.pc = "calling"
        /\ past' = past \cup (IF call.out = <<>> THEN {} ELSE {"leak"})
        /\ UNCHANGED <<unboxed, held, second, charged>>
    BY DEF Map!ScriptRaises, Map!At, Map!Records, Map!mapDataVars
  <1>2. past' # {} \/ (past' = past /\ call.out = <<>>)
    BY <1>1
  <1> QED BY <1>1, <1>2, MapNoCall

(* What follows is not defined, and the run stops.                         *)
LEMMA MapLost ==
    ASSUME MapInv, Map!LostPlace \/ Map!LostValue
    PROVE  MapInv'
  <1>1. /\ call' = Map!Stopped /\ call.pc \in {"calling", "returned"} /\ past' # {}
        /\ UNCHANGED <<unboxed, held, second, charged>>
    BY DEF Map!LostPlace, Map!LostValue, Map!At, Map!Undefined, Map!Records, Map!mapDataVars
  <1> QED BY <1>1, MapNoCall

(* The loop goes on, and what the function has made is out.                *)
LEMMA MapGoes ==
    ASSUME MapInv, call.pc = "returned", call.fn \in Map!Loops, call.moved = {},
           NEW h, NEW out, Map!Goes(h, out),
           IsSeq(out), Unique("map", unboxed, out),
           call.fn \notin Map!Makers => out = <<>>,
           call.fn \in FromEntries =>
               \A m \in DOMAIN out : \E j \in DOMAIN held :
                   j < call.i + 1 /\ Name("map", unboxed, out[m]) = Name("map", unboxed, held[j])
    PROVE  MapInv'
  <1>1. /\ call' = [call EXCEPT !.pc = "loop", !.i = @ + 1, !.item = Nothing, !.acc = Nothing,
                            !.res = Nothing, !.yes = FALSE, !.out = out]
        /\ charged' = Map!Counter(charged + Len(out) - Len(call.out))
        /\ past' = past /\ unboxed' = unboxed /\ held' = held /\ second' = second
    BY DEF Map!Goes, Map!Exactly, Map!Miscounts, Map!Records
  <1>2. /\ CallShape(call') /\ call'.pc = "loop" /\ call'.i = call.i + 1 /\ call'.n = call.n
        /\ call'.fn = call.fn /\ call'.out = out
    BY <1>1 DEF CallShape, MapInv
  <1>3. /\ Len(held) \in Nat /\ Len(second) \in Nat /\ Len(out) \in Nat /\ Len(call.out) \in Nat
        /\ charged \in Nat /\ unboxed \in BOOLEAN
    BY SeqHas DEF MapInv
  <1>4. charged' \in Nat
    BY <1>1, <1>3 DEF Map!Counter
  <1>6. past = {} => charged' = Len(held) + Len(second) + Len(out)
    <2>1. past = {} => charged = Len(held) + Len(second) + Len(call.out)
      BY DEF MapInv, Map!ChargeIsSize, Map!At
    <2> QED BY <1>1, <1>3, <2>1 DEF Map!Counter
  <1>7. Map!ChargeIsSize'
    BY <1>1, <1>2, <1>6 DEF Map!ChargeIsSize, Map!At
  <1>5. MapCall(unboxed', held', call')
    BY <1>1, <1>2 DEF MapInv, MapCall
  <1> QED BY <1>1, <1>2, <1>3, <1>4, <1>5, <1>7 DEF MapInv

(* A loop goes on to the next entry with what it has.                      *)
LEMMA MapGoesOn ==
    ASSUME MapInv, call.pc = "returned", call.fn \in Map!Loops, call.moved = {},
           NEW h, Map!Goes(h, call.out)
    PROVE  MapInv'
  <1>1. /\ IsSeq(call.out) /\ Unique("map", unboxed, call.out)
        /\ call.fn \notin Map!Makers => call.out = <<>>
    BY DEF MapInv, MapCall
  <1>2. ASSUME call.fn \in FromEntries, NEW m \in DOMAIN call.out
        PROVE  \E j \in DOMAIN held :
                   j < call.i + 1 /\ Name("map", unboxed, call.out[m]) = Name("map", unboxed, held[j])
    <2>1. /\ IsSeq(held) /\ call.i \in Nat
          /\ \E j \in DOMAIN held :
                j < call.i /\ Name("map", unboxed, call.out[m]) = Name("map", unboxed, held[j])
      BY <1>2 DEF MapInv, MapCall
    <2> QED BY <2>1, SeqHas
  <1> QED BY <1>1, <1>2, MapGoes

(* One entry more is collected, with the key of the entry the loop is at.  *)
LEMMA MapCollect ==
    ASSUME MapInv, call.pc = "returned", call.fn \in FromEntries, call.moved = {},
           NEW h, NEW x, Map!Goes(h, Append(call.out, x)),
           Name("map", unboxed, x) = Name("map", unboxed, held[call.i])
    PROVE  MapInv'
  <1>1. call.fn \in Map!Loops /\ call.fn \in Map!Makers
    BY DEF FromEntries, Map!Loops, Map!Makers, Map!Predicates, Map!Transforms
  <1>2. /\ IsSeq(held) /\ Unique("map", unboxed, held)
        /\ IsSeq(call.out) /\ Unique("map", unboxed, call.out)
    BY DEF MapInv
  <1>3. /\ DOMAIN held = 1 .. Len(held) /\ Len(held) \in Nat
        /\ DOMAIN call.out = 1 .. Len(call.out) /\ Len(call.out) \in Nat
    BY <1>2, SeqHas
  <1>4. call.i \in DOMAIN held /\ call.i \in Nat
    BY <1>1, <1>3 DEF MapInv, MapCall
  <1>5. \A m \in DOMAIN call.out : \E j \in DOMAIN held :
            j < call.i /\ Name("map", unboxed, call.out[m]) = Name("map", unboxed, held[j])
    BY DEF MapInv, MapCall
  <1>6. \A m \in DOMAIN call.out : Name("map", unboxed, call.out[m]) # Name("map", unboxed, x)
    BY <1>2, <1>3, <1>4, <1>5 DEF Unique
  <1> DEFINE out == Append(call.out, x)
  <1>7. IsSeq(out) /\ Unique("map", unboxed, out)
    BY <1>2, <1>6, AppendIs, AppendUnique
  <1>8. /\ DOMAIN out = 1 .. Len(call.out) + 1
        /\ \A m \in DOMAIN call.out : out[m] = call.out[m]
        /\ out[Len(call.out) + 1] = x
    BY <1>2, AppendIs
  <1> HIDE DEF out
  <1>9. \A m \in DOMAIN out : \E j \in DOMAIN held :
            j < call.i + 1 /\ Name("map", unboxed, out[m]) = Name("map", unboxed, held[j])
    <2> SUFFICES ASSUME NEW m \in DOMAIN out
                 PROVE  \E j \in DOMAIN held :
                   j < call.i + 1 /\ Name("map", unboxed, out[m]) = Name("map", unboxed, held[j])
      OBVIOUS
    <2>1. m \in DOMAIN call.out \/ m = Len(call.out) + 1
      BY <1>3, <1>8
    <2>2. CASE m \in DOMAIN call.out
      <3>1. out[m] = call.out[m]
        BY <1>8, <2>2
      <3>2. PICK j \in DOMAIN held :
                j < call.i /\ Name("map", unboxed, call.out[m]) = Name("map", unboxed, held[j])
        BY <1>5, <2>2
      <3>3. j < call.i + 1
        BY <1>3, <1>4, <3>2
      <3> QED BY <3>1, <3>2, <3>3
    <2>3. CASE m = Len(call.out) + 1
      <3>1. call.i < call.i + 1
        BY <1>4
      <3> QED BY <1>4, <1>8, <2>3, <3>1
    <2> QED BY <2>1, <2>2, <2>3
  <1>10. Map!Goes(h, out)
    BY DEF out
  <1> QED BY <1>1, <1>7, <1>9, <1>10, MapGoes

(* Functions that make a map of the entries the script chooses.            *)
LEMMA MapFilters ==
    ASSUME MapInv, Map!filter \/ Map!filter_values \/ Map!map_values
    PROVE  MapInv'
  <1>1. call.pc = "returned" /\ call.fn \in FromEntries
    BY DEF Map!filter, Map!filter_values, Map!map_values, Map!After, Map!At, FromEntries
  <1>0. call.moved = {}
    BY <1>1 DEF Map!filter, Map!filter_values, Map!map_values, Map!After, Map!Moved, Map!GoesOn,
       Map!Defaults, FromEntries
  <1>2. call.fn \in Map!Loops
    BY <1>1 DEF FromEntries, Map!Loops, Map!Predicates, Map!Transforms
  <1>3. \A x : Name("map", unboxed, <<held[call.i][1], x>>) = Name("map", unboxed, held[call.i])
    BY DEF Name
  <1>4. CASE Map!filter
    <2>1. CASE call.yes
      <3>1. PICK h : Map!Goes(h, Append(call.out, held[call.i]))
        BY <1>4, <2>1 DEF Map!filter, Map!Here
      <3> QED BY <1>0, <1>1, <3>1, MapCollect
    <2>2. CASE ~call.yes
      BY <1>0, <1>1, <1>2, <1>4, <2>2, MapGoesOn DEF Map!filter, Map!Skip
    <2> QED BY <2>1, <2>2
  <1>5. CASE Map!filter_values
    <2>1. CASE call.yes
      <3>1. PICK h : Map!Goes(h, Append(call.out, <<held[call.i][1], call.acc>>))
        BY <1>5, <2>1 DEF Map!filter_values, Map!Here
      <3> QED BY <1>0, <1>1, <1>3, <3>1, MapCollect
    <2>2. CASE ~call.yes
      <3>1. PICK h : Map!Goes(h, call.out)
        BY <1>5, <2>2 DEF Map!filter_values
      <3> QED BY <1>0, <1>1, <1>2, <3>1, MapGoesOn
    <2> QED BY <2>1, <2>2
  <1>6. CASE Map!map_values
    <2>1. PICK h : Map!Goes(h, Append(call.out, <<held[call.i][1], call.res>>))
      BY <1>6 DEF Map!map_values, Map!Here
    <2> QED BY <1>0, <1>1, <1>3, <2>1, MapCollect
  <1> QED BY <1>4, <1>5, <1>6

(* A loop that makes no map ends.                                          *)
LEMMA MapStops ==
    ASSUME MapInv, call.pc \notin {"idle", "stopped"}, call.out = <<>>, NEW h, Map!Stop(h)
    PROVE  MapInv'
  <1>1. /\ call' = Map!NoCall /\ past' = past
        /\ UNCHANGED <<unboxed, held, second, charged>>
    BY DEF Map!Stop, Map!Exactly, Map!Miscounts, Map!Records, Map!mapDataVars
  <1> QED BY <1>1, MapNoCall

(* Functions that make none.                                               *)
LEMMA MapOthers ==
    ASSUME MapInv, Map!for_each \/ Map!any_fn \/ Map!all_fn \/ Map!map
    PROVE  MapInv'
  <1>1. /\ call.pc = "returned" /\ call.fn \in Map!Loops
        /\ (call.moved = {} /\ \E h : Map!Goes(h, call.out))
             \/ (call.fn \notin Map!Makers /\ \E h : Map!Stop(h))
    BY DEF Map!for_each, Map!any_fn, Map!all_fn, Map!map, Map!After, Map!At, Map!Skip,
       Map!Moved, Map!GoesOn, Map!Defaults, Map!Loops, Map!Predicates, Map!Transforms, Map!Makers
  <1>2. call.fn \notin Map!Makers => call.out = <<>>
    BY DEF MapInv, MapCall
  <1> QED BY <1>1, <1>2, MapGoesOn, MapStops

(* map_keys, whose callback may give two entries one key.                  *)
LEMMA MapKeys ==
    ASSUME MapInv, Map!map_keys
    PROVE  MapInv'
  <1>1. PICK h, x : /\ Map!Goes(h, Map!EntriesAfterSet(call.out, call.res, x))
                    /\ call.pc = "returned" /\ call.fn = "map_keys" /\ call.moved = {}
    BY DEF Map!map_keys, Map!After, Map!At, Map!Moved, Map!GoesOn, Map!Defaults
  <1>2. PICK out : out = Map!EntriesAfterSet(call.out, call.res, x)
    OBVIOUS
  <1>3. IsSeq(out) /\ Unique("map", unboxed, out)
    BY <1>2, MapAfterSet DEF MapInv
  <1>4. call.fn \in Map!Loops /\ call.fn \in Map!Makers /\ call.fn \notin FromEntries
    BY <1>1 DEF Map!Loops, Map!Transforms, Map!Makers, FromEntries
  <1> QED BY <1>1, <1>2, <1>3, <1>4, MapGoes

(* get_or_put and get_or_else, after the callback made the value.          *)
LEMMA MapPut ==
    ASSUME MapInv, Map!get_or_put \/ Map!get_or_else
    PROVE  MapInv'
  <1>1. PICK t : t = Map!EntriesAfterSet(held, call.acc, call.res)
    OBVIOUS
  <1>2. IsSeq(t) /\ Unique("map", unboxed, t)
    BY <1>1, MapAfterSet DEF MapInv
  <1>3. /\ \/ held' = held /\ charged' = charged
           \/ held' = t /\ charged' = Map!Counter(charged + Len(t) - Len(held))
        /\ unboxed' = unboxed /\ second' = second /\ call' = Map!NoCall
        /\ past' # {}
    BY <1>1 DEF Map!get_or_put, Map!get_or_else, Map!Records, Map!mapDataVars
  <1>4. Len(held) \in Nat /\ Len(t) \in Nat
    BY <1>2, SeqHas DEF MapInv
  <1>5. charged' \in Nat
    <2>1. charged \in Nat
      BY DEF MapInv
    <2>2. Map!Counter(charged + Len(t) - Len(held)) \in Nat
      BY <1>4, <2>1 DEF Map!Counter
    <2> QED BY <1>3, <2>1, <2>2
  <1>6. /\ CallShape(call') /\ call'.out = <<>> /\ call'.fn = "none" /\ call'.fn \notin Map!Loops
    BY <1>3, NewCall DEF Map!Loops, Map!Predicates, Map!Transforms
  <1>7. IsSeq(held') /\ Unique("map", unboxed, held')
    BY <1>2, <1>3 DEF MapInv
  <1> QED BY <1>3, <1>5, <1>6, <1>7, MapChanged DEF MapInv

(* A loop has no entry left.                                               *)
LEMMA MapEnds ==
    ASSUME MapInv, Map!EndWithMap \/ Map!EndWithout
    PROVE  MapInv'
  <1>1. CASE Map!EndWithMap
    <2>1. /\ second' = call.out /\ charged' = Map!Counter(charged - Len(second))
          /\ unboxed' = unboxed /\ held' = held /\ past' = past /\ call' = Map!NoCall
          /\ call.pc = "loop"
      BY <1>1 DEF Map!EndWithMap, Map!At
    <2>2. Len(held) \in Nat /\ Len(second) \in Nat /\ Len(call.out) \in Nat /\ charged \in Nat
      BY SeqHas DEF MapInv
    <2>3. past = {} => charged = Len(held) + Len(second) + Len(call.out)
      BY <2>1 DEF MapInv, Map!ChargeIsSize, Map!At
    <2>4. charged' \in Nat
      BY <2>1, <2>2 DEF Map!Counter
    <2>6. past = {} => charged' = Len(held') + Len(second')
      <3>1. past = {} => Map!Counter(charged - Len(second)) = Len(held) + Len(call.out)
        <4>1. PICK a, b, c : a = Len(held) /\ b = Len(second) /\ c = Len(call.out)
          OBVIOUS
        <4>2. a \in Nat /\ b \in Nat /\ c \in Nat
          BY <2>2, <4>1
        <4>3. (a + b + c) - b = a + c /\ a + c \in Nat
          BY <4>2
        <4>4. past = {} => charged - Len(second) = a + c
          BY <2>3, <4>1, <4>3
        <4>5. \A m \in Nat : Map!Counter(m) = m
          BY DEF Map!Counter
        <4> QED BY <4>1, <4>3, <4>4, <4>5
      <3> QED BY <2>1, <3>1
    <2>7. IsSeq(held') /\ IsSeq(second') /\ Unique("map", unboxed, held') /\ Unique("map", unboxed, second')
      BY <2>1 DEF MapInv
    <2>5. /\ CallShape(call') /\ call'.out = <<>> /\ call'.fn = "none" /\ call'.fn \notin Map!Loops
      BY <2>1, NewCall DEF Map!Loops, Map!Predicates, Map!Transforms
    <2> QED BY <2>1, <2>4, <2>5, <2>6, <2>7, MapChanged
  <1>2. CASE Map!EndWithout
    <2>1. call.pc = "loop" /\ call.fn \notin Map!Makers /\ Map!Stop(heap)
      BY <1>2 DEF Map!EndWithout, Map!At
    <2>2. call.out = <<>>
      BY <2>1 DEF MapInv, MapCall
    <2> QED BY <2>1, <2>2, MapStops
  <1> QED BY <1>1, <1>2

(* The invariant of maps holds at first.                                   *)
LEMMA MapInit == Map!Init => MapInv
  <1> SUFFICES ASSUME Map!Init PROVE MapInv
    OBVIOUS
  <1>1. /\ call = Map!NoCall /\ unboxed \in BOOLEAN
        /\ held = <<>> /\ second = <<>> /\ charged = 0
    BY DEF Map!Init, Map!Begun
  <1>2. IsSeq(<<>>) /\ Len(<<>>) = 0 /\ Unique("map", unboxed, <<>>)
    BY EmptyIsSeq, NoneUnique
  <1>3. MapCall(unboxed, held, call)
    BY <1>1, NewCall DEF MapCall, Map!Loops, Map!Predicates, Map!Transforms, FromEntries
  <1>4. Map!ChargeIsSize
    <2>1. Len(held) = 0 /\ Len(second) = 0 /\ Len(call.out) = 0
      BY <1>1, <1>2, NewCall
    <2> QED BY <1>1, <2>1 DEF Map!ChargeIsSize
  <1> QED BY <1>1, <1>2, <1>3, <1>4, NewCall DEF MapInv

(* And when the program starts again.                                      *)
LEMMA MapRestart ==
    ASSUME MapInv, Map!Restart
    PROVE  MapInv'
  <1>1. /\ call' = Map!NoCall /\ unboxed' \in BOOLEAN
        /\ held' = <<>> /\ second' = <<>> /\ charged' = 0
    BY DEF Map!Restart, Map!BegunAgain
  <1>2. IsSeq(<<>>) /\ Len(<<>>) = 0 /\ Unique("map", unboxed', <<>>)
    BY EmptyIsSeq, NoneUnique
  <1>3. MapCall(unboxed', held', call')
    BY <1>1, NewCall DEF MapCall, Map!Loops, Map!Predicates, Map!Transforms, FromEntries
  <1>4. Map!ChargeIsSize'
    <2>1. Len(held') = 0 /\ Len(second') = 0 /\ Len(call'.out) = 0
      BY <1>1, <1>2, NewCall
    <2> QED BY <1>1, <2>1 DEF Map!ChargeIsSize
  <1> QED BY <1>1, <1>2, <1>3, <1>4, NewCall DEF MapInv

(* Every step of a program with maps keeps it.                             *)
LEMMA MapNext ==
    ASSUME MapInv, Map!Next
    PROVE  MapInv'
  <1>1. CASE \E fn \in Map!Loops : Map!Begin(fn)
    BY <1>1, MapBegin
  <1>2. CASE \E fn \in Map!Defaults, key \in Map!Objects : Map!BeginDefault(fn, key)
    BY <1>2, MapBeginDefault
  <1>3. CASE Map!Invoke \/ Map!OutOfObjects \/ Map!ScriptAnswers \/ Map!ScriptReturns
             \/ Map!ScriptEnds \/ Map!ScriptRaises \/ Map!LostPlace \/ Map!LostValue
    BY <1>3, MapInvoke, MapOut, MapScript, MapRaises, MapLost
  <1>4. CASE Map!Answered \/ Map!EndWithMap \/ Map!EndWithout
    BY <1>4, MapOthers, MapFilters, MapKeys, MapPut, MapEnds DEF Map!Answered
  <1>5. CASE \E key \in Map!Objects :
                \/ Map!set(key) \/ Map!get(key) \/ Map!get_or_default(key) \/ Map!remove(key)
                \/ Map!remove_pair(key) \/ Map!minus(key) \/ Map!plus_pair(key)
    BY <1>5, MapSet, MapGet, MapDefault, MapRemove, MapWholeMaps
  <1>6. CASE Map!clear \/ Map!clone \/ Map!plus \/ Map!put_all \/ Map!UseSecond \/ Map!Restart
    BY <1>6, MapClear, MapWholeMaps, MapPutAll, MapUseSecond, MapRestart
  <1>7. CASE Map!keys \/ Map!values
    BY <1>7, MapSame DEF Map!keys, Map!values, Map!mapDataVars
  <1>8. CASE ((\E v \in MapContents : Map!NewObject(v)) \/ Map!Forget) /\ UNCHANGED Map!mapDataVars
    BY <1>8, MapSame DEF Map!NewObject, Map!Forget, Map!mapDataVars
  <1> QED BY <1>1, <1>2, <1>3, <1>4, <1>5, <1>6, <1>7, <1>8 DEF Map!Next

(***************************************************************************)
(* Sets.                                                                   *)
(***************************************************************************)
(* The same for sets, where filter is the loop over the set itself.        *)
SetCall(u, s, c) ==
    /\ c.pc \in {"idle", "stopped"} => c.fn = "none"
    /\ c.fn \notin Set!OverCopy \cup {"filter"} => c.out = <<>>
    /\ c.fn = "filter" /\ c.moved = {} =>
          /\ c.n = Len(s) /\ c.i \in Nat \ {0}
          /\ c.pc # "loop" => c.i <= c.n
          /\ \A m \in DOMAIN c.out : \E j \in DOMAIN s :
                j < c.i /\ Name("set", u, c.out[m]) = Name("set", u, s[j])

(* The invariant of sets.                                                  *)
SetInv ==
    /\ unboxed \in BOOLEAN /\ charged \in Nat
    /\ IsSeq(held) /\ IsSeq(second)
    /\ CallShape(call) /\ IsSeq(call.out)
    /\ Unique("set", unboxed, held) /\ Unique("set", unboxed, second)
    /\ Unique("set", unboxed, call.out)
    /\ SetCall(unboxed, held, call)
    /\ Set!ChargeIsSize

(* The calls of sets are those of maps when none is running.               *)
LEMMA SetNone ==
    /\ Set!NoCall = Map!NoCall /\ Set!Stopped = Map!Stopped
    /\ \A c \in {Set!NoCall, Set!Stopped} :
          CallShape(c) /\ c.fn = "none" /\ c.out = <<>> /\ c.pc \in {"idle", "stopped"}
    /\ Set!Stopped.pc = "stopped" /\ Set!NoCall.pc = "idle"
  <1>1. Set!NoCall = Map!NoCall
    BY DEF Set!NoCall, Map!NoCall
  <1>2. Set!Stopped = Map!Stopped
    BY <1>1 DEF Set!Stopped, Map!Stopped
  <1> QED BY <1>1, <1>2, NewCall

(* The memory counter is a natural number, and exact where it does not     *)
(* reach zero.                                                             *)
LEMMA SetCounts ==
    /\ \A n \in Int : Set!Counter(n) \in Nat
    /\ \A n \in Nat : Set!Counter(n) = n
  BY DEF Set!Counter

(* What the charge says when nothing is being made.                        *)
LEMMA SetNothingMade ==
    ASSUME NEW h, IsSeq(h), NEW s, IsSeq(s), NEW c, NEW C, c.fn \notin C => c.out = <<>>
    PROVE  Len(h) + Len(s) + (IF c.fn \in C THEN 0 ELSE Len(c.out)) = Len(h) + Len(s)
  <1>1. PICK made : made = IF c.fn \in C THEN 0 ELSE Len(c.out)
    OBVIOUS
  <1>2. made = 0
    BY <1>1, EmptyIsSeq
  <1>3. PICK m, n : m = Len(h) /\ n = Len(s)
    OBVIOUS
  <1>4. m \in Nat /\ n \in Nat
    BY <1>3, SeqHas
  <1>5. m + n + made = m + n
    BY <1>2, <1>4
  <1> QED BY <1>1, <1>3, <1>5

(* A step that leaves the sets alone.                                      *)
LEMMA SetSame ==
    ASSUME SetInv, UNCHANGED <<unboxed, held, second, charged, call, past>>
    PROVE  SetInv'
  BY DEF SetInv, Set!ChargeIsSize, Set!At

(* A step that changes the sets while no loop goes over them.              *)
LEMMA SetChanged ==
    ASSUME SetInv, unboxed' = unboxed, charged' \in Nat,
           IsSeq(held'), Unique("set", unboxed, held'),
           IsSeq(second'), Unique("set", unboxed, second'),
           CallShape(call'), IsSeq(call'.out), Unique("set", unboxed, call'.out),
           call'.fn # "filter", call'.fn \notin Set!OverCopy => call'.out = <<>>,
           call'.pc \in {"idle", "stopped"} => call'.fn = "none",
           past' = {} /\ call'.pc # "stopped" => charged' = Len(held') + Len(second')
    PROVE  SetInv'
  <1>1. SetCall(unboxed', held', call')
    BY DEF SetCall
  <1>2. Set!ChargeIsSize'
    <2>1. Len(held') + Len(second') + (IF call'.fn \in Set!OverCopy THEN 0 ELSE Len(call'.out))
             = Len(held') + Len(second')
      BY SetNothingMade
    <2> QED BY <2>1 DEF Set!ChargeIsSize, Set!At
  <1> QED BY <1>1, <1>2 DEF SetInv

(* What holds of the call then.                                            *)
LEMMA SetOpen ==
    ASSUME SetInv, call.fn # "filter", call.pc # "stopped"
    PROVE  /\ CallShape(call) /\ IsSeq(call.out) /\ Unique("set", unboxed, call.out)
           /\ call.fn \notin Set!OverCopy => call.out = <<>>
           /\ call.pc \in {"idle", "stopped"} => call.fn = "none"
           /\ past = {} => charged = Len(held) + Len(second)
  <1>2. call.fn \notin Set!OverCopy => call.out = <<>>
    BY DEF SetInv, SetCall
  <1>3. Len(held) + Len(second) + (IF call.fn \in Set!OverCopy THEN 0 ELSE Len(call.out))
           = Len(held) + Len(second)
    BY <1>2, SetNothingMade DEF SetInv
  <1>4. past = {} => charged = Len(held) + Len(second)
    <2>1. Set!ChargeIsSize
      BY DEF SetInv
    <2>2. PICK x : x = Len(held) + Len(second)
                           + (IF call.fn \in Set!OverCopy THEN 0 ELSE Len(call.out))
      OBVIOUS
    <2>3. past = {} => charged = x
      BY <2>1, <2>2 DEF Set!ChargeIsSize, Set!At
    <2>4. x = Len(held) + Len(second)
      BY <1>3, <2>2, Zenon
    <2> QED BY <2>3, <2>4, Zenon
  <1> QED BY <1>2, <1>4 DEF SetInv, SetCall

(* Between calls no loop walks the set.                                    *)
LEMMA SetIdle ==
    ASSUME SetInv, Set!Idle
    PROVE  call.fn # "filter" /\ call.pc # "stopped"
  BY DEF SetInv, SetCall, Set!Idle

(* The set changes between calls or in a callback, and a loop over it that *)
(* waits knows nothing of it any more.                                     *)
LEMMA SetMoves ==
    ASSUME SetInv, Set!Running,
           Moving(call, call') \/ (call' = call /\ held' = held),
           past' = {} => past = {},
           unboxed' = unboxed, second' = second,
           IsSeq(held'), Unique("set", unboxed, held'), charged' \in Nat,
           \A n \in Nat : charged = Len(held) + n => charged' = Len(held') + n
    PROVE  SetInv'
  <1>1. /\ CallShape(call') /\ call'.fn = call.fn /\ call'.pc = call.pc /\ call'.out = call.out
        /\ call.pc \in {"idle", "calling"}
    BY DEF Moving, Set!Running, SetInv
  <1>2. SetCall(unboxed', held', call')
    <2>1. CASE call' = call /\ held' = held
      BY <2>1 DEF SetInv
    <2>2. CASE Moving(call, call') /\ call.pc = "calling"
      <3>1. call'.moved # {} /\ call'.pc = "calling"
        BY <2>2 DEF Moving
      <3> QED BY <1>1, <3>1 DEF SetInv, SetCall
    <2>3. CASE call.pc = "idle"
      <3>1. call'.fn = "none" /\ call'.out = <<>>
        BY <1>1, <2>3 DEF SetInv, SetCall, Set!OverCopy
      <3> QED BY <3>1 DEF SetCall
    <2> QED BY <1>1, <2>1, <2>2, <2>3
  <1>3. PICK made : made = IF call.fn \in Set!OverCopy THEN 0 ELSE Len(call.out)
    OBVIOUS
  <1>4. PICK a, b, c : a = Len(held) /\ b = Len(second) /\ c = Len(held')
    OBVIOUS
  <1>5. made \in Nat /\ a \in Nat /\ b \in Nat /\ c \in Nat
    BY <1>3, <1>4, SeqHas DEF SetInv
  <1>6. past = {} => charged' = c + b + made
    <2>1. past = {} => charged = a + b + made
      BY <1>1, <1>3, <1>4 DEF SetInv, Set!ChargeIsSize, Set!At
    <2>2. b + made \in Nat /\ a + b + made = a + (b + made) /\ c + b + made = c + (b + made)
      BY <1>5
    <2>3. charged = a + (b + made) => charged' = c + (b + made)
      BY <1>4, <2>2
    <2> QED BY <2>1, <2>2, <2>3
  <1>7. Set!ChargeIsSize'
    BY <1>1, <1>3, <1>4, <1>6 DEF Set!ChargeIsSize, Set!At
  <1> QED BY <1>1, <1>2, <1>7 DEF SetInv

(* A step of the call that leaves the sets and what it has made alone.     *)
LEMMA SetCallStep ==
    ASSUME SetInv, UNCHANGED <<unboxed, held, second, charged>>, CallShape(call'),
           call.pc \notin {"idle", "stopped"}, call'.pc \notin {"idle", "stopped"},
           past' = past,
           call'.out = call.out, call'.fn = call.fn, call'.i = call.i, call'.n = call.n,
           call'.moved = call.moved,
           call'.pc # "loop" /\ call.pc = "loop" => call.i <= call.n
    PROVE  SetInv'
  <1>1. SetCall(unboxed', held', call')
    BY DEF SetInv, SetCall
  <1> QED BY <1>1 DEF SetInv, Set!ChargeIsSize, Set!At

(* The call ends, and there is nothing it has made.                        *)
LEMMA SetNoCall ==
    ASSUME SetInv, UNCHANGED <<unboxed, held, second, charged>>,
           call' \in {Set!NoCall, Set!Stopped},
           call.pc \notin {"idle", "stopped"},
           \/ past' # {}
           \/ past' = past /\ (call'.pc = "stopped" \/ call.out = <<>> \/ call.fn \in Set!OverCopy)
    PROVE  SetInv'
  <1>1. CallShape(call') /\ call'.fn = "none" /\ call'.out = <<>> /\ call'.pc \in {"idle", "stopped"}
    BY SetNone
  <1>2. IsSeq(call'.out) /\ Unique("set", unboxed, call'.out)
    BY <1>1, EmptyIsSeq, NoneUnique
  <1>4. (call.fn \notin Set!OverCopy => call.out = <<>>) =>
          Len(held) + Len(second) + (IF call.fn \in Set!OverCopy THEN 0 ELSE Len(call.out))
             = Len(held) + Len(second)
    BY SetNothingMade DEF SetInv
  <1>5. past' = {} /\ call'.pc # "stopped" => charged' = Len(held') + Len(second')
    BY <1>1, <1>4 DEF SetInv, Set!ChargeIsSize, Set!At
  <1>6. /\ charged' \in Nat /\ IsSeq(held') /\ Unique("set", unboxed, held')
        /\ IsSeq(second') /\ Unique("set", unboxed, second') /\ unboxed' = unboxed
    BY DEF SetInv
  <1> QED BY <1>1, <1>2, <1>5, <1>6, SetChanged

(* add.                                                                    *)
LEMMA SetAdd ==
    ASSUME SetInv, Set!add
    PROVE  SetInv'
  <1>1. PICK x : x = Set!Stored(local)
    OBVIOUS
  <1>2. /\ Set!Running /\ Set!Find(held, x) = 0
        /\ held' = Append(held, x) /\ charged' = Set!Counter(charged + 1)
        /\ unboxed' = unboxed /\ second' = second /\ Set!Grows /\ past' = past
    BY <1>1 DEF Set!add
  <1>3. IsSeq(held) /\ Unique("set", unboxed, held) /\ charged \in Nat
    BY DEF SetInv
  <1>4. \A m \in DOMAIN held : Name("set", unboxed, held[m]) # Name("set", unboxed, x)
    BY <1>2, <1>3, SetFind
  <1>5. IsSeq(Append(held, x)) /\ Len(Append(held, x)) = Len(held) + 1
    BY <1>3, AppendIs
  <1>6. Unique("set", unboxed, Append(held, x))
    BY <1>3, <1>4, AppendUnique
  <1>7. Len(held) \in Nat /\ Len(second) \in Nat
    BY SeqHas DEF SetInv
  <1>8. charged' = charged + 1
    BY <1>2, <1>3, SetCounts
  <1>9. \A n \in Nat : charged = Len(held) + n => charged' = Len(held') + n
    BY <1>2, <1>5, <1>7, <1>8
  <1>10. IsSeq(held') /\ Unique("set", unboxed, held') /\ charged' \in Nat
    BY <1>2, <1>3, <1>5, <1>6, <1>8
  <1>11. Moving(call, call')
    BY <1>2, MovingIs DEF Set!Grows, Set!Moves, Set!At, SetInv
  <1> QED BY <1>2, <1>9, <1>10, <1>11, SetMoves

(* Elements go.                                                            *)
LEMMA SetShrunk ==
    ASSUME SetInv, NEW gone, IsSeq(gone), Set!Shrunk(gone)
    PROVE  /\ IsSeq(held') /\ Unique("set", unboxed, held') /\ charged' \in Nat
           /\ unboxed' = unboxed /\ second' = second
           /\ \A n \in Nat : charged = Len(held) + n => charged' = Len(held') + n
  <1>1. /\ held' = Set!Rest(gone) /\ unboxed' = unboxed /\ second' = second
        /\ charged' = Set!Counter(charged - (Len(held) - Len(held')))
    BY DEF Set!Shrunk
  <1>2. IsSeq(held') /\ Unique("set", unboxed, held')
    BY <1>1, SetRestIs DEF SetInv
  <1>3. PICK a, c : a = Len(held) /\ c = Len(held')
    OBVIOUS
  <1>4. a \in Nat /\ c \in Nat /\ charged \in Nat
    BY <1>2, <1>3, SeqHas DEF SetInv
  <1>5. charged' = Set!Counter(charged - (a - c))
    BY <1>1, <1>3
  <1>6. charged' \in Nat
    BY <1>4, <1>5, SetCounts
  <1>7. ASSUME NEW n \in Nat, charged = a + n PROVE charged' = c + n
    <2>1. charged - (a - c) = c + n
      BY <1>4, <1>7
    <2>2. c + n \in Nat
      BY <1>4
    <2> QED BY <1>5, <2>1, <2>2, SetCounts
  <1> QED BY <1>1, <1>2, <1>3, <1>6, <1>7

(* An element is removed: the last takes its place.                        *)
LEMMA SetRemoved ==
    ASSUME SetInv, Set!Running,
           NEW gone, IsSeq(gone), Set!Shrunk(gone),
           \/ /\ Set!Shrinks \/ (call' = call /\ (held' = held \/ Set!Idle))
              /\ \E how : past' = past \cup how
           \/ call' = Set!Stopped
    PROVE  SetInv'
  <1>1. /\ IsSeq(held') /\ Unique("set", unboxed, held') /\ charged' \in Nat
        /\ unboxed' = unboxed /\ second' = second
        /\ \A n \in Nat : charged = Len(held) + n => charged' = Len(held') + n
    BY SetShrunk
  <1>4. IsSeq(second') /\ Unique("set", unboxed, second')
    BY <1>1 DEF SetInv
  <1>5. CASE /\ Set!Shrinks \/ (call' = call /\ (held' = held \/ Set!Idle))
             /\ \E how : past' = past \cup how
    <2>1. past' = {} => past = {}
      BY <1>5
    <2>2. Set!Shrinks => Moving(call, call')
      BY MovingIs DEF Set!Shrinks, Set!Moves, Set!At, SetInv
    <2>3. call' = call /\ Set!Idle => Moving(call, call')
      BY DEF Moving, Set!Idle, SetInv
    <2>4. Moving(call, call') \/ (call' = call /\ held' = held)
      BY <1>5, <2>2, <2>3
    <2> QED BY <1>1, <2>1, <2>4, SetMoves
  <1>6. CASE call' = Set!Stopped
    <2>1. /\ CallShape(call') /\ call'.fn = "none" /\ call'.out = <<>> /\ call'.pc = "stopped"
      BY <1>6, SetNone
    <2>2. IsSeq(call'.out) /\ Unique("set", unboxed, call'.out)
      BY <2>1, EmptyIsSeq, NoneUnique
    <2> QED BY <1>1, <1>4, <2>1, <2>2, SetChanged
  <1> QED BY <1>5, <1>6

(* Sequences of one element.                                               *)
LEMMA OneIn == \A x, S : x \in S => <<x>> \in Seq(S)
  OBVIOUS

(* Their length.                                                           *)
LEMMA OneLength == \A x : Len(<<x>>) = 1
  OBVIOUS

(* They are sequences.                                                     *)
LEMMA OneIsSeq ==
    ASSUME NEW x
    PROVE  IsSeq(<<x>>)
  <1>2. PICK S : x \in S /\ S = {x}
    OBVIOUS
  <1>3. PICK s : s = <<x>>
    OBVIOUS
  <1>4. s \in Seq(S)
    BY OneIn, <1>2, <1>3
  <1> QED BY <1>3, <1>4, SeqIs

(* remove.                                                                 *)
LEMMA SetRemove ==
    ASSUME SetInv, Set!remove \/ Set!remove_all \/ Set!retain_all
    PROVE  SetInv'
  <1>1. Set!Running
    BY DEF Set!remove, Set!remove_all, Set!retain_all, Set!Running, Set!Idle
  <1>2. CASE Set!remove
    <2>1. PICK x : x = Set!Stored(local)
      OBVIOUS
    <2>2. /\ Set!Shrunk(<<x>>)
          /\ \/ /\ Set!Shrinks \/ (call' = call /\ (held' = held \/ Set!Idle))
                /\ \E how : past' = past \cup how
             \/ call' = Set!Stopped
      BY <1>2, <2>1 DEF Set!remove, Set!Removed, Set!Miscounts, Set!Records
    <2> QED BY <1>1, <2>2, OneIsSeq, SetRemoved
  <1>3. CASE Set!remove_all
    <2>1. /\ Set!Shrunk(second)
          /\ \/ /\ Set!Shrinks \/ (call' = call /\ (held' = held \/ Set!Idle))
                /\ \E how : past' = past \cup how
             \/ call' = Set!Stopped
      BY <1>3 DEF Set!remove_all, Set!Removed, Set!Miscounts, Set!Records
    <2> QED BY <1>1, <2>1, SetRemoved DEF SetInv
  <1>4. CASE Set!retain_all
    <2>1. PICK gone, w : gone = Set!Among(held, w) /\ gone = Set!Among(held, Set!Others)
      OBVIOUS
    <2>2. Set!Shrunk(gone) /\ call' = call /\ Set!Idle /\ \E how : past' = past \cup how
      BY <1>4, <2>1 DEF Set!retain_all, Set!Miscounts, Set!Records
    <2>3. IsSeq(gone)
      BY <2>1, AmongSame, AmongIs DEF SetInv
    <2> QED BY <1>1, <2>2, <2>3, SetRemoved
  <1> QED BY <1>2, <1>3, <1>4

(* clear.                                                                  *)
LEMMA SetClear ==
    ASSUME SetInv, Set!clear
    PROVE  SetInv'
  <1>1. /\ held' = <<>> /\ charged' = Set!Counter(charged - Len(held))
        /\ unboxed' = unboxed /\ second' = second /\ past' = past
        /\ Set!Running
        /\ IF held = <<>> THEN call' = call ELSE Set!Shrinks
    BY DEF Set!clear
  <1>2. IsSeq(held') /\ Len(held') = 0 /\ Unique("set", unboxed, held')
    BY <1>1, EmptyIsSeq, NoneUnique
  <1>3. Len(held) \in Nat /\ charged \in Nat
    BY SeqHas DEF SetInv
  <1>4. charged' \in Nat /\ \A n \in Nat : charged = Len(held) + n => charged' = Len(held') + n
    BY <1>1, <1>2, <1>3 DEF Set!Counter
  <1>5. Moving(call, call') \/ (call' = call /\ held' = held)
    BY <1>1, MovingIs DEF Set!Shrinks, Set!Moves, Set!At, SetInv
  <1> QED BY <1>1, <1>2, <1>4, <1>5, SetMoves

(* A new set takes the place of the second.                                *)
LEMMA SetNewSet ==
    ASSUME SetInv, NEW h, NEW s, IsSeq(s), Unique("set", unboxed, s),
           NEW charge \in Nat, Set!NewSet(h, s, charge),
           past' = {} => past = {} /\ charge = Len(s)
    PROVE  SetInv'
  <1>1. /\ second' = s /\ charged' = Set!Counter(charged + charge - Len(second))
        /\ unboxed' = unboxed /\ held' = held /\ call' = call
        /\ Set!Idle
    BY DEF Set!NewSet
  <1>3. PICK a, b : a = Len(held) /\ b = Len(second)
    OBVIOUS
  <1>4. a \in Nat /\ b \in Nat /\ charged \in Nat
    BY <1>3, SeqHas DEF SetInv
  <1>5. charged' \in Nat /\ (charged = a + b => charged' = a + charge)
    BY <1>1, <1>3, <1>4 DEF Set!Counter
  <1>6. past' = {} => charged' = Len(held') + Len(second')
    BY <1>1, <1>3, <1>5, SetOpen, SetIdle
  <1>7. IsSeq(held') /\ Unique("set", unboxed, held')
    BY <1>1 DEF SetInv
  <1> QED BY <1>1, <1>5, <1>6, <1>7, SetOpen, SetIdle, SetChanged

(* clone, plus_element and minus_element.                                  *)
LEMMA SetWholeSets ==
    ASSUME SetInv, Set!clone \/ Set!plus_element \/ Set!minus_element
    PROVE  SetInv'
  <1>0. IsSeq(held) /\ Unique("set", unboxed, held)
    BY DEF SetInv
  <1>1. PICK h, s : /\ Set!NewSet(h, s, Len(s)) /\ past' = past
                    /\ \/ s = held \/ \E x : s = Set!Fits(held, x) \/ \E w : s = Set!Among(held, w)
    BY DEF Set!clone, Set!plus_element, Set!minus_element, Set!Exactly, Set!Miscounts, Set!Records
  <1>2. IsSeq(s) /\ Unique("set", unboxed, s)
    <2>1. ASSUME NEW x, s = Set!Fits(held, x) PROVE IsSeq(s) /\ Unique("set", unboxed, s)
      BY <1>0, <2>1, SetFitsIs
    <2>2. ASSUME NEW w, s = Set!Among(held, w) PROVE IsSeq(s) /\ Unique("set", unboxed, s)
      BY <1>0, <2>2, AmongSame, AmongIs
    <2> QED BY <1>0, <1>1, <2>1, <2>2
  <1>3. Len(s) \in Nat
    BY <1>2, SeqHas
  <1> QED BY <1>1, <1>2, <1>3, SetNewSet

(* set_union, intersect and difference return a set charged nothing.       *)
LEMMA SetUncharged ==
    ASSUME SetInv, Set!set_union \/ Set!intersect \/ Set!difference
    PROVE  SetInv'
  <1>0. /\ IsSeq(held) /\ Unique("set", unboxed, held)
        /\ IsSeq(second)
    BY DEF SetInv
  <1>1. PICK s : /\ Set!Uncharged(s)
                 /\ s = Set!FoldLeft(Set!Fits, held, second) \/ \E w : s = Set!Among(held, w)
    BY DEF Set!set_union, Set!intersect, Set!difference
  <1>2. IsSeq(s) /\ Unique("set", unboxed, s)
    <2>1. CASE s = Set!FoldLeft(Set!Fits, held, second)
      BY <1>0, <2>1, SetUnionIs
    <2>2. ASSUME NEW w, s = Set!Among(held, w) PROVE IsSeq(s) /\ Unique("set", unboxed, s)
      BY <1>0, <2>2, AmongSame, AmongIs
    <2> QED BY <1>1, <2>1, <2>2
  <1>3. PICK h : Set!NewSet(h, s, 0) /\ (past' = {} => past = {} /\ s = <<>>)
    BY <1>1 DEF Set!Uncharged, Set!Miscounts, Set!Records, Set!Unless
  <1>4. s = <<>> => Len(s) = 0
    BY EmptyIsSeq
  <1> QED BY <1>2, <1>3, <1>4, SetNewSet

(* add_all.                                                                *)
LEMMA SetAddAll ==
    ASSUME SetInv, Set!add_all
    PROVE  SetInv'
  <1>1. PICK s : s = Set!FoldLeft(Set!Fits, held, second)
    OBVIOUS
  <1>2. /\ held' = s /\ charged' = Set!Counter(charged + Len(s) - Len(held))
        /\ unboxed' = unboxed /\ second' = second /\ call' = call
        /\ Set!Idle /\ (past' = {} => past = {})
    BY <1>1 DEF Set!add_all, Set!Miscounts, Set!Records
  <1>3. IsSeq(s) /\ Unique("set", unboxed, s)
    BY <1>1, SetUnionIs DEF SetInv
  <1>4. PICK a, b, c : a = Len(held) /\ b = Len(second) /\ c = Len(s)
    OBVIOUS
  <1>5. a \in Nat /\ b \in Nat /\ c \in Nat /\ charged \in Nat
    BY <1>3, <1>4, SeqHas DEF SetInv
  <1>6. charged' \in Nat /\ (charged = a + b => charged' = c + b)
    BY <1>2, <1>4, <1>5 DEF Set!Counter
  <1>7. past' = {} => charged' = Len(held') + Len(second')
    BY <1>2, <1>4, <1>6, SetOpen, SetIdle
  <1>8. IsSeq(second') /\ Unique("set", unboxed, second')
    BY <1>2 DEF SetInv
  <1> QED BY <1>2, <1>3, <1>6, <1>7, <1>8, SetOpen, SetIdle, SetChanged

(* The program keeps its second set in place of the first.                 *)
LEMMA SetUseSecond ==
    ASSUME SetInv, Set!UseSecond
    PROVE  SetInv'
  <1>1. /\ held' = second /\ second' = <<>> /\ charged' = Set!Counter(charged - Len(held))
        /\ unboxed' = unboxed /\ call' = call /\ past' = past
        /\ Set!Idle
    BY DEF Set!UseSecond
  <1>2. IsSeq(second') /\ Len(second') = 0 /\ Unique("set", unboxed, second')
    BY <1>1, EmptyIsSeq, NoneUnique
  <1>3. PICK a, b : a = Len(held) /\ b = Len(second)
    OBVIOUS
  <1>4. a \in Nat /\ b \in Nat /\ charged \in Nat
    BY <1>3, SeqHas DEF SetInv
  <1>5. charged' \in Nat /\ (charged = a + b => charged' = b + 0)
    BY <1>1, <1>3, <1>4 DEF Set!Counter
  <1>6. past = {} => charged' = Len(held') + Len(second')
    BY <1>1, <1>2, <1>3, <1>5, SetOpen, SetIdle
  <1>7. IsSeq(held') /\ Unique("set", unboxed, held')
    BY <1>1 DEF SetInv
  <1> QED BY <1>1, <1>2, <1>5, <1>6, <1>7, SetOpen, SetIdle, SetChanged

(* The call of a function begins.                                          *)
LEMMA SetBegin ==
    ASSUME SetInv, NEW fn, Set!Begin(fn)
    PROVE  SetInv'
  <1>1. PICK c, o : c = Set!NoCall /\ o = IF fn \in Set!OverCopy THEN held ELSE <<>>
    OBVIOUS
  <1>2. CallShape(c)
    BY <1>1, SetNone
  <1>3. PICK d : d = [c EXCEPT !.fn = fn, !.pc = "loop", !.i = 1, !.n = Len(held), !.out = o]
    OBVIOUS
  <1>4. CallShape(d) /\ d.fn = fn /\ d.pc = "loop" /\ d.i = 1 /\ d.n = Len(held) /\ d.out = o
    BY <1>2, <1>3 DEF CallShape
  <1>5. /\ call' = d /\ Set!Idle /\ (past' = {} => past = {})
        /\ unboxed' = unboxed /\ held' = held /\ second' = second /\ charged' = charged
    BY <1>1, <1>3 DEF Set!Begin, Set!setDataVars, Set!Miscounts, Set!Records
  <1>6. IsSeq(o) /\ Unique("set", unboxed, o)
    BY <1>1, EmptyIsSeq, NoneUnique DEF SetInv
  <1>7. past' = {} => charged' = Len(held') + Len(second')
    BY <1>5, SetOpen, SetIdle
  <1>8. /\ IsSeq(held') /\ Unique("set", unboxed, held') /\ charged' \in Nat
        /\ IsSeq(second') /\ Unique("set", unboxed, second')
    BY <1>5 DEF SetInv
  <1>9. CASE fn # "filter"
    BY <1>1, <1>4, <1>5, <1>6, <1>7, <1>8, <1>9, SetChanged
  <1>10. CASE fn = "filter"
    <2>1. o = <<>> /\ Len(o) = 0 /\ DOMAIN o = {}
      BY <1>1, <1>10, EmptyIsSeq, SeqHas DEF Set!OverCopy
    <2>2. SetCall(unboxed', held', call')
      BY <1>4, <1>5, <1>10, <2>1 DEF SetCall
    <2>3. Set!ChargeIsSize'
      <3>1. call'.fn \notin Set!OverCopy => call'.out = <<>>
        BY <1>4, <1>5, <2>1
      <3>2. Len(held') + Len(second') + (IF call'.fn \in Set!OverCopy THEN 0 ELSE Len(call'.out))
               = Len(held') + Len(second')
        BY <1>8, <3>1, SetNothingMade
      <3> QED BY <1>7, <3>2 DEF Set!ChargeIsSize, Set!At
    <2> QED BY <1>4, <1>5, <1>6, <1>8, <2>2, <2>3 DEF SetInv
  <1> QED BY <1>9, <1>10

(* A loop calls the script.                                                *)
LEMMA SetInvoke ==
    ASSUME SetInv, Set!Invoke
    PROVE  SetInv'
  <1>0. PICK x : x = IF unboxed THEN Set!NewCopy(heap, Set!Source[call.i]) ELSE Set!Source[call.i]
    OBVIOUS
  <1>1. call' = [call EXCEPT !.pc = "calling", !.item = x]
    BY <1>0 DEF Set!Invoke
  <1>2. /\ CallShape(call') /\ call'.pc = "calling" /\ call'.out = call.out /\ call'.fn = call.fn
        /\ call'.i = call.i /\ call'.n = call.n /\ call'.moved = call.moved
    BY <1>1 DEF CallShape, SetInv
  <1>3. /\ call.pc = "loop" /\ call.i <= call.n
        /\ UNCHANGED <<unboxed, held, second, charged, past>>
    BY DEF Set!Invoke, Set!At, Set!InLoop, Set!setDataVars
  <1> QED BY <1>2, <1>3, SetCallStep

(* The memory limit ends the run while a native function works.            *)
LEMMA SetOut ==
    ASSUME SetInv, Set!OutOfObjects
    PROVE  SetInv'
  <1>1. /\ call' = Set!Stopped /\ call.pc \in {"loop", "returned"}
        /\ UNCHANGED <<unboxed, held, second, charged, past>>
    BY DEF Set!OutOfObjects, Set!TooFewCopies, Set!setDataVars
  <1> QED BY <1>1, SetNone, SetNoCall

(* The script answers.                                                     *)
LEMMA SetScript ==
    ASSUME SetInv, Set!ScriptAnswers \/ Set!ScriptEnds
    PROVE  SetInv'
  <1>1. /\ call.pc = "calling"
        /\ UNCHANGED <<unboxed, held, second, charged, past>>
    <2>1. CASE Set!ScriptAnswers
      <3>1. Set!At("calling") /\ UNCHANGED <<Set!setDataVars, local, past>>
        BY <2>1 DEF Set!ScriptAnswers
      <3> QED BY <3>1 DEF Set!At, Set!setDataVars
    <2>2. CASE Set!ScriptEnds
      BY <2>2 DEF Set!ScriptEnds, Set!At, Set!setDataVars
    <2> QED BY <2>1, <2>2
  <1>2. /\ CallShape(call') /\ call'.pc = "returned" /\ call'.out = call.out /\ call'.fn = call.fn
        /\ call'.i = call.i /\ call'.n = call.n /\ call'.moved = call.moved
    <2>1. CallShape(call)
      BY DEF SetInv
    <2>2. CASE Set!ScriptAnswers
      <3>1. PICK x \in BOOLEAN : call' = [call EXCEPT !.pc = "returned", !.yes = x]
        BY <2>2 DEF Set!ScriptAnswers
      <3> QED BY <2>1, <3>1 DEF CallShape
    <2>3. CASE Set!ScriptEnds
      <3>1. call' = [call EXCEPT !.pc = "returned"]
        BY <2>3 DEF Set!ScriptEnds
      <3> QED BY <2>1, <3>1 DEF CallShape
    <2> QED BY <2>2, <2>3
  <1> QED BY <1>1, <1>2, SetCallStep

(* The script raises.                                                      *)
LEMMA SetRaises ==
    ASSUME SetInv, Set!ScriptRaises
    PROVE  SetInv'
  <1>1. /\ call' = Set!NoCall /\ call.pc = "calling"
        /\ past' = past \cup (IF call.fn \notin Set!OverCopy /\ call.out # <<>> THEN {"leak"} ELSE {})
        /\ UNCHANGED <<unboxed, held, second, charged>>
    BY DEF Set!ScriptRaises, Set!At, Set!Records, Set!setDataVars
  <1>2. past' # {} \/ (past' = past /\ (call.out = <<>> \/ call.fn \in Set!OverCopy))
    BY <1>1
  <1> QED BY <1>1, <1>2, SetNoCall

(* What follows is not defined, and the run stops.                         *)
LEMMA SetLost ==
    ASSUME SetInv, Set!LostPlace
    PROVE  SetInv'
  <1>1. /\ call' = Set!Stopped /\ call.pc = "returned" /\ past' # {}
        /\ UNCHANGED <<unboxed, held, second, charged>>
    BY DEF Set!LostPlace, Set!At, Set!Undefined, Set!Records, Set!setDataVars
  <1> QED BY <1>1, SetNoCall

(* The loop goes on.                                                       *)
LEMMA SetNextOne ==
    ASSUME SetInv, NEW c, c = Set!NextOne
    PROVE  /\ CallShape(c) /\ c.pc = "loop" /\ c.fn = call.fn /\ c.i = call.i + 1
           /\ c.n = call.n /\ c.out = call.out /\ c.moved = call.moved
  BY DEF Set!NextOne, CallShape, SetInv

(* A loop goes on to the next element with what it has.                    *)
LEMMA SetSkip ==
    ASSUME SetInv, call.pc = "returned", Set!Skip
    PROVE  SetInv'
  <1>1. /\ call' = Set!NextOne /\ past' = past
        /\ UNCHANGED <<unboxed, held, second, charged>>
    BY DEF Set!Skip, Set!Exactly, Set!Miscounts, Set!Records, Set!setDataVars
  <1>2. PICK c : c = Set!NextOne
    OBVIOUS
  <1>3. /\ CallShape(c) /\ c.pc = "loop" /\ c.fn = call.fn /\ c.i = call.i + 1
        /\ c.n = call.n /\ c.out = call.out /\ c.moved = call.moved
    BY <1>2, SetNextOne
  <1>4. SetCall(unboxed, held, c)
    <2>1. SetCall(unboxed, held, call)
      BY DEF SetInv
    <2>2. c.fn \notin Set!OverCopy \cup {"filter"} => c.out = <<>>
      BY <1>3, <2>1 DEF SetCall
    <2>3. ASSUME c.fn = "filter", c.moved = {}
          PROVE  /\ c.n = Len(held) /\ c.i \in Nat \ {0}
                 /\ \A m \in DOMAIN c.out : \E j \in DOMAIN held :
                       j < c.i /\ Name("set", unboxed, c.out[m]) = Name("set", unboxed, held[j])
      <3>1. /\ call.n = Len(held) /\ call.i \in Nat \ {0}
            /\ \A m \in DOMAIN call.out : \E j \in DOMAIN held :
                  j < call.i /\ Name("set", unboxed, call.out[m]) = Name("set", unboxed, held[j])
        BY <1>3, <2>1, <2>3 DEF SetCall
      <3>2. IsSeq(held) /\ DOMAIN held = 1 .. Len(held) /\ Len(held) \in Nat
        BY SeqHas DEF SetInv
      <3> QED BY <1>3, <3>1, <3>2
    <2> QED BY <1>3, <2>2, <2>3 DEF SetCall
  <1>5. Set!ChargeIsSize'
    BY <1>1, <1>2, <1>3 DEF SetInv, Set!ChargeIsSize, Set!At
  <1>6. SetCall(unboxed', held', call')
    BY <1>1, <1>2, <1>4
  <1> QED BY <1>1, <1>2, <1>3, <1>5, <1>6 DEF SetInv

(* A loop ends early.                                                      *)
LEMMA SetStop ==
    ASSUME SetInv, call.pc \notin {"idle", "stopped"}, call.out = <<>>, Set!Stop
    PROVE  SetInv'
  <1>1. call' = Set!NoCall /\ past' = past /\ UNCHANGED <<unboxed, held, second, charged>>
    BY DEF Set!Stop, Set!Exactly, Set!Miscounts, Set!Records, Set!setDataVars
  <1> QED BY <1>1, SetNoCall

(* Functions that make no set.                                             *)
LEMMA SetOthers ==
    ASSUME SetInv, Set!for_each \/ Set!map \/ Set!count_fn \/ Set!any_fn \/ Set!all_fn
    PROVE  SetInv'
  <1>1. /\ call.pc = "returned"
        /\ \/ Set!Skip
           \/ Set!Stop /\ call.fn \in {"any_fn", "all_fn"}
    BY DEF Set!for_each, Set!map, Set!count_fn, Set!any_fn, Set!all_fn, Set!After, Set!At
  <1>2. call.fn \in {"any_fn", "all_fn"} => call.out = <<>>
    BY DEF SetInv, SetCall, Set!OverCopy
  <1> QED BY <1>1, <1>2, SetSkip, SetStop

(* remove_all with a predicate, over a copy of the set.                    *)
LEMMA SetRemoveAllFn ==
    ASSUME SetInv, Set!remove_all_fn
    PROVE  SetInv'
  <1>1. call.pc = "returned" /\ call.fn = "remove_all_fn"
    BY DEF Set!remove_all_fn, Set!After, Set!At
  <1>2. CASE ~call.yes
    BY <1>1, <1>2, SetSkip DEF Set!remove_all_fn
  <1>3. CASE call.yes
    <2>1. PICK x : Set!Shrunk(<<x>>) /\ call' = Set!NextOne /\ past' = past
      BY <1>3 DEF Set!remove_all_fn, Set!Exactly, Set!Miscounts, Set!Records
    <2>2. /\ CallShape(call') /\ call'.fn = call.fn /\ call'.out = call.out /\ call'.pc = "loop"
      BY <2>1, SetNextOne
    <2>3. /\ IsSeq(held') /\ Unique("set", unboxed, held') /\ charged' \in Nat
          /\ unboxed' = unboxed /\ second' = second
          /\ Len(second) \in Nat
          /\ \A n \in Nat : charged = Len(held) + n => charged' = Len(held') + n
      BY <2>1, OneIsSeq, SetShrunk, SeqHas DEF SetInv
    <2>4. past = {} => charged = Len(held) + Len(second)
      BY <1>1, SetOpen
    <2>5. past' = {} => charged' = Len(held') + Len(second')
      BY <2>1, <2>3, <2>4
    <2>6. /\ IsSeq(second') /\ Unique("set", unboxed, second')
          /\ IsSeq(call'.out) /\ Unique("set", unboxed, call'.out)
      BY <2>2, <2>3 DEF SetInv
    <2>7. call'.fn # "filter" /\ call'.fn \in Set!OverCopy
      BY <1>1, <2>2 DEF Set!OverCopy
    <2> QED BY <2>2, <2>3, <2>5, <2>6, <2>7, SetChanged
  <1> QED BY <1>2, <1>3

(* filter.                                                                 *)
LEMMA SetFilter ==
    ASSUME SetInv, Set!filter
    PROVE  SetInv'
  <1>1. call.pc = "returned" /\ call.fn = "filter" /\ call.moved = {}
    BY DEF Set!filter, Set!After, Set!At, Set!GoesOn, Set!OverCopy
  <1>2. CASE ~call.yes
    BY <1>1, <1>2, SetSkip DEF Set!filter
  <1>3. CASE call.yes
    <2>1. PICK c, x : c = Set!NextOne /\ x = held[call.i]
      OBVIOUS
    <2>2. /\ CallShape(c) /\ c.pc = "loop" /\ c.fn = call.fn /\ c.i = call.i + 1
          /\ c.n = call.n /\ c.out = call.out /\ c.moved = call.moved
      BY <2>1, SetNextOne
    <2>3. PICK out : out = Append(call.out, x)
      OBVIOUS
    <2>4. /\ call' = [c EXCEPT !.out = out] /\ charged' = Set!Counter(charged + 1) /\ past' = past
          /\ unboxed' = unboxed /\ held' = held /\ second' = second
      BY <1>3, <2>1, <2>2, <2>3 DEF Set!filter, Set!Exactly, Set!Miscounts, Set!Records
    <2>5. /\ CallShape(call') /\ call'.pc = "loop" /\ call'.fn = "filter" /\ call'.i = call.i + 1
          /\ call'.n = call.n /\ call'.out = out
      BY <1>1, <2>2, <2>4 DEF CallShape
    <2>6. /\ IsSeq(held) /\ Unique("set", unboxed, held) /\ unboxed \in BOOLEAN
          /\ IsSeq(call.out) /\ Unique("set", unboxed, call.out) /\ charged \in Nat /\ IsSeq(second)
      BY DEF SetInv
    <2>7. /\ DOMAIN held = 1 .. Len(held) /\ Len(held) \in Nat /\ Len(second) \in Nat
          /\ DOMAIN call.out = 1 .. Len(call.out) /\ Len(call.out) \in Nat
      BY <2>6, SeqHas
    <2>8. call.n = Len(held) /\ call.i \in DOMAIN held /\ call.i \in Nat \ {0}
      BY <1>1, <2>7 DEF SetInv, SetCall
    <2>9. \A m \in DOMAIN call.out : \E j \in DOMAIN held :
             j < call.i /\ Name("set", unboxed, call.out[m]) = Name("set", unboxed, held[j])
      BY <1>1 DEF SetInv, SetCall
    <2>10. \A m \in DOMAIN call.out : Name("set", unboxed, call.out[m]) # Name("set", unboxed, x)
      BY <2>1, <2>6, <2>7, <2>8, <2>9 DEF Unique
    <2>11. IsSeq(out)
      BY <2>3, <2>6, AppendIs
    <2>12. Unique("set", unboxed, out)
      BY <2>3, <2>6, <2>10, AppendUnique
    <2>13. /\ DOMAIN out = 1 .. Len(call.out) + 1 /\ Len(out) = Len(call.out) + 1
           /\ \A m \in DOMAIN call.out : out[m] = call.out[m]
           /\ out[Len(call.out) + 1] = x
      BY <2>3, <2>6, AppendIs
    <2>14. \A m \in DOMAIN out : \E j \in DOMAIN held :
              j < call.i + 1 /\ Name("set", unboxed, out[m]) = Name("set", unboxed, held[j])
      <3> SUFFICES ASSUME NEW m \in DOMAIN out
                   PROVE  \E j \in DOMAIN held :
                     j < call.i + 1 /\ Name("set", unboxed, out[m]) = Name("set", unboxed, held[j])
        OBVIOUS
      <3>1. m \in DOMAIN call.out \/ m = Len(call.out) + 1
        BY <2>7, <2>13
      <3>2. CASE m \in DOMAIN call.out
        <4>1. out[m] = call.out[m]
          BY <2>13, <3>2
        <4>2. PICK j \in DOMAIN held :
                 j < call.i /\ Name("set", unboxed, call.out[m]) = Name("set", unboxed, held[j])
          BY <2>9, <3>2
        <4>3. j < call.i + 1
          BY <2>7, <2>8, <4>2
        <4> QED BY <4>1, <4>2, <4>3
      <3>3. CASE m = Len(call.out) + 1
        <4>1. call.i < call.i + 1
          BY <2>8
        <4> QED BY <2>1, <2>8, <2>13, <3>3, <4>1
      <3> QED BY <3>1, <3>2, <3>3
    <2>15. SetCall(unboxed', held', call')
      <3>1. call.i + 1 \in Nat \ {0}
        BY <2>8
      <3> QED BY <2>4, <2>5, <2>8, <2>14, <3>1 DEF SetCall
    <2>16. charged' = charged + 1
      BY <2>4, <2>6, SetCounts
    <2>17. Set!ChargeIsSize'
      <3>1. past = {} => charged = Len(held) + Len(second) + Len(call.out)
        BY <1>1 DEF SetInv, Set!ChargeIsSize, Set!At, Set!OverCopy
      <3>2. past = {} => charged + 1 = Len(held) + Len(second) + Len(out)
        <4>1. PICK a, b, m : a = Len(held) /\ b = Len(second) /\ m = Len(call.out)
          OBVIOUS
        <4>2. a \in Nat /\ b \in Nat /\ m \in Nat /\ charged \in Nat
          BY <2>6, <2>7, <4>1
        <4>3. charged = a + b + m => charged + 1 = a + b + (m + 1)
          BY <4>2
        <4> QED BY <2>13, <3>1, <4>1, <4>3
      <3> QED BY <2>4, <2>5, <2>16, <3>2 DEF Set!ChargeIsSize, Set!At, Set!OverCopy
    <2>18. charged' \in Nat
      BY <2>6, <2>16
    <2>19. /\ IsSeq(held') /\ IsSeq(second') /\ unboxed' \in BOOLEAN
           /\ Unique("set", unboxed', held') /\ Unique("set", unboxed', second')
      BY <2>4 DEF SetInv
    <2> QED BY <2>4, <2>5, <2>11, <2>12, <2>15, <2>17, <2>18, <2>19 DEF SetInv
  <1> QED BY <1>2, <1>3

(* A loop has no element left.                                             *)
LEMMA SetEnds ==
    ASSUME SetInv, Set!EndWithSet \/ Set!EndOfCopy \/ Set!EndWithout
    PROVE  SetInv'
  <1>1. CASE Set!EndWithSet
    <2>1. /\ second' = call.out /\ charged' = Set!Counter(charged - Len(second))
          /\ unboxed' = unboxed /\ held' = held /\ past' = past /\ call' = Set!NoCall
          /\ call.pc = "loop" /\ call.fn = "filter"
      BY <1>1 DEF Set!EndWithSet, Set!At
    <2>2. /\ IsSeq(held) /\ IsSeq(second) /\ IsSeq(call.out) /\ charged \in Nat
          /\ Unique("set", unboxed, held) /\ Unique("set", unboxed, call.out)
      BY DEF SetInv
    <2>3. past = {} => charged = Len(held) + Len(second) + Len(call.out)
      BY <2>1 DEF SetInv, Set!ChargeIsSize, Set!At, Set!OverCopy
    <2>4. PICK a, b, c : a = Len(held) /\ b = Len(second) /\ c = Len(call.out)
      OBVIOUS
    <2>5. a \in Nat /\ b \in Nat /\ c \in Nat
      BY <2>2, <2>4, SeqHas
    <2>6. charged' \in Nat /\ (charged = a + b + c => charged' = a + c)
      <3>1. charged - b \in Int /\ (charged = a + b + c => charged - b = a + c) /\ a + c \in Nat
        BY <2>2, <2>5
      <3> QED BY <2>1, <2>4, <3>1, SetCounts
    <2>7. past = {} => charged' = Len(held') + Len(second')
      BY <2>1, <2>3, <2>4, <2>6
    <2>8. /\ CallShape(call') /\ call'.out = <<>> /\ call'.fn = "none"
          /\ IsSeq(call'.out) /\ Unique("set", unboxed, call'.out)
      BY <2>1, SetNone, EmptyIsSeq, NoneUnique
    <2> QED BY <2>1, <2>2, <2>6, <2>7, <2>8, SetChanged
  <1>2. CASE Set!EndOfCopy
    <2>1. /\ call' = Set!NoCall /\ past' = past /\ call.pc = "loop" /\ call.fn \in Set!OverCopy
          /\ UNCHANGED <<unboxed, held, second, charged>>
      BY <1>2 DEF Set!EndOfCopy, Set!At, Set!setDataVars
    <2> QED BY <2>1, SetNoCall
  <1>3. CASE Set!EndWithout
    <2>1. call.pc = "loop" /\ call.fn \in {"for_each", "map", "any_fn", "all_fn"} /\ Set!Stop
      BY <1>3 DEF Set!EndWithout, Set!At
    <2>2. call.out = <<>>
      BY <2>1 DEF SetInv, SetCall, Set!OverCopy
    <2> QED BY <2>1, <2>2, SetStop
  <1> QED BY <1>1, <1>2, <1>3

(* The invariant of sets holds at first.                                   *)
LEMMA SetInit == Set!Init => SetInv
  <1> SUFFICES ASSUME Set!Init PROVE SetInv
    OBVIOUS
  <1>1. /\ call = Set!NoCall /\ unboxed \in BOOLEAN
        /\ held = <<>> /\ second = <<>> /\ charged = 0
    BY DEF Set!Init, Set!Begun
  <1>2. IsSeq(<<>>) /\ Len(<<>>) = 0 /\ Unique("set", unboxed, <<>>)
    BY EmptyIsSeq, NoneUnique
  <1>3. SetCall(unboxed, held, call)
    BY <1>1, SetNone DEF SetCall
  <1>4. Set!ChargeIsSize
    <2>1. call.out = <<>> /\ Len(call.out) = 0 /\ Len(held) = 0 /\ Len(second) = 0
      BY <1>1, <1>2, SetNone
    <2> QED BY <1>1, <2>1 DEF Set!ChargeIsSize
  <1> QED BY <1>1, <1>2, <1>3, <1>4, SetNone DEF SetInv

(* And when the program starts again.                                      *)
LEMMA SetRestart ==
    ASSUME SetInv, Set!Restart
    PROVE  SetInv'
  <1>1. /\ call' = Set!NoCall /\ unboxed' \in BOOLEAN
        /\ held' = <<>> /\ second' = <<>> /\ charged' = 0
    BY DEF Set!Restart, Set!BegunAgain
  <1>2. IsSeq(<<>>) /\ Len(<<>>) = 0 /\ Unique("set", unboxed', <<>>)
    BY EmptyIsSeq, NoneUnique
  <1>3. SetCall(unboxed', held', call')
    BY <1>1, SetNone DEF SetCall
  <1>4. Set!ChargeIsSize'
    <2>1. call'.out = <<>> /\ Len(call'.out) = 0 /\ Len(held') = 0 /\ Len(second') = 0
      BY <1>1, <1>2, SetNone
    <2> QED BY <1>1, <2>1 DEF Set!ChargeIsSize
  <1> QED BY <1>1, <1>2, <1>3, <1>4, SetNone DEF SetInv

(* Every step of a program with sets keeps it.                             *)
LEMMA SetNext ==
    ASSUME SetInv, Set!Next
    PROVE  SetInv'
  <1>1. CASE (\E fn \in Set!Functions : Set!Begin(fn)) \/ Set!Invoke \/ Set!OutOfObjects
             \/ Set!ScriptAnswers \/ Set!ScriptEnds \/ Set!ScriptRaises \/ Set!LostPlace
    BY <1>1, SetBegin, SetInvoke, SetOut, SetScript, SetRaises, SetLost
  <1>2. CASE Set!for_each \/ Set!map \/ Set!count_fn \/ Set!any_fn \/ Set!all_fn
             \/ Set!filter \/ Set!remove_all_fn
    BY <1>2, SetOthers, SetFilter, SetRemoveAllFn
  <1>3. CASE Set!EndWithSet \/ Set!EndOfCopy \/ Set!EndWithout
    BY <1>3, SetEnds
  <1>4. CASE Set!add \/ Set!remove \/ Set!clear \/ Set!clone \/ Set!plus_element
             \/ Set!minus_element \/ Set!set_union \/ Set!intersect \/ Set!difference
    BY <1>4, SetAdd, SetRemove, SetClear, SetWholeSets, SetUncharged
  <1>5. CASE Set!add_all \/ Set!remove_all \/ Set!retain_all \/ Set!UseSecond \/ Set!Restart
    BY <1>5, SetAddAll, SetRemove, SetUseSecond, SetRestart
  <1>6. CASE Set!first
    BY <1>6, SetSame DEF Set!first, Set!setDataVars
  <1>7. CASE ((\E v \in MapContents : Set!NewObject(v)) \/ Set!Forget) /\ UNCHANGED Set!setDataVars
    BY <1>7, SetSame DEF Set!NewObject, Set!Forget, Set!setDataVars
  <1> QED BY <1>1, <1>2, <1>3, <1>4, <1>5, <1>6, <1>7 DEF Set!Next

(* Of the elements of a list that are not there yet.                       *)
LEMMA SeenFold ==
    ASSUME NEW s, IsSeq(s),
           NEW V, <<>> \in V, \A i \in DOMAIN s, v \in V : List!Seen(v, s[i]) \in V,
           NEW P, <<>> \in P[0],
           \A i \in DOMAIN s : \A v \in P[i - 1] : List!Seen(v, s[i]) \in P[i]
    PROVE  List!FoldLeft(List!Seen, <<>>, s) \in P[Len(s)]
  <1> DEFINE n == Len(s)
             S == DOMAIN s
             Then(v, i) == List!Seen(v, s[i])
             Is(h) == h = [t \in SUBSET DOMAIN s |->
                              IF t = {} THEN <<>>
                              ELSE Then(h[t \ {Max(t)}], Max(t))]
             fold == CHOOSE h : Is(h)
             step == [i \in S |-> [v \in V |-> Then(v, i)]]
  <1>1. List!FoldLeft(List!Seen, <<>>, s) = fold[DOMAIN s]
    BY DEF List!FoldLeft, List!MapThenFoldSet, List!Max, Max
  <1>2. n \in Nat /\ S = 1 .. n
    BY SeqHas
  <1> DEFINE base == <<>>
  <1>3. base \in V /\ base \in P[0]
    OBVIOUS
  <1>4. \A i \in 1 .. n, v \in V : Then(v, i) \in V /\ step[i][v] = Then(v, i)
    BY <1>2
  <1>5. PICK g : LeftRecursive(g, n, V, base, step)
    <2>1. \A i \in 1 .. n, v \in V : step[i][v] \in V
      BY <1>4
    <2> HIDE DEF step, n, base
    <2> QED BY <1>2, <1>3, <2>1, LeftRecursion
  <1>6. Is(g)
    <2>1. ASSUME NEW t \in SUBSET S
          PROVE  g[t] = IF t = {} THEN base ELSE Then(g[t \ {Max(t)}], Max(t))
      <3> HIDE DEF step, Then, base, n, S
      <3>1. CASE t = {}
        BY <1>2, <1>5, <3>1 DEF LeftRecursive
      <3>2. CASE t # {}
        <4>1. Max(t) \in t /\ Max(t) \in 1 .. n /\ t \ {Max(t)} \in SUBSET (1 .. n)
          BY <1>2, <1>5, <3>2 DEF LeftRecursive
        <4>2. g[t \ {Max(t)}] \in V
          BY <1>5, <4>1 DEF LeftRecursive
        <4>3. g[t] = step[Max(t)][g[t \ {Max(t)}]]
          BY <1>2, <1>5, <3>2 DEF LeftRecursive
        <4> QED BY <1>4, <3>2, <4>1, <4>2, <4>3
      <3> QED BY <3>1, <3>2
    <2>2. g = [t \in SUBSET DOMAIN s |-> g[t]]
      <3> HIDE DEF step, base, n
      <3> QED BY <1>2, <1>5 DEF LeftRecursive
    <2> HIDE DEF step, Then
    <2> QED BY <2>1, <2>2 DEF S
  <1>7. Is(fold)
    <2> HIDE DEF Is
    <2> QED BY <1>6
  <1>8. ASSUME NEW t \in SUBSET (1 .. n)
        PROVE  fold[t] = IF t = {} THEN base ELSE Then(fold[t \ {Max(t)}], Max(t))
    <2>1. fold = [r \in SUBSET DOMAIN s |->
                      IF r = {} THEN base ELSE Then(fold[r \ {Max(r)}], Max(r))]
      BY <1>7
    <2> HIDE DEF fold, Then, base
    <2> QED BY <1>2, <2>1
  <1> HIDE DEF fold, Is, step
  <1>9. fold[{}] \in P[0]
    <2>1. {} \in SUBSET (1 .. n)
      OBVIOUS
    <2> HIDE DEF base, Then
    <2> QED BY <1>3, <1>8, <2>1
  <1>10. ASSUME NEW i \in 1 .. n, fold[1 .. i - 1] \in P[i - 1]
         PROVE  fold[1 .. i] \in P[i]
    <2>1. /\ 1 .. i \in SUBSET (1 .. n) /\ 1 .. i # {}
          /\ Max(1 .. i) = i /\ (1 .. i) \ {i} = 1 .. i - 1
      BY <1>2, UpToNumber
    <2>2. fold[1 .. i] = Then(fold[1 .. i - 1], i)
      <3> HIDE DEF Then, base
      <3> QED BY <1>8, <2>1
    <2>3. \A v \in P[i - 1] : Then(v, i) \in P[i]
      BY <1>2
    <2> HIDE DEF Then
    <2> QED BY <1>10, <2>2, <2>3
  <1>11. fold[1 .. n] \in P[n]
    <2> HIDE DEF n
    <2> QED BY <1>2, <1>9, <1>10, FoldGrows
  <1> HIDE DEF n
  <1> QED BY <1>1, <1>2, <1>11 DEF n

(* Of the capacity while elements are added.                               *)
LEMMA GrownFold ==
    ASSUME NEW cap, NEW len, NEW m, IsSeq(List!Filled(len, m)),
           NEW V, cap \in V, \A i \in DOMAIN List!Filled(len, m), v \in V : (IF List!Filled(len, m)[i] = v THEN (IF v = 0 THEN 1 ELSE 2 * v) ELSE v) \in V,
           NEW P, cap \in P[0],
           \A i \in DOMAIN List!Filled(len, m) : \A v \in P[i - 1] : (IF List!Filled(len, m)[i] = v THEN (IF v = 0 THEN 1 ELSE 2 * v) ELSE v) \in P[i]
    PROVE  List!GrownBy(cap, len, m) \in P[Len(List!Filled(len, m))]
  <1> DEFINE n == Len(List!Filled(len, m))
             S == DOMAIN List!Filled(len, m)
             Then(v, i) == (IF List!Filled(len, m)[i] = v THEN (IF v = 0 THEN 1 ELSE 2 * v) ELSE v)
             Is(h) == h = [t \in SUBSET DOMAIN List!Filled(len, m) |->
                              IF t = {} THEN cap
                              ELSE Then(h[t \ {Max(t)}], Max(t))]
             fold == CHOOSE h : Is(h)
             step == [i \in S |-> [v \in V |-> Then(v, i)]]
  <1>1. List!GrownBy(cap, len, m) = fold[DOMAIN List!Filled(len, m)]
    BY DEF List!GrownBy, List!FoldLeft, List!MapThenFoldSet, List!Max, Max
  <1>2. n \in Nat /\ S = 1 .. n
    BY SeqHas
  <1> DEFINE base == cap
  <1>3. base \in V /\ base \in P[0]
    OBVIOUS
  <1>4. \A i \in 1 .. n, v \in V : Then(v, i) \in V /\ step[i][v] = Then(v, i)
    BY <1>2
  <1>5. PICK g : LeftRecursive(g, n, V, base, step)
    <2>1. \A i \in 1 .. n, v \in V : step[i][v] \in V
      BY <1>4
    <2> HIDE DEF step, n, base
    <2> QED BY <1>2, <1>3, <2>1, LeftRecursion
  <1>6. Is(g)
    <2>1. ASSUME NEW t \in SUBSET S
          PROVE  g[t] = IF t = {} THEN base ELSE Then(g[t \ {Max(t)}], Max(t))
      <3> HIDE DEF step, Then, base, n, S
      <3>1. CASE t = {}
        BY <1>2, <1>5, <3>1 DEF LeftRecursive
      <3>2. CASE t # {}
        <4>1. Max(t) \in t /\ Max(t) \in 1 .. n /\ t \ {Max(t)} \in SUBSET (1 .. n)
          BY <1>2, <1>5, <3>2 DEF LeftRecursive
        <4>2. g[t \ {Max(t)}] \in V
          BY <1>5, <4>1 DEF LeftRecursive
        <4>3. g[t] = step[Max(t)][g[t \ {Max(t)}]]
          BY <1>2, <1>5, <3>2 DEF LeftRecursive
        <4> QED BY <1>4, <3>2, <4>1, <4>2, <4>3
      <3> QED BY <3>1, <3>2
    <2>2. g = [t \in SUBSET DOMAIN List!Filled(len, m) |-> g[t]]
      <3> HIDE DEF step, base, n
      <3> QED BY <1>2, <1>5 DEF LeftRecursive
    <2> HIDE DEF step, Then
    <2> QED BY <2>1, <2>2 DEF S
  <1>7. Is(fold)
    <2> HIDE DEF Is
    <2> QED BY <1>6
  <1>8. ASSUME NEW t \in SUBSET (1 .. n)
        PROVE  fold[t] = IF t = {} THEN base ELSE Then(fold[t \ {Max(t)}], Max(t))
    <2>1. fold = [r \in SUBSET DOMAIN List!Filled(len, m) |->
                      IF r = {} THEN base ELSE Then(fold[r \ {Max(r)}], Max(r))]
      BY <1>7
    <2> HIDE DEF fold, Then, base
    <2> QED BY <1>2, <2>1
  <1> HIDE DEF fold, Is, step
  <1>9. fold[{}] \in P[0]
    <2>1. {} \in SUBSET (1 .. n)
      OBVIOUS
    <2> HIDE DEF base, Then
    <2> QED BY <1>3, <1>8, <2>1
  <1>10. ASSUME NEW i \in 1 .. n, fold[1 .. i - 1] \in P[i - 1]
         PROVE  fold[1 .. i] \in P[i]
    <2>1. /\ 1 .. i \in SUBSET (1 .. n) /\ 1 .. i # {}
          /\ Max(1 .. i) = i /\ (1 .. i) \ {i} = 1 .. i - 1
      BY <1>2, UpToNumber
    <2>2. fold[1 .. i] = Then(fold[1 .. i - 1], i)
      <3> HIDE DEF Then, base
      <3> QED BY <1>8, <2>1
    <2>3. \A v \in P[i - 1] : Then(v, i) \in P[i]
      BY <1>2
    <2> HIDE DEF Then
    <2> QED BY <1>10, <2>2, <2>3
  <1>11. fold[1 .. n] \in P[n]
    <2> HIDE DEF n
    <2> QED BY <1>2, <1>9, <1>10, FoldGrows
  <1> HIDE DEF n
  <1> QED BY <1>1, <1>2, <1>11 DEF n

(* And while they are removed.                                             *)
LEMMA ShrunkFold ==
    ASSUME NEW m, IsSeq(List!Emptied(m)),
           NEW V, capacity \in V, \A i \in DOMAIN List!Emptied(m), v \in V : (IF v > 1 /\ List!Emptied(m)[i] <= v \div 4 THEN IF v \div 2 < 1 THEN 1 ELSE v \div 2 ELSE v) \in V,
           NEW P, capacity \in P[0],
           \A i \in DOMAIN List!Emptied(m) : \A v \in P[i - 1] : (IF v > 1 /\ List!Emptied(m)[i] <= v \div 4 THEN IF v \div 2 < 1 THEN 1 ELSE v \div 2 ELSE v) \in P[i]
    PROVE  List!ShrunkTo(m) \in P[Len(List!Emptied(m))]
  <1> DEFINE n == Len(List!Emptied(m))
             S == DOMAIN List!Emptied(m)
             Then(v, i) == (IF v > 1 /\ List!Emptied(m)[i] <= v \div 4 THEN IF v \div 2 < 1 THEN 1 ELSE v \div 2 ELSE v)
             Is(h) == h = [t \in SUBSET DOMAIN List!Emptied(m) |->
                              IF t = {} THEN capacity
                              ELSE Then(h[t \ {Max(t)}], Max(t))]
             fold == CHOOSE h : Is(h)
             step == [i \in S |-> [v \in V |-> Then(v, i)]]
  <1>1. List!ShrunkTo(m) = fold[DOMAIN List!Emptied(m)]
    BY DEF List!ShrunkTo, List!FoldLeft, List!MapThenFoldSet, List!Max, Max
  <1>2. n \in Nat /\ S = 1 .. n
    BY SeqHas
  <1> DEFINE base == capacity
  <1>3. base \in V /\ base \in P[0]
    OBVIOUS
  <1>4. \A i \in 1 .. n, v \in V : Then(v, i) \in V /\ step[i][v] = Then(v, i)
    BY <1>2
  <1>5. PICK g : LeftRecursive(g, n, V, base, step)
    <2>1. \A i \in 1 .. n, v \in V : step[i][v] \in V
      BY <1>4
    <2> HIDE DEF step, n, base
    <2> QED BY <1>2, <1>3, <2>1, LeftRecursion
  <1>6. Is(g)
    <2>1. ASSUME NEW t \in SUBSET S
          PROVE  g[t] = IF t = {} THEN base ELSE Then(g[t \ {Max(t)}], Max(t))
      <3> HIDE DEF step, Then, base, n, S
      <3>1. CASE t = {}
        BY <1>2, <1>5, <3>1 DEF LeftRecursive
      <3>2. CASE t # {}
        <4>1. Max(t) \in t /\ Max(t) \in 1 .. n /\ t \ {Max(t)} \in SUBSET (1 .. n)
          BY <1>2, <1>5, <3>2 DEF LeftRecursive
        <4>2. g[t \ {Max(t)}] \in V
          BY <1>5, <4>1 DEF LeftRecursive
        <4>3. g[t] = step[Max(t)][g[t \ {Max(t)}]]
          BY <1>2, <1>5, <3>2 DEF LeftRecursive
        <4> QED BY <1>4, <3>2, <4>1, <4>2, <4>3
      <3> QED BY <3>1, <3>2
    <2>2. g = [t \in SUBSET DOMAIN List!Emptied(m) |-> g[t]]
      <3> HIDE DEF step, base, n
      <3> QED BY <1>2, <1>5 DEF LeftRecursive
    <2> HIDE DEF step, Then
    <2> QED BY <2>1, <2>2 DEF S
  <1>7. Is(fold)
    <2> HIDE DEF Is
    <2> QED BY <1>6
  <1>8. ASSUME NEW t \in SUBSET (1 .. n)
        PROVE  fold[t] = IF t = {} THEN base ELSE Then(fold[t \ {Max(t)}], Max(t))
    <2>1. fold = [r \in SUBSET DOMAIN List!Emptied(m) |->
                      IF r = {} THEN base ELSE Then(fold[r \ {Max(r)}], Max(r))]
      BY <1>7
    <2> HIDE DEF fold, Then, base
    <2> QED BY <1>2, <2>1
  <1> HIDE DEF fold, Is, step
  <1>9. fold[{}] \in P[0]
    <2>1. {} \in SUBSET (1 .. n)
      OBVIOUS
    <2> HIDE DEF base, Then
    <2> QED BY <1>3, <1>8, <2>1
  <1>10. ASSUME NEW i \in 1 .. n, fold[1 .. i - 1] \in P[i - 1]
         PROVE  fold[1 .. i] \in P[i]
    <2>1. /\ 1 .. i \in SUBSET (1 .. n) /\ 1 .. i # {}
          /\ Max(1 .. i) = i /\ (1 .. i) \ {i} = 1 .. i - 1
      BY <1>2, UpToNumber
    <2>2. fold[1 .. i] = Then(fold[1 .. i - 1], i)
      <3> HIDE DEF Then, base
      <3> QED BY <1>8, <2>1
    <2>3. \A v \in P[i - 1] : Then(v, i) \in P[i]
      BY <1>2
    <2> HIDE DEF Then
    <2> QED BY <1>10, <2>2, <2>3
  <1>11. fold[1 .. n] \in P[n]
    <2> HIDE DEF n
    <2> QED BY <1>2, <1>9, <1>10, FoldGrows
  <1> HIDE DEF n
  <1> QED BY <1>1, <1>2, <1>11 DEF n

(* The capacity is never less than the length.                             *)
LEMMA FunIs ==
    ASSUME NEW n \in Nat, NEW f, f = [k \in 1 .. n |-> f[k]]
    PROVE  IsSeq(f) /\ Len(f) = n
  <1> DEFINE S == {f[k] : k \in 1 .. n}
  <1>1. \A k \in 1 .. n : f[k] \in S
    OBVIOUS
  <1>2. [k \in 1 .. n |-> f[k]] \in Seq(S)
    <2> HIDE DEF S
    <2> QED BY <1>1, IsASeq
  <1> HIDE DEF S
  <1>3. f \in Seq(S)
    BY <1>2
  <1>4. Len(f) \in Nat /\ DOMAIN f = 1 .. Len(f) /\ DOMAIN f = 1 .. n
    BY <1>3, LenProperties
  <1>5. Len(f) = n
    <2>1. PICK m : m = Len(f)
      OBVIOUS
    <2>2. m \in Nat /\ 1 .. m = 1 .. n
      BY <1>4, <2>1
    <2>3. m = n
      BY <2>2
    <2> QED BY <2>1, <2>3
  <1> QED BY <1>3, <1>5, SeqIs

(* The capacity a list grows to has room for what is added.                *)
LEMMA GrownIs ==
    ASSUME NEW cap \in Nat, NEW len \in Nat, NEW m \in Nat, len <= cap
    PROVE  List!GrownBy(cap, len, m) \in Nat /\ len + m <= List!GrownBy(cap, len, m)
  <1> DEFINE P == [i \in 0 .. m |-> {c \in Nat : len + i <= c}]
             q == List!Filled(len, m)
  <1>1. q = [k \in 1 .. m |-> q[k]] /\ \A k \in 1 .. m : q[k] = len + k - 1
    BY DEF List!Filled
  <1> HIDE DEF q
  <1>2. IsSeq(q) /\ Len(q) = m
    BY <1>1, FunIs
  <1>3. DOMAIN q = 1 .. m
    BY <1>2, SeqHas
  <1>4. \A i \in DOMAIN q, v \in Nat : (IF q[i] = v THEN (IF v = 0 THEN 1 ELSE 2 * v) ELSE v) \in Nat
    OBVIOUS
  <1>5. cap \in P[0]
    OBVIOUS
  <1>6. \A i \in DOMAIN q : \A v \in P[i - 1] :
           (IF q[i] = v THEN (IF v = 0 THEN 1 ELSE 2 * v) ELSE v) \in P[i]
    <2> SUFFICES ASSUME NEW i \in 1 .. m, NEW v \in Nat, len + (i - 1) <= v
                 PROVE  /\ (IF len + i - 1 = v THEN (IF v = 0 THEN 1 ELSE 2 * v) ELSE v) \in Nat
                        /\ len + i <= (IF len + i - 1 = v THEN (IF v = 0 THEN 1 ELSE 2 * v) ELSE v)
      BY <1>1, <1>3
    <2> QED OBVIOUS
  <1>7. List!GrownBy(cap, len, m) \in P[m]
    <2> HIDE DEF P
    <2> QED BY <1>2, <1>4, <1>5, <1>6, GrownFold DEF q
  <1> QED BY <1>7

(* And the one it shrinks to has room for what stays.                      *)
LEMMA ShrunkIs ==
    ASSUME IsSeq(held), capacity \in Nat, Len(held) <= capacity, NEW k \in Nat, k <= Len(held)
    PROVE  List!ShrunkTo(k) \in Nat /\ k <= List!ShrunkTo(k)
  <1>0. PICK n : n = Len(held)
    OBVIOUS
  <1> DEFINE m == n - k
             P == [i \in 0 .. m |-> {c \in Nat : n - i <= c}]
             q == List!Emptied(k)
  <1>1. n \in Nat /\ m \in Nat /\ n - m = k /\ n <= capacity
    BY <1>0, SeqHas
  <1>2. q = [j \in 1 .. m |-> q[j]] /\ \A j \in 1 .. m : q[j] = n - j
    BY <1>0 DEF List!Emptied
  <1> HIDE DEF q
  <1>3. IsSeq(q) /\ Len(q) = m
    <2> HIDE DEF m
    <2> QED BY <1>1, <1>2, FunIs
  <1>4. DOMAIN q = 1 .. m
    BY <1>3, SeqHas
  <1>5. \A i \in DOMAIN q, v \in Nat :
           (IF v > 1 /\ q[i] <= v \div 4 THEN IF v \div 2 < 1 THEN 1 ELSE v \div 2 ELSE v) \in Nat
    OBVIOUS
  <1>6. capacity \in P[0]
    BY <1>1
  <1>7. \A i \in DOMAIN q : \A v \in P[i - 1] :
           (IF v > 1 /\ q[i] <= v \div 4 THEN IF v \div 2 < 1 THEN 1 ELSE v \div 2 ELSE v) \in P[i]
    <2> SUFFICES ASSUME NEW i \in DOMAIN q, NEW v \in P[i - 1]
                 PROVE  (IF v > 1 /\ q[i] <= v \div 4
                         THEN IF v \div 2 < 1 THEN 1 ELSE v \div 2 ELSE v) \in P[i]
      OBVIOUS
    <2>1. i \in 1 .. m /\ q[i] = n - i
      BY <1>2, <1>4
    <2>2. v \in Nat /\ n - (i - 1) <= v
      BY <1>1, <2>1
    <2>3. PICK c : c = IF v > 1 /\ q[i] <= v \div 4
                       THEN IF v \div 2 < 1 THEN 1 ELSE v \div 2 ELSE v
      OBVIOUS
    <2>4. c \in Nat /\ n - i <= c
      BY <1>1, <2>1, <2>2, <2>3
    <2>5. c \in P[i]
      BY <1>1, <2>1, <2>4
    <2> QED BY <2>3, <2>5
  <1>8. List!ShrunkTo(k) \in P[m]
    <2>1. List!ShrunkTo(k) \in P[Len(q)]
      <3> HIDE DEF P, m
      <3> QED BY <1>3, <1>5, <1>6, <1>7, ShrunkFold DEF q
    <2> QED BY <1>3, <2>1
  <1> QED BY <1>1, <1>8

(* The elements of a list without their repetitions are a sequence.        *)
LEMMA SeenIs ==
    ASSUME NEW s, IsSeq(s)
    PROVE  IsSeq(List!FoldLeft(List!Seen, <<>>, s))
  <1> DEFINE V == Seq(ToSet(s))
             n == Len(s)
             P == [i \in 0 .. n |-> V]
  <1>1. n \in Nat /\ DOMAIN s = 1 .. n /\ \A i \in 1 .. n : s[i] \in ToSet(s)
    BY SeqHas
  <1>2. <<>> \in V
    BY EmptySeq
  <1>3. ASSUME NEW t \in V, NEW x \in ToSet(s) PROVE List!Seen(t, x) \in V
    BY AppendProperties DEF List!Seen
  <1> HIDE DEF V
  <1>4. List!FoldLeft(List!Seen, <<>>, s) \in P[n]
    <2>1. \A i \in DOMAIN s, v \in V : List!Seen(v, s[i]) \in V
      BY <1>1, <1>3
    <2>2. <<>> \in P[0]
      BY <1>1, <1>2
    <2>3. \A i \in DOMAIN s : \A v \in P[i - 1] : List!Seen(v, s[i]) \in P[i]
      <3>1. \A i \in DOMAIN s : P[i] = V /\ P[i - 1] = V
        BY <1>1
      <3> HIDE DEF P
      <3> QED BY <2>1, <3>1
    <2> HIDE DEF P
    <2> QED BY <1>2, <2>1, <2>2, <2>3, SeenFold DEF n
  <1>5. List!FoldLeft(List!Seen, <<>>, s) \in V
    <2>1. n \in 0 .. n
      BY <1>1
    <2> QED BY <1>4, <2>1
  <1> QED BY <1>5, SeqIs DEF V

(* What the functions of a list make of its elements.                      *)
LEMMA RemoveAtIs ==
    ASSUME NEW s, IsSeq(s), NEW i \in DOMAIN s
    PROVE  IsSeq(List!RemoveAt(s, i)) /\ Len(List!RemoveAt(s, i)) = Len(s) - 1
  <1>1. i \in 1 .. Len(s) /\ Len(s) \in Nat
    BY SeqHas
  <1>2. IsSeq(SubSeq(s, 1, i - 1)) /\ Len(SubSeq(s, 1, i - 1)) = i - 1
    BY <1>1, PartIs
  <1>3. IsSeq(SubSeq(s, i + 1, Len(s))) /\ Len(SubSeq(s, i + 1, Len(s))) = Len(s) - i
    BY <1>1, PartIs
  <1>4. PICK a, b : a = SubSeq(s, 1, i - 1) /\ b = SubSeq(s, i + 1, Len(s))
    OBVIOUS
  <1>5. IsSeq(a \o b) /\ Len(a \o b) = Len(a) + Len(b)
    BY <1>2, <1>3, <1>4, JoinIs
  <1>6. List!RemoveAt(s, i) = a \o b
    BY <1>4 DEF List!RemoveAt
  <1> QED BY <1>1, <1>2, <1>3, <1>4, <1>5, <1>6

(* One element more, anywhere.                                             *)
LEMMA InsertAtIs ==
    ASSUME NEW s, IsSeq(s), NEW i \in 1 .. Len(s) + 1, NEW x
    PROVE  IsSeq(List!InsertAt(s, i, x)) /\ Len(List!InsertAt(s, i, x)) = Len(s) + 1
  <1>1. i \in 1 .. Len(s) + 1 /\ Len(s) \in Nat
    BY SeqHas
  <1>2. IsSeq(SubSeq(s, 1, i - 1)) /\ Len(SubSeq(s, 1, i - 1)) = i - 1
    BY <1>1, PartIs
  <1>3. IsSeq(SubSeq(s, i, Len(s))) /\ Len(SubSeq(s, i, Len(s))) = Len(s) - i + 1
    BY <1>1, PartIs
  <1>4. PICK a, b, c : a = SubSeq(s, 1, i - 1) /\ b = SubSeq(s, i, Len(s)) /\ c = <<x>>
    OBVIOUS
  <1>5. IsSeq(c) /\ Len(c) = 1
    BY <1>4, OneIsSeq, OneLength
  <1>6. IsSeq(a \o c) /\ Len(a \o c) = Len(a) + Len(c)
    BY <1>2, <1>4, <1>5, JoinIs
  <1>7. IsSeq((a \o c) \o b) /\ Len((a \o c) \o b) = Len(a \o c) + Len(b)
    BY <1>3, <1>4, <1>6, JoinIs
  <1>8. List!InsertAt(s, i, x) = (a \o c) \o b
    BY <1>4 DEF List!InsertAt
  <1>9. Len(a \o c) = i /\ Len(b) = Len(s) - i + 1
    BY <1>1, <1>2, <1>3, <1>4, <1>5, <1>6
  <1>10. i + (Len(s) - i + 1) = Len(s) + 1
    BY <1>1
  <1> QED BY <1>7, <1>8, <1>9, <1>10

(* The same elements from the last to the first.                           *)
LEMMA ReverseIs ==
    ASSUME NEW s, IsSeq(s)
    PROVE  IsSeq(List!Reverse(s)) /\ Len(List!Reverse(s)) = Len(s)
  <1>1. PICK f, n : f = List!Reverse(s) /\ n = Len(s)
    OBVIOUS
  <1>2. n \in Nat
    BY <1>1, SeqHas
  <1>3. f = [i \in 1 .. n |-> f[i]]
    BY <1>1 DEF List!Reverse
  <1> QED BY <1>1, <1>2, <1>3, FunIs

(* Or in any other order.                                                  *)
LEMMA OrdersAre ==
    ASSUME NEW s, IsSeq(s), NEW t \in List!Orders(s)
    PROVE  IsSeq(t) /\ Len(t) = Len(s)
  <1>1. PICK n : n = Len(s)
    OBVIOUS
  <1>2. n \in Nat /\ DOMAIN s = 1 .. n
    BY <1>1, SeqHas
  <1>3. \E p : t = [i \in DOMAIN s |-> s[p[i]]]
    BY DEF List!Orders
  <1>4. t = [i \in 1 .. n |-> t[i]]
    BY <1>2, <1>3
  <1> QED BY <1>1, <1>2, <1>4, FunIs

(* A slice, whatever the bounds.                                           *)
LEMMA SliceIs ==
    ASSUME NEW s, IsSeq(s), NEW from \in Int, NEW to \in Int
    PROVE  IsSeq(List!Slice(s, from, to))
  <1>1. PICK n : n = Len(s)
    OBVIOUS
  <1>2. n \in Nat
    BY <1>1, SeqHas
  <1>3. PICK first, last :
           /\ first = IF List!FromEnd(s, from) < 0 THEN 0 ELSE List!FromEnd(s, from)
           /\ last = List!Least(List!FromEnd(s, to), n)
    OBVIOUS
  <1>4. first \in Nat /\ last \in Int /\ last <= n
    BY <1>1, <1>2, <1>3 DEF List!FromEnd, List!Least
  <1>5. List!Slice(s, from, to) = IF first >= last THEN <<>> ELSE SubSeq(s, first + 1, last)
    BY <1>1, <1>3 DEF List!Slice
  <1>6. IsSeq(SubSeq(s, first + 1, last))
    <2>1. first + 1 \in Int /\ first + 1 >= 1
      BY <1>4
    <2> QED BY <1>1, <1>4, <2>1, PartIs
  <1> QED BY <1>5, <1>6, EmptyIsSeq

(* The elements taken from either end, or left by that.                    *)
LEMMA PartsAre ==
    ASSUME NEW s, IsSeq(s), NEW n \in Int
    PROVE  /\ IsSeq(List!Take(s, n)) /\ IsSeq(List!Drop(s, n))
           /\ IsSeq(List!TakeLast(s, n)) /\ IsSeq(List!DropLast(s, n))
  <1>1. Len(s) \in Nat
    BY SeqHas
  <1>2. IsSeq(List!Take(s, n))
    <2>1. CASE n <= 0
      BY <2>1, EmptyIsSeq DEF List!Take
    <2>2. CASE ~(n <= 0)
      <3>1. PICK m : m = List!Least(n, Len(s))
        OBVIOUS
      <3>2. m \in Int /\ m <= Len(s)
        BY <1>1, <3>1 DEF List!Least
      <3>3. IsSeq(SubSeq(s, 1, m))
        BY <3>2, PartIs
      <3>4. List!Take(s, n) = SubSeq(s, 1, m)
        BY <2>2, <3>1 DEF List!Take
      <3> QED BY <3>3, <3>4
    <2> QED BY <2>1, <2>2
  <1>3. IsSeq(List!Drop(s, n))
    <2>1. CASE n <= 0
      BY <2>1 DEF List!Drop
    <2>2. CASE ~(n <= 0)
      <3>1. n + 1 \in Int /\ n + 1 >= 1 /\ Len(s) \in Int /\ Len(s) <= Len(s)
        BY <1>1, <2>2
      <3>2. IsSeq(SubSeq(s, n + 1, Len(s)))
        BY <3>1, PartIs
      <3> QED BY <2>2, <3>2 DEF List!Drop
    <2> QED BY <2>1, <2>2
  <1>4. Len(s) - n \in Int /\ Len(s) \in Int
    BY <1>1
  <1>5. IsSeq(List!Slice(s, Len(s) - n, Len(s))) /\ IsSeq(List!Slice(s, 0, Len(s) - n))
    BY <1>4, SliceIs
  <1>6. IsSeq(List!TakeLast(s, n))
    BY <1>5, EmptyIsSeq DEF List!TakeLast
  <1>7. IsSeq(List!DropLast(s, n))
    BY <1>5, EmptyIsSeq DEF List!DropLast
  <1> QED BY <1>2, <1>3, <1>6, <1>7

(* Every n-th element.                                                     *)
LEMMA StepIs ==
    ASSUME NEW s, IsSeq(s), NEW n \in Nat \ {0}
    PROVE  IsSeq(List!Step(s, n))
  <1>1. PICK m, f : m = (Len(s) + n - 1) \div n /\ f = List!Step(s, n)
    OBVIOUS
  <1>2. m \in Nat
    <2>1. PICK a : a = Len(s) + n - 1
      OBVIOUS
    <2>2. a \in Nat
      <3>1. Len(s) \in Nat
        BY SeqHas
      <3> QED BY <2>1, <3>1
    <2> QED BY <1>1, <2>1, <2>2
  <1>3. f = [k \in 1 .. m |-> f[k]]
    BY <1>1 DEF List!Step
  <1> QED BY <1>1, <1>2, <1>3, FunIs

(***************************************************************************)
(* Lists.                                                                  *)
(***************************************************************************)
(* The functions that remember the index of an element.                    *)
AtIndex == {"single_fn", "single_or_null_fn", "min_by_or_null", "remove_all_fn"}
(* Those that do not look at an element, or not always.                    *)
Blind == {"none", "get_or_else", "chunked_transform"}
(* Those whose bound is the size the list had.                             *)
Bounded == {"join_to_string", "zip_transform"} \cup List!Sorting

(* The index, the bound and what is remembered of a call are in the list.  *)
Placed(s, c) ==
    /\ c.fn \in List!Backward => c.i <= Len(s)
    /\ c.fn \in Bounded => c.n <= Len(s)
    /\ c.fn = "zip_with_next_transform" => s # <<>>
    /\ c.fn \notin Blind /\ c.pc # "loop" => c.i \in DOMAIN s
    /\ c.at # 0 => c.at \in DOMAIN s

(* There is room for the answers of all the elements.                      *)
Roomy(s, c) ==
    c.fn \in List!HaveRoom => Len(s) <= c.n /\ (c.pc # "loop" => c.i <= c.n)

(* Where a call of a list's functions stands: it is placed in the list     *)
(* until a callback has shortened it, and has room until one has made it   *)
(* longer.                                                                 *)
ListCall(s, o, c) ==
    /\ c.pc \in {"idle", "stopped"} <=> c.fn = "none"
    /\ c.i \in Nat /\ c.n \in Nat
    /\ c.fn \notin List!Backward \cup {"get_or_else", "none"} => c.i # 0
    /\ c.fn \in List!Backward /\ c.pc # "loop" => c.i # 0
    /\ c.fn = "get_or_else" => c.pc # "loop"
    /\ c.fn = "zip_transform" => c.n <= Len(o)
    /\ c.at # 0 => c.fn \in AtIndex
    /\ "shrunk" \notin c.moved => Placed(s, c)
    /\ "grown" \notin c.moved => Roomy(s, c)

(* The invariant of lists: the elements fit the storage, and the charge is *)
(* its capacity.                                                           *)
ListInv ==
    /\ unboxed \in BOOLEAN /\ capacity \in Nat /\ charged \in Nat
    /\ IsSeq(held) /\ IsSeq(second)
    /\ CallShape(call) /\ IsSeq(call.out)
    /\ ListCall(held, second, call)
    /\ Len(held) <= capacity
    /\ List!ChargeIsCapacity

(* The calls of lists are those of maps when none is running.              *)
LEMMA ListNone ==
    /\ List!NoCall = Map!NoCall /\ List!Stopped = Map!Stopped
    /\ \A c \in {List!NoCall, List!Stopped} :
          /\ CallShape(c) /\ c.fn = "none" /\ c.out = <<>> /\ c.pc \in {"idle", "stopped"}
          /\ c.i = 0 /\ c.n = 0 /\ c.at = 0
    /\ List!Stopped.pc = "stopped" /\ List!NoCall.pc = "idle"
  <1>1. List!NoCall = Map!NoCall
    BY DEF List!NoCall, Map!NoCall
  <1>2. List!Stopped = Map!Stopped
    BY <1>1 DEF List!Stopped, Map!Stopped
  <1>3. PICK c, d : c = Map!NoCall /\ d = Map!Stopped
    OBVIOUS
  <1>4. c.i = 0 /\ c.n = 0 /\ c.at = 0
    BY <1>3 DEF Map!NoCall
  <1>5. d = [c EXCEPT !.pc = "stopped"] /\ CallShape(c)
    BY <1>3, NewCall DEF Map!Stopped
  <1>6. d.i = 0 /\ d.n = 0 /\ d.at = 0
    BY <1>4, <1>5 DEF CallShape
  <1> QED BY <1>1, <1>2, <1>3, <1>4, <1>6, NewCall

(* When none is running, the lists may be any.                             *)
LEMMA ListNoCall ==
    ASSUME NEW s, NEW o, NEW c \in {List!NoCall, List!Stopped}
    PROVE  ListCall(s, o, c) /\ CallShape(c) /\ IsSeq(c.out)
  <1>1. /\ CallShape(c) /\ c.fn = "none" /\ c.out = <<>>
        /\ c.i = 0 /\ c.n = 0 /\ c.at = 0 /\ c.pc \in {"idle", "stopped"}
    BY ListNone
  <1> QED BY <1>1, EmptyIsSeq
      DEF ListCall, Placed, Roomy, List!Backward, AtIndex, Blind, Bounded, List!Sorting, List!HaveRoom

(* The call d is c after a step that has made t of the list s.             *)
Follows(s, t, c, d) ==
    /\ CallShape(d) /\ d.fn = c.fn /\ d.pc = c.pc /\ d.out = c.out
    /\ d.i = c.i /\ d.n = c.n /\ d.at = c.at
    /\ c.fn # "none" =>
          /\ c.moved \subseteq d.moved
          /\ Len(t) < Len(s) => "shrunk" \in d.moved
          /\ Len(t) > Len(s) => "grown" \in d.moved

(* Then it stands where it may.                                            *)
LEMMA FollowsIs ==
    ASSUME NEW s, NEW t, NEW o, NEW c, NEW d, IsSeq(s), IsSeq(t),
           ListCall(s, o, c), Follows(s, t, c, d)
    PROVE  ListCall(t, o, d)
  <1>1. PICK m, n : m = Len(s) /\ n = Len(t)
    OBVIOUS
  <1>2. /\ m \in Nat /\ n \in Nat /\ DOMAIN s = 1 .. m /\ DOMAIN t = 1 .. n
        /\ (s = <<>> <=> m = 0) /\ (t = <<>> <=> n = 0)
    BY <1>1, SeqHas
  <1>3. CASE c.fn = "none"
    <2>1. d.at = 0
      BY <1>3 DEF ListCall, Follows, AtIndex
    <2> QED BY <1>3, <2>1 DEF ListCall, Follows, Placed, Roomy, List!Backward, Blind, Bounded,
            List!Sorting, List!HaveRoom
  <1>4. CASE c.fn # "none"
    <2>1. ASSUME "shrunk" \notin d.moved PROVE Placed(t, d)
      <3>1. Placed(s, c) /\ m <= n
        BY <1>1, <1>2, <1>4, <2>1 DEF ListCall, Follows
      <3>2. \A k : k \in DOMAIN s => k \in DOMAIN t
        BY <1>2, <3>1
      <3>3. c.i \in Nat /\ c.n \in Nat
        BY DEF ListCall
      <3> QED BY <1>1, <1>2, <3>1, <3>2, <3>3 DEF Placed, Follows
    <2>2. ASSUME "grown" \notin d.moved PROVE Roomy(t, d)
      <3>1. Roomy(s, c) /\ n <= m
        BY <1>1, <1>2, <1>4, <2>2 DEF ListCall, Follows
      <3>2. c.n \in Nat
        BY DEF ListCall
      <3> QED BY <1>1, <1>2, <3>1, <3>2 DEF Roomy, Follows
    <2> QED BY <2>1, <2>2 DEF ListCall, Follows
  <1> QED BY <1>3, <1>4

(* The memory counter is a natural number, and exact where it does not     *)
(* reach zero.                                                             *)
LEMMA ListCounts ==
    /\ \A n \in Int : List!Counter(n) \in Nat
    /\ \A n \in Nat : List!Counter(n) = n
  BY DEF List!Counter

(* A step of the call that leaves the list alone.                          *)
LEMMA ListCallStep ==
    ASSUME ListInv, UNCHANGED <<unboxed, held, capacity, charged>>,
           IsSeq(second'), CallShape(call'), IsSeq(call'.out),
           ListCall(held, second', call'), past \subseteq past',
           call'.pc # "stopped" => call.pc # "stopped"
    PROVE  ListInv'
  <1>1. ListCall(held', second', call')
    OBVIOUS
  <1>2. List!ChargeIsCapacity'
    BY DEF ListInv, List!ChargeIsCapacity
  <1> QED BY <1>1, <1>2 DEF ListInv

(* A step that changes the list, perhaps in a callback.                    *)
LEMMA ListChanged ==
    ASSUME ListInv, unboxed' = unboxed, IsSeq(held'), capacity' \in Nat, charged' \in Nat,
           Len(held') <= capacity', IsSeq(second'),
           \/ Follows(held, held', call, call') /\ second' = second
           \/ call' = call /\ call.fn = "none"
           \/ call' \in {List!NoCall, List!Stopped},
           "drift" \notin past' /\ call'.pc # "stopped" => charged' = capacity'
    PROVE  ListInv'
  <1>1. CallShape(call') /\ IsSeq(call'.out) /\ ListCall(held', second', call')
    <2>1. CASE Follows(held, held', call, call') /\ second' = second
      BY <2>1, FollowsIs DEF ListInv, Follows
    <2>2. CASE call' \in {List!NoCall, List!Stopped}
      BY <2>2, ListNoCall
    <2>3. CASE call' = call /\ call.fn = "none"
      BY <2>3 DEF ListInv, ListCall, Placed, Roomy, List!Backward, AtIndex, Blind, Bounded,
         List!Sorting, List!HaveRoom
    <2> QED BY <2>1, <2>2, <2>3
  <1>2. List!ChargeIsCapacity'
    BY DEF List!ChargeIsCapacity
  <1> QED BY <1>1, <1>2 DEF ListInv

(* No function runs, or a callback of one.                                 *)
LEMMA ListRunning ==
    ASSUME ListInv, List!Running \/ List!Idle
    PROVE  /\ call.pc # "stopped"
           /\ call.pc # "calling" => call.fn = "none"
           /\ List!Idle => call.fn = "none"
  BY DEF ListInv, ListCall, List!Running, List!Idle

(* A step that leaves the call as it is, or marks it, and the list as long *)
(* as the mark says.                                                       *)
LEMMA ListMoves ==
    ASSUME ListInv, List!Running,
           \/ List!Grows /\ ~(Len(held') < Len(held))
           \/ List!Shrinks /\ ~(Len(held') > Len(held))
           \/ call' = call /\ Len(held') = Len(held)
    PROVE  Follows(held, held', call, call') /\ call'.pc # "stopped"
  <1>1. PICK c, d : c = call /\ d = call'
    OBVIOUS
  <1>2. CallShape(c) /\ c.pc # "stopped" /\ (c.pc # "calling" => c.fn = "none")
    BY <1>1, ListRunning DEF ListInv
  <1>3. CASE call' = call /\ Len(held') = Len(held)
    <2>1. Len(held) \in Nat
      BY SeqHas DEF ListInv
    <2> QED BY <1>1, <1>2, <1>3, <2>1 DEF Follows
  <1>4. ASSUME NEW how, List!Moves(how)
        PROVE  /\ Moving(c, d) /\ (c.pc = "calling" => d.moved = c.moved \cup {how})
    <2>1. d = IF c.pc = "calling" THEN [c EXCEPT !.moved = @ \cup {how}] ELSE c
      BY <1>1, <1>4 DEF List!Moves, List!At
    <2> QED BY <1>2, <2>1, MovingIs
  <1>5. CASE List!Grows /\ ~(Len(held') < Len(held))
    BY <1>1, <1>2, <1>4, <1>5 DEF List!Grows, Moving, Follows
  <1>6. CASE List!Shrinks /\ ~(Len(held') > Len(held))
    BY <1>1, <1>2, <1>4, <1>6 DEF List!Shrinks, Moving, Follows
  <1> QED BY <1>3, <1>5, <1>6

(* The charge follows the capacity.                                        *)
LEMMA ListResized ==
    ASSUME ListInv, call.pc # "stopped", NEW cap \in Nat, List!Resized(cap)
    PROVE  /\ capacity' = cap /\ charged' \in Nat /\ capacity' \in Nat
           /\ "drift" \notin past' => charged' = capacity'
  <1>1. /\ capacity' = cap /\ charged' = List!Counter(charged + (cap - capacity))
        /\ past' = past \cup (IF charged + cap - capacity >= 0 THEN {} ELSE {"drift"})
    BY DEF List!Resized, List!Charge, List!Miscounts, List!Records, List!Unless
  <1>2. charged \in Nat /\ capacity \in Nat
    BY DEF ListInv
  <1>3. "drift" \notin past => charged = capacity
    BY DEF ListInv, List!ChargeIsCapacity
  <1>4. charged' \in Nat
    BY <1>1, <1>2, ListCounts
  <1>5. "drift" \notin past' => charged' = cap
    <2>1. charged = capacity => charged + (cap - capacity) = cap
      BY <1>2
    <2> QED BY <1>1, <1>3, <2>1, ListCounts
  <1> QED BY <1>1, <1>4, <1>5

(* The capacity after one element more or fewer has room for the rest.     *)
LEMMA ListRooms ==
    ASSUME ListInv
    PROVE  /\ List!RoomForOne \in Nat /\ Len(held) + 1 <= List!RoomForOne
           /\ \A n \in Nat : n <= capacity =>
                 List!AfterRemove(n) \in Nat /\ n <= List!AfterRemove(n)
  <1>1. Len(held) \in Nat /\ capacity \in Nat /\ Len(held) <= capacity
    BY SeqHas DEF ListInv
  <1>2. PICK a : a = Len(held)
    OBVIOUS
  <1>3. List!RoomForOne \in Nat /\ a + 1 <= List!RoomForOne
    BY <1>1, <1>2 DEF List!RoomForOne, List!Doubled
  <1>4. ASSUME NEW n \in Nat, n <= capacity
        PROVE  List!AfterRemove(n) \in Nat /\ n <= List!AfterRemove(n)
    BY <1>1, <1>4 DEF List!AfterRemove, List!Halved
  <1> QED BY <1>2, <1>3, <1>4

(* add, insert and unshift.                                                *)
LEMMA ListAdd ==
    ASSUME ListInv, List!add \/ \E i : List!insert(i)
    PROVE  ListInv'
  <1>1. /\ List!Running /\ List!Resized(List!RoomForOne) /\ List!Grows
        /\ unboxed' = unboxed /\ second' = second
        /\ \/ \E x : held' = Append(held, x)
           \/ \E i \in 1 .. Len(held) + 1 : \E x : held' = List!InsertAt(held, i, x)
    BY DEF List!add, List!insert
  <1>2. IsSeq(held) /\ IsSeq(second)
    BY DEF ListInv
  <1>3. IsSeq(held') /\ Len(held') = Len(held) + 1
    <2>1. ASSUME NEW x, held' = Append(held, x)
          PROVE  IsSeq(held') /\ Len(held') = Len(held) + 1
      BY <1>2, <2>1, AppendIs
    <2>2. ASSUME NEW i \in 1 .. Len(held) + 1, NEW x, held' = List!InsertAt(held, i, x)
          PROVE  IsSeq(held') /\ Len(held') = Len(held) + 1
      BY <1>2, <2>2, InsertAtIs
    <2> QED BY <1>1, <2>1, <2>2
  <1>4. call.pc # "stopped" /\ Follows(held, held', call, call')
    <2>1. ~(Len(held') < Len(held))
      <3>1. Len(held) \in Nat
        BY <1>2, SeqHas
      <3> QED BY <1>3, <3>1
    <2> QED BY <1>1, <2>1, ListMoves, ListRunning
  <1>5. /\ capacity' = List!RoomForOne /\ charged' \in Nat /\ capacity' \in Nat
        /\ "drift" \notin past' => charged' = capacity'
    BY <1>1, <1>4, ListResized, ListRooms
  <1>6. Len(held') <= capacity'
    BY <1>3, <1>5, ListRooms
  <1> QED BY <1>1, <1>2, <1>3, <1>4, <1>5, <1>6, ListChanged

(* A step that keeps the capacity and the charge.                          *)
LEMMA ListKeeps ==
    ASSUME ListInv, UNCHANGED <<unboxed, capacity, charged, second>>, call.pc # "stopped",
           \/ Follows(held, held', call, call')
           \/ call' = call /\ call.fn = "none",
           IsSeq(held'), Len(held') <= Len(held), past \subseteq past'
    PROVE  ListInv'
  <1>1. /\ capacity' \in Nat /\ charged' \in Nat /\ IsSeq(second')
        /\ "drift" \notin past' /\ call'.pc # "stopped" => charged' = capacity'
    BY DEF ListInv, List!ChargeIsCapacity
  <1>2. Len(held') <= capacity'
    <2>1. Len(held) <= capacity /\ Len(held) \in Nat /\ Len(held') \in Nat /\ capacity \in Nat
      BY SeqHas DEF ListInv
    <2> QED BY <2>1
  <1> QED BY <1>1, <1>2, ListChanged

(* set, reverse and the sorting in place.                                  *)
LEMMA ListSet ==
    ASSUME ListInv, (\E i : List!set(i)) \/ List!reverse \/ List!sort_default
    PROVE  ListInv'
  <1>1. /\ UNCHANGED <<unboxed, capacity, charged, second, call, past>>
        /\ List!Running
        /\ \/ \E i \in DOMAIN held : \E x : held' = Put(held, i, x)
           \/ held' = List!Reverse(held)
           \/ held' \in List!Orders(held)
    BY DEF List!set, List!reverse, List!sort_default, List!Idle, List!Running, Put
  <1>3. IsSeq(held') /\ Len(held') = Len(held)
    <2>1. ASSUME NEW i \in DOMAIN held, NEW x, held' = Put(held, i, x)
          PROVE  IsSeq(held') /\ Len(held') = Len(held)
      BY <2>1, ReplaceIs DEF ListInv
    <2>2. CASE held' = List!Reverse(held)
      BY <2>2, ReverseIs DEF ListInv
    <2>3. CASE held' \in List!Orders(held)
      BY <2>3, OrdersAre DEF ListInv
    <2> QED BY <1>1, <2>1, <2>2, <2>3
  <1>2. Follows(held, held', call, call') /\ call.pc # "stopped"
    BY <1>1, <1>3, ListMoves, ListRunning
  <1>4. Len(held') <= Len(held)
    BY <1>3, SeqHas
  <1> QED BY <1>1, <1>2, <1>3, <1>4, ListKeeps

(* remove.                                                                 *)
LEMMA ListRemove ==
    ASSUME ListInv, NEW i, List!remove(i)
    PROVE  ListInv'
  <1>1. /\ List!Running /\ i \in DOMAIN held /\ held' = List!RemoveAt(held, i)
        /\ List!Resized(List!AfterRemove(Len(held) - 1)) /\ List!Shrinks
        /\ unboxed' = unboxed /\ second' = second
    BY DEF List!remove
  <1>2. IsSeq(held) /\ IsSeq(second)
    BY DEF ListInv
  <1>3. IsSeq(held') /\ Len(held') = Len(held) - 1
    BY <1>1, <1>2, RemoveAtIs
  <1>4. call.pc # "stopped" /\ Follows(held, held', call, call')
    <2>1. ~(Len(held') > Len(held))
      <3>1. Len(held) \in Nat
        BY <1>2, SeqHas
      <3> QED BY <1>3, <3>1
    <2> QED BY <1>1, <2>1, ListMoves, ListRunning
  <1>5. PICK n : n = Len(held) - 1
    OBVIOUS
  <1>6. n \in Nat /\ n <= capacity
    <2>1. Len(held) \in Nat /\ Len(held) <= capacity /\ capacity \in Nat /\ Len(held') \in Nat
      BY <1>2, <1>3, SeqHas DEF ListInv
    <2> QED BY <1>3, <1>5, <2>1
  <1>7. List!AfterRemove(n) \in Nat /\ n <= List!AfterRemove(n)
    BY <1>6, ListRooms
  <1>8. /\ capacity' = List!AfterRemove(n) /\ charged' \in Nat /\ capacity' \in Nat
        /\ "drift" \notin past' => charged' = capacity'
    BY <1>1, <1>4, <1>5, <1>7, ListResized
  <1>9. Len(held') <= capacity'
    BY <1>3, <1>5, <1>7, <1>8
  <1> QED BY <1>1, <1>2, <1>3, <1>4, <1>8, <1>9, ListChanged

(* An element leaves the list, which keeps its storage.                    *)
LEMMA ListTaken ==
    ASSUME ListInv, List!Running, NEW i \in DOMAIN held, List!Shrinks,
           held' = List!RemoveAt(held, i), UNCHANGED <<unboxed, capacity, charged, second>>,
           past \subseteq past'
    PROVE  ListInv'
  <1>1. IsSeq(held') /\ Len(held') = Len(held) - 1
    BY RemoveAtIs DEF ListInv
  <1>2. Len(held') <= Len(held) /\ ~(Len(held') > Len(held))
    <2>1. Len(held) \in Nat
      BY SeqHas DEF ListInv
    <2> QED BY <1>1, <2>1
  <1>3. Follows(held, held', call, call') /\ call.pc # "stopped"
    BY <1>2, ListMoves, ListRunning
  <1> QED BY <1>1, <1>2, <1>3, ListKeeps

(* Functions that take an element out and keep the storage.                *)
LEMMA ListTakes ==
    ASSUME ListInv,
           List!remove_element \/ (\E i : List!remove_at(i)) \/ List!pop
    PROVE  ListInv'
  <1>1. List!Running /\ List!Shrinks
    BY DEF List!remove_element, List!remove_at, List!pop, List!Handed
  <1>3. PICK i : /\ held' = List!RemoveAt(held, i) /\ past \subseteq past'
                 /\ UNCHANGED <<unboxed, capacity, charged, second>>
                 /\ i \in DOMAIN held \/ (i = Len(held) /\ held # <<>>)
                    \/ (i = List!FirstOf(local) /\ i # 0)
    BY DEF List!remove_element, List!remove_at, List!pop, List!Handed, List!Miscounts, List!Records
  <1>4. i \in DOMAIN held
    <2>1. IsSeq(held)
      BY DEF ListInv
    <2>2. DOMAIN held = 1 .. Len(held) /\ Len(held) \in Nat /\ (held # <<>> => Len(held) # 0)
      BY <2>1, SeqHas
    <2>3. CASE i = Len(held) /\ held # <<>>
      BY <2>2, <2>3
    <2>4. CASE i = List!FirstOf(local) /\ i # 0
      BY <2>1, <2>4, ListFind
    <2> QED BY <1>3, <2>3, <2>4
  <1> QED BY <1>1, <1>3, <1>4, ListTaken

(* clear.                                                                  *)
LEMMA ListClear ==
    ASSUME ListInv, List!clear
    PROVE  ListInv'
  <1>1. /\ List!Running /\ held' = <<>>
        /\ (held = <<>> /\ call' = call) \/ (List!Shrinks)
        /\ capacity' = IF capacity > ClearedSize THEN ClearedSize ELSE capacity
        /\ past' = past \cup (IF capacity <= ClearedSize THEN {} ELSE {"drift"})
        /\ UNCHANGED <<unboxed, charged, second>>
    BY DEF List!clear, List!Miscounts, List!Records, List!Unless
  <1>2. call.pc # "stopped" /\ Follows(held, held', call, call')
    <2>1. Len(held) \in Nat /\ Len(<<>>) = 0 /\ ~(0 > Len(held))
      BY SeqHas DEF ListInv
    <2> QED BY <1>1, <2>1, ListMoves, ListRunning
  <1>3. capacity \in Nat /\ charged \in Nat /\ ClearedSize \in Nat /\ IsSeq(second)
    BY CollectionsAssumption DEF ListInv
  <1>4. "drift" \notin past => charged = capacity
    BY <1>2 DEF ListInv, List!ChargeIsCapacity
  <1>5. capacity' \in Nat /\ ("drift" \notin past' => charged' = capacity')
    BY <1>1, <1>3, <1>4
  <1>6. IsSeq(held') /\ Len(held') <= capacity'
    BY <1>1, <1>5, EmptyIsSeq
  <1> QED BY <1>1, <1>2, <1>3, <1>5, <1>6, ListChanged

(* reserve.                                                                *)
LEMMA ListReserve ==
    ASSUME ListInv, NEW n \in Nat, List!reserve(n)
    PROVE  ListInv'
  <1>1. /\ n > capacity /\ List!Resized(n) /\ call.pc # "stopped"
        /\ UNCHANGED <<unboxed, held, second, call>>
    BY DEF List!reserve, List!Running
  <1>2. /\ capacity' = n /\ charged' \in Nat /\ capacity' \in Nat
        /\ "drift" \notin past' => charged' = capacity'
    BY <1>1, ListResized
  <1>3. Len(held') <= capacity'
    <2>1. Len(held) \in Nat /\ capacity \in Nat /\ Len(held) <= capacity
      BY SeqHas DEF ListInv
    <2> QED BY <1>1, <1>2, <2>1
  <1>4. ListCall(held', second', call')
    BY <1>1 DEF ListInv
  <1>5. List!ChargeIsCapacity'
    BY <1>2, <1>3 DEF List!ChargeIsCapacity
  <1> QED BY <1>1, <1>2, <1>3, <1>4, <1>5 DEF ListInv

(* A step that leaves the lists and the call alone.                        *)
LEMMA ListSame ==
    ASSUME ListInv, UNCHANGED <<unboxed, held, capacity, charged, second, call, past>>
    PROVE  ListInv'
  BY DEF ListInv, List!ChargeIsCapacity

(* The memory limit ends the run.                                          *)
LEMMA ListOutOfMemory ==
    ASSUME ListInv, NEW cap, List!OutOfMemory(cap)
    PROVE  ListInv'
  <1>1. /\ UNCHANGED <<unboxed, held, capacity, charged, second, past>>
        /\ call' = List!Stopped
    BY DEF List!OutOfMemory, List!dataVars
  <1>2. CallShape(call') /\ IsSeq(call'.out) /\ ListCall(held, second', call') /\ call'.pc = "stopped"
    BY <1>1, ListNoCall, ListNone
  <1>3. IsSeq(second')
    BY <1>1 DEF ListInv
  <1> QED BY <1>1, <1>2, <1>3, ListCallStep

(* A function returns a new list.                                          *)
LEMMA ListNewList ==
    ASSUME ListInv, NEW s, IsSeq(s), List!NewList(s), past \subseteq past'
    PROVE  ListInv'
  <1>1. /\ second' = s /\ List!Idle
        /\ UNCHANGED <<unboxed, held, capacity, charged, call>>
    BY DEF List!NewList, List!ReturnedList
  <1>2. call.fn = "none" /\ call.pc # "stopped"
    BY <1>1, ListRunning
  <1>3. CallShape(call) /\ IsSeq(call.out) /\ ListCall(held, second', call)
    BY <1>2 DEF ListInv, ListCall
  <1> QED BY <1>1, <1>3, ListCallStep

(* A selection of a list's elements is not longer than the list.           *)
LEMMA ListAmongIs ==
    ASSUME IsSeq(held), NEW w
    PROVE  IsSeq(List!Among(held, w)) /\ Len(List!Among(held, w)) <= Len(held)
  BY AmongSame, AmongIs

(* Each of them.                                                           *)
LEMMA ListNewLists ==
    ASSUME ListInv, List!NewLists
    PROVE  ListInv'
  <1>0. IsSeq(held) /\ IsSeq(second) /\ MaxLen \in Nat
    BY CollectionsAssumption DEF ListInv
  <1>1. CASE List!clone \/ List!filter_not_null
    <2>1. List!NewList(held) /\ past \subseteq past'
      BY <1>1 DEF List!clone, List!filter_not_null, List!Exactly, List!LeavesBoxes, List!Miscounts, List!Records
    <2> QED BY <1>0, <2>1, ListNewList
  <1>2. CASE List!reversed \/ List!plus \/ List!plus_element
    <2>1. PICK s : /\ List!NewList(s) /\ past \subseteq past'
                   /\ \/ s = List!Reverse(held) \/ s = held \o second
                      \/ \E x : s = Append(held, x)
      BY <1>2 DEF List!reversed, List!plus, List!plus_element, List!Exactly, List!Miscounts, List!Records
    <2>2. IsSeq(s)
      <3>1. CASE s = List!Reverse(held)
        BY <1>0, <3>1, ReverseIs
      <3>2. CASE s = held \o second
        BY <1>0, <3>2, JoinIs
      <3>3. ASSUME NEW x, s = Append(held, x) PROVE IsSeq(s)
        BY <1>0, <3>3, AppendIs
      <3> QED BY <2>1, <3>1, <3>2, <3>3
    <2> QED BY <2>1, <2>2, ListNewList
  <1>3. CASE List!minus \/ List!minus_element
    <2>1. PICK s : /\ List!NewList(s) /\ past \subseteq past'
                   /\ \/ \E w : s = List!Among(held, w)
                      \/ s = held
                      \/ s = List!RemoveAt(held, List!FirstOf(local)) /\ List!FirstOf(local) # 0
      BY <1>3 DEF List!minus, List!minus_element, List!LeavesBoxes, List!Miscounts, List!Records
    <2>2. IsSeq(s)
      <3>1. List!FirstOf(local) # 0 => List!FirstOf(local) \in DOMAIN held
        BY <1>0, ListFind
      <3> QED BY <1>0, <2>1, <3>1, ListAmongIs, RemoveAtIs
    <2> QED BY <2>1, <2>2, ListNewList
  <1>4. CASE List!distinct
    <2>1. /\ List!NewList(List!FoldLeft(List!Seen, <<>>, held)) /\ past \subseteq past'
      BY <1>4 DEF List!distinct, List!LeavesBoxes, List!Miscounts, List!Records
    <2> QED BY <1>0, <2>1, SeenIs, ListNewList
  <1>5. CASE List!sorted \/ List!shuffled
    <2>1. PICK s \in List!Orders(held) : List!NewList(s) /\ past \subseteq past'
      BY <1>5 DEF List!sorted, List!shuffled, List!Exactly, List!Miscounts, List!Records
    <2> QED BY <1>0, <2>1, OrdersAre, ListNewList
  <1>6. ASSUME NEW n \in List!Amounts,
               List!take(n) \/ List!drop(n) \/ List!take_last(n) \/ List!drop_last(n)
        PROVE  ListInv'
    <2>1. n \in Int
      BY <1>0 DEF List!Amounts
    <2>2. PICK s : /\ List!NewList(s) /\ past \subseteq past'
                   /\ s \in {List!Take(held, n), List!Drop(held, n),
                             List!TakeLast(held, n), List!DropLast(held, n)}
      BY <1>6 DEF List!take, List!drop, List!take_last, List!drop_last, List!Exactly,
         List!LeavesBoxes, List!Miscounts, List!Records
    <2>3. IsSeq(s)
      BY <1>0, <2>1, <2>2, PartsAre
    <2> QED BY <2>2, <2>3, ListNewList
  <1>7. ASSUME NEW n \in List!Indexes, List!step(n)
        PROVE  ListInv'
    <2>1. n \in Nat \ {0}
      BY <1>0 DEF List!Indexes
    <2>2. List!NewList(List!Step(held, n)) /\ past \subseteq past'
      BY <1>7 DEF List!step, List!Exactly, List!Miscounts, List!Records
    <2> QED BY <1>0, <2>1, <2>2, StepIs, ListNewList
  <1>8. ASSUME NEW from \in -1 .. MaxLen, NEW to \in -1 .. MaxLen, List!slice(from, to)
        PROVE  ListInv'
    <2>1. from \in Int /\ to \in Int
      BY <1>0
    <2>2. List!NewList(List!Slice(held, from, to)) /\ past \subseteq past'
      BY <1>8 DEF List!slice, List!Exactly, List!Miscounts, List!Records
    <2> QED BY <1>0, <2>1, <2>2, SliceIs, ListNewList
  <1>9. CASE List!sort_default
    BY <1>9, ListSet
  <1> QED BY <1>1, <1>2, <1>3, <1>4, <1>5, <1>6, <1>7, <1>8, <1>9 DEF List!NewLists

(* add_all.                                                                *)
LEMMA ListAddAll ==
    ASSUME ListInv, List!add_all
    PROVE  ListInv'
  <1>1. /\ List!Idle /\ held' = held \o second
        /\ capacity' = List!GrownBy(capacity, Len(held), Len(second))
        /\ UNCHANGED <<unboxed, charged, second>>
        /\ \/ call' = List!Stopped
           \/ call' = call /\ past' = past \cup (IF capacity' = capacity THEN {} ELSE {"drift"})
    BY DEF List!add_all, List!Miscounts, List!Records, List!Unless
  <1>2. call.fn = "none" /\ call.pc # "stopped"
    BY <1>1, ListRunning
  <1>3. /\ IsSeq(held) /\ IsSeq(second) /\ capacity \in Nat /\ charged \in Nat
        /\ Len(held) <= capacity /\ Len(held) \in Nat /\ Len(second) \in Nat
        /\ "drift" \notin past => charged = capacity
    BY <1>2, SeqHas DEF ListInv, List!ChargeIsCapacity
  <1>4. IsSeq(held') /\ Len(held') = Len(held) + Len(second)
    BY <1>1, <1>3, JoinIs
  <1>5. capacity' \in Nat /\ Len(held) + Len(second) <= capacity'
    BY <1>1, <1>3, GrownIs
  <1>6. "drift" \notin past' /\ call'.pc # "stopped" => charged' = capacity'
    BY <1>1, <1>3, ListNone
  <1> QED BY <1>1, <1>2, <1>3, <1>4, <1>5, <1>6, ListChanged

(* remove_all and retain_all of another list.                              *)
LEMMA ListKeepOnly ==
    ASSUME ListInv, List!remove_all \/ List!retain_all
    PROVE  ListInv'
  <1>1. PICK w, kept :
           /\ List!Idle /\ kept = List!Among(held, w) /\ held' = kept
           /\ capacity' = List!ShrunkTo(Len(kept))
           /\ charged' = List!Counter(charged + (List!ShrunkTo(Len(kept)) - capacity))
           /\ UNCHANGED <<unboxed, second>>
           /\ call' = List!Stopped \/ (call' = call /\ past \subseteq past')
    BY DEF List!remove_all, List!retain_all, List!KeepOnly, List!Miscounts, List!Records, List!Charge
  <1>2. call.fn = "none" /\ call.pc # "stopped"
    BY <1>1, ListRunning
  <1>3. /\ IsSeq(held) /\ IsSeq(second) /\ capacity \in Nat /\ charged \in Nat
        /\ Len(held) <= capacity
        /\ "drift" \notin past => charged = capacity
    BY <1>2 DEF ListInv, List!ChargeIsCapacity
  <1>4. IsSeq(kept) /\ Len(kept) <= Len(held)
    BY <1>1, <1>3, ListAmongIs
  <1>5. Len(kept) \in Nat
    BY <1>4, SeqHas
  <1>6. PICK c : c = List!ShrunkTo(Len(kept))
    OBVIOUS
  <1>7. c \in Nat /\ Len(kept) <= c
    BY <1>3, <1>4, <1>5, <1>6, ShrunkIs
  <1>8. capacity' = c /\ charged' = List!Counter(charged + (c - capacity))
    BY <1>1, <1>6
  <1>9. charged' \in Nat /\ (charged = capacity => charged' = c)
    <2>1. charged + (c - capacity) \in Int /\ (charged = capacity => charged + (c - capacity) = c)
      BY <1>3, <1>7
    <2> QED BY <1>7, <1>8, <2>1, ListCounts
  <1>10. "drift" \notin past' /\ call'.pc # "stopped" => charged' = capacity'
    BY <1>1, <1>3, <1>8, <1>9, ListNone
  <1>11. IsSeq(held') /\ Len(held') <= capacity' /\ capacity' \in Nat
    BY <1>1, <1>4, <1>7, <1>8
  <1> QED BY <1>1, <1>2, <1>3, <1>9, <1>10, <1>11, ListChanged

(* contains_all.                                                           *)
LEMMA ListContainsAll ==
    ASSUME ListInv, List!contains_all
    PROVE  ListInv'
  <1>1. /\ UNCHANGED <<unboxed, held, capacity, charged, second>> /\ List!Idle
        /\ (call' = List!Stopped /\ past \subseteq past') \/ (call' = call /\ past' = past)
    BY DEF List!contains_all, List!Borrowed, List!dataVars, List!Miscounts, List!Records
  <1>2. CASE call' = call /\ past' = past
    BY <1>1, <1>2, ListSame
  <1>3. CASE call' = List!Stopped /\ past \subseteq past'
    <2>1. CallShape(call') /\ IsSeq(call'.out) /\ ListCall(held, second', call') /\ call'.pc = "stopped"
      BY <1>3, ListNoCall, ListNone
    <2>2. IsSeq(second')
      BY <1>1 DEF ListInv
    <2> QED BY <1>1, <1>3, <2>1, <2>2, ListCallStep
  <1> QED BY <1>1, <1>2, <1>3

(* The program keeps its second list in place of the first.                *)
LEMMA ListUseOther ==
    ASSUME ListInv, List!UseOther
    PROVE  ListInv'
  <1>1. /\ List!Idle /\ held' = second /\ second' = <<>>
        /\ capacity' \in {Len(second), List!GrownBy(0, 0, Len(second))}
        /\ past' = past \cup (IF capacity' = charged THEN {} ELSE {"drift"})
        /\ UNCHANGED <<unboxed, charged, call>>
    BY DEF List!UseOther, List!Miscounts, List!Records, List!Unless
  <1>2. call.fn = "none" /\ call.pc # "stopped"
    BY <1>1, ListRunning
  <1>3. IsSeq(second) /\ charged \in Nat /\ Len(second) \in Nat
    BY SeqHas DEF ListInv
  <1>4. List!GrownBy(0, 0, Len(second)) \in Nat /\ Len(second) <= List!GrownBy(0, 0, Len(second))
    <2>1. 0 + Len(second) = Len(second)
      BY <1>3
    <2> QED BY <1>3, <2>1, GrownIs
  <1>5. capacity' \in Nat /\ Len(held') <= capacity'
    BY <1>1, <1>3, <1>4
  <1>6. "drift" \notin past' => charged' = capacity'
    BY <1>1
  <1>7. IsSeq(second')
    BY <1>1, EmptyIsSeq
  <1> QED BY <1>1, <1>2, <1>3, <1>5, <1>6, <1>7, ListChanged

(* The invariant of lists holds at first.                                  *)
LEMMA ListInit == List!Init => ListInv
  <1> SUFFICES ASSUME List!Init PROVE ListInv
    OBVIOUS
  <1>1. /\ call = List!NoCall /\ unboxed \in BOOLEAN
        /\ held = <<>> /\ second = <<>> /\ capacity = 0 /\ charged = 0
    BY DEF List!Init, List!Begun
  <1>2. ListCall(held, second, call) /\ CallShape(call) /\ IsSeq(call.out)
    BY <1>1, ListNoCall
  <1>3. IsSeq(held) /\ IsSeq(second) /\ Len(held) <= capacity
    BY <1>1, EmptyIsSeq
  <1> QED BY <1>1, <1>2, <1>3 DEF ListInv, List!ChargeIsCapacity

(* And when the program starts again.                                      *)
LEMMA ListRestart ==
    ASSUME ListInv, List!Restart
    PROVE  ListInv'
  <1>1. /\ call' = List!NoCall /\ unboxed' \in BOOLEAN
        /\ held' = <<>> /\ second' = <<>> /\ capacity' = 0 /\ charged' = 0
    BY DEF List!Restart, List!BegunAgain
  <1>2. ListCall(held', second', call') /\ CallShape(call') /\ IsSeq(call'.out)
    BY <1>1, ListNoCall
  <1>3. IsSeq(held') /\ IsSeq(second') /\ Len(held') <= capacity'
    BY <1>1, EmptyIsSeq
  <1> QED BY <1>1, <1>2, <1>3 DEF ListInv, List!ChargeIsCapacity

(* Every function without a callback keeps it.                             *)
LEMMA ListDirect ==
    ASSUME ListInv, List!Direct
    PROVE  ListInv'
  <1>1. CASE List!Changes
    <2>1. CASE List!add \/ List!unshift \/ List!remove_element \/ List!pop \/ List!shift
               \/ List!clear \/ List!reverse
      BY <2>1, ListAdd, ListTakes, ListClear, ListSet DEF List!unshift, List!shift
    <2>2. ASSUME NEW i, List!insert(i) \/ List!set(i) \/ List!remove(i) \/ List!remove_at(i)
          PROVE  ListInv'
      BY <2>2, ListAdd, ListSet, ListRemove, ListTakes
    <2>3. ASSUME NEW i, List!get(i) PROVE ListInv'
      BY <2>3, ListSame DEF List!get, List!dataVars
    <2>4. CASE List!reserve(MaxLen + 1)
      <3>1. MaxLen + 1 \in Nat
        BY CollectionsAssumption
      <3> QED BY <2>4, <3>1, ListReserve
    <2>5. CASE List!OutOfMemory(List!RoomForOne)
      BY <2>5, ListOutOfMemory
    <2> QED BY <1>1, <2>1, <2>2, <2>3, <2>4, <2>5 DEF List!Changes
  <1>2. CASE List!NewLists
    BY <1>2, ListNewLists
  <1>3. CASE List!add_all \/ List!remove_all \/ List!retain_all \/ List!contains_all
             \/ List!UseOther \/ List!Restart
    BY <1>3, ListAddAll, ListKeepOnly, ListContainsAll, ListUseOther, ListRestart
  <1>4. CASE ((\E v \in ListContents : List!NewObject(v)) \/ List!Forget) /\ UNCHANGED List!dataVars
    BY <1>4, ListSame DEF List!NewObject, List!Forget, List!dataVars
  <1> QED BY <1>1, <1>2, <1>3, <1>4 DEF List!Direct

(* The call ends, and what the program gets is a list or nothing new.      *)
LEMMA ListEnds ==
    ASSUME ListInv, UNCHANGED <<unboxed, held, capacity, charged>>, IsSeq(second'),
           call' \in {List!NoCall, List!Stopped}, call.pc # "stopped", past \subseteq past'
    PROVE  ListInv'
  <1>1. CallShape(call') /\ IsSeq(call'.out) /\ ListCall(held, second', call')
    BY ListNoCall
  <1> QED BY <1>1, ListCallStep

(* The call of a function begins.                                          *)
Started(fn, i, acc, out) ==
    [List!Starts(fn) EXCEPT !.i = IF fn \in List!Backward THEN @ ELSE i,
                            !.acc = acc, !.out = out]

(* A loop begins at an element of the list, or before an empty one.        *)
LEMMA ListStarts ==
    ASSUME ListInv, UNCHANGED <<unboxed, held, capacity, charged, second>>,
           past \subseteq past', NEW fn, fn # "none", fn # "get_or_else",
           fn = "zip_with_next_transform" => Len(held) >= 2, call.pc # "stopped",
           NEW i \in {1, 2}, NEW acc, NEW out, IsSeq(out),
           call' = Started(fn, i, acc, out)
    PROVE  ListInv'
  <1>1. PICK n, m : /\ n = Len(held)
                    /\ m = IF fn = "zip_transform" /\ Len(second) < n THEN Len(second) ELSE n
    OBVIOUS
  <1>2. n \in Nat /\ Len(second) \in Nat
    BY <1>1, SeqHas DEF ListInv
  <1>3. m \in Nat /\ m <= n /\ (fn = "zip_transform" => m <= Len(second))
    BY <1>1, <1>2
  <1>4. PICK c : c = List!NoCall
    OBVIOUS
  <1>5. PICK s : s = List!Starts(fn)
    OBVIOUS
  <1>6. CallShape(c) /\ c.at = 0 /\ c.out = <<>>
    BY <1>4, ListNone
  <1>7. s = [c EXCEPT !.fn = fn, !.pc = "loop",
                      !.i = IF fn \in List!Backward THEN n ELSE 1, !.n = m]
    BY <1>1, <1>4, <1>5 DEF List!Starts
  <1>8. /\ CallShape(s) /\ s.fn = fn /\ s.pc = "loop" /\ s.at = 0 /\ s.n = m
        /\ s.i = IF fn \in List!Backward THEN n ELSE 1
    BY <1>6, <1>7 DEF CallShape
  <1>9. PICK d : d = call'
    OBVIOUS
  <1>10. d = [s EXCEPT !.i = IF fn \in List!Backward THEN @ ELSE i, !.acc = acc, !.out = out]
    BY <1>5, <1>9 DEF Started
  <1>11. /\ CallShape(d) /\ d.fn = fn /\ d.pc = "loop" /\ d.at = 0 /\ d.n = m /\ d.out = out
         /\ d.i = IF fn \in List!Backward THEN n ELSE i
    BY <1>8, <1>10 DEF CallShape
  <1>12. fn = "zip_with_next_transform" => held # <<>>
    <2>1. Len(<<>>) = 0
      OBVIOUS
    <2> QED BY <2>1
  <1>13. IsSeq(second')
    BY DEF ListInv
  <1>15. fn \in List!HaveRoom => m = n
    BY <1>1 DEF List!HaveRoom
  <1>14. ListCall(held, second, d)
    <2>1. Placed(held, d) /\ Roomy(held, d)
      BY <1>1, <1>2, <1>3, <1>11, <1>12, <1>15 DEF Placed, Roomy
    <2> QED BY <1>1, <1>2, <1>3, <1>11, <2>1 DEF ListCall
  <1> QED BY <1>9, <1>11, <1>13, <1>14, ListCallStep

(* A loop over the list begins.                                            *)
LEMMA ListBegin ==
    ASSUME ListInv, NEW fn \in List!Functions, List!Begin(fn)
    PROVE  ListInv'
  <1>1. /\ call.pc = "idle" /\ past' = past /\ call' = List!Starts(fn)
        /\ UNCHANGED <<unboxed, held, capacity, charged, second>>
        /\ fn # "get_or_else"
        /\ fn = "zip_with_next_transform" => Len(held) >= 2
    BY DEF List!Begin, List!MayBegin, List!Idle, List!dataVars
  <1>2. fn # "none"
    BY DEF List!Functions, List!Actions, List!Predicates, List!Transforms, List!Folding, List!Unkept
  <1>3. PICK c, s : c = List!NoCall /\ s = List!Starts(fn)
    OBVIOUS
  <1>4. CallShape(c) /\ c.out = <<>>
    BY <1>3, ListNone
  <1>5. PICK n, m : s = [c EXCEPT !.fn = fn, !.pc = "loop",
                         !.i = IF fn \in List!Backward THEN n ELSE 1, !.n = m]
    BY <1>3 DEF List!Starts
  <1>6. s = [s EXCEPT !.i = IF fn \in List!Backward THEN @ ELSE 1, !.acc = s.acc, !.out = <<>>]
    BY <1>4, <1>5 DEF CallShape
  <1>7. call' = Started(fn, 1, s.acc, <<>>)
    BY <1>1, <1>3, <1>6 DEF Started
  <1>8. IsSeq(<<>>)
    BY EmptyIsSeq
  <1> QED BY <1>1, <1>2, <1>7, <1>8, ListStarts

(* And one that folds it.                                                  *)
LEMMA ListBeginFold ==
    ASSUME ListInv, NEW fn, List!BeginFold(fn)
    PROVE  ListInv'
  <1>1. PICK first :
        /\ call.pc = "idle" /\ past' = past /\ fn \in List!Folding
        /\ call' = [List!Starts(fn) EXCEPT
                      !.i = IF fn \in List!FromSecond THEN 2 ELSE 1, !.acc = first,
                      !.out = IF fn \in {"running_fold", "running_reduce"}
                              THEN <<List!Stored(first)>> ELSE <<>>]
        /\ UNCHANGED <<unboxed, held, capacity, charged, second>>
    BY DEF List!BeginFold, List!MayBegin, List!Idle, List!dataVars
  <1>2. fn # "none" /\ fn # "get_or_else" /\ fn # "zip_with_next_transform" /\ fn \notin List!Backward
    BY <1>1 DEF List!Folding, List!Backward
  <1>3. PICK out, i, x :
           /\ out = IF fn \in {"running_fold", "running_reduce"} THEN <<x>> ELSE <<>>
           /\ x = List!Stored(first)
           /\ i = IF fn \in List!FromSecond THEN 2 ELSE 1
    OBVIOUS
  <1>4. IsSeq(out) /\ i \in {1, 2}
    BY <1>3, OneIsSeq, EmptyIsSeq
  <1>5. call' = Started(fn, i, first, out)
    BY <1>1, <1>2, <1>3 DEF Started
  <1> QED BY <1>1, <1>2, <1>4, <1>5, ListStarts

(* get_or_else begins.                                                     *)
LEMMA ListBeginDefault ==
    ASSUME ListInv, List!BeginDefault
    PROVE  ListInv'
  <1>1. /\ call.pc = "idle" /\ past' = past
        /\ call' = [List!NoCall EXCEPT !.fn = "get_or_else", !.pc = "calling"]
        /\ UNCHANGED <<unboxed, held, capacity, charged, second>>
    BY DEF List!BeginDefault, List!MayBegin, List!Idle, List!dataVars
  <1>2. PICK c, d : c = List!NoCall /\ d = call'
    OBVIOUS
  <1>3. CallShape(c) /\ c.at = 0 /\ c.out = <<>> /\ c.i = 0 /\ c.n = 0
    BY <1>2, ListNone
  <1>4. d = [c EXCEPT !.fn = "get_or_else", !.pc = "calling"]
    BY <1>1, <1>2
  <1>5. /\ CallShape(d) /\ d.fn = "get_or_else" /\ d.pc = "calling" /\ d.at = 0 /\ d.out = <<>>
        /\ d.i = 0 /\ d.n = 0
    BY <1>3, <1>4 DEF CallShape
  <1>6. ListCall(held, second, d)
    BY <1>5 DEF ListCall, Placed, Roomy, AtIndex, List!Backward, Blind, Bounded, List!Sorting, List!HaveRoom
  <1>7. IsSeq(second') /\ IsSeq(d.out)
    BY <1>1, <1>5, EmptyIsSeq DEF ListInv
  <1> QED BY <1>1, <1>2, <1>5, <1>6, <1>7, ListCallStep

(* The loop calls the script, or the script answers: the index stays.      *)
LEMMA ListStays ==
    ASSUME ListInv, UNCHANGED <<unboxed, held, capacity, charged, second>>,
           past \subseteq past', call.pc \in {"loop", "calling"}, CallShape(call'),
           call'.pc \in {"calling", "returned"}, call'.fn = call.fn, call'.i = call.i,
           call'.n = call.n, call'.at = call.at, call'.out = call.out, call'.moved = call.moved,
           call.pc = "loop" /\ call.fn \notin Blind => call.i \in DOMAIN held
    PROVE  ListInv'
  <1>1. PICK c, d : c = call /\ d = call'
    OBVIOUS
  <1>2. IsSeq(c.out) /\ ListCall(held, second, c) /\ IsSeq(second)
    BY <1>1 DEF ListInv
  <1>3. /\ d.fn = c.fn /\ d.i = c.i /\ d.n = c.n /\ d.at = c.at /\ d.out = c.out
        /\ d.pc \in {"calling", "returned"} /\ d.moved = c.moved
    BY <1>1
  <1>4. c.fn # "none" /\ c.pc \in {"loop", "calling"}
    BY <1>1, <1>2 DEF ListCall
  <1>6. Len(held) \in Nat /\ DOMAIN held = 1 .. Len(held)
    BY SeqHas DEF ListInv
  <1>7. ASSUME "shrunk" \notin d.moved PROVE Placed(held, d)
    <2>1. Placed(held, c)
      BY <1>2, <1>3, <1>7 DEF ListCall
    <2>2. c.fn \notin Blind => c.i \in DOMAIN held
      BY <1>1, <1>4, <2>1 DEF Placed
    <2> QED BY <1>3, <2>1, <2>2 DEF Placed
  <1>8. ASSUME "grown" \notin d.moved PROVE Roomy(held, d)
    <2>1. Roomy(held, c) /\ c.i \in Nat /\ c.n \in Nat
      BY <1>2, <1>3, <1>8 DEF ListCall
    <2>2. c.fn \in List!HaveRoom /\ c.pc = "loop" => c.i <= c.n
      <3>1. c.fn \in List!HaveRoom => c.fn \notin Blind
        BY DEF List!HaveRoom, Blind
      <3> QED BY <1>1, <1>6, <2>1, <3>1 DEF Roomy
    <2> QED BY <1>3, <1>4, <2>1, <2>2 DEF Roomy
  <1>9. c.fn \in List!Backward => c.i # 0
    <2>1. c.fn \in List!Backward => c.fn \notin Blind
      BY DEF List!Backward, Blind
    <2>2. 0 \notin DOMAIN held
      BY <1>6
    <2> QED BY <1>1, <1>2, <1>4, <2>1, <2>2 DEF ListCall
  <1>5. ListCall(held, second, d)
    BY <1>2, <1>3, <1>4, <1>7, <1>8, <1>9 DEF ListCall
  <1> QED BY <1>1, <1>2, <1>3, <1>5, ListCallStep

(* The loop calls the script, which answers or raises.                     *)
LEMMA ListScript ==
    ASSUME ListInv, List!Invoke \/ List!InvokeOutside \/ List!InvokeWithNone \/ List!Script
    PROVE  ListInv'
  <1>1. PICK c, d : c = call /\ d = call'
    OBVIOUS
  <1>2. CallShape(c)
    BY <1>1 DEF ListInv
  <1>3. CASE List!Invoke
    <2>1. PICK item, acc :
            /\ UNCHANGED <<unboxed, held, capacity, charged, second, past>>
            /\ call.pc = "loop" /\ call.i \in DOMAIN held
            /\ call' = [call EXCEPT !.pc = "calling", !.item = item, !.acc = acc]
      BY <1>3 DEF List!Invoke, List!Readable, List!Inside, List!At, List!dataVars
    <2>2. d = [c EXCEPT !.pc = "calling", !.item = item, !.acc = acc]
      BY <1>1, <2>1
    <2>3. /\ CallShape(d) /\ d.pc = "calling" /\ d.fn = c.fn /\ d.i = c.i /\ d.n = c.n
          /\ d.at = c.at /\ d.out = c.out /\ d.moved = c.moved
      BY <1>2, <2>2 DEF CallShape
    <2> QED BY <1>1, <2>1, <2>3, ListStays
  <1>4. CASE List!InvokeWithNone
    <2>1. /\ UNCHANGED <<unboxed, held, capacity, charged, second, past>>
          /\ call.pc = "loop" /\ call.fn = "chunked_transform"
          /\ call' = [call EXCEPT !.pc = "calling"]
      BY <1>4 DEF List!InvokeWithNone, List!At, List!dataVars
    <2>2. d = [c EXCEPT !.pc = "calling"]
      BY <1>1, <2>1
    <2>3. /\ CallShape(d) /\ d.pc = "calling" /\ d.fn = c.fn /\ d.i = c.i /\ d.n = c.n
          /\ d.at = c.at /\ d.out = c.out /\ d.moved = c.moved
      BY <1>2, <2>2 DEF CallShape
    <2>4. call.fn \in Blind
      BY <2>1 DEF Blind
    <2> QED BY <1>1, <2>1, <2>3, <2>4, ListStays
  <1>5. CASE List!ScriptAnswers \/ List!ScriptReturns \/ List!ScriptEnds
    <2>1. PICK res, yes :
            /\ UNCHANGED <<unboxed, held, capacity, charged, second, past>>
            /\ call.pc = "calling"
            /\ \/ call' = [call EXCEPT !.pc = "returned", !.yes = yes]
               \/ call' = [call EXCEPT !.pc = "returned", !.res = res]
               \/ call' = [call EXCEPT !.pc = "returned"]
      BY <1>5 DEF List!ScriptAnswers, List!ScriptReturns, List!ScriptEnds, List!At, List!dataVars
    <2>2. \/ d = [c EXCEPT !.pc = "returned", !.yes = yes]
          \/ d = [c EXCEPT !.pc = "returned", !.res = res]
          \/ d = [c EXCEPT !.pc = "returned"]
      BY <1>1, <2>1
    <2>3. /\ CallShape(d) /\ d.pc = "returned" /\ d.fn = c.fn /\ d.i = c.i /\ d.n = c.n
          /\ d.at = c.at /\ d.out = c.out /\ d.moved = c.moved
      BY <1>2, <2>2 DEF CallShape
    <2> QED BY <1>1, <2>1, <2>3, ListStays
  <1>6. CASE List!ScriptRaises
    <2>1. /\ UNCHANGED <<unboxed, held, capacity, charged, second>>
          /\ call.pc = "calling" /\ past \subseteq past'
          /\ call' \in {List!NoCall, List!Stopped}
      BY <1>6 DEF List!ScriptRaises, List!Undefined, List!Records, List!At, List!dataVars
    <2> QED BY <2>1, ListEnds DEF ListInv
  <1>7. CASE List!InvokeOutside
    <2>1. /\ UNCHANGED <<unboxed, held, capacity, charged, second>>
          /\ call.pc = "loop" /\ past \subseteq past' /\ call' = List!Stopped
      BY <1>7 DEF List!InvokeOutside, List!UsesStale, List!Undefined, List!Records, List!At, List!dataVars
    <2> QED BY <2>1, ListEnds DEF ListInv
  <1> QED BY <1>3, <1>4, <1>5, <1>6, <1>7 DEF List!Script

(* The memory limit ends the run while a native function works.            *)
LEMMA ListOutOfObjects ==
    ASSUME ListInv, List!OutOfObjects
    PROVE  ListInv'
  <1>1. /\ UNCHANGED <<unboxed, held, capacity, charged, second, past>>
        /\ call.pc # "stopped" /\ call' = List!Stopped
    BY DEF List!OutOfObjects, List!TooFewCopies, List!dataVars
  <1> QED BY <1>1, ListEnds DEF ListInv

(* The loop goes on: the index is one further, and what the function has   *)
(* found and made so far is d's.                                           *)
LEMMA ListGoes ==
    ASSUME ListInv, call.pc = "returned", call.fn # "get_or_else", past \subseteq past',
           NEW h, NEW d, List!Goes(h, d), CallShape(d), d.fn = call.fn, d.i = call.i,
           d.n = call.n, d.moved = call.moved, IsSeq(d.out), d.at # 0 => d.fn \in AtIndex,
           d.at # 0 /\ "shrunk" \notin d.moved => d.at \in DOMAIN held
    PROVE  ListInv'
  <1>1. PICK c, e : c = call /\ e = call'
    OBVIOUS
  <1>2. PICK i :
           /\ UNCHANGED <<unboxed, held, capacity, charged, second>>
           /\ i = IF c.fn \in List!Backward THEN d.i - 1 ELSE d.i + 1
           /\ e = [d EXCEPT !.pc = "loop", !.item = Nothing, !.res = Nothing, !.yes = FALSE,
                            !.i = i]
    BY <1>1 DEF List!Goes, List!dataVars
  <1>3. /\ CallShape(e) /\ e.pc = "loop" /\ e.fn = c.fn /\ e.n = c.n
        /\ e.i = i /\ e.at = d.at /\ e.out = d.out /\ e.moved = c.moved
    BY <1>1, <1>2 DEF CallShape
  <1>4. ListCall(held, second, c) /\ c.pc = "returned" /\ c.i \in Nat
        /\ Len(held) \in Nat /\ DOMAIN held = 1 .. Len(held) /\ IsSeq(second)
    BY <1>1, SeqHas DEF ListInv, ListCall
  <1>5. c.fn \in List!Backward => c.i # 0
    BY <1>4 DEF ListCall
  <1>6. /\ e.i \in Nat
        /\ e.fn \notin List!Backward => e.i # 0
        /\ e.fn \in List!Backward => e.i = c.i - 1
    BY <1>1, <1>2, <1>3, <1>4, <1>5
  <1>8. ASSUME "shrunk" \notin e.moved PROVE Placed(held, e)
    <2>1. Placed(held, c)
      BY <1>3, <1>4, <1>8 DEF ListCall
    <2>2. c.fn \in List!Backward => c.i - 1 <= Len(held)
      BY <1>4, <2>1 DEF Placed
    <2> QED BY <1>1, <1>3, <1>6, <1>8, <2>1, <2>2 DEF Placed
  <1>9. ASSUME "grown" \notin e.moved PROVE Roomy(held, e)
    <2>1. Roomy(held, c)
      BY <1>3, <1>4, <1>9 DEF ListCall
    <2> QED BY <1>3, <2>1 DEF Roomy
  <1>7. ListCall(held, second, e)
    BY <1>1, <1>3, <1>4, <1>6, <1>8, <1>9 DEF ListCall
  <1> QED BY <1>1, <1>2, <1>3, <1>4, <1>7, ListCallStep

(* What it may have made of its last answer.                               *)
Onward(c, d) ==
    /\ CallShape(d) /\ d.fn = c.fn /\ d.i = c.i /\ d.n = c.n /\ d.moved = c.moved
    /\ (d.out = c.out) \/ (\E x : d.out = Append(c.out, x))
    /\ (d.at = c.at) \/ (c.fn \in AtIndex /\ d.at = c.i)

(* What the functions do to their call comes to that.                      *)
LEMMA OnwardIs ==
    ASSUME NEW c, CallShape(c)
    PROVE  /\ Onward(c, c)
           /\ \A x, d : d = [c EXCEPT !.out = Append(@, x)] => Onward(c, d)
           /\ \A r, d : d = [c EXCEPT !.acc = r] => Onward(c, d)
           /\ \A r, x, d, e : e = [c EXCEPT !.acc = r] /\ d = [e EXCEPT !.out = Append(@, x)]
                 => Onward(c, d)
           /\ c.fn \in AtIndex =>
                 /\ \A d : d = [c EXCEPT !.at = c.i] => Onward(c, d)
                 /\ \A r, d, e : e = [c EXCEPT !.acc = r] /\ d = [e EXCEPT !.at = c.i]
                       => Onward(c, d)
  <1>1. Onward(c, c)
    BY DEF Onward
  <1>2. ASSUME NEW x, NEW d, d = [c EXCEPT !.out = Append(@, x)] PROVE Onward(c, d)
    <2>1. CallShape(d) /\ d.fn = c.fn /\ d.i = c.i /\ d.n = c.n /\ d.moved = c.moved /\ d.out = Append(c.out, x)
          /\ d.at = c.at
      BY <1>2 DEF CallShape
    <2> QED BY <2>1 DEF Onward
  <1>3. ASSUME NEW r, NEW e, e = [c EXCEPT !.acc = r]
        PROVE  CallShape(e) /\ e.fn = c.fn /\ e.i = c.i /\ e.n = c.n /\ e.moved = c.moved /\ e.out = c.out
               /\ e.at = c.at
    BY <1>3 DEF CallShape
  <1>4. ASSUME NEW r, NEW e, e = [c EXCEPT !.acc = r] PROVE Onward(c, e)
    BY <1>3, <1>4 DEF Onward
  <1>5. ASSUME NEW r, NEW x, NEW d, NEW e, e = [c EXCEPT !.acc = r], d = [e EXCEPT !.out = Append(@, x)]
        PROVE  Onward(c, d)
    <2>1. CallShape(e) /\ e.fn = c.fn /\ e.i = c.i /\ e.n = c.n /\ e.moved = c.moved /\ e.out = c.out /\ e.at = c.at
      BY <1>3, <1>5
    <2>2. CallShape(d) /\ d.fn = c.fn /\ d.i = c.i /\ d.n = c.n /\ d.moved = c.moved /\ d.out = Append(c.out, x)
          /\ d.at = c.at
      BY <2>1, <1>5 DEF CallShape
    <2> QED BY <2>2 DEF Onward
  <1>6. ASSUME c.fn \in AtIndex, NEW e, CallShape(e), e.fn = c.fn, e.i = c.i, e.n = c.n, e.moved = c.moved,
               e.out = c.out, NEW d, d = [e EXCEPT !.at = c.i]
        PROVE  Onward(c, d)
    <2>1. CallShape(d) /\ d.fn = c.fn /\ d.i = c.i /\ d.n = c.n /\ d.moved = c.moved /\ d.out = c.out /\ d.at = c.i
      BY <1>6 DEF CallShape
    <2> QED BY <1>6, <2>1 DEF Onward
  <1>7. ASSUME c.fn \in AtIndex, NEW d, d = [c EXCEPT !.at = c.i] PROVE Onward(c, d)
    BY <1>6, <1>7
  <1>8. ASSUME c.fn \in AtIndex, NEW r, NEW d, NEW e, e = [c EXCEPT !.acc = r], d = [e EXCEPT !.at = c.i]
        PROVE  Onward(c, d)
    <2>1. CallShape(e) /\ e.fn = c.fn /\ e.i = c.i /\ e.n = c.n /\ e.moved = c.moved /\ e.out = c.out
      BY <1>3, <1>8
    <2> QED BY <1>6, <1>8, <2>1
  <1> QED BY <1>1, <1>2, <1>4, <1>5, <1>7, <1>8

(* With any of it the loop goes on.                                        *)
LEMMA ListGoesOn ==
    ASSUME ListInv, call.pc = "returned", call.fn # "get_or_else", past \subseteq past',
           NEW h, NEW d, List!Goes(h, d), Onward(call, d)
    PROVE  ListInv'
  <1>1. PICK c : c = call
    OBVIOUS
  <1>2. CallShape(c) /\ IsSeq(c.out) /\ ListCall(held, second, c) /\ c.pc = "returned"
    BY <1>1 DEF ListInv
  <1>3. /\ CallShape(d) /\ d.fn = c.fn /\ d.i = c.i /\ d.n = c.n /\ d.moved = c.moved
        /\ (d.out = c.out) \/ (\E x : d.out = Append(c.out, x))
        /\ (d.at = c.at) \/ (c.fn \in AtIndex /\ d.at = c.i)
    BY <1>1 DEF Onward
  <1>4. IsSeq(d.out)
    <2>1. ASSUME NEW x, d.out = Append(c.out, x) PROVE IsSeq(d.out)
      BY <1>2, <2>1, AppendIs
    <2> QED BY <1>2, <1>3, <2>1
  <1>5. /\ d.at # 0 => d.fn \in AtIndex
        /\ d.at # 0 /\ "shrunk" \notin d.moved => d.at \in DOMAIN held
    <2>1. c.fn \in AtIndex => c.fn \notin Blind
      BY DEF AtIndex, Blind
    <2> QED BY <1>2, <1>3, <2>1 DEF ListCall, Placed
  <1> QED BY <1>1, <1>3, <1>4, <1>5, ListGoes

(* A native function returns: a list, an element, or nothing new.          *)
LEMMA ListReturns ==
    ASSUME ListInv, call.pc # "stopped", past \subseteq past', NEW h,
           \/ List!Stop(h) \/ (\E o : List!Return(h, o)) \/ List!StopStolen(h)
           \/ List!UsesStale \/ List!UsesFreed
           \/ \E s : IsSeq(s) /\ List!ReturnList(h, s)
    PROVE  ListInv'
  <1>1. /\ UNCHANGED <<unboxed, held, capacity, charged>>
        /\ call' \in {List!NoCall, List!Stopped}
        /\ second' = second \/ IsSeq(second')
    BY DEF List!Stop, List!Return, List!StopStolen, List!UsesStale, List!UsesFreed, List!Undefined,
       List!ReturnList, List!ReturnedList, List!dataVars
  <1>2. IsSeq(second')
    BY <1>1 DEF ListInv
  <1> QED BY <1>1, <1>2, ListEnds

(* Functions that look at each element in turn.                            *)
LEMMA ListLooks ==
    ASSUME ListInv,
           \/ List!for_each \/ List!on_each \/ List!count_fn \/ List!any_fn \/ List!all_fn
           \/ List!index_of_first \/ List!index_of_last \/ List!find \/ List!find_last
           \/ List!first_fn \/ List!last_fn \/ List!sorted_with \/ List!sum_of
           \/ List!join_to_string \/ List!then_by \/ List!first_not_null_of \/ List!get_or_else
    PROVE  ListInv'
  <1>1. PICK h : /\ call.pc = "returned" /\ past \subseteq past'
                 /\ \/ call.fn # "get_or_else" /\ List!Goes(h, call)
                    \/ List!Stop(h) \/ (\E o : List!Return(h, o)) \/ List!UsesStale
    <2>1. CASE \/ List!for_each \/ List!on_each \/ List!count_fn \/ List!any_fn \/ List!all_fn
               \/ List!index_of_first \/ List!index_of_last \/ List!sorted_with
      BY <2>1 DEF List!for_each, List!on_each, List!count_fn, List!any_fn, List!all_fn,
         List!index_of_first, List!index_of_last, List!sorted_with, List!After, List!At,
         List!NextOne, List!Exactly, List!Miscounts, List!Records
    <2>2. CASE List!find \/ List!find_last \/ List!first_not_null_of \/ List!get_or_else
      BY <2>2 DEF List!find, List!find_last, List!first_not_null_of,
         List!get_or_else, List!After, List!At, List!NextOne, List!Exactly,
         List!Miscounts, List!Records
    <2>4. CASE List!first_fn \/ List!last_fn
      BY <2>4 DEF List!first_fn, List!last_fn, List!ReturnElement, List!UsesStale, List!Undefined,
         List!After, List!At, List!NextOne, List!Exactly, List!Miscounts, List!Records
    <2>3. CASE List!sum_of \/ List!join_to_string \/ List!then_by
      BY <2>3 DEF List!sum_of, List!join_to_string, List!then_by, List!DropResult, List!After,
         List!UsesStale, List!Undefined, List!At, List!Exactly, List!Miscounts, List!Records
    <2> QED BY <2>1, <2>2, <2>3, <2>4
  <1>2. Onward(call, call)
    BY OnwardIs DEF ListInv
  <1>3. call.pc # "stopped"
    BY <1>1
  <1> QED BY <1>1, <1>2, <1>3, ListGoesOn, ListReturns

(* Functions that make a list of what the script answers, or fold it.      *)
LEMMA ListCollects ==
    ASSUME ListInv,
           \/ List!filter \/ List!filter_not \/ List!partition \/ List!take_while
           \/ List!distinct_by \/ List!map \/ List!chunked_transform \/ List!map_not_null
           \/ List!flat_map \/ List!max_of \/ List!sorted_by
    PROVE  ListInv'
  <1>1. PICK h : /\ call.pc = "returned" /\ call.fn # "get_or_else" /\ past \subseteq past'
                 /\ \/ List!Goes(h, call)
                    \/ \E x, d : List!Goes(h, d) /\ d = [call EXCEPT !.out = Append(@, x)]
                    \/ List!ReturnList(h, call.out)
                    \/ List!UsesFreed \/ List!UsesStale
    <2>1. CASE List!filter \/ List!filter_not \/ List!partition
      BY <2>1 DEF List!filter, List!filter_not, List!partition, List!After, List!At,
         List!NextOne, List!Collect, List!UsesFreed, List!Undefined, List!Exactly, List!Miscounts, List!Records
    <2>2. CASE List!take_while
      BY <2>2 DEF List!take_while, List!After, List!At, List!Collect, List!UsesFreed, List!Undefined, List!Exactly, List!Miscounts, List!Records
    <2>3. CASE List!distinct_by
      BY <2>3 DEF List!distinct_by, List!After, List!At, List!Exactly, List!Miscounts, List!Records
    <2>4. CASE List!map \/ List!chunked_transform \/ List!map_not_null \/ List!flat_map \/ List!max_of
      BY <2>4 DEF List!map, List!chunked_transform, List!map_not_null, List!flat_map, List!max_of,
         List!AddResult, List!DropResult, List!After, List!At, List!Exactly, List!Miscounts, List!Records
    <2>5. CASE List!sorted_by
      BY <2>5 DEF List!sorted_by, List!UsesStale, List!Undefined, List!After, List!At, List!Exactly, List!Miscounts, List!Records
    <2> QED BY <2>1, <2>2, <2>3, <2>4, <2>5
  <1>2. CASE List!ReturnList(h, call.out)
    <2>1. PICK s : s = call.out
      OBVIOUS
    <2>2. IsSeq(s) /\ List!ReturnList(h, s)
      BY <1>2, <2>1 DEF ListInv
    <2> QED BY <1>1, <2>2, ListReturns
  <1>3. CASE \/ List!Goes(h, call)
             \/ \E x, d : List!Goes(h, d) /\ d = [call EXCEPT !.out = Append(@, x)]
    <2>1. \E d : List!Goes(h, d) /\ Onward(call, d)
      BY <1>3, OnwardIs DEF ListInv
    <2> QED BY <1>1, <2>1, ListGoesOn
  <1>4. CASE List!UsesFreed \/ List!UsesStale
    BY <1>1, <1>4, ListReturns
  <1> QED BY <1>1, <1>2, <1>3, <1>4

(* Functions that remember a result or an index.                           *)
LEMMA ListFolds ==
    ASSUME ListInv,
           \/ List!reduce \/ List!fold \/ List!running_fold \/ List!running_reduce
           \/ List!min_by_or_null \/ List!single_fn \/ List!single_or_null_fn
    PROVE  ListInv'
  <1>1. CASE List!reduce \/ List!fold
    <2>1. PICK h, r, d :
             /\ call.pc = "returned" /\ call.fn # "get_or_else" /\ past \subseteq past'
             /\ List!Goes(h, d) /\ d = [call EXCEPT !.acc = r]
      BY <1>1 DEF List!reduce, List!fold, List!After, List!At, List!Folded, List!Exactly, List!Miscounts, List!Records
    <2>2. Onward(call, d)
      BY <2>1, OnwardIs DEF ListInv
    <2> QED BY <2>1, <2>2, ListGoesOn
  <1>2. CASE List!running_fold \/ List!running_reduce
    <2>1. PICK h, r, x, d, e :
             /\ call.pc = "returned" /\ call.fn # "get_or_else" /\ past \subseteq past'
             /\ List!Goes(h, d) /\ d = [e EXCEPT !.out = Append(@, x)]
             /\ e = [call EXCEPT !.acc = r]
      BY <1>2 DEF List!running_fold, List!running_reduce, List!Runs, List!After, List!At,
         List!Folded, List!Miscounts, List!Records
    <2>2. Onward(call, d)
      BY <2>1, OnwardIs DEF ListInv
    <2> QED BY <2>1, <2>2, ListGoesOn
  <1>3. CASE List!min_by_or_null
    <2>1. PICK h, r, d, e :
             /\ call.pc = "returned" /\ call.fn = "min_by_or_null" /\ past \subseteq past'
             /\ List!Goes(h, d)
             /\ \/ d = [e EXCEPT !.at = call.i] /\ e = [call EXCEPT !.acc = r]
                \/ d = call
      BY <1>3 DEF List!min_by_or_null, List!After, List!At, List!Folded, List!Miscounts, List!Records
    <2>2. Onward(call, d)
      <3>1. call.fn \in AtIndex
        BY <2>1 DEF AtIndex
      <3> QED BY <2>1, <3>1, OnwardIs DEF ListInv
    <2>3. call.fn # "get_or_else"
      BY <2>1
    <2> QED BY <2>1, <2>2, <2>3, ListGoesOn
  <1>4. CASE List!single_fn \/ List!single_or_null_fn
    <2>1. PICK h : /\ call.pc = "returned" /\ call.fn \in {"single_fn", "single_or_null_fn"}
                   /\ past \subseteq past'
                   /\ \/ \E d : List!Goes(h, d) /\ d = [call EXCEPT !.at = call.i]
                      \/ List!Goes(h, call)
                      \/ List!Stop(h) \/ \E o : List!Return(h, o)
      BY <1>4 DEF List!single_fn, List!single_or_null_fn, List!After, List!At, List!Exactly, List!Miscounts, List!Records
    <2>2. Onward(call, call) /\ \A d : d = [call EXCEPT !.at = call.i] => Onward(call, d)
      <3>1. call.fn \in AtIndex
        BY <2>1 DEF AtIndex
      <3> QED BY <3>1, OnwardIs DEF ListInv
    <2>3. call.pc # "stopped" /\ call.fn # "get_or_else"
      BY <2>1
    <2> QED BY <2>1, <2>2, <2>3, ListGoesOn, ListReturns
  <1> QED BY <1>1, <1>2, <1>3, <1>4

(* Functions that release an element they did not retain.                  *)
LEMMA ListSteals ==
    ASSUME ListInv, List!zip_transform \/ List!zip_with_next_transform \/ List!flat_map_indexed
    PROVE  ListInv'
  <1>1. /\ call.pc = "returned" /\ call.fn # "get_or_else" /\ List!Steals
    BY DEF List!zip_transform, List!zip_with_next_transform, List!flat_map_indexed, List!After, List!At
  <1>2. CASE unboxed
    <2>1. PICK h, x, d : /\ List!Goes(h, d) /\ past \subseteq past'
                         /\ d = [call EXCEPT !.out = Append(@, x)]
      BY <1>1, <1>2 DEF List!Steals, List!AddResult, List!Exactly, List!Miscounts, List!Records
    <2>2. Onward(call, d)
      BY <2>1, OnwardIs DEF ListInv
    <2> QED BY <1>1, <2>1, <2>2, ListGoesOn
  <1>3. CASE ~unboxed
    <2>1. /\ UNCHANGED <<unboxed, held, capacity, charged, second>> /\ call' = List!Stopped
          /\ past \subseteq past'
      BY <1>1, <1>3 DEF List!Steals, List!Undefined, List!Records, List!dataVars
    <2> QED BY <1>1, <2>1, ListEnds DEF ListInv
  <1> QED BY <1>2, <1>3

(* drop_while returns the rest of the list.                                *)
LEMMA ListDropWhile ==
    ASSUME ListInv, List!drop_while
    PROVE  ListInv'
  <1>1. /\ call.pc = "returned" /\ call.fn = "drop_while" /\ past \subseteq past'
        /\ \/ \E h : List!Goes(h, call)
           \/ \E h : List!ReturnList(h, List!Slice(held, call.i - 1, Len(held)))
    BY DEF List!drop_while, List!After, List!At, List!NextOne, List!Exactly, List!Miscounts, List!Records
  <1>2. CASE \E h : List!Goes(h, call)
    <2>1. Onward(call, call)
      BY OnwardIs DEF ListInv
    <2> QED BY <1>1, <1>2, <2>1, ListGoesOn
  <1>3. CASE \E h : List!ReturnList(h, List!Slice(held, call.i - 1, Len(held)))
    <2>1. PICK s : s = List!Slice(held, call.i - 1, Len(held))
      OBVIOUS
    <2>2. IsSeq(held) /\ call.i - 1 \in Int /\ Len(held) \in Int
      BY SeqHas DEF ListInv, ListCall
    <2>3. IsSeq(s)
      BY <2>1, <2>2, SliceIs
    <2> QED BY <1>1, <1>3, <2>1, <2>3, ListReturns
  <1> QED BY <1>1, <1>2, <1>3

(* Functions that add to a list the program has.                           *)
LEMMA ListAppends ==
    ASSUME ListInv, List!filter_to \/ List!map_to
    PROVE  ListInv'
  <1>1. PICK c, d : c = call /\ d = call'
    OBVIOUS
  <1>2. /\ UNCHANGED <<unboxed, held, capacity, charged>> /\ past \subseteq past'
        /\ c.pc = "returned" /\ c.fn \in {"filter_to", "map_to"}
        /\ (second' = second) \/ (\E x : second' = Append(second, x))
        /\ \/ d = [c EXCEPT !.pc = "loop", !.item = Nothing, !.yes = FALSE, !.i = @ + 1]
           \/ d = [c EXCEPT !.pc = "loop", !.item = Nothing, !.res = Nothing, !.i = @ + 1]
    BY <1>1 DEF List!filter_to, List!map_to, List!After, List!At, List!Exactly, List!Miscounts, List!Records
  <1>3. CallShape(c) /\ IsSeq(c.out) /\ ListCall(held, second, c) /\ IsSeq(second)
    BY <1>1 DEF ListInv
  <1>4. /\ CallShape(d) /\ d.pc = "loop" /\ d.fn = c.fn /\ d.n = c.n /\ d.at = c.at /\ d.out = c.out
        /\ d.i = c.i + 1 /\ d.moved = c.moved
    BY <1>2, <1>3 DEF CallShape
  <1>5. /\ c.fn \notin List!Backward /\ c.fn \notin AtIndex /\ c.fn \notin Bounded
        /\ c.fn \notin List!HaveRoom /\ c.fn # "get_or_else" /\ c.fn # "none"
        /\ c.fn # "zip_transform" /\ c.fn # "zip_with_next_transform"
    BY <1>2 DEF AtIndex, List!Backward, Bounded, List!Sorting, List!HaveRoom
  <1>6. c.i \in Nat /\ c.n \in Nat /\ c.at = 0
    BY <1>3, <1>5 DEF ListCall
  <1>7. ListCall(held, second', d)
    BY <1>4, <1>5, <1>6 DEF ListCall, Placed, Roomy
  <1>8. IsSeq(second')
    <2>1. ASSUME NEW x, second' = Append(second, x) PROVE IsSeq(second')
      BY <1>3, <2>1, AppendIs
    <2> QED BY <1>2, <1>3, <2>1
  <1> QED BY <1>1, <1>2, <1>3, <1>4, <1>7, <1>8, ListCallStep

(* The one function that takes elements out of the list it walks.          *)
LEMMA ListRemoveAll ==
    ASSUME ListInv, List!remove_all_fn
    PROVE  ListInv'
  <1>1. /\ call.pc = "returned" /\ call.fn = "remove_all_fn" /\ past \subseteq past'
        /\ \/ \E h : List!Stop(h)
           \/ \E h : List!Goes(h, call)
           \/ \E h, d : List!Goes(h, d) /\ d = [call EXCEPT !.at = call.i]
           \/ /\ call.at = 0 /\ call.i \in DOMAIN held /\ held' = List!RemoveAt(held, call.i)
              /\ capacity' = List!AfterRemove(Len(held) - 1)
              /\ charged' = List!Counter(charged + (capacity' - capacity))
              /\ call' = [call EXCEPT !.pc = "loop", !.item = Nothing, !.yes = FALSE, !.i = @ - 1]
              /\ unboxed' = unboxed /\ second' = second
    BY DEF List!remove_all_fn, List!After, List!At, List!NextOne, List!Exactly, List!Miscounts,
       List!Records, List!Charge
  <1>2. CASE \E h : List!Stop(h)
    BY <1>1, <1>2, ListReturns
  <1>3. CASE (\E h : List!Goes(h, call)) \/ \E h, d : List!Goes(h, d) /\ d = [call EXCEPT !.at = call.i]
    <2>1. call.fn \in AtIndex /\ call.fn # "get_or_else"
      BY <1>1 DEF AtIndex
    <2>2. Onward(call, call) /\ \A d : d = [call EXCEPT !.at = call.i] => Onward(call, d)
      BY <2>1, OnwardIs DEF ListInv
    <2>3. \E h, d : List!Goes(h, d) /\ Onward(call, d)
      BY <1>3, <2>2
    <2> QED BY <1>1, <2>1, <2>3, ListGoesOn
  <1>4. CASE /\ call.at = 0 /\ call.i \in DOMAIN held /\ held' = List!RemoveAt(held, call.i)
             /\ capacity' = List!AfterRemove(Len(held) - 1)
             /\ charged' = List!Counter(charged + (capacity' - capacity))
             /\ call' = [call EXCEPT !.pc = "loop", !.item = Nothing, !.yes = FALSE, !.i = @ - 1]
             /\ unboxed' = unboxed /\ second' = second
    <2>1. PICK c, d : c = call /\ d = call'
      OBVIOUS
    <2>2. /\ capacity' = List!AfterRemove(Len(held) - 1)
          /\ charged' = List!Counter(charged + (capacity' - capacity))
          /\ d = [c EXCEPT !.pc = "loop", !.item = Nothing, !.yes = FALSE, !.i = @ - 1]
          /\ unboxed' = unboxed /\ second' = second
      BY <1>4, <2>1
    <2>3. /\ CallShape(c) /\ IsSeq(c.out) /\ ListCall(held, second, c)
          /\ IsSeq(second) /\ IsSeq(held) /\ capacity \in Nat /\ charged \in Nat
          /\ Len(held) <= capacity /\ unboxed \in BOOLEAN
          /\ "drift" \notin past /\ c.pc # "stopped" => charged = capacity
      BY <2>1 DEF ListInv, List!ChargeIsCapacity
    <2>4. /\ CallShape(d) /\ d.pc = "loop" /\ d.fn = c.fn /\ d.n = c.n /\ d.at = c.at
          /\ d.out = c.out /\ d.i = c.i - 1 /\ d.moved = c.moved
      BY <2>2, <2>3 DEF CallShape
    <2>5. /\ c.fn = "remove_all_fn" /\ c.fn \in List!Backward /\ c.fn \notin Bounded
          /\ c.fn \notin List!HaveRoom /\ c.pc = "returned"
      BY <1>1, <2>1 DEF List!Backward, Bounded, List!Sorting, List!HaveRoom
    <2>6. c.i \in DOMAIN held /\ c.at = 0 /\ c.n \in Nat
      BY <1>4, <2>1, <2>3 DEF ListCall
    <2>7. IsSeq(held') /\ Len(held') = Len(held) - 1
      BY <1>4, <2>1, <2>3, <2>6, RemoveAtIs
    <2>8. PICK n : n = Len(held) - 1
      OBVIOUS
    <2>9. n \in Nat /\ n <= capacity /\ c.i \in 1 .. n + 1
      <3>1. DOMAIN held = 1 .. Len(held) /\ Len(held) \in Nat
        BY <2>3, SeqHas
      <3> QED BY <2>3, <2>6, <2>8, <3>1
    <2>10. List!AfterRemove(n) \in Nat /\ n <= List!AfterRemove(n)
      BY <2>9, ListRooms
    <2>11. capacity' \in Nat /\ Len(held') <= capacity'
      BY <2>2, <2>7, <2>8, <2>10
    <2>12. charged' \in Nat /\ (charged = capacity => charged' = capacity')
      <3>1. PICK k, m : k = capacity' /\ m = charged + (k - capacity)
        OBVIOUS
      <3>2. k \in Nat /\ charged \in Nat /\ capacity \in Nat
        BY <2>3, <2>11, <3>1
      <3>3. m \in Int
        BY <3>1, <3>2
      <3>5. charged + (k - capacity) \in Int /\ (charged = capacity => charged + (k - capacity) = k)
        BY <3>2
      <3>6. charged = capacity => m = k
        BY <3>1, <3>5
      <3>4. charged' = List!Counter(m)
        BY <2>2, <3>1
      <3> QED BY <3>1, <3>2, <3>3, <3>4, <3>6, ListCounts
    <2>13. d.i \in Nat /\ d.i <= Len(held')
      BY <2>4, <2>7, <2>8, <2>9
    <2>16. Placed(held', d) /\ Roomy(held', d)
      BY <2>4, <2>5, <2>6, <2>13 DEF Placed, Roomy
    <2>14. ListCall(held', second', d)
      BY <2>4, <2>5, <2>6, <2>13, <2>16 DEF ListCall
    <2>15. List!ChargeIsCapacity'
      BY <1>1, <2>2, <2>3, <2>5, <2>11, <2>12 DEF List!ChargeIsCapacity
    <2> QED BY <2>1, <2>2, <2>3, <2>4, <2>7, <2>11, <2>12, <2>14, <2>15 DEF ListInv
  <1> QED BY <1>1, <1>2, <1>3, <1>4

(* Whatever a function does with an answer.                                *)
LEMMA ListAnswered ==
    ASSUME ListInv, List!Answered
    PROVE  ListInv'
  BY ListLooks, ListCollects, ListFolds, ListSteals, ListDropWhile, ListAppends, ListRemoveAll
  DEF List!Answered

(* The loop is over.                                                       *)
LEMMA ListEnded ==
    ASSUME ListInv, List!Ended
    PROVE  ListInv'
  <1>0. IsSeq(call.out) /\ IsSeq(<<>>) /\ IsSeq(held)
    BY EmptyIsSeq DEF ListInv
  <1>1. CASE List!EndWithList \/ List!EndWithRest \/ List!EndWithRunning
    <2>1. PICK s : /\ call.pc = "loop" /\ past \subseteq past'
                   /\ s = call.out \/ s = List!Slice(held, call.n, Len(held))
                   /\ \E h : List!ReturnList(h, s)
      BY <1>1 DEF List!EndWithList, List!EndWithRest, List!EndWithRunning, List!Ends, List!At,
         List!Exactly, List!Miscounts, List!Records
    <2>2. IsSeq(s)
      <3>1. call.n \in Int /\ Len(held) \in Int
        BY SeqHas DEF ListInv, ListCall
      <3> QED BY <1>0, <2>1, <3>1, SliceIs
    <2> QED BY <2>1, <2>2, ListReturns
  <1>2. CASE List!EndWithOther \/ List!EndWithNull \/ List!EndWithValue \/ List!EndWithFolded
    <2>1. PICK h : /\ call.pc = "loop" /\ past \subseteq past'
                   /\ List!Stop(h) \/ \E o : List!Return(h, o)
      BY <1>2 DEF List!EndWithOther, List!EndWithNull, List!EndWithValue, List!EndWithFolded,
         List!Ends, List!At, List!Exactly, List!Miscounts, List!Records
    <2> QED BY <2>1, ListReturns
  <1>3. CASE List!EndWithMatch \/ List!EndWithBest \/ List!EndWithLargest
    <2>1. PICK h : /\ call.pc = "loop" /\ past \subseteq past'
                   /\ \/ List!Stop(h) \/ List!StopStolen(h) \/ (\E o : List!Return(h, o))
                      \/ List!UsesStale
      <3>1. CASE List!EndWithMatch
        BY <3>1 DEF List!EndWithMatch, List!ReturnElement, List!Ends, List!At, List!Exactly,
           List!Miscounts, List!Records, List!UsesStale, List!Undefined
      <3>2. CASE List!EndWithBest
        BY <3>2 DEF List!EndWithBest, List!ReturnElement, List!Ends, List!At, List!Exactly,
           List!Miscounts, List!Records, List!UsesStale, List!Undefined
      <3>3. CASE List!EndWithLargest
        BY <3>3 DEF List!EndWithLargest, List!StopStolen, List!Ends, List!At, List!Exactly,
           List!Miscounts, List!Records, List!Undefined
      <3> QED BY <1>3, <3>1, <3>2, <3>3
    <2>2. call.pc # "stopped"
      BY <2>1
    <2> QED BY <2>1, <2>2, ListReturns
  <1>4. CASE List!EndWithOrder
    <2>1. PICK s : s = List!Take(held, call.n)
      OBVIOUS
    <2>2. IsSeq(s)
      <3>1. call.n \in Int
        BY DEF ListInv, ListCall
      <3> QED BY <1>0, <2>1, <3>1, PartsAre
    <2>3. /\ call.pc = "loop" /\ past \subseteq past'
          /\ \/ List!UsesStale \/ \E h : List!StopStolen(h)
             \/ \E q \in List!Orders(s) : \E h : List!ReturnList(h, q)
      BY <1>4, <2>1 DEF List!EndWithOrder, List!StopStolen, List!UsesStale, List!Undefined, List!Ends,
         List!At, List!Exactly, List!Miscounts, List!Records
    <2>4. ASSUME NEW h, List!StopStolen(h) \/ List!UsesStale PROVE ListInv'
      BY <2>3, <2>4, ListReturns
    <2>5. ASSUME NEW q \in List!Orders(s), \E h : List!ReturnList(h, q) PROVE ListInv'
      <3>1. IsSeq(q)
        BY <2>2, OrdersAre
      <3> QED BY <2>3, <2>5, <3>1, ListReturns
    <2> QED BY <2>3, <2>4, <2>5
  <1> QED BY <1>1, <1>2, <1>3, <1>4 DEF List!Ended

(* Every step of a program with lists keeps the invariant.                 *)
LEMMA ListNext ==
    ASSUME ListInv, List!Next
    PROVE  ListInv'
  BY ListBegin, ListBeginFold, ListBeginDefault, ListScript, ListOutOfObjects, ListAnswered,
     ListEnded, ListDirect DEF List!Next

(***************************************************************************)
(* The three collections.                                                  *)
(***************************************************************************)
(* For maps and sets, whatever lists do.                                   *)
KeyInv ==
    /\ kind \in {"list", "map", "set"}
    /\ kind = "map" => MapInv
    /\ kind = "set" => SetInv

(* And for lists.                                                          *)
SizeInv == KeyInv /\ (kind = "list" => ListInv)

(* The invariant of maps and sets holds at first.                          *)
LEMMA KeyInit == Init => KeyInv
  BY MapInit, SetInit DEF Init, KeyInv

(* And over every step, whatever the program's collection is.              *)
LEMMA KeyNext ==
    ASSUME KeyInv, [Next]_collectionVars
    PROVE  KeyInv'
  <1>1. CASE kind = "list" /\ List!Next /\ UNCHANGED kind
    BY <1>1 DEF KeyInv
  <1>2. CASE kind = "map" /\ Map!Next /\ UNCHANGED <<kind, capacity>>
    BY <1>2, MapNext DEF KeyInv
  <1>3. CASE kind = "set" /\ Set!Next /\ UNCHANGED <<kind, capacity>>
    BY <1>3, SetNext DEF KeyInv
  <1>4. CASE UNCHANGED collectionVars
    BY <1>4, MapSame, SetSame DEF KeyInv, collectionVars
  <1> QED BY <1>1, <1>2, <1>3, <1>4 DEF Next

(* The names it tells apart are keys and elements.                         *)
LEMMA KeyInvKeys == KeyInv => KeysDiffer
  <1> SUFFICES ASSUME KeyInv PROVE KeysDiffer
    OBVIOUS
  <1>1. ASSUME kind = "map" PROVE Map!KeysDiffer
    <2>1. SUFFICES ASSUME NEW s \in {held, second, call.out}, NEW m \in DOMAIN s, NEW n \in DOMAIN s,
                          m # n
                   PROVE  Map!KeyContent(s[m]) # Map!KeyContent(s[n])
      BY DEF Map!KeysDiffer
    <2>2. Unique("map", unboxed, s)
      BY <1>1 DEF KeyInv, MapInv
    <2>3. Name("map", unboxed, s[m]) # Name("map", unboxed, s[n])
      BY <2>1, <2>2 DEF Unique
    <2> QED BY <2>3 DEF Name, Map!KeyContent, Map!Content
  <1>2. ASSUME kind = "set" PROVE Set!ElementsDiffer
    <2>1. SUFFICES ASSUME NEW s \in {held, second, call.out}, NEW m \in DOMAIN s, NEW n \in DOMAIN s,
                          m # n
                   PROVE  Set!ContentOf(s[m]) # Set!ContentOf(s[n])
      BY DEF Set!ElementsDiffer
    <2>2. Unique("set", unboxed, s)
      BY <1>2 DEF KeyInv, SetInv
    <2>3. Name("set", unboxed, s[m]) # Name("set", unboxed, s[n])
      BY <2>1, <2>2 DEF Unique
    <2> QED BY <2>3 DEF Name, Set!ContentOf, Set!Content
  <1> QED BY <1>1, <1>2 DEF KeysDiffer

(* A map has a key once and a set an element once: after functions that    *)
(* merge two of them, rename keys, or fill the hole of a removed entry     *)
(* (map.cpp, set.cpp), and while a native loop waits for a callback that   *)
(* uses the collection.                                                    *)
THEOREM KeysAlwaysDiffer == Spec => []KeysDiffer
  <1>1. KeyInv /\ [Next]_collectionVars => KeyInv'
    BY KeyNext
  <1> QED BY <1>1, KeyInit, KeyInvKeys, PTL DEF Spec

(* With the lists.                                                         *)
LEMMA SizeInit == Init => SizeInv
  BY KeyInit, ListInit DEF Init, SizeInv

(* And over every step.                                                    *)
LEMMA SizeNext ==
    ASSUME SizeInv, [Next]_collectionVars
    PROVE  SizeInv'
  <1>1. KeyInv'
    BY KeyNext DEF SizeInv
  <1>2. CASE kind = "list" /\ List!Next /\ UNCHANGED kind
    BY <1>1, <1>2, ListNext DEF SizeInv
  <1>3. CASE kind' = kind /\ kind # "list"
    BY <1>1, <1>3 DEF SizeInv
  <1>4. CASE UNCHANGED collectionVars
    BY <1>1, <1>4, ListSame DEF SizeInv, collectionVars
  <1> QED BY <1>2, <1>3, <1>4 DEF Next

(* What no function writes here but one that uses a stale index.           *)
Fresh == "stale" \in past' => "stale" \in past

(* A function without a callback uses none.                                *)
LEMMA DirectFresh ==
    ASSUME List!Direct
    PROVE  Fresh
  <1>1. CASE List!Changes
    BY <1>1 DEF List!Changes, List!add, List!insert, List!unshift, List!reserve, List!set, List!get,
       List!remove, List!remove_element, List!Handed, List!remove_at, List!shift, List!pop, List!clear,
       List!reverse, List!OutOfMemory, List!Resized, List!Miscounts, List!Records, List!Unless, Fresh
  <1>2. CASE List!NewLists
    BY <1>2 DEF List!NewLists, List!clone, List!reversed, List!plus, List!plus_element, List!minus,
       List!minus_element, List!distinct, List!filter_not_null, List!sorted, List!shuffled,
       List!sort_default, List!take, List!drop, List!take_last, List!drop_last, List!step, List!slice,
       List!LeavesBoxes, List!Exactly, List!Miscounts, List!Records, List!Unless, Fresh
  <1>3. CASE List!add_all \/ List!remove_all \/ List!retain_all \/ List!contains_all
             \/ List!UseOther \/ List!Restart
    <2>1. CASE List!add_all
      BY <2>1 DEF List!add_all, List!Miscounts, List!Records, List!Unless, Fresh
    <2>2. CASE List!remove_all \/ List!retain_all
      <3>1. PICK wanted : List!KeepOnly(wanted)
        BY <2>2 DEF List!remove_all, List!retain_all
      <3>2. \E how \in SUBSET {"leak", "steal"} : past' = past \cup how
        BY <3>1 DEF List!KeepOnly, List!Miscounts, List!Records, List!Unless
      <3> QED BY <3>2 DEF Fresh
    <2>3. CASE List!contains_all
      <3>1. PICK s : List!Borrowed(s)
        BY <2>3 DEF List!contains_all
      <3> QED BY <3>1 DEF List!Borrowed, List!Miscounts, List!Records, Fresh
    <2>4. CASE List!UseOther \/ List!Restart
      BY <2>4 DEF List!UseOther, List!Restart, List!BegunAgain, List!Miscounts, List!Records,
         List!Unless, Fresh
    <2> QED BY <1>3, <2>1, <2>2, <2>3, <2>4
  <1>4. CASE ((\E v \in ListContents : List!NewObject(v)) \/ List!Forget) /\ UNCHANGED List!dataVars
    BY <1>4 DEF List!NewObject, List!Forget, Fresh
  <1> QED BY <1>1, <1>2, <1>3, <1>4 DEF List!Direct

(* Nor does the start of one, or a callback.                               *)
LEMMA ScriptFresh ==
    ASSUME \/ \E fn \in List!Functions : List!Begin(fn) \/ List!BeginFold(fn)
           \/ List!BeginDefault \/ List!Invoke \/ List!InvokeWithNone \/ List!OutOfObjects
           \/ List!Script
    PROVE  Fresh
  <1>1. CASE \/ \E fn \in List!Functions : List!Begin(fn) \/ List!BeginFold(fn)
             \/ List!BeginDefault \/ List!Invoke \/ List!InvokeWithNone \/ List!OutOfObjects
    <2>1. past' = past
      BY <1>1 DEF List!Begin, List!BeginFold, List!BeginDefault, List!Invoke, List!InvokeWithNone,
         List!OutOfObjects
    <2> QED BY <2>1 DEF Fresh
  <1>2. CASE List!ScriptAnswers \/ List!ScriptReturns \/ List!ScriptEnds
    <2>1. past' = past
      BY <1>2 DEF List!ScriptAnswers, List!ScriptReturns, List!ScriptEnds
    <2> QED BY <2>1 DEF Fresh
  <1>3. CASE List!ScriptRaises
    BY <1>3 DEF List!ScriptRaises, List!Abandoned, List!Undefined, List!Records, Fresh
  <1> QED BY <1>1, <1>2, <1>3 DEF List!Script

(* What a function does with an answer: it uses none unless it is one of   *)
(* four, at an index that a callback may have taken from it.               *)
LEMMA AnsweredFresh ==
    ASSUME List!Answered
    PROVE  \/ Fresh
           \/ /\ call.pc = "returned"
              /\ \/ call.fn \in {"first_fn", "last_fn"} /\ call.i \notin DOMAIN held
                 \/ call.fn \in List!HaveRoom /\ call.i > call.n
  <1>1. CASE \/ List!for_each \/ List!on_each \/ List!count_fn \/ List!any_fn \/ List!all_fn
             \/ List!index_of_first \/ List!index_of_last \/ List!sorted_with
             \/ List!find \/ List!find_last \/ List!first_not_null_of \/ List!get_or_else
             \/ List!sum_of \/ List!join_to_string
    BY <1>1 DEF List!for_each, List!on_each, List!count_fn, List!any_fn, List!all_fn,
       List!index_of_first, List!index_of_last, List!sorted_with, List!find, List!find_last,
       List!first_not_null_of, List!get_or_else, List!sum_of, List!join_to_string,
       List!NextOne, List!Exactly, List!Miscounts, List!Records, Fresh
  <1>2. CASE \/ List!filter \/ List!filter_not \/ List!partition \/ List!take_while
             \/ List!distinct_by \/ List!map \/ List!chunked_transform \/ List!map_not_null
             \/ List!flat_map \/ List!max_of \/ List!drop_while \/ List!filter_to \/ List!map_to
    BY <1>2 DEF List!filter, List!filter_not, List!partition, List!take_while, List!distinct_by,
       List!map, List!chunked_transform, List!map_not_null, List!flat_map, List!max_of,
       List!drop_while, List!filter_to, List!map_to, List!Collect, List!UsesFreed, List!Undefined,
       List!NextOne, List!Exactly, List!Miscounts, List!Records, Fresh
  <1>3. CASE \/ List!reduce \/ List!fold \/ List!running_fold \/ List!running_reduce
             \/ List!min_by_or_null \/ List!single_fn \/ List!single_or_null_fn
             \/ List!remove_all_fn \/ List!zip_transform \/ List!zip_with_next_transform
             \/ List!flat_map_indexed
    BY <1>3 DEF List!reduce, List!fold, List!running_fold, List!running_reduce, List!min_by_or_null,
       List!single_fn, List!single_or_null_fn, List!remove_all_fn, List!zip_transform,
       List!zip_with_next_transform, List!flat_map_indexed, List!Steals, List!Undefined,
       List!NextOne, List!Exactly, List!Miscounts, List!Records, Fresh
  <1>4. CASE List!first_fn \/ List!last_fn
    BY <1>4 DEF List!first_fn, List!last_fn, List!ReturnElement, List!After, List!At,
       List!NextOne, List!Exactly, List!Miscounts, List!Records, Fresh
  <1>5. CASE List!sorted_by \/ List!then_by
    BY <1>5 DEF List!sorted_by, List!then_by, List!After, List!At, List!HaveRoom,
       List!Exactly, List!Miscounts, List!Records, Fresh
  <1> QED BY <1>1, <1>2, <1>3, <1>4, <1>5 DEF List!Answered

(* And at the end of the loop.                                             *)
LEMMA EndedFresh ==
    ASSUME List!Ended
    PROVE  \/ Fresh
           \/ call.fn \in AtIndex \cap List!MayLosePlace /\ call.at # 0 /\ call.at \notin DOMAIN held
           \/ call.fn \in List!Sorting /\ call.n > Len(held)
  <1>1. CASE \/ List!EndWithList \/ List!EndWithRest \/ List!EndWithOther \/ List!EndWithNull
             \/ List!EndWithValue \/ List!EndWithFolded \/ List!EndWithRunning
    BY <1>1 DEF List!EndWithList, List!EndWithRest, List!EndWithOther, List!EndWithNull,
       List!EndWithValue, List!EndWithFolded, List!EndWithRunning, List!Unless,
       List!Exactly, List!Miscounts, List!Records, Fresh
  <1>2. CASE List!EndWithLargest
    BY <1>2 DEF List!EndWithLargest, List!StopStolen, List!Undefined, List!Exactly, List!Miscounts,
       List!Records, Fresh
  <1>3. CASE List!EndWithMatch \/ List!EndWithBest
    BY <1>3 DEF List!EndWithMatch, List!EndWithBest, List!ReturnElement, List!Ends, AtIndex,
       List!MayLosePlace, List!Exactly, List!Miscounts, List!Records, Fresh
  <1>4. CASE List!EndWithOrder
    BY <1>4 DEF List!EndWithOrder, List!StopStolen, List!Undefined, List!Ends,
       List!Exactly, List!Miscounts, List!Records, Fresh
  <1> QED BY <1>1, <1>2, <1>3, <1>4 DEF List!Ended

(* The test of a loop passes and the element is not there: a callback has  *)
(* shortened the list under a loop that does not look at its size again.   *)
LEMMA OutsideMoved ==
    ASSUME ListInv, List!InvokeOutside
    PROVE  "shrunk" \in call.moved /\ call.fn \in List!MayLosePlace
  <1>1. PICK c, m : c = call /\ m = Len(held)
    OBVIOUS
  <1>2. /\ ListCall(held, second, c) /\ c.i \in Nat /\ c.n \in Nat
        /\ m \in Nat /\ DOMAIN held = 1 .. m /\ (held = <<>> <=> m = 0)
        /\ DOMAIN second = 1 .. Len(second) /\ Len(second) \in Nat
    BY <1>1, SeqHas DEF ListInv, ListCall
  <1>3. /\ c.pc = "loop" /\ List!InLoop /\ c.fn # "chunked_transform" /\ ~List!Inside
        /\ c.fn # "get_or_else" /\ c.fn # "none"
    BY <1>1, <1>2 DEF List!InvokeOutside, List!At, ListCall
  <1>4. c.fn \notin List!Backward => c.i # 0
    BY <1>2, <1>3 DEF ListCall
  <1>5. "shrunk" \notin c.moved => Placed(held, c)
    BY <1>2 DEF ListCall
  <1>6. CASE c.fn \in List!Backward
    <2>1. c.fn # "zip_transform" /\ c.fn # "zip_with_next_transform" /\ c.fn \in List!MayLosePlace
      BY <1>6 DEF List!Backward, List!MayLosePlace
    <2>4. c.fn \notin List!FixedLength
      BY <1>6 DEF List!Backward, List!FixedLength
    <2>5. c.i >= 1
      BY <1>1, <1>3, <1>6, <2>1, <2>4 DEF List!InLoop
    <2>2. c.i >= 1 /\ c.i \notin DOMAIN held
      BY <1>1, <1>3, <2>1, <2>5 DEF List!Inside
    <2>3. ~Placed(held, c)
      BY <1>1, <1>2, <1>6, <2>2 DEF Placed
    <2> QED BY <1>1, <1>5, <2>1, <2>3
  <1>7. CASE c.fn \in List!FixedLength /\ c.fn \notin List!Backward
    <2>1. c.fn \in Bounded /\ c.fn \in List!MayLosePlace /\ c.fn # "zip_with_next_transform"
      BY <1>3, <1>7 DEF List!FixedLength, Bounded, List!Sorting, List!MayLosePlace
    <2>2. c.i <= c.n
      BY <1>1, <1>3, <1>7, <2>1 DEF List!InLoop
    <2>3. c.fn = "zip_transform" => c.n <= Len(second)
      BY <1>2 DEF ListCall
    <2>4. c.fn = "zip_transform" => c.i \in DOMAIN second
      BY <1>2, <1>4, <1>7, <2>2, <2>3
    <2>5. c.i \notin DOMAIN held
      BY <1>1, <1>3, <2>1, <2>4 DEF List!Inside
    <2>6. ~(c.n <= m)
      BY <1>2, <1>4, <1>7, <2>2, <2>5
    <2>7. ~Placed(held, c)
      BY <1>1, <2>1, <2>6 DEF Placed
    <2> QED BY <1>1, <1>5, <2>1, <2>7
  <1>8. CASE c.fn = "zip_with_next_transform"
    <2>1. c.fn \notin List!Backward /\ c.fn \notin List!FixedLength /\ c.fn \in List!MayLosePlace
      BY <1>8 DEF List!Backward, List!FixedLength, List!MayLosePlace
    <2>2. held = <<>> \/ c.i < m
      BY <1>1, <1>3, <1>8, <2>1 DEF List!InLoop
    <2>3. c.i < m => c.i \in DOMAIN held /\ c.i + 1 \in DOMAIN held
      BY <1>2, <1>4, <2>1
    <2>4. held = <<>>
      BY <1>1, <1>3, <1>8, <2>2, <2>3 DEF List!Inside
    <2>5. ~Placed(held, c)
      BY <1>8, <2>4 DEF Placed
    <2> QED BY <1>1, <1>5, <2>1, <2>5
  <1>9. CASE c.fn \notin List!Backward \cup List!FixedLength \cup {"zip_with_next_transform"}
    <2>1. c.i <= m /\ c.fn # "zip_transform"
      BY <1>1, <1>3, <1>9 DEF List!InLoop, List!FixedLength
    <2>2. c.i \in DOMAIN held
      BY <1>2, <1>4, <1>9, <2>1
    <2> QED BY <1>1, <1>3, <1>9, <2>1, <2>2 DEF List!Inside
  <1> QED BY <1>6, <1>7, <1>8, <1>9

(* So a stale index means a callback that moved the list.                  *)
LEMMA ListStale ==
    ASSUME ListInv, List!Next
    PROVE  List!StaleOnlyIfMoved
  <1>0. Fresh => List!StaleOnlyIfMoved
    BY DEF Fresh, List!StaleOnlyIfMoved
  <1>1. PICK c : c = call
    OBVIOUS
  <1>2. ListCall(held, second, c) /\ c.i \in Nat /\ c.n \in Nat /\ Len(held) \in Nat
    BY <1>1, SeqHas DEF ListInv, ListCall
  <1>3. CASE List!InvokeOutside
    BY <1>3, OutsideMoved DEF List!StaleOnlyIfMoved
  <1>4. CASE List!Answered
    <2>1. CASE c.pc = "returned" /\ c.fn \in {"first_fn", "last_fn"} /\ c.i \notin DOMAIN held
      <3>1. c.fn \notin Blind /\ c.fn \in List!MayLosePlace
        BY <2>1 DEF Blind, List!MayLosePlace, List!Backward
      <3>2. ~Placed(held, c)
        BY <2>1, <3>1 DEF Placed
      <3> QED BY <1>1, <1>2, <3>1, <3>2 DEF ListCall, List!StaleOnlyIfMoved
    <2>2. CASE c.pc = "returned" /\ c.fn \in List!HaveRoom /\ c.i > c.n
      <3>1. ~Roomy(held, c)
        BY <1>2, <2>2 DEF Roomy
      <3> QED BY <1>1, <1>2, <2>2, <3>1 DEF ListCall, List!StaleOnlyIfMoved
    <2> QED BY <1>0, <1>1, <1>4, <2>1, <2>2, AnsweredFresh
  <1>5. CASE List!Ended
    <2>1. CASE c.fn \in AtIndex \cap List!MayLosePlace /\ c.at # 0 /\ c.at \notin DOMAIN held
      <3>1. ~Placed(held, c)
        BY <2>1 DEF Placed
      <3> QED BY <1>1, <1>2, <2>1, <3>1 DEF ListCall, List!StaleOnlyIfMoved
    <2>2. CASE c.fn \in List!Sorting /\ c.n > Len(held)
      <3>1. ~Placed(held, c)
        BY <1>2, <2>2 DEF Placed, Bounded
      <3> QED BY <1>1, <1>2, <2>2, <3>1 DEF ListCall, List!StaleOnlyIfMoved, List!MayLosePlace
    <2> QED BY <1>0, <1>1, <1>5, <2>1, <2>2, EndedFresh
  <1>6. CASE List!Direct
    BY <1>0, <1>6, DirectFresh
  <1>7. CASE \/ \E fn \in List!Functions : List!Begin(fn) \/ List!BeginFold(fn)
             \/ List!BeginDefault \/ List!Invoke \/ List!InvokeWithNone \/ List!OutOfObjects
             \/ List!Script
    BY <1>0, <1>7, ScriptFresh
  <1> QED BY <1>3, <1>4, <1>5, <1>6, <1>7 DEF List!Next

(* The invariant has the charge.                                           *)
LEMMA SizeInvCharge == SizeInv => ChargeIsExact
  BY DEF SizeInv, KeyInv, ListInv, MapInv, SetInv, ChargeIsExact

(* The memory counter is what the collections there are were charged for,  *)
(* until a function changes a size without a charge, and a list is inside  *)
(* its storage (array.cpp, map.cpp, set.cpp): for any sequence of their    *)
(* functions, and whatever the callbacks do.                               *)
THEOREM ChargeAlwaysExact == Spec => []ChargeIsExact
  <1>1. SizeInv /\ [Next]_collectionVars => SizeInv'
    BY SizeNext
  <1> QED BY <1>1, SizeInit, SizeInvCharge, PTL DEF Spec

(* Whatever the callbacks do, a native function of a list uses an index or *)
(* a size the list does not have only if it is one of those that keep one  *)
(* across a callback, and only if a callback of this same call has made    *)
(* the list shorter (or longer, for the sorts that have room for as many   *)
(* answers as there were elements): array.cpp.                             *)
THEOREM StaleOnlyAfterMove == Spec => StaleOnlyIfMoved
  <1>1. SizeInv /\ [Next]_collectionVars => SizeInv'
    BY SizeNext
  <1>2. SizeInv /\ [Next]_collectionVars =>
           [kind = "list" => List!StaleOnlyIfMoved]_collectionVars
    <2> SUFFICES ASSUME SizeInv, Next, kind = "list" PROVE List!StaleOnlyIfMoved
      OBVIOUS
    <2>1. ListInv /\ List!Next
      BY DEF SizeInv, Next
    <2> QED BY <2>1, ListStale
  <1> QED BY <1>1, <1>2, SizeInit, PTL DEF Spec, StaleOnlyIfMoved

==============================================================================
