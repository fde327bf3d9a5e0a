--------------------------- MODULE ListAlgorithms ---------------------------
(***************************************************************************)
(* What functions of src/backend/libs/array.cpp compute, as operators on   *)
(* the elements of a list.                                                 *)
(***************************************************************************)
EXTENDS Integers, SequencesExt

Least(a, b) == IF a < b THEN a ELSE b
FromEnd(s, i) == IF i < 0 THEN i + Len(s) ELSE i

Slice(s, from, to) ==
    LET first == IF FromEnd(s, from) < 0 THEN 0 ELSE FromEnd(s, from)
        last == Least(FromEnd(s, to), Len(s)) IN
    IF first >= last THEN <<>> ELSE SubSeq(s, first + 1, last)

Take(s, n) == IF n <= 0 THEN <<>> ELSE SubSeq(s, 1, Least(n, Len(s)))
Drop(s, n) == IF n <= 0 THEN s ELSE SubSeq(s, n + 1, Len(s))

TakeLast(s, n) ==
    IF n <= 0 THEN <<>>
    ELSE IF n >= Len(s) THEN s
    ELSE Slice(s, Len(s) - n, Len(s))
DropLast(s, n) ==
    IF n <= 0 THEN s
    ELSE IF n >= Len(s) THEN <<>>
    ELSE Slice(s, 0, Len(s) - n)

Step(s, n) ==
    [k \in 1 .. (Len(s) + n - 1) \div n |-> s[(k - 1) * n + 1]]
=============================================================================
