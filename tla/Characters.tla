----------------------------- MODULE Characters -----------------------------
(***************************************************************************)
(* The characters of a String in its bytes: how shared/AString.hpp and the *)
(* head of StringFunctions.hpp encode, decode, count, find and cut them.   *)
(***************************************************************************)
EXTENDS Integers, Sequences, FiniteSets, SequencesExt, FiniteSetsExt

CONSTANTS
    IntLimit,              \* bound: an Int wraps around outside -IntLimit .. IntLimit - 1
    Raised, Null, Aborted  \* outcomes: an exception, null, the host process ends

None == -1  \* npos, and the -1 of indexOf
(* An Int wraps around at its ends.                                        *)
Wrap(n) == ((n + IntLimit) % (2 * IntLimit)) - IntLimit

-----------------------------------------------------------------------------
(* AString: characters in bytes.                                           *)

codePointToUtf8(cp) ==
    CASE cp < 128     -> <<cp>>
      [] cp < 2048    -> <<192 + cp \div 64, 128 + (cp % 64)>>
      [] cp < 65536   -> <<224 + cp \div 4096, 128 + ((cp \div 64) % 64), 128 + (cp % 64)>>
      [] cp < 1114112 -> <<240 + cp \div 262144, 128 + ((cp \div 4096) % 64),
                           128 + ((cp \div 64) % 64), 128 + (cp % 64)>>
      [] OTHER        -> <<>>
Encode(c) == FlattenSeq([i \in DOMAIN c |-> codePointToUtf8(c[i])])
EncodeAll(cs) == [i \in DOMAIN cs |-> Encode(cs[i])]

Width(b) == CASE b \in 192 .. 223 -> 2
              [] b \in 224 .. 239 -> 3
              [] b \in 240 .. 247 -> 4
              [] OTHER            -> 1
(* The offsets at which characters start, as charCount walks over them:    *)
(* a width says how many bytes the one that starts at an offset has.       *)
Walk(widths) ==
    FoldLeft(LAMBDA r, i : IF i = r.next + 1
                           THEN [starts |-> Append(r.starts, r.next), next |-> r.next + widths[i]]
                           ELSE r,
             [starts |-> <<>>, next |-> 0], [i \in DOMAIN widths |-> i]).starts
Starts(s) == Walk([i \in DOMAIN s |-> Width(s[i])])
charCount(s) == Len(Starts(s))
byteOffsetOf(s, n) == CASE n \in 0 .. charCount(s) - 1 -> Starts(s)[n + 1]
                        [] n = charCount(s)            -> Len(s)
                        [] OTHER                       -> None
(* A character that the end of the text cuts short reads as its first byte. *)
utf8ToCodePoint(s, i) ==
    LET b == s[i + 1]
        low(k) == s[i + k] % 64
    IN  CASE i + Width(b) > Len(s) \/ Width(b) = 1 -> b
          [] Width(b) = 2 -> (b % 32) * 64 + low(2)
          [] Width(b) = 3 -> (b % 16) * 4096 + low(2) * 64 + low(3)
          [] Width(b) = 4 -> (b % 8) * 262144 + low(2) * 4096 + low(3) * 64 + low(4)
(* The offsets at which forEachCodePoint decodes, and what it passes on.    *)
Decodes(s) == Walk([i \in DOMAIN s |-> IF i - 1 + Width(s[i]) > Len(s) THEN 1 ELSE Width(s[i])])
forEachCodePoint(s) == [k \in DOMAIN Decodes(s) |-> utf8ToCodePoint(s, Decodes(s)[k])]
codePointAt(s, n) == IF n < Len(Decodes(s)) THEN forEachCodePoint(s)[n + 1] ELSE 0

(* std::string over data + from, to - from bytes: a length that is npos    *)
(* less something is an error nobody catches.                              *)
Cut(s, from, to) == IF from = None \/ to = None THEN Aborted ELSE SubSeq(s, from + 1, to)
(* A std::string made of data alone ends at the first NUL.                 *)
CStr(s) == IF 0 \in Range(s) THEN SubSeq(s, 1, SelectInSeq(s, LAMBDA b : b = 0) - 1) ELSE s

Blanks == {32, 10, 13, 9}
lower(b) == IF b \in 65 .. 90 THEN b + 32 ELSE b
upper(b) == IF b \in 97 .. 122 THEN b - 32 ELSE b
Same(a, b, ignoreCase) == a = b \/ (ignoreCase /\ lower(a) = lower(b))
Reads(s, i, t, ignoreCase) == \A j \in DOMAIN t : Same(s[i + j], t[j], ignoreCase)
str_find_case(s, t, from, ignoreCase) ==
    LET at == {i \in from .. Len(s) - Len(t) : Reads(s, i, t, ignoreCase)}
    IN  IF at = {} THEN None ELSE Min(at)
str_rfind_case(s, t, from, ignoreCase) ==
    LET last == IF from = None THEN Len(s) ELSE from
        at == {i \in 0 .. Len(s) - Len(t) : i <= last /\ Reads(s, i, t, ignoreCase)}
    IN  IF at = {} THEN None ELSE Max(at)

=============================================================================
