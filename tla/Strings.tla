------------------------------- MODULE Strings -------------------------------
(***************************************************************************)
(* A String of AutoLang is a sequence of bytes in UTF-8, and a program     *)
(* sees characters.  The functions of shared/default_functions/            *)
(* StringFunctions.hpp, the StringBuilder among them, work on the bytes:   *)
(* some count characters first (charCount, byteOffsetOf), some decode      *)
(* them, some search or cut the bytes as they are, and some stop at the    *)
(* first NUL because they go through a C string.                           *)
(*                                                                         *)
(* Each step calls one function on the current text, which is kept twice:  *)
(* as the bytes the functions make (text) and as the characters the calls  *)
(* mean (meant).  A function that yields something else than a text leaves *)
(* an answer beside the one expected.  The names are the natives'; those   *)
(* in capitals are what they mean on characters.                           *)
(***************************************************************************)
EXTENDS Characters

CONSTANTS
    Texts,       \* the texts of the program, as sequences of code points
    Arguments,   \* the texts it passes to a function
    Positions,   \* the Ints it passes to a function
    Predicates,  \* the callbacks: [holds, raises], the characters for which
                 \*   one answers true and those at which it raises
    MaxCalls,    \* bound: functions called on one text
    MaxSize      \* bound: size of a text that another function is called on

VARIABLES
    text,      \* the bytes of the current text
    meant,     \* the characters it should have
    answer,    \* what the last function yielded, when it was not a text
    expected,  \* what it should have yielded
    doubt,     \* why the last function may have misread the text
    calls      \* functions called so far

vars == <<text, meant, answer, expected, doubt, calls>>

-----------------------------------------------------------------------------
(* Functions that cut a text at characters.                                *)

str_get(s, pos) ==
    LET p == IF pos < 0 THEN pos + charCount(s) ELSE pos
    IN  IF p \in 0 .. charCount(s) - 1 THEN codePointAt(s, p) ELSE Raised
\* Mutant: the last character of the range is left out when the text ends there.
str_take_short(s, n) ==
    IF n <= 0 THEN <<>> ELSE IF n > charCount(s) THEN s ELSE Cut(s, 0, byteOffsetOf(s, n - 1))
str_take(s, n) ==
    IF n <= 0 THEN <<>> ELSE IF n >= charCount(s) THEN s ELSE Cut(s, 0, byteOffsetOf(s, n))
str_take_last(s, n) ==
    IF n <= 0 THEN <<>> ELSE IF n >= charCount(s) THEN s
    ELSE Cut(s, byteOffsetOf(s, charCount(s) - n), Len(s))
\* Mutant: the bytes before the character are counted, not the characters.
str_drop_bytes(s, n) ==
    IF n <= 0 THEN s ELSE IF n >= Len(s) THEN <<>> ELSE Cut(s, n, Len(s))
str_drop(s, n) ==
    IF n <= 0 THEN s ELSE IF n >= charCount(s) THEN <<>> ELSE Cut(s, byteOffsetOf(s, n), Len(s))
str_drop_last(s, n) ==
    IF n <= 0 THEN s ELSE IF n >= charCount(s) THEN <<>>
    ELSE Cut(s, 0, byteOffsetOf(s, charCount(s) - n))
(* substr(from), and substr(from, length) whose sum may wrap around.       *)
str_substr(s, from, lengths) ==
    LET len == charCount(s)
        f == IF from < 0 THEN from + len ELSE from
        n == IF Wrap(f + lengths[1]) > len THEN len - f ELSE lengths[1]
    IN  CASE f \notin 0 .. len -> Raised
          [] f \in 0 .. len /\ lengths = <<>> -> Cut(s, byteOffsetOf(s, f), Len(s))
          [] OTHER -> IF lengths[1] < 0 THEN Raised
                      ELSE Cut(s, byteOffsetOf(s, f), byteOffsetOf(s, Wrap(f + n)))
str_substring_range(s, from, to) ==
    LET a == IF from < 0 THEN 0 ELSE from
        b == IF to > charCount(s) THEN charCount(s) ELSE to
    IN  IF a >= b THEN <<>> ELSE Cut(s, byteOffsetOf(s, a), byteOffsetOf(s, b))
str_replace_range(s, from, to, t) ==
    IF from < 0 \/ to < from \/ to > charCount(s) THEN Raised
    ELSE Cut(s, 0, byteOffsetOf(s, from)) \o CStr(t) \o Cut(s, byteOffsetOf(s, to), Len(s))
str_remove_range(s, from, to) ==
    IF from < 0 \/ to < from \/ to > charCount(s) THEN Raised
    ELSE Cut(s, 0, byteOffsetOf(s, from)) \o Cut(s, byteOffsetOf(s, to), Len(s))
str_chunked(s, n) ==
    IF n <= 0 THEN <<>>
    ELSE [k \in 1 .. (charCount(s) + n - 1) \div n |->
             Cut(s, byteOffsetOf(s, (k - 1) * n),
                    byteOffsetOf(s, Min({k * n, charCount(s)})))]
(* The windows start every step characters; the end of one may wrap around. *)
str_windowed(s, size, step, partial) ==
    LET len == charCount(s)
        all == SelectSeq([i \in 1 .. len |-> i - 1], LAMBDA i : i % step = 0)
        end(i) == Wrap(i + size)
        beyond == {k \in DOMAIN all : end(all[k]) > len}
        starts == IF partial \/ beyond = {} THEN all ELSE SubSeq(all, 1, Min(beyond) - 1)
        windows == [k \in DOMAIN starts |->
                       Cut(s, byteOffsetOf(s, starts[k]),
                           IF end(starts[k]) > len THEN Len(s) ELSE byteOffsetOf(s, end(starts[k])))]
    IN  CASE size <= 0 \/ step <= 0 -> <<>>
          [] size > 0 /\ step > 0 /\ Aborted \in Range(windows) -> Aborted
          [] OTHER -> windows
(* The padding repeats the characters of t, or spaces.                     *)
Padding(s, n, t) ==
    LET pad == IF t = <<>> THEN <<32>> ELSE forEachCodePoint(t)
        k == n - charCount(s)
    IN  Encode([i \in 1 .. IF k > 0 THEN k ELSE 0 |-> pad[((i - 1) % Len(pad)) + 1]])
str_pad_start(s, n, t) == Padding(s, n, t) \o s
str_pad_end(s, n, t) == s \o Padding(s, n, t)
str_reversed(s) == Encode(Reverse(forEachCodePoint(s)))
Distinct(c) ==
    LET first == SelectSeq([i \in DOMAIN c |-> i], LAMBDA i : \A j \in 1 .. i - 1 : c[j] # c[i])
    IN  [k \in DOMAIN first |-> c[first[k]]]
str_distinct(s) == Encode(Distinct(forEachCodePoint(s)))
str_max_or_null(s) == IF s = <<>> THEN Null ELSE Max(Range(forEachCodePoint(s)))
str_min_or_null(s) == IF s = <<>> THEN Null ELSE Min(Range(forEachCodePoint(s)))
(* toupper of a character above 255 reads beyond the table of the library. *)
Cased(s, cases) ==
    IF s = <<>> THEN {s}
    ELSE LET cp == codePointAt(s, 0)
             rest == SubSeq(s, Width(s[1]) + 1, Len(s))
         IN  {codePointToUtf8(u) \o rest : u \in IF cp > 255 THEN {cp, 0} ELSE {cases[cp]}}
str_capitalize(s) == Cased(s, [b \in 0 .. 255 |-> upper(b)])
str_decapitalize(s) == Cased(s, [b \in 0 .. 255 |-> lower(b)])
Pairs(c) == [i \in 1 .. Len(c) - 1 |-> <<c[i], c[i + 1]>>]
str_zip_with_next(s) == Pairs(forEachCodePoint(s))
str_zip(s, t) == Zip(forEachCodePoint(s), forEachCodePoint(t))

-----------------------------------------------------------------------------
(* Functions that look at the bytes.                                       *)

str_to_lower(s) == [i \in DOMAIN s |-> lower(s[i])]
str_to_upper(s) == [i \in DOMAIN s |-> upper(s[i])]
str_is_blank(s) == Range(s) \subseteq Blanks
AllIn(s, set) == s # <<>> /\ Range(s) \subseteq set
Digits == 48 .. 57
Letters == (65 .. 90) \cup (97 .. 122)
str_is_digit(s) == AllIn(s, Digits)
str_is_letter(s) == AllIn(s, Letters)
str_is_letter_or_digit(s) == AllIn(s, Digits \cup Letters)
str_is_whitespace(s) == AllIn(s, Blanks)
str_is_uppercase(s) == s # <<>> /\ s[1] \in 65 .. 90
str_is_lowercase(s) == s # <<>> /\ s[1] \in 97 .. 122
str_to_bool_or_null(s) ==
    CASE str_to_lower(s) = <<116, 114, 117, 101>> \/ s = <<49>>       -> TRUE
      [] str_to_lower(s) = <<102, 97, 108, 115, 101>> \/ s = <<48>>  -> FALSE
      [] OTHER -> Null
str_to_bool(s) == IF str_to_bool_or_null(s) = Null THEN Raised ELSE str_to_bool_or_null(s)

str_starts_with(s, t, start, ignoreCase) ==
    start >= 0 /\ start + Len(t) <= Len(s) /\ Reads(s, start, t, ignoreCase)
str_ends_with(s, t, ignoreCase) ==
    Len(t) <= Len(s) /\ Reads(s, Len(s) - Len(t), t, ignoreCase)
str_contains(s, t, ignoreCase) == str_find_case(s, t, 0, ignoreCase) # None
str_index_of(s, t, start, ignoreCase) ==
    str_find_case(s, t, IF start < 0 THEN 0 ELSE start, ignoreCase)
str_last_index_of(s, t, start, ignoreCase) ==
    str_rfind_case(s, t, IF start < 0 THEN None ELSE start, ignoreCase)
str_region_matches(s, from, t, other, length, ignoreCase) ==
    /\ from >= 0 /\ other >= 0 /\ length >= 0
    /\ Wrap(from + length) \in 0 .. Len(s) /\ Wrap(other + length) \in 0 .. Len(t)
    /\ \A i \in 1 .. length : Same(s[from + i], t[other + i], ignoreCase)
(* The first difference decides, else the length.                          *)
str_compare_to(s, t, ignoreCase) ==
    LET fold(b) == IF ignoreCase THEN lower(b) ELSE b
        differ == {i \in DOMAIN s \cap DOMAIN t : fold(s[i]) # fold(t[i])}
        less == IF differ = {} THEN Len(s) < Len(t) ELSE fold(s[Min(differ)]) < fold(t[Min(differ)])
    IN  IF differ = {} /\ Len(s) = Len(t) THEN 0 ELSE IF less THEN -1 ELSE 1
str_content_equals(s, t) == s = t

str_remove_prefix(s, t) == IF str_starts_with(s, t, 0, FALSE) THEN Cut(s, Len(t), Len(s)) ELSE s
str_remove_suffix(s, t) == IF str_ends_with(s, t, FALSE) THEN Cut(s, 0, Len(s) - Len(t)) ELSE s
str_remove_surrounding(s, t, u) ==
    LET c == CStr(s)
    IN  IF Len(c) >= Len(CStr(t)) + Len(CStr(u)) /\ str_starts_with(c, CStr(t), 0, FALSE)
           /\ str_ends_with(c, CStr(u), FALSE)
        THEN Cut(c, Len(CStr(t)), Len(c) - Len(CStr(u))) ELSE s
(* The default of the text to return when the delimiter is missing is "".  *)
str_substring_before(s, t) ==
    LET at == str_find_case(s, t, 0, FALSE) IN IF at = None THEN <<>> ELSE Cut(s, 0, at)
str_substring_after(s, t) ==
    LET at == str_find_case(s, t, 0, FALSE) IN IF at = None THEN <<>> ELSE Cut(s, at + Len(t), Len(s))
str_substring_before_last(s, t) ==
    LET at == str_rfind_case(s, t, None, FALSE) IN IF at = None THEN <<>> ELSE Cut(s, 0, at)
str_substring_after_last(s, t) ==
    LET at == str_rfind_case(s, t, None, FALSE) IN IF at = None THEN <<>> ELSE Cut(s, at + Len(t), Len(s))
str_common_prefix_with(s, t, ignoreCase) ==
    Cut(s, 0, Max({n \in 0 .. Min({Len(s), Len(t)}) : \A i \in 1 .. n : Same(s[i], t[i], ignoreCase)}))
str_common_suffix_with(s, t, ignoreCase) ==
    Cut(s, Len(s) - Max({n \in 0 .. Min({Len(s), Len(t)}) :
                          \A i \in 0 .. n - 1 : Same(s[Len(s) - i], t[Len(t) - i], ignoreCase)}),
           Len(s))

-----------------------------------------------------------------------------
(* Functions that trim, divide and replace.                                *)

TrimStart(s, set) ==
    LET kept == {i \in DOMAIN s : s[i] \notin set}
    IN  IF kept = {} THEN <<>> ELSE SubSeq(s, Min(kept), Len(s))
TrimEnd(s, set) == Reverse(TrimStart(Reverse(s), set))
Trim(s, set) == TrimEnd(TrimStart(s, set), set)
str_trim(s) == Trim(CStr(s), Blanks)
str_trim_start(s) == TrimStart(CStr(s), Blanks)
str_trim_end(s) == TrimEnd(CStr(s), Blanks)
(* With a text, the bytes of it: a text without any is left as it is.      *)
str_trim_str(s, t) ==
    IF CStr(t) = <<>> \/ CStr(s) = <<>> THEN s ELSE Trim(CStr(s), Range(CStr(t)))
str_trim_start_str(s, t) ==
    IF CStr(t) = <<>> \/ CStr(s) = <<>> THEN s ELSE TrimStart(CStr(s), Range(CStr(t)))
str_trim_end_str(s, t) ==
    IF CStr(t) = <<>> \/ CStr(s) = <<>> THEN s ELSE TrimEnd(CStr(s), Range(CStr(t)))
(* With a character, as often as its bytes are repeated.                   *)
TrimRepeats(s, t) ==
    LET n == Max({k \in 0 .. Len(s) : /\ k * Len(t) <= Len(s)
                                      /\ \A i \in 1 .. k * Len(t) : s[i] = t[((i - 1) % Len(t)) + 1]})
    IN  SubSeq(s, n * Len(t) + 1, Len(s))
str_trim_start_char(s, cp) ==
    IF CStr(s) = <<>> THEN s ELSE TrimRepeats(CStr(s), codePointToUtf8(cp))
str_trim_end_char(s, cp) ==
    IF CStr(s) = <<>> THEN s
    ELSE Reverse(TrimRepeats(Reverse(CStr(s)), Reverse(codePointToUtf8(cp))))
str_trim_char(s, cp) ==
    IF CStr(s) = <<>> THEN s
    ELSE LET rest == TrimRepeats(CStr(s), codePointToUtf8(cp))
         IN  Reverse(TrimRepeats(Reverse(rest), Reverse(codePointToUtf8(cp))))
Every(s, n) == IF n <= 0 THEN Raised ELSE [k \in 1 .. (Len(s) + n - 1) \div n |-> s[(k - 1) * n + 1]]
str_step(s, n) == Every(CStr(s), n)

(* A line ends at CR, LF or CR LF.                                         *)
str_lines(s) ==
    LET ends == SelectSeq([i \in DOMAIN s |-> i],
                          LAMBDA i : s[i] = 13 \/ (s[i] = 10 /\ (i = 1 \/ s[i - 1] # 13)))
        next(i) == IF s[i] = 13 /\ i < Len(s) /\ s[i + 1] = 10 THEN i + 2 ELSE i + 1
    IN  [k \in 1 .. Len(ends) + 1 |->
            SubSeq(s, IF k = 1 THEN 1 ELSE next(ends[k - 1]),
                      IF k > Len(ends) THEN Len(s) ELSE ends[k] - 1)]
Spaces == {32, 9}
Indent(l) == Len(l) - Len(TrimStart(l, Spaces))
Blank(l) == Indent(l) = Len(l)
(* The lines without a blank one at the beginning and at the end.          *)
Inner(lines) ==
    LET many == Len(lines) > 1
    IN  SubSeq(lines, IF many /\ Blank(lines[1]) THEN 2 ELSE 1,
                      IF many /\ Blank(Last(lines)) THEN Len(lines) - 1 ELSE Len(lines))
Joined(pieces, t) ==
    FlattenSeq([i \in DOMAIN pieces |-> IF i = 1 THEN pieces[i] ELSE t \o pieces[i]])
str_trim_indent(s) ==
    LET lines == Inner(str_lines(s))
        indents == {Indent(lines[i]) : i \in {j \in DOMAIN lines : ~ Blank(lines[j])}}
    IN  Joined([i \in DOMAIN lines |-> IF Blank(lines[i]) THEN <<>>
                                       ELSE SubSeq(lines[i], Min(indents) + 1, Len(lines[i]))],
               <<10>>)
str_trim_margin(s, t) ==
    LET lines == Inner(str_lines(s))
        bar == IF t = <<>> THEN <<124>> ELSE t
        shown(l) == LET i == Indent(l)
                    IN  IF i + Len(bar) <= Len(l) /\ SubSeq(l, i + 1, i + Len(bar)) = bar
                        THEN SubSeq(l, i + Len(bar) + 1, Len(l)) ELSE l
    IN  Joined([i \in DOMAIN lines |-> shown(lines[i])], <<10>>)

(* The pieces from an offset on: at the earliest delimiter, the longest of *)
(* those at one place; the last of a limited number keeps the rest.        *)
RECURSIVE PiecesFrom(_, _, _, _, _)
PiecesFrom(s, delims, ignoreCase, limit, from) ==
    LET at(d) == str_find_case(s, d, from, ignoreCase)
        found == {d \in Range(delims) : d # <<>> /\ at(d) # None}
        best == Min({at(d) : d \in found})
        next == best + Max({Len(d) : d \in {e \in found : at(e) = best}})
    IN  IF found = {} \/ limit = 1 THEN <<SubSeq(s, from + 1, Len(s))>>
        ELSE <<SubSeq(s, from + 1, best)>> \o PiecesFrom(s, delims, ignoreCase, limit - 1, next)
str_split(s, delims, ignoreCase, limit) == PiecesFrom(s, delims, ignoreCase, limit, 0)
str_replace(s, old, new, ignoreCase) == Joined(PiecesFrom(s, <<old>>, ignoreCase, 0, 0), new)
str_replace_first(s, old, new, ignoreCase) == Joined(PiecesFrom(s, <<old>>, ignoreCase, 2, 0), new)
str_count_str(s, t) ==
    IF CStr(t) = <<>> THEN charCount(s) + 1 ELSE Len(PiecesFrom(CStr(s), <<CStr(t)>>, FALSE, 0, 0)) - 1
string_constructor(s, n) == FlattenSeq([i \in 1 .. n |-> s])

-----------------------------------------------------------------------------
(* Functions that pass each character to a callback.  They stop at the     *)
(* first that decides; a callback that raises before ends them.            *)

Stop(c, stops) == Min({i \in DOMAIN c : c[i] \in stops} \cup {Len(c) + 1})
Raises(c, p, stops) == \E i \in DOMAIN c : i <= Stop(c, stops) /\ c[i] \in p.raises
Unless(raised, result) == IF raised THEN Raised ELSE result
Fails(c, p) == Range(c) \ p.holds

TakeWhile(c, p) == Unless(Raises(c, p, Fails(c, p)), SubSeq(c, 1, Stop(c, Fails(c, p)) - 1))
DropWhile(c, p) == Unless(Raises(c, p, Fails(c, p)), SubSeq(c, Stop(c, Fails(c, p)), Len(c)))
TakeLastWhile(c, p) == LET r == TakeWhile(Reverse(c), p) IN Unless(r = Raised, Reverse(r))
DropLastWhile(c, p) == LET r == DropWhile(Reverse(c), p) IN Unless(r = Raised, Reverse(r))
Filter(c, p) == Unless(Raises(c, p, {}), SelectSeq(c, LAMBDA x : x \in p.holds))
FilterNot(c, p) == Unless(Raises(c, p, {}), SelectSeq(c, LAMBDA x : x \notin p.holds))
CodePoints(s) == forEachCodePoint(s)
(* The bytes of the first characters of s, and of the others.              *)
Before(s, n) == IF n < Len(Decodes(s)) THEN SubSeq(s, 1, Decodes(s)[n + 1]) ELSE s
Behind(s, n) == SubSeq(s, Len(Before(s, n)) + 1, Len(s))

str_take_while(s, p) == LET r == TakeWhile(CodePoints(s), p) IN Unless(r = Raised, Before(s, Len(r)))
str_drop_while(s, p) ==
    LET r == DropWhile(CodePoints(s), p) IN Unless(r = Raised, Behind(s, Len(CodePoints(s)) - Len(r)))
str_take_last_while(s, p) ==
    LET r == TakeLastWhile(CodePoints(s), p) IN Unless(r = Raised, Behind(s, Len(CodePoints(s)) - Len(r)))
str_drop_last_while(s, p) == LET r == DropLastWhile(CodePoints(s), p) IN Unless(r = Raised, Before(s, Len(r)))
str_filter(s, p) == LET r == Filter(CodePoints(s), p) IN Unless(r = Raised, Encode(r))
str_filter_not(s, p) == LET r == FilterNot(CodePoints(s), p) IN Unless(r = Raised, Encode(r))
(* The callback also gets the index; here it answers true at even ones.    *)
FilterIndexed(c, p) ==
    Unless(Raises(c, p, {}), [i \in 1 .. (Len(c) + 1) \div 2 |-> c[2 * i - 1]])
str_filter_indexed(s, p) == LET r == FilterIndexed(CodePoints(s), p) IN Unless(r = Raised, Encode(r))
str_partition(s, p) ==
    Unless(Raises(CodePoints(s), p, {}), <<Encode(Filter(CodePoints(s), p)), Encode(FilterNot(CodePoints(s), p))>>)
(* The callbacks that trim get the bytes of a C string as characters.      *)
str_trim_start_fn(s, p) == DropWhile(CStr(s), p)
str_trim_end_fn(s, p) == DropLastWhile(CStr(s), p)
str_trim_fn(s, p) ==
    LET r == DropWhile(CStr(s), p) IN IF r \in {Raised, <<>>} THEN r ELSE DropLastWhile(r, p)
(* The callback of replaceFirstChar yields a text.                         *)
str_replace_first_char(s, t) == IF s = <<>> THEN s ELSE CStr(t) \o Behind(s, 1)

AnyOf(c, p) == Unless(Raises(c, p, p.holds), \E i \in DOMAIN c : c[i] \in p.holds)
AllOf(c, p) == Unless(Raises(c, p, Fails(c, p)), Fails(c, p) = {})
CountOf(c, p) == LET r == Filter(c, p) IN Unless(r = Raised, Len(r))
IndexOfFirst(c, p) ==
    Unless(Raises(c, p, p.holds), IF Stop(c, p.holds) > Len(c) THEN -1 ELSE Stop(c, p.holds) - 1)
IndexOfLast(c, p) == Unless(Raises(c, p, {}), Len(c) - Stop(Reverse(c), p.holds))
FirstOf(c, p, missing) ==
    LET i == IndexOfFirst(c, p) IN IF i = Raised THEN i ELSE IF i = -1 THEN missing ELSE c[i + 1]
LastOf(c, p, missing) ==
    LET i == IndexOfLast(c, p) IN IF i = Raised THEN i ELSE IF i = -1 THEN missing ELSE c[i + 1]
str_any_fn(s, p) == AnyOf(CodePoints(s), p)
str_all_fn(s, p) == AllOf(CodePoints(s), p)
str_none_fn(s, p) == LET r == AnyOf(CodePoints(s), p) IN Unless(r = Raised, ~ r)
str_count_fn(s, p) == CountOf(CodePoints(s), p)
str_index_of_first(s, p) == IndexOfFirst(CodePoints(s), p)
str_index_of_last(s, p) == IndexOfLast(CodePoints(s), p)
str_first_fn(s, p) == FirstOf(CodePoints(s), p, Raised)
str_last_fn(s, p) == LastOf(CodePoints(s), p, Raised)
str_first_or_null_fn(s, p) == FirstOf(CodePoints(s), p, Null)
str_last_or_null_fn(s, p) == LastOf(CodePoints(s), p, Null)

(* What the callbacks are passed, as they yield it.                        *)
Indexed(c) == [i \in DOMAIN c |-> <<i - 1, c[i]>>]
Growing(c, from) == [i \in 1 .. Len(c) - from + 1 |-> SubSeq(c, 1, from + i - 1)]
Quiet(c, p, result) == Unless(Raises(c, p, {}), result)
str_for_each(s, p) == Quiet(CodePoints(s), p, CodePoints(s))
str_for_each_indexed(s, p) == Quiet(CodePoints(s), p, Indexed(CodePoints(s)))
str_map(s, p) == Quiet(CodePoints(s), p, CodePoints(s))
str_map_indexed(s, p) == Quiet(CodePoints(s), p, Indexed(CodePoints(s)))
str_fold(s, p) == Quiet(CodePoints(s), p, CodePoints(s))
str_running_fold(s, p) == Quiet(CodePoints(s), p, Growing(CodePoints(s), 0))
(* The first character is the first sum, and no call is made for it.       *)
str_reduce(s, p) == IF s = <<>> THEN Raised ELSE Quiet(Tail(CodePoints(s)), p, CodePoints(s))
str_running_reduce(s, p) ==
    IF s = <<>> THEN <<>> ELSE Quiet(Tail(CodePoints(s)), p, Growing(CodePoints(s), 1))
str_zip_with_next_transform(s, p) ==
    Unless(Len(CodePoints(s)) > 1 /\ Raises(CodePoints(s), p, {}), Pairs(CodePoints(s)))
str_zip_transform(s, t, p) ==
    LET pairs == Zip(CodePoints(s), CodePoints(t))
    IN  Quiet([i \in DOMAIN pairs |-> pairs[i][1]], p, pairs)
(* Maps from what p answers to the last character, and to the list of them. *)
LastFor(c, p) ==
    LET key(x) == x \in p.holds
    IN  [k \in {key(x) : x \in Range(c)} |-> Last(SelectSeq(c, LAMBDA x : key(x) = k))]
Groups(c, p) ==
    LET key(x) == x \in p.holds
    IN  [k \in {key(x) : x \in Range(c)} |-> SelectSeq(c, LAMBDA x : key(x) = k)]
Answers(c, p) == [x \in Range(c) |-> x \in p.holds]
str_associate(s, p) == Quiet(CodePoints(s), p, LastFor(CodePoints(s), p))
str_associate_by(s, p) == Quiet(CodePoints(s), p, LastFor(CodePoints(s), p))
str_associate_with(s, p) == Quiet(CodePoints(s), p, Answers(CodePoints(s), p))
str_group_by(s, p) == Quiet(CodePoints(s), p, Groups(CodePoints(s), p))

str_first(s) == IF s = <<>> THEN Raised ELSE codePointAt(s, 0)
str_last(s) == IF s = <<>> THEN Raised ELSE codePointAt(s, charCount(s) - 1)
str_first_or_null(s) == IF s = <<>> THEN Null ELSE codePointAt(s, 0)
str_last_or_null(s) == IF s = <<>> THEN Null ELSE codePointAt(s, charCount(s) - 1)
str_to_char(s) == IF s = <<>> THEN Raised ELSE CodePoints(s)[1]
str_to_char_or_null(s) == IF s = <<>> THEN Null ELSE CodePoints(s)[1]
str_char_code(s) == IF s = <<>> THEN Raised ELSE CodePoints(s)[1]
str_to_list(s) == CodePoints(s)
str_indices(s) == [i \in 1 .. charCount(s) |-> i - 1]
str_last_index(s) == charCount(s) - 1
get_string_size(s) == charCount(s)
str_byte_size(s) == Len(s)

(* strtoll reads blanks, a sign and digits, and stops at the bounds of Int; *)
(* the text must end there, which a NUL also does.                          *)
Digit(b) == CASE b \in Digits -> b - 48 [] lower(b) \in 97 .. 122 -> lower(b) - 87 [] OTHER -> 99
Number(s, radix) ==
    LET t == TrimStart(s, Blanks)
        signed == t # <<>> /\ t[1] \in {43, 45}
        digits == IF signed THEN Tail(t) ELSE t
        value == FoldLeft(LAMBDA n, b : n * radix + Digit(b), 0, digits)
    IN  IF digits = <<>> \/ \E i \in DOMAIN digits : Digit(digits[i]) >= radix THEN Raised
        ELSE IF signed /\ t[1] = 45 THEN -value ELSE value
InRange(n) == n \in -IntLimit .. IntLimit - 1
strtoll(s, radix) ==
    LET n == Number(CStr(s), radix)
    IN  IF n = Raised \/ InRange(n) THEN n ELSE IF n < 0 THEN -IntLimit ELSE IntLimit - 1
to_int(s, radix) == IF radix \notin 2 .. 36 \/ s = <<>> THEN Raised ELSE strtoll(s, radix)
str_to_int_or_null(s, radix) ==
    IF radix \notin 2 .. 36 \/ s = <<>> \/ strtoll(s, radix) = Raised THEN Null ELSE strtoll(s, radix)

-----------------------------------------------------------------------------
(* StringBuilder: its content is the current text, its positions bytes.    *)

string_builder_append(s, t) == CStr(s) \o CStr(t)
string_builder_append_line(s, t) == CStr(s) \o CStr(t) \o <<10>>
AppendPart(s, t, from, to) == s \o SubSeq(t, Max({from, 0}) + 1, Min({to, Len(t)}))
string_builder_append_range(s, t, from, to) == AppendPart(s, CStr(t), from, to)
At(s, pos) == IF pos < 0 THEN pos + Len(s) ELSE pos
string_builder_get(s, pos) == IF At(s, pos) \in 0 .. Len(s) - 1 THEN s[At(s, pos) + 1] ELSE Raised
Replaced(s, from, to, t) == SubSeq(s, 1, from) \o t \o SubSeq(s, to + 1, Len(s))
string_builder_set(s, pos, t) ==
    LET p == At(s, pos) IN IF p \in 0 .. Len(s) - 1 THEN Replaced(s, p, p + 1, t) ELSE Raised
Insert(s, pos, t) ==
    LET p == At(s, pos) IN IF p \in 0 .. Len(s) THEN Replaced(s, p, p, t) ELSE Raised
string_builder_insert(s, pos, t) == Insert(s, pos, CStr(t))
string_builder_delete(s, from, to) ==
    LET a == Max({from, 0})
        b == Min({to, Len(s)})
    IN  IF a < b THEN Replaced(s, a, b, <<>>) ELSE s
string_builder_delete_at(s, pos) ==
    LET p == At(s, pos) IN IF p \in 0 .. Len(s) - 1 THEN Replaced(s, p, p + 1, <<>>) ELSE Raised
Overwrite(s, from, to, t) ==
    LET a == Max({from, 0})
        b == Min({to, Len(s)})
    IN  IF a > Len(s) \/ a > b THEN Raised ELSE Replaced(s, a, b, t)
string_builder_replace(s, from, to, t) == Overwrite(s, from, to, CStr(t))
string_builder_reverse(s) == Reverse(s)
string_builder_set_length(s, n) ==
    IF n < 0 THEN Raised ELSE [i \in 1 .. n |-> IF i <= Len(s) THEN s[i] ELSE 0]
string_builder_substring(s, from, ends) ==
    LET a == At(s, from)
        b == IF ends = <<>> THEN Len(s) ELSE At(s, ends[1])
    IN  IF a \notin 0 .. Len(s) \/ b \notin a .. Len(s) THEN Raised ELSE SubSeq(s, a + 1, b)
string_builder_index_of(s, t, start) == str_find_case(s, t, Max({start, 0}), FALSE)
string_builder_last_index_of(s, t, start) ==
    str_rfind_case(s, t, IF start < 0 THEN Len(s) ELSE start, FALSE)
string_builder_contains(s, t) == str_find_case(s, t, 0, FALSE) # None
string_builder_starts_with(s, t) == str_starts_with(s, t, 0, FALSE)
string_builder_ends_with(s, t) == str_ends_with(s, t, FALSE)
string_builder_length(s) == Len(s)
string_builder_last_index(s) == Len(s) - 1

-----------------------------------------------------------------------------
(* What the functions mean on characters.                                  *)

Span(c, from, to) == SubSeq(c, Max({from, 1}), Min({to, Len(c)}))
Get(c, pos) == IF At(c, pos) \in 0 .. Len(c) - 1 THEN c[At(c, pos) + 1] ELSE Raised
Substr(c, from, lengths) ==
    LET f == At(c, from)
    IN  IF f \notin 0 .. Len(c) \/ (lengths # <<>> /\ lengths[1] < 0) THEN Raised
        ELSE Span(c, f + 1, IF lengths = <<>> THEN Len(c) ELSE f + lengths[1])
ReplaceRange(c, from, to, t) ==
    IF from < 0 \/ to \notin from .. Len(c) THEN Raised ELSE Replaced(c, from, to, t)
Chunks(c, n) ==
    IF n <= 0 THEN <<>> ELSE [k \in 1 .. (Len(c) + n - 1) \div n |-> Span(c, (k - 1) * n + 1, k * n)]
Windows(c, size, step, partial) ==
    IF size <= 0 \/ step <= 0 THEN <<>>
    ELSE LET starts == SelectSeq([i \in DOMAIN c |-> i],
                           LAMBDA i : i % step = 1 % step /\ (partial \/ i + size - 1 <= Len(c)))
         IN  [k \in DOMAIN starts |-> Span(c, starts[k], starts[k] + size - 1)]
Pad(c, n, t) ==
    LET pad == IF t = <<>> THEN <<32>> ELSE t
    IN  [i \in 1 .. Max({n - Len(c), 0}) |-> pad[((i - 1) % Len(pad)) + 1]]
Common(c, d, ignoreCase) ==
    Span(c, 1, Max({n \in 0 .. Min({Len(c), Len(d)}) : \A i \in 1 .. n : Same(c[i], d[i], ignoreCase)}))
ReadInt(c, radix, wrong) ==
    LET n == IF radix \in 2 .. 36 THEN Number(c, radix) ELSE Raised
    IN  IF n = Raised \/ ~ InRange(n) THEN wrong ELSE n
CountText(c, d) == IF d = <<>> THEN Len(c) + 1 ELSE Len(str_split(c, <<d>>, FALSE, 0)) - 1
RemoveSurrounding(c, d, e) ==
    IF Len(c) >= Len(d) + Len(e) /\ str_starts_with(c, d, 0, FALSE) /\ str_ends_with(c, e, FALSE)
    THEN SubSeq(c, Len(d) + 1, Len(c) - Len(e)) ELSE c
TrimWhile(c, p) ==
    LET r == DropWhile(c, p) IN IF r \in {Raised, <<>>} THEN r ELSE DropLastWhile(r, p)

(* Why a function may read a text otherwise than as its characters.        *)
CString(c) == IF 0 \in Range(c) THEN {"cstring"} ELSE {}
Wide(c) == \E i \in DOMAIN c : c[i] > 127
Bytes(c) == IF Wide(c) THEN {"bytes"} ELSE {}
Cuts(c) == IF Wide(c) THEN {"bytes", "cut"} ELSE {}
When(condition, cause) == IF condition THEN {cause} ELSE {}

-----------------------------------------------------------------------------
(* A call, its text or answer and the one expected.                        *)

Init ==
    /\ meant \in Texts
    /\ text = Encode(meant)
    /\ answer = Null /\ expected = Null
    /\ doubt = {} /\ calls = 0

(* A text replaces the current one, an exception leaves it and ends the    *)
(* expression; bound: so does a text in doubt or beyond MaxSize.           *)
Gives(bytes, chars, causes) ==
    /\ calls < MaxCalls /\ doubt' = causes
    /\ answer' = bytes
    /\ expected' = IF chars = Raised THEN Raised ELSE Encode(chars)
    /\ text' = IF bytes \in {Raised, Aborted} THEN text ELSE bytes
    /\ meant' = IF chars = Raised THEN meant ELSE chars
    /\ calls' = IF bytes \in {Raised, Aborted} \/ causes # {} \/ Len(bytes) > MaxSize
                THEN MaxCalls ELSE calls + 1
(* Any other value ends the expression, too.                               *)
Yields(value, should, causes) ==
    /\ calls < MaxCalls /\ doubt' = causes
    /\ answer' = value /\ expected' = should
    /\ calls' = MaxCalls
    /\ UNCHANGED <<text, meant>>

PlainCall ==
    \/ Gives(str_reversed(text), Reverse(meant), {})
    \/ Gives(str_distinct(text), Distinct(meant), {})
    \/ Gives(str_to_lower(text), [i \in DOMAIN meant |-> lower(meant[i])], {})
    \/ Gives(str_to_upper(text), [i \in DOMAIN meant |-> upper(meant[i])], {})
    \/ \E bytes \in str_capitalize(text) :
          Gives(bytes, [i \in DOMAIN meant |-> IF i = 1 THEN upper(meant[i]) ELSE meant[i]],
                When(meant # <<>> /\ meant[1] > 255, "beyond"))
    \/ \E bytes \in str_decapitalize(text) :
          Gives(bytes, [i \in DOMAIN meant |-> IF i = 1 THEN lower(meant[i]) ELSE meant[i]],
                When(meant # <<>> /\ meant[1] > 255, "beyond"))
    \/ Gives(str_trim(text), Trim(meant, Blanks), CString(meant))
    \/ Gives(str_trim_start(text), TrimStart(meant, Blanks), CString(meant))
    \/ Gives(str_trim_end(text), TrimEnd(meant, Blanks), CString(meant))
    \/ Gives(str_trim_indent(text), str_trim_indent(meant), {})
    \/ Gives(string_builder_reverse(text), Reverse(meant), Cuts(meant))
    \/ Yields(str_lines(text), EncodeAll(str_lines(meant)), {})
    \/ Yields(str_zip_with_next(text), Pairs(meant), {})
    \/ Yields(str_to_list(text), meant, {})
    \/ Yields(str_indices(text), [i \in DOMAIN meant |-> i - 1], {})
    \/ Yields(get_string_size(text), Len(meant), {})
    \/ Yields(str_last_index(text), Len(meant) - 1, {})
    \/ Yields(str_byte_size(text), Len(Encode(meant)), {})
    \/ Yields(string_builder_length(text), Len(meant), Bytes(meant))
    \/ Yields(string_builder_last_index(text), Len(meant) - 1, Bytes(meant))

AnswerCall ==
    \/ Yields(str_first(text), Get(meant, 0), {})
    \/ Yields(str_last(text), Get(meant, -1), {})
    \/ Yields(str_char_code(text), Get(meant, 0), {})
    \/ Yields(str_to_char(text), Get(meant, 0), {})
    \/ Yields(str_first_or_null(text), IF meant = <<>> THEN Null ELSE meant[1], {})
    \/ Yields(str_last_or_null(text), IF meant = <<>> THEN Null ELSE Last(meant), {})
    \/ Yields(str_to_char_or_null(text), IF meant = <<>> THEN Null ELSE meant[1], {})
    \/ Yields(str_max_or_null(text), IF meant = <<>> THEN Null ELSE Max(Range(meant)), {})
    \/ Yields(str_min_or_null(text), IF meant = <<>> THEN Null ELSE Min(Range(meant)), {})
    \/ Yields(str_is_blank(text), Range(meant) \subseteq Blanks, {})
    \/ Yields(str_is_digit(text), AllIn(meant, Digits), {})
    \/ Yields(str_is_letter(text), AllIn(meant, Letters), {})
    \/ Yields(str_is_letter_or_digit(text), AllIn(meant, Digits \cup Letters), {})
    \/ Yields(str_is_whitespace(text), AllIn(meant, Blanks), {})
    \/ Yields(str_is_uppercase(text), str_is_uppercase(meant), {})
    \/ Yields(str_is_lowercase(text), str_is_lowercase(meant), {})
    \/ Yields(str_to_bool(text), str_to_bool(meant), {})
    \/ Yields(str_to_bool_or_null(text), str_to_bool_or_null(meant), {})
    \/ \E radix \in {1, 2, 10} :
          LET causes == CString(meant) \cup
                  When(radix > 1 /\ Number(meant, radix) # Raised /\ ~ InRange(Number(meant, radix)), "saturates")
          IN  \/ Yields(to_int(text, radix), ReadInt(meant, radix, Raised), causes)
              \/ Yields(str_to_int_or_null(text, radix), ReadInt(meant, radix, Null), causes)

PositionCall ==
    \E n \in Positions :
        \/ Yields(str_get(text, n), Get(meant, n), {})
        \/ Gives(str_take(text, n), Span(meant, 1, n), {})
        \/ Gives(str_take_last(text, n), Span(meant, Len(meant) - n + 1, Len(meant)), {})
        \/ Gives(str_drop(text, n), Span(meant, n + 1, Len(meant)), {})
        \/ Gives(str_drop_last(text, n), Span(meant, 1, Len(meant) - n), {})
        \/ Gives(str_substr(text, n, <<>>), Substr(meant, n, <<>>), {})
        \/ Gives(str_step(text, n), Every(meant, n), CString(meant) \cup Cuts(meant))
        \/ Gives(string_constructor(text, n), FlattenSeq([i \in 1 .. n |-> meant]), {})
        \/ Yields(str_chunked(text, n), EncodeAll(Chunks(meant, n)), {})
        \/ Yields(string_builder_get(text, n), Get(meant, n), Bytes(meant))
        \/ Gives(string_builder_delete_at(text, n), string_builder_delete_at(meant, n), Cuts(meant))
        \/ Gives(string_builder_set_length(text, n), string_builder_set_length(meant, n), Cuts(meant))
        \/ Gives(string_builder_substring(text, n, <<>>), Substr(meant, n, <<>>), Cuts(meant))

RangeCall ==
    \E m, n \in Positions :
        \/ LET f == At(meant, m)
           IN  Gives(str_substr(text, m, <<n>>), Substr(meant, m, <<n>>),
                     When(f \in 0 .. Len(meant) /\ f + n >= IntLimit, "overflow"))
        \/ Gives(str_substring_range(text, m, n), Span(meant, m + 1, n), {})
        \/ Gives(str_remove_range(text, m, n), ReplaceRange(meant, m, n, <<>>), {})
        \/ Gives(string_builder_delete(text, m, n), string_builder_delete(meant, m, n), Cuts(meant))
        \/ Gives(string_builder_substring(text, m, <<n>>),
                 string_builder_substring(meant, m, <<n>>), Cuts(meant))
        \/ \E partial \in BOOLEAN :
              Yields(str_windowed(text, m, n, partial), EncodeAll(Windows(meant, m, n, partial)),
                     When(partial /\ n > 0 /\ m > 0 /\
                          \E i \in 0 .. Len(meant) - 1 : i % n = 0 /\ i + m >= IntLimit, "overflow"))

TextCall ==
    \E a \in Arguments :
        LET t == Encode(a)
            both == Wide(meant) /\ Wide(a)
        IN  \/ Gives(str_remove_prefix(text, t), str_remove_prefix(meant, a), {})
            \/ Gives(str_remove_suffix(text, t), str_remove_suffix(meant, a), {})
            \/ Gives(str_remove_surrounding(text, t, t), RemoveSurrounding(meant, a, a),
                     CString(meant) \cup CString(a))
            \/ Gives(str_substring_before(text, t), str_substring_before(meant, a), {})
            \/ Gives(str_substring_after(text, t), str_substring_after(meant, a), {})
            \/ Gives(str_substring_before_last(text, t), str_substring_before_last(meant, a), {})
            \/ Gives(str_substring_after_last(text, t), str_substring_after_last(meant, a), {})
            \/ Gives(str_trim_str(text, t), Trim(meant, Range(a)), CString(meant \o a) \cup Cuts(a))
            \/ Gives(str_trim_start_str(text, t), TrimStart(meant, Range(a)), CString(meant \o a) \cup Cuts(a))
            \/ Gives(str_trim_end_str(text, t), TrimEnd(meant, Range(a)), CString(meant \o a) \cup Cuts(a))
            \/ Gives(str_trim_margin(text, t), str_trim_margin(meant, a), {})
            \/ Gives(str_replace_first_char(text, t), IF meant = <<>> THEN <<>> ELSE a \o Tail(meant), CString(a))
            \/ Gives(string_builder_append(text, t), meant \o a, CString(meant \o a))
            \/ Gives(string_builder_append_line(text, t), meant \o a \o <<10>>, CString(meant \o a))
            \/ Yields(str_zip(text, t), Zip(meant, a), {})
            \/ Yields(str_content_equals(text, t), meant = a, {})
            \/ Yields(str_count_str(text, t), CountText(meant, a), CString(meant \o a))
            \/ Yields(string_builder_contains(text, t), str_contains(meant, a, FALSE), {})
            \/ Yields(string_builder_starts_with(text, t), str_starts_with(meant, a, 0, FALSE), {})
            \/ Yields(string_builder_ends_with(text, t), str_ends_with(meant, a, FALSE), {})
            \/ \E ignoreCase \in BOOLEAN :
                  \/ Yields(str_contains(text, t, ignoreCase), str_contains(meant, a, ignoreCase), {})
                  \/ Yields(str_ends_with(text, t, ignoreCase), str_ends_with(meant, a, ignoreCase), {})
                  \/ Yields(str_compare_to(text, t, ignoreCase), str_compare_to(meant, a, ignoreCase), {})
                  \/ Gives(str_common_prefix_with(text, t, ignoreCase), Common(meant, a, ignoreCase),
                           When(both, "cut"))
                  \/ Gives(str_common_suffix_with(text, t, ignoreCase),
                           Reverse(Common(Reverse(meant), Reverse(a), ignoreCase)),
                           When(both, "cut"))

CharCall ==
    \E a \in {b \in Arguments : Len(b) = 1} :
        \/ Gives(str_trim_char(text, a[1]), Trim(meant, {a[1]}), CString(meant))
        \/ Gives(str_trim_start_char(text, a[1]), TrimStart(meant, {a[1]}), CString(meant))
        \/ Gives(str_trim_end_char(text, a[1]), TrimEnd(meant, {a[1]}), CString(meant))

TextsCall ==
    \E a, b \in Arguments, ignoreCase \in BOOLEAN :
        LET t == Encode(a)
            u == Encode(b)
        IN  \/ Gives(str_replace(text, t, u, ignoreCase), str_replace(meant, a, b, ignoreCase), {})
            \/ Gives(str_replace_first(text, t, u, ignoreCase), str_replace_first(meant, a, b, ignoreCase), {})
            \/ \E limit \in {0, 2} :
                  Yields(str_split(text, <<t, u>>, ignoreCase, limit),
                         EncodeAll(str_split(meant, <<a, b>>, ignoreCase, limit)), {})

TextAndPositionCall ==
    \E a \in Arguments, n \in Positions :
        LET t == Encode(a)
        IN  \/ Gives(str_pad_start(text, n, t), Pad(meant, n, a) \o meant, {})
            \/ Gives(str_pad_end(text, n, t), meant \o Pad(meant, n, a), {})
            \/ Gives(string_builder_set(text, n, t), string_builder_set(meant, n, a), Cuts(meant))
            \/ Gives(string_builder_insert(text, n, t), Insert(meant, n, a),
                     Cuts(meant) \cup CString(a))
            \/ Yields(string_builder_index_of(text, t, n), string_builder_index_of(meant, a, n), Bytes(meant))
            \/ Yields(string_builder_last_index_of(text, t, n), string_builder_last_index_of(meant, a, n),
                      Bytes(meant))
            \/ \E ignoreCase \in BOOLEAN :
                  \/ Yields(str_starts_with(text, t, n, ignoreCase), str_starts_with(meant, a, n, ignoreCase),
                            IF n > 0 THEN Bytes(meant) ELSE {})
                  \/ Yields(str_index_of(text, t, n, ignoreCase), str_index_of(meant, a, n, ignoreCase),
                            Bytes(meant))
                  \/ Yields(str_last_index_of(text, t, n, ignoreCase), str_last_index_of(meant, a, n, ignoreCase),
                            Bytes(meant))
            \/ \E m \in Positions :
                  \/ Gives(str_replace_range(text, n, m, t), ReplaceRange(meant, n, m, a), CString(a))
                  \/ Gives(string_builder_append_range(text, t, n, m),
                           AppendPart(meant, a, n, m), CString(a) \cup Cuts(a))
                  \/ Gives(string_builder_replace(text, n, m, t), Overwrite(meant, n, m, a),
                           CString(a) \cup Cuts(meant))
                  \/ Yields(str_region_matches(text, n, t, 0, m, FALSE),
                            str_region_matches(meant, n, a, 0, m, FALSE), Bytes(meant \o a))

TrimCall ==
    \E p \in Predicates :
        \/ Gives(str_take_while(text, p), TakeWhile(meant, p), {})
        \/ Gives(str_drop_while(text, p), DropWhile(meant, p), {})
        \/ Gives(str_take_last_while(text, p), TakeLastWhile(meant, p), {})
        \/ Gives(str_drop_last_while(text, p), DropLastWhile(meant, p), {})
        \/ Gives(str_filter(text, p), Filter(meant, p), {})
        \/ Gives(str_filter_not(text, p), FilterNot(meant, p), {})
        \/ Gives(str_filter_indexed(text, p), FilterIndexed(meant, p), {})
        \/ Gives(str_trim_start_fn(text, p), DropWhile(meant, p), CString(meant) \cup Cuts(meant))
        \/ Gives(str_trim_end_fn(text, p), DropLastWhile(meant, p), CString(meant) \cup Cuts(meant))
        \/ Gives(str_trim_fn(text, p), TrimWhile(meant, p), CString(meant) \cup Cuts(meant))

CallbackCall ==
    \E p \in Predicates :
        \/ Yields(str_any_fn(text, p), AnyOf(meant, p), {})
        \/ Yields(str_all_fn(text, p), AllOf(meant, p), {})
        \/ Yields(str_none_fn(text, p), LET r == AnyOf(meant, p) IN Unless(r = Raised, ~ r), {})
        \/ Yields(str_count_fn(text, p), CountOf(meant, p), {})
        \/ Yields(str_index_of_first(text, p), IndexOfFirst(meant, p), {})
        \/ Yields(str_index_of_last(text, p), IndexOfLast(meant, p), {})
        \/ Yields(str_first_fn(text, p), FirstOf(meant, p, Raised), {})
        \/ Yields(str_last_fn(text, p), LastOf(meant, p, Raised), {})
        \/ Yields(str_first_or_null_fn(text, p), FirstOf(meant, p, Null), {})
        \/ Yields(str_last_or_null_fn(text, p), LastOf(meant, p, Null), {})
        \/ Yields(str_for_each(text, p), Quiet(meant, p, meant), {})
        \/ Yields(str_for_each_indexed(text, p), Quiet(meant, p, Indexed(meant)), {})
        \/ Yields(str_map(text, p), Quiet(meant, p, meant), {})
        \/ Yields(str_map_indexed(text, p), Quiet(meant, p, Indexed(meant)), {})
        \/ Yields(str_fold(text, p), Quiet(meant, p, meant), {})
        \/ Yields(str_running_fold(text, p), Quiet(meant, p, Growing(meant, 0)), {})
        \/ Yields(str_reduce(text, p),
                  IF meant = <<>> THEN Raised ELSE Quiet(Tail(meant), p, meant), {})
        \/ Yields(str_running_reduce(text, p),
                  IF meant = <<>> THEN <<>> ELSE Quiet(Tail(meant), p, Growing(meant, 1)), {})
        \/ Yields(str_zip_with_next_transform(text, p),
                  Unless(Len(meant) > 1 /\ Raises(meant, p, {}), Pairs(meant)), {})
        \/ \E a \in Arguments :
              Yields(str_zip_transform(text, Encode(a), p),
                     Quiet(Span(meant, 1, Len(a)), p, Zip(meant, a)), {})
        \/ Yields(str_partition(text, p),
                  Quiet(meant, p, EncodeAll(<<Filter(meant, p), FilterNot(meant, p)>>)), {})
        \/ Yields(str_associate(text, p), Quiet(meant, p, LastFor(meant, p)), {})
        \/ Yields(str_associate_by(text, p), Quiet(meant, p, LastFor(meant, p)), {})
        \/ Yields(str_associate_with(text, p), Quiet(meant, p, Answers(meant, p)), {})
        \/ Yields(str_group_by(text, p), Quiet(meant, p, Groups(meant, p)), {})

Next ==
    \/ PlainCall \/ AnswerCall \/ PositionCall \/ RangeCall
    \/ TextCall \/ CharCall \/ TextsCall \/ TextAndPositionCall
    \/ TrimCall \/ CallbackCall

Spec == Init /\ [][Next]_vars

-----------------------------------------------------------------------------
(* No function leaves half a character behind, but for those that cut at   *)
(* bytes; so whatever is decoded later is what was written (bound: a       *)
(* result of more than four times MaxSize is not decoded).                 *)
TextsAreWellFormed ==
    "cut" \notin doubt /\ Len(text) <= 4 * MaxSize => text = Encode(CodePoints(text))

(* Every function means the same on characters as it does on bytes, but    *)
(* for the causes of doubt: C strings that end at a NUL, positions and     *)
(* callbacks in bytes, a byte set or a common part of wide characters, an  *)
(* end beyond Int, the case of a character beyond the tables and a number  *)
(* beyond Int; and whatever the doubt, only those that cut at bytes leave  *)
(* half a character behind (StringFunctions.hpp, AString.hpp).             *)
AnswersAreMeant == (doubt = {} => answer = expected /\ text = Encode(meant)) /\ TextsAreWellFormed
==============================================================================
