------------------------------ MODULE NativeText ------------------------------
(***************************************************************************)
(* Text as native code computes it: the string primitives of               *)
(* kira_native_bridge/src/runtime_helpers.c, which mirror the VM's, and    *)
(* the token functions of foundation/NativeLibs/ArgumentParser.  A text is *)
(* a sequence of characters; each operator is one C function.              *)
(***************************************************************************)
EXTENDS Integers, Sequences, FiniteSets, SequencesExt, FiniteSetsExt

CONSTANT Radix      \* ten; an instance may use fewer digits

ASSUME TextAssumption == Radix \in 2 .. 10

\* Characters; a digit is its own value.
Dash == 45
Equals == 61
Point == 46

-----------------------------------------------------------------------------
(* String primitives.  Indices count from zero.                            *)

SubstringTraps(s, start, end) == start < 0 \/ end > Len(s) \/ start > end
kira_string_substring(s, start, end) == SubSeq(s, start + 1, end)

\* The positions the search loop compares.
Scanned(hlen, nlen) == 0 .. hlen - nlen

kira_string_index_of(haystack, needle) ==
  LET hits == {i \in Scanned(Len(haystack), Len(needle)) :
                 SubSeq(haystack, i + 1, i + Len(needle)) = needle}
  IN  IF needle = <<>> THEN 0 ELSE IF hits = {} THEN -1 ELSE Min(hits)

\* kira_string_from_f64 after snprintf chose the form D[.DDD]e[+-]XX: the
\* exponent is spelled out.  `digits` are the mantissa's, `point` counts the
\* ones before the point.
Zeros(n) == [k \in 1 .. n |-> 0]

\* Where the point falls among the digits.  Mutant: one place to the left.
PointOffByOne(point, exp10) == point + exp10 - 1
PointPosition(point, exp10) == point + exp10

kira_string_from_f64(neg, digits, point, exp10) ==
  LET dp == PointPosition(point, exp10) IN
  (IF neg THEN <<Dash>> ELSE <<>>)
    \o IF dp <= 0 THEN <<0, Point>> \o Zeros(-dp) \o digits
       ELSE IF dp >= Len(digits) THEN digits \o Zeros(dp - Len(digits))
       ELSE SubSeq(digits, 1, dp) \o <<Point>> \o SubSeq(digits, dp + 1, Len(digits))

-----------------------------------------------------------------------------
(* Command line tokens.                                                    *)

StartsWith(token, prefix) == IsPrefix(prefix, token)

kap_classify_token(token) ==
  IF token = <<>> THEN "EMPTY"
  ELSE IF token = <<Dash, Dash>> THEN "COMMAND_TERMINATOR"
  ELSE IF StartsWith(token, <<Dash, Dash>>) THEN "LONG_OPTION"
  ELSE IF StartsWith(token, <<Dash>>) /\ Len(token) > 1 THEN "SHORT_OPTION"
  ELSE "POSITIONAL"

\* strchr(text, '='): its index, Len if there is none.
EqualsAt(text) ==
  LET at == {i \in DOMAIN text : text[i] = Equals}
  IN  IF at = {} THEN Len(text) ELSE Min(at) - 1

\* Any token with an '=', a positional one too.
kap_has_inline_value(token) == EqualsAt(token) < Len(token)

Dashes(token) ==
  IF StartsWith(token, <<Dash, Dash>>) THEN 2
  ELSE IF StartsWith(token, <<Dash>>) THEN 1 ELSE 0

NameOf(start) == SubSeq(start, 1, EqualsAt(start))

kap_option_name(token) == NameOf(SubSeq(token, Dashes(token) + 1, Len(token)))

kap_inline_value(token) ==
  IF kap_has_inline_value(token) THEN SubSeq(token, EqualsAt(token) + 2, Len(token)) ELSE <<>>

-----------------------------------------------------------------------------
(* What the results mean.                                                  *)

Digit == 0 .. Radix - 1

\* Radix ^ n, and the number a digit sequence denotes: num[k] by its first k digits.
Power(n) ==
  LET power[k \in 0 .. n] == IF k = 0 THEN 1 ELSE Radix * power[k - 1] IN power[n]

NumberOf(digits) ==
  LET num[k \in 0 .. Len(digits)] == IF k = 0 THEN 0 ELSE Radix * num[k - 1] + digits[k]
  IN  num[Len(digits)]

\* The place of the point, the end of the text if there is none.
PointAt(text) ==
  LET at == {i \in DOMAIN text : text[i] = Point}
  IN  IF at = {} THEN Len(text) + 1 ELSE Min(at)

\* The characters from `first` on that are no point, and how many follow the point.
Plain(text, first) ==
  SubSeq(text, first, PointAt(text) - 1) \o SubSeq(text, PointAt(text) + 1, Len(text))
FractionLength(text) == IF PointAt(text) > Len(text) THEN 0 ELSE Len(text) - PointAt(text)

\* `text` is the plain decimal of digits * Radix^(exp10 - digits after the
\* point): a sign, digits with at most one point and a digit on both sides of it, no
\* superfluous zero in front, the same value at `scale` places.
DenotesThe(text, neg, digits, point, exp10, scale) ==
  LET first == IF neg THEN 2 ELSE 1
      last == Len(text)
  IN  /\ (text[1] = Dash) <=> neg
      /\ \A i \in first .. last : text[i] = Point => first < i /\ i < last
      /\ \A i, j \in first .. last : text[i] = Point /\ text[j] = Point => i = j
      /\ text[first] = 0 => last > first /\ text[first + 1] = Point
      /\ Plain(text, first) \in Seq(Digit)
      /\ NumberOf(Plain(text, first)) * Power(scale - FractionLength(text))
           = NumberOf(digits) * Power(scale + exp10 - (Len(digits) - point))
===============================================================================
