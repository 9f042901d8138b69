--------------------------------- MODULE Into ---------------------------------
(***************************************************************************)
(* The conversions of MtFmT (src/src/mm_into.c): the characters that they  *)
(* write for an integer, a quantized number and a time.                    *)
(*                                                                         *)
(* Words have Bits bits, 32 in the code; the accumulator of a fraction has *)
(* twice as many.  A conversion that pushes its digits from the last to    *)
(* the first and turns them round is written in the order they end in.     *)
(***************************************************************************)
EXTENDS Integers, Sequences, SequencesExt

CONSTANTS
  Bits,          \* the bits of uint32_t
  HardwareDiv    \* _MSTR_USE_HARDWARE_DIV: the processor divides

ASSUME IntoAssumption == Bits \in Nat \ {0} /\ HardwareDiv \in BOOLEAN

Modulus == 2^Bits

\* The characters of the digits: hex_base is "a" or "A".
DigitChars(hex_base) ==
  <<"0", "1", "2", "3", "4", "5", "6", "7", "8", "9">>
  \o IF hex_base = "a" THEN <<"a", "b", "c", "d", "e", "f">> ELSE <<"A", "B", "C", "D", "E", "F">>

--------------------------------------------------------------------------------
(* Division by ten.                                                            *)

Division(div, rem) == [div |-> div, rem |-> rem]

\* Mutant: the remainder may be ten.
CorrectedLate(x, q) ==
  LET r == x - (q * 10)
  IN  IF r > 10 THEN Division(q + 1, r - 10) ELSE Division(q, r)

\* The quotient, from one that is right or too small by one.
Corrected(x, q) ==
  LET r == x - (q * 10)
  IN  IF r > 9 THEN Division(q + 1, r - 10) ELSE Division(q, r)

\* About x * 0.8: a half and a quarter of x, and what the sum of its shifts adds.
FourFifths(x) ==
  LET half   == (x \div 2) + (x \div 4)
      by_4   == half + (half \div 16)
      by_8   == by_4 + (by_4 \div 256)
  IN  by_8 + (by_8 \div 65536)

div_mod_10(x) ==
  IF HardwareDiv THEN Division(x \div 10, x % 10) ELSE Corrected(x, FourFifths(x) \div 8)

\* For twice the bits there is one more shift, by 32.
div_mod_10_u64(x) ==
  LET q == FourFifths(x)
  IN  IF HardwareDiv THEN Division(x \div 10, x % 10)
                     ELSE Corrected(x, (q + ((q \div 65536) \div 65536)) \div 8)

--------------------------------------------------------------------------------
(* Integers.                                                                   *)

\* A number other than 0 in base 10, by the division for one word or for two; of 0 there
\* are no digits.
Pushed(value, words) ==
  LET Div(v) == IF words = 1 THEN div_mod_10(v) ELSE div_mod_10_u64(v)
      digits[v \in Nat] ==
        IF v = 0 THEN <<>> ELSE Append(digits[Div(v).div], DigitChars("a")[Div(v).rem + 1])
  IN  digits[value]

utoa_impl_10base(value) == IF value = 0 THEN <<"0">> ELSE Pushed(value, 1)

\* In base 2, 8 or 16, where the digits are groups of bits.
utoa_impl_2base(index, hex_base, value) ==
  LET digits[v \in Nat] ==
        IF v = 0 THEN <<>> ELSE Append(digits[v \div index], DigitChars(hex_base)[(v % index) + 1])
  IN  IF value = 0 THEN <<"0">> ELSE digits[value]

\* What stands in front of the digits, their base and their letters.
IntIndex(prefix, base, hex_base) == [prefix |-> prefix, base |-> base, hex_base |-> hex_base]

fmt_type_as_integer_index ==
  [Binary |-> IntIndex(<<>>, 2, "a"), Oct |-> IntIndex(<<>>, 8, "a"),
   Deciaml |-> IntIndex(<<>>, 10, "a"), UnSpec |-> IntIndex(<<>>, 10, "a"),
   Hex |-> IntIndex(<<>>, 16, "a"), Hex_UpperCase |-> IntIndex(<<>>, 16, "A"),
   Hex_WithPrefix |-> IntIndex(<<"0", "x">>, 16, "a"),
   Hex_UpperCase_WithPrefix |-> IntIndex(<<"0", "X">>, 16, "A")]

mstr_fmt_utoa(value, index) ==
  index.prefix \o IF index.base = 10 THEN utoa_impl_10base(value)
                                     ELSE utoa_impl_2base(index.base, index.hex_base, value)

convert_sign_helper(value, sign) ==
  CASE value < 0                               -> <<"-">>
    [] value > 0 /\ sign = "Always"            -> <<"+">>
    [] value >= 0 /\ sign = "Neg_Or_Space"     -> <<" ">>
    [] OTHER                                   -> <<>>

\* The smallest number is its own negative, and keeps its bits.
abs_u32(x) == IF x > 0 THEN x ELSE (-x) % Modulus

mstr_fmt_itoa(value, index, sign) ==
  convert_sign_helper(value, sign) \o mstr_fmt_utoa(abs_u32(value), index)

--------------------------------------------------------------------------------
(* Quantized numbers: value / 2^quat.                                          *)

Zeros(n) == [i \in 1..n |-> "0"]

\* Without the zeros at its end.
Trimmed(digits) ==
  LET ends == {n \in 1..Len(digits) : digits[n] # "0"}
  IN  SubSeq(digits, 1, IF ends = {} THEN 0 ELSE CHOOSE n \in ends : \A m \in ends : m <= n)

\* The loop over the bits of the fraction, from the highest: each adds its power of
\* five, in a word, to ten times the sum, in two words.
Accumulated(value, quat) ==
  LET after[j \in 0..quat] ==
        IF j = 0 THEN [p5 |-> 1, acc |-> 0]
        ELSE LET before == after[j - 1]
                 p5     == (before.p5 * 5) % Modulus
                 bit    == (value \div 2^(quat - j)) % 2
             IN  [p5 |-> p5, acc |-> ((before.acc * 10) + (bit * p5)) % (Modulus * Modulus)]
  IN  after[quat].acc

\* The digits behind the point, as many as there are bits before the last zeros are
\* dropped.
uqtoa_helper_dpart(value, quat) ==
  LET digits == Pushed(Accumulated(value, quat), 2)
  IN  IF value = 0 THEN <<"0">> ELSE Zeros(quat - Len(digits)) \o Trimmed(digits)

uqtoa_impl(value, quat) ==
  LET ipart == value \div 2^quat
      dpart == value % 2^quat
  IN  IF value = 0 THEN <<"0">>
      ELSE utoa_impl_10base(ipart)
             \o IF dpart > 0 THEN <<".">> \o uqtoa_helper_dpart(dpart, quat) ELSE <<>>

\* A conversion may refuse.
Converted(chars) == [err |-> "MStr_Ok", chars |-> chars]

Refused(err) == [err |-> err, chars |-> <<>>]

mstr_fmt_uqtoa(value, quat) ==
  IF quat > Bits - 1 \/ quat = 0
  THEN Refused("MStr_Err_UnsupportQuantBits")
  ELSE Converted(uqtoa_impl(value, quat))

mstr_fmt_iqtoa(value, quat, sign) ==
  LET r == mstr_fmt_uqtoa(abs_u32(value), quat)
  IN  [r EXCEPT !.chars = convert_sign_helper(value, sign) \o @]

--------------------------------------------------------------------------------
(* Times.  A number in BCD is the sequence of its four decimal digits, the     *)
(* lowest first.                                                               *)

\* From the digit max_len down to the first; a fixed length stops after len digits,
\* otherwise a zero shows only among the last len.
bcdtoa(bcd, len, max_len, fixed) ==
  LET last == IF fixed THEN max_len - len + 1 ELSE 1
      Shown(p) == bcd[p] > 0 \/ fixed \/ len >= p
      down[p \in 0..max_len] ==
        IF p = 0 \/ p < last THEN <<>>
        ELSE (IF Shown(p) THEN <<DigitChars("a")[bcd[p] + 1]>> ELSE <<>>) \o down[p - 1]
  IN  down[max_len]

\* What an item shows of the time, and of how many digits at most.
MaxLen(value_type) ==
  CASE value_type \in {"Year", "SubSecond"} -> 4
    [] value_type = "Week"                  -> 1
    [] OTHER                                -> 2

\* There is no clock of 12 hours: both items show the hour.
TimeValue(tm, value_type) == IF value_type = "Hour24" THEN tm.Hour ELSE tm[value_type]

mstr_fmt_ttoa(tm, items) ==
  FlattenSeq([i \in 1..Len(items) |->
    LET item == items[i].item
    IN  bcdtoa(TimeValue(tm, item.value_type), item.format_length, MaxLen(item.value_type),
               item.fixed_length)
          \o items[i].split])
===============================================================================
