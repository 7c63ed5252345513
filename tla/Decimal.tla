------------------------------- MODULE Decimal -------------------------------
(***************************************************************************)
(* The fixed-point numbers of core/financial/decimal.c: a signed mantissa  *)
(* of Bits bits (128 in the code) and a scale of 0 to MaxScale decimal     *)
(* places (18).  Products and quotients go through unsigned words of       *)
(* 2*Bits bits, here plain naturals; the two routines that put those words *)
(* together by hand, u128_mul_u128 and u256_div_rem, are modelled limb by  *)
(* limb and step by step.                                                  *)
(*                                                                         *)
(* The state is only the input of the next calls, so that the properties   *)
(* are checked for every input TLC is given.                               *)
(***************************************************************************)
EXTENDS Integers

CONSTANTS Bits,        \* width of a mantissa, even
          Radix,       \* 10
          MaxScale,    \* DECIMAL_MAX_SCALE
          Mantissas    \* the mantissas TLC tries

VARIABLES word,        \* operand of the word routines
          left, right  \* operands of the arithmetic

decimalVars == <<word, left, right>>

Word == 2 ^ Bits
Half == 2 ^ (Bits \div 2)
Top == 2 ^ (Bits - 1)                 \* mantissas are -Top .. Top - 1
Pow10(n) == Radix ^ n

Modes == {"half_up", "half_even", "down", "up", "ceil", "floor"}
Scales == 0 .. MaxScale
Decimals == [m : Mantissas, s : Scales]

Mag(x) == IF x < 0 THEN -x ELSE x
Larger(x, y) == IF x > y THEN x ELSE y
Fits(x) == x \in -Top .. Top - 1
Overflow == [ok |-> FALSE, m |-> 0, s |-> 0]
Ok(m, s) == IF Fits(m) THEN [ok |-> TRUE, m |-> m, s |-> s] ELSE Overflow

-----------------------------------------------------------------------------
(* Double words *)

(* u128_mul_u128: four products of half words; the two additions of the *)
(* middle half words wrap, and their carries go to the upper word.      *)
Multiply(a, b) ==
  LET p0 == (a % Half) * (b % Half)
      p1 == (a % Half) * (b \div Half)
      p2 == (a \div Half) * (b % Half)
      p3 == (a \div Half) * (b \div Half)
      mid == (p1 + p0 \div Half) % Word
      mid2 == (mid + p2) % Word
      carry == (IF mid < p1 THEN Half ELSE 0) + (IF mid2 < mid THEN Half ELSE 0)
  IN  [lo |-> (mid2 % Half) * Half + (p0 % Half), hi |-> (p3 + mid2 \div Half + carry) % Word]

Value(d) == d.hi * Word + d.lo
Product(a, b) == Value(Multiply(a, b))

BitLength(x) == CHOOSE n \in 0 .. 2 * Bits : x < 2 ^ n /\ (n = 0 \/ 2 ^ (n - 1) <= x)

(* u256_div_rem: the divisor is moved under the highest bit of the dividend *)
(* and taken off it, one bit of the quotient after the other.               *)
DivRem(num, den) ==
  IF num < den THEN [q |-> 0, rem |-> num]
  ELSE LET shift == BitLength(num) - BitLength(den)
           step[i \in 0 .. shift + 1] ==
             IF i = 0 THEN [q |-> 0, rem |-> num]
             ELSE LET p == step[i - 1]
                      d == den * 2 ^ (shift - i + 1)
                  IN  IF p.rem >= d THEN [q |-> p.q + 2 ^ (shift - i + 1), rem |-> p.rem - d] ELSE p
       IN  step[shift + 1]

-----------------------------------------------------------------------------
(* Arithmetic *)

(* RoundsUp without the sign in the two directed modes. *)
RoundsUp_BySize(mode, neg, q, rem, den) ==
  CASE mode = "half_up" -> 2 * rem >= den
    [] mode = "half_even" -> 2 * rem > den \/ (2 * rem = den /\ q % 2 = 1)
    [] mode \in {"up", "ceil"} -> rem > 0
    [] OTHER -> FALSE

(* The switch of decimal_div and decimal_round, on magnitudes. *)
RoundsUp(mode, neg, q, rem, den) ==
  CASE mode = "half_up" -> 2 * rem >= den
    [] mode = "half_even" -> 2 * rem > den \/ (2 * rem = den /\ q % 2 = 1)
    [] mode = "up" -> rem > 0
    [] mode = "ceil" -> ~neg /\ rem > 0
    [] mode = "floor" -> neg /\ rem > 0
    [] OTHER -> FALSE

Rounded(qr, den, neg, mode, s) ==
  LET q == qr.q + (IF RoundsUp(mode, neg, qr.q, qr.rem, den) THEN 1 ELSE 0)
  IN  Ok(IF neg THEN -q ELSE q, s)

(* decimal_add, and decimal_sub with sign -1: both operands at the larger scale. *)
Add(a, b, sign) ==
  LET s == Larger(a.s, b.s)
      x == a.m * Pow10(s - a.s)
      y == b.m * Pow10(s - b.s)
  IN  IF Fits(x) /\ Fits(y) THEN Ok(x + sign * y, s) ELSE Overflow

(* decimal_mul: scales add up; past MaxScale the product is rounded half up. *)
Mul(a, b) ==
  LET s == a.s + b.s
      prod == Product(Mag(a.m), Mag(b.m))
      neg == (a.m < 0) # (b.m < 0)
      den == Pow10(s - MaxScale)
  IN  IF a.m = 0 \/ b.m = 0 THEN Ok(0, IF s > MaxScale THEN MaxScale ELSE s)
      ELSE IF s > MaxScale THEN Rounded(DivRem(prod, den), den, neg, "half_up", MaxScale)
      ELSE Ok(IF neg THEN -prod ELSE prod, s)

(* decimal_div: to the target scale, in the given mode. *)
Div(a, b, target, mode) ==
  LET shift == target + b.s - a.s
      n == IF shift >= 0 THEN Product(Mag(a.m), Pow10(shift)) ELSE Mag(a.m)
      d == IF shift >= 0 THEN Mag(b.m) ELSE Product(Mag(b.m), Pow10(-shift))
  IN  IF a.m = 0 THEN Ok(0, target)
      ELSE Rounded(DivRem(n, d), d, (a.m < 0) # (b.m < 0), mode, target)

(* decimal_round; decimal_rescale is it with half_up. *)
Round(a, target, mode) ==
  LET p == Pow10(a.s - target)
  IN  IF a.s <= target THEN Ok(a.m * Pow10(target - a.s), target)
      ELSE Rounded([q |-> Mag(a.m) \div p, rem |-> Mag(a.m) % p], p, a.m < 0, mode, target)

(* decimal_cmp: by sign, then by the double words at the larger scale. *)
Sign(x) == IF x < 0 THEN -1 ELSE IF x > 0 THEN 1 ELSE 0
Cmp(a, b) ==
  LET s == Larger(a.s, b.s)
      x == Product(Mag(a.m), Pow10(s - a.s))
      y == Product(Mag(b.m), Pow10(s - b.s))
  IN  IF Sign(a.m) # Sign(b.m) THEN Sign(Sign(a.m) - Sign(b.m))
      ELSE Sign(a.m) * Sign(x - y)

-----------------------------------------------------------------------------
Zero == [m |-> 0, s |-> 0]
DecimalInit == word = 0 /\ left = Zero /\ right = Zero

TakeWord == DecimalInit /\ word' \in 1 .. Word - 1 /\ UNCHANGED <<left, right>>
TakeOperands == DecimalInit /\ left' \in Decimals /\ right' \in Decimals /\ UNCHANGED word

DecimalNext == TakeWord \/ TakeOperands
DecimalSpec == DecimalInit /\ [][DecimalNext]_decimalVars

(* n is num / den (den > 0) rounded in the mode, by the definition in decimal.h. *)
Rounds(n, num, den, mode) ==
  LET below == n * den <= num /\ num < (n + 1) * den
      above == (n - 1) * den < num /\ num <= n * den
      gap == 2 * Mag(n * den - num)
  IN  CASE mode = "floor" -> below
        [] mode = "ceil" -> above
        [] mode = "down" -> IF num < 0 THEN above ELSE below
        [] mode = "up" -> IF num < 0 THEN below ELSE above
        [] mode = "half_up" -> gap < den \/ (gap = den /\ Mag(n * den) > Mag(num))
        [] OTHER -> gap < den \/ (gap = den /\ n % 2 = 0)

(* A call answers the exact result, rounded, and fails exactly when that is *)
(* no mantissa of Bits bits.                                                *)
Right(res, num, den, mode, s) ==
  IF res.ok THEN res.s = s /\ Rounds(res.m, num, den, mode)
  ELSE ~\E n \in -Top .. Top - 1 : Rounds(n, num, den, mode)

(* The product of two words put together from half words is their product:  *)
(* no carry is lost, at any of the three places where one can occur.  And   *)
(* sums, products, quotients and roundings are the exact result, rounded as *)
(* the mode says for both signs, at the scale asked for, and they fail only *)
(* when that result has no mantissa (a sum also when an operand has none at *)
(* the larger scale); comparison is that of the numbers.                    *)
ArithmeticRight ==
  LET a == left
      b == right
      places == a.s + b.s
      s == IF places > MaxScale THEN MaxScale ELSE places
  IN  /\ \A w \in 0 .. Word - 1 : Product(word, w) = word * w
      /\ \A sign \in {1, -1} :
           LET r == Add(a, b, sign) IN
             r.ok => r.m * Pow10(places) =
                       (a.m * Pow10(b.s) + sign * b.m * Pow10(a.s)) * Pow10(r.s)
      /\ Right(Mul(a, b), a.m * b.m, Pow10(places - s), "half_up", s)
      /\ \A target \in Scales, mode \in Modes :
           /\ Right(Round(a, target, mode), a.m * Pow10(target), Pow10(a.s), mode, target)
           /\ b.m # 0 => Right(Div(a, b, target, mode), Sign(b.m) * a.m * Pow10(b.s + target),
                                Mag(b.m) * Pow10(a.s), mode, target)
      /\ Cmp(a, b) = Sign(a.m * Pow10(b.s) - b.m * Pow10(a.s))
=============================================================================
