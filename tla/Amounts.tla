------------------------------- MODULE Amounts -------------------------------
(***************************************************************************)
(* utils.ts: amounts of a token as numbers and back.  A BN counts the      *)
(* smallest units exactly; a number is a float, and every operation on     *)
(* numbers is rounded to its mantissa.                                     *)
(*                                                                         *)
(* Floats are integers here, in units of 2^-Scale; the mantissa has        *)
(* Mantissa bits instead of 53.  An amount is converted to a number (or    *)
(* typed as one), converted back, and shown to a reader.                   *)
(***************************************************************************)
EXTENDS Integers

CONSTANTS
  Mantissa,   \* bits of a float's mantissa
  Scale,      \* bits of the smallest fraction any operation needs
  Decimals,   \* decimals of the tokens
  ShownDigits,  \* decimals a reader is shown at most: 4 in the code
  MaxAmount   \* bound of the model: the largest amount

VARIABLES
  amount, decimals,   \* units of a token, and how many of its digits are decimals
  way,      \* how the amount becomes a number: "typed" or "converted"
  number,   \* the float
  back,     \* the amount made of it
  shown     \* the float a reader is shown

vars == <<amount, decimals, way, number, back, shown>>

None == -1      \* not yet computed
Thrown == -2    \* an exception
One == 2 ^ Scale
Factor(d) == 10 ^ d
Safe == 2 ^ Mantissa   \* a BN makes a number, and a number a BN, only below it: a factor too

Init ==
  /\ amount \in 0..MaxAmount /\ decimals \in Decimals /\ way \in {"typed", "converted"}
  /\ number = None /\ back = None /\ shown = None

-----------------------------------------------------------------------------
(* Floats *)

\* n / d to the nearest integer, of two to the even one.
Nearest(n, d) ==
  LET q == n \div d
      r == 2 * (n % d)
  IN IF r > d \/ (r = d /\ q % 2 = 1) THEN q + 1 ELSE q

\* The float next to n / d.
Float(n, d) ==
  LET e == CHOOSE e \in 0..(2 * Scale) :
             n < d * 2 ^ (Mantissa + e) /\ (e > 0 => n >= d * 2 ^ (Mantissa + e - 1))
  IN Nearest(n, d * 2 ^ e) * 2 ^ e

-----------------------------------------------------------------------------
(* The conversions *)

\* amountAsNum: the units beyond the whole ones, divided, and the whole ones.
AmountAsNum(a, d) ==
  IF Factor(d) >= Safe \/ a \div Factor(d) >= Safe THEN Thrown
  ELSE Float((a \div Factor(d)) * One + Float((a % Factor(d)) * One, Factor(d)), 1)

\* Plausible slip: the fraction is cut off instead of rounded.
ToBNCutOff(x, d) ==
  IF Factor(d) >= Safe \/ x \div One >= Safe THEN Thrown
  ELSE (x \div One) * Factor(d) + Float((x % One) * Factor(d), 1) \div One

\* toBN: the whole part and the fraction are converted apart, the fraction rounded.
ToBN(x, d) ==
  IF Factor(d) >= Safe \/ x \div One >= Safe THEN Thrown
  ELSE (x \div One) * Factor(d) + (2 * Float((x % One) * Factor(d), 1) + One) \div (2 * One)

\* roundToDecimals rounds to no digit: it cuts them off.
RoundToDecimals(x, d) == Float((Float(x * Factor(d), 1) \div One) * One, Factor(d))

\* humanReadable, and numberWithCommas in it: cut off to the token's decimals, then to those that are shown.
HumanReadable(x, d) == RoundToDecimals(RoundToDecimals(x, d), ShownDigits)

ToNumber ==
  /\ number = None
  /\ number' = IF way = "typed" THEN Float(amount * One, Factor(decimals))
               ELSE AmountAsNum(amount, decimals)
  /\ UNCHANGED <<amount, decimals, way, back, shown>>

ToAmount ==
  /\ number >= 0 /\ back = None
  /\ back' = ToBN(number, decimals)
  /\ UNCHANGED <<amount, decimals, way, number, shown>>

Show ==
  /\ number >= 0 /\ shown = None
  /\ shown' = HumanReadable(number, decimals)
  /\ UNCHANGED <<amount, decimals, way, number, back>>

Next == ToNumber \/ ToAmount \/ Show

Spec == Init /\ [][Next]_vars

-----------------------------------------------------------------------------
(* Properties *)

\* The bound in the code's terms: amounts below 2^51 units, a quarter of what a number counts
\* one by one, of a token of at most 15 decimals.
Exact == amount < 2 ^ (Mantissa - 2) /\ Factor(decimals) < Safe

\* Below the bound no rounding, of the number, of its fraction or of their sum, costs a unit:
\* what is typed, or converted, comes back as the same amount, a fraction that is rounded up
\* to a whole included.
UnitsAreKept == Exact => number # Thrown /\ (back # None => back = amount)

\* The digits a reader sees of the float he is shown, and those there are of n units.
Digits == (2 * shown * Factor(ShownDigits) + One) \div (2 * One)
DigitsOf(n) == (n * Factor(ShownDigits)) \div Factor(decimals)

\* Below the bound, for units and digits, a reader never sees more than there is, and less by
\* what the two cuts may cost: a unit of the token, and then a digit of those that are shown.
NeverOverstated ==
  Exact /\ DigitsOf(amount) < 2 ^ (Mantissa - 2) /\ shown # None =>
    Digits \in (DigitsOf(amount - 1) - 1)..DigitsOf(amount)
=============================================================================
