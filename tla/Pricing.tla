------------------------------ MODULE Pricing ------------------------------
(***************************************************************************)
(* The formulas of the pricing module, over integers: a multiplier in      *)
(* hundredths, a distance in metres (the decimal digits below are left     *)
(* out), a fare in cents.                                                  *)
(***************************************************************************)
EXTENDS Integers

SURGE_MIN_MULTIPLIER == 100
SURGE_MAX_MULTIPLIER == 300

\* Decimal.quantize with ROUND_HALF_UP, of a / b hundredths.
HalfUp(a, b) == (2 * a + b) \div (2 * b)

\* In twentieths of a cent: 2.00 and 1.50 a kilometre.
calculate_base_fare(metres) == 4000 + 3 * metres

\* Variant for the mutation runs: the ratio is clamped from above only.
compute_surge_unclamped(pending, available) ==
  IF available = 0 \/ pending >= 3 * available THEN SURGE_MAX_MULTIPLIER
  ELSE HalfUp(100 * pending, available)

compute_surge_multiplier(pending, available) ==
  IF available = 0 \/ pending >= 3 * available THEN SURGE_MAX_MULTIPLIER
  ELSE IF pending <= available THEN SURGE_MIN_MULTIPLIER
  ELSE HalfUp(100 * pending, available)

calculate_fare(metres, surge) == HalfUp(calculate_base_fare(metres) * surge, 2000)

\* A fare is at least the base fare and at most three times it, but for the
\* half cent of the rounding.
FareInRange(metres, fare) ==
  LET base == calculate_base_fare(metres) IN
  20 * fare \in (base - 10)..(3 * base + 10)
=============================================================================
