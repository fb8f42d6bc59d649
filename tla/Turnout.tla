------------------------------ MODULE Turnout ------------------------------
(***************************************************************************)
(* The arithmetic of a poll whose threshold depends on its turnout         *)
(* (vote_lib/tally/turnout_tally.move), on the binary fractions of         *)
(* fixed_point32: a ratio is cut to 32 fractional bits when it is made and *)
(* the product is cut to an integer.  Percentages have two decimals: 1250  *)
(* is 12.50%.                                                              *)
(***************************************************************************)
EXTENDS Integers

PCT_SCALE == 10000
LOW_TURNOUT_X1 == 1250
HIGH_TURNOUT_X2 == 8750
THRESH_AT_LOW_TURNOUT_Y1 == 10000
THRESH_AT_HIGH_TURNOUT_Y2 == 5100

(***************************************************************************)
(* (n * 2^32) % d = 0: the ratio n/d has an exact representation.  The     *)
(* product is reduced at every doubling to stay within TLC's integers.     *)
(***************************************************************************)
Exact(n, d) ==
  LET residue[k \in 0..32] == IF k = 0 THEN n % d ELSE (2 * residue[k - 1]) % d
  IN residue[32] = 0

(***************************************************************************)
(* multiply_u64(x, create_from_rational(n, d)).  Cutting n/d loses less    *)
(* than x/2^32 of the product; for x * d <= 2^32 that only shows when d    *)
(* divides x * n, where the product then falls one short.                  *)
(***************************************************************************)
FixedMul(x, n, d) ==
  LET whole == (x * n) \div d
  IN IF (x * n) % d = 0 /\ x * n > 0 /\ ~ Exact(n, d) THEN whole - 1 ELSE whole

\* get_current_ballot_participation, for 0 < max: the share of the enrolled
\* votes that has been cast
Participation(approve, reject, max) == FixedMul(PCT_SCALE, approve + reject, max)

\* get_current_ballot_approval
Approval(approve, reject) ==
  IF approve + reject = 0 THEN 0 ELSE FixedMul(PCT_SCALE, approve, approve + reject)

\* abs_m of get_threshold_from_turnout times x
Slope(x) == FixedMul(x, THRESH_AT_LOW_TURNOUT_Y1 - THRESH_AT_HIGH_TURNOUT_Y2,
                        HIGH_TURNOUT_X2 - LOW_TURNOUT_X1)

\* The line from (12.50%, 100%) to (87.50%, 51%), flat outside
ThresholdAt(x) ==
  IF x < LOW_TURNOUT_X1 THEN THRESH_AT_LOW_TURNOUT_Y1
  ELSE IF x > HIGH_TURNOUT_X2 THEN THRESH_AT_HIGH_TURNOUT_Y2
  ELSE (THRESH_AT_LOW_TURNOUT_Y1 + Slope(LOW_TURNOUT_X1)) - Slope(x)

\* get_threshold_from_turnout
ThresholdFromTurnout(voters, max) == ThresholdAt(FixedMul(PCT_SCALE, voters, max))

\* get_current_threshold_required: below the minimum turnout, the threshold
\* at the minimum
ThresholdRequired(approve, reject, max, minTurnout) ==
  IF Participation(approve, reject, max) < minTurnout
    THEN ThresholdFromTurnout(FixedMul(max, minTurnout, PCT_SCALE), max)
    ELSE ThresholdFromTurnout(approve + reject, max)

\* The condition under which save_tally completes the poll as passed
Passes(approve, reject, max, minTurnout) ==
  /\ Approval(approve, reject) >= ThresholdRequired(approve, reject, max, minTurnout)
  /\ Participation(approve, reject, max) >= minTurnout
=============================================================================
