------------------------------ MODULE Decimal -------------------------------
(***************************************************************************)
(* The fraction txc_scaled_format (packages/tex-core/core/scaled.c) prints *)
(* of a scaled value: TeX's section 103, one step for each digit.  The     *)
(* sign and the digits before the point are those of any integer.          *)
(***************************************************************************)
EXTENDS Integers, Sequences

CONSTANTS Fractions,   (* value % 65536, of the values printed             *)
          One          (* 65536                                            *)

ASSUME DecimalAssumption == One \in Nat \ {0} /\ Fractions \subseteq 0 .. One - 1

VARIABLES scaled, fraction, delta, digits, printed

decimalVars == <<scaled, fraction, delta, digits, printed>>

DecimalInit ==
  /\ scaled \in Fractions
  /\ fraction = 10 * scaled + 5 /\ delta = 10 /\ digits = << >> /\ printed = FALSE

(* The last digit is rounded once delta has outgrown a unit.               *)
Rounded == IF delta > One THEN fraction + One \div 2 - delta \div 2 ELSE fraction

EnoughEarly == fraction' <= 10 * delta'     (* mutant: one digit early        *)

Enough == fraction' <= delta'

PrintDigit ==
  /\ ~printed
  /\ digits' = Append(digits, Rounded \div One)
  /\ fraction' = 10 * (Rounded % One)
  /\ delta' = 10 * delta
  /\ printed' = Enough
  /\ UNCHANGED scaled
=============================================================================
