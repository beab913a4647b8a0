---------------------------- MODULE MCFeeLedger ----------------------------
(* Instances of FeeLedger for TLC. *)
EXTENDS FeeLedger, TLC

CONSTANTS s1, s2, f1, f2, p1, p2, r1, r2, x

(* A fee of two units that is due at once and fined one unit when late, and *)
(* one of three units due on day 1 and fined one unit for every day since.  *)
LateFee == [amount |-> 2, due |-> 0, grace |-> 0,
            fineType |-> "FIXED", fineValue |-> 1]
DailyFee == [amount |-> 3, due |-> 1, grace |-> 0,
             fineType |-> "DAILY_FIXED", fineValue |-> 1]
MCFee == [f \in Structures |-> IF f = f1 THEN LateFee ELSE DailyFee]
MCScholarships == {[type |-> "PERCENTAGE", value |-> 50]}
MCResets == {{s1}}
MCTrim == [ref \in References \cup {None} |-> ref]
Symmetry == Permutations(Payments) \cup Permutations(Requests)
=============================================================================
