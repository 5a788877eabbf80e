-------------------------- MODULE MCFinalityTracker -------------------------
(* A small instance of FinalityTracker: three validators, one registry with
   equal weights, one dominated by a single staker, one below the floor. *)
EXTENDS FinalityTracker

CONSTANTS a, b, c

MCRegistries == {[v \in {a, b, c} |-> 1],
                 [v \in {a, b} |-> IF v = a THEN 4 ELSE 1],
                 [v \in {c} |-> 2]}
MCSignerSets == {{a}, {a, b}, {a, b, c}}
=============================================================================
