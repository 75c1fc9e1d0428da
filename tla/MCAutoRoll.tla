----------------------------- MODULE MCAutoRoll -----------------------------
(***************************************************************************)
(* Small instances of AutoRoll for TLC: the thresholds of the throttles    *)
(* and the symmetry of the CL names.                                       *)
(***************************************************************************)
EXTENDS AutoRoll, TLC

\* The failure throttle allows one attempt, as in NewAutoRoller; the success
\* throttle has a MaxRollFrequency; the safety throttle allows two attempts.
AllThrottles == [t \in Throttles |-> IF t = "safety" THEN 2 ELSE 1]

\* No MaxRollFrequency, and a safety throttle of one attempt.
NoSuccessThrottle == [t \in Throttles |-> IF t = "success" THEN 0 ELSE 1]

\* CL names are interchangeable.
CLSymmetry == Permutations(CLs)
=============================================================================
