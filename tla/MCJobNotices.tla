----------------------------- MODULE MCJobNotices -----------------------------
(* Symmetry for the model runs of JobNotices that check no liveness.       *)
EXTENDS JobNotices, TLC

JobSymmetry == Permutations(Jobs) \cup Permutations(Callers)
=============================================================================
