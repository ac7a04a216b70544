---------------------------- MODULE MCIloSession ----------------------------
(* Finite instance of IloSession. *)
EXTENDS IloSession, TLC

\* MountISO calls are interchangeable; only SafetySpec is checked with this.
Symmetry == Permutations(Mounts)
=============================================================================
