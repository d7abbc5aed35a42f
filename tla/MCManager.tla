----------------------------- MODULE MCManager -----------------------------
(***************************************************************************)
(* Instances of the manager for TLC.  Worker ids, job ids and pids are     *)
(* interchangeable: the code compares them for equality only.              *)
(***************************************************************************)
EXTENDS ManagerRegistry, TLC

\* Sound for the safety runs only: liveness is checked without symmetry.
Symmetry ==
  Permutations(Workers) \cup Permutations(Pids) \cup Permutations(Jobs)
=============================================================================
