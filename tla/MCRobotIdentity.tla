-------------------------- MODULE MCRobotIdentity --------------------------
(***************************************************************************)
(* RobotIdentity for TLC: two IDs, one of them the default, so that one    *)
(* can replace the other and a missing one can be told from both.  Two     *)
(* processes, each running one command after another, for what             *)
(* interleaves; one process, with domain IDs to set as well, for what must *)
(* hold of a single command after any history of failures.                 *)
(***************************************************************************)
EXTENDS RobotIdentity, TLC

Symmetry == Permutations(Procs)
=============================================================================
