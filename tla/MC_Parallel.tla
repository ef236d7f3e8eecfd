---------------------------- MODULE MC_Parallel ----------------------------
(* Small instances of Parallel and Collection for TLC.                     *)
EXTENDS Collection, TLC

CONSTANTS j1, j2, j3, j4

FourJobs  == {j1, j2, j3, j4}
ThreeJobs == {j1, j2, j3}
=============================================================================
