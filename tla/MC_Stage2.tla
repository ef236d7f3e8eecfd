----------------------------- MODULE MC_Stage2 -----------------------------
(* Small instances of Stage2 for TLC. Testcases and crash sites are        *)
(* distinct model values; neither kind is ordered, so each is a symmetry   *)
(* set where only safety is checked.                                       *)
EXTENDS Stage2, TLC

CONSTANTS t1, t2, t3, c1, c2

TwoTC   == {t1, t2}
ThreeTC == {t1, t2, t3}
OneCS   == {c1}
TwoCS   == {c1, c2}

AllJobs  == TC \cup CS
SomeJobs == {t1, t2, c1}
Symmetry == Permutations(TC) \cup Permutations(CS)
=============================================================================
