---------------------------- MODULE MC_DedupStore ----------------------------
(* DedupStore for TLC, with names: the family of testcases each of the     *)
(* runs is about.                                                          *)
EXTENDS Lineage, TLC

CONSTANTS m, n

\* t1 and t2 repeat a PM map; u1, found from t1, repeats it too, and u2,
\* found from the crash site c1 of t1, has the execution map of u1 only.
\* c2 is a crash site of u1.
t1 == Stage1Name(1)
t2 == Stage1Name(2)
u1 == ChildName(t1, 1)
c1 == Stage1CrashSite(t1, 1)
u2 == ChildName(c1, 1)
c2 == Stage2CrashSite(t1, 1, 1)

MCTC1    == {t1, t2}
MCTC2    == {u1, u2}
MCCS     == {c1, c2}
MCOrigin == u1 :> t1 @@ u2 :> c1 @@ c1 :> t1 @@ c2 :> u1
MCExec   == t1 :> m @@ t2 :> n @@ u1 :> m @@ u2 :> m
MCPM     == t1 :> m @@ t2 :> m @@ u1 :> m @@ u2 :> NoMap
MCImage  == c1 :> m @@ c2 :> n

\* No crash sites: t1 and t2 repeat a PM map, u1 and w2 another one.
w2         == ChildName(t2, 1)
PairTC2    == {u1, w2}
PairOrigin == u1 :> t1 @@ w2 :> t2
PairPM     == t1 :> m @@ t2 :> m @@ u1 :> n @@ w2 :> n
PairExec   == PairPM
=============================================================================
