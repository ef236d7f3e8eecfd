----------------------------- MODULE PMCoverage -----------------------------
(***************************************************************************)
(* What failure injection promises about PM coverage: the coverage of a    *)
(* process only grows, cell by cell; a crash site is tried only for a      *)
(* coverage none was tried for before.                                     *)
(***************************************************************************)
EXTENDS Naturals

VARIABLES
  level,             \* per cell of the map: how much it has counted
  tried              \* the coverages crash sites were tried for, and made
                     \* or not

coverageVars == <<level, tried>>

Uncovered == [c \in DOMAIN level |-> 0]

Init == level = Uncovered /\ tried = {}

Grow ==
  /\ DOMAIN level' = DOMAIN level
  /\ \A c \in DOMAIN level : level'[c] \in Nat /\ level'[c] >= level[c]
  /\ UNCHANGED tried

Try ==
  /\ level \notin tried \cup {Uncovered}
  /\ tried' = tried \cup {level}
  /\ UNCHANGED level

Next == Grow \/ Try

Spec == Init /\ [][Next]_coverageVars
=============================================================================
