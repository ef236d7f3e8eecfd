--------------------------- MODULE TestcaseStore ---------------------------
(***************************************************************************)
(* What the global store of testcases promises to those who use it,        *)
(* without files, directories, queues and stages: a testcase arrives whole *)
(* and once; it may be dropped, only for one that repeats its PM map, and  *)
(* then never arrives again; its image stays. DedupStore implements it.    *)
(***************************************************************************)
CONSTANTS
  Testcase,
  Later,        \* those that stage 2 has found, not in the store till its end
  Map,          \* per testcase: its PM map
  Plain         \* the Map of a testcase that found no new PM behaviour

VARIABLES
  sole,         \* only stage 1 uses the store
  stored,       \* the testcases of the store
  dropped,      \* those it had
  images        \* the testcases it has an image of

storeVars == <<sole, stored, dropped, images>>

Init ==
  /\ sole \in BOOLEAN
  /\ stored = {} /\ dropped = {} /\ images = {}

Add(new) ==
  /\ new \cap (stored \cup dropped) = {}
  /\ stored' = stored \cup new
  /\ images' = images \cup new
  /\ UNCHANGED <<sole, dropped>>

(* With stage 2, the testcase that is kept in the place of another one is  *)
(* one that is still on its way to the store, or one that has been dropped *)
(* before, as the stages do not agree on what they keep.                   *)
Drop(old) ==
  /\ old \subseteq stored
  /\ stored' = stored \ old
  /\ dropped' = dropped \cup old
  /\ UNCHANGED <<sole, images>>
  /\ \A t \in old :
       /\ Map[t] # Plain
       /\ \E k \in IF sole THEN stored'
                   ELSE (stored \cup dropped \cup Later) \ old :
            Map[k] = Map[t]

Next == \E S \in SUBSET Testcase : Add(S) \/ Drop(S)

Spec == Init /\ [][Next]_storeVars
=============================================================================
