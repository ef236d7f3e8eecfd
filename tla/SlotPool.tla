------------------------------ MODULE SlotPool ------------------------------
(***************************************************************************)
(* What the two schedulers of PMFuzz promise, without timers, files, passes*)
(* and polling: a member gets a process at most once, the members that     *)
(* have one at the same time are a set that is allowed to, and a process   *)
(* that goes away leaves a result behind. Stage 2 implements it for its    *)
(* testcases and their fuzzers (Stage2), helper/parallel.py for its jobs   *)
(* and their workers (Parallel).                                           *)
(***************************************************************************)
CONSTANTS
  Member,       \* what has to be run
  Allowed       \* the sets of members that may have processes together

VARIABLES
  busy,         \* members that have a process
  ended         \* members whose results are in

poolVars == <<busy, ended>>

Init == busy = {} /\ ended = {}

Acquire(m) ==
  /\ m \notin busy \cup ended
  /\ busy' = busy \cup {m}
  /\ busy' \in Allowed
  /\ UNCHANGED ended

Release(m) ==
  /\ m \in busy
  /\ busy' = busy \ {m}
  /\ ended' = ended \cup {m}

(* A restart forgets both.                                                 *)
Forget == busy' = {} /\ ended' = {}

Next == (\E m \in Member : Acquire(m) \/ Release(m)) \/ Forget

Spec == Init /\ [][Next]_poolVars
=============================================================================
