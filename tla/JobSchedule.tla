---------------------------- MODULE JobSchedule ----------------------------
(***************************************************************************)
(* What the stage 2 scheduler and the testcase stores know of each other:  *)
(* when jobs reach the local store, start, and are terminated. Stage2      *)
(* implements it with timers, pid files and processes, DedupStore with no  *)
(* more than a state per job. So the two modules, which describe the same  *)
(* program with different questions, agree on this.                        *)
(***************************************************************************)
CONSTANTS
  Testcase,
  CrashSite

VARIABLES
  store,        \* the jobs of the local store
  running,      \* those that were started
  done,         \* those whose queue was collected
  phase         \* of stage 2

scheduleVars == <<store, running, done, phase>>

Job == Testcase \cup CrashSite

Init == store = {} /\ running = {} /\ done = {} /\ phase = "idle"

(* A pass begins with the jobs that are new in the global store.           *)
Begin(new) ==
  /\ phase = "idle"
  /\ store' = store \cup new
  /\ phase' \in {"pass", "ended"}
  /\ UNCHANGED <<running, done>>

(* A job of the local store is started once.                               *)
Start(j) ==
  /\ phase = "pass"
  /\ j \in store \ (running \cup done)
  /\ running' = running \cup {j}
  /\ phase' \in {"pass", "ended"}
  /\ UNCHANGED <<store, done>>

(* A job is terminated by a pass; a testcase also when the stage ends. The *)
(* collection that belongs to it may end the program.                      *)
Finish(j) ==
  /\ phase = "pass" \/ (phase = "closing" /\ j \in Testcase)
  /\ j \in running
  /\ running' = running \ {j}
  /\ done' = done \cup {j}
  /\ phase' \in {phase, "ended"}
  /\ UNCHANGED store

EndPass ==
  /\ phase = "pass"
  /\ phase' = "idle"
  /\ UNCHANGED <<store, running, done>>

(* The stage has completed when every testcase of the local store was      *)
(* started,                                                                *)
Close ==
  /\ phase = "idle"
  /\ store \cap Testcase \subseteq running \cup done
  /\ phase' = "closing"
  /\ UNCHANGED <<store, running, done>>

(* and is closed when none runs. Crash sites may: their queues can be      *)
(* collected along with the rest.                                          *)
Closed(also) ==
  /\ phase = "closing"
  /\ running \cap Testcase = {}
  /\ also \subseteq running
  /\ running' = running \ also
  /\ done' = done \cup also
  /\ phase' = "closed"
  /\ UNCHANGED store

(* The program ends, and may be started again with nothing.                *)
End ==
  /\ phase' = "ended"
  /\ UNCHANGED <<store, running, done>>

Forget == Init'

Next ==
  \/ \E S \in SUBSET Job : Begin(S) \/ Closed(S)
  \/ \E j \in Job : Start(j) \/ Finish(j)
  \/ EndPass \/ Close \/ End \/ Forget

Spec == Init /\ [][Next]_scheduleVars
=============================================================================
