------------------------------ MODULE Parallel ------------------------------
(***************************************************************************)
(* The worker pool of PMFuzz, src/src/pmfuzz/helper/parallel.py: run()     *)
(* forks a process per job and busy-waits while `cores` of them are alive; *)
(* wait() is the barrier at the end of a batch. Collection, crash site     *)
(* generation and corpus minimization all go through it.                   *)
(*                                                                         *)
(* alive_cnt() asks one process after the other whether it is alive, while *)
(* the processes end whenever they like, so the count it returns may be    *)
(* out of date.                                                            *)
(***************************************************************************)
EXTENDS Naturals, FiniteSets

CONSTANTS
  Job,          \* the calls of the function that the user of the pool makes
  Cores,        \* the `cores` parameter
  FailureExit   \* failure_mode = FAILURE_EXIT

PoolConstants ==
  /\ IsFiniteSet(Job)
  /\ Cores \in Nat \ {0}
  /\ FailureExit \in BOOLEAN

ASSUME ParallelAssumption == PoolConstants

VARIABLES
  pc,           \* where the main process is
  next,         \* the jobs run() is called with: one while it runs, or none
  pobjs,        \* jobs whose Process object is in self.pobjs
  to_scan,      \* those of them that alive_cnt() has not looked at yet
  cnt,          \* the local variable of alive_cnt()
  dead,         \* jobs in idx_to_delete
  alive,        \* jobs whose process is alive
  exitcode      \* per job: exit code of its process

scan == <<to_scan, cnt, dead>>
procs == <<alive, exitcode>>
vars == <<pc, next, pobjs, to_scan, cnt, dead, alive, exitcode>>

\* "wait" is in wait(); "done" after it; "aborted" after abort().
PC == {"idle", "scan", "spawn", "wait", "done", "aborted"}

\* An uncaught exception or a signal gives a nonzero code. abort() in a
\* worker does not: the handler of SIGUSR1 calls sys.exit(0).
ExitCode == {"none", "zero", "nonzero"}

Ended == {j \in Job : exitcode[j] # "none"}
-----------------------------------------------------------------------------
Init ==
  /\ pc = "idle"
  /\ next = {}
  /\ pobjs = {}
  /\ to_scan = {}
  /\ cnt = 0
  /\ dead = {}
  /\ alive = {}
  /\ exitcode = [j \in Job |-> "none"]

(* run() is called with a job, and calls alive_cnt().                      *)
Run(j) ==
  /\ pc = "idle"
  /\ j \notin alive \cup Ended
  /\ pc' = "scan"
  /\ next' = {j}
  /\ to_scan' = pobjs /\ cnt' = 0 /\ dead' = {}
  /\ UNCHANGED <<pobjs, procs>>

(* alive_cnt() looks at a process that is alive,                           *)
ScanAlive(p) ==
  /\ pc = "scan"
  /\ p \in to_scan
  /\ p \in alive
  /\ cnt' = cnt + 1
  /\ to_scan' = to_scan \ {p}
  /\ UNCHANGED <<pc, next, pobjs, dead, procs>>

(* A wrong variant: the exit code is not looked at.                        *)
ScanDeadIgnores(p) ==
  /\ pc = "scan" /\ p \in to_scan /\ p \notin alive
  /\ to_scan' = to_scan \ {p} /\ dead' = dead \cup {p}
  /\ UNCHANGED <<pc, next, pobjs, cnt, procs>>

(* or at one that has ended: a failure aborts if it is to.                 *)
ScanDead(p) ==
  /\ pc = "scan"
  /\ p \in to_scan
  /\ p \notin alive
  /\ IF FailureExit /\ exitcode[p] = "nonzero"
     THEN pc' = "aborted" /\ UNCHANGED <<to_scan, dead>>
     ELSE pc' = pc /\ to_scan' = to_scan \ {p} /\ dead' = dead \cup {p}
  /\ UNCHANGED <<next, pobjs, cnt, procs>>

(* Wrong variants: the dead stay in the list; one process too many; run()  *)
(* waits while there is room, not while there is none.                     *)
EndScanKeepsDead ==
  /\ pc = "scan" /\ to_scan = {}
  /\ IF cnt = Cores
     THEN pc' = pc /\ to_scan' = pobjs /\ cnt' = 0 /\ dead' = {}
     ELSE pc' = "spawn" /\ UNCHANGED scan
  /\ UNCHANGED <<next, pobjs, procs>>

EndScanOneMore ==
  /\ pc = "scan" /\ to_scan = {}
  /\ pobjs' = pobjs \ dead
  /\ IF cnt = Cores + 1
     THEN pc' = pc /\ to_scan' = pobjs' /\ cnt' = 0 /\ dead' = {}
     ELSE pc' = "spawn" /\ UNCHANGED scan
  /\ UNCHANGED <<next, procs>>

EndScanInverted ==
  /\ pc = "scan" /\ to_scan = {}
  /\ pobjs' = pobjs \ dead
  /\ IF cnt < Cores
     THEN pc' = pc /\ to_scan' = pobjs' /\ cnt' = 0 /\ dead' = {}
     ELSE pc' = "spawn" /\ UNCHANGED scan
  /\ UNCHANGED <<next, procs>>

(* alive_cnt() forgets the dead and returns. At capacity, run() calls it   *)
(* again.                                                                  *)
EndScan ==
  /\ pc = "scan"
  /\ to_scan = {}
  /\ pobjs' = pobjs \ dead
  /\ IF cnt = Cores
     THEN pc' = pc /\ to_scan' = pobjs' /\ cnt' = 0 /\ dead' = {}
     ELSE pc' = "spawn" /\ UNCHANGED scan
  /\ UNCHANGED <<next, procs>>

(* A wrong variant: the job is not done with when its process was started. *)
SpawnKeepsNext(j) ==
  /\ pc = "spawn" /\ j \in next
  /\ alive' = alive \cup {j} /\ pobjs' = pobjs \cup {j}
  /\ pc' = "idle"
  /\ UNCHANGED <<next, scan, exitcode>>

(* The rest of run(): start the process.                                   *)
Spawn(j) ==
  /\ pc = "spawn"
  /\ j \in next
  /\ alive' = alive \cup {j}
  /\ pobjs' = pobjs \cup {j}
  /\ next' = {}
  /\ pc' = "idle"
  /\ UNCHANGED <<scan, exitcode>>

(* The user of the pool has made all its calls.                            *)
Wait ==
  /\ pc = "idle"
  /\ alive \cup Ended = Job
  /\ pc' = "wait"
  /\ UNCHANGED <<next, pobjs, scan, procs>>

(* wait() has seen every process of the list not alive; it looks at no     *)
(* exit code. (`alive` asks them one by one; the dead stay dead.)          *)
WaitOver ==
  /\ pc = "wait"
  /\ pobjs \cap alive = {}
  /\ pc' = "done"
  /\ UNCHANGED <<next, pobjs, scan, procs>>

(* A process ends.                                                         *)
Exit(j) ==
  /\ j \in alive
  /\ alive' = alive \ {j}
  /\ \E c \in {"zero", "nonzero"} : exitcode' = [exitcode EXCEPT ![j] = c]
  /\ UNCHANGED <<pc, next, pobjs, scan>>

Stopped == pc \in {"done", "aborted"} /\ UNCHANGED vars
-----------------------------------------------------------------------------
Main ==
  \/ \E j \in Job : Run(j) \/ ScanAlive(j) \/ ScanDead(j) \/ Spawn(j)
  \/ EndScan \/ Wait \/ WaitOver

Next == Main \/ (\E j \in Job : Exit(j)) \/ Stopped

Spec == Init /\ [][Next]_vars

(* The main process runs, and every job ends: what the jobs of PMFuzz wait *)
(* for are subprocesses with a timeout of 30 seconds.                      *)
FairSpec == Spec /\ WF_vars(Main) /\ \A j \in Job : WF_vars(Exit(j))
-----------------------------------------------------------------------------
(* Type invariant; next is a job exactly while run() is at work on it.     *)
TypeOK ==
  /\ pc \in PC
  /\ next \subseteq Job
  /\ (pc \in {"scan", "spawn"} => next # {}) /\ (pc = "idle" => next = {})
  /\ pobjs \subseteq Job
  /\ to_scan \subseteq pobjs
  /\ cnt \in Nat
  /\ dead \subseteq Job
  /\ alive \subseteq Job
  /\ exitcode \in [Job -> ExitCode]

(* The list knows every live process and the scan never under-counts: what *)
(* was looked at and is alive was counted. Together with what is yet to be *)
(* looked at, the count stays within the cores, which is why `==` and not  *)
(* `>=` is enough of a test for capacity.                                  *)
ScanCounts ==
  /\ alive \subseteq pobjs
  /\ alive \cap Ended = {}
  /\ next \cap (alive \cup Ended \cup pobjs) = {}
  /\ Cardinality(pobjs) <= Cores
  /\ pc = "scan" =>
       /\ dead \cap alive = {}
       /\ dead \subseteq pobjs \ to_scan
       /\ cnt + Cardinality(dead) + Cardinality(to_scan) = Cardinality(pobjs)
  /\ pc = "spawn" => Cardinality(pobjs) < Cores

(* However the workers end while they are counted, never more than `cores` *)
(* are alive.                                                              *)
AtMostCores == Cardinality(alive) <= Cores

(* wait() is a barrier: after it, every job was run and none runs.         *)
Barrier == pc = "done" => alive = {} /\ Ended = Job

(* With FAILURE_EXIT, the list forgets a process only when it succeeded.   *)
(* So failures that go unnoticed are among the last processes: a batch     *)
(* that is done hides at most `cores` of them.                             *)
FailuresHidden ==
  FailureExit /\ pc = "done" =>
    Cardinality({j \in Job : exitcode[j] = "nonzero"}) <= Cores

(* Every batch comes to an end.                                            *)
BatchEnds == <>(pc \in {"done", "aborted"})

(* "FAILURE_EXIT: Exit on failure (exit code != 0)" (parallel.py:29): no   *)
(* batch is done with a process that failed.                               *)
FailureStops ==
  FailureExit /\ pc = "done" => \A j \in Job : exitcode[j] # "nonzero"

(* The pool implements the abstract one: `cores` processes, a job in one   *)
(* process once.                                                           *)
Abs == INSTANCE SlotPool WITH
         Member <- Job,
         Allowed <- {S \in SUBSET Job : Cardinality(S) <= Cores},
         busy <- alive, ended <- Ended

AbsSpec == Abs!Spec
=============================================================================
