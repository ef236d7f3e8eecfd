----------------------------- MODULE Collection -----------------------------
(***************************************************************************)
(* The two pools with which _terminate_testcase() and _terminate_cs() of   *)
(* src/src/pmfuzz/stages/stage2.py collect the children of a job: prl_ct   *)
(* copies them and makes their images, prl_gen_cs injects failures into    *)
(* some of them. One main process uses both, in turn, and its abort() ends *)
(* the use of both.                                                        *)
(*                                                                         *)
(* The variables of Parallel are those of prl_ct, the ones that begin with *)
(* gen_ those of prl_gen_cs.                                               *)
(***************************************************************************)
EXTENDS Parallel

CONSTANTS
  TotalCores,   \* the cores of the stage
  Crashed       \* the children whose randrange() is below CS_GEN_THRESH

\* The core_count of each of the pools.
CoreCount == IF TotalCores \div 2 # 0 THEN TotalCores \div 2 ELSE 1

ASSUME CollectionAssumption ==
  /\ TotalCores \in Nat
  /\ Cores = CoreCount
  /\ FailureExit
  /\ Crashed \subseteq Job

VARIABLES gen_pc, gen_next, gen_pobjs, gen_to_scan, gen_cnt, gen_dead,
          gen_alive, gen_exitcode

Gen == INSTANCE Parallel WITH
         Job <- Crashed, pc <- gen_pc, next <- gen_next, pobjs <- gen_pobjs,
         to_scan <- gen_to_scan, cnt <- gen_cnt, dead <- gen_dead,
         alive <- gen_alive, exitcode <- gen_exitcode

ct_vars  == vars
gen_vars == <<gen_pc, gen_next, gen_pobjs, gen_to_scan, gen_cnt, gen_dead,
              gen_alive, gen_exitcode>>
all_vars == <<ct_vars, gen_vars>>

CollectionInit == Init /\ Gen!Init
-----------------------------------------------------------------------------
\* The children that were given to the pools.
Collecting == alive \cup Ended
Injecting  == gen_alive \cup Gen!Ended

\* The main process is in no call of a pool.
Between == pc = "idle" /\ gen_pc = "idle"

\* abort() in one pool is the end of the main process, whose other pool
\* stays as it is.
CtAborted ==
  /\ gen_pc' = IF pc' = "aborted" THEN "aborted" ELSE gen_pc
  /\ UNCHANGED <<gen_next, gen_pobjs, gen_to_scan, gen_cnt, gen_dead,
                 gen_alive, gen_exitcode>>
GenAborted ==
  /\ pc' = IF gen_pc' = "aborted" THEN "aborted" ELSE pc
  /\ UNCHANGED <<next, pobjs, scan, procs>>

(* prl_ct.run() of the next child, when the crash sites of the one before  *)
(* are being made, if they are to be.                                      *)
CollectChild(j) ==
  /\ Between
  /\ Collecting \cap Crashed \subseteq Injecting
  /\ Run(j)
  /\ UNCHANGED gen_vars

(* prl_gen_cs.run() of the same child.                                     *)
GenCrashSites(j) ==
  /\ Between
  /\ j \in Collecting
  /\ Gen!Run(j)
  /\ UNCHANGED ct_vars

(* A run() that is under way.                                              *)
InRun ==
  \/ /\ EndScan \/ \E j \in Job : ScanAlive(j) \/ ScanDead(j) \/ Spawn(j)
     /\ CtAborted
  \/ /\ \/ Gen!EndScan
        \/ \E j \in Crashed : Gen!ScanAlive(j) \/ Gen!ScanDead(j)
                                \/ Gen!Spawn(j)
     /\ GenAborted

(* prl_ct.wait(), ...                                                      *)
CtWait ==
  /\ \/ Between /\ Crashed \subseteq Injecting /\ Wait
     \/ WaitOver
  /\ UNCHANGED gen_vars

(* A wrong variant: prl_gen_cs.wait() comes first.                         *)
GenWaitFirst ==
  /\ Gen!Wait \/ Gen!WaitOver
  /\ UNCHANGED ct_vars

(* ... then prl_gen_cs.wait().                                             *)
GenWait ==
  /\ pc = "done"
  /\ Gen!Wait \/ Gen!WaitOver
  /\ UNCHANGED ct_vars

\* A worker ends.
CtExit(j)  == Exit(j) /\ UNCHANGED gen_vars
GenExit(j) == Gen!Exit(j) /\ UNCHANGED ct_vars

CollectionStopped ==
  /\ pc = "aborted" \/ gen_pc = "done"
  /\ UNCHANGED all_vars
-----------------------------------------------------------------------------
CollectionMain ==
  \/ \E j \in Job : CollectChild(j)
  \/ \E j \in Crashed : GenCrashSites(j)
  \/ InRun \/ CtWait \/ GenWait

CollectionNext ==
  \/ CollectionMain
  \/ \E j \in Job : CtExit(j)
  \/ \E j \in Crashed : GenExit(j)
  \/ CollectionStopped

CollectionSpec == CollectionInit /\ [][CollectionNext]_all_vars

FairCollection ==
  /\ CollectionSpec
  /\ WF_all_vars(CollectionMain)
  /\ \A j \in Job : WF_all_vars(CtExit(j))
  /\ \A j \in Crashed : WF_all_vars(GenExit(j))
-----------------------------------------------------------------------------
Max2(m, n) == IF m > n THEN m ELSE n

(* The pools together keep to the cores of the stage, though neither knows *)
(* of the other (but with one core there are two workers); and when the    *)
(* collection is done, so that what the workers have left may be cleaned   *)
(* up and minimized, neither has one: a crash site is only made of a child *)
(* whose collection has begun.                                             *)
PoolsTogether ==
  /\ Cardinality(alive) + Cardinality(gen_alive) <= Max2(TotalCores, 2)
  /\ Injecting \subseteq Collecting
  /\ gen_pc = "done" => /\ alive = {} /\ gen_alive = {}
                        /\ Ended = Job /\ Gen!Ended = Crashed
=============================================================================
