------------------------------- MODULE Stage2 -------------------------------
(***************************************************************************)
(* The stage 2 scheduler of PMFuzz: src/src/pmfuzz/stages/stage2.py driven *)
(* by run_stage2() of src/src/pmfuzz/core/pmfuzz.py.                       *)
(*                                                                         *)
(* Stage 2 fuzzes every testcase and every crash site ("jobs") it finds in *)
(* the global store, each with one AFL process for tc_timeout seconds. The *)
(* main loop calls run_stage2() every two seconds; one call is one "pass"  *)
(* (Stage2.resume). Nothing of the schedule is in memory between passes:   *)
(* the file system is the state. A timer file says whether a job was       *)
(* started, a pid file how to reach its AFL process.                       *)
(*                                                                         *)
(* The main process is sequential; time, the AFL processes and stage 1     *)
(* (which keeps adding jobs to the global store) run beside it, so a timer *)
(* may expire or a process exit between any two steps of a pass.           *)
(***************************************************************************)
EXTENDS Naturals, FiniteSets

CONSTANTS
  TC,           \* testcases stage 1 may find
  CS,           \* crash sites stage 1 may generate
  Selected,     \* jobs that pass should_use_tc / should_use_cs
  Cores,        \* value of --cores-stage2
  FInj,         \* pmfuzz.failure_injection.enable
  NoJob,        \* what _run_cs() waits for when it waits for nothing
  MaxBoots      \* bound: how often the program is started again

Job == TC \cup CS

ASSUME Stage2Assumption ==
  /\ IsFiniteSet(TC)
  /\ IsFiniteSet(CS)
  /\ TC \cap CS = {}
  /\ Selected \subseteq Job
  /\ Cores \in Nat \ {0}
  /\ FInj \in BOOLEAN
  /\ NoJob \notin Job
  /\ MaxBoots \in Nat

VARIABLES
  global,       \* jobs in the global store, outdir/@dedup
  created,      \* outdir/stage=2,iter=1 exists
  local,        \* jobs in the local store, stage=2,iter=1/@dedup_sync
  timer,        \* per job: state of its .ptimer file
  pidf,         \* jobs whose afl-results/<job>/master_fuzzer/pid file exists
  afl,          \* per job: the AFL process this run of PMFuzz started for it
  imgs,         \* per job: number of directories under img_loc it runs in
  cs_gen,       \* a collection has left directories under img_loc
  results,      \* jobs whose AFL queue was copied into the stage directory
  pc,           \* where the main process is
  todo,         \* jobs the current loop of the pass has not visited yet
  run_count,    \* the local variable of resume()
  cur,          \* the crash site _run_cs() is waiting for, in "cs_check"
  boots         \* times the program was started again

store == <<global, created, local>>
sched == <<timer, pidf, imgs, results>>
procs == <<afl, boots, cs_gen>>
ctl   == <<pc, todo, run_count, cur>>
vars  == <<global, created, local, timer, pidf, afl, imgs, results,
           pc, todo, run_count, cur, boots, cs_gen>>

\* is_new(): start = 0. The clock only adds "expired": start + length passed.
TimerState == {"new", "running", "expired"}

\* "term" got SIGTERM and has not exited; "zombie" has exited and was not
\* waited for; "reaped" was, so that its pid is free.
AflState == {"none", "alive", "term", "zombie", "reaped"}

\* The loops of a pass ("tc", "cs"), of kill_all, and the places between.
Loop == {"tc", "cs", "kill_all"}
PC   == Loop \cup {"idle", "cs_check", "dedup", "dedup_abort", "aborted"}
-----------------------------------------------------------------------------
Half    == Cores \div 2
SlotsTC == IF ~FInj THEN Cores ELSE IF Half = 0 THEN 1 ELSE Half
SlotsCS == IF ~FInj THEN 0 ELSE IF Half = 0 THEN 1 ELSE Half
Slots   == IF pc = "cs" THEN SlotsCS ELSE SlotsTC

Running(S) == {j \in S : timer[j] = "running"}

(* Every subprocess call of the main process first waits for the exited    *)
(* children whose handle was dropped (exec_shell keeps only the pid).      *)
Reap(a) == [j \in Job |-> IF a[j] = "zombie" THEN "reaped" ELSE a[j]]

(* get_run_count() over the jobs S: a running job must have a pid file,    *)
(* naming a pid that exists. A zombie's pid still exists.                  *)
Missing(S) == \E j \in Running(S) : j \notin pidf \/ afl[j] = "reaped"

\* A wrong variant: a timer that was started counts as one that expired.
CompletedStarted == \A j \in local \cap TC : timer[j] # "new"

(* Stage2.completed, over the unfiltered local list.                       *)
Completed == \A j \in local \cap TC : timer[j] = "expired"
-----------------------------------------------------------------------------
Init ==
  /\ global = {}
  /\ created = FALSE
  /\ local = {}
  /\ timer = [j \in Job |-> "new"]
  /\ pidf = {}
  /\ afl = [j \in Job |-> "none"]
  /\ imgs = [j \in Job |-> 0]
  /\ cs_gen = FALSE
  /\ results = {}
  /\ pc = "idle"
  /\ todo = {}
  /\ run_count = 0
  /\ cur = NoJob
  /\ boots = 0

(* collect_stage1(): new stage 1 testcases, and with failure injection     *)
(* crash sites of testcases, reach the global store. Images are generated  *)
(* by subprocesses of the main process.                                    *)
CollectStage1(new) ==
  /\ pc = "idle"
  /\ new # {}
  /\ new \subseteq Job \ global
  /\ global' = global \cup new
  /\ new \cap CS # {} => FInj /\ global' \cap TC # {}
  /\ afl' = Reap(afl)
  /\ UNCHANGED <<created, local, sched, ctl, boots, cs_gen>>

(* The head of resume(): update_local(), the job status over all jobs,     *)
(* which aborts when one of them is gone, and the count of testcases.      *)
Resume ==
  /\ local' = local \cup global
  /\ LET seen == local' \cap Selected IN
     IF Missing(seen)
     THEN /\ pc' = "aborted"
          /\ UNCHANGED <<todo, run_count>>
     ELSE /\ pc' = "tc"
          /\ todo' = seen \cap TC
          /\ run_count' = Cardinality(Running(seen \cap TC))
  /\ UNCHANGED <<global, sched, procs, cur>>

(* run_stage2(): the first call creates the stage and runs it.             *)
FirstPass ==
  /\ pc = "idle"
  /\ ~created
  /\ created' = TRUE
  /\ Resume

(* Later calls resume it until it has completed.                           *)
NextPass ==
  /\ pc = "idle"
  /\ created
  /\ ~Completed
  /\ created' = created
  /\ Resume

(* A completed stage is terminated: terminate() starts with kill_all().    *)
EnterKillAll ==
  /\ pc = "idle"
  /\ created
  /\ Completed
  /\ pc' = "kill_all"
  /\ todo' = local \cap TC
  /\ UNCHANGED <<store, sched, procs, run_count, cur>>
-----------------------------------------------------------------------------
\* A wrong variant: a job that has expired is passed over.
PassExpired(j) ==
  /\ pc \in Loop
  /\ j \in todo
  /\ timer[j] # "new" \/ run_count >= Slots
  /\ todo' = todo \ {j}
  /\ UNCHANGED <<store, sched, procs, pc, run_count, cur>>

(* Nothing to do for job j: it is running, or there is no free slot, or it *)
(* was terminated by an earlier pass (its pid file is gone).               *)
Pass(j) ==
  /\ pc \in Loop
  /\ j \in todo
  /\ \/ timer[j] = "running"
     \/ timer[j] = "new" /\ run_count >= Slots
     \/ timer[j] = "expired" /\ j \notin pidf
  /\ todo' = todo \ {j}
  /\ UNCHANGED <<store, sched, procs, pc, run_count, cur>>

(* A wrong variant: the "todo: run_count -= 1" of the code, done.          *)
TerminateTodo(j) ==
  /\ pc \in {"tc", "cs"}
  /\ j \in todo
  /\ timer[j] = "expired"
  /\ j \in pidf
  /\ pidf' = pidf \ {j}
  /\ imgs' = [imgs EXCEPT ![j] = 0]
  /\ results' = results \cup {j}
  /\ todo' = todo \ {j}
  /\ run_count' = run_count - 1
  /\ UNCHANGED <<store, timer, procs, pc, cur>>

(* A wrong variant: the timer is cleared with the other files of the job.  *)
TerminateClears(j) ==
  /\ pc \in Loop
  /\ j \in todo
  /\ timer[j] = "expired"
  /\ j \in pidf
  /\ timer' = [timer EXCEPT ![j] = "new"]
  /\ afl' = [afl EXCEPT ![j] = IF @ = "alive" THEN "term" ELSE @]
  /\ pidf' = pidf \ {j}
  /\ imgs' = [imgs EXCEPT ![j] = 0]
  /\ results' = results \cup {j}
  /\ todo' = todo \ {j}
  /\ UNCHANGED <<store, boots, cs_gen, pc, run_count, cur>>

(* A wrong variant: the pid file goes and the image directory stays.       *)
TerminateKeepsImage(j) ==
  /\ pc \in Loop
  /\ j \in todo
  /\ timer[j] = "expired"
  /\ j \in pidf
  /\ pidf' = pidf \ {j}
  /\ results' = results \cup {j}
  /\ todo' = todo \ {j}
  /\ UNCHANGED <<store, timer, imgs, procs, pc, run_count, cur>>

(* _terminate_testcase() and _terminate_cs() of an expired job that has a  *)
(* pid file: the signal, and the pid file and the image directory removed. *)
(* os.kill() needs the pid to exist; _terminate_cs() finds the directory   *)
(* by glob, and exactly one must match.                                    *)
EndJob(j) ==
  /\ pc \in Loop
  /\ j \in todo
  /\ timer[j] = "expired"
  /\ j \in pidf
  /\ afl[j] # "reaped"
  /\ j \in CS => imgs[j] = 1
  /\ afl' = Reap([afl EXCEPT ![j] = IF @ = "alive" THEN "term" ELSE @])
  /\ pidf' = pidf \ {j}
  /\ imgs' = [imgs EXCEPT ![j] = 0]

(* tc_gen_crash_sites(), called for some children of the job while its     *)
(* queue is collected, makes a directory under img_loc for each and leaves *)
(* it there, with the image of the job in it.                              *)
LeavesDirectories == cs_gen' \in {cs_gen, cs_gen \/ FInj}

(* The job is ended and its queue collected, with the help of              *)
(* subprocesses. run_count is not decreased.                               *)
Terminate(j) ==
  /\ EndJob(j)
  /\ LeavesDirectories
  /\ results' = results \cup {j}
  /\ todo' = todo \ {j}
  /\ UNCHANGED <<store, timer, boots, pc, run_count, cur>>

(* A worker of the collection fails and the pool notices it, or afl-cmin   *)
(* fails: the program ends in the middle of the collection.                *)
TerminateFails(j) ==
  /\ EndJob(j)
  /\ LeavesDirectories
  /\ pc' = "aborted"
  /\ UNCHANGED <<store, timer, results, boots, todo, run_count, cur>>

(* os.kill() of a pid that no longer exists raises ProcessLookupError; the *)
(* exception hook aborts.                                                  *)
TerminateGone(j) ==
  /\ pc \in Loop
  /\ j \in todo
  /\ timer[j] = "expired"
  /\ j \in pidf
  /\ afl[j] = "reaped"
  /\ pc' = "aborted"
  /\ UNCHANGED <<store, sched, procs, todo, run_count, cur>>

(* _terminate_cs() finds its image directory by glob and aborts unless     *)
(* exactly one matches. The process is signalled, the pid file removed.    *)
TerminateAmbiguous(j) ==
  /\ pc = "cs"
  /\ j \in todo
  /\ timer[j] = "expired"
  /\ j \in pidf
  /\ afl[j] # "reaped"
  /\ imgs[j] # 1
  /\ afl' = [afl EXCEPT ![j] = IF @ = "alive" THEN "term" ELSE @]
  /\ pidf' = pidf \ {j}
  /\ pc' = "aborted"
  /\ UNCHANGED <<store, timer, imgs, results, boots, cs_gen, todo,
                 run_count, cur>>

\* Wrong variants: one start too many, and one too few.
LaunchOneMore(j) ==
  /\ pc \in {"tc", "cs"} /\ j \in todo /\ timer[j] = "new"
  /\ run_count <= Slots
  /\ timer' = [timer EXCEPT ![j] = "running"]
  /\ imgs' = [imgs EXCEPT ![j] = IF j \in TC THEN 1 ELSE @ + 1]

LaunchOneLess(j) ==
  /\ pc \in {"tc", "cs"} /\ j \in todo /\ timer[j] = "new"
  /\ run_count + 1 < Slots
  /\ timer' = [timer EXCEPT ![j] = "running"]
  /\ imgs' = [imgs EXCEPT ![j] = IF j \in TC THEN 1 ELSE @ + 1]

(* A job that was never started and fits: start_new(), then _run_testcase  *)
(* or _run_cs. A testcase's image directory has a fixed name and replaces  *)
(* what is there; a crash site's is made by mkdtemp next to what is there. *)
Launch(j) ==
  /\ pc \in {"tc", "cs"}
  /\ j \in todo
  /\ timer[j] = "new"
  /\ run_count < Slots
  /\ timer' = [timer EXCEPT ![j] = "running"]
  /\ imgs' = [imgs EXCEPT ![j] = IF j \in TC THEN 1 ELSE @ + 1]

(* run_afl() starts AFL, sleeps a second and writes the pid file.          *)
Start(j) ==
  /\ Launch(j)
  /\ afl' = [Reap(afl) EXCEPT ![j] = "alive"]
  /\ pidf' = pidf \cup {j}
  /\ todo' = todo \ {j}
  /\ run_count' = run_count + 1
  /\ IF j \in CS THEN pc' = "cs_check" /\ cur' = j
                 ELSE UNCHANGED <<pc, cur>>
  /\ UNCHANGED <<store, results, boots, cs_gen>>

\* A wrong variant: the missing directory is not an error.
StartSlowIgnored(j) ==
  /\ Launch(j)
  /\ afl' = [Reap(afl) EXCEPT ![j] = "alive"]
  /\ todo' = todo \ {j}
  /\ UNCHANGED <<store, pidf, results, boots, cs_gen, pc, run_count, cur>>

(* AFL creates the directory of the pid file. When it has not after that   *)
(* second, open() raises and the program aborts without a pid file.        *)
StartSlow(j) ==
  /\ Launch(j)
  /\ afl' = [Reap(afl) EXCEPT ![j] = "alive"]
  /\ pc' = "aborted"
  /\ UNCHANGED <<store, pidf, results, boots, cs_gen, todo, run_count, cur>>

(* A wrong variant: the check is never left behind.                        *)
CheckStartedKeepsCur ==
  /\ pc = "cs_check"
  /\ pc' = IF afl[cur] = "reaped" THEN "aborted" ELSE "cs"
  /\ UNCHANGED <<store, sched, procs, todo, run_count, cur>>

(* _run_cs() sleeps five seconds, then aborts when the pid is gone.        *)
CheckStarted ==
  /\ pc = "cs_check"
  /\ pc' = IF afl[cur] = "reaped" THEN "aborted" ELSE "cs"
  /\ cur' = NoJob
  /\ UNCHANGED <<store, sched, procs, todo, run_count>>

(* After the testcases, the crash sites, if failure injection is enabled.  *)
EnterCS ==
  /\ pc = "tc"
  /\ todo = {}
  /\ FInj
  /\ LET seen == local \cap Selected \cap CS IN
     IF Missing(seen)
     THEN pc' = "aborted" /\ UNCHANGED <<todo, run_count>>
     ELSE /\ pc' = "cs"
          /\ todo' = seen
          /\ run_count' = Cardinality(Running(seen))
  /\ UNCHANGED <<store, sched, procs, cur>>

(* The pass is over; the main loop sleeps and starts again.                *)
EndPass ==
  /\ todo = {}
  /\ pc = "cs" \/ (pc = "tc" /\ ~FInj)
  /\ pc' = "idle"
  /\ UNCHANGED <<store, sched, procs, todo, run_count, cur>>

(* The rest of terminate(): collect_results() copies the queue of every    *)
(* AFL output directory, whoever it belongs to.                            *)
Collect ==
  /\ pc = "kill_all"
  /\ todo = {}
  /\ results' = results \cup {j \in Job : afl[j] # "none"}
  /\ pc' = "dedup"
  /\ afl' = Reap(afl)
  /\ UNCHANGED <<store, timer, pidf, imgs, boots, cs_gen, todo, run_count,
                 cur>>

(* A worker of collect_results() fails and the pool notices it.            *)
CollectFails ==
  /\ pc = "kill_all"
  /\ todo = {}
  /\ pc' = "aborted"
  /\ afl' = Reap(afl)
  /\ UNCHANGED <<store, sched, boots, cs_gen, todo, run_count, cur>>

(* run_dedup() of a completed stage takes the defaults fdedup = min_tc =   *)
(* TRUE: _deduplicate_gbl() unpacks an empty list, looks up a key that the *)
(* configuration does not have, or reaches abort(); it never returns.      *)
RunDedup ==
  /\ pc = "dedup"
  /\ pc' = "dedup_abort"
  /\ UNCHANGED <<store, sched, procs, todo, run_count, cur>>
-----------------------------------------------------------------------------
(* Time passes.                                                            *)
Expire(j) ==
  /\ timer[j] = "running"
  /\ timer' = [timer EXCEPT ![j] = "expired"]
  /\ UNCHANGED <<store, pidf, imgs, results, procs, ctl>>

(* An AFL process ends: by itself, or because it was told to.              *)
AflExit(j) ==
  /\ afl[j] \in {"alive", "term"}
  /\ afl' = [afl EXCEPT ![j] = "zombie"]
  /\ UNCHANGED <<store, sched, ctl, boots, cs_gen>>

(* PMFuzz aborted or is killed, and is started again. main() removes the   *)
(* output directory, with the timers and pid files, but cleans neither     *)
(* img_loc nor the AFL processes: those have process groups of their own,  *)
(* live on, and are nothing that this run of the program knows of.         *)
Restart ==
  /\ boots < MaxBoots
  /\ boots' = boots + 1
  /\ afl' = [j \in Job |-> "none"]
  /\ global' = {} /\ local' = {} /\ created' = FALSE
  /\ timer' = [j \in Job |-> "new"]
  /\ pidf' = {} /\ results' = {}
  /\ pc' = "idle" /\ todo' = {} /\ run_count' = 0 /\ cur' = NoJob
  /\ UNCHANGED <<imgs, cs_gen>>

(* An aborted program stays aborted until somebody starts it again.        *)
Stopped == pc \in {"aborted", "dedup_abort"} /\ UNCHANGED vars
-----------------------------------------------------------------------------
PassStep ==
  \/ FirstPass \/ NextPass \/ EnterKillAll
  \/ \E j \in Job :
        \/ Pass(j) \/ Terminate(j) \/ TerminateGone(j)
        \/ TerminateAmbiguous(j) \/ Start(j)
  \/ CheckStarted \/ EnterCS \/ EndPass \/ Collect \/ RunDedup

Next ==
  \/ \E new \in SUBSET Job : CollectStage1(new)
  \/ PassStep
  \/ \E j \in Job :
        StartSlow(j) \/ TerminateFails(j) \/ Expire(j) \/ AflExit(j)
  \/ CollectFails
  \/ Restart
  \/ Stopped

Spec == Init /\ [][Next]_vars

(* The main loop keeps running and the clock does not stop. Nothing is     *)
(* assumed of AFL, of stage 1, or of the operator.                         *)
Fairness ==
  /\ WF_vars(PassStep)
  /\ \A j \in Job : WF_vars(Expire(j))

FairSpec == Spec /\ Fairness
-----------------------------------------------------------------------------
(* Type invariant: also, a local job came from the global store, and cur   *)
(* names a crash site exactly while _run_cs() waits for one.               *)
TypeOK ==
  /\ global \subseteq Job
  /\ created \in BOOLEAN
  /\ local \subseteq global
  /\ timer \in [Job -> TimerState]
  /\ pidf \subseteq Job
  /\ afl \in [Job -> AflState]
  /\ imgs \in [Job -> Nat]
  /\ cs_gen \in BOOLEAN
  /\ results \subseteq Job
  /\ pc \in PC
  /\ todo \subseteq Job
  /\ run_count \in Nat
  /\ cur \in CS \cup {NoJob}
  /\ (cur # NoJob) <=> (pc = "cs_check")
  /\ boots \in Nat

Started(S) == S \cap pidf

(* What of the jobs S occupies a slot of the current loop: the jobs of S   *)
(* that run and, of those the loop has visited, the ones with a pid file,  *)
(* expired or not.                                                         *)
Held(S) == {j \in S : IF j \in todo THEN timer[j] = "running" ELSE j \in pidf}

(* The files of a job agree: a fuzzer has a pid file only for a job that   *)
(* is in the local store and selected; while PMFuzz has not aborted, every *)
(* running timer has its pid file (get_run_count() opens it).              *)
FilesAgree ==
  /\ pidf \subseteq local \cap Selected
  /\ \A j \in pidf : timer[j] # "new"
  /\ pc # "aborted" => Running(Job) \subseteq pidf

(* While the loop over the jobs of one kind runs, run_count is an upper    *)
(* bound on the slots in use although it is read once and nothing is ever  *)
(* subtracted from it, and it never passes the limit. In the other loops   *)
(* a kind has no more fuzzers than slots.                                  *)
LoopCount(S, slots, at) ==
  IF pc \in at
  THEN /\ todo \subseteq S \cap local \cap Selected
       /\ Cardinality(Held(S)) <= run_count
       /\ run_count <= slots
       /\ Cardinality(Started(S) \cap todo) <= slots
  ELSE pc # "aborted" => Cardinality(Started(S)) <= slots

SlotAccounting ==
  /\ LoopCount(TC, SlotsTC, {"tc"})
  /\ LoopCount(CS, SlotsCS, {"cs", "cs_check"})

(* A pass frees slots while it fills them: the new jobs are started with   *)
(* the count of the running ones, when expired ones later in the list were *)
(* not terminated yet. So for a moment, and when the pass aborts in it,    *)
(* there are up to twice as many fuzzers as slots, and never more.         *)
TransientBound ==
  /\ Cardinality(Started(TC)) <= 2 * SlotsTC
  /\ Cardinality(Started(CS)) <= 2 * SlotsCS

(* "Maximum cores stage 2 fuzzer can use" (pmfuzz-fuzz.py:290): between    *)
(* two passes no more fuzzers are started than --cores-stage2 says.        *)
CoresRespected == pc = "idle" => Cardinality(pidf) <= Cores

(* What jobs run in does not pile up in img_loc, a device of fixed size: a *)
(* job that PMFuzz runs has exactly one directory there, any other none.   *)
(* That is also why the glob of _terminate_cs() finds exactly one. Other   *)
(* directories do pile up, but only of the generation of crash sites for a *)
(* collected job, and none without failure injection. Not so after a       *)
(* restart, or when PMFuzz aborted in the start or the end of a job.       *)
RunImagesCleaned ==
  boots = 0 /\ pc # "aborted" =>
    /\ \A j \in Job : imgs[j] = IF j \in pidf THEN 1 ELSE 0
    /\ cs_gen => FInj /\ results # {}

(* Every live AFL process can be reached through its pid file, so that a   *)
(* later pass finds and ends it: none leaks while PMFuzz runs.             *)
Reachable ==
  pc # "aborted" => \A j \in Job : afl[j] = "alive" => j \in pidf

(* One invocation of PMFuzz fuzzes a job once: the timer files, all that   *)
(* the passes know of each other, never make it start a job again.         *)
StartedOnce ==
  [][\A j \in Job : afl'[j] = "alive" => afl[j] \in {"none", "alive"}]_vars

(* When a completed stage reaches deduplication, the queue of each of its  *)
(* testcases was collected, and none of them has a fuzzer or a pid file.   *)
CompletedCollected ==
  pc = "dedup" =>
    \A j \in local \cap TC :
      /\ j \in results
      /\ j \notin pidf
      /\ afl[j] # "alive"

(* A started job is eventually collected, however the passes and the       *)
(* timers interleave, unless PMFuzz gives up: a crash site too, also when  *)
(* its AFL ended at once and the check of _run_cs() took the zombie for    *)
(* alive, and when the stage completes without it.                         *)
EventuallyCollected ==
  \A j \in Job : timer[j] = "running" ~> (j \in results \/ pc = "aborted")

(* No selected testcase of the local store starves behind the others.      *)
NoStarvation ==
  \A j \in TC \cap Selected :
    j \in local ~> (timer[j] # "new" \/ pc = "aborted")

(* A stage completes, though completed() is asked of all testcases and     *)
(* resume() visits selected ones only: PMFuzz does not stay in stage 2     *)
(* unless a testcase of the local store is filtered out.                   *)
Completes ==
  (created /\ pc = "idle") ~>
    (~(local \cap TC \subseteq Selected) \/ pc \in {"dedup_abort", "aborted"})

(* "[Stage 2] -> Dedup -> Stage 2 (new iteration)": after deduplication    *)
(* the main loop goes on.                                                  *)
NextIteration == (pc = "dedup") ~> (pc = "idle")

(* "Terminates the current instance of the stage": at the end of           *)
(* terminate() no AFL process that the stage started is left running.      *)
TerminateEndsAll == pc = "dedup" => \A j \in Job : afl[j] # "alive"

\* Jobs whose timer was started; they run until their queue is collected.
Begun == {j \in Job : timer[j] # "new"}

(* The abstract specification: testcases get a place in a pool of twice    *)
(* the slots, once each, with the start of their timer, and give it back   *)
(* when their pid file is gone and their results are collected.            *)
Abs == INSTANCE SlotPool WITH
         Member <- TC,
         Allowed <- {S \in SUBSET TC : Cardinality(S) <= 2 * SlotsTC},
         busy <- (pidf \cup (Begun \ results)) \cap TC,
         ended <- results \cap TC

(* The testcase half of the scheduler implements the pool.                 *)
AbsSpec == Abs!Spec

(* What the stores see of the schedule.                                    *)
StagePhase ==
  CASE pc \in {"tc", "cs", "cs_check"}   -> "pass"
    [] pc = "kill_all"                  -> "closing"
    [] pc = "dedup"                     -> "closed"
    [] pc \in {"aborted", "dedup_abort"} -> "ended"
    [] pc = "idle"                      -> "idle"

Schedule == INSTANCE JobSchedule WITH
  Testcase <- TC, CrashSite <- CS, store <- local,
  running <- Begun \ results, done <- results, phase <- StagePhase

(* Timers, pid files and passes make a schedule as the stores expect it: a *)
(* job of the local store is started once and collected once, within a     *)
(* pass; the stage is closed when the queue of every testcase is collected.*)
ScheduleSpec == Schedule!Spec
=============================================================================
