--------------------------- MODULE Stage2_proofs ---------------------------
(***************************************************************************)
(* Theorems about the stage 2 scheduler, for any number of testcases,      *)
(* crash sites, cores and restarts. The inductive invariant is             *)
(* TypeOK /\ FilesAgree /\ SlotAccounting: what run_count bounds during a  *)
(* pass can only be stated with the set of jobs the loop has yet to visit, *)
(* and only because the files of a job agree.                              *)
(***************************************************************************)
EXTENDS Stage2, FiniteSetTheorems, TLAPS

USE Stage2Assumption

(* The slots are natural numbers, and when there are two cores to share or *)
(* nothing to share them with, both kinds together fit into the cores.     *)
LEMMA SlotsType ==
  /\ SlotsTC \in Nat
  /\ SlotsCS \in Nat
  /\ (FInj => Cores >= 2) => SlotsTC + SlotsCS <= Cores
BY DEF SlotsTC, SlotsCS, Half

(* Sets of jobs are finite.                                                *)
LEMMA JobsFinite ==
  ASSUME NEW S \in SUBSET Job
  PROVE  IsFiniteSet(S) /\ Cardinality(S) \in Nat
<1>1. IsFiniteSet(Job)
  BY FS_Union DEF Job
<1>2. IsFiniteSet(S)
  BY <1>1, FS_Subset
<1> QED
  BY <1>2, FS_CardinalityType

(* A subset of jobs has no more elements.                                  *)
LEMMA Fewer ==
  ASSUME NEW S \in SUBSET Job, NEW T \in SUBSET S
  PROVE  Cardinality(T) <= Cardinality(S)
BY JobsFinite, FS_Subset

(* A set with at most one more job.                                        *)
LEMMA OneMore ==
  ASSUME NEW S \in SUBSET Job, NEW j \in Job, NEW T \in SUBSET (S \cup {j})
  PROVE  Cardinality(T) <= Cardinality(S) + 1
<1>1. Cardinality(S \cup {j}) <= Cardinality(S) + 1
  BY JobsFinite, FS_AddElement
<1>2. Cardinality(T) <= Cardinality(S \cup {j})
  BY Fewer
<1> QED
  BY <1>1, <1>2, JobsFinite

(* A set of jobs that two sets cover.                                      *)
LEMMA Covered ==
  ASSUME NEW S \in SUBSET Job, NEW T \in SUBSET Job,
         NEW R \in SUBSET (S \cup T)
  PROVE  Cardinality(R) <= Cardinality(S) + Cardinality(T)
<1>1. Cardinality(S \cup T)
        = Cardinality(S) + Cardinality(T) - Cardinality(S \cap T)
  BY JobsFinite, FS_Union
<1>2. Cardinality(R) <= Cardinality(S \cup T)
  BY Fewer
<1>3. /\ Cardinality(S \cap T) \in Nat
      /\ Cardinality(S) \in Nat
      /\ Cardinality(T) \in Nat
      /\ Cardinality(R) \in Nat
      /\ Cardinality(S \cup T) \in Nat
  BY JobsFinite
<1> QED
  BY <1>1, <1>2, <1>3
-----------------------------------------------------------------------------
(* Waiting for exited children leaves every AFL process in a known state.  *)
LEMMA ReapType ==
  ASSUME NEW a \in [Job -> AflState]
  PROVE  Reap(a) \in [Job -> AflState]
BY DEF Reap, AflState

(* The functions of the initial state.                                     *)
LEMMA FreshType ==
  /\ [j \in Job |-> "new"] \in [Job -> TimerState]
  /\ [j \in Job |-> "none"] \in [Job -> AflState]
BY DEF TimerState, AflState

(* The type invariant is preserved, one step per action.                   *)
LEMMA TypeStep == TypeOK /\ [Next]_vars => TypeOK'
<1> SUFFICES ASSUME TypeOK, [Next]_vars
             PROVE  TypeOK'
  OBVIOUS
<1> USE DEF TypeOK
<1>1. ASSUME NEW new \in SUBSET Job, CollectStage1(new)
      PROVE  TypeOK'
  BY <1>1, ReapType DEF CollectStage1, sched, ctl
<1>2. ASSUME FirstPass \/ NextPass
      PROVE  TypeOK'
  <2>1. Cardinality(Running(local' \cap Selected \cap TC)) \in Nat
    <3>1. Running(local' \cap Selected \cap TC) \in SUBSET Job
      BY DEF Running, Job
    <3> QED
      BY <3>1, JobsFinite
  <2> QED
    BY <1>2, <2>1 DEF FirstPass, NextPass, Resume, sched, procs, PC, Loop, Job
<1>3. ASSUME EnterKillAll
      PROVE  TypeOK'
  BY <1>3 DEF EnterKillAll, store, sched, procs, PC, Loop, Job
<1>4. ASSUME NEW j \in Job, Pass(j)
      PROVE  TypeOK'
  BY <1>4 DEF Pass, store, sched, procs
<1>5. ASSUME NEW j \in Job,
             Terminate(j) \/ TerminateFails(j) \/ TerminateAmbiguous(j)
      PROVE  TypeOK'
  <2>1. [afl EXCEPT ![j] = IF @ = "alive" THEN "term" ELSE @]
          \in [Job -> AflState]
    BY DEF AflState
  <2>2. CASE Terminate(j)
    BY <2>1, <2>2, ReapType DEF Terminate, EndJob, LeavesDirectories, store, Loop
  <2>3. CASE TerminateFails(j)
    BY <2>1, <2>3, ReapType
       DEF TerminateFails, EndJob, LeavesDirectories, store, PC, Loop
  <2>4. CASE TerminateAmbiguous(j)
    BY <2>1, <2>4 DEF TerminateAmbiguous, store, PC, Loop
  <2> QED
    BY <1>5, <2>2, <2>3, <2>4
<1>6. ASSUME NEW j \in Job, TerminateGone(j)
      PROVE  TypeOK'
  BY <1>6 DEF TerminateGone, store, sched, procs, PC, Loop
<1>7. ASSUME NEW j \in Job, Start(j) \/ StartSlow(j)
      PROVE  TypeOK'
  <2>1. [Reap(afl) EXCEPT ![j] = "alive"] \in [Job -> AflState]
    BY ReapType DEF AflState
  <2>2. [timer EXCEPT ![j] = "running"] \in [Job -> TimerState]
    BY DEF TimerState
  <2>3. [imgs EXCEPT ![j] = IF j \in TC THEN 1 ELSE @ + 1] \in [Job -> Nat]
    OBVIOUS
  <2>4. CASE Start(j)
    <3>1. j \in CS \/ j \notin CS
      OBVIOUS
    <3> QED
      BY <2>1, <2>2, <2>3, <2>4, <3>1 DEF Start, Launch, store, PC, Loop, Job
  <2>5. CASE StartSlow(j)
    BY <2>1, <2>2, <2>3, <2>5 DEF StartSlow, Launch, store, PC, Loop
  <2> QED
    BY <1>7, <2>4, <2>5
<1>8. ASSUME CheckStarted
      PROVE  TypeOK'
  BY <1>8 DEF CheckStarted, store, sched, procs, PC, Loop
<1>9. ASSUME EnterCS
      PROVE  TypeOK'
  <2>1. Cardinality(Running(local \cap Selected \cap CS)) \in Nat
    <3>1. Running(local \cap Selected \cap CS) \in SUBSET Job
      BY DEF Running, Job
    <3> QED
      BY <3>1, JobsFinite
  <2> QED
    BY <1>9, <2>1 DEF EnterCS, store, sched, procs, PC, Loop, Job
<1>10. ASSUME EndPass \/ RunDedup
       PROVE  TypeOK'
  BY <1>10 DEF EndPass, RunDedup, store, sched, procs, PC, Loop
<1>11. ASSUME Collect \/ CollectFails
       PROVE  TypeOK'
  BY <1>11, ReapType DEF Collect, CollectFails, store, sched, PC, Loop
<1>12. ASSUME NEW j \in Job, Expire(j) \/ AflExit(j)
       PROVE  TypeOK'
  BY <1>12 DEF Expire, AflExit, store, sched, procs, ctl, TimerState, AflState
<1>13. ASSUME Restart
       PROVE  TypeOK'
  <2>1. /\ timer' \in [Job -> TimerState]
        /\ afl' \in [Job -> AflState]
        /\ created' \in BOOLEAN
    BY <1>13, FreshType DEF Restart
  <2>2. /\ global' \subseteq Job
        /\ local' \subseteq global'
        /\ pidf' \subseteq Job
        /\ imgs' \in [Job -> Nat]
        /\ results' \subseteq Job
        /\ todo' \subseteq Job
        /\ boots' \in Nat /\ cs_gen' \in BOOLEAN
    BY <1>13 DEF Restart
  <2>3. /\ pc' \in PC
        /\ run_count' \in Nat
        /\ cur' \in CS \cup {NoJob}
        /\ (cur' # NoJob) <=> (pc' = "cs_check")
    BY <1>13 DEF Restart, PC, Loop
  <2> QED
    BY <2>1, <2>2, <2>3
<1>14. CASE UNCHANGED vars
  BY <1>14 DEF vars
<1> QED
  BY <1>1, <1>2, <1>3, <1>4, <1>5, <1>6, <1>7, <1>8, <1>9, <1>10, <1>11,
     <1>12, <1>13, <1>14 DEF Next, PassStep, Stopped

(* The initial state is well typed.                                        *)
LEMMA InitType == Init => TypeOK
<1> SUFFICES ASSUME Init
             PROVE  TypeOK
  OBVIOUS
<1>1. /\ timer \in [Job -> TimerState]
      /\ afl \in [Job -> AflState]
      /\ imgs \in [Job -> Nat]
      /\ created \in BOOLEAN
  BY FreshType DEF Init
<1>2. /\ global \subseteq Job
      /\ local \subseteq global
      /\ pidf \subseteq Job
      /\ results \subseteq Job
      /\ todo \subseteq Job
      /\ boots \in Nat /\ cs_gen \in BOOLEAN
  BY DEF Init
<1>3. /\ pc \in PC
      /\ run_count \in Nat
      /\ cur \in CS \cup {NoJob}
      /\ (cur # NoJob) <=> (pc = "cs_check")
  BY DEF Init, PC, Loop
<1> QED
  BY <1>1, <1>2, <1>3 DEF TypeOK

(* Every reachable state is well typed; a local job came from the global   *)
(* store; cur names a crash site exactly in "cs_check".                    *)
THEOREM TypeCorrect == Spec => []TypeOK
BY InitType, TypeStep, PTL DEF Spec
-----------------------------------------------------------------------------
(* The files of a job still agree after any step: only a launch makes a    *)
(* timer run, only a termination removes a pid file, and that of a job     *)
(* whose timer has expired.                                                *)
LEMMA FilesStep ==
  TypeOK /\ FilesAgree /\ SlotAccounting /\ [Next]_vars => FilesAgree'
<1> SUFFICES ASSUME TypeOK, FilesAgree, SlotAccounting, [Next]_vars
             PROVE  FilesAgree'
  OBVIOUS
<1> USE DEF FilesAgree, Running
<1>1. ASSUME NEW new \in SUBSET Job, CollectStage1(new)
      PROVE  FilesAgree'
  BY <1>1 DEF CollectStage1, sched, ctl
<1>2. ASSUME FirstPass \/ NextPass
      PROVE  FilesAgree'
  BY <1>2 DEF FirstPass, NextPass, Resume, sched
<1>3. ASSUME EnterKillAll \/ EndPass \/ RunDedup \/ CheckStarted \/ EnterCS
      PROVE  FilesAgree'
  BY <1>3 DEF EnterKillAll, EndPass, RunDedup, CheckStarted, EnterCS, store,
              sched
<1>4. ASSUME NEW j \in Job, Pass(j) \/ TerminateGone(j)
      PROVE  FilesAgree'
  BY <1>4 DEF Pass, TerminateGone, store, sched
<1>5. ASSUME NEW j \in Job,
             Terminate(j) \/ TerminateFails(j) \/ TerminateAmbiguous(j)
      PROVE  FilesAgree'
  BY <1>5 DEF Terminate, TerminateFails, TerminateAmbiguous, EndJob, store
<1>6. ASSUME NEW j \in Job, Start(j)
      PROVE  FilesAgree'
  <2>1. j \in local \cap Selected
    BY <1>6 DEF Start, Launch, SlotAccounting, LoopCount
  <2> QED
    BY <1>6, <2>1 DEF Start, Launch, store, TypeOK
<1>7. ASSUME NEW j \in Job, StartSlow(j)
      PROVE  FilesAgree'
  BY <1>7 DEF StartSlow, Launch, store, TypeOK
<1>8. ASSUME Collect \/ CollectFails
      PROVE  FilesAgree'
  BY <1>8 DEF Collect, CollectFails, store, sched
<1>9. ASSUME NEW j \in Job, Expire(j) \/ AflExit(j)
      PROVE  FilesAgree'
  BY <1>9 DEF Expire, AflExit, store, sched, ctl, TypeOK
<1>10. ASSUME Restart
       PROVE  FilesAgree'
  BY <1>10 DEF Restart
<1>11. CASE UNCHANGED vars
  BY <1>11 DEF vars
<1> QED
  BY <1>1, <1>2, <1>3, <1>4, <1>5, <1>6, <1>7, <1>8, <1>9, <1>10, <1>11
     DEF Next, PassStep, Stopped
-----------------------------------------------------------------------------
(* While the loop of a kind stays where it is and the jobs that hold a     *)
(* slot become no more, its accounting is preserved.                       *)
LEMMA LoopShrinks ==
  ASSUME TypeOK, TypeOK',
         NEW S \in SUBSET Job, NEW slots \in Nat, NEW at,
         LoopCount(S, slots, at),
         pc \in at, pc' \in at, run_count' = run_count,
         todo' \subseteq todo, local \subseteq local',
         Held(S)' \subseteq Held(S), pidf' \subseteq pidf
  PROVE  LoopCount(S, slots, at)'
<1>1. /\ Held(S) \in SUBSET Job
      /\ Held(S)' \in SUBSET Held(S)
      /\ Started(S) \cap todo \in SUBSET Job
      /\ Started(S)' \cap todo' \in SUBSET (Started(S) \cap todo)
  BY DEF Held, Started
<1>2. /\ Cardinality(Held(S)') <= Cardinality(Held(S))
      /\ Cardinality(Started(S)' \cap todo') <= Cardinality(Started(S) \cap todo)
  BY <1>1, Fewer
<1>3. /\ Cardinality(Held(S)) \in Nat
      /\ Cardinality(Held(S)') \in Nat
      /\ Cardinality(Started(S) \cap todo) \in Nat
      /\ Cardinality(Started(S)' \cap todo') \in Nat
  BY <1>1, JobsFinite
<1> QED
  BY <1>2, <1>3 DEF LoopCount, TypeOK

(* Outside its loop, a kind whose pid files become no more keeps to its    *)
(* slots.                                                                  *)
LEMMA OutsideShrinks ==
  ASSUME TypeOK,
         NEW S \in SUBSET Job, NEW slots \in Nat, NEW at,
         LoopCount(S, slots, at),
         pc \notin at, pc # "aborted", pc' \notin at, pidf' \cap S \subseteq pidf
  PROVE  LoopCount(S, slots, at)'
<1>1. Started(S) \in SUBSET Job /\ Started(S)' \in SUBSET Started(S)
  BY DEF Started
<1>2. /\ Cardinality(Started(S)') <= Cardinality(Started(S))
      /\ Cardinality(Started(S)) \in Nat
      /\ Cardinality(Started(S)') \in Nat
  BY <1>1, Fewer, JobsFinite
<1> QED
  BY <1>2 DEF LoopCount

(* The loop of a kind begins with the running jobs counted. No job outside *)
(* the list holds a slot, and what runs has a pid file.                    *)
LEMMA LoopBegins ==
  ASSUME TypeOK, FilesAgree,
         NEW S \in SUBSET Job, NEW slots \in Nat, NEW at,
         LoopCount(S, slots, at),
         pc \notin at, pc # "aborted", pc' \in at,
         local \subseteq local', pidf' = pidf, timer' = timer,
         todo' = local' \cap Selected \cap S,
         run_count' = Cardinality(Running(todo'))
  PROVE  LoopCount(S, slots, at)'
<1>1. /\ Started(S) \in SUBSET Job
      /\ Running(todo') \in SUBSET Started(S)
      /\ Held(S)' \in SUBSET Running(todo')
      /\ Started(S)' \cap todo' \in SUBSET Started(S)
  BY DEF Started, Running, Held, FilesAgree
<1>2. /\ Cardinality(Running(todo')) <= Cardinality(Started(S))
      /\ Cardinality(Held(S)') <= Cardinality(Running(todo'))
      /\ Cardinality(Started(S)' \cap todo') <= Cardinality(Started(S))
  BY <1>1, Fewer
<1>3. /\ Cardinality(Started(S)) \in Nat
      /\ Cardinality(Running(todo')) \in Nat
      /\ Cardinality(Held(S)') \in Nat
      /\ Cardinality(Started(S)' \cap todo') \in Nat
  BY <1>1, JobsFinite
<1>4. Cardinality(Started(S)) <= slots
  BY DEF LoopCount
<1> QED
  BY <1>2, <1>3, <1>4 DEF LoopCount

(* When the loop has visited every job, what holds a slot is what has a    *)
(* pid file.                                                               *)
LEMMA LoopEnds ==
  ASSUME TypeOK,
         NEW S \in SUBSET Job, NEW slots \in Nat, NEW at,
         LoopCount(S, slots, at),
         pc \in at, todo = {}, pc' \notin at, pidf' = pidf
  PROVE  LoopCount(S, slots, at)'
<1>1. Started(S)' = Held(S)
  BY DEF Started, Held
<1>2. Cardinality(Held(S)) <= slots
  <2>1. Held(S) \in SUBSET Job
    BY DEF Held
  <2> QED
    BY <2>1, JobsFinite DEF LoopCount, TypeOK
<1> QED
  BY <1>1, <1>2 DEF LoopCount

(* A launch takes one slot of the run count and of the limit.              *)
LEMMA LoopLaunches ==
  ASSUME TypeOK, TypeOK',
         NEW S \in SUBSET Job, NEW slots \in Nat, NEW at, NEW j \in Job,
         LoopCount(S, slots, at),
         pc \in at, pc' \in at, j \in todo, run_count < slots,
         todo' = todo \ {j}, local' = local, pidf' = pidf \cup {j},
         timer' = [timer EXCEPT ![j] = "running"],
         run_count' = run_count + 1
  PROVE  LoopCount(S, slots, at)'
<1>1. /\ Held(S) \in SUBSET Job
      /\ Held(S)' \in SUBSET (Held(S) \cup {j})
      /\ Started(S) \cap todo \in SUBSET Job
      /\ Started(S)' \cap todo' \in SUBSET (Started(S) \cap todo)
  BY DEF Held, Started, TypeOK
<1>2. /\ Cardinality(Held(S)') <= Cardinality(Held(S)) + 1
      /\ Cardinality(Started(S)' \cap todo') <= Cardinality(Started(S) \cap todo)
  BY <1>1, Fewer, OneMore
<1>3. /\ Cardinality(Held(S)) \in Nat
      /\ Cardinality(Held(S)') \in Nat
      /\ Cardinality(Started(S) \cap todo) \in Nat
      /\ Cardinality(Started(S)' \cap todo') \in Nat
  <2>1. /\ Held(S)' \in SUBSET Job
        /\ Started(S)' \cap todo' \in SUBSET Job
    BY <1>1
  <2> QED
    BY <1>1, <2>1, JobsFinite
<1> QED
  BY <1>2, <1>3 DEF LoopCount, TypeOK
-----------------------------------------------------------------------------
(* The kinds of jobs, and where their loops are.                           *)
InTC == {"tc"}
InCS == {"cs", "cs_check"}

(* The two kinds of jobs are disjoint sets of jobs.                        *)
LEMMA Kinds == TC \in SUBSET Job /\ CS \in SUBSET Job /\ TC \cap CS = {}
BY DEF Job

(* Every step keeps the accounting of the testcases.                       *)
LEMMA SlotStepTC ==
  TypeOK /\ TypeOK' /\ FilesAgree /\ SlotAccounting /\ [Next]_vars
    => LoopCount(TC, SlotsTC, InTC)'
<1> SUFFICES ASSUME TypeOK, TypeOK', FilesAgree, SlotAccounting, [Next]_vars
             PROVE  LoopCount(TC, SlotsTC, InTC)'
  OBVIOUS
<1> DEFINE Goal == LoopCount(TC, SlotsTC, InTC)'
<1>a. LoopCount(TC, SlotsTC, InTC) /\ LoopCount(CS, SlotsCS, InCS)
  BY DEF SlotAccounting, InTC, InCS
<1> USE SlotsType, Kinds
<1>1. ASSUME pc' = "aborted"
      PROVE  Goal
  BY <1>1 DEF LoopCount, InTC
<1>2. ASSUME NEW new \in SUBSET Job, CollectStage1(new)
      PROVE  Goal
  BY <1>2, <1>a, OutsideShrinks DEF CollectStage1, sched, ctl, InTC
<1>3. ASSUME FirstPass \/ NextPass, pc' # "aborted"
      PROVE  Goal
  <2>1. /\ pc = "idle" /\ pc' = "tc"
        /\ local \subseteq local' /\ pidf' = pidf /\ timer' = timer
        /\ todo' = local' \cap Selected \cap TC
        /\ run_count' = Cardinality(Running(todo'))
    BY <1>3 DEF FirstPass, NextPass, Resume, sched
  <2> QED
    BY <2>1, <1>a, LoopBegins DEF InTC
<1>4. ASSUME EnterKillAll \/ RunDedup \/ Collect
      PROVE  Goal
  BY <1>4, <1>a, OutsideShrinks DEF EnterKillAll, RunDedup, Collect, sched, InTC
<1>5. ASSUME CheckStarted, pc' # "aborted"
      PROVE  Goal
  BY <1>5, <1>a, OutsideShrinks DEF CheckStarted, sched, InTC
<1>6. ASSUME EnterCS, pc' # "aborted"
      PROVE  Goal
  BY <1>6, <1>a, LoopEnds DEF EnterCS, sched, InTC
<1>7. ASSUME EndPass
      PROVE  Goal
  <2>1. CASE pc = "tc"
    BY <1>7, <2>1, <1>a, LoopEnds DEF EndPass, sched, InTC
  <2>2. CASE pc = "cs"
    BY <1>7, <2>2, <1>a, OutsideShrinks DEF EndPass, sched, InTC
  <2> QED
    BY <1>7, <2>1, <2>2 DEF EndPass
<1>8. ASSUME NEW j \in Job, Pass(j)
      PROVE  Goal
  <2>1. Held(TC)' \subseteq Held(TC)
    BY <1>8 DEF Pass, store, sched, procs, Held, FilesAgree, Running, TypeOK
  <2>2. CASE pc \in InTC
    BY <1>8, <2>1, <2>2, <1>a, LoopShrinks DEF Pass, store, sched
  <2>3. CASE pc \notin InTC
    BY <1>8, <2>3, <1>a, OutsideShrinks DEF Pass, sched, Loop, InTC
  <2> QED
    BY <2>2, <2>3
<1>9. ASSUME NEW j \in Job, Terminate(j)
      PROVE  Goal
  <2>1. Held(TC)' \subseteq Held(TC)
    BY <1>9 DEF Terminate, EndJob, store, Held
  <2>2. CASE pc \in InTC
    BY <1>9, <2>1, <2>2, <1>a, LoopShrinks DEF Terminate, EndJob, store
  <2>3. CASE pc \notin InTC
    BY <1>9, <2>3, <1>a, OutsideShrinks DEF Terminate, EndJob, Loop, InTC
  <2> QED
    BY <2>2, <2>3
<1>10. ASSUME NEW j \in Job, Start(j)
       PROVE  Goal
  <2>1. CASE pc = "tc"
    <3>1. j \in TC
      BY <1>10, <2>1, <1>a DEF Start, Launch, LoopCount, InTC
    <3>2. /\ pc' = "tc" /\ j \in todo /\ run_count < SlotsTC
          /\ todo' = todo \ {j} /\ local' = local /\ pidf' = pidf \cup {j}
          /\ timer' = [timer EXCEPT ![j] = "running"]
          /\ run_count' = run_count + 1
      BY <1>10, <2>1, <3>1 DEF Start, Launch, store, Slots
    <3> QED
      BY <2>1, <3>2, <1>a, LoopLaunches DEF InTC
  <2>2. CASE pc = "cs"
    <3>1. j \in CS
      BY <1>10, <2>2, <1>a DEF Start, Launch, LoopCount, InCS
    <3>2. pc' = "cs_check" /\ pidf' \cap TC \subseteq pidf
      BY <1>10, <2>2, <3>1 DEF Start
    <3> QED
      BY <2>2, <3>2, <1>a, OutsideShrinks DEF InTC
  <2> QED
    BY <1>10, <2>1, <2>2 DEF Start, Launch
<1>11. ASSUME NEW j \in Job, Expire(j) \/ AflExit(j), pc # "aborted"
       PROVE  Goal
  <2>1. Held(TC)' \subseteq Held(TC)
    BY <1>11 DEF Expire, AflExit, store, sched, procs, ctl, Held, TypeOK
  <2>2. CASE pc \in InTC
    BY <1>11, <2>1, <2>2, <1>a, LoopShrinks DEF Expire, AflExit, store, sched, ctl
  <2>3. CASE pc \notin InTC
    BY <1>11, <2>3, <1>a, OutsideShrinks DEF Expire, AflExit, sched, ctl, InTC
  <2> QED
    BY <2>2, <2>3
<1>12. ASSUME NEW j \in Job, Expire(j) \/ AflExit(j), pc = "aborted"
       PROVE  Goal
  BY <1>12, <1>1 DEF Expire, AflExit, ctl
<1>13. ASSUME Restart
       PROVE  Goal
  BY <1>13, FS_EmptySet DEF Restart, LoopCount, Started, InTC
<1>14. CASE UNCHANGED vars
  BY <1>14, <1>a DEF vars, LoopCount, Held, Started, InTC
<1>15. ASSUME NEW j \in Job, \/ StartSlow(j) \/ TerminateGone(j)
                             \/ TerminateAmbiguous(j) \/ TerminateFails(j)
       PROVE  Goal
  BY <1>15, <1>1 DEF StartSlow, TerminateGone, TerminateAmbiguous, TerminateFails
<1>16. ASSUME CollectFails
       PROVE  Goal
  BY <1>16, <1>1 DEF CollectFails
<1> QED
  BY <1>1, <1>2, <1>3, <1>4, <1>5, <1>6, <1>7, <1>8, <1>9, <1>10, <1>11,
     <1>12, <1>13, <1>14, <1>15, <1>16 DEF Next, PassStep, Stopped

(* Every step keeps the accounting of the crash sites.                     *)
LEMMA SlotStepCS ==
  TypeOK /\ TypeOK' /\ FilesAgree /\ SlotAccounting /\ [Next]_vars
    => LoopCount(CS, SlotsCS, InCS)'
<1> SUFFICES ASSUME TypeOK, TypeOK', FilesAgree, SlotAccounting, [Next]_vars
             PROVE  LoopCount(CS, SlotsCS, InCS)'
  OBVIOUS
<1> DEFINE Goal == LoopCount(CS, SlotsCS, InCS)'
<1>a. LoopCount(TC, SlotsTC, InTC) /\ LoopCount(CS, SlotsCS, InCS)
  BY DEF SlotAccounting, InTC, InCS
<1> USE SlotsType, Kinds
<1>1. ASSUME pc' = "aborted"
      PROVE  Goal
  BY <1>1 DEF LoopCount, InCS
<1>2. ASSUME NEW new \in SUBSET Job, CollectStage1(new)
      PROVE  Goal
  BY <1>2, <1>a, OutsideShrinks DEF CollectStage1, sched, ctl, InCS
<1>3. ASSUME FirstPass \/ NextPass, pc' # "aborted"
      PROVE  Goal
  <2>1. pc = "idle" /\ pc' = "tc" /\ pidf' = pidf
    BY <1>3 DEF FirstPass, NextPass, Resume, sched
  <2> QED
    BY <2>1, <1>a, OutsideShrinks DEF InCS
<1>4. ASSUME EnterKillAll \/ RunDedup \/ Collect
      PROVE  Goal
  BY <1>4, <1>a, OutsideShrinks DEF EnterKillAll, RunDedup, Collect, sched, InCS
<1>5. ASSUME CheckStarted, pc' # "aborted"
      PROVE  Goal
  <2>1. Held(CS)' = Held(CS)
    BY <1>5 DEF CheckStarted, store, sched, Held
  <2> QED
    BY <1>5, <2>1, <1>a, LoopShrinks DEF CheckStarted, store, sched, InCS
<1>6. ASSUME EnterCS, pc' # "aborted"
      PROVE  Goal
  <2>1. /\ pc = "tc" /\ pc' = "cs" /\ local' = local
        /\ pidf' = pidf /\ timer' = timer
        /\ todo' = local' \cap Selected \cap CS
        /\ run_count' = Cardinality(Running(todo'))
    BY <1>6 DEF EnterCS, store, sched
  <2> QED
    BY <2>1, <1>a, LoopBegins DEF InCS
<1>7. ASSUME EndPass
      PROVE  Goal
  <2>1. CASE pc = "cs"
    BY <1>7, <2>1, <1>a, LoopEnds DEF EndPass, sched, InCS
  <2>2. CASE pc = "tc"
    BY <1>7, <2>2, <1>a, OutsideShrinks DEF EndPass, sched, InCS
  <2> QED
    BY <1>7, <2>1, <2>2 DEF EndPass
<1>8. ASSUME NEW j \in Job, Pass(j)
      PROVE  Goal
  <2>1. Held(CS)' \subseteq Held(CS)
    BY <1>8 DEF Pass, store, sched, procs, Held, FilesAgree, Running, TypeOK
  <2>2. CASE pc \in InCS
    BY <1>8, <2>1, <2>2, <1>a, LoopShrinks DEF Pass, store, sched
  <2>3. CASE pc \notin InCS
    BY <1>8, <2>3, <1>a, OutsideShrinks DEF Pass, sched, Loop, InCS
  <2> QED
    BY <2>2, <2>3
<1>9. ASSUME NEW j \in Job, Terminate(j)
      PROVE  Goal
  <2>1. Held(CS)' \subseteq Held(CS)
    BY <1>9 DEF Terminate, EndJob, store, Held
  <2>2. CASE pc \in InCS
    BY <1>9, <2>1, <2>2, <1>a, LoopShrinks DEF Terminate, EndJob, store
  <2>3. CASE pc \notin InCS
    BY <1>9, <2>3, <1>a, OutsideShrinks DEF Terminate, EndJob, Loop, InCS
  <2> QED
    BY <2>2, <2>3
<1>10. ASSUME NEW j \in Job, Start(j)
       PROVE  Goal
  <2>1. CASE pc = "cs"
    <3>1. j \in CS
      BY <1>10, <2>1, <1>a DEF Start, Launch, LoopCount, InCS
    <3>2. /\ pc' = "cs_check" /\ j \in todo /\ run_count < SlotsCS
          /\ todo' = todo \ {j} /\ local' = local /\ pidf' = pidf \cup {j}
          /\ timer' = [timer EXCEPT ![j] = "running"]
          /\ run_count' = run_count + 1
      BY <1>10, <2>1, <3>1 DEF Start, Launch, store, Slots
    <3> QED
      BY <2>1, <3>2, <1>a, LoopLaunches DEF InCS
  <2>2. CASE pc = "tc"
    <3>1. j \in TC
      BY <1>10, <2>2, <1>a DEF Start, Launch, LoopCount, InTC
    <3>2. pc' = "tc" /\ pidf' \cap CS \subseteq pidf
      BY <1>10, <2>2, <3>1 DEF Start
    <3> QED
      BY <2>2, <3>2, <1>a, OutsideShrinks DEF InCS
  <2> QED
    BY <1>10, <2>1, <2>2 DEF Start, Launch
<1>11. ASSUME NEW j \in Job, Expire(j) \/ AflExit(j), pc # "aborted"
       PROVE  Goal
  <2>1. Held(CS)' \subseteq Held(CS)
    BY <1>11 DEF Expire, AflExit, store, sched, procs, ctl, Held, TypeOK
  <2>2. CASE pc \in InCS
    BY <1>11, <2>1, <2>2, <1>a, LoopShrinks DEF Expire, AflExit, store, sched, ctl
  <2>3. CASE pc \notin InCS
    BY <1>11, <2>3, <1>a, OutsideShrinks DEF Expire, AflExit, sched, ctl, InCS
  <2> QED
    BY <2>2, <2>3
<1>12. ASSUME NEW j \in Job, Expire(j) \/ AflExit(j), pc = "aborted"
       PROVE  Goal
  BY <1>12, <1>1 DEF Expire, AflExit, ctl
<1>13. ASSUME Restart
       PROVE  Goal
  BY <1>13, FS_EmptySet DEF Restart, LoopCount, Started, InCS
<1>14. CASE UNCHANGED vars
  BY <1>14, <1>a DEF vars, LoopCount, Held, Started, InCS
<1>15. ASSUME NEW j \in Job, \/ StartSlow(j) \/ TerminateGone(j)
                             \/ TerminateAmbiguous(j) \/ TerminateFails(j)
       PROVE  Goal
  BY <1>15, <1>1 DEF StartSlow, TerminateGone, TerminateAmbiguous, TerminateFails
<1>16. ASSUME CollectFails
       PROVE  Goal
  BY <1>16, <1>1 DEF CollectFails
<1> QED
  BY <1>1, <1>2, <1>3, <1>4, <1>5, <1>6, <1>7, <1>8, <1>9, <1>10, <1>11,
     <1>12, <1>13, <1>14, <1>15, <1>16 DEF Next, PassStep, Stopped
-----------------------------------------------------------------------------
IInv == TypeOK /\ FilesAgree /\ SlotAccounting

(* The inductive invariant.                                                *)
LEMMA Invariant == Spec => []IInv
<1>1. Init => IInv
  <2> SUFFICES ASSUME Init
               PROVE  FilesAgree /\ SlotAccounting
    BY InitType DEF IInv
  <2>1. Started(TC) = {} /\ Started(CS) = {}
    BY DEF Init, Started
  <2>2. SlotAccounting
    BY <2>1, FS_EmptySet, SlotsType DEF Init, SlotAccounting, LoopCount
  <2>3. FilesAgree
    BY DEF Init, FilesAgree, Running
  <2> QED
    BY <2>2, <2>3
<1>2. IInv /\ [Next]_vars => IInv'
  BY TypeStep, FilesStep, SlotStepTC, SlotStepCS
     DEF IInv, SlotAccounting, InTC, InCS
<1> QED
  BY <1>1, <1>2, PTL DEF Spec

(* get_run_count() finds the pid file of every job whose timer runs, and   *)
(* no job outside the stage's lists has one.                               *)
THEOREM FilesAlwaysAgree == Spec => []FilesAgree
BY Invariant, PTL DEF IInv

(* run_count, read once per loop and never decreased, bounds the slots in  *)
(* use at every step of a pass, however timers expire meanwhile; between   *)
(* passes neither kind of job has more fuzzers than slots.                 *)
THEOREM SlotsAccounted == Spec => []SlotAccounting
BY Invariant, PTL DEF IInv

(* With two cores to share, or nothing to share them with, the fuzzers of  *)
(* both kinds fit into --cores-stage2 between passes.                      *)
THEOREM CoresAreRespected ==
  ASSUME FInj => Cores >= 2
  PROVE  Spec => []CoresRespected
<1>1. IInv => CoresRespected
  <2> SUFFICES ASSUME IInv, pc = "idle"
               PROVE  Cardinality(pidf) <= Cores
    BY DEF CoresRespected
  <2>1. /\ Started(TC) \in SUBSET Job
        /\ Started(CS) \in SUBSET Job
        /\ pidf \in SUBSET (Started(TC) \cup Started(CS))
        /\ pidf \in SUBSET Job
    BY DEF IInv, TypeOK, Started, Job
  <2>2. Cardinality(pidf) <= Cardinality(Started(TC)) + Cardinality(Started(CS))
    BY <2>1, Covered
  <2>3. Cardinality(Started(TC)) <= SlotsTC /\ Cardinality(Started(CS)) <= SlotsCS
    BY DEF IInv, SlotAccounting, LoopCount
  <2>4. /\ Cardinality(pidf) \in Nat
        /\ Cardinality(Started(TC)) \in Nat
        /\ Cardinality(Started(CS)) \in Nat
    BY <2>1, JobsFinite
  <2> QED
    BY <2>2, <2>3, <2>4, SlotsType
<1> QED
  BY <1>1, Invariant, PTL

(* One kind of job never has more than twice its slots: within its loop,   *)
(* a job with a pid file holds a slot or is one the loop has to visit.     *)
LEMMA KindTransient ==
  ASSUME TypeOK, NEW S \in SUBSET Job, NEW slots \in Nat, NEW at,
         LoopCount(S, slots, at), pc # "aborted"
  PROVE  Cardinality(Started(S)) <= 2 * slots
<1>1. /\ Started(S) \in SUBSET Job
      /\ Held(S) \in SUBSET Job
      /\ Started(S) \cap todo \in SUBSET Job
      /\ Started(S) \in SUBSET (Held(S) \cup (Started(S) \cap todo))
  BY DEF Started, Held
<1>2. /\ Cardinality(Started(S)) \in Nat
      /\ Cardinality(Held(S)) \in Nat
      /\ Cardinality(Started(S) \cap todo) \in Nat
  BY <1>1, JobsFinite
<1>3. Cardinality(Started(S))
        <= Cardinality(Held(S)) + Cardinality(Started(S) \cap todo)
  BY <1>1, Covered
<1> QED
  BY <1>2, <1>3 DEF LoopCount, TypeOK

(* A step that aborts starts nothing that has a pid file.                  *)
LEMMA AbortKeeps ==
  ASSUME [Next]_vars, pc' = "aborted"
  PROVE  pidf' \subseteq pidf
BY DEF Next, PassStep, vars, store, sched, ctl, procs, CollectStage1, FirstPass,
       NextPass, Resume, EnterKillAll, Pass, Terminate, TerminateGone,
       TerminateAmbiguous, TerminateFails, EndJob, Start, StartSlow, Launch,
       CheckStarted, EnterCS, EndPass, Collect, CollectFails, RunDedup, Expire,
       AflExit, Restart, Stopped

(* Not even in the middle of a pass, or of a pass that aborts, are there   *)
(* more than twice as many fuzzers of a kind as slots.                     *)
THEOREM TransientlyBounded == Spec => []TransientBound
<1>1. Init => TransientBound
  <2> SUFFICES ASSUME Init
               PROVE  TransientBound
    OBVIOUS
  <2>1. Started(TC) = {} /\ Started(CS) = {}
    BY DEF Init, Started
  <2> QED
    BY <2>1, FS_EmptySet, SlotsType DEF TransientBound
<1>2. IInv /\ ~(pc = "aborted") => TransientBound
  BY KindTransient, SlotsType, Kinds DEF IInv, SlotAccounting, TransientBound
<1>3. TransientBound /\ [Next]_vars /\ (pc = "aborted")' => TransientBound'
  <2> SUFFICES ASSUME TransientBound, [Next]_vars, pc' = "aborted"
               PROVE  TransientBound'
    OBVIOUS
  <2>1. /\ Started(TC)' \in SUBSET Started(TC) /\ Started(TC) \in SUBSET Job
        /\ Started(CS)' \in SUBSET Started(CS) /\ Started(CS) \in SUBSET Job
    BY AbortKeeps, Kinds DEF Started
  <2>2. /\ Cardinality(Started(TC)') <= Cardinality(Started(TC))
        /\ Cardinality(Started(CS)') <= Cardinality(Started(CS))
    BY <2>1, Fewer
  <2>3. /\ Started(TC)' \in SUBSET Job
        /\ Started(CS)' \in SUBSET Job
    BY <2>1
  <2>4. /\ Cardinality(Started(TC)) \in Nat /\ Cardinality(Started(TC)') \in Nat
        /\ Cardinality(Started(CS)) \in Nat /\ Cardinality(Started(CS)') \in Nat
    BY <2>1, <2>3, JobsFinite
  <2> QED
    BY <2>2, <2>4, SlotsType DEF TransientBound
<1> QED
  BY <1>1, <1>2, <1>3, Invariant, PTL DEF Spec
-----------------------------------------------------------------------------
(* The life of a job, in its files and processes: before its timer is      *)
(* started it has neither a process nor results; afterwards, unless PMFuzz *)
(* aborted, it has its pid file or its results are in. kill_all() works on *)
(* a completed stage and has every fuzzer of a testcase on its list.       *)
Life ==
  /\ \A j \in Job : timer[j] = "new" => afl[j] = "none" /\ j \notin results
  /\ pc # "aborted" =>
       \A j \in Job : timer[j] # "new" => j \in pidf \cup results
  /\ pc = "kill_all" => todo \subseteq local \cap TC /\ pidf \cap TC \subseteq todo
  /\ pc \in {"kill_all", "dedup"} => \A j \in local \cap TC : timer[j] = "expired"
  /\ pc = "dedup" => pidf \cap TC = {}
  /\ Reachable

(* Every step keeps Life.                                                  *)
LEMMA LifeStep == IInv /\ IInv' /\ Life /\ [Next]_vars => Life'
<1> SUFFICES ASSUME IInv, IInv', Life, [Next]_vars
             PROVE  Life'
  OBVIOUS
<1> USE DEF Life, Reachable
<1>a. TypeOK /\ FilesAgree /\ SlotAccounting
  BY DEF IInv
<1>b. \A a \in [Job -> AflState] :
        \A j \in Job : /\ Reap(a)[j] = "alive" <=> a[j] = "alive"
                       /\ Reap(a)[j] = "none" <=> a[j] = "none"
  BY DEF Reap
<1>1. ASSUME NEW new \in SUBSET Job, CollectStage1(new)
      PROVE  Life'
  BY <1>1, <1>a, <1>b DEF CollectStage1, sched, ctl, TypeOK
<1>2. ASSUME FirstPass \/ NextPass
      PROVE  Life'
  BY <1>2 DEF FirstPass, NextPass, Resume, sched, procs
<1>3. ASSUME EnterKillAll
      PROVE  Life'
  BY <1>3, <1>a DEF EnterKillAll, Completed, store, sched, procs, FilesAgree
<1>4. ASSUME EndPass \/ RunDedup \/ CheckStarted \/ EnterCS
      PROVE  Life'
  BY <1>4 DEF EndPass, RunDedup, CheckStarted, EnterCS, store, sched, procs
<1>5. ASSUME NEW j \in Job, Pass(j) \/ TerminateGone(j)
      PROVE  Life'
  BY <1>5 DEF Pass, TerminateGone, store, sched, procs
<1>6. ASSUME NEW j \in Job, Terminate(j) \/ TerminateFails(j)
      PROVE  Life'
  <2> DEFINE a == [afl EXCEPT ![j] = IF @ = "alive" THEN "term" ELSE @]
  <2>1. /\ a \in [Job -> AflState]
        /\ a[j] # "alive"
        /\ \A i \in Job : a[i] = "alive" => afl[i] = "alive"
        /\ \A i \in Job : a[i] = "none" <=> afl[i] = "none"
    BY <1>a DEF TypeOK, AflState
  <2>2. afl' = Reap(a)
    BY <1>6 DEF Terminate, TerminateFails, EndJob
  <2> HIDE DEF a
  <2>3. /\ \A i \in Job : afl'[i] = "alive" => afl[i] = "alive" /\ i # j
        /\ \A i \in Job : afl'[i] = "none" <=> afl[i] = "none"
    BY <2>1, <2>2, <1>b
  <2> QED
    BY <1>6, <2>3 DEF Terminate, TerminateFails, EndJob, store
<1>7. ASSUME NEW j \in Job, TerminateAmbiguous(j)
      PROVE  Life'
  BY <1>7, <1>a DEF TerminateAmbiguous, store, TypeOK
<1>8. ASSUME NEW j \in Job, Start(j)
      PROVE  Life'
  <2>1. \A i \in Job : /\ i # j => (afl'[i] = "none" <=> afl[i] = "none")
                       /\ i # j => (afl'[i] = "alive" <=> afl[i] = "alive")
    BY <1>8, <1>a, <1>b, ReapType DEF Start, TypeOK
  <2>2. \A i \in Job : timer'[i] = IF i = j THEN "running" ELSE timer[i]
    BY <1>8, <1>a DEF Start, Launch, TypeOK
  <2> QED
    BY <1>8, <2>1, <2>2 DEF Start, Launch, store
<1>9. ASSUME NEW j \in Job, StartSlow(j)
      PROVE  Life'
  <2>1. \A i \in Job : i # j => (afl'[i] = "none" <=> afl[i] = "none")
    BY <1>9, <1>a, <1>b, ReapType DEF StartSlow, TypeOK
  <2>2. \A i \in Job : timer'[i] = IF i = j THEN "running" ELSE timer[i]
    BY <1>9, <1>a DEF StartSlow, Launch, TypeOK
  <2> QED
    BY <1>9, <2>1, <2>2 DEF StartSlow, store
<1>10. ASSUME Collect \/ CollectFails
       PROVE  Life'
  BY <1>10, <1>a, <1>b DEF Collect, CollectFails, store, sched, TypeOK
<1>11. ASSUME NEW j \in Job, Expire(j)
       PROVE  Life'
  BY <1>11, <1>a DEF Expire, store, procs, ctl, TypeOK
<1>12. ASSUME NEW j \in Job, AflExit(j)
       PROVE  Life'
  BY <1>12, <1>a DEF AflExit, store, sched, ctl, TypeOK
<1>13. ASSUME Restart
       PROVE  Life'
  BY <1>13 DEF Restart
<1>14. CASE UNCHANGED vars
  BY <1>14 DEF vars
<1> QED
  BY <1>1, <1>2, <1>3, <1>4, <1>5, <1>6, <1>7, <1>8, <1>9, <1>10, <1>11,
     <1>12, <1>13, <1>14 DEF Next, PassStep, Stopped

(* Life holds in every reachable state.                                    *)
LEMMA LifeInvariant == Spec => []Life
<1>1. Init => Life
  BY DEF Init, Life, Reachable
<1> QED
  BY <1>1, LifeStep, Invariant, PTL DEF Spec

(* While PMFuzz runs, no live AFL process is out of its reach.             *)
THEOREM AlwaysReachable == Spec => []Reachable
BY LifeInvariant, PTL DEF Life

(* Before the first restart, and while PMFuzz has not aborted, the         *)
(* directories of img_loc that jobs run in are those of the jobs with a    *)
(* pid file: each action that touches one touches the other, or aborts. A  *)
(* job that is started has none, as its timer is new. What a collection    *)
(* leaves there needs failure injection and a job that was collected.      *)
THEOREM RunImagesAlwaysCleaned == Spec => []RunImagesCleaned
<1> DEFINE Own == \A i \in Job : imgs[i] = IF i \in pidf THEN 1 ELSE 0
           Others == cs_gen => FInj /\ results # {}
<1>1. Init => RunImagesCleaned
  BY DEF Init, RunImagesCleaned
<1>2. IInv /\ RunImagesCleaned /\ [Next]_vars => RunImagesCleaned'
  <2> SUFFICES ASSUME IInv, RunImagesCleaned, [Next]_vars, boots' = 0,
                      pc' # "aborted"
               PROVE  Own' /\ Others'
    BY DEF RunImagesCleaned
  <2>a. TypeOK /\ FilesAgree
    BY DEF IInv
  <2>b. boots = 0 /\ pc # "aborted" => Own /\ Others
    BY DEF RunImagesCleaned
  <2>1. ASSUME NEW j \in Job, Terminate(j)
        PROVE  Own' /\ Others'
    <3>1. boots = 0 /\ pc # "aborted" /\ pidf' = pidf \ {j}
          /\ imgs' = [imgs EXCEPT ![j] = 0]
          /\ cs_gen' \in {cs_gen, cs_gen \/ FInj} /\ j \in results'
      BY <2>1 DEF Terminate, EndJob, LeavesDirectories, Loop
    <3>2. Own'
      BY <2>a, <2>b, <3>1 DEF TypeOK
    <3>3. Others'
      BY <2>b, <3>1
    <3> QED
      BY <3>2, <3>3
  <2>2. ASSUME NEW j \in Job, Start(j)
        PROVE  Own' /\ Others'
    <3>1. /\ boots = 0 /\ pc # "aborted"
          /\ imgs' = [imgs EXCEPT ![j] = IF j \in TC THEN 1 ELSE @ + 1]
          /\ pidf' = pidf \cup {j} /\ cs_gen' = cs_gen /\ results' = results
      BY <2>2 DEF Start, Launch
    <3>2. j \notin pidf /\ imgs[j] = 0
      BY <2>2, <2>a, <2>b, <3>1 DEF Start, Launch, FilesAgree
    <3> QED
      BY <2>a, <2>b, <3>1, <3>2 DEF TypeOK
  <2>3. ASSUME \/ CollectFails
               \/ \E j \in Job : \/ TerminateGone(j) \/ TerminateAmbiguous(j)
                                  \/ TerminateFails(j) \/ StartSlow(j)
        PROVE  FALSE
    BY <2>3 DEF TerminateGone, TerminateAmbiguous, TerminateFails, StartSlow,
                CollectFails
  <2>4. ASSUME Restart
        PROVE  FALSE
    BY <2>4, <2>a DEF Restart, TypeOK
  <2>5. ASSUME imgs' = imgs, pidf' = pidf, boots' = boots, pc # "aborted",
               cs_gen' = cs_gen, results \subseteq results'
        PROVE  Own' /\ Others'
    BY <2>5, <2>b
  <2> HIDE DEF Own, Others
  <2> QED
    BY <2>1, <2>2, <2>3, <2>4, <2>5
       DEF Next, PassStep, Stopped, vars, procs, store, sched, ctl, Loop,
           CollectStage1, FirstPass, NextPass, Resume, EnterKillAll, Pass,
           CheckStarted, EnterCS, EndPass, Collect, RunDedup, Expire, AflExit
<1> QED
  BY <1>1, <1>2, Invariant, PTL DEF Spec

(* A stage that reaches deduplication has the results of each of its       *)
(* testcases, and no fuzzer of one is left.                                *)
THEOREM CompletionCollects == Spec => []CompletedCollected
<1>1. IInv /\ Life => CompletedCollected
  BY DEF IInv, TypeOK, Life, Reachable, CompletedCollected
<1> QED
  BY <1>1, Invariant, LifeInvariant, PTL
-----------------------------------------------------------------------------
(* One invocation of PMFuzz starts AFL for a job at most once.             *)
THEOREM JobsStartOnce == Spec => StartedOnce
<1> DEFINE Once == \A j \in Job : afl'[j] = "alive" => afl[j] \in {"none", "alive"}
<1>1. IInv /\ Life /\ [Next]_vars => [Once]_vars
  <2> SUFFICES ASSUME IInv, Life, [Next]_vars, NEW i \in Job, afl'[i] = "alive"
               PROVE  afl[i] \in {"none", "alive"}
    OBVIOUS
  <2>a. afl \in [Job -> AflState]
    BY DEF IInv, TypeOK
  <2>b. \A a \in [Job -> AflState] :
          \A j \in Job : Reap(a)[j] = "alive" <=> a[j] = "alive"
    BY DEF Reap
  <2>1. ASSUME NEW j \in Job, Start(j) \/ StartSlow(j)
        PROVE  afl[i] \in {"none", "alive"}
    <3>1. timer[j] = "new" /\ afl' = [Reap(afl) EXCEPT ![j] = "alive"]
      BY <2>1 DEF Start, StartSlow, Launch
    <3> QED
      BY <3>1, <2>a, <2>b, ReapType DEF Life
  <2>2. ASSUME NEW j \in Job, Terminate(j) \/ TerminateFails(j)
        PROVE  afl[i] \in {"none", "alive"}
    <3> DEFINE a == [afl EXCEPT ![j] = IF @ = "alive" THEN "term" ELSE @]
    <3>1. a \in [Job -> AflState] /\ (a[i] = "alive" => afl[i] = "alive")
      BY <2>a DEF AflState
    <3>2. afl' = Reap(a)
      BY <2>2 DEF Terminate, TerminateFails, EndJob
    <3> HIDE DEF a
    <3> QED
      BY <3>1, <3>2, <2>b
  <2>3. ASSUME NEW j \in Job, TerminateAmbiguous(j) \/ AflExit(j)
        PROVE  afl[i] \in {"none", "alive"}
    BY <2>3, <2>a DEF TerminateAmbiguous, AflExit
  <2>4. ASSUME afl' = afl \/ afl' = Reap(afl)
        PROVE  afl[i] \in {"none", "alive"}
    BY <2>4, <2>a, <2>b
  <2>5. ASSUME Restart
        PROVE  FALSE
    BY <2>5 DEF Restart
  <2> QED
    BY <2>1, <2>2, <2>3, <2>4, <2>5
       DEF Next, PassStep, Stopped, vars, procs, store, sched, ctl,
           CollectStage1, FirstPass, NextPass, Resume, EnterKillAll, Pass,
           TerminateGone, CheckStarted, EnterCS, EndPass, Collect,
           CollectFails, RunDedup, Expire
<1> QED
  BY <1>1, Invariant, LifeInvariant, PTL DEF Spec, StartedOnce
-----------------------------------------------------------------------------
(* A step takes a place in the pool when it launches a testcase, whether   *)
(* its pid file is written or not, gives it back when it terminates one,   *)
(* and otherwise leaves the pool alone.                                    *)
LEMMA PoolStep == IInv /\ Life /\ [Next]_vars => [Abs!Next]_(Abs!poolVars)
<1> SUFFICES ASSUME IInv, Life, [Next]_vars
             PROVE  [Abs!Next]_(Abs!poolVars)
  OBVIOUS
<1>a. TypeOK /\ FilesAgree /\ SlotAccounting
  BY DEF IInv
<1> DEFINE Busy == (pidf \cup (Begun \ results)) \cap TC
           Same == Busy' = Busy /\ results' \cap TC = results \cap TC
<1>b. timer' = timer => Begun' = Begun
  BY DEF Begun
<1>1. ASSUME Same
      PROVE  [Abs!Next]_(Abs!poolVars)
  BY <1>1 DEF Abs!poolVars
<1>2. ASSUME NEW j \in Job, Start(j) \/ StartSlow(j)
      PROVE  [Abs!Next]_(Abs!poolVars)
  <2>0. /\ pc \in {"tc", "cs"} /\ j \in todo /\ timer[j] = "new"
        /\ timer' = [timer EXCEPT ![j] = "running"] /\ results' = results
        /\ run_count < Slots /\ pidf' \in {pidf, pidf \cup {j}}
    BY <1>2 DEF Start, StartSlow, Launch
  <2>z. Begun' = Begun \cup {j}
    BY <2>0, <1>a DEF Begun, TypeOK
  <2>1. CASE j \notin TC
    <3>1. Same
      BY <2>0, <2>z, <2>1
    <3> QED
      BY <3>1, <1>1
  <2>2. CASE j \in TC
    <3>1. pc = "tc" /\ j \in todo /\ run_count < SlotsTC
      BY <2>0, <2>2, <1>a, Kinds DEF Slots, SlotAccounting, LoopCount
    <3>2. j \notin Busy \cup results
      BY <2>0, <1>a DEF Begun, Life, FilesAgree
    <3>3. Cardinality(Busy \cup {j}) <= 2 * SlotsTC
      <4>1. /\ Started(TC) \in SUBSET Job
            /\ Held(TC) \in SUBSET Job
            /\ Started(TC) \cap todo \in SUBSET Job
            /\ Started(TC) \in SUBSET (Held(TC) \cup (Started(TC) \cap todo))
        BY Kinds DEF Started, Held
      <4>2. Cardinality(Started(TC))
              <= Cardinality(Held(TC)) + Cardinality(Started(TC) \cap todo)
        BY <4>1, Covered
      <4>3. /\ Cardinality(Started(TC)) \in Nat
            /\ Cardinality(Held(TC)) \in Nat
            /\ Cardinality(Started(TC) \cap todo) \in Nat
        BY <4>1, JobsFinite
      <4>4. /\ Cardinality(Held(TC)) <= run_count
            /\ Cardinality(Started(TC) \cap todo) <= SlotsTC
        BY <3>1, <1>a DEF SlotAccounting, LoopCount
      <4>5. run_count \in Nat
        BY <1>a DEF TypeOK
      <4>6. Cardinality(Started(TC)) + 1 <= 2 * SlotsTC
        BY <3>1, <4>2, <4>3, <4>4, <4>5, SlotsType
      <4>7. Busy \cup {j} \in SUBSET (Started(TC) \cup {j})
        BY <3>1 DEF Begun, Started, Life
      <4>8. Cardinality(Busy \cup {j}) <= Cardinality(Started(TC)) + 1
        <5>1. Busy \cup {j} \in SUBSET Job
          BY <4>1, <4>7
        <5> HIDE DEF Busy
        <5> QED
          BY <4>1, <4>7, <5>1, OneMore
      <4>9. Cardinality(Busy \cup {j}) \in Nat
        BY <4>1, <4>7, JobsFinite
      <4> QED
        BY <4>3, <4>6, <4>8, <4>9, SlotsType
    <3>4. /\ Busy' = Busy \cup {j}
          /\ results' \cap TC = results \cap TC
      BY <2>0, <2>z, <2>2, <3>2
    <3>5. Abs!Acquire(j)
      <4>1. Busy \cup {j} \in SUBSET TC
        BY <2>2
      <4> QED
        BY <3>2, <3>3, <3>4, <4>1 DEF Abs!Acquire
    <3> QED
      BY <3>5, <2>2 DEF Abs!Next
  <2> QED
    BY <2>1, <2>2
<1>3. ASSUME NEW j \in Job, Terminate(j) \/ TerminateFails(j)
      PROVE  [Abs!Next]_(Abs!poolVars)
  <2>0. /\ j \in pidf /\ pidf' = pidf \ {j} /\ Begun' = Begun
        /\ results' \in {results, results \cup {j}}
    BY <1>3, <1>b DEF Terminate, TerminateFails, EndJob
  <2>1. j \in Begun
    BY <2>0, <1>a DEF FilesAgree, Begun
  <2>2. CASE j \notin TC \/ j \notin results'
    <3>1. Same
      BY <2>0, <2>1, <2>2
    <3> QED
      BY <3>1, <1>1
  <2>3. CASE j \in TC /\ j \in results'
    <3>1. j \in Busy /\ Busy' = Busy \ {j}
      BY <2>0, <2>3
    <3>2. results' \cap TC = (results \cap TC) \cup {j}
      BY <2>0, <2>3
    <3>3. Abs!Release(j)
      BY <3>1, <3>2 DEF Abs!Release
    <3> QED
      BY <3>3, <2>3 DEF Abs!Next
  <2> QED
    BY <2>2, <2>3
<1>4. ASSUME NEW j \in Job, TerminateAmbiguous(j)
      PROVE  [Abs!Next]_(Abs!poolVars)
  <2>1. j \notin TC
    BY <1>4, <1>a, Kinds DEF TerminateAmbiguous, SlotAccounting, LoopCount
  <2>2. /\ pidf' = pidf \ {j} /\ results' = results /\ Begun' = Begun
    BY <1>4, <1>b DEF TerminateAmbiguous
  <2>3. Same
    BY <2>1, <2>2
  <2> QED
    BY <2>3, <1>1
<1>5. ASSUME Collect
      PROVE  [Abs!Next]_(Abs!poolVars)
  <2>1. \A j \in TC : afl[j] # "none" => j \in results
    BY <1>5, Kinds DEF Collect, Life
  <2>2. results' \cap TC = results \cap TC /\ timer' = timer /\ pidf' = pidf
    BY <1>5, <2>1 DEF Collect
  <2>3. Same
    BY <2>2, <1>b
  <2> QED
    BY <2>3, <1>1
<1>6. ASSUME Restart
      PROVE  [Abs!Next]_(Abs!poolVars)
  <2>1. Abs!Forget
    BY <1>6 DEF Restart, Begun, Abs!Forget
  <2> QED
    BY <2>1 DEF Abs!Next
<1>7. ASSUME timer' = timer, results' = results, pidf' = pidf
      PROVE  [Abs!Next]_(Abs!poolVars)
  BY <1>7, <1>b, <1>1
<1>8. ASSUME NEW j \in Job, Expire(j)
      PROVE  [Abs!Next]_(Abs!poolVars)
  <2>1. Begun' = Begun /\ results' = results /\ pidf' = pidf
    BY <1>8, <1>a DEF Expire, Begun, TypeOK
  <2> QED
    BY <2>1, <1>1
<1> QED
  BY <1>2, <1>3, <1>4, <1>5, <1>6, <1>7, <1>8
     DEF Next, PassStep, Stopped, vars, procs, store, sched, ctl,
         CollectStage1, FirstPass, NextPass, Resume, EnterKillAll, Pass,
         TerminateGone, CheckStarted, EnterCS, EndPass, CollectFails,
         RunDedup, AflExit

(* The scheduler implements the pool: one fuzzer for each testcase, at     *)
(* most twice the slots at once, results in when the fuzzer goes.          *)
THEOREM ImplementsPool == Spec => AbsSpec
<1>1. Init => Abs!Init
  BY DEF Init, Begun, Abs!Init
<1> QED
  BY <1>1, PoolStep, Invariant, LifeInvariant, PTL DEF Spec, AbsSpec, Abs!Spec
-----------------------------------------------------------------------------
(* The main process is never stuck while it runs: every job that a loop    *)
(* visits is skipped, started or collected, or ends the program. kill_all()*)
(* has no way to start a job and no other way to end than through its list:*)
(* that every job on it has expired is why it needs none.                  *)
Skips(j) ==
  \/ timer[j] = "running"
  \/ timer[j] = "new" /\ run_count >= Slots
  \/ timer[j] = "expired" /\ j \notin pidf

Starts(j) == pc \in {"tc", "cs"} /\ timer[j] = "new" /\ run_count < Slots

Collects(j) ==
  /\ timer[j] = "expired" /\ j \in pidf /\ afl[j] # "reaped"
  /\ j \in CS => imgs[j] = 1

GivesUp(j) ==
  /\ timer[j] = "expired" /\ j \in pidf
  /\ afl[j] = "reaped" \/ (pc = "cs" /\ imgs[j] # 1)

NeverStuck ==
  pc \in Loop =>
    \A j \in todo : Skips(j) \/ Starts(j) \/ Collects(j) \/ GivesUp(j)

(* What the main process has left to do until it sleeps or ends: the jobs  *)
(* to visit, each crash site with its check, and the loops to come.        *)
Rank ==
  LET n == Cardinality(todo) IN
  CASE pc = "tc"       -> 2 * Cardinality(Job) + 3 + n
    [] pc = "cs_check" -> 2 * n + 2
    [] pc = "cs"       -> 2 * n + 1
    [] pc = "kill_all" -> n + 2
    [] pc = "dedup"    -> 1
    [] OTHER           -> 0

\* Every step of a pass brings its end nearer, and nothing moves it away.
PassesEnd ==
  [][pc # "idle" => Rank' <= Rank /\ (PassStep => Rank' < Rank)]_vars
-----------------------------------------------------------------------------
(* No job can block the loop that visits it (resume, kill_all).            *)
THEOREM NeverStuckHolds == Spec => []NeverStuck
<1>1. ASSUME IInv, Life
      PROVE  NeverStuck
  <2> SUFFICES ASSUME pc \in Loop, NEW j \in todo
               PROVE  Skips(j) \/ Starts(j) \/ Collects(j) \/ GivesUp(j)
    BY DEF NeverStuck
  <2> USE DEF Skips, Starts, Collects, GivesUp
  <2>1. /\ j \in Job /\ timer[j] \in {"new", "running", "expired"}
        /\ run_count \in Nat /\ Slots \in Nat
    BY <1>1, SlotsType DEF IInv, TypeOK, TimerState, Slots
  <2>2. CASE pc = "kill_all"
    <3>1. j \in TC /\ j \notin CS /\ timer[j] = "expired"
      BY <1>1, <2>2 DEF Life
    <3> QED BY <3>1
  <2>3. CASE pc = "tc"
    <3>1. j \in TC /\ j \notin CS
      BY <1>1, <2>3 DEF IInv, SlotAccounting, LoopCount
    <3> QED BY <2>1, <2>3, <3>1
  <2>4. CASE pc = "cs"
    BY <2>1, <2>4
  <2> QED BY <2>2, <2>3, <2>4 DEF Loop
<1> QED BY <1>1, Invariant, LifeInvariant, PTL

(* The jobs to visit are finitely many; a visit leaves one less.           *)
LEMMA TodoCount ==
  ASSUME TypeOK
  PROVE  /\ Cardinality(todo) \in Nat /\ Cardinality(Job) \in Nat
         /\ \A j \in todo : /\ Cardinality(todo \ {j}) \in Nat
                            /\ Cardinality(todo \ {j}) = Cardinality(todo) - 1
<1>1. todo \in SUBSET Job
  BY DEF TypeOK
<1>2. IsFiniteSet(todo) /\ Cardinality(todo) \in Nat /\ Cardinality(Job) \in Nat
  BY <1>1, JobsFinite
<1>3. \A j \in todo : /\ Cardinality(todo \ {j}) = Cardinality(todo) - 1
                      /\ Cardinality(todo \ {j}) \in Nat
  BY <1>1, <1>2, FS_RemoveElement, JobsFinite
<1> QED BY <1>2, <1>3

(* How each step changes the rank.                                         *)
LEMMA RankStep ==
  ASSUME IInv, IInv', [Next]_vars, pc # "idle"
  PROVE  Rank' <= Rank /\ (PassStep /\ vars' # vars => Rank' < Rank)
<1>a. TypeOK /\ TypeOK'
  BY DEF IInv
<1> DEFINE n == Cardinality(todo)
           m == Cardinality(todo')
<1>b. /\ n \in Nat /\ m \in Nat /\ Cardinality(Job) \in Nat
      /\ \A j \in todo : Cardinality(todo \ {j}) = n - 1
  <2>1. todo' \in SUBSET Job
    BY <1>a DEF TypeOK
  <2> QED BY <1>a, <2>1, TodoCount, JobsFinite
<1>c. m <= Cardinality(Job)
  <2>1. todo' \in SUBSET Job /\ Job \in SUBSET Job
    BY <1>a DEF TypeOK
  <2> QED BY <2>1, Fewer
<1>d. pc \in PC /\ pc' \in PC
  BY <1>a DEF TypeOK
<1>r. /\ Rank = CASE pc = "tc"       -> 2 * Cardinality(Job) + 3 + n
                  [] pc = "cs_check" -> 2 * n + 2
                  [] pc = "cs"       -> 2 * n + 1
                  [] pc = "kill_all" -> n + 2
                  [] pc = "dedup"    -> 1
                  [] OTHER           -> 0
      /\ Rank' = CASE pc' = "tc"       -> 2 * Cardinality(Job) + 3 + m
                   [] pc' = "cs_check" -> 2 * m + 2
                   [] pc' = "cs"       -> 2 * m + 1
                   [] pc' = "kill_all" -> m + 2
                   [] pc' = "dedup"    -> 1
                   [] OTHER            -> 0
  BY DEF Rank
<1>e. todo' = todo => m = n
  OBVIOUS
<1> HIDE DEF n, m
<1>0. Rank \in Nat /\ Rank' \in Nat
  BY <1>b, <1>r
<1>1. CASE \E j \in Job : Pass(j) \/ Terminate(j) \/ Start(j)
  <2>1. PICK j \in Job : Pass(j) \/ Terminate(j) \/ Start(j)
    BY <1>1
  <2>2. j \in todo /\ todo' = todo \ {j} /\ pc \in Loop
    BY <2>1 DEF Pass, Terminate, EndJob, Start, Launch, Loop
  <2>3. m = n - 1
    BY <1>b, <2>2 DEF m
  <2>4. pc' = pc \/ (pc \in {"tc", "cs"} /\ j \in CS /\ pc' = "cs_check")
    BY <2>1 DEF Pass, Terminate, EndJob, Start, Launch
  <2>5. pc = "tc" => j \notin CS
    BY <2>2 DEF IInv, SlotAccounting, LoopCount
  <2>6. Rank' < Rank
    BY <1>b, <1>r, <2>2, <2>3, <2>4, <2>5 DEF Loop
  <2> QED BY <1>0, <2>6
<1>2. CASE \/ CollectFails
           \/ \E j \in Job : \/ TerminateGone(j) \/ TerminateAmbiguous(j)
                              \/ TerminateFails(j) \/ StartSlow(j)
  <2>1. pc' = "aborted" /\ pc \in Loop
    BY <1>2 DEF TerminateGone, TerminateAmbiguous, TerminateFails, EndJob,
                StartSlow, Launch, CollectFails, Loop
  <2>2. Rank' < Rank
    BY <1>b, <1>r, <2>1 DEF Loop
  <2> QED BY <1>0, <2>2
<1>3. CASE CheckStarted
  <2>1. pc = "cs_check" /\ pc' \in {"aborted", "cs"} /\ todo' = todo
    BY <1>3 DEF CheckStarted
  <2>2. Rank' < Rank
    BY <1>b, <1>e, <1>r, <2>1
  <2> QED BY <1>0, <2>2
<1>4. CASE EnterCS
  <2>1. pc = "tc" /\ pc' \in {"aborted", "cs"}
    BY <1>4 DEF EnterCS
  <2>2. Rank' < Rank
    BY <1>b, <1>c, <1>r, <2>1
  <2> QED BY <1>0, <2>2
<1>5. CASE EndPass
  <2>1. pc \in {"tc", "cs"} /\ pc' = "idle"
    BY <1>5 DEF EndPass
  <2>2. Rank' < Rank
    BY <1>b, <1>r, <2>1
  <2> QED BY <1>0, <2>2
<1>6. CASE Collect \/ RunDedup
  <2>1. \/ pc = "kill_all" /\ pc' = "dedup"
        \/ pc = "dedup" /\ pc' = "dedup_abort"
    BY <1>6 DEF Collect, RunDedup
  <2>2. Rank' < Rank
    BY <1>b, <1>r, <2>1
  <2> QED BY <1>0, <2>2
<1>7. CASE UNCHANGED <<pc, todo>> /\ (~PassStep \/ vars' = vars)
  <2>1. Rank' = Rank
    BY <1>7, <1>e, <1>r
  <2> QED BY <1>0, <1>7, <2>1
<1>8. CASE Restart
  <2>1. pc' = "idle"
    BY <1>8 DEF Restart
  <2>2. Rank' = 0
    BY <1>r, <2>1
  <2>3. PassStep => pc \in {"tc", "cs", "cs_check", "kill_all", "dedup"}
    BY DEF PassStep, FirstPass, NextPass, EnterKillAll, Pass, Terminate, EndJob,
           TerminateGone, TerminateAmbiguous, Start, Launch, CheckStarted,
           EnterCS, EndPass, Collect, RunDedup, Loop
  <2>4. PassStep => Rank > 0
    BY <1>b, <1>r, <2>3
  <2> QED BY <1>0, <2>2, <2>4
<1> QED
  BY <1>1, <1>2, <1>3, <1>4, <1>5, <1>6, <1>7, <1>8
     DEF Next, PassStep, FirstPass, NextPass, EnterKillAll, CollectStage1,
         Expire, AflExit, Stopped, ctl, vars

(* A pass and a termination of stage 2 end, for any number of jobs: every  *)
(* step of the main process lowers the rank and no step of AFL, of a timer *)
(* or of anyone else raises it. With NeverStuck that is what the liveness  *)
(* properties rest on, but for the fairness.                               *)
THEOREM PassesEndHolds == Spec => PassesEnd
<1>1. ASSUME IInv, IInv', [Next]_vars
      PROVE  [pc # "idle" => Rank' <= Rank /\ (PassStep => Rank' < Rank)]_vars
  BY <1>1, RankStep
<1> QED BY <1>1, Invariant, PTL DEF Spec, PassesEnd

(* ... within three steps for each job and three more.                     *)
THEOREM PassesAreShort == Spec => [](Rank \in 0 .. 3 * Cardinality(Job) + 3)
<1>1. ASSUME TypeOK
      PROVE  Rank \in 0 .. 3 * Cardinality(Job) + 3
  <2>1. Cardinality(todo) \in Nat /\ Cardinality(Job) \in Nat
    BY <1>1, TodoCount
  <2>2. Cardinality(todo) <= Cardinality(Job)
    BY <1>1, Fewer DEF TypeOK
  <2> QED BY <2>1, <2>2 DEF Rank
<1> QED BY <1>1, TypeCorrect, PTL
-----------------------------------------------------------------------------
(* Every step of the scheduler is one of the schedule, or none.            *)
LEMMA ScheduleStep ==
  ASSUME IInv, IInv', Life, [Next]_vars
  PROVE  [Schedule!Next]_(Schedule!scheduleVars)
<1> USE DEF Schedule!scheduleVars
<1>a. /\ Schedule!Job = Job /\ results \subseteq Job
      /\ Begun = {j \in Job : timer[j] # "new"} /\ timer \in [Job -> TimerState]
  BY DEF Schedule!Job, Job, Begun, IInv, TypeOK
<1>b. timer' = timer => Begun' = Begun
  BY DEF Begun
<1>1. ASSUME NEW new \in SUBSET Job, CollectStage1(new)
      PROVE  UNCHANGED Schedule!scheduleVars
  BY <1>1, <1>b DEF CollectStage1, sched, ctl, StagePhase
<1>2. ASSUME FirstPass \/ NextPass
      PROVE  \E S \in SUBSET Job : Schedule!Begin(S)
  <2>1. /\ pc = "idle" /\ pc' \in {"tc", "aborted"} /\ local' = local \cup global
        /\ timer' = timer /\ results' = results
    BY <1>2 DEF FirstPass, NextPass, Resume, sched
  <2>2. global \in SUBSET Job
    BY DEF IInv, TypeOK
  <2>3. StagePhase = "idle" /\ StagePhase' \in {"pass", "ended"}
    BY <2>1 DEF StagePhase
  <2>4. Schedule!Begin(global)
    BY <2>1, <2>3, <1>b DEF Schedule!Begin
  <2> QED
    BY <2>2, <2>4
<1>3. ASSUME EnterKillAll
      PROVE  Schedule!Close
  <2>1. /\ pc = "idle" /\ pc' = "kill_all" /\ local' = local
        /\ timer' = timer /\ results' = results /\ Completed
    BY <1>3 DEF EnterKillAll, store, sched
  <2>2. StagePhase = "idle" /\ StagePhase' = "closing"
    BY <2>1 DEF StagePhase
  <2>3. local \cap TC \subseteq Begun
    BY <2>1, <1>a DEF Completed, Job
  <2> QED
    BY <2>1, <2>2, <2>3, <1>b DEF Schedule!Close
<1>4. ASSUME NEW j \in Job, Pass(j) \/ AflExit(j)
      PROVE  UNCHANGED Schedule!scheduleVars
  BY <1>4, <1>b DEF Pass, AflExit, store, sched, ctl, StagePhase
<1>5. ASSUME NEW j \in Job, Expire(j)
      PROVE  UNCHANGED Schedule!scheduleVars
  <2>1. local' = local /\ results' = results /\ pc' = pc
        /\ timer[j] = "running" /\ timer' = [timer EXCEPT ![j] = "expired"]
    BY <1>5 DEF Expire, store, ctl
  <2>2. Begun' = Begun
    BY <2>1, <1>a DEF Begun
  <2> QED
    BY <2>1, <2>2 DEF StagePhase
<1>6. ASSUME \/ CollectFails
             \/ \E j \in Job : \/ TerminateGone(j) \/ TerminateAmbiguous(j)
                                \/ TerminateFails(j)
      PROVE  Schedule!End
  BY <1>6, <1>b DEF TerminateGone, TerminateAmbiguous, TerminateFails, store,
                    CollectFails, sched, StagePhase, Schedule!End
<1>7. ASSUME NEW j \in Job, Terminate(j)
      PROVE  Schedule!Finish(j) \/ UNCHANGED Schedule!scheduleVars
  <2>1. /\ pc \in Loop /\ pc' = pc /\ local' = local /\ timer' = timer
        /\ results' = results \cup {j} /\ j \in todo /\ timer[j] = "expired"
    BY <1>7 DEF Terminate, EndJob, store
  <2>2. StagePhase' = StagePhase
    BY <2>1 DEF StagePhase
  <2>3. StagePhase = "pass" \/ (StagePhase = "closing" /\ j \in TC)
    BY <2>1 DEF StagePhase, Loop, Life
  <2>4. CASE j \in results
    BY <2>1, <2>2, <2>4, <1>a, <1>b
  <2>5. CASE j \notin results
    <3>1. j \in Begun \ results
      BY <2>1, <2>5, <1>a
    <3> QED
      BY <2>1, <2>2, <2>3, <3>1, <1>b DEF Schedule!Finish
  <2> QED
    BY <2>4, <2>5
<1>8. ASSUME NEW j \in Job, Start(j) \/ StartSlow(j)
      PROVE  Schedule!Start(j)
  <2>1. /\ pc \in {"tc", "cs"} /\ pc' \in {"tc", "cs", "cs_check", "aborted"}
        /\ local' = local /\ results' = results /\ j \in todo /\ timer[j] = "new"
        /\ timer' = [timer EXCEPT ![j] = "running"]
    BY <1>8 DEF Start, StartSlow, Launch, store
  <2>2. StagePhase = "pass" /\ StagePhase' \in {"pass", "ended"}
    BY <2>1 DEF StagePhase
  <2>3. j \in local
    BY <2>1 DEF IInv, SlotAccounting, LoopCount
  <2>4. j \notin Begun /\ j \notin results
    BY <2>1, <1>a DEF Life
  <2>5. Begun' = Begun \cup {j}
    BY <2>1, <1>a DEF Begun
  <2> QED
    BY <2>1, <2>2, <2>3, <2>4, <2>5 DEF Schedule!Start
<1>9. ASSUME CheckStarted \/ EnterCS
      PROVE  Schedule!End \/ UNCHANGED Schedule!scheduleVars
  BY <1>9, <1>b DEF CheckStarted, EnterCS, store, sched, StagePhase, Schedule!End
<1>10. ASSUME EndPass
       PROVE  Schedule!EndPass
  BY <1>10, <1>b DEF EndPass, store, sched, StagePhase, Schedule!EndPass
<1>11. ASSUME Collect
       PROVE  \E S \in SUBSET Job : Schedule!Closed(S)
  <2> DEFINE also == {j \in Job : afl[j] # "none"} \ results
  <2>1. /\ pc = "kill_all" /\ pc' = "dedup" /\ todo = {} /\ local' = local
        /\ timer' = timer /\ results' = results \cup also
    BY <1>11 DEF Collect, store
  <2>2. StagePhase = "closing" /\ StagePhase' = "closed"
    BY <2>1 DEF StagePhase
  <2>3. (Begun \ results) \cap TC = {}
    BY <2>1, <1>a DEF Life, Job
  <2>4. also \subseteq Begun \ results
    BY <1>a DEF Life
  <2>5. Schedule!Closed(also)
    BY <2>1, <2>2, <2>3, <2>4, <1>b DEF Schedule!Closed
  <2> QED
    BY <2>5
<1>12. ASSUME RunDedup
       PROVE  Schedule!End
  BY <1>12, <1>b DEF RunDedup, store, sched, StagePhase, Schedule!End
<1>13. ASSUME Restart
       PROVE  Schedule!Forget
  <2>1. local' = {} /\ results' = {} /\ pc' = "idle" /\ timer' = [j \in Job |-> "new"]
    BY <1>13 DEF Restart
  <2>2. Begun' = {} /\ StagePhase' = "idle"
    BY <2>1 DEF Begun, StagePhase
  <2> QED
    BY <2>1, <2>2 DEF Schedule!Forget, Schedule!Init
<1>14. ASSUME Stopped \/ UNCHANGED vars
       PROVE  UNCHANGED Schedule!scheduleVars
  BY <1>14, <1>b DEF Stopped, vars, StagePhase
<1> QED
  BY <1>a, <1>1, <1>2, <1>3, <1>4, <1>5, <1>6, <1>7, <1>8, <1>9, <1>10, <1>11,
     <1>12, <1>13, <1>14
  DEF Next, PassStep, Schedule!Next

(* The scheduler keeps to the schedule that the stores count on.           *)
THEOREM ImplementsSchedule == Spec => ScheduleSpec
<1>1. Init => Schedule!Init
  BY DEF Init, Schedule!Init, Begun, StagePhase
<1>2. IInv /\ IInv' /\ Life /\ [Next]_vars
        => [Schedule!Next]_(Schedule!scheduleVars)
  BY ScheduleStep
<1> QED
  BY <1>1, <1>2, Invariant, LifeInvariant, PTL DEF Spec, ScheduleSpec, Schedule!Spec
=============================================================================
