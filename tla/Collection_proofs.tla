------------------------- MODULE Collection_proofs -------------------------
(***************************************************************************)
(* Theorems about the two pools of a collection, for any number of         *)
(* children and cores. What was proved of one pool is used of both: a step *)
(* of the collection is, for each of them, a step of its own, none, or the *)
(* end that abort() in the other one brings.                               *)
(***************************************************************************)
EXTENDS Collection, Parallel_proofs

GenP == INSTANCE Parallel_proofs WITH
         Job <- Crashed, pc <- gen_pc, next <- gen_next, pobjs <- gen_pobjs,
         to_scan <- gen_to_scan, cnt <- gen_cnt, dead <- gen_dead,
         alive <- gen_alive, exitcode <- gen_exitcode

USE ParallelAssumption DEF PoolConstants

(* The second pool satisfies the assumptions of a pool.                    *)
LEMMA GenConstants == GenP!PoolConstants
<1>1. IsFiniteSet(Crashed)
  BY FS_Subset, CollectionAssumption DEF CollectionAssumption
<1>2. Cores \in Nat \ {0} /\ FailureExit \in BOOLEAN
  BY ParallelAssumption DEF PoolConstants
<1> QED
  BY <1>1, <1>2 DEF GenP!PoolConstants, GenP!IsFiniteSet, IsFiniteSet

\* abort() ends the use of a pool from outside.
CtEnded  == pc' = "aborted" /\ UNCHANGED <<next, pobjs, scan, procs>>
GenEnded == /\ gen_pc' = "aborted"
            /\ UNCHANGED <<gen_next, gen_pobjs, gen_to_scan, gen_cnt,
                           gen_dead, gen_alive, gen_exitcode>>

(* Every step of the collection, as prl_ct sees it.                        *)
LEMMA CtSees == [CollectionNext]_all_vars => [Next]_vars \/ CtEnded
BY DEF CollectionNext, CollectionMain, CollectChild, GenCrashSites, InRun,
       CtWait, GenWait, CtExit, GenExit, CollectionStopped, all_vars, ct_vars,
       GenAborted, CtEnded, Next, Main, vars, scan, procs

(* The same step, as prl_gen_cs sees it.                                   *)
LEMMA GenSees == [CollectionNext]_all_vars => [GenP!Next]_(GenP!vars) \/ GenEnded
<1>1. ASSUME Gen!EndScan \/ Gen!Wait \/ Gen!WaitOver
      PROVE  GenP!Next
  BY <1>1 DEF Gen!EndScan, Gen!Wait, Gen!WaitOver, GenP!EndScan, GenP!Wait,
       GenP!WaitOver, GenP!Next, GenP!Main, Gen!scan, Gen!procs, GenP!scan,
       GenP!procs, Gen!Ended, GenP!Ended
<1>2. ASSUME NEW j \in Crashed,
             Gen!Run(j) \/ Gen!ScanAlive(j) \/ Gen!ScanDead(j) \/ Gen!Spawn(j)
               \/ Gen!Exit(j)
      PROVE  GenP!Next
  BY <1>2 DEF Gen!Run, Gen!ScanAlive, Gen!ScanDead, Gen!Spawn, Gen!Exit,
       GenP!Run, GenP!ScanAlive, GenP!ScanDead, GenP!Spawn, GenP!Exit,
       GenP!Next, GenP!Main, Gen!scan, Gen!procs, GenP!scan, GenP!procs,
       Gen!Ended, GenP!Ended
<1> QED
  BY <1>1, <1>2
     DEF CollectionNext, CollectionMain, CollectChild, GenCrashSites, InRun,
       CtWait, GenWait, CtExit, GenExit, CollectionStopped, all_vars,
       gen_vars, CtAborted, GenEnded, GenP!vars
-----------------------------------------------------------------------------
(* The main process uses one pool at a time, prl_gen_cs.wait() after the   *)
(* other, and gives a child to prl_ct first.                               *)
InTurn ==
  /\ pc \in {"scan", "spawn", "wait"} => gen_pc = "idle"
  /\ gen_pc \in {"wait", "done"} => pc = "done"
  /\ gen_pc \in {"scan", "spawn"} => pc = "idle"
  /\ gen_next \subseteq Collecting
  /\ Injecting \subseteq Collecting
  /\ pc \in {"wait", "done"} => Crashed \subseteq Injecting

CollectionIInv == IInv /\ GenP!IInv /\ InTurn

(* A process that ends has been collected, and no step forgets one.        *)
LEMMA CollectingGrows ==
  ASSUME TypeOK, [Next]_vars \/ CtEnded
  PROVE  Collecting \subseteq Collecting'
BY DEF TypeOK, ExitCode, Collecting, Ended, Next, Main, Run, ScanAlive,
       ScanDead, EndScan, Spawn, Wait, WaitOver, Exit, Stopped, CtEnded,
       vars, scan, procs

(* A crash site whose injection has begun stays one of those.              *)
LEMMA InjectingGrows ==
  ASSUME GenP!TypeOK, [GenP!Next]_(GenP!vars) \/ GenEnded
  PROVE  Injecting \subseteq Injecting'
BY DEF GenP!TypeOK, GenP!ExitCode, Injecting, Gen!Ended, GenP!Next, GenP!Main,
       GenP!Run, GenP!ScanAlive, GenP!ScanDead, GenP!EndScan, GenP!Spawn,
       GenP!Wait, GenP!WaitOver, GenP!Exit, GenP!Stopped, GenEnded,
       GenP!vars, GenP!scan, GenP!procs

(* Every step keeps the turns.                                             *)
LEMMA TurnStep == CollectionIInv /\ [CollectionNext]_all_vars => InTurn'
<1> SUFFICES ASSUME CollectionIInv, [CollectionNext]_all_vars
             PROVE  InTurn'
  OBVIOUS
<1>1. TypeOK /\ GenP!TypeOK /\ InTurn
  BY DEF CollectionIInv, IInv, GenP!IInv
<1>2. Collecting \subseteq Collecting' /\ Injecting \subseteq Injecting'
  BY <1>1, CtSees, GenSees, CollectingGrows, InjectingGrows
<1> USE DEF InTurn
<1>3. ASSUME NEW j \in Job, CollectChild(j)
      PROVE  InTurn'
  <2>1. gen_next = {} /\ Injecting' = Injecting
    BY <1>1, <1>3
       DEF GenP!TypeOK, CollectChild, Between, gen_vars, Injecting, Gen!Ended
  <2> QED
    BY <1>1, <1>2, <1>3, <2>1 DEF CollectChild, Between, Run, gen_vars
<1>4. ASSUME NEW j \in Crashed, GenCrashSites(j)
      PROVE  InTurn'
  <2>1. Injecting' = Injecting
    BY <1>4 DEF GenCrashSites, Gen!Run, Gen!procs, Injecting, Gen!Ended
  <2> QED
    BY <1>1, <1>2, <1>4, <2>1
       DEF GenCrashSites, Between, Gen!Run, ct_vars, vars
<1>5. CASE /\ EndScan \/ \E j \in Job : ScanAlive(j) \/ ScanDead(j) \/ Spawn(j)
           /\ CtAborted
  <2>1. Injecting' = Injecting
    BY <1>5 DEF CtAborted, Injecting, Gen!Ended
  <2>2. pc \in {"scan", "spawn"} /\ pc' \in {"scan", "spawn", "idle", "aborted"}
    BY <1>5 DEF EndScan, ScanAlive, ScanDead, Spawn
  <2>3. gen_pc' \in {"idle", "aborted"} /\ (gen_pc' # "idle" => pc' = "aborted")
    BY <1>1, <1>5, <2>2 DEF CtAborted
  <2> QED
    BY <1>1, <1>2, <1>5, <2>1, <2>2, <2>3 DEF CtAborted
<1>6. CASE /\ \/ Gen!EndScan
              \/ \E j \in Crashed : Gen!ScanAlive(j) \/ Gen!ScanDead(j)
                                      \/ Gen!Spawn(j)
           /\ GenAborted
  <2>1. Injecting' \subseteq Collecting
    BY <1>1, <1>6
       DEF Gen!EndScan, Gen!ScanAlive, Gen!ScanDead, Gen!Spawn, Gen!procs,
           Injecting, Gen!Ended
  <2>2. /\ gen_pc \in {"scan", "spawn"}
        /\ gen_pc' \in {"scan", "spawn", "idle", "aborted"}
        /\ gen_next' \subseteq gen_next
    BY <1>6 DEF Gen!EndScan, Gen!ScanAlive, Gen!ScanDead, Gen!Spawn
  <2>3. pc' \in {"idle", "aborted"} /\ (pc' # "idle" => gen_pc' = "aborted")
    BY <1>1, <1>6, <2>2 DEF GenAborted
  <2> QED
    BY <1>1, <1>2, <2>1, <2>2, <2>3
<1>7. CASE CtWait
  <2>1. Injecting' = Injecting
    BY <1>7 DEF CtWait, gen_vars, Injecting, Gen!Ended
  <2> QED
    BY <1>1, <1>2, <1>7, <2>1 DEF CtWait, Wait, WaitOver, Between, gen_vars
<1>8. CASE GenWait
  <2>1. Injecting' = Injecting /\ gen_next' = gen_next
    BY <1>8 DEF GenWait, Gen!Wait, Gen!WaitOver, Gen!procs, Injecting, Gen!Ended
  <2> QED
    BY <1>1, <1>2, <1>8, <2>1
       DEF GenWait, Gen!Wait, Gen!WaitOver, ct_vars, vars
<1>9. ASSUME NEW j \in Job, CtExit(j)
      PROVE  InTurn'
  <2>1. Injecting' = Injecting
    BY <1>9 DEF CtExit, gen_vars, Injecting, Gen!Ended
  <2> QED
    BY <1>1, <1>2, <1>9, <2>1 DEF CtExit, Exit, gen_vars
<1>10. ASSUME NEW j \in Crashed, GenExit(j)
       PROVE  InTurn'
  <2>1. Injecting' \subseteq Injecting
    BY <1>1, <1>10
       DEF GenExit, Gen!Exit, Injecting, Gen!Ended, GenP!TypeOK
  <2> QED
    BY <1>1, <1>2, <1>10, <2>1 DEF GenExit, Gen!Exit, ct_vars, vars
<1>11. CASE UNCHANGED all_vars
  BY <1>1, <1>11 DEF all_vars, ct_vars, gen_vars, vars, Injecting, Collecting,
     Ended, Gen!Ended
<1> QED
  BY <1>3, <1>4, <1>5, <1>6, <1>7, <1>8, <1>9, <1>10, <1>11
     DEF CollectionNext, CollectionMain, InRun, CollectionStopped

(* The inductive invariant holds in every reachable state.                 *)
LEMMA CollectionInvariant == CollectionSpec => []CollectionIInv
<1>1. CollectionInit => CollectionIInv
  <2> SUFFICES ASSUME CollectionInit
               PROVE  CollectionIInv
    OBVIOUS
  <2>1. IInv
    BY Start DEF CollectionInit
  <2>2. GenP!IInv
    BY GenP!Start, GenConstants
       DEF CollectionInit, Gen!Init, GenP!Init
  <2>3. InTurn
    BY DEF CollectionInit, Init, Gen!Init, InTurn, Injecting, Gen!Ended
  <2> QED
    BY <2>1, <2>2, <2>3 DEF CollectionIInv
<1>2. CollectionIInv /\ [CollectionNext]_all_vars => CollectionIInv'
  <2> SUFFICES ASSUME CollectionIInv, [CollectionNext]_all_vars
               PROVE  CollectionIInv'
    OBVIOUS
  <2>1. IInv'
    BY CtSees, Step, AbortStep DEF CollectionIInv, CtEnded
  <2>2. GenP!IInv'
    BY GenSees, GenP!Step, GenP!AbortStep, GenConstants
       DEF CollectionIInv, GenEnded, GenP!scan, GenP!procs
  <2>3. InTurn'
    BY TurnStep
  <2> QED
    BY <2>1, <2>2, <2>3 DEF CollectionIInv
<1> QED
  BY <1>1, <1>2, PTL DEF CollectionSpec

(* There is one notion of the size of a set.                               *)
LEMMA GenSize ==
  ASSUME NEW S
  PROVE  GenP!Cardinality(S) = Cardinality(S)
BY Zenon DEF GenP!Cardinality, Cardinality

(* Each pool gets half of the cores: two of them are within the cores, but *)
(* that one pool has at least one.                                         *)
LEMMA Halves == Cores \in Nat /\ Cores + Cores <= Max2(TotalCores, 2)
<1>1. TotalCores \in Nat /\ Cores = CoreCount
  BY CollectionAssumption
<1>2. /\ TotalCores \div 2 \in Nat
      /\ (TotalCores \div 2) + (TotalCores \div 2) <= TotalCores
  BY <1>1
<1>3. CASE TotalCores \div 2 = 0
  BY <1>1, <1>2, <1>3 DEF CoreCount, Max2
<1>4. CASE TotalCores \div 2 # 0
  BY <1>1, <1>2, <1>4 DEF CoreCount, Max2
<1> QED
  BY <1>3, <1>4

(* The promises of one pool hold of prl_ct also when it is used in turn    *)
(* with another, and abort() in that one ends it.                          *)
THEOREM CollectionIsPool ==
  CollectionSpec =>
    [](TypeOK /\ ScanCounts /\ AtMostCores /\ Barrier /\ FailuresHidden)
<1>1. CollectionIInv =>
        TypeOK /\ ScanCounts /\ AtMostCores /\ Barrier /\ FailuresHidden
  BY Promises DEF CollectionIInv, IInv
<1> QED
  BY <1>1, CollectionInvariant, PTL

(* The two pools keep to the cores of the stage together, and when both    *)
(* waits are over there is nobody left who could write what is cleaned up  *)
(* next.                                                                   *)
THEOREM PoolsKeepTogether == CollectionSpec => []PoolsTogether
<1>1. CollectionIInv => PoolsTogether
  <2> SUFFICES ASSUME CollectionIInv
               PROVE  PoolsTogether
    OBVIOUS
  <2>1. Cardinality(alive) + Cardinality(gen_alive) <= Max2(TotalCores, 2)
    <3>1. alive \in SUBSET Job /\ gen_alive \in SUBSET Job
      BY CollectionAssumption
         DEF CollectionIInv, IInv, TypeOK, GenP!IInv, GenP!TypeOK
    <3>2. Cardinality(alive) \in Nat /\ Cardinality(gen_alive) \in Nat
      BY <3>1, JobsFinite
    <3>3. Cardinality(alive) <= Cores
      BY Promises DEF CollectionIInv, AtMostCores
    <3>4. Cardinality(gen_alive) <= Cores
      BY GenP!Promises, GenConstants, GenSize
         DEF CollectionIInv, GenP!AtMostCores
    <3> HIDE DEF CollectionIInv
    <3>5. Max2(TotalCores, 2) \in Nat
      BY CollectionAssumption DEF Max2
    <3> QED
      BY <3>2, <3>3, <3>4, <3>5, Halves
  <2>2. Injecting \subseteq Collecting
    BY DEF CollectionIInv, InTurn
  <2>3. gen_pc = "done" => /\ alive = {} /\ gen_alive = {}
                           /\ Ended = Job /\ Gen!Ended = Crashed
    BY DEF CollectionIInv, InTurn, IInv, Listed, GenP!IInv, GenP!Listed,
       Gen!Ended, GenP!Ended, Ended
  <2> QED
    BY <2>1, <2>2, <2>3 DEF PoolsTogether
<1> QED
  BY <1>1, CollectionInvariant, PTL

(* A collection implements the abstract pool as prl_ct alone does.         *)
THEOREM CollectionImplementsPool == CollectionSpec => AbsSpec
<1>1. CollectionInit => Abs!Init
  BY DEF CollectionInit, Init, Abs!Init, Ended
<1>2. CollectionIInv /\ [CollectionNext]_all_vars
        => [Abs!Next]_(Abs!poolVars)
  <2> SUFFICES ASSUME CollectionIInv, [CollectionNext]_all_vars
               PROVE  [Abs!Next]_(Abs!poolVars)
    OBVIOUS
  <2>1. CASE [Next]_vars
    BY <2>1, PoolStep DEF CollectionIInv
  <2>2. CASE CtEnded
    BY <2>2 DEF CtEnded, procs, Abs!poolVars, Ended
  <2> QED
    BY <2>1, <2>2, CtSees
<1> QED
  BY <1>1, <1>2, CollectionInvariant, PTL DEF CollectionSpec, AbsSpec, Abs!Spec
=============================================================================
