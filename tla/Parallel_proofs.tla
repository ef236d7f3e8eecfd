-------------------------- MODULE Parallel_proofs --------------------------
(***************************************************************************)
(* Theorems about the worker pool, for any number of jobs and cores. The   *)
(* bound on live processes rests on an equation the scan maintains (in     *)
(* ScanCounts): counted, found dead and not looked at are together the     *)
(* list. It is the list that is bounded; what is alive is part of it.      *)
(***************************************************************************)
EXTENDS Parallel, FiniteSetTheorems, TLAPS

USE ParallelAssumption DEF PoolConstants

(* Sets of jobs are finite and have a size.                                *)
LEMMA JobsFinite ==
  ASSUME NEW S \in SUBSET Job
  PROVE  IsFiniteSet(S) /\ Cardinality(S) \in Nat
BY FS_Subset, FS_CardinalityType

(* A subset is not larger.                                                 *)
LEMMA Fewer ==
  ASSUME NEW S \in SUBSET Job, NEW T \in SUBSET S
  PROVE  Cardinality(T) <= Cardinality(S)
BY JobsFinite, FS_Subset

(* Starting a job makes a set one larger.                                  *)
LEMMA OneMore ==
  ASSUME NEW S \in SUBSET Job, NEW j \in Job, j \notin S
  PROVE  Cardinality(S \cup {j}) = Cardinality(S) + 1
BY JobsFinite, FS_AddElement

(* Forgetting a job makes a set one smaller.                               *)
LEMMA OneLess ==
  ASSUME NEW S \in SUBSET Job, NEW j \in S
  PROVE  Cardinality(S \ {j}) = Cardinality(S) - 1
BY JobsFinite, FS_RemoveElement

(* What is left when a part of a set is forgotten.                         *)
LEMMA Without ==
  ASSUME NEW S \in SUBSET Job, NEW T \in SUBSET S
  PROVE  Cardinality(S \ T) = Cardinality(S) - Cardinality(T)
<1>1. Cardinality(S) = Cardinality(T) + Cardinality(S \ T)
                       - Cardinality(T \cap (S \ T))
  <2>1. IsFiniteSet(T) /\ IsFiniteSet(S \ T)
    BY JobsFinite
  <2>2. S = T \cup (S \ T)
    OBVIOUS
  <2> QED
    BY <2>1, <2>2, FS_Union
<1>2. Cardinality(T \cap (S \ T)) = 0
  <2>1. T \cap (S \ T) = {}
    OBVIOUS
  <2> QED
    BY <2>1, FS_EmptySet
<1>3. /\ Cardinality(S) \in Nat
      /\ Cardinality(T) \in Nat
      /\ Cardinality(S \ T) \in Nat
  BY JobsFinite
<1> QED
  BY <1>1, <1>2, <1>3
-----------------------------------------------------------------------------
(* With FAILURE_EXIT no failed process leaves the list, and the list holds *)
(* no other jobs than the ones that were started.                          *)
Listed ==
  /\ pobjs \subseteq alive \cup Ended
  /\ FailureExit /\ pc # "aborted" =>
       /\ \A j \in Job : exitcode[j] = "nonzero" => j \in pobjs
       /\ pc = "scan" => \A j \in dead : exitcode[j] # "nonzero"
  /\ pc \in {"wait", "done"} => alive \cup Ended = Job
  /\ pc = "done" => alive = {}

IInv == TypeOK /\ ScanCounts /\ Listed

(* Every step keeps the types.                                             *)
LEMMA TypeStep == TypeOK /\ [Next]_vars => TypeOK'
<1> SUFFICES ASSUME TypeOK, [Next]_vars
             PROVE  TypeOK'
  OBVIOUS
<1> USE DEF TypeOK, PC, ExitCode
<1>1. ASSUME NEW j \in Job, Run(j) \/ ScanAlive(j) \/ ScanDead(j) \/ Spawn(j)
      PROVE  TypeOK'
  BY <1>1 DEF Run, ScanAlive, ScanDead, Spawn, scan, procs, Ended
<1>2. ASSUME EndScan \/ Wait \/ WaitOver
      PROVE  TypeOK'
  BY <1>2 DEF EndScan, Wait, WaitOver, scan, procs, Ended
<1>3. ASSUME NEW j \in Job, Exit(j)
      PROVE  TypeOK'
  BY <1>3 DEF Exit, scan, Ended
<1>4. CASE UNCHANGED vars
  BY <1>4 DEF vars, Ended
<1> QED
  BY <1>1, <1>2, <1>3, <1>4 DEF Next, Main, Stopped

(* Every step keeps the equation of the scan.                              *)
LEMMA CountStep == TypeOK /\ TypeOK' /\ ScanCounts /\ Listed /\ [Next]_vars => ScanCounts'
<1> SUFFICES ASSUME TypeOK, TypeOK', ScanCounts, Listed, [Next]_vars
             PROVE  ScanCounts'
  OBVIOUS
<1>a. /\ to_scan \in SUBSET Job /\ pobjs \in SUBSET Job /\ cnt \in Nat
      /\ to_scan \in SUBSET pobjs
      /\ Cardinality(pobjs) \in Nat /\ Cardinality(to_scan) \in Nat
  BY JobsFinite DEF TypeOK
<1>1. ASSUME NEW j \in Job, Run(j)
      PROVE  ScanCounts'
  <2>1. Cardinality({}) = 0
    BY FS_EmptySet
  <2> QED
    BY <1>1, <1>a, <2>1 DEF Run, ScanCounts, Listed, TypeOK, procs, Ended
<1>2. ASSUME NEW p \in Job, ScanAlive(p)
      PROVE  ScanCounts'
  <2>1. Cardinality(to_scan \ {p}) = Cardinality(to_scan) - 1
    BY <1>2, <1>a, OneLess DEF ScanAlive
  <2>2. Cardinality(dead) \in Nat
    BY <1>2, <1>a, JobsFinite DEF ScanAlive, ScanCounts
  <2> QED
    BY <1>2, <1>a, <2>1, <2>2 DEF ScanAlive, ScanCounts, procs, Ended
<1>3. ASSUME NEW p \in Job, ScanDead(p)
      PROVE  ScanCounts'
  <2>1. CASE FailureExit /\ exitcode[p] = "nonzero"
    BY <1>3, <2>1 DEF ScanDead, ScanCounts, procs, Ended
  <2>2. CASE ~(FailureExit /\ exitcode[p] = "nonzero")
    <3>1. Cardinality(to_scan \ {p}) = Cardinality(to_scan) - 1
      BY <1>3, <1>a, OneLess DEF ScanDead
    <3>2. dead \in SUBSET Job /\ p \notin dead
      BY <1>3, <1>a DEF ScanDead, ScanCounts
    <3>3. /\ Cardinality(dead \cup {p}) = Cardinality(dead) + 1
          /\ Cardinality(dead) \in Nat
      BY <3>2, OneMore, JobsFinite
    <3>4. /\ pc' = pc /\ to_scan' = to_scan \ {p} /\ dead' = dead \cup {p}
          /\ next' = next /\ pobjs' = pobjs /\ cnt' = cnt /\ alive' = alive
          /\ Ended' = Ended /\ pc = "scan" /\ p \in to_scan /\ p \notin alive
      BY <1>3, <2>2 DEF ScanDead, procs, Ended
    <3>5. cnt' + Cardinality(dead') + Cardinality(to_scan') = Cardinality(pobjs')
      <4>1. cnt + Cardinality(dead) + Cardinality(to_scan) = Cardinality(pobjs)
        BY <3>4 DEF ScanCounts
      <4> QED
        BY <1>a, <3>1, <3>3, <3>4, <4>1
    <3>6. dead' \cap alive' = {} /\ dead' \subseteq pobjs' \ to_scan'
      BY <1>a, <3>4 DEF ScanCounts
    <3> QED
      BY <3>4, <3>5, <3>6 DEF ScanCounts
  <2> QED
    BY <2>1, <2>2
<1>4. ASSUME EndScan
      PROVE  ScanCounts'
  <2>1. /\ dead \in SUBSET pobjs /\ dead \in SUBSET Job /\ pobjs \ dead \in SUBSET Job
    BY <1>4, <1>a DEF EndScan, ScanCounts
  <2>2. /\ Cardinality(pobjs \ dead) = Cardinality(pobjs) - Cardinality(dead)
        /\ Cardinality(dead) \in Nat /\ Cardinality(pobjs \ dead) \in Nat
    BY <2>1, <1>a, Without, JobsFinite
  <2>3. Cardinality(to_scan) = 0 /\ Cardinality({}) = 0
    BY <1>4, FS_EmptySet DEF EndScan
  <2>4. cnt = Cardinality(pobjs \ dead) /\ cnt <= Cores
    BY <1>4, <1>a, <2>2, <2>3 DEF EndScan, ScanCounts
  <2>5. /\ alive \subseteq pobjs \ dead
        /\ alive' = alive /\ Ended' = Ended /\ next' = next
    BY <1>4 DEF EndScan, ScanCounts, procs, Ended
  <2>6. CASE cnt = Cores
    <3>1. /\ pc' = "scan" /\ pobjs' = pobjs \ dead /\ to_scan' = pobjs'
          /\ cnt' = 0 /\ dead' = {}
      BY <1>4, <2>6 DEF EndScan
    <3>2. cnt' + Cardinality(dead') + Cardinality(to_scan') = Cardinality(pobjs')
      BY <2>2, <2>3, <3>1
    <3>3. Cardinality(pobjs') <= Cores
      BY <2>4, <3>1
    <3> QED
      BY <2>5, <3>1, <3>2, <3>3 DEF ScanCounts
  <2>7. CASE cnt # Cores
    BY <1>4, <1>a, <2>1, <2>2, <2>4, <2>5, <2>7 DEF EndScan, ScanCounts
  <2> QED
    BY <2>6, <2>7
<1>5. ASSUME NEW j \in Job, Spawn(j)
      PROVE  ScanCounts'
  <2>1. j \notin pobjs /\ j \notin Ended
    BY <1>5 DEF Spawn, ScanCounts
  <2>2. Cardinality(pobjs \cup {j}) = Cardinality(pobjs) + 1
    BY <2>1, <1>a, OneMore
  <2>3. Cardinality(pobjs) < Cores
    BY <1>5 DEF Spawn, ScanCounts
  <2>4. Cardinality(pobjs \cup {j}) <= Cores
    BY <1>a, <2>2, <2>3
  <2> QED
    BY <1>5, <2>1, <2>4 DEF Spawn, ScanCounts, Ended
<1>6. ASSUME Wait \/ WaitOver
      PROVE  ScanCounts'
  BY <1>6 DEF Wait, WaitOver, ScanCounts, scan, procs, Ended
<1>7. ASSUME NEW j \in Job, Exit(j)
      PROVE  ScanCounts'
  <2>1. Ended' = Ended \cup {j} /\ alive' = alive \ {j}
    BY <1>7 DEF Exit, Ended, TypeOK
  <2>2. j \in pobjs /\ j \notin next
    BY <1>7 DEF Exit, ScanCounts
  <2> QED
    BY <1>7, <2>1, <2>2 DEF Exit, ScanCounts, scan
<1>8. CASE UNCHANGED vars
  BY <1>8 DEF vars, ScanCounts, Ended
<1> QED
  BY <1>1, <1>2, <1>3, <1>4, <1>5, <1>6, <1>7, <1>8 DEF Next, Main, Stopped

(* Every step keeps what is known of the jobs on and off the list.         *)
LEMMA ListedStep == TypeOK /\ ScanCounts /\ Listed /\ [Next]_vars => Listed'
<1> SUFFICES ASSUME TypeOK, ScanCounts, Listed, [Next]_vars
             PROVE  Listed'
  OBVIOUS
<1> USE DEF Listed
<1>1. ASSUME NEW j \in Job, Run(j) \/ ScanAlive(j) \/ ScanDead(j)
      PROVE  Listed'
  BY <1>1 DEF Run, ScanAlive, ScanDead, procs, Ended
<1>2. ASSUME EndScan
      PROVE  Listed'
  BY <1>2 DEF EndScan, scan, procs, Ended
<1>3. ASSUME NEW j \in Job, Spawn(j)
      PROVE  Listed'
  BY <1>3 DEF Spawn, scan, Ended
<1>4. ASSUME Wait
      PROVE  Listed'
  BY <1>4 DEF Wait, procs, Ended
<1>5. ASSUME WaitOver
      PROVE  Listed'
  BY <1>5 DEF WaitOver, procs, Ended, ScanCounts
<1>6. ASSUME NEW j \in Job, Exit(j)
      PROVE  Listed'
  <2>1. /\ Ended' = Ended \cup {j} /\ alive' = alive \ {j}
        /\ \A i \in Job : i # j => exitcode'[i] = exitcode[i]
    BY <1>6 DEF Exit, Ended, TypeOK
  <2>2. j \in pobjs /\ (pc = "scan" => j \notin dead)
    BY <1>6 DEF Exit, ScanCounts
  <2>3. pc = "scan" => dead \subseteq Job
    BY DEF ScanCounts, TypeOK
  <2> QED
    BY <1>6, <2>1, <2>2, <2>3 DEF Exit, scan
<1>7. CASE UNCHANGED vars
  BY <1>7 DEF vars, Ended
<1> QED
  BY <1>1, <1>2, <1>3, <1>4, <1>5, <1>6, <1>7 DEF Next, Main, Stopped
-----------------------------------------------------------------------------
(* It holds in the beginning, and no step breaks it,                       *)
LEMMA Start == Init => IInv
<1> SUFFICES ASSUME Init
             PROVE  IInv
  OBVIOUS
<1>1. Ended = {} /\ Cardinality({}) = 0
  BY FS_EmptySet DEF Init, Ended
<1>2. TypeOK
  BY DEF Init, TypeOK, PC, ExitCode
<1>3. ScanCounts
  BY <1>1 DEF Init, ScanCounts
<1>4. Listed
  BY <1>1 DEF Init, Listed
<1> QED
  BY <1>2, <1>3, <1>4 DEF IInv

(* Every step keeps the invariant.                                         *)
LEMMA Step == IInv /\ [Next]_vars => IInv'
BY TypeStep, CountStep, ListedStep DEF IInv

(* so that it holds in every reachable state.                              *)
LEMMA Invariant == Spec => []IInv
BY Start, Step, PTL DEF Spec

(* abort() elsewhere in the main process, whose pool stays as it is.       *)
LEMMA AbortStep ==
  IInv /\ pc' = "aborted" /\ UNCHANGED <<next, pobjs, scan, procs>> => IInv'
BY DEF IInv, TypeOK, ScanCounts, Listed, PC, Ended, scan, procs

(* What the user of a pool relies on follows from the invariant: the list  *)
(* is bounded, what is alive is part of it, and so are the failures that   *)
(* went unnoticed.                                                         *)
LEMMA Promises == IInv => AtMostCores /\ Barrier /\ FailuresHidden
<1> SUFFICES ASSUME IInv
             PROVE  AtMostCores /\ Barrier /\ FailuresHidden
  OBVIOUS
<1> DEFINE F == {j \in Job : exitcode[j] = "nonzero"}
<1>1. /\ pobjs \in SUBSET Job /\ alive \in SUBSET pobjs
      /\ Cardinality(pobjs) <= Cores
  BY DEF IInv, TypeOK, ScanCounts
<1>2. ASSUME NEW S \in SUBSET pobjs
      PROVE  Cardinality(S) <= Cores
  <2>1. Cardinality(S) <= Cardinality(pobjs)
    BY <1>1, Fewer
  <2>2. Cardinality(S) \in Nat /\ Cardinality(pobjs) \in Nat
    BY <1>1, JobsFinite
  <2> QED
    BY <1>1, <2>1, <2>2
<1>3. AtMostCores
  BY <1>1, <1>2 DEF AtMostCores
<1>4. Barrier
  BY DEF IInv, Listed, Barrier
<1>5. FailuresHidden
  <2> SUFFICES ASSUME FailureExit, pc = "done"
               PROVE  Cardinality(F) <= Cores
    BY DEF FailuresHidden
  <2>1. F \in SUBSET pobjs
    BY DEF IInv, Listed
  <2> QED
    BY <1>2, <2>1
<1> QED
  BY <1>3, <1>4, <1>5

(* The states of the pool are well typed.                                  *)
THEOREM TypeCorrect == Spec => []TypeOK
BY Invariant, PTL DEF IInv

(* Counted, found dead and not looked at are the list, which is never      *)
(* longer than the cores.                                                  *)
THEOREM ScanIsExact == Spec => []ScanCounts
BY Invariant, PTL DEF IInv

(* Never more than `cores` processes of a pool are alive.                  *)
THEOREM NeverMoreThanCores == Spec => []AtMostCores
BY Promises, Invariant, PTL

(* After wait() every job of the batch was run, and none runs.             *)
THEOREM WaitIsBarrier == Spec => []Barrier
BY Promises, Invariant, PTL

(* With FAILURE_EXIT a batch that is done hides at most `cores` failures.  *)
THEOREM FewFailuresHidden == Spec => []FailuresHidden
BY Promises, Invariant, PTL
-----------------------------------------------------------------------------
(* Starting a process takes one from the abstract pool, its end gives it   *)
(* back, and nothing else touches the pool.                                *)
LEMMA PoolStep == IInv /\ [Next]_vars => [Abs!Next]_(Abs!poolVars)
<1> SUFFICES ASSUME IInv, [Next]_vars
             PROVE  [Abs!Next]_(Abs!poolVars)
  OBVIOUS
<1>a. TypeOK /\ ScanCounts
  BY DEF IInv
<1>1. ASSUME NEW j \in Job, Spawn(j)
      PROVE  [Abs!Next]_(Abs!poolVars)
  <2>1. /\ j \notin alive \cup Ended /\ alive' = alive \cup {j} /\ Ended' = Ended
        /\ j \notin pobjs /\ alive \subseteq pobjs /\ pobjs \in SUBSET Job
        /\ Cardinality(pobjs) < Cores
    BY <1>1, <1>a DEF Spawn, ScanCounts, Ended, TypeOK
  <2>2. Cardinality(alive') <= Cores
    <3>1. /\ Cardinality(pobjs \cup {j}) = Cardinality(pobjs) + 1
          /\ pobjs \cup {j} \in SUBSET Job
          /\ alive' \in SUBSET (pobjs \cup {j})
      BY <2>1, OneMore
    <3>2. Cardinality(alive') <= Cardinality(pobjs \cup {j})
      BY <3>1, Fewer
    <3>3. alive' \in SUBSET Job
      BY <3>1
    <3>4. /\ Cardinality(alive') \in Nat /\ Cardinality(pobjs) \in Nat
      BY <2>1, <3>3, JobsFinite
    <3> QED
      BY <2>1, <3>1, <3>2, <3>4
  <2>3. Abs!Acquire(j)
    BY <2>1, <2>2 DEF Abs!Acquire
  <2> QED
    BY <2>3 DEF Abs!Next
<1>2. ASSUME NEW j \in Job, Exit(j)
      PROVE  [Abs!Next]_(Abs!poolVars)
  <2>1. j \in alive /\ alive' = alive \ {j} /\ Ended' = Ended \cup {j}
    BY <1>2, <1>a DEF Exit, Ended, TypeOK
  <2>2. Abs!Release(j)
    BY <2>1 DEF Abs!Release
  <2> QED
    BY <2>2 DEF Abs!Next
<1>3. ASSUME UNCHANGED procs
      PROVE  [Abs!Next]_(Abs!poolVars)
  BY <1>3 DEF procs, Abs!poolVars, Ended
<1> QED
  BY <1>1, <1>2, <1>3
     DEF Next, Main, Stopped, vars, procs, Run, ScanAlive, ScanDead, EndScan,
         Wait, WaitOver

(* The pool implements the abstract one.                                   *)
THEOREM ImplementsPool == Spec => AbsSpec
<1>1. Init => Abs!Init
  BY DEF Init, Abs!Init, Ended
<1> QED
  BY <1>1, PoolStep, Invariant, PTL DEF Spec, AbsSpec, Abs!Spec
=============================================================================
