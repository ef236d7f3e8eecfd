-------------------------- MODULE Campaign_proofs --------------------------
(***************************************************************************)
(* Theorems about campaigns, for any number of instances, any interval and *)
(* any length of time. A step of a statistics child changes the child and, *)
(* when it clears or appends, the files; a step of the main process        *)
(* changes everything else.                                                *)
(***************************************************************************)
EXTENDS Campaign, SequenceTheorems, TLAPS

Child == [at : Place, stage : 0 .. 2, last : 1 .. 2, started : BOOLEAN,
          wake : Nat, tail : Nat, cur : Nat]

(* The stage of a directory is one of three.                               *)
LEMMA StageType == \A o : StageOf(o) \in 0 .. 2
BY DEF StageOf

(* The end of a sleep is a time.                                           *)
LEMMA UntilType ==
  ASSUME clock \in Nat, NEW t \in Nat
  PROVE  Until(t) \in Nat
BY CampaignAssumption DEF Until

(* What a child can become in a round is again a child.                    *)
LEMMA ChildTypes ==
  ASSUME TypeOK, NEW i \in Instance, child[i].at # "none"
  PROVE  /\ \A p \in Place : At(i, p) \in Child /\ At(i, p).at = p
         /\ Rests(i) \in Child /\ Rests(i).at = "sleep"
         /\ Misses(i) \in Child /\ Misses(i).at \in {"sleep", "tail"}
<1>1. child[i] \in Child /\ clock \in Nat
  BY DEF TypeOK, Child
<1>2. Until(Interval) \in Nat
  BY <1>1, UntilType, CampaignAssumption
<1>3. \A p \in Place : At(i, p) \in Child /\ At(i, p).at = p
  BY <1>1 DEF At, Child
<1>4. Rests(i) \in Child /\ Rests(i).at = "sleep"
  BY <1>1, <1>2 DEF Rests, Child, Place
<1> QED
  BY <1>3, <1>4 DEF Misses, Place

(* A child that goes on keeps the types.                                   *)
LEMMA BecomesType ==
  ASSUME TypeOK, NEW i \in Instance, child[i].at # "none",
         NEW c \in Child, c.at # "none", c.at = "count" => c.stage # 0,
         Becomes(i, c),
         prog' \in Seq(Nat), events' \in Seq({1, 2})
  PROVE  TypeOK'
<1>1. child' = [child EXCEPT ![i] = c]
  BY DEF Becomes
<1>2. child \in [Instance -> Child]
  BY DEF TypeOK, Child
<1>3. child' \in [Instance -> Child]
  BY <1>1, <1>2
<1>4. \A j \in Instance : (child'[j].at = "none") <=> (child[j].at = "none")
  BY <1>1, <1>2
<1>8. \A j \in Instance : child'[j].at = "count" => child'[j].stage # 0
  BY <1>1, <1>2 DEF TypeOK
<1>5. UNCHANGED <<disable_stage2, inst, disk, clock>>
  BY DEF Becomes
<1>6. pc \in Running => boots \in Instance
  BY DEF TypeOK
<1>7. /\ pc \in {"start", "checks"} => child'[boots].at = "none"
      /\ pc \in Loop \cup {"forked"} => child'[boots].at # "none"
  BY <1>4, <1>6 DEF TypeOK, Running
<1> QED
  BY <1>3, <1>4, <1>5, <1>7, <1>8 DEF TypeOK, Child, inst, disk
-----------------------------------------------------------------------------
(* A step of a statistics child keeps the types.                           *)
LEMMA StatisticsType ==
  ASSUME TypeOK, NEW i \in Instance, Statistics(i)
  PROVE  TypeOK'
<1>1. child[i] \in Child /\ clock \in Nat /\ prog \in Seq(Nat)
      /\ events \in Seq({1, 2}) /\ <<>> \in Seq(Nat)
      /\ <<>> \in Seq({1, 2})
  BY DEF TypeOK, Child
<1>2. child[i].at # "none"
  BY DEF Statistics, BeginChild, ClearFiles, List, Count, Paths, ReadTail,
         Check, AppendLine, NextRound
<1>3. StageOf(out) \in 0 .. 2
  BY StageType
<1>a. CASE BeginChild(i)
  <2> DEFINE c == [child[i] EXCEPT !.at = "fresh", !.wake = Until(1)]
  <2>1. c \in Child /\ c.at = "fresh"
    BY <1>1, UntilType DEF Child, Place
  <2>2. Becomes(i, c) /\ UNCHANGED files
    BY <1>a DEF BeginChild
  <2> QED
    BY <1>1, <1>2, <2>1, <2>2, BecomesType DEF files
<1>b. CASE ClearFiles(i)
  <2> DEFINE c == [child[i] EXCEPT !.at = "list", !.wake = 0]
  <2>1. Becomes(i, c) /\ prog' = <<>> /\ events' = <<>>
    BY <1>b DEF ClearFiles
  <2>2. c \in Child /\ c.at = "list"
    BY <1>1 DEF Child, Place
  <2> QED
    BY <1>1, <1>2, <2>1, <2>2, BecomesType
<1>c. CASE List(i)
  <2>1. \E c \in Child : /\ c.at # "none" /\ Becomes(i, c)
                         /\ c.at = "count" => c.stage # 0
    <3>1. CASE "outdir" \notin out
      BY <1>c, <3>1, <1>2, ChildTypes DEF List
    <3>2. CASE "outdir" \in out /\ StageOf(out) = 0
      BY <1>c, <3>2, <1>2, ChildTypes DEF List, Place
    <3>3. CASE "outdir" \in out /\ StageOf(out) # 0
      <4> DEFINE c == [child[i] EXCEPT !.at = "count",
                                       !.stage = StageOf(out)]
      <4>1. c \in Child /\ c.at = "count" /\ c.stage # 0
        BY <1>1, <1>3, <3>3 DEF Child, Place
      <4> QED
        BY <1>c, <3>3, <4>1 DEF List
    <3> QED
      BY <3>1, <3>2, <3>3
  <2> QED
    BY <1>c, <1>1, <1>2, <2>1, BecomesType DEF List, files
<1>d. CASE Count(i)
  <2>1. CASE child[i].stage = 2 /\ "testcases2" \notin out
    BY <1>d, <2>1, <1>1, <1>2, ChildTypes, BecomesType DEF Count, files
  <2>2. CASE ~(child[i].stage = 2 /\ "testcases2" \notin out)
    <3> DEFINE c == [child[i] EXCEPT !.at = "paths", !.last = child[i].stage]
    <3>1. child[i].stage \in {1, 2} /\ child[i].stage \in 1 .. 2
      BY <1>1, <1>d DEF TypeOK, Child, Count
    <3>2. c \in Child /\ c.at = "paths"
      <4>1. "paths" \in Place
        BY DEF Place
      <4> QED
        BY <1>1, <3>1, <4>1 DEF Child
    <3>3. Append(events, child[i].stage) \in Seq({1, 2})
      BY <1>1, <3>1
    <3>4. events' \in Seq({1, 2}) /\ prog' = prog /\ Becomes(i, c)
      BY <1>1, <1>d, <2>2, <3>3 DEF Count
    <3> QED
      BY <1>1, <1>2, <3>2, <3>4, BecomesType
  <2> QED
    BY <2>1, <2>2
<1>e. CASE Paths(i)
  <2> DEFINE c == [child[i] EXCEPT !.at = "tail", !.started = TRUE]
  <2>1. c \in Child /\ c.at = "tail"
    BY <1>1 DEF Child, Place
  <2>2. \/ Becomes(i, c)
        \/ Becomes(i, Misses(i))
        \/ Becomes(i, Rests(i))
    BY <1>e DEF Paths
  <2> QED
    BY <1>e, <1>1, <1>2, <2>1, <2>2, ChildTypes, BecomesType
       DEF Paths, files
<1>f. CASE ReadTail(i)
  <2> DEFINE t == IF prog = <<>> THEN 0 ELSE prog[Len(prog)]
             c == [child[i] EXCEPT !.at = "check", !.tail = t]
  <2>1. t \in Nat
    BY <1>1, EmptySeq, LenProperties
  <2>2. c \in Child /\ c.at = "check"
    BY <1>1, <2>1 DEF Child, Place
  <2>3. Becomes(i, c) /\ UNCHANGED files
    BY <1>f DEF ReadTail
  <2> QED
    BY <1>1, <1>2, <2>2, <2>3, BecomesType DEF files
<1>g. CASE Check(i)
  <2> DEFINE c == [child[i] EXCEPT !.at = "append", !.cur = clock]
  <2>1. c \in Child /\ c.at = "append"
    BY <1>1 DEF Child, Place
  <2>2. \/ Becomes(i, At(i, "corrupt"))
        \/ Becomes(i, c)
        \/ Becomes(i, Rests(i))
    BY <1>g DEF Check
  <2>3. At(i, "corrupt") \in Child /\ At(i, "corrupt").at = "corrupt"
    BY <1>2, ChildTypes DEF Place
  <2> QED
    BY <1>g, <1>1, <1>2, <2>1, <2>2, <2>3, ChildTypes, BecomesType
       DEF Check, files
<1>h. CASE AppendLine(i)
  <2>1. prog' \in Seq(Nat) /\ events' = events /\ Becomes(i, Rests(i))
    BY <1>h, <1>1 DEF AppendLine, Child
  <2> QED
    BY <1>1, <1>2, <2>1, ChildTypes, BecomesType
<1>i. CASE NextRound(i)
  <2> DEFINE c == [child[i] EXCEPT !.at = "list", !.wake = 0]
  <2>1. c \in Child /\ c.at = "list"
    BY <1>1 DEF Child, Place
  <2>2. Becomes(i, c) /\ UNCHANGED files
    BY <1>i DEF NextRound
  <2> QED
    BY <1>1, <1>2, <2>1, <2>2, BecomesType DEF files
<1> QED
  BY <1>a, <1>b, <1>c, <1>d, <1>e, <1>f, <1>g, <1>h, <1>i DEF Statistics
-----------------------------------------------------------------------------
(* An interrupted child is ended, or goes on as before.                    *)
LEMMA InterruptedTypes ==
  ASSUME TypeOK, pc \in Running, NEW c \in Interrupted
  PROVE  /\ c \in [Instance -> Child]
         /\ \A j \in Instance :
              \/ c[j] = child[j]
              \/ child[j].at = "forked"
                 /\ c[j] = [child[j] EXCEPT !.at = "ended"]
<1>1. boots \in Instance /\ child \in [Instance -> Child]
  BY DEF TypeOK, Child
<1>2. CASE c = child
  BY <1>1, <1>2
<1>3. CASE child[boots].at = "forked"
           /\ c = [child EXCEPT ![boots].at = "ended"]
  <2>1. [child[boots] EXCEPT !.at = "ended"] \in Child
    BY <1>1 DEF Child, Place
  <2> QED
    BY <1>1, <1>3, <2>1
<1> QED
  BY <1>2, <1>3 DEF Interrupted

(* The end of a main process, which may be that of its child, too, keeps   *)
(* the types.                                                              *)
LEMMA EndType ==
  ASSUME TypeOK, Abort \/ SigInt \/ Kill \/ ChecksOnly
  PROVE  TypeOK'
<1>1. pc \in Running /\ pc' \in Off /\ stage' = 0
      /\ child' \in Interrupted
      /\ UNCHANGED <<disable_stage2, boots, disk, files, clock>>
  BY DEF Abort, SigInt, Kill, ChecksOnly, Interrupted, Running, Off
<1>2. child' \in [Instance -> Child]
  BY <1>1, InterruptedTypes
<1>5. ASSUME NEW j \in Instance
      PROVE  /\ child'[j].at # "none" => child[j].at # "none"
             /\ child'[j].at = "count" => child'[j] = child[j]
  <2>1. \/ child'[j] = child[j]
        \/ child[j].at = "forked"
           /\ child'[j] = [child[j] EXCEPT !.at = "ended"]
    BY <1>1, InterruptedTypes
  <2>2. child[j] \in Child
    BY DEF TypeOK, Child
  <2> QED
    BY <2>1, <2>2 DEF Child
<1>3. pc' \in PC /\ pc' \notin Running
  BY <1>1 DEF PC, Off, Running, Loop
<1>4. pc' \notin {"start", "checks"} \cup Loop \cup {"forked"}
  BY <1>1 DEF Off, Loop
<1> QED
  BY <1>1, <1>2, <1>5, <1>3, <1>4 DEF TypeOK, Child, disk, files

(* So does everything else that the main process and time do.              *)
LEMMA MainType ==
  ASSUME TypeOK, Main \/ Boot \/ Expire \/ Tick
  PROVE  TypeOK'
<1> USE DEF inst, disk, files, PC, Off, Running, Loop
<1>1. ASSUME NEW e \in Entry, Remove(e) PROVE TypeOK'
  BY <1>1 DEF TypeOK, Remove
<1>2. CASE MakeOutdir
  BY <1>2 DEF TypeOK, MakeOutdir, Entry
<1>3. CASE Fork
  <2>1. boots \in Instance /\ child \in [Instance -> Child]
    BY <1>3 DEF TypeOK, Child, Fork
  <2>2. [child[boots] EXCEPT !.at = "forked"] \in Child
    BY <2>1 DEF Child, Place
  <2>3. child' \in [Instance -> Child] /\ child'[boots].at = "forked"
        /\ \A j \in Instance \ {boots} : child'[j] = child[j]
    BY <1>3, <2>1, <2>2 DEF Fork
  <2> QED
    BY <1>3, <2>1, <2>3 DEF TypeOK, Fork, Child
<1>4. CASE WriteChildPid \/ FirstSync \/ Sync
  BY <1>4, StageType DEF TypeOK, WriteChildPid, FirstSync, Sync
<1>5. CASE RunStage1 \/ StartTimer \/ CollectStage1
  BY <1>5 DEF TypeOK, RunStage1, StartTimer, CollectStage1, Entry
<1>6. CASE RunStage2 \/ MakeStage2Dirs \/ Continue \/ Sleep
  BY <1>6 DEF TypeOK, RunStage2, MakeStage2Dirs, Continue, Sleep, Entry
<1>7. CASE Boot
  <2>1. boots' \in Instance /\ boots \in Nat /\ boots' = boots + 1
    BY <1>7, CampaignAssumption DEF TypeOK, Boot, Instance
  <2>2. child[boots'].at = "none"
    BY <2>1 DEF TypeOK, Instance
  <2> QED
    BY <1>7, <2>1, <2>2, CampaignAssumption DEF TypeOK, Boot, Instance
<1>8. CASE Expire \/ Tick
  BY <1>8 DEF TypeOK, Expire, Tick
<1> QED
  BY <1>1, <1>2, <1>3, <1>4, <1>5, <1>6, <1>7, <1>8 DEF Main

(* The initial state has the types.                                        *)
LEMMA InitType == Init => TypeOK
<1> SUFFICES ASSUME Init PROVE TypeOK
  OBVIOUS
<1>1. NoChild \in Child
  BY DEF NoChild, Child, Place
<1>2. child \in [Instance -> Child] /\ \A i \in Instance : child[i] = NoChild
  BY <1>1 DEF Init
<1> QED
  BY <1>2, CampaignAssumption
     DEF Init, TypeOK, Child, NoChild, PC, Off, Running, Loop

(* TypeOK is an invariant: every variable keeps its type, whatever the     *)
(* processes of earlier instances do.                                      *)
THEOREM TypeCorrect == Spec => []TypeOK
<1>1. TypeOK /\ [Next]_vars => TypeOK'
  <2> SUFFICES ASSUME TypeOK, [Next]_vars PROVE TypeOK'
    OBVIOUS
  <2>1. CASE UNCHANGED vars
    BY <2>1 DEF vars, TypeOK
  <2>2. CASE Next
    BY <2>2, StatisticsType, EndType, MainType DEF Next
  <2> QED
    BY <2>1, <2>2
<1> QED
  BY <1>1, InitType, PTL DEF Spec
-----------------------------------------------------------------------------
(* Of NeverCorrupt: no line of the progress file and nothing that a child  *)
(* has read is later than the clock.                                       *)
TimesPast ==
  /\ \A k \in 1 .. Len(prog) : prog[k] <= clock
  /\ \A i \in Instance : child[i].tail <= clock /\ child[i].cur <= clock
  /\ NeverCorrupt

(* It is kept by a child that has read, and writes, times of the past.     *)
LEMMA BecomesPast ==
  ASSUME TypeOK, TimesPast, NEW i \in Instance, NEW c, Becomes(i, c),
         c.tail <= clock, c.cur <= clock, c.at # "corrupt",
         \A k \in 1 .. Len(prog') : prog'[k] <= clock
  PROVE  TimesPast'
<1>1. child' = [child EXCEPT ![i] = c] /\ clock' = clock
  BY DEF Becomes
<1>2. child \in [Instance -> Child]
  BY DEF TypeOK, Child
<1> QED
  BY <1>1, <1>2 DEF TimesPast, NeverCorrupt

(* A step of a statistics child keeps it.                                  *)
LEMMA StatisticsPast ==
  ASSUME TypeOK, TimesPast, NEW i \in Instance, Statistics(i)
  PROVE  TimesPast'
<1> DEFINE past(d) == d.tail <= clock /\ d.cur <= clock /\ d.at # "corrupt"
<1>1. child[i] \in Child /\ clock \in Nat /\ prog \in Seq(Nat)
      /\ past(child[i])
  BY DEF TypeOK, Child, TimesPast, NeverCorrupt
<1>2. child \in [Instance -> Child]
  BY DEF TypeOK, Child
<1>3. past(Rests(i)) /\ past(Misses(i))
      /\ \A p \in Place \ {"corrupt"} : past(At(i, p))
  BY <1>1 DEF Rests, Misses, At, Child, Place
<1>4. ASSUME NEW d, past(d), Becomes(i, d), UNCHANGED files
      PROVE  TimesPast'
  BY <1>4, BecomesPast DEF files, TimesPast
<1>5. CASE BeginChild(i) \/ List(i) \/ Paths(i) \/ NextRound(i)
  <2>1. past([child[i] EXCEPT !.at = "fresh", !.wake = Until(1)])
    BY <1>1 DEF Child
  <2>2. past([child[i] EXCEPT !.at = "count", !.stage = StageOf(out)])
    BY <1>1 DEF Child
  <2>3. past([child[i] EXCEPT !.at = "tail", !.started = TRUE])
    BY <1>1 DEF Child
  <2>4. past([child[i] EXCEPT !.at = "list", !.wake = 0])
    BY <1>1 DEF Child
  <2> HIDE DEF past
  <2>5. CASE BeginChild(i)
    BY <2>5, <2>1, <1>4 DEF BeginChild
  <2>6. CASE List(i)
    BY <2>6, <2>2, <1>3, <1>4 DEF List, Place
  <2>7. CASE Paths(i)
    BY <2>7, <2>3, <1>3, <1>4 DEF Paths
  <2>8. CASE NextRound(i)
    BY <2>8, <2>4, <1>4 DEF NextRound
  <2> QED
    BY <1>5, <2>5, <2>6, <2>7, <2>8
<1>6. CASE ClearFiles(i)
  <2> DEFINE d == [child[i] EXCEPT !.at = "list", !.wake = 0]
  <2>1. Becomes(i, d) /\ prog' = <<>>
    BY <1>6 DEF ClearFiles
  <2>2. \A k \in 1 .. Len(prog') : prog'[k] <= clock
    BY <2>1
  <2>3. past(d)
    BY <1>1 DEF Child
  <2> QED
    BY <2>1, <2>2, <2>3, BecomesPast
<1>7. CASE Count(i)
  <2> DEFINE d == [child[i] EXCEPT !.at = "paths", !.last = child[i].stage]
  <2>1. past(d)
    BY <1>1 DEF Child
  <2>2. prog' = prog /\ (Becomes(i, d) \/ Becomes(i, Misses(i)))
    BY <1>7 DEF Count, files
  <2>3. \A k \in 1 .. Len(prog') : prog'[k] <= clock
    BY <2>2 DEF TimesPast
  <2> QED
    BY <1>3, <2>1, <2>2, <2>3, BecomesPast
<1>8. CASE ReadTail(i)
  <2> DEFINE t == IF prog = <<>> THEN 0 ELSE prog[Len(prog)]
             d == [child[i] EXCEPT !.at = "check", !.tail = t]
  <2>1. t <= clock
    BY <1>1, EmptySeq, LenProperties DEF TimesPast
  <2>2. past(d)
    BY <1>1, <2>1 DEF Child
  <2>3. Becomes(i, d) /\ UNCHANGED files
    BY <1>8 DEF ReadTail
  <2> QED
    BY <2>2, <2>3, <1>4
<1>9. CASE Check(i)
  <2> DEFINE d == [child[i] EXCEPT !.at = "append", !.cur = clock]
  <2>1. past(d)
    BY <1>1 DEF Child
  <2>2. ~(clock < child[i].tail)
    BY <1>1 DEF Child
  <2>3. UNCHANGED files /\ (Becomes(i, d) \/ Becomes(i, Rests(i)))
    BY <1>9, <2>2 DEF Check
  <2> QED
    BY <1>3, <2>1, <2>3, <1>4
<1>10. CASE AppendLine(i)
  <2>1. prog' = Append(prog, child[i].cur) /\ Becomes(i, Rests(i))
    BY <1>10 DEF AppendLine
  <2>2. \A k \in 1 .. Len(prog') : prog'[k] <= clock
    BY <1>1, <2>1 DEF TimesPast, Child
  <2> QED
    BY <1>3, <2>1, <2>2, BecomesPast
<1> QED
  BY <1>5, <1>6, <1>7, <1>8, <1>9, <1>10 DEF Statistics

(* So does every other step: the clock does not go back.                   *)
LEMMA OthersPast ==
  ASSUME TypeOK, TimesPast,
         \/ Main \/ Boot \/ ChecksOnly \/ Abort \/ SigInt \/ Kill
         \/ Expire \/ Tick
  PROVE  TimesPast'
<1>1. child \in [Instance -> Child] /\ clock \in Nat /\ prog \in Seq(Nat)
  BY DEF TypeOK, Child
<1>2. CASE Tick
  <2>1. clock' = clock + 1 /\ child' = child /\ prog' = prog
    BY <1>2 DEF Tick, files
  <2> QED
    BY <1>1, <2>1 DEF TimesPast, NeverCorrupt, Child
<1>3. CASE Abort \/ SigInt \/ Kill \/ ChecksOnly
  <2>1. pc \in Running /\ child' \in Interrupted /\ clock' = clock
        /\ prog' = prog
    BY <1>3 DEF Abort, SigInt, Kill, ChecksOnly, Interrupted, Running, files
  <2>2. ASSUME NEW j \in Instance
        PROVE  /\ child'[j].tail = child[j].tail
               /\ child'[j].cur = child[j].cur
               /\ child'[j].at = child[j].at \/ child'[j].at = "ended"
    <3>1. \/ child'[j] = child[j]
          \/ child'[j] = [child[j] EXCEPT !.at = "ended"]
      BY <2>1, InterruptedTypes
    <3>2. child[j] \in Child
      BY <1>1
    <3> QED
      BY <3>1, <3>2 DEF Child
  <2> QED
    BY <2>1, <2>2 DEF TimesPast, NeverCorrupt
<1>4. CASE Fork
  <2>1. clock' = clock /\ prog' = prog
        /\ \A j \in Instance :
             child'[j].tail = child[j].tail /\ child'[j].cur = child[j].cur
             /\ (child'[j].at = child[j].at \/ child'[j].at = "forked")
    BY <1>4, <1>1 DEF Fork, files, Child
  <2> QED
    BY <2>1 DEF TimesPast, NeverCorrupt
<1>5. CASE Boot \/ Expire \/ (Main /\ ~Fork)
  <2>1. UNCHANGED <<child, files, clock>>
    BY <1>5 DEF Boot, Expire, Main, Remove, MakeOutdir, WriteChildPid,
       FirstSync, Sync, RunStage1, StartTimer, CollectStage1, RunStage2,
       MakeStage2Dirs, Continue, Sleep
  <2> QED
    BY <2>1 DEF TimesPast, NeverCorrupt, files
<1> QED
  BY <1>2, <1>3, <1>4, <1>5

(* NeverCorrupt is an invariant: a statistics child does not find its file *)
(* corrupted, whoever else writes to it.                                   *)
THEOREM NeverCorruptHolds == Spec => []NeverCorrupt
<1>1. Init => TimesPast
  BY CampaignAssumption DEF Init, TimesPast, NeverCorrupt, NoChild
<1>2. TypeOK /\ TimesPast /\ [Next]_vars => TimesPast'
  <2> SUFFICES ASSUME TypeOK, TimesPast, [Next]_vars PROVE TimesPast'
    OBVIOUS
  <2>1. CASE UNCHANGED vars
    BY <2>1 DEF vars, TimesPast, NeverCorrupt
  <2>2. CASE Next
    BY <2>2, StatisticsPast, OthersPast DEF Next
  <2> QED
    BY <2>1, <2>2
<1>3. TimesPast => NeverCorrupt
  BY DEF TimesPast
<1> QED
  BY <1>1, <1>2, <1>3, TypeCorrect, PTL DEF Spec
-----------------------------------------------------------------------------
(* Of StagesInOrder: what the main process may rely on at each of its      *)
(* places, as only itself changes the directory.                           *)
StageInv ==
  /\ pc \in {"checks", "forked", "info"} => out = {"outdir"}
  /\ pc = "run1" => stage = 0 /\ StageOf(out) = 0
  /\ pc = "timer1" => StageOf(out) = 1
  /\ pc \in {"collect", "branch"} => stage = StageOf(out) /\ stage # 0
  /\ pc = "branch" => "@dedup" \in out
  /\ pc = "stage2" => StageOf(out) = 2
  /\ pc \in Loop /\ StageOf(out) = 0 => "@dedup" \notin out

(* A step that is not one of the main process leaves its place and the     *)
(* directory, or ends it.                                                  *)
LEMMA OthersStage ==
  ASSUME StageInv,
         \/ Boot \/ ChecksOnly \/ Abort \/ SigInt \/ Kill \/ Expire \/ Tick
         \/ (\E i \in Instance : Statistics(i))
  PROVE  StageInv' /\ out' = out
<1>1. out' = out /\ (pc' \in Off \cup {"start"} \/ UNCHANGED <<pc, stage>>)
  <2>1. CASE Boot \/ ChecksOnly \/ Abort \/ SigInt \/ Kill \/ Expire \/ Tick
    BY <2>1 DEF Boot, ChecksOnly, Abort, SigInt, Kill, Expire, Tick, disk,
       inst, Off
  <2>2. CASE \E i \in Instance : Statistics(i)
    BY <2>2 DEF Statistics, BeginChild, ClearFiles, List, Count, Paths,
       ReadTail, Check, AppendLine, NextRound, Becomes, inst, disk
  <2> QED
    BY <2>1, <2>2
<1> QED
  BY <1>1 DEF StageInv, Off, Loop

(* A step of the main process keeps the invariant and takes the stages in  *)
(* their order.                                                            *)
LEMMA MainStage ==
  ASSUME StageInv, TypeOK, Main
  PROVE  StageInv' /\ StageStep
<1> USE DEF StageInv, StageStep, StageOf, Loop
<1>1. ASSUME NEW e \in Entry, Remove(e) PROVE StageInv' /\ StageStep
  BY <1>1 DEF Remove, inst
<1>2. CASE MakeOutdir
  BY <1>2 DEF MakeOutdir
<1>3. CASE Fork \/ WriteChildPid
  BY <1>3 DEF Fork, WriteChildPid, disk
<1>4. CASE FirstSync \/ Sync
  BY <1>4 DEF FirstSync, Sync, disk
<1>5. CASE RunStage1
  BY <1>5 DEF RunStage1
<1>6. CASE StartTimer
  BY <1>6 DEF StartTimer
<1>7. CASE CollectStage1
  BY <1>7 DEF CollectStage1
<1>8. CASE RunStage2
  BY <1>8 DEF RunStage2, Stage2Due
<1>9. CASE MakeStage2Dirs
  BY <1>9 DEF MakeStage2Dirs
<1>10. CASE Continue \/ Sleep
  BY <1>10 DEF Continue, Sleep, disk
<1> QED
  BY <1>1, <1>2, <1>3, <1>4, <1>5, <1>6, <1>7, <1>8, <1>9, <1>10 DEF Main

(* StagesInOrder holds of every step of every campaign.                    *)
THEOREM StagesInOrderHolds == Spec => StagesInOrder
<1>1. Init => StageInv
  BY DEF Init, StageInv, Loop
<1>2. TypeOK /\ StageInv /\ [Next]_vars =>
        StageInv' /\ [(pc = "info" => StageOf(out) = 0) /\ StageStep]_vars
  <2> SUFFICES ASSUME TypeOK, StageInv, Next
               PROVE  /\ StageInv' /\ StageStep
                      /\ pc = "info" => StageOf(out) = 0
    BY DEF vars, StageInv
  <2>1. StageInv' /\ StageStep
    BY MainStage, OthersStage DEF Next, StageStep
  <2>2. pc = "info" => StageOf(out) = 0
    BY DEF StageInv, StageOf
  <2> QED
    BY <2>1, <2>2
<1> QED
  BY <1>1, <1>2, TypeCorrect, PTL DEF Spec, StagesInOrder
-----------------------------------------------------------------------------
(* The time of the last line of p; its lines are apart.                    *)
Last(p) == IF p = <<>> THEN 0 ELSE p[Len(p)]

Spaced(p) == \A k \in 1 .. Len(p) - 1 : p[k + 1] - p[k] > Interval

(* What a child c that has the files p and e to itself knows of them, with *)
(* a directory of stage s: the last line until it writes the next, and the *)
(* transitions it has written.                                             *)
Own(c, p, e, s) ==
  /\ Spaced(p)
  /\ e = IF c.last = 1 THEN <<>> ELSE <<2>>
  /\ c.last = 2 => s = 2
  /\ c.at = "fresh" => c.last = 1
  /\ c.at = "check" => c.tail = Last(p)
  /\ c.at = "append" => p = <<>> \/ c.cur - Last(p) > Interval
  /\ c.at = "count" => /\ c.stage \in 1 .. s
                       /\ c.last = 2 => c.stage = 2

\* The same of the files and the directory of this state, and of the next.
Owns(c)    == Own(c, prog, events, StageOf(out))
WillOwn(c) == Own(c, prog', events', StageOf(out'))

(* Of SamplesSpaced and EventsOnce.                                        *)
Single ==
  /\ Writers = {} => prog = <<>> /\ events = <<>>
  /\ \A i \in Instance :
       child[i].at \in {"none", "forked"} => child[i].last = 1
  /\ Alone => Owns(child[boots])

(* The invariant of the next state, said of it.                            *)
LEMMA SingleNext ==
  ASSUME Writers' = {} => prog' = <<>> /\ events' = <<>>,
         \A i \in Instance :
           child'[i].at \in {"none", "forked"} => child'[i].last = 1,
         Alone' => WillOwn(child'[boots'])
  PROVE  Single'
BY DEF Single, Owns, WillOwn, Own, Spaced, Last, StageOf

(* A child in the middle of a round has the files to itself only if it had *)
(* them before its step.                                                   *)
LEMMA AloneStep ==
  ASSUME TypeOK, Single, NEW i \in Instance, NEW c, Becomes(i, c), Alone',
         child[i].at \notin {"none", "forked", "ended"},
         c.at \notin {"none", "forked", "ended"}
  PROVE  /\ Alone /\ i = boots /\ boots' = boots /\ out' = out
         /\ child'[boots'] = c /\ Owns(child[i])
<1>1. child' = [child EXCEPT ![i] = c] /\ boots' = boots /\ out' = out
  BY DEF Becomes, inst, disk
<1>2. child \in [Instance -> Child]
  BY DEF TypeOK, Child
<1>3. Writers' = Writers /\ i \in Writers
  BY <1>1, <1>2 DEF Writers
<1> QED
  BY <1>1, <1>2, <1>3 DEF Alone, Single

(* What a child that goes on must know for the invariant to be kept.       *)
LEMMA BecomesOwn ==
  ASSUME TypeOK, Single, NEW i \in Instance, NEW c, Becomes(i, c),
         child[i].at \notin {"none", "forked", "ended"},
         c.at \notin {"none", "forked", "ended"},
         Owns(child[i]) /\ child'[boots'] = c /\ out' = out => WillOwn(c)
  PROVE  Single'
<1>1. child' = [child EXCEPT ![i] = c]
  BY DEF Becomes
<1>2. child \in [Instance -> Child]
  BY DEF TypeOK, Child
<1>3. Alone' => WillOwn(child'[boots'])
  <2> SUFFICES ASSUME Alone' PROVE WillOwn(child'[boots'])
    OBVIOUS
  <2>1. Owns(child[i]) /\ child'[boots'] = c /\ out' = out
    BY AloneStep
  <2>2. WillOwn(c)
    BY <2>1
  <2> QED
    BY <2>1, <2>2
<1>4. i \in Writers'
  BY <1>1, <1>2 DEF Writers
<1>5. \A j \in Instance :
        child'[j].at \in {"none", "forked"} => child'[j].last = 1
  BY <1>1, <1>2 DEF Single
<1> QED
  BY <1>3, <1>4, <1>5, SingleNext

(* A step of a statistics child keeps it.                                  *)
LEMMA StatisticsSingle ==
  ASSUME TypeOK, Single, NEW i \in Instance, Statistics(i)
  PROVE  Single'
<1>1. child[i] \in Child /\ clock \in Nat /\ prog \in Seq(Nat)
      /\ events \in Seq({1, 2})
  BY DEF TypeOK, Child
<1>2. child \in [Instance -> Child]
  BY DEF TypeOK, Child
<1> DEFINE busy(d) == d.at \notin {"none", "forked", "ended"}
           quiet(d) == d.at \in {"list", "paths", "tail", "sleep"}
                       /\ d.last = child[i].last
<1>3. ASSUME NEW d, quiet(d), Becomes(i, d), UNCHANGED files, busy(child[i]),
             child[i].at # "fresh"
      PROVE  Single'
  <2>1. prog' = prog /\ events' = events
    BY <1>3 DEF files
  <2>2. Owns(child[i]) /\ out' = out => WillOwn(d)
    BY <1>3, <2>1 DEF Owns, WillOwn, Own, Spaced, StageOf
  <2> QED
    BY <1>3, <2>2, BecomesOwn
<1>4. quiet(Rests(i)) /\ quiet(Misses(i))
      /\ \A p \in {"list", "paths", "tail", "sleep"} : quiet(At(i, p))
  BY <1>1 DEF Rests, Misses, At, Child
<1>5. CASE BeginChild(i)
  <2> DEFINE d == [child[i] EXCEPT !.at = "fresh", !.wake = Until(1)]
  <2>1. child' = [child EXCEPT ![i] = d] /\ boots' = boots
    BY <1>5 DEF BeginChild, Becomes, inst
  <2>2. d.at = "fresh" /\ d.last = 1
    BY <1>1, <1>5 DEF BeginChild, Single, Child
  <2>3. i \in Writers' /\ child'[i] = d
    BY <2>1, <2>2, <1>2 DEF Writers
  <2>4. Alone' => WillOwn(child'[boots'])
    <3> SUFFICES ASSUME Alone' PROVE WillOwn(child'[boots'])
      OBVIOUS
    <3>1. child'[boots'] = d /\ Writers' = {i}
      BY <2>3 DEF Alone
    <3>2. Writers = {}
      BY <3>1, <2>1, <1>2, <1>5 DEF Writers, BeginChild
    <3>3. prog' = <<>> /\ events' = <<>>
      BY <3>2, <1>5 DEF Single, BeginChild, files
    <3>4. WillOwn(d)
      BY <2>2, <3>3 DEF WillOwn, Own, Spaced
    <3> QED
      BY <3>1, <3>4
  <2>5. \A j \in Instance :
          child'[j].at \in {"none", "forked"} => child'[j].last = 1
    BY <1>2, <2>1, <2>2 DEF Single
  <2> QED
    BY <2>3, <2>4, <2>5, SingleNext
<1>6. CASE ClearFiles(i)
  <2> DEFINE d == [child[i] EXCEPT !.at = "list", !.wake = 0]
  <2>1. Becomes(i, d) /\ prog' = <<>> /\ events' = <<>>
        /\ child[i].at = "fresh"
    BY <1>6 DEF ClearFiles
  <2>2. d.at = "list" /\ d.last = child[i].last
    BY <1>1 DEF Child
  <2>3. Owns(child[i]) => WillOwn(d)
    BY <2>1, <2>2 DEF Owns, WillOwn, Own, Spaced
  <2> QED
    BY <2>1, <2>2, <2>3, BecomesOwn
<1>7. CASE List(i)
  <2> DEFINE d == [child[i] EXCEPT !.at = "count", !.stage = StageOf(out)]
  <2>1. child[i].at = "list" /\ UNCHANGED files
    BY <1>7 DEF List
  <2>2. CASE Becomes(i, d) /\ StageOf(out) # 0
    <3>1. d.at = "count" /\ d.last = child[i].last /\ d.stage = StageOf(out)
          /\ d.last \in {1, 2}
      BY <1>1 DEF Child
    <3>2. prog' = prog /\ events' = events
      BY <2>1 DEF files
    <3>3. StageOf(out) \in {1, 2}
      BY <2>2 DEF StageOf
    <3>4. Owns(child[i]) /\ out' = out => WillOwn(d)
      BY <3>1, <3>2, <3>3, <2>1 DEF Owns, WillOwn, Own, Spaced, StageOf
    <3> QED
      BY <2>1, <2>2, <3>1, <3>4, BecomesOwn
  <2>3. CASE Becomes(i, Misses(i)) \/ Becomes(i, At(i, "paths"))
    BY <2>1, <2>3, <1>3, <1>4
  <2> QED
    BY <1>7, <2>2, <2>3 DEF List
<1>8. CASE Count(i)
  <2> DEFINE d == [child[i] EXCEPT !.at = "paths", !.last = child[i].stage]
  <2>1. child[i].at = "count"
    BY <1>8 DEF Count
  <2>2. CASE Becomes(i, Misses(i)) /\ UNCHANGED files
    BY <2>1, <2>2, <1>3, <1>4
  <2>3. CASE /\ Becomes(i, d) /\ prog' = prog
             /\ events' = IF child[i].stage = child[i].last THEN events
                          ELSE Append(events, child[i].stage)
    <3>1. d.at = "paths" /\ d.last = child[i].stage
      BY <1>1 DEF Child
    <3>2. child[i].last \in {1, 2} /\ child[i].stage \in {0, 1, 2}
      BY <1>1 DEF Child
    <3>3. ASSUME Owns(child[i]), out' = out PROVE WillOwn(d)
      <4>1. /\ Spaced(prog) /\ child[i].stage \in 1 .. StageOf(out)
            /\ child[i].last = 2 => child[i].stage = 2
            /\ events = IF child[i].last = 1 THEN <<>> ELSE <<2>>
        BY <3>3, <2>1 DEF Owns, WillOwn, Own
      <4>2. child[i].stage \in {1, 2}
        BY <3>2, <4>1 DEF StageOf
      <4>3. events' = IF child[i].stage = 1 THEN <<>> ELSE <<2>>
        <5>1. CASE child[i].stage = child[i].last
          BY <2>3, <4>1, <4>2, <5>1
        <5>2. CASE child[i].stage # child[i].last
          <6>1. child[i].stage = 2 /\ events = <<>>
            BY <3>2, <4>1, <4>2, <5>2
          <6> QED
            BY <2>3, <5>2, <6>1
        <5> QED
          BY <5>1, <5>2
      <4>4. Spaced(prog')
        BY <2>3, <4>1
      <4>5. child[i].stage = 2 => StageOf(out') = 2
        BY <3>3, <4>1 DEF StageOf
      <4> QED
        BY <3>1, <4>2, <4>3, <4>4, <4>5 DEF WillOwn, Own
    <3> QED
      BY <2>1, <2>3, <3>1, <3>3, BecomesOwn
  <2> QED
    BY <1>8, <2>2, <2>3 DEF Count
<1>9. CASE Paths(i)
  <2> DEFINE d == [child[i] EXCEPT !.at = "tail", !.started = TRUE]
  <2>1. quiet(d)
    BY <1>1 DEF Child
  <2>2. child[i].at = "paths" /\ UNCHANGED files
        /\ (Becomes(i, d) \/ Becomes(i, Misses(i)) \/ Becomes(i, Rests(i)))
    BY <1>9 DEF Paths
  <2> QED
    BY <2>1, <2>2, <1>3, <1>4
<1>10. CASE ReadTail(i)
  <2> DEFINE d == [child[i] EXCEPT !.at = "check", !.tail = Last(prog)]
  <2>1. Becomes(i, d) /\ prog' = prog /\ events' = events
        /\ child[i].at = "tail"
    BY <1>10 DEF ReadTail, Last, files
  <2>2. d.at = "check" /\ d.last = child[i].last /\ d.tail = Last(prog)
    BY <1>1 DEF Child
  <2>3. Owns(child[i]) /\ out' = out => WillOwn(d)
    BY <2>1, <2>2 DEF Owns, WillOwn, Own, Spaced, Last, StageOf
  <2> QED
    BY <2>1, <2>2, <2>3, BecomesOwn
<1>11. CASE Check(i)
  <2> DEFINE d == [child[i] EXCEPT !.at = "append", !.cur = clock]
             e == At(i, "corrupt")
  <2>1. child[i].at = "check" /\ UNCHANGED files
    BY <1>11 DEF Check
  <2>2. CASE Becomes(i, d) /\ clock - child[i].tail > Interval
    <3>1. d.at = "append" /\ d.last = child[i].last /\ d.cur = clock
      BY <1>1 DEF Child
    <3>2. prog' = prog /\ events' = events
      BY <2>1 DEF files
    <3>3. Owns(child[i]) /\ out' = out => WillOwn(d)
      BY <2>1, <2>2, <3>1, <3>2 DEF Owns, WillOwn, Own, Spaced, Last, StageOf
    <3> QED
      BY <2>1, <2>2, <3>1, <3>3, BecomesOwn
  <2>3. CASE Becomes(i, e)
    <3>1. e.at = "corrupt" /\ e.last = child[i].last
      BY <1>1 DEF At, Child
    <3>2. prog' = prog /\ events' = events
      BY <2>1 DEF files
    <3>3. Owns(child[i]) /\ out' = out => WillOwn(e)
      BY <2>1, <3>1, <3>2 DEF Owns, WillOwn, Own, Spaced, StageOf
    <3> QED
      BY <2>1, <2>3, <3>1, <3>3, BecomesOwn
  <2>4. CASE Becomes(i, Rests(i))
    BY <2>1, <2>4, <1>3, <1>4
  <2> QED
    BY <1>11, <2>2, <2>3, <2>4 DEF Check
<1>12. CASE AppendLine(i)
  <2> DEFINE d == Rests(i)
  <2>1. Becomes(i, d) /\ prog' = Append(prog, child[i].cur)
        /\ events' = events /\ child[i].at = "append"
    BY <1>12 DEF AppendLine
  <2>2. child[i].cur \in Nat
    BY <1>1 DEF Child
  <2>3. ASSUME Owns(child[i]), out' = out PROVE WillOwn(d)
    <3>1. Spaced(prog)
          /\ (prog = <<>> \/ child[i].cur - Last(prog) > Interval)
      BY <2>1, <2>3 DEF Owns, WillOwn, Own
    <3>2. Spaced(prog')
      BY <1>1, <2>1, <2>2, <3>1 DEF Spaced, Last
    <3> QED
      BY <2>1, <2>3, <3>2, <1>4 DEF Owns, WillOwn, Own, StageOf
  <2> QED
    BY <2>1, <2>3, <1>4, BecomesOwn
<1>13. CASE NextRound(i)
  <2> DEFINE d == [child[i] EXCEPT !.at = "list", !.wake = 0]
  <2>1. quiet(d)
    BY <1>1 DEF Child
  <2>2. child[i].at = "sleep" /\ UNCHANGED files /\ Becomes(i, d)
    BY <1>13 DEF NextRound
  <2> QED
    BY <2>1, <2>2, <1>3
<1> QED
  BY <1>5, <1>6, <1>7, <1>8, <1>9, <1>10, <1>11, <1>12, <1>13 DEF Statistics

(* A step that leaves the files and the children that write alone keeps    *)
(* it, if the stage only rises.                                            *)
LEMMA AsideSingle ==
  ASSUME TypeOK, Single, UNCHANGED files,
         \A i \in Instance :
           \/ child'[i] = child[i]
           \/ /\ child[i].at \in {"none", "forked"}
              /\ child'[i].at \in {"forked", "ended"}
              /\ child'[i].last = child[i].last,
         Alone => StageOf(out) <= StageOf(out') /\ boots' = boots,
         \/ boots' = boots
         \/ boots' \in Instance => child[boots'].at = "none"
  PROVE  Single'
<1>1. Writers' = Writers
  BY DEF Writers
<1>2. \A i \in Writers : child'[i] = child[i] /\ i \in Instance
  BY DEF Writers
<1>3. Alone' => Alone
  BY <1>1 DEF Alone, Writers
<1>4. Alone' => WillOwn(child'[boots'])
  <2> SUFFICES ASSUME Alone' PROVE WillOwn(child'[boots'])
    OBVIOUS
  <2>1. Owns(child[boots]) /\ child'[boots'] = child[boots]
        /\ StageOf(out) <= StageOf(out') /\ child[boots] \in Child
    BY <1>2, <1>3 DEF Single, Alone, TypeOK, Child
  <2>2. prog' = prog /\ events' = events
    BY DEF files
  <2>3. StageOf(out) \in 0 .. 2 /\ StageOf(out') \in 0 .. 2
    BY StageType
  <2>4. StageOf(out)' = StageOf(out')
    BY DEF StageOf
  <2> QED
    BY <2>1, <2>2, <2>3, <2>4 DEF Owns, WillOwn, Own, Spaced, Last, Child
<1>5. Writers' = {} => prog' = <<>> /\ events' = <<>>
  BY <1>1 DEF Single, files
<1>6. \A i \in Instance :
        child'[i].at \in {"none", "forked"} => child'[i].last = 1
  BY DEF Single
<1> QED
  BY <1>4, <1>5, <1>6, SingleNext

(* So does every step that is not one of a statistics child.               *)
LEMMA OthersSingle ==
  ASSUME TypeOK, Single,
         \/ Main \/ Boot \/ ChecksOnly \/ Abort \/ SigInt \/ Kill
         \/ Expire \/ Tick
  PROVE  Single'
<1>1. child \in [Instance -> Child]
  BY DEF TypeOK, Child
<1>2. Alone => pc \notin {"start", "checks"}
  BY DEF Alone, Writers, TypeOK
<1>3. CASE Abort \/ SigInt \/ Kill \/ ChecksOnly
  <2>1. pc \in Running /\ child' \in Interrupted
        /\ UNCHANGED <<boots, out, files>>
    BY <1>3 DEF Abort, SigInt, Kill, ChecksOnly, Interrupted, Running, disk
  <2>2. ASSUME NEW j \in Instance
        PROVE  \/ child'[j] = child[j]
               \/ /\ child[j].at \in {"none", "forked"}
                  /\ child'[j].at \in {"forked", "ended"}
                  /\ child'[j].last = child[j].last
    <3>1. \/ child'[j] = child[j]
          \/ child[j].at = "forked"
             /\ child'[j] = [child[j] EXCEPT !.at = "ended"]
      BY <2>1, InterruptedTypes
    <3>2. child[j] \in Child
      BY <1>1
    <3> QED
      BY <3>1, <3>2 DEF Child
  <2>3. StageOf(out) <= StageOf(out')
    BY <2>1 DEF StageOf
  <2> QED
    BY <2>1, <2>2, <2>3, AsideSingle
<1>4. CASE Fork
  <2>1. UNCHANGED <<boots, files>> /\ out' = out
        /\ child' = [child EXCEPT ![boots].at = "forked"]
    BY <1>4 DEF Fork, disk
  <2>2. boots \in Instance /\ child[boots].at = "none"
    BY <1>4 DEF Fork, TypeOK, Running
  <2>3. ASSUME NEW j \in Instance
        PROVE  \/ child'[j] = child[j]
               \/ /\ child[j].at \in {"none", "forked"}
                  /\ child'[j].at \in {"forked", "ended"}
                  /\ child'[j].last = child[j].last
    BY <2>1, <2>2, <1>1 DEF Child
  <2>4. StageOf(out) <= StageOf(out')
    BY <2>1 DEF StageOf
  <2> QED
    BY <2>1, <2>3, <2>4, AsideSingle
<1>5. CASE Boot
  <2>1. child' = child /\ UNCHANGED files /\ out' = out /\ boots' = boots + 1
        /\ boots' \in Instance
    BY <1>5, CampaignAssumption DEF Boot, disk, TypeOK, Instance
  <2>2. boots \in Nat /\ child[boots'].at = "none"
    BY <2>1 DEF TypeOK, Instance
  <2>3. Writers' = Writers
    BY <2>1 DEF Writers
  <2>4. ~Alone'
    BY <2>1, <2>2, <2>3 DEF Alone, Writers
  <2> QED
    BY <2>1, <2>3, <2>4, SingleNext DEF Single, files
<1>6. CASE Expire \/ Tick \/ (Main /\ ~Fork)
  <2>1. UNCHANGED <<child, files, boots>>
    BY <1>6 DEF Expire, Tick, inst, Main, Remove, MakeOutdir, WriteChildPid,
       FirstSync, Sync, RunStage1, StartTimer, CollectStage1, RunStage2,
       MakeStage2Dirs, Continue, Sleep
  <2>2. Alone => out \subseteq out'
    BY <1>2, <1>6 DEF Expire, Tick, disk, Main, Remove, MakeOutdir,
       WriteChildPid, FirstSync, Sync, RunStage1, StartTimer, CollectStage1,
       RunStage2, MakeStage2Dirs, Continue, Sleep
  <2>3. Alone => StageOf(out) <= StageOf(out')
    BY <2>2 DEF StageOf
  <2> QED
    BY <2>1, <2>3, AsideSingle
<1> QED
  BY <1>3, <1>4, <1>5, <1>6

(* Single is an invariant.                                                 *)
LEMMA SingleHolds == Spec => []Single
<1>1. Init => Single
  BY DEF Init, Single, NoChild, Alone, Writers
<1>2. TypeOK /\ Single /\ [Next]_vars => Single'
  <2> SUFFICES ASSUME TypeOK, Single, [Next]_vars PROVE Single'
    OBVIOUS
  <2>1. CASE UNCHANGED vars
    BY <2>1 DEF vars, Single, Alone, Writers, Owns, Own, Spaced, Last, StageOf
  <2>2. CASE Next
    BY <2>2, StatisticsSingle, OthersSingle DEF Next
  <2> QED
    BY <2>1, <2>2
<1> QED
  BY <1>1, <1>2, TypeCorrect, PTL DEF Spec

(* SamplesSpaced is an invariant: the interval is kept by a child that has *)
(* the files to itself.                                                    *)
THEOREM SamplesSpacedHolds == Spec => []SamplesSpaced
<1>1. TypeOK /\ Single => SamplesSpaced
  <2> SUFFICES ASSUME TypeOK, Single, Alone,
                      NEW k \in 1 .. Len(prog) - 1
               PROVE  prog[k + 1] - prog[k] > Interval
    BY DEF SamplesSpaced
  <2> QED
    BY DEF Single, Owns, Own, Spaced
<1> QED
  BY <1>1, SingleHolds, TypeCorrect, PTL

(* EventsOnce is one, too: it tells of a transition once, and only after   *)
(* it has happened.                                                        *)
THEOREM EventsOnceHolds == Spec => []EventsOnce
<1>1. TypeOK /\ Single => EventsOnce
  BY DEF EventsOnce, Single, Owns, Own, Alone, Writers, TypeOK
<1> QED
  BY <1>1, SingleHolds, TypeCorrect, PTL
=============================================================================
