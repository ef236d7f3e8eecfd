------------------------------ MODULE Campaign ------------------------------
(***************************************************************************)
(* A campaign: the instances of PMFuzz that an operator starts one after   *)
(* the other with one output directory. src/src/pmfuzz/pmfuzz-fuzz.py      *)
(* starts an instance and handles its signals, the main loop of            *)
(* core/pmfuzz.py takes it through the stages, with stages/state.py        *)
(* reading the stage from directory names, and a statistics child, forked  *)
(* at the start, samples the directories into a progress file (core/       *)
(* whatsup.py).                                                            *)
(*                                                                         *)
(* The progress file is outside of the output directory. The next instance *)
(* removes the directory while a statistics child of an earlier one may    *)
(* still be reading it. What the stages do is the subject of Stage2 and    *)
(* DedupStore: here they only create their directories, or abort.          *)
(***************************************************************************)
EXTENDS Naturals, Sequences, FiniteSets

CONSTANTS
  MaxBoots,     \* bound: how often the program is started
  MaxClock,     \* bound: how long the statistics children are observed
  Interval      \* args.progress_interval, in seconds

ASSUME CampaignAssumption ==
  /\ MaxBoots \in Nat
  /\ MaxClock \in Nat
  /\ Interval \in Nat

VARIABLES
  disable_stage2, \* --disable-stage2
  boots,        \* times the program was started; names the present instance
  pc,           \* where its main process is
  stage,        \* stage_id of run_pmfuzz(): the stage at the last sync()
  out,          \* what exists of the output directory
  timer,        \* the stage 1 timer, a file in the directory of the stage
  child,        \* per instance: its statistics child
  prog,         \* the times of the lines of the progress file
  events,       \* the stages in the lines of its .events file
  clock         \* time.time(), in seconds

inst  == <<boots, pc, stage>>
disk  == <<out, timer>>
files == <<prog, events>>
vars  == <<disable_stage2, boots, pc, stage, out, timer, child, prog,
           events, clock>>

Instance == 1 .. MaxBoots

\* A directory comes with the ones above it.
Entry == {"outdir", "stage1", "@dedup", "stage2", "testcases2"}
Below(e) == CASE e = "outdir" -> Entry \ {"outdir"}
              [] e = "stage2" -> {"testcases2"}
              [] OTHER -> {}

\* There is no main process; "aborted": abort() has signalled its child.
Off     == {"off", "aborted"}
Loop    == {"info", "loop", "run1", "timer1", "collect", "branch", "stage2",
            "sleep"}
Running == {"start", "checks", "forked"} \cup Loop
PC      == Off \cup Running

\* The places of a child; a "corrupt" one has reported a corrupted file.
Place == {"none", "forked", "fresh", "list", "count", "paths", "tail", "check",
          "append", "sleep", "ended", "corrupt"}

NoChild ==
  [at |-> "none",
   stage |-> 0,         \* stage_max of the round
   last |-> 1,          \* last_stage
   started |-> FALSE,
   wake |-> 0,          \* when its sleep() ends
   tail |-> 0,          \* last_write of record_progress()
   cur |-> 0]           \* cur_time of record_progress()

(* The highest stage that has a directory, 0 if there is none.             *)
StageOf(o) == IF "stage2" \in o THEN 2 ELSE IF "stage1" \in o THEN 1 ELSE 0
-----------------------------------------------------------------------------
Init ==
  /\ disable_stage2 \in BOOLEAN
  /\ boots = 0 /\ pc = "off" /\ stage = 0
  /\ out = {} /\ timer = "none"
  /\ child = [i \in Instance |-> NoChild]
  /\ prog = <<>> /\ events = <<>>
  /\ clock = Interval + 1      \* not near 0, the time an empty file stands for

(* The operator starts an instance, which reads options and configuration. *)
Boot ==
  /\ pc \in Off
  /\ boots < MaxBoots
  /\ boots' = boots + 1
  /\ pc' = "start"
  /\ stage' = 0
  /\ UNCHANGED <<disable_stage2, disk, child, files, clock>>

(* rmtree(outdir): what is below a directory goes first.                   *)
Remove(e) ==
  /\ pc = "start"
  /\ e \in out
  /\ Below(e) \cap out = {}
  /\ out' = out \ {e}
  /\ timer' = IF e = "stage1" THEN "none" ELSE timer
  /\ UNCHANGED <<disable_stage2, inst, child, files, clock>>

MakeOutdir ==
  /\ pc = "start"
  /\ out = {}
  /\ out' = {"outdir"}
  /\ pc' = "checks"
  /\ UNCHANGED <<disable_stage2, boots, stage, timer, child, files, clock>>

(* --checks-only.                                                          *)
ChecksOnly ==
  /\ pc = "checks"
  /\ pc' = "off" /\ stage' = 0
  /\ UNCHANGED <<disable_stage2, boots, disk, child, files, clock>>

\* A wrong variant: the statistics child of an earlier instance will do.
ForkOnce ==
  /\ pc = "checks"
  /\ pc' = "forked"
  /\ child' = IF \E i \in Instance : child[i].at # "none" THEN child
              ELSE [child EXCEPT ![boots].at = "forked"]
  /\ UNCHANGED <<disable_stage2, boots, stage, disk, files, clock>>

Fork ==
  /\ pc = "checks"
  /\ pc' = "forked"
  /\ child' = [child EXCEPT ![boots].at = "forked"]
  /\ UNCHANGED <<disable_stage2, boots, stage, disk, files, clock>>

(* write_child_pid(): from here on the handlers know the child.            *)
WriteChildPid ==
  /\ pc = "forked"
  /\ pc' = "info"
  /\ UNCHANGED <<disable_stage2, boots, stage, disk, child, files, clock>>

(* run_pmfuzz() up to its loop. A directory with a stage 2 must have the   *)
(* global store, and the operator is asked whether to resume.              *)
FirstSync ==
  /\ pc = "info"
  /\ pc' \in IF StageOf(out) <= 1 THEN {"loop"}
             ELSE {"aborted"} \cup {p \in {"loop"} : "@dedup" \in out}
  /\ stage' = IF pc' = "loop" THEN StageOf(out) ELSE 0
  /\ UNCHANGED <<disable_stage2, boots, disk, child, files, clock>>

(* The head of the loop: sync(), and with a stage collect_stage1() first.  *)
Sync ==
  /\ pc = "loop"
  /\ stage' = StageOf(out)
  /\ pc' = IF stage' = 0 THEN "run1" ELSE "collect"
  /\ UNCHANGED <<disable_stage2, boots, disk, child, files, clock>>

(* run_stage1(): the directory of stage 1 is made before AFL is started;   *)
RunStage1 ==
  /\ pc = "run1"
  /\ out' = out \cup {"stage1"}
  /\ pc' = "timer1"
  /\ UNCHANGED <<disable_stage2, boots, stage, timer, child, files, clock>>

(* its timer starts when run_stage1() returns.                             *)
StartTimer ==
  /\ pc = "timer1"
  /\ timer' = "running"
  /\ pc' = "sleep"
  /\ UNCHANGED <<disable_stage2, boots, stage, out, child, files, clock>>

\* A wrong variant: without a global store.
CollectStage1None ==
  /\ pc = "collect"
  /\ pc' = "branch"
  /\ UNCHANGED <<disable_stage2, boots, stage, disk, child, files, clock>>

(* collect_stage1() makes the global store before it collects.             *)
CollectStage1 ==
  /\ pc = "collect"
  /\ out' = out \cup {"@dedup"}
  /\ pc' = "branch"
  /\ UNCHANGED <<disable_stage2, boots, stage, timer, child, files, clock>>

Stage2Due == stage = 1 /\ ~disable_stage2 /\ timer = "expired"

(* run_stage2() of a stage 1 whose time is up: the directory of stage 2,   *)
RunStage2 ==
  /\ pc = "branch"
  /\ Stage2Due
  /\ out' = out \cup {"stage2"}
  /\ pc' = "stage2"
  /\ UNCHANGED <<disable_stage2, boots, stage, timer, child, files, clock>>

(* then what is below it, and the first pass.                              *)
MakeStage2Dirs ==
  /\ pc = "stage2"
  /\ out' = out \cup {"testcases2"}
  /\ pc' = "sleep"
  /\ UNCHANGED <<disable_stage2, boots, stage, timer, child, files, clock>>

(* Otherwise nothing, or a pass of the stage 2 that runs.                  *)
Continue ==
  /\ pc = "branch"
  /\ ~Stage2Due
  /\ pc' = "sleep"
  /\ UNCHANGED <<disable_stage2, boots, stage, disk, child, files, clock>>

\* A wrong variant: the loop is left with the last stage.
SleepForGood ==
  /\ pc = "sleep"
  /\ stage # 1
  /\ pc' = "loop"
  /\ UNCHANGED <<disable_stage2, boots, stage, disk, child, files, clock>>

Sleep ==
  /\ pc = "sleep"
  /\ pc' = "loop"
  /\ UNCHANGED <<disable_stage2, boots, stage, disk, child, files, clock>>
-----------------------------------------------------------------------------
(* SIGINT to the child of this instance. It is ignored once the child has  *)
(* set parent = False. Before, the handler takes the child for a parent    *)
(* without a child pid, and ends it, unless it was too late.               *)
Interrupted ==
  {child} \cup {[child EXCEPT ![i].at = "ended"] :
                  i \in {j \in {boots} : child[j].at = "forked"}}

(* abort(): the handler of SIGUSR1 interrupts the child it knows, if any,  *)
(* and exits.                                                              *)
Abort ==
  /\ pc \in Running \ {"sleep"}
  /\ IF pc \in Loop
     THEN pc' = "aborted" /\ child' \in Interrupted
     ELSE pc' = "off" /\ child' = child
  /\ stage' = 0
  /\ UNCHANGED <<disable_stage2, boots, disk, files, clock>>

(* Ctrl+C, which the terminal sends to the child, too; or SIGINT to the    *)
(* main process, which passes it on. If its handler does not know the      *)
(* child yet it raises, and abort() ends the program.                      *)
SigInt ==
  /\ pc \in Running
  /\ pc' = "off" /\ stage' = 0
  /\ child' \in Interrupted
  /\ UNCHANGED <<disable_stage2, boots, disk, files, clock>>

(* A signal without a handler.                                             *)
Kill ==
  /\ pc \in Running
  /\ pc' = "off" /\ stage' = 0
  /\ UNCHANGED <<disable_stage2, boots, disk, child, files, clock>>
-----------------------------------------------------------------------------
\* A step of the child i after which its state is c.
Becomes(i, c) ==
  /\ child' = [child EXCEPT ![i] = c]
  /\ UNCHANGED <<disable_stage2, inst, disk, clock>>

\* The end of a sleep; a sleep beyond the bound of the clock ends with it.
Until(t) == IF clock + t > MaxClock THEN MaxClock ELSE clock + t

At(i, place) == [child[i] EXCEPT !.at = place]
Rests(i)     == [child[i] EXCEPT !.at = "sleep", !.wake = Until(Interval),
                                 !.tail = 0, !.cur = 0]

\* FileNotFoundError: a line of zeros if nothing was recorded yet.
Misses(i) == IF child[i].started THEN Rests(i) ELSE At(i, "tail")

(* The child begins: parent = False, and collect_statistics() sleeps for a *)
(* second.                                                                 *)
BeginChild(i) ==
  /\ child[i].at = "forked"
  /\ Becomes(i, [child[i] EXCEPT !.at = "fresh", !.wake = Until(1)])
  /\ UNCHANGED files

(* The progress file is removed and the events file emptied.               *)
ClearFiles(i) ==
  /\ child[i].at = "fresh"
  /\ clock >= child[i].wake
  /\ prog' = <<>> /\ events' = <<>>
  /\ Becomes(i, [child[i] EXCEPT !.at = "list", !.wake = 0])

(* A round: the stages that there are,                                     *)
List(i) ==
  /\ child[i].at = "list"
  /\ Becomes(i,
       IF "outdir" \notin out THEN Misses(i)
       ELSE IF StageOf(out) = 0 THEN At(i, "paths")
       ELSE [child[i] EXCEPT !.at = "count", !.stage = StageOf(out)])
  /\ UNCHANGED files

\* A wrong variant: the stage is not remembered.
CountForgets(i) ==
  /\ child[i].at = "count"
  /\ IF child[i].stage = 2 /\ "testcases2" \notin out
     THEN Becomes(i, Misses(i)) /\ UNCHANGED files
     ELSE /\ Becomes(i, At(i, "paths"))
          /\ events' = IF child[i].stage = child[i].last THEN events
                       ELSE Append(events, child[i].stage)
          /\ prog' = prog

(* the testcases of the present one, and the transition if it is new;      *)
Count(i) ==
  /\ child[i].at = "count"
  /\ IF child[i].stage = 2 /\ "testcases2" \notin out
     THEN Becomes(i, Misses(i)) /\ UNCHANGED files
     ELSE /\ Becomes(i, [child[i] EXCEPT !.at = "paths",
                                         !.last = child[i].stage])
          /\ events' = IF child[i].stage = child[i].last THEN events
                       ELSE Append(events, child[i].stage)
          /\ prog' = prog

Readable(i) ==
  /\ {"@dedup", "stage1"} \subseteq out
  /\ child[i].stage = 2 => "testcases2" \in out

(* the maps, the execution rate and the queue of stage 1. Without a stage  *)
(* yet, a variable is unbound, and the round is given up; likewise when a  *)
(* map is half written. A file may be gone that was listed.                *)
Paths(i) ==
  /\ child[i].at = "paths"
  /\ \/ child[i].stage # 0 /\ Readable(i)
        /\ Becomes(i, [child[i] EXCEPT !.at = "tail", !.started = TRUE])
     \/ child[i].stage # 0 /\ Becomes(i, Misses(i))
     \/ Becomes(i, Rests(i))
  /\ UNCHANGED files

(* record_progress(): the time of the last line,                           *)
ReadTail(i) ==
  /\ child[i].at = "tail"
  /\ Becomes(i, [child[i] EXCEPT !.at = "check",
                   !.tail = IF prog = <<>> THEN 0 ELSE prog[Len(prog)]])
  /\ UNCHANGED files

\* Wrong variants: a sample early; and an interval that has begun, not ended.
CheckLate(i) ==
  /\ child[i].at = "check"
  /\ Becomes(i,
       IF clock <= child[i].tail THEN At(i, "corrupt")
       ELSE IF clock - child[i].tail > Interval
            THEN [child[i] EXCEPT !.at = "append", !.cur = clock]
       ELSE Rests(i))
  /\ UNCHANGED files

CheckEarly(i) ==
  /\ child[i].at = "check"
  /\ Becomes(i,
       IF clock < child[i].tail THEN At(i, "corrupt")
       ELSE IF clock - child[i].tail >= Interval
            THEN [child[i] EXCEPT !.at = "append", !.cur = clock]
       ELSE Rests(i))
  /\ UNCHANGED files

(* compared with the present time: an abort() if it is later,              *)
Check(i) ==
  /\ child[i].at = "check"
  /\ Becomes(i,
       IF clock < child[i].tail THEN At(i, "corrupt")
       ELSE IF clock - child[i].tail > Interval
            THEN [child[i] EXCEPT !.at = "append", !.cur = clock]
       ELSE Rests(i))
  /\ UNCHANGED files

(* a line if more than the interval has passed,                            *)
AppendLine(i) ==
  /\ child[i].at = "append"
  /\ prog' = Append(prog, child[i].cur)
  /\ events' = events
  /\ Becomes(i, Rests(i))

(* and the sleep.                                                          *)
NextRound(i) ==
  /\ child[i].at = "sleep"
  /\ clock >= child[i].wake
  /\ Becomes(i, [child[i] EXCEPT !.at = "list", !.wake = 0])
  /\ UNCHANGED files
-----------------------------------------------------------------------------
Expire ==
  /\ timer = "running"
  /\ timer' = "expired"
  /\ UNCHANGED <<disable_stage2, inst, out, child, files, clock>>

Tick ==
  /\ clock < MaxClock
  /\ clock' = clock + 1
  /\ UNCHANGED <<disable_stage2, inst, disk, child, files>>

Main ==
  \/ \E e \in Entry : Remove(e)
  \/ MakeOutdir \/ Fork \/ WriteChildPid \/ FirstSync
  \/ Sync \/ RunStage1 \/ StartTimer \/ CollectStage1
  \/ RunStage2 \/ MakeStage2Dirs \/ Continue \/ Sleep

Statistics(i) ==
  \/ BeginChild(i) \/ ClearFiles(i) \/ List(i) \/ Count(i) \/ Paths(i)
  \/ ReadTail(i) \/ Check(i) \/ AppendLine(i) \/ NextRound(i)

Next ==
  \/ Main \/ Boot \/ ChecksOnly \/ Abort \/ SigInt \/ Kill
  \/ \E i \in Instance : Statistics(i)
  \/ Expire \/ Tick

Spec == Init /\ [][Next]_vars

(* A main process that was started runs until it ends, and its timer       *)
(* expires. Nobody need start an instance or interrupt one.                *)
FairSpec == Spec /\ WF_vars(Main) /\ WF_vars(Expire)

(* The statistics children and the clock go on, too.                       *)
FairChildren ==
  FairSpec /\ WF_vars(Tick) /\ \A i \in Instance : WF_vars(Statistics(i))
-----------------------------------------------------------------------------
(* Type invariant; also, an instance has a child from its fork on, and not *)
(* before, and a child that counts has seen a stage.                       *)
TypeOK ==
  /\ disable_stage2 \in BOOLEAN
  /\ boots \in 0 .. MaxBoots
  /\ pc \in PC
  /\ stage \in 0 .. 2
  /\ out \subseteq Entry
  /\ timer \in {"none", "running", "expired"}
  /\ child \in [Instance -> [at : Place, stage : 0 .. 2, last : 1 .. 2,
                             started : BOOLEAN, wake : Nat, tail : Nat,
                             cur : Nat]]
  /\ prog \in Seq(Nat)
  /\ events \in Seq({1, 2})
  /\ clock \in Nat
  /\ pc \in Running => boots \in Instance
  /\ \A i \in Instance : child[i].at # "none" => i <= boots
  /\ \A i \in Instance : child[i].at = "count" => child[i].stage # 0
  /\ pc \in {"start", "checks"} => child[boots].at = "none"
  /\ pc \in Loop \cup {"forked"} => child[boots].at # "none"

\* The children that write, or did: one that did goes on for ever.
Writers == {i \in Instance : child[i].at \notin {"none", "forked", "ended"}}

\* The child of the present instance has the files to itself.
Alone == Writers = {boots}

(* "Interval in seconds for recording progress" (pmfuzz-fuzz.py:303): two  *)
(* lines of the progress file are more than the interval apart, over any   *)
(* number of missed files and given-up rounds, as long as no child of an   *)
(* earlier instance writes to the file, too.                               *)
SamplesSpaced ==
  Alone => \A k \in 1 .. Len(prog) - 1 : prog[k + 1] - prog[k] > Interval

(* Under the same condition the events file tells of the transition to     *)
(* stage 2 once, and only after it has happened.                           *)
EventsOnce ==
  Alone /\ events # <<>> => events = <<2>> /\ StageOf(out) = 2

(* The abort() of a statistics child with "Corrupted progress file", which *)
(* the main process would not notice, does not happen: no line is later    *)
(* than the clock, however many children write and whatever they have read *)
(* before. (It takes a clock that does not go back.)                       *)
NeverCorrupt == \A i \in Instance : child[i].at # "corrupt"

(* The documented transitions (core/pmfuzz.py:6-9): an instance starts     *)
(* with no stage, so that neither the question whether to resume nor the   *)
(* abort for an absent deduplication ever comes; it enters stage 1, and    *)
(* from there stage 2 when the time of stage 1 is up and its results are   *)
(* in the global store, and never goes back, though the stage it acts upon *)
(* was read at the head of the loop.                                       *)
StageStep ==
  LET from == StageOf(out) IN LET to == StageOf(out') IN
  to # from =>
    \/ pc = "start" /\ to < from
    \/ from = 0 /\ to = 1 /\ "@dedup" \notin out
    \/ from = 1 /\ to = 2 /\ "@dedup" \in out /\ timer = "expired"
       /\ ~disable_stage2

StagesInOrder ==
  [][(pc = "info" => StageOf(out) = 0) /\ StageStep]_vars

(* Stage 1 is followed by stage 2, unless that is disabled or the instance *)
(* ends.                                                                   *)
StageTwoReached ==
  pc = "loop" /\ ~disable_stage2 ~> StageOf(out) = 2 \/ pc \in Off

(* "SIGUSR1 signal handler for killing the child process from parent on    *)
(* abort" (pmfuzz-fuzz.py:95): a child that the handler has signalled ends.*)
AbortEndsChild ==
  \A i \in Instance :
    pc = "aborted" /\ boots = i ~> child[i].at \in {"none", "ended"}
=============================================================================
