# A verification development of PMFuzz

PMFuzz generates test cases for persistent memory programs: it drives AFL++ over a
target program in two stages, keeps the PM images that the target leaves, injects
failures to get *crash site* images, and fuzzes the target on those. This directory
holds TLA+ modules of the Python program under `src/src/pmfuzz` and of the failure
injection runtime under `src/include`, TLC configurations that check them, and TLAPS proofs
of the main results for any number of testcases, crash sites, workers and cores.

File names below are relative to `src/src/pmfuzz` unless they begin with `src/`.

## 1. Inventory

PMFuzz is one main process with a polling loop, the AFL processes it starts and finds
again by pid files, short-lived worker processes, and a statistics child. There is no
lock and no in-memory state that survives an iteration of the loop: **directories are the
state**.

| Part | Code | State | Operations | Hard behaviour |
|---|---|---|---|---|
| Main loop | `core/pmfuzz.py` | none; stage and iteration come from directory names | collect stage 1, update the global store, start / resume / complete stage 2 | the order of these against everything that runs beside them |
| Stage 2 scheduler | `stages/stage2.py` | timer files, pid files, image directories, the AFL queue directories | `resume` (a pass), `_run_*`, `_terminate_*`, `completed`, `terminate` | one stale counter, AFL exits, expiring timers, zombies, a pid file that cannot be written, a restart |
| Timers | `helper/ptimer.py` | `.ptimer` file: start and length | `start_new`, `expired`, `is_new` | time passes between two reads |
| Worker pool | `helper/parallel.py` | list of processes | `run`, `alive_cnt`, `wait` | processes end while they are counted; exit codes |
| Stores | `stages/dedup.py` | global store `@dedup`, local store `@dedup_sync`, placeholders | `update_global`, `update_local`, `minimize_corpus_gbl`, `minimize_corpus_lcl`, `deduplicate_crash_sites_lcl`, `run` | copies that become stale, files that are dropped and must not come back |
| Collection | `stages/stage1.py`, `stages/stage2.py` | the stages' testcase and image directories | `collect_results`, `collect_tc`, `tc_gen_crash_sites` | AFL writes the queue that is being copied; failures inside workers |
| DedupEngine, pmfuzz-cmin | `core/dedupengine.py`, `tools/pmfuzz-cmin` | none | keep one testcase per map | which one is kept depends on a directory listing |
| State | `stages/state.py` | none; reads directory names | `sync` | the stage acted upon was read earlier |
| Front end | `pmfuzz-fuzz.py` | output directory, `@child_pid` | start, fork of the statistics child, signal handlers | what an earlier instance left behind; signals before and after the fork is recorded |
| Statistics child | `pmfuzz-fuzz.py`, `core/whatsup.py` | progress file and its `.events` file, which are outside of the output directory | `collect_statistics`, `record_progress`, `record_stage_transitions` | reads directories that others create and remove; read, compare and append are three steps; may outlive its parent and share the file with the next child |
| Failure injection runtime | `src/include/libpmfuzz.c`, `shiftregarr.h` | failure id, failure list, two PM maps | `pmfuzz_init`, `pmfuzz_inject_failure`, `update_loc` | 8 bit entries, ids against positions, the first failure point |
| Names | `handlers/name_handler.py` | none | lineage, parents, images of parents | the only record of where a testcase comes from; two separators with different meanings |
| Plots, coverage, configuration, printing, scripts | `core/whatsup.py`, `interfaces/lcov.py`, `helper/config.py`, ... | none that the rest reads | | |

How they interact. The main loop calls everything else, one thing at a time. Stage 1 and
stage 2 AFL processes write their queues whenever they like; the main process reads the
queues, so **collection races with AFL**. The main process reaches AFL by `os.kill` with
a pid out of a file, so **termination races with an exit**, and whether a pid exists
depends on when an exited child was last waited for. Collection goes through the worker
pool, whose workers report to the main process with nothing but an exit code. The stores
are written by the main process only, but **at very different times**: a testcase that one
operation copied to the local store may be dropped by another one from the global store
and still be in use by a running job.

What makes each part correct:

* scheduler: no more AFL processes than slots; every AFL process can be found again; every
  job is started once, not starved, and collected; the image directory a job runs in is
  removed from the PM device with it; a completed iteration has all results;
* worker pool: at most `cores` workers, `wait()` is a barrier, failures are noticed; two
  pools that are used in turn keep to the cores together, and nobody of either writes when
  what they wrote is cleaned up;
* main loop and state: the documented order of stages, each entered once, stage 2 only
  with the results of stage 1;
* statistics child: samples more than the interval apart, transitions told once, never a
  file it takes for corrupted; it ends with its parent;
* names: the name of a testcase leads to the job it was found on, and to its image;
* stores: what was dropped stays dropped; jobs find their images; minimization loses no
  PM behaviour; whatever fails in a worker, a target or afl-cmin, a check for a map, an
  image or a hash fails only where that failure was made;
* failure injection: the coverage of every selected failure point has an image, unless the
  one attempt to make it failed, no coverage is tried twice, and the list names the images;
  reads and writes do not share cells.

`PROJECT.json` lists all components, and under "hazards" what is hard to test in this code,
each at its line and with the properties that would catch it going wrong.

## 2. Modules

| Module | What it is |
|---|---|
| `SlotPool` | abstract specification: a pool that lends places to members, each member once |
| `JobSchedule` | abstract specification: when jobs reach the local store, start, end and are collected; what scheduler and stores know of each other |
| `TestcaseStore` | abstract specification: the global store, where testcases arrive once and are dropped for good |
| `Stage2` | the stage 2 scheduler, with timers, AFL processes, stage 1 and restarts beside it |
| `Parallel` | the worker pool |
| `DedupStore` | the stores and everything that moves testcases between them |
| `Collection` | two worker pools that collect the children of a job, on top of `Parallel` |
| `NameHandler` | names as sequences of ids: parents, lineage, counts, selection |
| `Lineage` | the stores of `DedupStore` with the names of `NameHandler` |
| `Campaign` | instances of the program one after the other: start, stages, signals, statistics children |
| `PMCoverage` | abstract specification: coverage only grows, each coverage is taken once |
| `PMMap` | the map of PM accesses of the target, with its counters or shift registers |
| `FailureInjection` | the runtime that takes images at failure points, on top of `PMMap`, and the replay from its list |
| `MC_Stage2`, `MC_Parallel`, `MC_DedupStore`, `MC_Campaign`, `MC_FailureInjection` | small instances for TLC |
| `Stage2_proofs`, `Parallel_proofs`, `Collection_proofs`, `DedupStore_proofs`, `Lineage_proofs`, `Campaign_proofs`, `FailureInjection_proofs` | theorems and their proofs |

`Stage2` and `DedupStore` describe the same program with different questions. `Stage2`
keeps *when* each job runs (timers, pids, slots) and abstracts *what* it leaves: a
termination adds the job to `results`. `DedupStore` keeps the files and lets a job start
and end at any point of a pass. Where they meet is `JobSchedule`: the local store grows at
the head of a pass, jobs of it start and are terminated within passes, once each, the stage
closes when every testcase was started and is closed when each is collected. Both implement
it (`ScheduleSpec`), `Stage2` with a job that runs from the start of its timer until its
queue is collected, `DedupStore` with its variable `job`. So what `DedupStore` shows of the
files does not depend on an order of jobs that the scheduler does not keep to, and the
guards of its `Start` and `Terminate` are those of the schedule.

`Campaign` has above them what neither sees: that there are stages at all, when they begin,
what ends an instance and what the next one meets. Of a stage it keeps the directories and
the timer.

### Stage2

| State | Code |
|---|---|
| `global`, `created`, `local` | jobs in `outdir/@dedup`; the directory `stage=2,iter=1`; jobs in its `@dedup_sync` |
| `timer[j]` | the `.ptimer` file: `is_new()`, running, `expired()` |
| `pidf` | jobs with `afl-results/<job>/master_fuzzer/pid` |
| `afl[j]` | the process behind it: alive, told to end, zombie, reaped |
| `imgs[j]` | number of directories under `img_loc` that the job runs in |
| `cs_gen` | whether a collection has left directories of its own there |
| `results` | jobs whose AFL queue was copied |
| `pc`, `todo`, `run_count`, `cur` | the place in the pass, what its loop has still to visit, the local variable of `resume()`, the crash site `_run_cs()` waits for |

A pass (`Stage2.resume`) is not atomic: `FirstPass` / `NextPass` are its head (local store
updated, running jobs checked and counted), then each job is visited by one of `Pass`,
`Terminate`, `TerminateFails`, `TerminateGone`, `TerminateAmbiguous`, `Start`, `StartSlow`, in
any order (the code follows a directory listing); `EnterCS` counts again for crash sites;
`EndPass` returns to the main loop. Between any two of these steps a timer can expire
(`Expire`) and an AFL process can exit (`AflExit`). `CheckStarted` is the end of the five
seconds that `_run_cs()` sleeps. `EnterKillAll`, `Collect`, `CollectFails`, `RunDedup` are the
completed stage.

A termination is `EndJob` (signal, pid file, image directory) and then the collection of the
queue, which succeeds (`Terminate`) or ends the program (`TerminateFails`: a worker fails and
its pool notices it, or afl-cmin fails). With failure injection a collection calls
`tc_gen_crash_sites()` for some children, which makes a directory `pmfuzz-cs-gen-st2-*` in
`img_loc` with the decompressed image of the parent and does not remove it
(`LeavesDirectories`; section 5). Their names match no other directory's, so it is enough to
know whether there are any. `CollectFails` is the same end in `collect_results()`, which
generates no crash sites.

`Restart` is a new start of the program after a crash or an abort: the output directory is
removed, `img_loc` and the old AFL processes are not.

The difference between a zombie and a reaped process is in the code: `get_run_count()` and
`_run_cs()` test `psutil.pid_exists`, true of a zombie; `os.kill` of a zombie succeeds and
of a reaped pid raises. Python reaps dropped children when it creates the next subprocess,
so every action that runs one applies `Reap`.

### Parallel

`Run`, `ScanAlive`, `ScanDead`, `EndScan`, `Spawn` are `run()` with its call of
`alive_cnt()`, which looks at one process per step; `Wait` and `WaitOver` are `wait()`.
`Exit` is a worker that ends, with a zero or nonzero exit code. `abort()` inside a worker
gives the code **zero**: the worker inherits the handler of SIGUSR1, which calls
`sys.exit(0)`.

### Collection

`_terminate_testcase()` (and in the same way `_terminate_cs()`) has two pools of `cores // 2`,
at least one: `prl_ct` copies each child of the job and makes its image, `prl_gen_cs` injects
failures into some. `Collection` has the variables of `Parallel` for the first and an instance
`Gen` of it, with variables `gen_...`, for the second. `CollectChild` and `GenCrashSites` are
the two calls of `run()` for one child; `InRun` is what happens inside one of them; `CtWait`
and `GenWait` are the two waits, in this order. An `abort()` in one pool ends the main process
and so the use of the other (`CtAborted`, `GenAborted`). Which children get crash sites
(`randrange(100) < CS_GEN_THRESH`) is the constant `Crashed`. With FAILURE_EXIT only, as the
code has it.

### DedupStore

A testcase is the set of its files: `<<t, "tc">>`, `<<t, "map">>`, `<<t, "pm">>`, and in
the global store `<<t, "img">>` and the placeholder `<<t, "del">>`. `queue[t]` is how far
AFL has got with writing it. `TC1` come from stage 1 and `TC2` from jobs of stage 2;
`Origin`, `Exec`, `PM`, `Image` say what a testcase or crash site is derived from and which
contents repeat. One round of the main loop is `ListQueue`, `CollectTC` for each entry,
`Collected`, `UpdateGlobal1`, and then `MinimizeGbl` (stage 2 disabled), or `UpdateLocal`
followed by any number of `Start` and `Terminate`, or `Completes` with `CollectAll` and
`FinalDedup`. `why` names the `abort()` that ended the program.

Abstractions: pmfuzz-cmin and DedupEngine are "a set with exactly one testcase per map"
(`OnePer`); pmfuzz-cmin keeps the first one of `os.listdir`, an order that the file system may
change from call to call; DedupEngine keeps the one with the fewest ancestors, of which any
member is the general case. A testcase without PM map is not an input of pmfuzz-cmin's
comparison and always kept. The copy of one testcase's files into the global store is one step,
because only the main process reads it. The workers of a collection are one step: each has
copied the files that AFL had written by then up to some point, and made the image, or has
stopped short of that (`Progress`, `short`), and of the crash sites any subset exists, of which
any subset has its hash: a failure injection that runs into its timeout counts as one that
succeeded, with what it has left by then, and a worker copies a crash site before it writes the
`.hash` file. A failing worker ends the program (`why = "worker"`) if the pool notices it, and
otherwise passes; what happens inside is `Parallel` and `Collection`. Failure injection of
stage 1, which runs in the main process, ends the program when the target fails (`"finj"`), and
so does afl-cmin in both minimizations (`"cmin"`). The hashes of stage 1 crash sites are left
out, as no check looks one of them up. What AFL writes after the end of the program is not
followed. The deduplication configuration is that of `configs/run_configs/complete.yml`:
`minimize_tc` off, `minimize_corpus` on.

The ends of the program in the model are those the code has a check for, in these steps.
What is assumed of the rest: the main process's own file operations (copy, remove, write of
the pickledb file) succeed. An exception there is not caught and stops the program, in any
state; what a new instance makes of that is `Restart` in `Stage2` and `Kill` in `Campaign`.

### NameHandler and Lineage

A name like `id=3,id=5.id=7` is a pair of sequences: ids and separators. A comma goes before
the id of a testcase that a job found, a dot before the id of a failure point.
`ChildName`, `Stage1CrashSite`, `Stage2CrashSite` are the three ways in which names are made;
the functions that take them apart (`get_testcase_parent`, `get_lineage`, `iter_cnt`,
`should_use`) have the names of the code. Extensions and prefixes are the kinds of files of
`DedupStore`.

`Lineage` gives the testcases and crash sites of `DedupStore` such names, by
`LineageAssumption`: every name is made of its origin's the way the code makes it. The image of the
parent is then what `get_parent_img()` finds by the shortened name, and `ParentImages`
relates it to the `Origin` that the model knows.

### Campaign

| State | Code |
|---|---|
| `disable_stage2` | the option |
| `boots`, `pc`, `stage` | the present instance, where its main process is, `stage_id` of `run_pmfuzz()` |
| `out` | what exists: the output directory, `stage=1,iter=1`, `@dedup`, `stage=2,iter=1`, its `testcases` |
| `timer` | the stage 1 timer, a file in the directory of the stage |
| `child[i]` | the statistics child of instance i: its place in `collect_statistics()` and its local variables |
| `prog`, `events` | the times in the progress file; the stages in the events file |
| `clock` | `time.time()` |

`Boot`, `Remove`, `MakeOutdir`, `ChecksOnly`, `Fork`, `WriteChildPid` are `main()`, with the
removal of the old directory entry by entry, as an old child may be reading it.
`FirstSync` to `Sleep` are `run_pmfuzz()`: a stage makes its directory before its timer
starts, or before what is below it. `Abort`, `SigInt` and `Kill` end an instance, with what
the handlers then do to the child (`Interrupted`): before the child sets `parent = False`
the handler it has inherited takes it for a parent and ends it, afterwards it does nothing.
`BeginChild` to `NextRound` are one round of the child: it lists, counts, reads and
records in separate steps, and gives up the round when something is missing.

Abstractions: one main process at a time (an operator who starts two at once with one
directory destroys both); a progress file is configured (without one the child ends with a
TypeError at its first statement); the clock does not go back; a sleep beyond the bound of
the clock ends with it; the file is not removed between the test for it and `tail`; what
the stages put into their directories is the subject of the other modules.

### PMMap and FailureInjection

`PMMap` is `update_loc()` and its callers. A place in the target's code has a compile-time
random number; `ReadOnlyLoc`, `ReadLoc` and `WriteLoc` make a location of it, `Elem` an
index, and the cell that is updated is the XOR of that index and half of the one before. A
cell is a counter with `ENABLE_PM_PATH` and a shift register (the set of its bits) without.
`reads` and `writes` are histories: the cells either kind of access has touched.

| State of `FailureInjection` | Code (`src/include/libpmfuzz.c`) |
|---|---|
| `failure_id`, `init_complete`, `failure_list` | the variables of these names |
| `map.area`, `last` | `__pmfuzz_area_ptr`, `__last_pmfuzz_area_ptr` |
| `list`, `buf` | the file FAILURE_LIST, and what stdio has not written to it |
| `images`, `again` | image files, of the first and of the replaying process |
| `env`, `pm_path` | the environment variables |
| `init_at`, `points` | at which failure points a deterministic target initializes and ends |
| `imaged`, `failed`, `due` | histories: maps an image was made of, maps whose image could not be made, maps at selected points |

A failure point is one of `NoInjection`, `Ignored`, `Unchanged`, `Dump`; `RunTarget` runs
an instrumented instruction; `Exit` and `Crash` end the target, with and without the flush
of stdio (`interfaces/failureinjection.py` kills it after 30 s, an `assert` or the target's
own crash ends it likewise). `Replay`, `ReplayInit`, `ReplayPoint`, `ReplayEnd` are a
second process with `FI_MODE=IMG_REP`. `rand()` is the set of values that `save_img` can
get (`RandomSave`). An entry beyond the end of `failure_list` is any value.

Abstractions: an image is its id; several threads of the target, whose updates of the map
are not synchronized, are left out; in the replaying process the map is not read, so its
updates are left out; the file is written in whole lines.

`DedupStore` has the result of this component as a choice: any subset of a testcase's
crash sites exists. `ReplayedByPosition` says what a replay reproduces: at a point the entry
at the position of its number.

## 3. Runs

| Run | Instance | What it shows |
|---|---|---|
| `stage2` | 3 testcases, 2 crash sites, 2 cores, failure injection, collections that fail, 1 restart; symmetry | all safety properties of `Stage2`, and that it implements `SlotPool` and `JobSchedule` |
| `stage2_live` | 3 testcases of which one is not selected, 1 crash site, 1 slot each; fair | `EventuallyCollected` (crash sites too), `NoStarvation`, `Completes` |
| `parallel` | 4 children, crash sites of 3 of them, two pools of 2 cores, FAILURE_EXIT; fair | `ScanCounts`, `FailuresHidden`, `PoolsTogether`, `BatchEnds`, and that it implements `SlotPool` |
| `dedup` | 2 + 2 testcases, 2 crash sites, named by their origins, maps that repeat within and across stages; fair | safety of the stores, `ParentImages`, `FoundKept`, `AllCollected`, and that they implement `TestcaseStore` and `JobSchedule` |
| `campaign` | 2 instances, the clock from 2 to 5, an interval of 1; fair | `StagesInOrder`, `StageTwoReached`, and what the statistics children record: `SamplesSpaced`, `EventsOnce`, `NeverCorrupt` |
| `finj` | map of 16 cells or 4 registers, cap 2, 3 accesses, 4 failure points, 5 settings | safety of the map, the images and the list, what a replay makes of it, and that it implements `PMCoverage` |
| `stage2_iteration`, `stage2_terminate`, `parallel_failure`, `dedup_pm`, `campaign_child`, `finj_replay` | as small as shows it | a statement of a comment, docstring or option text that the code does not keep (section 5) |

Bounds, and why they are enough. *Jobs.* The hazards of the scheduler need a job that runs, one
that has expired and is visited later, and one that waits for a slot: three testcases for one
slot. Crash sites differ in `cs_check` and in the image directory; two of them make the check
of one overlap with the life of the other. *Cores = 2* gives one slot per kind; Cores = 1 is
the exceptional rounding, where `CoresRespected` would be false (section 5): neither the run
nor the theorem says anything of it. *MaxBoots = 1*: a second restart finds nothing that the
first did not (leftover directories, no known processes). *Parallel*: with more jobs than `2 *
Cores - 1` the list is filled, emptied and filled again; crash sites of three of four children,
so that one call of `prl_gen_cs` is left out and its pool is full while `prl_ct` is, too.
*Campaign*: two instances, so that a child of the first meets the directories and the file of
the second; the clock starts above the interval, as the time 0, that an empty file stands for,
is long past. A child that begins at once sleeps a second, writes a line at 3, has a round at 4
that records nothing, as no more than the interval has passed, and writes a second line at 5:
so `SamplesSpaced` has two lines to compare, of a child that is alone. *DedupStore*: two
testcases of each stage are the smallest family in which duplicates exist within a stage,
across stages, and in which minimization by one job happens while another runs; one testcase
has no PM map, one pair shares only the execution map. A job that fails to collect one
testcase, noticed or unseen, while the other job's collection has succeeded or is still to
come, needs no more. *FailureInjection*: three accesses saturate a cell of cap 2 and are enough
for a read after a write and a write after a read; ids 0 to 3 are never selected, always, at
random, and beyond `MaxDumpId`; the array is shorter than the ids, so that its end is passed.
`Rand` is one number that is taken modulo differently for the three kinds of access, so that it
stands for four locations. What does not depend on the size at all is proved (section 4).

Symmetry is used in `stage2` only: testcases, and crash sites, are interchangeable model
values there, and no liveness is checked.

Fairness. `Stage2` assumes that the main process keeps taking steps and that started
timers expire; the main loop is `while True` with `sleep(2)` and timers are wall-clock. It
assumes nothing of AFL, stage 1 or the operator. `Parallel` assumes that workers end: what
they wait for are subprocesses with a timeout of 30 s (`interfaces/afl.py:147`,
`interfaces/failureinjection.py:78`, `helper/target.py:97`). `DedupStore` assumes only that
the main process continues; AFL need not find or finish anything. Its fairness is therefore
on the steps of the main process alone, which leave the queue as it is. `Campaign` assumes that a
main process that was started goes on and that its timer expires; of the operator, of the
statistics children and of the clock it assumes nothing, except in `campaign_child`, where
also the children and the clock go on, so that a child that could end would.

Deadlock is checked for `Stage2` and `Parallel`. In `DedupStore` the program really stops when
it has ended and AFL has nothing more to write, and in `FailureInjection` when the process has
ended, so the check is off there. In `Campaign`, too: when the clock has come to its bound and
no main process runs, nothing need happen.

## 4. Proofs

All theorems hold for any finite sets and any positive number of cores, under the one named
assumption of each module (`FailureInjection` has three, see below). `Reachable`,
`TransientBound`, ... are the same formulas that the runs check. Some theorems are about
properties that no run lists any more, because a refinement that it checks implies them:
`StartedOnce` and `CompletedCollected` (by `ScheduleSpec`, `AbsSpec` and `Reachable`),
`AtMostCores` and `Barrier` (by `AbsSpec` and `PoolsTogether`), `Lifecycle` (by `AbsSpec`).

**Stage2.** The question is why a counter that is read once per loop and never decreased
still bounds the slots. The inductive invariant is
`TypeOK /\ FilesAgree /\ SlotAccounting`. `SlotAccounting` says that during a loop
`run_count` bounds the number of jobs that *hold* a slot: the running ones among those not
visited yet, and the ones with a pid file among those visited. A visit can only remove a
job from this set or, when it starts one, add one and increase `run_count`; a timer that
expires removes one. When the loop has visited everything, "held" is "has a pid file", so
between passes there are at most as many fuzzers as slots (`CoresAreRespected`, which
needs `FInj => Cores >= 2`: with one core and failure injection it is false, see
section 5). Jobs that expired and are not visited yet are outside of the count, but
there are at most `slots` of them, which gives `TransientlyBounded`. `Life`, a second
invariant over `afl`, `results` and timers, gives `AlwaysReachable`, `CompletionCollects`,
`JobsStartOnce` and the refinement `ImplementsPool`. `RunImagesAlwaysCleaned` is about
the directories that jobs run in, and needs only that a job whose timer is new has no pid
file. Of the other directories, which collections leave behind (section 5), it says no more than
the code keeps: there are none without failure injection, and none before the first
collection. `ImplementsSchedule` needs of `Life` that a job that
was started has a pid file or is collected: `completed()` asks timers only, and it is
`kill_all()`, not `completed()`, that makes every testcase collected when the stage is closed.

What the liveness runs rest on is proved as far as it is safety. `NeverStuckHolds`: a loop
can skip, start, collect or give up every job it has still to visit, whatever it finds.
`PassesEndHolds`: the steps of the main process within a pass lower `Rank`, which counts the
jobs to visit, the checks of crash sites and the loops to come, and no expiring timer, AFL
exit or restart raises it. `PassesAreShort` bounds it by three steps per job. So a pass
ends in a bounded number of its own steps; that the main process takes them is fairness, and
stays with TLC.

**Parallel.** `ScanCounts` is almost inductive: the processes counted, found dead and not
looked at yet are together the list. With `Listed` (every job that has run and is no longer
in the list succeeded, under FAILURE_EXIT) it gives `NeverMoreThanCores`, the barrier, the
bound on hidden failures, and `ImplementsPool`.

**Collection.** The lemmas of `Parallel_proofs` are used twice, for `prl_ct` and, through `GenP
== INSTANCE Parallel_proofs WITH ...`, for `prl_gen_cs`, whose constants satisfy the assumption
of a pool (`GenConstants`). Each step of a collection is for each pool a step of its own, none,
or the end by `abort()` in the other (`CtSees`, `GenSees`). `InTurn` adds how the main process
goes from one pool to the other. From there `CollectionIsPool`, `PoolsKeepTogether` and
`CollectionImplementsPool`.

**DedupStore.** The invariant is a conjunction of four facts about files: in the global store
every testcase is absent, complete or dropped with its image (`GlobalFiles`); the stages'
directories have no map without testcase and no crash site without hash (`StageFiles`; a
missing hash is met by the same termination, which then ends the program, `why = "hash"`);
local testcases and their images are in the global store (`LocalFiles`); what holds in each
phase of the loop (`Phases`). All changes of the global store are instances of two lemmas: it
grows by complete new testcases (`GrowsKeeps`) or testcases are replaced by placeholders
(`ShrinksKeeps`). From there: `DroppedStaysDropped`, `JobsFindImages`, `OnlyKnownEnds`. The
last one allows the ends that a failing worker, target or afl-cmin brings about (`"worker"`,
`"finj"`, `"cmin"`) and says what they cannot bring about later: the checks before global
minimization, in `update_local()` and at the head of a collection never fail, and the two that
can, for an image and for a hash, fail only where a worker stopped short: for an image at the
end of the iteration only. `GlobalMinimizationKeepsPM` needs a further invariant, that as long
as stage 2 is disabled no map is lost from one minimization to the next (`MapsKept`).

`ImplementsStore` is `AbsSpec`: the global store as a whole grows by new testcases, and what it
drops at once repeats the PM map of one that is not dropped with it (`Flows` says between
which directories files can go, `LocalMinimum` and `GlobalMinimum` what a minimization
drops). In stage 2 the one that is kept need not be in the global store: it may be on its
way, or be a copy in the local store of one that was dropped before. `DroppedStaysLocal`
says when that is so, always, and with it how far the finding `dedup_pm` reaches: every
testcase that the global store has dropped goes on competing in the local one.
`FoundAlwaysKept` answers the question whether the two filters of a termination, DedupEngine
by execution map and pmfuzz-cmin by PM map, can lose a testcase between them: not for good,
because `collect_results()` of the completed stage copies again whatever is missing from the
stage's directory (`FoundInv`). It excepts the testcases in `short`, whose last worker has
failed without that the pool noticed it. `ImplementsSchedule` is the counterpart of the theorem of
that name about `Stage2`; it needs that the checks of a termination never fail (`Phases`).

**Lineage.** `NameHandler` has no recursion: the parent of a name is a prefix and its lineage
a set of positions, so that the lemmas on names that are longer by one id (`ParentOfLonger`,
`AncestorsOfLonger`, `LineageOfLonger`) say what a name made by the code is taken apart to.
`ChildOfItsJob`, `CrashSiteOfItsJob` and `SelectionTakesJobs` are about names alone;
`ParentImagesByName` adds that the job of a testcase that is kept has its image in the
global store (`FromJobs`, with the invariant of `DedupStore_proofs`), and that a testcase and a
crash site never share a name.

**Campaign.** `TimesPast` (no time that a child or the file holds is later than the clock)
gives `NeverCorruptHolds`, for any number of children that write the same file. `StageInv`
says for each place of the main process which directories exist; it gives
`StagesInOrderHolds`, which is therefore also the reason why the question whether to resume
is never asked. `SamplesSpacedHolds` and `EventsOnceHolds` are about a child that is alone
with the files: `Own` says what such a child may conclude from its local variables about
the last line and the stage it has recorded.

**FailureInjection.** Why is it enough to compare with the map of the *last* image? The
inductive invariant `Chain` orders maps cell by cell: every map that was tried, with an image
made of it or not, is below the last one, and the last one below the present. It holds because
an access never counts down (`BumpCounts`), for counters that saturate and for registers. The
order is antisymmetric because a content is determined by its count (`LevelInjective`, which
needs `OneHot`), so a map that differs from the last is above all that were tried: `NewMap`.
From there `NothingMissed` (the map at every selected point has an image, exactly one, or is
one of those whose only attempt failed; the two kinds are disjoint), `ImplementsCoverage`, and,
with the ids in ascending order, `ListIsComplete`. `Places` compares an id with its position in
the list: it is never before it, and, as the first point is never selected at random, always
behind it. `ListAlwaysFits` follows, that the array of 10000 entries never cuts a list off
unless IMG_CREAT_FINJ asks for every point (its hypotheses, the limits of the selection are not
above that size, are what `libpmfuzz.c:55-57` and `336` say); and with `ReplayInv` also
`ReplaysByPosition`, the extent of the finding `finj_replay`: inside the array a point is
reproduced only if the list has that many entries, by an entry not cut to 0, and with points
selected at random by one that is meant for a later point. `ReadsAndWritesSeparate` and the
types rest on `XorAssumption`: `BitXor` is a constant operator, and assumed of it is what XOR
does to numbers below and above a power of two (`MC_FailureInjection` gives it the real one,
and TLC evaluates the assumption). The other assumptions are the ranges of the sizes.

Only model-checked: the liveness properties (`EventuallyCollected`, `NoStarvation`,
`Completes`, `BatchEnds`, `AllCollected`, `StageTwoReached`), which need fairness and are out
of the prover's reach. Every invariant, action property and refinement of the passing runs is
also a theorem.

## 5. What the code does not keep

Each has a run that ends in a counterexample, and an entry under "findings".

* `stage2_iteration`: the transition "Stage 2 -> Dedup -> Stage 2 (new iteration)"
  (`core/pmfuzz.py:9`) never happens, the deduplication in between always aborts. This is
  why `Stage2` and `DedupStore` have a single iteration.
* `stage2_terminate`: `terminate()` leaves the AFL processes of crash sites running.
* `parallel_failure`: FAILURE_EXIT does not see the failures of the last workers.
* `dedup_pm`: local minimization competes with stale copies in the local store and can lose
  a PM map altogether. It does not happen without stage 2 (`GlobalKeepsPM`).
* `campaign_child`: `abort()` does not end the statistics child: it is sent a signal whose
  handler does nothing for a child. It survives every instance that aborts.
* `finj_replay`: the list of failure points is stored by position and read by id, so that
  images are made for points that are not in it.

Read while modelling, without a run:

* `--cores-stage2 1` (`pmfuzz-fuzz.py:289`) with failure injection runs two AFL processes,
  as each half of the cores is at least one (`stages/stage2.py:645-650`).
* Stage 1 crash sites are not minimized before they reach the global store, although
  `core/pmfuzz.py:211` says so: the call below passes `fdedup = False`.
* `configs/base.yml:85` sets the local `minimize_tc` to Yes, with which
  `_deduplicate_lcl()` aborts (`stages/dedup.py:669`); the run configurations set it to No.
* `tc_gen_crash_sites()` of stage 2 passes `verbose` in the place of `create` to
  `run_failure_inj()` (`stages/stage2.py:842`).
* `iter_cnt()` and `get_testcase_parent()` of a stage 2 crash site (`P.id=N.id=F`) do not
  count, and stop at, the child that ran: it is not a testcase of that name (`P,id=N`).
  `CrashSiteOfItsJob` states what they do return.
* `interfaces/lcov.py:148-153` and `construct_cmin_sh_files()` look for the `pm_pool` of a
  parent only, and would abort for the children of crash sites.
* `tc_gen_crash_sites()` of stage 2 makes a directory `pmfuzz-cs-gen-st2-*` under `img_loc`
  for each child it generates crash sites of, decompresses the parent's image into it, and
  removes only the copy with the pid in its name (`stages/stage2.py:814-858`).
  `clean_up_uncmpr_lcl()` (`stages/stage2.py:142-158`) cleans `img_dir`, which is another
  directory. `img_loc` is a PM device of fixed size; `cs_gen` and the second half of
  `RunImagesCleaned` say when this happens.
* When the copy of a pool fails, `libpmfuzz.c:411-424` has remembered the map already, prints
  the id all the same, and makes no second attempt while the map stays as it is (`failed`,
  `Covered`, `ListComplete`).
* `libpmfuzz.c:255` says that the first failure injection always results in an image, lines
  330-332 exclude it unless GEN_ALL_CS or IMG_CREAT_FINJ is set; and `HalvesSeparate` is
  stated for ENABLE_PM_PATH only, because without it the index is taken modulo the number of
  registers, which mixes the halves.

## 6. Not modelled, and the plan

Not modelled: configuration parsing, plots, coverage, printing and bug reports, the
annotation pass, scripts (no state, or nothing the rest reads); the vendored programs, except
for the order in which AFL++ writes a queue entry. Command lines, compression and hashes are
data. `minimize_testcases()`, `construct_cmin_sh_files()` and the second iteration of stage 2
are not reachable. The start of the stage 1 AFL instances (master and secondaries, with a
dry run) is a sequence of commands before anything runs beside them. `pmfuzz_term()`, which closes
the failure list (`src/include/libpmfuzz.c:505-509`), is offered to targets, nothing in the
repository calls it, and what a failure point behind it would do is not modelled; that the
list is flushed at an exit is part of `Exit`. A collection is one step of `DedupStore`, so that
a testcase of stage 2 with a PM map and without its map, which a worker leaves if AFL
writes both between its two checks, is not represented. What remains of
`name_handler.py` are predicates by regular expression and path helpers.

What could come next:

1. The scheduler with the pools of its collections: the AFL processes that go on while a
   termination uses the same cores again. Nothing in the code promises a bound for that.
2. `Stage2` and `DedupStore` as one module, with timers and files together: they are
   connected by `JobSchedule` only, which both implement.
3. Two PMFuzz instances at the same time in one output directory, if that is ever to be
   supported.
