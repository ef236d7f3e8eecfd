----------------------------- MODULE DedupStore -----------------------------
(***************************************************************************)
(* The testcase stores of PMFuzz: src/src/pmfuzz/stages/dedup.py with the  *)
(* collection done by stage1.py and stage2.py, in the order in which the   *)
(* main loop of core/pmfuzz.py calls them.                                 *)
(*                                                                         *)
(* A testcase is a file, its execution map, its PM map (only when it found *)
(* new PM behaviour) and a PM image. AFL writes the first three, one after *)
(* the other, into its queue while the main process reads that queue. The  *)
(* main process copies them to the directory of the stage, generates the   *)
(* image, and copies all four to the global store; stage 2 runs what is in *)
(* the global store and minimization removes what repeats a PM map.        *)
(*                                                                         *)
(* Which job runs when, and the AFL processes, are the subject of Stage2:  *)
(* here a job of the local store is started and terminated at any point of *)
(* a pass.                                                                 *)
(***************************************************************************)
EXTENDS FiniteSets

CONSTANTS
  TC1,          \* testcases AFL finds in stage 1
  TC2,          \* testcases AFL finds in stage 2, children of a job
  CS,           \* crash sites failure injection generates
  Origin,       \* of a TC2: the job that finds it; of a CS: its testcase
  Exec,         \* per testcase: contents of its execution map
  PM,           \* per testcase: contents of its PM map, or NoMap
  Image,        \* per crash site: contents of its image (its sha256)
  NoMap

TC  == TC1 \cup TC2
CS1 == {c \in CS : Origin[c] \in TC1}       \* generated by stage 1
CS2 == CS \ CS1                             \* generated by stage 2
Job == TC1 \cup CS1

ASSUME DedupStoreAssumption ==
  /\ TC1 \cap TC2 = {} /\ TC \cap CS = {}
  /\ \A c \in CS : Origin[c] \in TC
  /\ \A t \in TC2 : Origin[t] \in Job

VARIABLES
  disable_stage2, \* --disable-stage2
  queue,        \* per testcase: the last file of it AFL has written
  dir,          \* files in the testcases directory of the testcase's stage
  img,          \* testcases and crash sites in the image directory of theirs
  hash_db,      \* crash sites of stage 2 with their hash in
                \* @crashsitehashes.db
  gbl,          \* files of testcases in the global store, outdir/@dedup
  gbl_cs,       \* crash sites in the global store
  loc,          \* files of testcases in the local store of stage 2
  loc_cs,       \* crash sites in the local store of stage 2
  created,      \* outdir/stage=2,iter=1 exists
  job,          \* per job: "new", "running" or "done"
  pc,           \* where the main process is
  todo,         \* stage 1 testcases collect_results() has listed
  why,          \* what ended the program
  short         \* stage 2 testcases of which the worker that collected them
                \* last has stopped short (history of the model)

afl    == <<queue>>
stages == <<dir, img, hash_db, short>>
global == <<gbl, gbl_cs>>
local  == <<loc, loc_cs, created, job>>
ctl    == <<pc, todo, why>>
vars   == <<disable_stage2, queue, dir, img, hash_db, gbl, gbl_cs,
            loc, loc_cs, created, job, pc, todo, why, short>>

Meta  == {"tc", "map", "pm"}            \* what AFL writes, in this order
File  == Meta \cup {"img", "del"}       \* "del": the .deleted placeholder
Level == Meta \cup {"none"}
PC    == {"loop", "collect", "update", "minimize", "stage2", "pass",
          "kill_all", "finish", "ended"}
Why   == {"", "map", "gen_img", "finj", "worker", "cmin", "image", "gbl_map",
          "loc_image", "loc_map", "sanity", "hash", "dedup"}

\* The testcases of a store, and those it has a given file of.
With(store, f) == {t \in TC : <<t, f>> \in store}

\* The files of t in the queue of AFL.
Queued(t) ==
  {t} \X CASE queue[t] = "none" -> {}
           [] queue[t] = "tc"   -> {"tc"}
           [] queue[t] = "map"  -> {"tc", "map"}
           [] queue[t] = "pm"   -> Meta

CrashSites(S) == {c \in CS : Origin[c] \in S}

\* A wrong variant: all of a group of duplicates are dropped.
OnePerNone(S, f) ==
  {{s \in S : \A l \in S : f[l] = f[s] => l = s}}

\* The sets that keep exactly one member of S per value of f.
OnePer(S, f) ==
  {K \in SUBSET S : \A s \in S : \E k \in K :
     f[k] = f[s] /\ \A l \in K : f[l] = f[s] => l = k}
-----------------------------------------------------------------------------
Init ==
  /\ disable_stage2 \in BOOLEAN
  /\ queue = [t \in TC |-> "none"]
  /\ dir = {} /\ img = {} /\ hash_db = {}
  /\ gbl = {} /\ gbl_cs = {}
  /\ loc = {} /\ loc_cs = {} /\ created = FALSE
  /\ job = [j \in Job |-> "new"]
  /\ pc = "loop" /\ todo = {} /\ why = "" /\ short = {}

End(reason) ==
  /\ pc' = "ended"
  /\ why' = reason
  /\ todo' = {}

(* AFL adds a testcase: the file, then the map, then the PM map. An AFL of *)
(* stage 2 that was sent SIGTERM only finishes what it has begun. What AFL *)
(* writes when the program has ended is read by nobody.                    *)
AflWrites(t) ==
  /\ pc # "ended"
  /\ t \in TC2 => \/ job[Origin[t]] = "running"
                  \/ job[Origin[t]] = "done" /\ queue[t] # "none"
  /\ \/ queue[t] = "none" /\ queue' = [queue EXCEPT ![t] = "tc"]
     \/ queue[t] = "tc"   /\ queue' = [queue EXCEPT ![t] = "map"]
     \/ queue[t] = "map"  /\ PM[t] # NoMap
                          /\ queue' = [queue EXCEPT ![t] = "pm"]
  /\ UNCHANGED <<disable_stage2, stages, global, local, ctl>>
-----------------------------------------------------------------------------
\* A wrong variant: wait for the PM map, which not every testcase has.
ListQueueFull ==
  /\ pc = "loop"
  /\ pc' = "collect"
  /\ todo' = {t \in TC1 : queue[t] = "pm" /\ <<t, "tc">> \notin dir}
  /\ UNCHANGED <<disable_stage2, afl, stages, global, local, why>>

(* Stage1.collect_results(): list the queue entries not in tc_dir.         *)
ListQueue ==
  /\ pc = "loop"
  /\ pc' = "collect"
  /\ todo' = {t \in TC1 : queue[t] # "none" /\ <<t, "tc">> \notin dir}
  /\ UNCHANGED <<disable_stage2, afl, stages, global, local, why>>

\* Wrong variants: a missing map is passed over, as stage 2 does, ...
CollectTCLenient(t) ==
  /\ pc = "collect"
  /\ t \in todo
  /\ dir' = dir \cup Queued(t)
  /\ img' = img \cup {t}
  /\ todo' = todo \ {t}
  /\ UNCHANGED <<disable_stage2, afl, hash_db, short, global, local, pc,
                 why>>

\* ... or reported by a worker whose exit the main process does not see.
CollectTCUnseen(t) ==
  /\ pc = "collect"
  /\ t \in todo
  /\ dir' = dir \cup Queued(t)
  /\ img' = img \cup {t}
  /\ todo' = todo \ {t}
  /\ why' = IF queue[t] = "tc" THEN "map" ELSE why
  /\ UNCHANGED <<disable_stage2, afl, hash_db, short, global, local, pc>>

(* Stage1.collect_tc(): the testcase, its map, which must be there, its PM *)
(* map if it is, the image, and now and then its crash sites: those the    *)
(* injection has made when it ended, or was stopped after its timeout,     *)
(* which counts as success; any other exit of the target is the end. A     *)
(* worker per crash site takes the hash, which nothing in stage 1 looks up *)
(* again, and one compresses it: a failure of theirs ends the program if   *)
(* the pool notices it, and passes if not.                                 *)
CollectTC(t) ==
  /\ pc = "collect"
  /\ t \in todo
  /\ dir' = dir \cup Queued(t)
  /\ \/ /\ queue[t] = "tc"
        /\ End("map")
        /\ UNCHANGED img
     \/ /\ queue[t] # "tc"
        /\ End("gen_img")
        /\ UNCHANGED img
     \/ /\ queue[t] # "tc"
        /\ End("finj")
        /\ img' = img \cup {t}
     \/ /\ queue[t] # "tc"
        /\ \E made \in SUBSET CrashSites({t}) : img' = img \cup {t} \cup made
        /\ \/ /\ todo' = todo \ {t}
              /\ UNCHANGED <<pc, why>>
           \/ /\ CrashSites({t}) # {}
              /\ End("worker")
  /\ UNCHANGED <<disable_stage2, afl, hash_db, short, global, local>>

Collected ==
  /\ pc = "collect"
  /\ todo = {}
  /\ pc' = "update"
  /\ UNCHANGED <<disable_stage2, afl, stages, global, local, todo, why>>

\* A wrong variant: the placeholder is not looked for.
UpdateGlobalAgain(S, C, next) ==
  LET tcs == S \cap With(dir, "tc")
      new == tcs \ With(gbl, "tc") IN
  IF tcs \subseteq img
  THEN /\ gbl' = gbl \cup {f \in dir : f[1] \in new} \cup (new \X {"img"})
       /\ gbl_cs' = gbl_cs \cup (C \cap img)
       /\ next
  ELSE /\ End("image")
       /\ UNCHANGED global

(* update_global() for the testcases S and crash sites C of one stage: all *)
(* of a testcase unless the global store has it or its placeholder.        *)
UpdateGlobal(S, C, next) ==
  LET tcs == S \cap With(dir, "tc")
      new == tcs \ (With(gbl, "tc") \cup With(gbl, "del")) IN
  IF tcs \subseteq img
  THEN /\ gbl' = gbl \cup {f \in dir : f[1] \in new} \cup (new \X {"img"})
       /\ gbl_cs' = gbl_cs \cup (C \cap img)
       /\ next
  ELSE /\ End("image")
       /\ UNCHANGED global

UpdateGlobal1 ==
  /\ pc = "update"
  /\ UpdateGlobal(TC1, CS1,
        /\ pc' = IF disable_stage2 THEN "minimize" ELSE "stage2"
        /\ UNCHANGED <<todo, why>>)
  /\ UNCHANGED <<disable_stage2, afl, stages, local>>

(* minimize_corpus_gbl(), only without stage 2. Of the testcases with one  *)
(* PM map the minimizer keeps the one the file system lists first; the     *)
(* others lose all but their image and get a placeholder. Every map must   *)
(* be there, and afl-cmin must succeed. (The update_global() that precedes *)
(* it finds nothing new.)                                                  *)
MinimizeGbl ==
  /\ pc = "minimize"
  /\ LET tcs == With(gbl, "tc")
         ins == tcs \cap With(gbl, "pm") IN
     IF tcs \subseteq With(gbl, "map")
     THEN \/ /\ \E keep \in OnePer(ins, PM) :
                  gbl' = (gbl \ ((ins \ keep) \X Meta))
                           \cup ((ins \ keep) \X {"del"})
             /\ pc' = "loop"
             /\ UNCHANGED <<todo, why>>
          \/ /\ End("cmin")
             /\ UNCHANGED gbl
     ELSE /\ End("gbl_map")
          /\ UNCHANGED gbl
  /\ UNCHANGED <<disable_stage2, afl, stages, gbl_cs, local>>
-----------------------------------------------------------------------------
(* Stage 2 is not started before its timer has expired.                    *)
TooEarly ==
  /\ pc = "stage2"
  /\ ~created
  /\ pc' = "loop"
  /\ UNCHANGED <<disable_stage2, afl, stages, global, local, todo, why>>

(* update_local(), at the head of every pass: stage 1 testcases and all    *)
(* crash sites of the global store. Image and map must be there.           *)
UpdateLocal ==
  /\ pc = "stage2"
  /\ created' = TRUE
  /\ LET new == (TC1 \cap With(gbl, "tc")) \ With(loc, "tc") IN
     IF new \subseteq With(gbl, "img") \cap With(gbl, "map")
     THEN /\ loc' = loc \cup {f \in gbl : f[1] \in new}
          /\ loc_cs' = loc_cs \cup gbl_cs
          /\ pc' = "pass"
          /\ UNCHANGED <<todo, why>>
     ELSE /\ End(IF new \subseteq With(gbl, "img") THEN "loc_map"
                                                  ELSE "loc_image")
          /\ UNCHANGED <<loc, loc_cs>>
  /\ UNCHANGED <<disable_stage2, afl, stages, global, job>>

Start(j) ==
  /\ pc = "pass"
  /\ j \in With(loc, "tc") \cup loc_cs
  /\ job[j] = "new"
  /\ job' = [job EXCEPT ![j] = "running"]
  /\ UNCHANGED <<disable_stage2, afl, stages, global, loc, loc_cs, created,
                 ctl>>

PassEnds ==
  /\ pc = "pass"
  /\ pc' = "loop"
  /\ UNCHANGED <<disable_stage2, afl, stages, global, local, todo, why>>

\* A wrong variant: the testcases that were not started are not looked at.
CompletesEarly ==
  /\ pc = "stage2"
  /\ created
  /\ pc' = "kill_all"
  /\ UNCHANGED <<disable_stage2, afl, stages, global, local, todo, why>>

(* The stage has completed: every testcase was started and its time is up. *)
Completes ==
  /\ pc = "stage2"
  /\ created
  /\ \A t \in With(loc, "tc") : job[t] # "new"
  /\ pc' = "kill_all"
  /\ UNCHANGED <<disable_stage2, afl, stages, global, local, todo, why>>
-----------------------------------------------------------------------------
Children(j)  == {t \in TC2 : Origin[t] = j /\ queue[t] # "none"}
HasImage(j)  == <<j, "img">> \in gbl \/ j \in gbl_cs

(* A worker copies what AFL has written of the testcase, one file after    *)
(* the other, and then makes the image. It may fail at any point.          *)
Progress == {{}, {"tc"}, {"tc", "map"}, Meta, Meta \cup {"img"}}

Copied(S, got) == UNION {{f \in Queued(t) : f[2] \in got[t]} : t \in S}
Imaged(S, got) == {t \in S : "img" \in got[t]}

\* The history of the collection of S.
NoteShort(S, got) ==
  short' = (short \ S) \cup (S \ Imaged(S, got))

\* DedupEngine.run() on the maps of the stage 2 directory d.
EngineLeaves(d) ==
  LET ins == TC2 \cap With(d, "map") IN
  {d \ ((ins \ keep) \X Meta) : keep \in OnePer(ins, Exec)}

\* A wrong variant: the image goes with the testcase.
MinimizeLclImages(d) ==
  LET ins == (TC2 \cap With(d, "pm")) \cup With(loc, "pm") IN
  \E keep \in OnePer(ins, PM) :
    LET drop == ins \ keep
        had  == {t \in drop : \E f \in Meta : <<t, f>> \in gbl} IN
    /\ dir' = d \ ((drop \cap TC2) \X Meta)
    /\ gbl' = (gbl \ (drop \X File)) \cup (had \X {"del"})

(* minimize_corpus_lcl() with the stage 2 directory d: what it drops goes  *)
(* from there and from the global store, not from the local store; the     *)
(* placeholder is written only if the global store had a file of it.       *)
MinimizeLcl(d) ==
  LET ins == (TC2 \cap With(d, "pm")) \cup With(loc, "pm") IN
  \E keep \in OnePer(ins, PM) :
    LET drop == ins \ keep
        had  == {t \in drop : \E f \in Meta : <<t, f>> \in gbl} IN
    /\ dir' = d \ ((drop \cap TC2) \X Meta)
    /\ gbl' = (gbl \ (drop \X Meta)) \cup (had \X {"del"})

(* The workers of _terminate_testcase() and _terminate_cs(): collect_tc()  *)
(* of every child, and tc_gen_crash_sites() of some, with the crash sites  *)
(* an injection has made before it ended, in time or not; a crash site is  *)
(* copied to the stage before its hash is written. A failure of a worker   *)
(* ends the program if the pool notices it, and passes if not. Then the    *)
(* hashes are looked up, one crash site per hash stays, and the corpus is  *)
(* minimized, unless afl-cmin fails.                                       *)
CollectChildren(j) ==
  \E got \in [Children(j) -> Progress],
     new \in SUBSET CrashSites(Children(j)) :
    LET sites == (img \cup new) \cap CS2
        there == img \cup Imaged(Children(j), got)
        all   == dir \cup Copied(Children(j), got) IN
    /\ NoteShort(Children(j), got)
    /\ \/ /\ Children(j) # {}
          /\ End("worker")
          /\ dir' = all
          /\ img' = there \cup new
          /\ UNCHANGED <<hash_db, gbl>>
       \/ \E hashed \in SUBSET new,
             d \in IF j \in CS THEN EngineLeaves(all) ELSE {all} :
            /\ hash_db' = hash_db \cup hashed
            /\ IF sites \subseteq hash_db \cup hashed
               THEN /\ \E keep \in OnePer(sites, Image) :
                         img' = (there \ sites) \cup keep
                    /\ \/ MinimizeLcl(d) /\ UNCHANGED ctl
                       \/ End("cmin") /\ dir' = d /\ UNCHANGED gbl
               ELSE /\ End("hash")
                    /\ img' = there \cup new
                    /\ dir' = d
                    /\ UNCHANGED gbl

(* _terminate_testcase(j) or _terminate_cs(j) of a job that is running: by *)
(* the pass, or by kill_all() for the testcases. The image the job started *)
(* from must still be in the global store when it has children.            *)
Terminate(j) ==
  /\ \/ pc = "pass"
     \/ pc = "kill_all" /\ j \in TC1
  /\ job[j] = "running"
  /\ job' = [job EXCEPT ![j] = "done"]
  /\ IF Children(j) = {} \/ HasImage(j)
     THEN CollectChildren(j)
     ELSE End("sanity") /\ UNCHANGED <<stages, gbl>>
  /\ UNCHANGED <<disable_stage2, afl, gbl_cs, loc, loc_cs, created>>

\* The pool of Stage2.collect_results() for the testcases new.
CollectNew(new) ==
  \E got \in [new -> Progress] :
    /\ dir' = dir \cup Copied(new, got)
    /\ img' = img \cup Imaged(new, got)
    /\ NoteShort(new, got)
    /\ \/ pc' = "finish" /\ UNCHANGED <<todo, why>>
       \/ new # {} /\ End("worker")

\* A wrong variant: what was collected once is not collected again.
CollectAllOnce ==
  /\ pc = "kill_all"
  /\ \A t \in TC1 : job[t] # "running"
  /\ CollectNew({t \in TC2 : queue[t] # "none" /\ t \notin img})
  /\ UNCHANGED <<disable_stage2, afl, hash_db, global, local>>

(* Stage2.collect_results(): everything in the queues that is not in the   *)
(* testcases directory, which includes what minimization removed from it.  *)
CollectAll ==
  /\ pc = "kill_all"
  /\ \A t \in TC1 : job[t] # "running"
  /\ CollectNew({t \in TC2 : queue[t] # "none" /\ <<t, "tc">> \notin dir})
  /\ UNCHANGED <<disable_stage2, afl, hash_db, global, local>>

(* run_dedup() of the completed stage: update_global(), then an abort      *)
(* whatever the configuration.                                             *)
FinalDedup ==
  /\ pc = "finish"
  /\ UpdateGlobal(TC2, CS2, End("dedup"))
  /\ UNCHANGED <<disable_stage2, afl, stages, local>>
-----------------------------------------------------------------------------
Main ==
  \/ ListQueue \/ Collected \/ UpdateGlobal1 \/ MinimizeGbl
  \/ TooEarly \/ UpdateLocal \/ PassEnds \/ Completes
  \/ CollectAll \/ FinalDedup
  \/ \E t \in TC1 : CollectTC(t)
  \/ \E j \in Job : Start(j) \/ Terminate(j)

Next == Main \/ \E t \in TC : AflWrites(t)

Spec == Init /\ [][Next]_vars

\* The main process keeps running; AFL need not find anything.
FairSpec == Spec /\ WF_vars(UNCHANGED afl /\ Main)
-----------------------------------------------------------------------------
(* Every variable is in its range, todo is used only while collecting, and *)
(* the program has ended exactly when there is a reason: an abort() of the *)
(* main process is never survived (common.abort).                          *)
TypeOK ==
  /\ disable_stage2 \in BOOLEAN
  /\ queue \in [TC -> Level]
  /\ dir \subseteq TC \X Meta
  /\ img \subseteq TC \cup CS
  /\ hash_db \subseteq CS2
  /\ gbl \subseteq TC \X File
  /\ gbl_cs \subseteq CS
  /\ loc \subseteq TC1 \X File
  /\ loc_cs \subseteq CS1
  /\ created \in BOOLEAN
  /\ job \in [Job -> {"new", "running", "done"}]
  /\ pc \in PC
  /\ todo \subseteq TC1
  /\ why \in Why
  /\ short \subseteq TC2
  /\ todo # {} => pc = "collect"
  /\ (pc = "ended") <=> (why # "")

\* Where the global store has a testcase, and how that may change.
Status(t) ==
  CASE <<t, "tc">> \in gbl /\ <<t, "del">> \notin gbl -> "there"
    [] <<t, "tc">> \notin gbl /\ <<t, "del">> \in gbl -> "dropped"
    [] {t} \X File \cap gbl = {} -> "absent"
    [] OTHER -> "broken"

StatusStep(t) ==
  /\ <<Status(t), Status(t)'>> \in
       {<<"absent", "absent">>, <<"absent", "there">>, <<"there", "there">>,
        <<"there", "dropped">>, <<"dropped", "dropped">>}
  /\ <<t, "img">> \in gbl => <<t, "img">> \in gbl'

(* A testcase of the global store is there, then dropped, and nothing else *)
(* happens to it: the placeholder keeps what minimization dropped from     *)
(* being copied again by update_global() ("to avoid stage1 from            *)
(* repopulating that testcase", dedup.py:425), though it stays in the      *)
(* stage's directory, and its image is never removed.                      *)
Lifecycle == [][\A t \in TC : StatusStep(t)]_vars

(* Every job of the local store finds the image it runs from, and its      *)
(* children are collected with, in the global store: _run_testcase() and   *)
(* the sanity checks read it there, long after a minimization may have     *)
(* dropped the testcase itself.                                            *)
JobImages ==
  /\ \A t \in With(loc, "tc") : <<t, "img">> \in gbl
  /\ loc_cs \subseteq gbl_cs

(* The stores look, before they use a file, whether it is there, and abort *)
(* if not. Workers fail unseen and afl-cmin and targets fail, and yet:     *)
(* the checks for the maps and images of global minimization, of           *)
(* update_local() and of the collections never fail; a crash site of stage *)
(* 2 whose hash is missing is met by the termination that left it, before  *)
(* it gets into the global store; and an image is missing only in the end, *)
(* when the iteration is over, and only one whose worker has failed unseen.*)
EndsKnown ==
  /\ why \notin {"gbl_map", "loc_image", "loc_map", "sanity"}
  /\ why \notin {"hash", "worker"} => img \cap CS2 \subseteq hash_db
  /\ gbl_cs \cap CS2 \subseteq hash_db
  /\ why = "image" =>
       /\ With(dir, "tc") \ img \subseteq short
       /\ \A t \in With(loc, "tc") : job[t] = "done"

(* Minimization loses no PM map: of the testcases with one PM map that     *)
(* reached the global store, one with its map is still there, or is in the *)
(* directory of stage 2 on its way there.                                  *)
KeepsPM ==
  \A t \in With(gbl, "pm") \cup With(gbl, "del") :
    \E k \in TC : /\ PM[k] = PM[t]
                  /\ \/ {<<k, "tc">>, <<k, "pm">>} \subseteq gbl
                     \/ k \in TC2 /\ {<<k, "tc">>, <<k, "pm">>} \subseteq dir

(* KeepsPM of global minimization, which has stage 2 disabled: however     *)
(* often it runs, and whatever stage 1 adds in between.                    *)
GlobalKeepsPM == disable_stage2 => KeepsPM

(* DedupEngine and the minimization of stage 2 remove testcases without    *)
(* regard to each other, but nothing is lost by it: when the iteration has *)
(* come to its deduplication, every testcase that a job had found when it  *)
(* was terminated is in the global store, removed in between or not, save  *)
(* those whose last worker has failed unseen.                              *)
FoundKept ==
  why = "dedup" =>
    \A t \in TC2 \ short :
      job[Origin[t]] = "done" /\ queue[t] # "none" => Status(t) = "there"

(* The global store implements the abstract one. It keeps what happens to  *)
(* several testcases in relation: what is dropped repeats the map of one   *)
(* that is not, and without stage 2 that one is in the store.              *)
Abs == INSTANCE TestcaseStore WITH
         Testcase <- TC, Later <- TC2, Map <- PM, Plain <- NoMap,
         sole <- disable_stage2, stored <- With(gbl, "tc"),
         dropped <- With(gbl, "del"), images <- With(gbl, "img")

AbsSpec == Abs!Spec

\* What stage 1 has found that has no place in the global store yet.
Waiting ==
  {t \in TC1 : queue[t] # "none" /\ Status(t) \notin {"there", "dropped"}}

(* Every testcase stage 1 finds is collected and gets its place in the     *)
(* global store, or the program ends: what waits does so only until a      *)
(* moment when nothing does, be it found while the queue is listed.        *)
AllCollected == Waiting # {} ~> Waiting = {} \/ pc = "ended"

(* What the scheduler sees of the stores.                                  *)
JobsIn(state) == {j \in Job : job[j] = state}

StagePhase ==
  CASE pc = "pass"     -> "pass"
    [] pc = "kill_all" -> "closing"
    [] pc = "finish"   -> "closed"
    [] pc = "ended"    -> "ended"
    [] OTHER           -> "idle"

Schedule == INSTANCE JobSchedule WITH
  Testcase <- TC1, CrashSite <- CS1, store <- With(loc, "tc") \cup loc_cs,
  running <- JobsIn("running"), done <- JobsIn("done"), phase <- StagePhase

(* The stores ask for no other order of starts and terminations than the   *)
(* one the scheduler keeps to (ScheduleSpec of Stage2), whatever happens   *)
(* to the files in between.                                                *)
ScheduleSpec == Schedule!Spec
=============================================================================
