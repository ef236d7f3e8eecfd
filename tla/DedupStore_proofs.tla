-------------------------- MODULE DedupStore_proofs --------------------------
(***************************************************************************)
(* Proofs about DedupStore, for any testcases and crash sites: what the    *)
(* stores hold when, and so that a testcase dropped from the global store  *)
(* never comes back, that the images of all jobs stay, which errors cannot *)
(* happen, and that global minimization loses no PM map.                   *)
(***************************************************************************)
EXTENDS DedupStore, TLAPS

(* Files of the global store come together and go together.                *)
GlobalFiles ==
  \A t \in TC :
    /\ <<t, "del">> \in gbl => \A f \in Meta : <<t, f>> \notin gbl
    /\ \A f \in Meta : <<t, f>> \in gbl => <<t, "tc">> \in gbl
    /\ <<t, "tc">> \in gbl => <<t, "img">> \in gbl
    /\ <<t, "del">> \in gbl => <<t, "img">> \in gbl
    /\ <<t, "img">> \in gbl => <<t, "tc">> \in gbl \/ <<t, "del">> \in gbl
    /\ t \in TC1 /\ <<t, "tc">> \in gbl => <<t, "map">> \in gbl

(* While the program runs, what stage 1 has collected is whole, what stage *)
(* 2 has collected is but for what was cut short, each crash site of stage *)
(* 2 has a hash, and the global store holds nothing of stage 2.            *)
StageFiles ==
  /\ \A t \in TC : \A f \in Meta : <<t, f>> \in dir => <<t, "tc">> \in dir
  /\ why \notin {"hash", "worker"} => img \cap CS2 \subseteq hash_db
  /\ gbl_cs \cap CS2 \subseteq hash_db
  /\ \A t \in TC2 : <<t, "tc">> \in dir => t \in img \cup short
  /\ why # "map" => \A t \in TC1 : <<t, "tc">> \in dir => <<t, "map">> \in dir
  /\ why \notin {"map", "gen_img"} =>
       \A t \in TC1 : <<t, "tc">> \in dir => t \in img
  /\ pc # "ended" => /\ \A t \in TC2 : \A f \in File : <<t, f>> \notin gbl
                     /\ gbl_cs \subseteq CS1

(* The local store has what the global store had, and its images are there.*)
LocalFiles ==
  /\ \A t \in TC1 : \A f \in Meta : <<t, f>> \in loc => <<t, "tc">> \in loc
  /\ \A t \in TC1 : <<t, "tc">> \in loc => <<t, "img">> \in gbl
  /\ loc_cs \subseteq gbl_cs
  /\ \A j \in Job : job[j] # "new" => j \in With(loc, "tc") \cup loc_cs

(* Where the stage can be when it has completed, and that it does not exist*)
(* without stage 2.                                                        *)
Phases ==
  /\ disable_stage2 =>
       /\ ~created
       /\ pc \notin {"stage2", "pass", "kill_all", "finish"}
       /\ why \notin {"dedup", "image"}
  /\ pc \in {"pass", "kill_all", "finish"} => created
  /\ ~created => \A j \in Job : job[j] = "new"
  /\ pc = "kill_all" => \A t \in With(loc, "tc") : job[t] # "new"
  /\ pc = "finish" \/ why = "image" =>
       \A t \in With(loc, "tc") : job[t] = "done"
  /\ why \notin {"gbl_map", "loc_image", "loc_map", "sanity"}

IInv == TypeOK /\ GlobalFiles /\ StageFiles /\ LocalFiles /\ Phases
-----------------------------------------------------------------------------
(* What the minimizer keeps is part of what it was given, and has one of   *)
(* each kind.                                                              *)
LEMMA OnePerKeeps ==
  ASSUME NEW S, NEW f, NEW K \in OnePer(S, f)
  PROVE  /\ K \subseteq S
         /\ \A s \in S : \E k \in K : f[k] = f[s]
BY DEF OnePer

(* The files of a queue entry: the testcase is the first of them.          *)
LEMMA QueuedFiles ==
  ASSUME TypeOK, NEW t \in TC
  PROVE  /\ Queued(t) \subseteq {t} \X Meta
         /\ \A f \in Meta : <<t, f>> \in Queued(t) => <<t, "tc">> \in Queued(t)
         /\ queue[t] \notin {"none", "tc"} => <<t, "map">> \in Queued(t)
<1>1. queue[t] \in {"none", "tc", "map", "pm"}
  BY DEF TypeOK, Level, Meta
<1>2. CASE queue[t] = "none"
  BY <1>2 DEF Queued, Meta
<1>3. CASE queue[t] = "tc"
  BY <1>3 DEF Queued, Meta
<1>4. CASE queue[t] = "map"
  BY <1>4 DEF Queued, Meta
<1>5. CASE queue[t] = "pm"
  BY <1>5 DEF Queued, Meta
<1> QED BY <1>1, <1>2, <1>3, <1>4, <1>5

(* A worker that makes the image, or copies anything, has copied the       *)
(* testcase.                                                               *)
LEMMA ProgressFiles ==
  ASSUME NEW g \in Progress
  PROVE  g # {} => "tc" \in g
BY DEF Progress, Meta

(* The files of some queue entries, as far as the workers got.             *)
LEMMA CopiedFiles ==
  ASSUME TypeOK, NEW S \in SUBSET TC, NEW got \in [S -> Progress]
  PROVE  /\ Copied(S, got) \subseteq S \X Meta
         /\ \A t \in TC : \A f \in Meta :
              <<t, f>> \in Copied(S, got) =>
                <<t, "tc">> \in Copied(S, got) /\ <<t, f>> \in Queued(t)
         /\ Imaged(S, got) \subseteq S
<1>1. ASSUME NEW x \in Copied(S, got)
      PROVE  x \in S \X Meta
  <2>1. PICK t \in S : x \in Queued(t)
    BY <1>1 DEF Copied
  <2>2. x \in {t} \X Meta
    BY <2>1, QueuedFiles
  <2> QED BY <2>2
<1>2. ASSUME NEW t \in TC, NEW f \in Meta, <<t, f>> \in Copied(S, got)
      PROVE  <<t, "tc">> \in Copied(S, got) /\ <<t, f>> \in Queued(t)
  <2>1. PICK u \in S : <<t, f>> \in Queued(u) /\ f \in got[u]
    BY <1>2 DEF Copied
  <2>2. <<t, f>> \in {u} \X Meta
    BY <2>1, QueuedFiles
  <2>3. u = t
    BY <2>2
  <2>4. <<t, "tc">> \in Queued(t)
    BY <2>1, <2>3, QueuedFiles
  <2>5. "tc" \in got[u]
    BY <2>1, ProgressFiles
  <2> QED BY <2>1, <2>3, <2>4, <2>5 DEF Copied
<1>3. Imaged(S, got) \subseteq S
  BY DEF Imaged
<1> QED BY <1>1, <1>2, <1>3

(* The crash sites of stage 1 are not those of stage 2.                    *)
LEMMA StagesOfSites ==
  /\ CS1 \subseteq CS /\ CS2 \subseteq CS /\ CS1 \cap CS2 = {}
  /\ \A S \in SUBSET TC : CrashSites(S) \subseteq CS
  /\ \A t \in TC1 : CrashSites({t}) \subseteq CS1
  /\ \A S \in SUBSET TC2 : CrashSites(S) \subseteq CS2
  /\ CS \cap TC = {} /\ TC1 \cap TC2 = {}
BY DedupStoreAssumption DEF CS1, CS2, CrashSites

(* The initial states satisfy the invariant.                               *)
LEMMA InitIInv == Init => IInv
<1> SUFFICES ASSUME Init PROVE IInv
  OBVIOUS
<1>1. TypeOK
  BY DEF Init, TypeOK, Level, PC, Why
<1>2. GlobalFiles
  BY DEF Init, GlobalFiles
<1>3. StageFiles
  BY DEF Init, StageFiles
<1>4. LocalFiles
  BY DEF Init, LocalFiles, With
<1>5. Phases
  BY DEF Init, Phases, With
<1> QED BY <1>1, <1>2, <1>3, <1>4, <1>5 DEF IInv

-----------------------------------------------------------------------------
(* AFL touches nothing but its queue.                                      *)
LEMMA AflWritesIInv ==
  ASSUME IInv, NEW t \in TC, AflWrites(t)
  PROVE  IInv'
<1> USE DEF IInv, AflWrites, stages, global, local, ctl
<1>1. TypeOK'
  <2>1. queue' \in [TC -> Level]
    BY DEF TypeOK, Level, Meta
  <2> QED BY <2>1 DEF TypeOK
<1>2. GlobalFiles'
  BY DEF GlobalFiles
<1>3. StageFiles'
  BY DEF StageFiles
<1>4. LocalFiles'
  BY DEF LocalFiles, With
<1>5. Phases'
  BY DEF Phases, With
<1> QED BY <1>1, <1>2, <1>3, <1>4, <1>5

(* Steps of the main process that only change where it is.                 *)
LEMMA MoveIInv ==
  ASSUME IInv,
         ListQueue \/ Collected \/ TooEarly \/ PassEnds \/ Completes
  PROVE  IInv'
<1> USE DEF IInv, ListQueue, Collected, TooEarly, PassEnds, Completes,
            afl, stages, global, local
<1>1. TypeOK'
  BY DEF TypeOK, PC
<1>2. GlobalFiles'
  BY DEF GlobalFiles
<1>3. StageFiles'
  BY DEF StageFiles, TypeOK
<1>4. LocalFiles'
  BY DEF LocalFiles, With
<1>5. Phases'
  <2>1. CASE ListQueue
    BY <2>1 DEF Phases, With, TypeOK
  <2>2. CASE Collected
    BY <2>2 DEF Phases, With, TypeOK
  <2>3. CASE TooEarly
    BY <2>3 DEF Phases, With, TypeOK
  <2>4. CASE PassEnds
    BY <2>4 DEF Phases, With, TypeOK
  <2>5. CASE Completes
    BY <2>5 DEF Phases, With, TypeOK
  <2> QED BY <2>1, <2>2, <2>3, <2>4, <2>5
<1> QED BY <1>1, <1>2, <1>3, <1>4, <1>5

(* Stage 1 collects a testcase, whole or ending the program.               *)
LEMMA CollectTCIInv ==
  ASSUME IInv, NEW t \in TC1, CollectTC(t)
  PROVE  IInv'
<1> USE DEF IInv
<1>0. t \in TC /\ t \notin CS /\ t \notin TC2
  BY DedupStoreAssumption DEF TC
<1>1. /\ Queued(t) \subseteq {t} \X Meta
      /\ \A f \in Meta : <<t, f>> \in Queued(t) => <<t, "tc">> \in Queued(t)
      /\ queue[t] \notin {"none", "tc"} => <<t, "map">> \in Queued(t)
  BY <1>0, QueuedFiles
<1>2. /\ dir' = dir \cup Queued(t)
      /\ UNCHANGED <<disable_stage2, queue, gbl, gbl_cs, loc, loc_cs,
                     created, job>>
      /\ pc = "collect" /\ why = ""
  BY DEF CollectTC, afl, global, local, TypeOK
<1>3. /\ UNCHANGED <<short, hash_db>>
      /\ \/ /\ queue[t] = "tc" /\ why' = "map"
            /\ pc' = "ended" /\ todo' = {} /\ UNCHANGED img
         \/ /\ queue[t] # "tc" /\ why' = "gen_img"
            /\ pc' = "ended" /\ todo' = {} /\ UNCHANGED img
         \/ /\ queue[t] # "tc"
            /\ \/ UNCHANGED <<pc, why>> /\ todo' \subseteq todo
               \/ why' \in {"finj", "worker"} /\ pc' = "ended" /\ todo' = {}
            /\ \E made \in SUBSET CS1 : img' = img \cup {t} \cup made
  <2>0. UNCHANGED <<short, hash_db>>
    BY DEF CollectTC
  <2>1. CrashSites({t}) \subseteq CS1
    BY StagesOfSites
  <2>2. CASE /\ queue[t] # "tc"
             /\ \E made \in SUBSET CrashSites({t}) :
                  img' = img \cup {t} \cup made
             /\ \/ /\ todo' = todo \ {t}
                   /\ UNCHANGED <<pc, why>>
                \/ End("worker")
    <3>1. \E made \in SUBSET CS1 : img' = img \cup {t} \cup made
      BY <2>1, <2>2
    <3>2. \/ UNCHANGED <<pc, why>> /\ todo' \subseteq todo
          \/ why' \in {"finj", "worker"} /\ pc' = "ended" /\ todo' = {}
      BY <2>2 DEF End
    <3> QED BY <2>0, <2>2, <3>1, <3>2
  <2>3. CASE queue[t] = "tc" /\ End("map") /\ UNCHANGED img
    BY <2>0, <2>3 DEF End
  <2>4. CASE queue[t] # "tc" /\ End("gen_img") /\ UNCHANGED img
    BY <2>0, <2>4 DEF End
  <2>5. CASE queue[t] # "tc" /\ End("finj") /\ img' = img \cup {t}
    <3>1. {} \in SUBSET CS1 /\ img' = img \cup {t} \cup {}
      BY <2>5
    <3> QED BY <2>0, <2>5, <3>1 DEF End
  <2> QED BY <2>2, <2>3, <2>4, <2>5 DEF CollectTC
<1>4. TypeOK'
  BY <1>0, <1>1, <1>2, <1>3, StagesOfSites DEF TypeOK, PC, Why, Meta
<1>5. GlobalFiles'
  BY <1>2 DEF GlobalFiles
<1>6. StageFiles'
  <2>1. \A s \in TC : \A f \in Meta : <<s, f>> \in dir' => <<s, "tc">> \in dir'
    BY <1>1, <1>2 DEF StageFiles
  <2>2. img' \cap CS2 \subseteq hash_db' /\ gbl_cs' \cap CS2 \subseteq hash_db'
    <3>1. img' \cap CS2 = img \cap CS2 /\ hash_db \subseteq hash_db'
      BY <1>0, <1>3, StagesOfSites
    <3> QED BY <1>2, <3>1 DEF StageFiles
  <2>6. \A s \in TC2 : <<s, "tc">> \in dir' => s \in img' \cup short'
    BY <1>0, <1>1, <1>2, <1>3 DEF StageFiles
  <2>3. why' # "map" =>
          \A s \in TC1 : <<s, "tc">> \in dir' => <<s, "map">> \in dir'
    <3> SUFFICES ASSUME why' # "map", NEW s \in TC1, <<s, "tc">> \in dir'
                 PROVE  <<s, "map">> \in dir'
      OBVIOUS
    <3>1. CASE <<s, "tc">> \in dir
      BY <3>1, <1>2 DEF StageFiles
    <3>2. CASE <<s, "tc">> \notin dir
      <4>1. s = t /\ <<t, "tc">> \in Queued(t)
        BY <3>2, <1>1, <1>2
      <4>2. queue[t] \notin {"none", "tc"}
        BY <4>1, <1>3 DEF Queued
      <4> QED BY <4>1, <4>2, <1>1, <1>2
    <3> QED BY <3>1, <3>2
  <2>4. why' \notin {"map", "gen_img"} =>
          \A s \in TC1 : <<s, "tc">> \in dir' => s \in img'
    BY <1>1, <1>2, <1>3 DEF StageFiles
  <2>5. pc' # "ended" => /\ \A s \in TC2 : \A f \in File : <<s, f>> \notin gbl'
                         /\ gbl_cs' \subseteq CS1
    BY <1>2 DEF StageFiles
  <2> QED BY <2>1, <2>2, <2>3, <2>4, <2>5, <2>6 DEF StageFiles
<1>7. LocalFiles'
  BY <1>2 DEF LocalFiles, With
<1>8. Phases'
  BY <1>2, <1>3 DEF Phases, With
<1> QED BY <1>4, <1>5, <1>6, <1>7, <1>8

(* How the global store changes: by update_global(), with the testcases    *)
(* new, and by a minimization, which drops those of drop that it has.      *)
Grows(new) ==
  /\ new \subseteq TC
  /\ \A t \in new : <<t, "tc">> \in dir /\ {<<t, "tc">>, <<t, "del">>} \cap gbl = {}
  /\ \A t \in TC, f \in File :
       <<t, f>> \in gbl' <=>
         <<t, f>> \in gbl \/ (t \in new /\ (<<t, f>> \in dir \/ f = "img"))

Shrinks(drop) ==
  \A t \in TC, f \in File :
    <<t, f>> \in gbl' <=>
      \/ <<t, f>> \in gbl /\ ~(t \in drop /\ f \in Meta)
      \/ t \in drop /\ <<t, "tc">> \in gbl /\ f = "del"

(* What the status of a testcase is when files come and go together.       *)
LEMMA StatusIs ==
  ASSUME NEW t \in TC, GlobalFiles
  PROVE  Status(t) = IF <<t, "tc">> \in gbl THEN "there"
                     ELSE IF <<t, "del">> \in gbl THEN "dropped" ELSE "absent"
<1>0. \A f \in File : <<t, f>> \in gbl => {t} \X File \cap gbl # {}
  OBVIOUS
<1>1. CASE <<t, "tc">> \in gbl
  <2>1. <<t, "del">> \notin gbl
    BY <1>1 DEF GlobalFiles, Meta
  <2> QED BY <1>0, <1>1, <2>1 DEF Status, File, Meta
<1>2. CASE <<t, "tc">> \notin gbl /\ <<t, "del">> \in gbl
  BY <1>0, <1>2 DEF Status, File
<1>3. CASE <<t, "tc">> \notin gbl /\ <<t, "del">> \notin gbl
  <2>1. \A f \in File : <<t, f>> \notin gbl
    BY <1>3 DEF GlobalFiles, File
  <2>2. {t} \X File \cap gbl = {}
    BY <2>1
  <2> QED BY <1>3, <2>2 DEF Status
<1> QED BY <1>1, <1>2, <1>3

(* The same of the next state.                                             *)
LEMMA StatusBecomes ==
  ASSUME NEW t \in TC, GlobalFiles'
  PROVE  Status(t)' = IF <<t, "tc">> \in gbl' THEN "there"
                      ELSE IF <<t, "del">> \in gbl' THEN "dropped" ELSE "absent"
<1>0. \A f \in File : <<t, f>> \in gbl' => {t} \X File \cap gbl' # {}
  OBVIOUS
<1>1. CASE <<t, "tc">> \in gbl'
  <2>1. <<t, "del">> \notin gbl'
    BY <1>1 DEF GlobalFiles, Meta
  <2> QED BY <1>0, <1>1, <2>1 DEF Status, File, Meta
<1>2. CASE <<t, "tc">> \notin gbl' /\ <<t, "del">> \in gbl'
  BY <1>0, <1>2 DEF Status, File
<1>3. CASE <<t, "tc">> \notin gbl' /\ <<t, "del">> \notin gbl'
  <2>1. \A f \in File : <<t, f>> \notin gbl'
    BY <1>3 DEF GlobalFiles, File
  <2>2. {t} \X File \cap gbl' = {}
    BY <2>1
  <2> QED BY <1>3, <2>2 DEF Status
<1> QED BY <1>1, <1>2, <1>3

(* update_global() adds whole testcases, and only absent ones.             *)
LEMMA GrowsKeeps ==
  ASSUME TypeOK, GlobalFiles, StageFiles, why # "map", NEW new, Grows(new)
  PROVE  GlobalFiles' /\ \A t \in TC : StatusStep(t)
<1>1. GlobalFiles'
  <2> SUFFICES ASSUME NEW t \in TC
               PROVE
    /\ <<t, "del">> \in gbl' => \A f \in Meta : <<t, f>> \notin gbl'
    /\ \A f \in Meta : <<t, f>> \in gbl' => <<t, "tc">> \in gbl'
    /\ <<t, "tc">> \in gbl' => <<t, "img">> \in gbl'
    /\ <<t, "del">> \in gbl' => <<t, "img">> \in gbl'
    /\ <<t, "img">> \in gbl' => <<t, "tc">> \in gbl' \/ <<t, "del">> \in gbl'
    /\ t \in TC1 /\ <<t, "tc">> \in gbl' => <<t, "map">> \in gbl'
    BY DEF GlobalFiles
  <2>1. CASE t \in new
    <3>1. /\ <<t, "tc">> \in dir
          /\ <<t, "tc">> \notin gbl /\ <<t, "del">> \notin gbl
      BY <2>1 DEF Grows
    <3>2. t \in TC1 => <<t, "map">> \in dir
      BY <3>1 DEF StageFiles
    <3>3. <<t, "del">> \notin dir
      BY DEF TypeOK, Meta
    <3> QED BY <2>1, <3>1, <3>2, <3>3 DEF GlobalFiles, Grows, Meta, File
  <2>2. CASE t \notin new
    BY <2>2 DEF GlobalFiles, Grows, Meta, File
  <2> QED BY <2>1, <2>2
<1>2. ASSUME NEW t \in TC
      PROVE  StatusStep(t)
  <2>1. <<t, "del">> \in gbl' <=> <<t, "del">> \in gbl
    <3>1. <<t, "del">> \notin dir
      BY DEF TypeOK, Meta
    <3> QED BY <3>1 DEF Grows, File
  <2>2. <<t, "tc">> \in gbl => <<t, "tc">> \in gbl'
    BY DEF Grows, File, Meta
  <2>3. <<t, "tc">> \in gbl' /\ <<t, "tc">> \notin gbl => <<t, "del">> \notin gbl
    BY DEF Grows, File, Meta
  <2>4. <<t, "img">> \in gbl => <<t, "img">> \in gbl'
    BY DEF Grows, File
  <2> QED BY <1>1, <2>1, <2>2, <2>3, <2>4, StatusIs, StatusBecomes
          DEF StatusStep
<1> QED BY <1>1, <1>2

(* A minimization swaps all files of a testcase for the placeholder.       *)
LEMMA ShrinksKeeps ==
  ASSUME GlobalFiles, NEW drop, Shrinks(drop)
  PROVE  GlobalFiles' /\ \A t \in TC : StatusStep(t)
<1>1. GlobalFiles'
  <2> SUFFICES ASSUME NEW t \in TC
               PROVE
    /\ <<t, "del">> \in gbl' => \A f \in Meta : <<t, f>> \notin gbl'
    /\ \A f \in Meta : <<t, f>> \in gbl' => <<t, "tc">> \in gbl'
    /\ <<t, "tc">> \in gbl' => <<t, "img">> \in gbl'
    /\ <<t, "del">> \in gbl' => <<t, "img">> \in gbl'
    /\ <<t, "img">> \in gbl' => <<t, "tc">> \in gbl' \/ <<t, "del">> \in gbl'
    /\ t \in TC1 /\ <<t, "tc">> \in gbl' => <<t, "map">> \in gbl'
    BY DEF GlobalFiles
  <2>1. CASE t \in drop
    BY <2>1 DEF GlobalFiles, Shrinks, Meta, File
  <2>2. CASE t \notin drop
    BY <2>2 DEF GlobalFiles, Shrinks, Meta, File
  <2> QED BY <2>1, <2>2
<1>2. ASSUME NEW t \in TC
      PROVE  StatusStep(t)
  <2>1. <<t, "tc">> \in gbl' => <<t, "tc">> \in gbl
    BY DEF Shrinks, File, Meta
  <2>2. <<t, "tc">> \in gbl /\ <<t, "tc">> \notin gbl' => <<t, "del">> \in gbl'
    BY DEF Shrinks, File, Meta
  <2>3. <<t, "del">> \in gbl => <<t, "del">> \in gbl' /\ <<t, "tc">> \notin gbl'
    BY <1>1 DEF Shrinks, File, Meta, GlobalFiles
  <2>4. <<t, "del">> \in gbl' /\ <<t, "del">> \notin gbl => <<t, "tc">> \in gbl
    BY DEF Shrinks, File, Meta
  <2>5. <<t, "img">> \in gbl => <<t, "img">> \in gbl'
    BY DEF Shrinks, File, Meta
  <2>6. <<t, "tc">> \in gbl => <<t, "del">> \notin gbl
    BY DEF GlobalFiles, Meta
  <2> QED BY <1>1, <2>1, <2>2, <2>3, <2>4, <2>5, <2>6, StatusIs, StatusBecomes
          DEF StatusStep
<1> QED BY <1>1, <1>2

(* A step that leaves the global store alone.                              *)
LEMMA SameKeeps ==
  ASSUME GlobalFiles, UNCHANGED gbl
  PROVE  GlobalFiles' /\ \A t \in TC : StatusStep(t)
<1>1. GlobalFiles'
  BY DEF GlobalFiles
<1>2. ASSUME NEW t \in TC
      PROVE  StatusStep(t)
  BY <1>1, StatusIs, StatusBecomes DEF StatusStep
<1> QED BY <1>1, <1>2
-----------------------------------------------------------------------------
(* Stage 1 testcases reach the global store whole; its checks do not fail. *)
LEMMA UpdateGlobal1Grows ==
  ASSUME IInv, UpdateGlobal1
  PROVE  \E new \in SUBSET TC1 :
           /\ Grows(new)
           /\ gbl' \subseteq TC \X File
           /\ gbl_cs' = gbl_cs \cup (CS1 \cap img)
           /\ pc' = IF disable_stage2 THEN "minimize" ELSE "stage2"
           /\ UNCHANGED <<disable_stage2, queue, dir, img, hash_db, loc,
                          loc_cs, created, job, todo, why, short>>
<1> USE DEF IInv
<1> DEFINE tcs == TC1 \cap With(dir, "tc")
           new == tcs \ (With(gbl, "tc") \cup With(gbl, "del"))
<1>1. pc = "update" /\ why = "" /\ tcs \subseteq img
  BY DEF UpdateGlobal1, TypeOK, StageFiles, With, TC
<1>2. /\ gbl' = gbl \cup {g \in dir : g[1] \in new} \cup (new \X {"img"})
      /\ gbl_cs' = gbl_cs \cup (CS1 \cap img)
      /\ pc' = IF disable_stage2 THEN "minimize" ELSE "stage2"
      /\ UNCHANGED <<disable_stage2, queue, dir, img, hash_db, loc, loc_cs,
                     created, job, todo, why, short>>
  BY <1>1 DEF UpdateGlobal1, UpdateGlobal, afl, stages, local
<1>3. new \subseteq TC /\ new \subseteq TC1
  BY DEF TC
<1>4. \A t \in new : <<t, "tc">> \in dir /\ {<<t, "tc">>, <<t, "del">>} \cap gbl = {}
  BY <1>3 DEF With
<1> HIDE DEF new, tcs
<1>5. \A t \in TC, f \in File :
         <<t, f>> \in gbl' <=>
           <<t, f>> \in gbl \/ (t \in new /\ (<<t, f>> \in dir \/ f = "img"))
  BY <1>2
<1>6. gbl' \subseteq TC \X File
  BY <1>2, <1>3 DEF TypeOK, File
<1> QED BY <1>2, <1>3, <1>4, <1>5, <1>6 DEF Grows

(* update_global() for stage 1 keeps the invariant.                        *)
LEMMA UpdateGlobal1IInv ==
  ASSUME IInv, UpdateGlobal1
  PROVE  IInv' /\ \A t \in TC : StatusStep(t)
<1> USE DEF IInv
<1>1. PICK new \in SUBSET TC1 :
        /\ Grows(new)
        /\ gbl' \subseteq TC \X File
        /\ gbl_cs' = gbl_cs \cup (CS1 \cap img)
        /\ pc' = IF disable_stage2 THEN "minimize" ELSE "stage2"
        /\ UNCHANGED <<disable_stage2, queue, dir, img, hash_db, loc, loc_cs,
                       created, job, todo, why, short>>
  BY UpdateGlobal1Grows
<1>2. pc = "update" /\ why = ""
  BY DEF UpdateGlobal1, TypeOK
<1>3. TypeOK'
  BY <1>1, <1>2 DEF TypeOK, PC, CS1
<1>4. GlobalFiles' /\ \A t \in TC : StatusStep(t)
  BY <1>1, <1>2, GrowsKeeps
<1>5. StageFiles'
  <2>1. \A t \in TC2 : \A f \in File : <<t, f>> \notin gbl'
    BY <1>1, <1>2, DedupStoreAssumption DEF StageFiles, Grows, TC
  <2>2. gbl_cs' \subseteq CS1
    BY <1>1, <1>2 DEF StageFiles
  <2>3. gbl_cs' \cap CS2 \subseteq hash_db'
    BY <2>2, StagesOfSites
  <2> QED BY <2>1, <2>2, <2>3, <1>1 DEF StageFiles
<1>6. LocalFiles'
  BY <1>1 DEF LocalFiles, With, TC, File, Grows
<1>7. Phases'
  BY <1>1, <1>2 DEF Phases, With
<1> QED BY <1>3, <1>4, <1>5, <1>6, <1>7

(* Global minimization, which always finds the maps it needs.              *)
LEMMA MinimizeGblShrinks ==
  ASSUME IInv, MinimizeGbl
  PROVE  LET ins == With(gbl, "tc") \cap With(gbl, "pm") IN
         /\ \/ /\ \E keep \in OnePer(ins, PM) : Shrinks(ins \ keep)
               /\ gbl' \subseteq TC \X File
               /\ pc' = "loop" /\ UNCHANGED <<todo, why>>
            \/ End("cmin") /\ UNCHANGED gbl
         /\ UNCHANGED <<disable_stage2, queue, dir, img, hash_db, gbl_cs,
                        loc, loc_cs, created, job, short>>
<1> USE DEF IInv
<1> DEFINE ins == With(gbl, "tc") \cap With(gbl, "pm")
<1>1. pc = "minimize" /\ With(gbl, "tc") \subseteq With(gbl, "map")
  BY DEF MinimizeGbl, StageFiles, GlobalFiles, With, TC, File
<1>2. \/ /\ \E keep \in OnePer(ins, PM) :
               gbl' = (gbl \ ((ins \ keep) \X Meta)) \cup ((ins \ keep) \X {"del"})
         /\ pc' = "loop" /\ UNCHANGED <<todo, why>>
      \/ End("cmin") /\ UNCHANGED gbl
  BY <1>1 DEF MinimizeGbl
<1>3. UNCHANGED <<disable_stage2, queue, dir, img, hash_db, gbl_cs, loc,
                  loc_cs, created, job, short>>
  BY <1>1 DEF MinimizeGbl, afl, stages, local
<1>4. ASSUME NEW keep \in OnePer(ins, PM),
             gbl' = (gbl \ ((ins \ keep) \X Meta)) \cup ((ins \ keep) \X {"del"})
      PROVE  Shrinks(ins \ keep) /\ gbl' \subseteq TC \X File
  <2> DEFINE drop == ins \ keep
  <2>1. drop \subseteq TC /\ \A t \in drop : <<t, "tc">> \in gbl
    BY DEF With
  <2>2. gbl' = (gbl \ (drop \X Meta)) \cup (drop \X {"del"})
    BY <1>4
  <2> HIDE DEF drop
  <2>3. Shrinks(drop)
    BY <2>1, <2>2 DEF Shrinks
  <2>4. gbl' \subseteq TC \X File
    BY <2>1, <2>2 DEF TypeOK, File
  <2> QED BY <2>3, <2>4 DEF drop
<1> QED BY <1>2, <1>3, <1>4

(* minimize_corpus_gbl() keeps the invariant.                              *)
LEMMA MinimizeGblIInv ==
  ASSUME IInv, MinimizeGbl
  PROVE  IInv' /\ \A t \in TC : StatusStep(t)
<1> USE DEF IInv
<1>1. /\ (\E drop : Shrinks(drop)) \/ UNCHANGED gbl
      /\ gbl' \subseteq TC \X File
      /\ \/ pc' = "loop" /\ UNCHANGED <<todo, why>>
         \/ pc' = "ended" /\ why' = "cmin" /\ todo' = {}
      /\ UNCHANGED <<disable_stage2, queue, dir, img, hash_db, gbl_cs,
                     loc, loc_cs, created, job, short>>
  BY MinimizeGblShrinks DEF End, TypeOK
<1>2. pc = "minimize" /\ why = ""
  BY DEF MinimizeGbl, TypeOK
<1>3. TypeOK'
  BY <1>1, <1>2 DEF TypeOK, PC, Why
<1>4. GlobalFiles' /\ \A t \in TC : StatusStep(t)
  BY <1>1, ShrinksKeeps, SameKeeps
<1>5. StageFiles'
  <2>1. \A t \in TC2 : \A f \in File : <<t, f>> \notin gbl'
    BY <1>1, <1>2 DEF StageFiles, TC, Shrinks, File, Meta
  <2> QED BY <2>1, <1>1, <1>2 DEF StageFiles
<1>6. LocalFiles'
  BY <1>1 DEF LocalFiles, With, TC, File, Meta, Shrinks
<1>7. Phases'
  BY <1>1, <1>2 DEF Phases, With
<1> QED BY <1>3, <1>4, <1>5, <1>6, <1>7

(* The head of a pass: what is copied to the local store has its image and *)
(* its map, so update_local() does not fail.                               *)
LEMMA UpdateLocalIInv ==
  ASSUME IInv, UpdateLocal
  PROVE  IInv'
<1> USE DEF IInv
<1> DEFINE new == (TC1 \cap With(gbl, "tc")) \ With(loc, "tc")
<1>1. pc = "stage2" /\ new \subseteq With(gbl, "img") \cap With(gbl, "map")
  BY DEF UpdateLocal, GlobalFiles, With
<1>2. /\ loc' = loc \cup {g \in gbl : g[1] \in new}
      /\ loc_cs' = loc_cs \cup gbl_cs
      /\ pc' = "pass" /\ created' = TRUE
      /\ UNCHANGED <<disable_stage2, queue, dir, img, hash_db, gbl, gbl_cs,
                     job, todo, why, short>>
  BY <1>1 DEF UpdateLocal, afl, stages, global
<1>3. new \subseteq TC1 /\ new \subseteq With(gbl, "tc")
  OBVIOUS
<1> HIDE DEF new
<1>4. TypeOK'
  <2>1. loc' \subseteq TC1 \X File
    BY <1>2, <1>3 DEF TypeOK
  <2>2. loc_cs' \subseteq CS1
    BY <1>1, <1>2 DEF TypeOK, StageFiles
  <2> QED BY <2>1, <2>2, <1>1, <1>2 DEF TypeOK, PC
<1>5. GlobalFiles'
  BY <1>2 DEF GlobalFiles
<1>6. StageFiles'
  BY <1>1, <1>2 DEF StageFiles
<1>7. LocalFiles'
  <2>1. ASSUME NEW t \in TC1, NEW f \in Meta
        PROVE  <<t, f>> \in loc' <=>
                 <<t, f>> \in loc \/ (t \in new /\ <<t, f>> \in gbl)
    BY <1>2
  <2>2. \A t \in new : <<t, "tc">> \in gbl /\ <<t, "img">> \in gbl
    BY <1>1, <1>3 DEF With
  <2>3. With(loc, "tc") \subseteq With(loc', "tc")
    BY <1>2 DEF With
  <2> QED BY <1>2, <2>1, <2>2, <2>3 DEF LocalFiles, Meta
<1>8. Phases'
  BY <1>1, <1>2 DEF Phases, With, TypeOK
<1> QED BY <1>4, <1>5, <1>6, <1>7, <1>8

(* A job is started from the local store.                                  *)
LEMMA StartIInv ==
  ASSUME IInv, NEW j \in Job, Start(j)
  PROVE  IInv'
<1> USE DEF IInv, Start, afl, stages, global, ctl
<1>1. TypeOK'
  BY DEF TypeOK
<1>2. GlobalFiles'
  BY DEF GlobalFiles
<1>3. StageFiles'
  BY DEF StageFiles
<1>4. LocalFiles'
  BY DEF LocalFiles, With, TypeOK
<1>5. Phases'
  BY DEF Phases, With, TypeOK
<1> QED BY <1>1, <1>2, <1>3, <1>4, <1>5

-----------------------------------------------------------------------------
(* The directory that is minimized, and what it has of the queues.         *)
Directory(d) ==
  /\ d \subseteq TC \X Meta
  /\ \A t \in TC, f \in Meta :
       <<t, f>> \in d => /\ <<t, "tc">> \in d
                         /\ <<t, f>> \in dir \/ <<t, f>> \in Queued(t)
  /\ \A t \in TC1, f \in Meta : <<t, f>> \in d <=> <<t, f>> \in dir

\* What the minimization of stage 2 drops: what repeats the PM map of
\* another one, of stage 2 or in the local store.
Repeats(drop) ==
  /\ drop \subseteq TC
  /\ \A t \in drop :
       /\ t \in TC1 => <<t, "pm">> \in loc
       /\ <<t, "pm">> \in loc \/ <<t, "pm">> \in dir \/ <<t, "pm">> \in Queued(t)
       /\ \E k \in (TC2 \cup With(loc, "pm")) \ drop : PM[k] = PM[t]

(* What the workers have copied is such a directory.                       *)
LEMMA CollectedDirectory ==
  ASSUME IInv, NEW S \in SUBSET TC2, NEW got \in [S -> Progress]
  PROVE  /\ Directory(dir \cup Copied(S, got))
         /\ NoteShort(S, got) =>
              /\ short' \subseteq TC2
              /\ \A t \in TC2 : <<t, "tc">> \in dir \cup Copied(S, got) =>
                   t \in img \cup Imaged(S, got) \cup short'
<1> USE DEF IInv
<1>1. S \in SUBSET TC
  BY DEF TC
<1>2. /\ Copied(S, got) \subseteq S \X Meta
      /\ \A t \in TC : \A f \in Meta :
           <<t, f>> \in Copied(S, got) =>
             <<t, "tc">> \in Copied(S, got) /\ <<t, f>> \in Queued(t)
  BY <1>1, CopiedFiles
<1> DEFINE C == Copied(S, got)
<1>3. Directory(dir \cup C)
  <2>1. dir \cup C \subseteq TC \X Meta
    BY <1>1, <1>2 DEF TypeOK
  <2>2. \A t \in TC, f \in Meta :
          <<t, f>> \in dir \cup C =>
            /\ <<t, "tc">> \in dir \cup C
            /\ <<t, f>> \in dir \/ <<t, f>> \in Queued(t)
    BY <1>2 DEF StageFiles
  <2>3. \A t \in TC1, f \in Meta : <<t, f>> \in dir \cup C <=> <<t, f>> \in dir
    BY <1>2, StagesOfSites
  <2> QED BY <2>1, <2>2, <2>3 DEF Directory
<1>4. ASSUME NoteShort(S, got), NEW t \in TC2, <<t, "tc">> \in dir \cup C
      PROVE  t \in img \cup Imaged(S, got) \cup short'
  <2>1. CASE t \in S
    BY <1>4, <2>1 DEF NoteShort
  <2>2. CASE t \notin S
    <3>1. <<t, "tc">> \in dir
      BY <1>2, <1>4, <2>2
    <3> QED BY <1>4, <2>2, <3>1 DEF NoteShort, StageFiles
  <2> QED BY <2>1, <2>2
<1>5. NoteShort(S, got) => short' \subseteq TC2
  BY DEF NoteShort, TypeOK
<1> QED BY <1>3, <1>4, <1>5

(* DedupEngine takes whole testcases of stage 2 away.                      *)
LEMMA EngineDirectory ==
  ASSUME NEW all, Directory(all), NEW d \in EngineLeaves(all)
  PROVE  Directory(d) /\ d \subseteq all
<1>1. PICK keep : d = all \ (((TC2 \cap With(all, "map")) \ keep) \X Meta)
  BY DEF EngineLeaves
<1> DEFINE gone == (TC2 \cap With(all, "map")) \ keep
<1>2. gone \cap TC1 = {}
  BY StagesOfSites
<1>3. d = all \ (gone \X Meta)
  BY <1>1
<1> HIDE DEF gone
<1>4. \A t \in TC, f \in Meta : <<t, f>> \in d <=> <<t, f>> \in all /\ t \notin gone
  BY <1>3
<1>5. \A t \in TC, f \in Meta :
        <<t, f>> \in d => /\ <<t, "tc">> \in d
                          /\ <<t, f>> \in dir \/ <<t, f>> \in Queued(t)
  BY <1>4 DEF Directory, Meta
<1>6. \A t \in TC1, f \in Meta : <<t, f>> \in d <=> <<t, f>> \in dir
  BY <1>2, <1>4 DEF Directory, TC
<1> QED BY <1>3, <1>5, <1>6 DEF Directory

(* The minimization of stage 2: one testcase per PM map stays of the stage *)
(* and of the local store.                                                 *)
LEMMA MinimizeLclStep ==
  ASSUME IInv, NEW d, Directory(d), MinimizeLcl(d)
  PROVE  /\ \E drop : Shrinks(drop) /\ Repeats(drop)
         /\ gbl' \subseteq TC \X File
         /\ Directory(dir') /\ dir' \subseteq d
<1> USE DEF IInv
<1> DEFINE ins == (TC2 \cap With(d, "pm")) \cup With(loc, "pm")
<1>9. PICK keep \in OnePer(ins, PM) :
        LET drop == ins \ keep
            had  == {t \in drop : \E f \in Meta : <<t, f>> \in gbl} IN
        /\ dir' = d \ ((drop \cap TC2) \X Meta)
        /\ gbl' = (gbl \ (drop \X Meta)) \cup (had \X {"del"})
  BY DEF MinimizeLcl
<1> DEFINE drop == ins \ keep
           had  == {t \in drop : \E f \in Meta : <<t, f>> \in gbl}
           mine == drop \cap TC2
<1>10. /\ dir' = d \ (mine \X Meta)
       /\ gbl' = (gbl \ (drop \X Meta)) \cup (had \X {"del"})
       /\ drop \subseteq TC
  BY <1>9 DEF With, TC
<1>11. \A t \in drop : t \in had <=> <<t, "tc">> \in gbl
  BY <1>10 DEF GlobalFiles, Meta
<1>12. had \subseteq drop
  OBVIOUS
<1>13. mine \cap TC1 = {}
  BY StagesOfSites
<1> HIDE DEF ins, drop, had, mine
<1>14. keep \subseteq ins /\ \A s \in ins : \E k \in keep : PM[k] = PM[s]
  BY DEF OnePer
<1>15. Shrinks(drop)
  BY <1>10, <1>11, <1>12 DEF Shrinks
<1>16. gbl' \subseteq TC \X File
  BY <1>10, <1>12 DEF TypeOK, File
<1>17. dir' \subseteq TC \X Meta /\ dir' \subseteq d
  BY <1>10 DEF Directory
<1>18. \A t \in TC, f \in Meta : <<t, f>> \in dir' <=> <<t, f>> \in d /\ t \notin mine
  BY <1>10
<1>19. Directory(dir')
  <2>1. \A t \in TC, f \in Meta :
          <<t, f>> \in dir' => /\ <<t, "tc">> \in dir'
                               /\ <<t, f>> \in dir \/ <<t, f>> \in Queued(t)
    BY <1>18 DEF Meta, Directory
  <2>2. \A t \in TC1, f \in Meta : <<t, f>> \in dir' <=> <<t, f>> \in dir
    BY <1>13, <1>18 DEF TC, Directory
  <2> QED BY <1>17, <2>1, <2>2 DEF Directory
<1>22. ASSUME NEW t \in drop
       PROVE  /\ t \in TC1 => <<t, "pm">> \in loc
              /\ <<t, "pm">> \in loc \/ <<t, "pm">> \in dir \/ <<t, "pm">> \in Queued(t)
              /\ \E k \in (TC2 \cup With(loc, "pm")) \ drop : PM[k] = PM[t]
  <2>1. t \in ins /\ t \in TC
    BY <1>10 DEF drop
  <2>2. <<t, "pm">> \in d \/ <<t, "pm">> \in loc
    BY <2>1 DEF ins, With
  <2>3. t \in TC1 => <<t, "pm">> \in loc
    BY <2>1, StagesOfSites DEF ins, With
  <2>4. PICK k \in keep : PM[k] = PM[t]
    BY <1>14, <2>1
  <2>5. k \in ins /\ k \notin drop
    BY <1>14, <2>4 DEF drop
  <2>6. k \in TC2 \cup With(loc, "pm")
    BY <2>5 DEF ins
  <2> QED BY <2>1, <2>2, <2>3, <2>4, <2>5, <2>6 DEF Directory, Meta
<1>23. Repeats(drop)
  BY <1>10, <1>22 DEF Repeats
<1> QED BY <1>15, <1>16, <1>17, <1>19, <1>23

\* The collection of a job's children may end the program.
Aborts == \E reason \in {"worker", "hash", "cmin"} : End(reason)

(* Collecting the children of a job: if it does not end the program, all   *)
(* crash sites are in the database and one per hash stays.                 *)
LEMMA CollectChildrenStep ==
  ASSUME IInv, NEW j \in Job, CollectChildren(j), why = ""
  PROVE  /\ \E drop : Shrinks(drop) /\ Repeats(drop)
         /\ gbl' \subseteq TC \X File
         /\ Directory(dir')
         /\ img' \subseteq TC \cup CS /\ img \cap TC1 \subseteq img'
         /\ hash_db \subseteq hash_db' /\ hash_db' \subseteq CS2
         /\ UNCHANGED ctl \/ Aborts
         /\ why' \notin {"hash", "worker"} => img' \cap CS2 \subseteq hash_db'
         /\ short' \subseteq TC2
         /\ \A t \in TC2 : <<t, "tc">> \in dir' => t \in img' \cup short'
<1> USE DEF IInv
<1> DEFINE S == Children(j)
<1>1. PICK got \in [S -> Progress], new \in SUBSET CrashSites(S) :
    LET sites == (img \cup new) \cap CS2
        there == img \cup Imaged(S, got)
        all   == dir \cup Copied(S, got) IN
    /\ NoteShort(S, got)
    /\ \/ /\ S # {}
          /\ End("worker")
          /\ dir' = all
          /\ img' = there \cup new
          /\ UNCHANGED <<hash_db, gbl>>
       \/ \E hashed \in SUBSET new,
             d \in IF j \in CS THEN EngineLeaves(all) ELSE {all} :
            /\ hash_db' = hash_db \cup hashed
            /\ IF sites \subseteq hash_db \cup hashed
               THEN /\ \E keep \in OnePer(sites, Image) :
                         img' = (there \ sites) \cup keep
                    /\ \/ MinimizeLcl(d) /\ UNCHANGED ctl
                       \/ End("cmin") /\ dir' = d /\ UNCHANGED gbl
               ELSE /\ End("hash")
                    /\ img' = there \cup new
                    /\ dir' = d
                    /\ UNCHANGED gbl
  BY DEF CollectChildren
<1> DEFINE sites == (img \cup new) \cap CS2
           there == img \cup Imaged(S, got)
           all   == dir \cup Copied(S, got)
<1>2. S \in SUBSET TC2 /\ S \in SUBSET TC
  BY DEF Children, TC
<1>3. /\ Directory(all) /\ short' \subseteq TC2
      /\ \A t \in TC2 : <<t, "tc">> \in all => t \in there \cup short'
  BY <1>1, <1>2, CollectedDirectory
<1>4. /\ new \subseteq CS2 /\ new \subseteq CS /\ there \subseteq TC \cup CS
      /\ img \subseteq there /\ hash_db \subseteq CS2 /\ sites \subseteq CS2
      /\ new \cap CS2 \subseteq sites /\ there \cap CS2 \subseteq sites
  <2>1. new \subseteq CS2 /\ new \subseteq CS
    BY <1>1, <1>2, StagesOfSites
  <2>2. Imaged(S, got) \subseteq TC2 /\ Imaged(S, got) \subseteq TC
    BY <1>2 DEF Imaged
  <2>3. Imaged(S, got) \cap CS2 = {}
    BY <2>2, StagesOfSites
  <2> QED BY <2>1, <2>2, <2>3 DEF TypeOK
<1>5. UNCHANGED gbl => /\ \E drop : Shrinks(drop) /\ Repeats(drop)
                       /\ gbl' \subseteq TC \X File
  <2>1. UNCHANGED gbl => Shrinks({})
    BY DEF Shrinks
  <2>2. Repeats({})
    BY DEF Repeats
  <2> QED BY <2>1, <2>2 DEF TypeOK
<1> HIDE DEF S, sites, there, all
<1>6. CASE /\ End("worker") /\ dir' = all /\ img' = there \cup new
           /\ UNCHANGED <<hash_db, gbl>>
  <2>1. Aborts /\ why' = "worker"
    BY <1>6 DEF Aborts, End
  <2> QED BY <1>3, <1>4, <1>5, <1>6, <2>1
<1>7. ASSUME NEW hashed \in SUBSET new,
             NEW d \in IF j \in CS THEN EngineLeaves(all) ELSE {all},
             hash_db' = hash_db \cup hashed,
             IF sites \subseteq hash_db \cup hashed
             THEN /\ \E keep \in OnePer(sites, Image) :
                       img' = (there \ sites) \cup keep
                  /\ \/ MinimizeLcl(d) /\ UNCHANGED ctl
                     \/ End("cmin") /\ dir' = d /\ UNCHANGED gbl
             ELSE /\ End("hash")
                  /\ img' = there \cup new
                  /\ dir' = d
                  /\ UNCHANGED gbl
      PROVE  /\ \E drop : Shrinks(drop) /\ Repeats(drop)
             /\ gbl' \subseteq TC \X File
             /\ Directory(dir')
             /\ img' \subseteq TC \cup CS /\ img \cap TC1 \subseteq img'
             /\ hash_db \subseteq hash_db' /\ hash_db' \subseteq CS2
             /\ UNCHANGED ctl \/ Aborts
             /\ why' \notin {"hash", "worker"} => img' \cap CS2 \subseteq hash_db'
             /\ short' \subseteq TC2
             /\ \A t \in TC2 : <<t, "tc">> \in dir' => t \in img' \cup short'
  <2>1. Directory(d) /\ d \subseteq all
    <3>1. CASE j \in CS
      BY <1>3, <1>7, <3>1, EngineDirectory
    <3>2. CASE j \notin CS
      BY <1>3, <1>7, <3>2
    <3> QED BY <3>1, <3>2
  <2>2. hash_db \subseteq hash_db' /\ hash_db' \subseteq CS2
    BY <1>4, <1>7
  <2>3. \A t \in TC2 : <<t, "tc">> \in d => t \in there \cup short'
    BY <1>3, <2>1
  <2>4. CASE sites \subseteq hash_db \cup hashed
    <3>1. PICK keep \in OnePer(sites, Image) : img' = (there \ sites) \cup keep
      BY <1>7, <2>4
    <3>2. keep \subseteq sites
      BY <3>1, OnePerKeeps
    <3>3. /\ img' \subseteq TC \cup CS
          /\ img' \cap CS2 \subseteq hash_db'
      BY <1>4, <1>7, <2>4, <3>1, <3>2, StagesOfSites
    <3>4. img \cap TC1 \subseteq img' /\ \A t \in TC2 : t \in there => t \in img'
      <4>1. sites \cap TC1 = {} /\ sites \cap TC2 = {}
        BY <1>4, StagesOfSites DEF TC
      <4> QED BY <1>4, <3>1, <4>1
    <3>5. CASE MinimizeLcl(d) /\ UNCHANGED ctl
      <4>1. /\ \E drop : Shrinks(drop) /\ Repeats(drop)
            /\ gbl' \subseteq TC \X File
            /\ Directory(dir') /\ dir' \subseteq d
        BY <2>1, <3>5, MinimizeLclStep
      <4> QED BY <1>3, <2>2, <2>3, <3>3, <3>4, <3>5, <4>1
    <3>6. CASE End("cmin") /\ dir' = d /\ UNCHANGED gbl
      <4>1. Aborts
        BY <3>6 DEF Aborts
      <4> QED BY <1>3, <1>5, <2>1, <2>2, <2>3, <3>3, <3>4, <3>6, <4>1
    <3> QED BY <1>7, <2>4, <3>5, <3>6
  <2>5. CASE ~(sites \subseteq hash_db \cup hashed)
    <3>1. /\ End("hash") /\ img' = there \cup new /\ dir' = d
          /\ UNCHANGED gbl
      BY <1>7, <2>5
    <3>2. Aborts /\ why' = "hash"
      BY <3>1 DEF Aborts, End
    <3> QED BY <1>3, <1>4, <1>5, <2>1, <2>2, <2>3, <3>1, <3>2
  <2> QED BY <2>4, <2>5
<1> QED BY <1>1, <1>6, <1>7 DEF S, sites, there, all

(* A job is terminated: its image is there, so the sanity check holds.     *)
LEMMA TerminateIInv ==
  ASSUME IInv, NEW j \in Job, Terminate(j)
  PROVE  IInv' /\ \A t \in TC : StatusStep(t)
<1> USE DEF IInv
<1>1. /\ pc \in {"pass", "kill_all"} /\ why = "" /\ job[j] = "running"
      /\ job' = [job EXCEPT ![j] = "done"]
      /\ UNCHANGED <<disable_stage2, queue, gbl_cs, loc, loc_cs, created>>
  BY DEF Terminate, TypeOK, afl
<1>2. HasImage(j)
  BY <1>1 DEF HasImage, LocalFiles, With, TypeOK, TC
<1>3. CollectChildren(j)
  BY <1>2 DEF Terminate
<1>4. /\ \E drop : Shrinks(drop) /\ Repeats(drop)
      /\ gbl' \subseteq TC \X File
      /\ Directory(dir')
      /\ img' \subseteq TC \cup CS /\ img \cap TC1 \subseteq img'
      /\ hash_db \subseteq hash_db' /\ hash_db' \subseteq CS2
      /\ UNCHANGED ctl \/ Aborts
      /\ why' \notin {"hash", "worker"} => img' \cap CS2 \subseteq hash_db'
      /\ short' \subseteq TC2
      /\ \A t \in TC2 : <<t, "tc">> \in dir' => t \in img' \cup short'
  BY <1>1, <1>3, CollectChildrenStep
<1>0. \/ UNCHANGED <<pc, why, todo>>
      \/ pc' = "ended" /\ why' \in {"worker", "hash", "cmin"} /\ todo' = {}
  BY <1>4 DEF ctl, Aborts, End
<1>10. PICK drop : Shrinks(drop)
  BY <1>4
<1>5. TypeOK'
  <2>1. pc' \in PC /\ why' \in Why /\ todo' \subseteq TC1
        /\ (todo' # {} => pc' = "collect") /\ (pc' = "ended" <=> why' # "")
    BY <1>0, <1>1 DEF TypeOK, PC, Why
  <2>2. dir' \subseteq TC \X Meta
    BY <1>4 DEF Directory
  <2> QED BY <1>1, <1>4, <2>1, <2>2 DEF TypeOK
<1>6. GlobalFiles' /\ \A t \in TC : StatusStep(t)
  BY <1>10, ShrinksKeeps
<1>7. StageFiles'
  <2>1. \A t \in TC2 : \A f \in File : <<t, f>> \notin gbl'
    BY <1>1, <1>10 DEF StageFiles, TC, Shrinks, File, Meta
  <2>2. \A t \in TC1 : <<t, "tc">> \in dir' => <<t, "map">> \in dir' /\ t \in img'
    BY <1>1, <1>4 DEF StageFiles, Meta, Directory
  <2>3. gbl_cs' \subseteq CS1 /\ gbl_cs' \cap CS2 \subseteq hash_db'
    BY <1>1, <1>4 DEF StageFiles
  <2>4. \A t \in TC : \A f \in Meta : <<t, f>> \in dir' => <<t, "tc">> \in dir'
    BY <1>4 DEF Directory
  <2> QED BY <2>1, <2>2, <2>3, <2>4, <1>4 DEF StageFiles
<1>8. LocalFiles'
  <2>1. \A t \in TC1 : <<t, "img">> \in gbl => <<t, "img">> \in gbl'
    BY <1>10 DEF Shrinks, TC, File, Meta
  <2>2. \A k \in Job : job'[k] # "new" => job[k] # "new"
    BY <1>1 DEF TypeOK
  <2> QED BY <1>1, <2>1, <2>2 DEF LocalFiles, With
<1>9. Phases'
  <2>1. \A k \in Job : job'[k] = "new" => job[k] = "new"
    BY <1>1 DEF TypeOK
  <2>2. created /\ ~disable_stage2
    BY <1>1 DEF Phases
  <2>3. UNCHANGED <<created, disable_stage2, loc>>
    BY <1>1
  <2>4. With(loc, "tc") \subseteq Job
    BY DEF With, TypeOK, Job
  <2>5. (pc = "kill_all" => \A t \in With(loc, "tc") : job[t] # "new")'
    <3>1. pc' = "kill_all" => \A t \in With(loc, "tc") : job'[t] # "new"
      BY <1>0, <2>1, <2>4 DEF Phases
    <3> QED BY <3>1, <2>3 DEF With
  <2>7. why' \in {"", "worker", "hash", "cmin"}
    BY <1>0, <1>1
  <2>6. (pc \in {"pass", "kill_all", "ended"})'
    BY <1>0, <1>1
  <2> QED BY <2>2, <2>3, <2>5, <2>6, <2>7 DEF Phases
<1> QED BY <1>5, <1>6, <1>7, <1>8, <1>9

(* What is left in the queues is copied to the stage's directory.          *)
LEMMA CollectAllIInv ==
  ASSUME IInv, CollectAll
  PROVE  IInv'
<1> USE DEF IInv
<1> DEFINE new == {t \in TC2 : queue[t] # "none" /\ <<t, "tc">> \notin dir}
<1>1. /\ pc = "kill_all" /\ why = "" /\ CollectNew(new)
      /\ \A t \in TC1 : job[t] # "running"
      /\ UNCHANGED <<disable_stage2, queue, hash_db, gbl, gbl_cs, loc, loc_cs,
                     created, job>>
  BY DEF CollectAll, TypeOK, afl, global, local
<1>2. new \in SUBSET TC2 /\ new \in SUBSET TC
  BY DEF TC
<1> HIDE DEF new
<1>0. PICK got \in [new -> Progress] :
        /\ dir' = dir \cup Copied(new, got)
        /\ img' = img \cup Imaged(new, got)
        /\ NoteShort(new, got)
        /\ \/ pc' = "finish" /\ UNCHANGED <<todo, why>>
           \/ pc' = "ended" /\ why' = "worker" /\ todo' = {}
  BY <1>1 DEF CollectNew, End
<1>3. /\ Directory(dir') /\ short' \subseteq TC2
      /\ \A t \in TC2 : <<t, "tc">> \in dir' => t \in img' \cup short'
      /\ Imaged(new, got) \subseteq TC2
  BY <1>0, <1>2, CollectedDirectory DEF Imaged
<1>4. TypeOK'
  <2>1. pc' \in PC /\ why' \in Why /\ todo' \subseteq TC1
        /\ (todo' # {} => pc' = "collect") /\ (pc' = "ended" <=> why' # "")
    BY <1>0, <1>1 DEF TypeOK, PC, Why
  <2>2. dir' \subseteq TC \X Meta /\ img' \subseteq TC \cup CS
    BY <1>0, <1>3 DEF Directory, TypeOK, TC
  <2> QED BY <1>1, <1>3, <2>1, <2>2 DEF TypeOK
<1>5. GlobalFiles'
  BY <1>1 DEF GlobalFiles
<1>6. StageFiles'
  <2>1. \A t \in TC : \A f \in Meta : <<t, f>> \in dir' => <<t, "tc">> \in dir'
    BY <1>3 DEF Directory
  <2>2. img' \cap CS2 \subseteq hash_db'
    BY <1>0, <1>1, <1>3, StagesOfSites DEF StageFiles, TC
  <2>3. \A t \in TC1, f \in Meta : <<t, f>> \in dir' <=> <<t, f>> \in dir
    BY <1>3 DEF Directory
  <2>4. \A t \in TC1 : <<t, "tc">> \in dir' => <<t, "map">> \in dir' /\ t \in img'
    BY <1>0, <1>1, <2>3 DEF StageFiles, Meta
  <2> QED BY <1>0, <1>1, <1>3, <2>1, <2>2, <2>4 DEF StageFiles
<1>7. LocalFiles'
  BY <1>1 DEF LocalFiles, With
<1>8. Phases'
  <2>1. \A t \in With(loc, "tc") : t \in TC1 /\ job[t] = "done"
    <3> SUFFICES ASSUME NEW t \in With(loc, "tc")
                 PROVE  t \in TC1 /\ job[t] = "done"
      OBVIOUS
    <3>1. t \in TC1
      BY DEF With, TypeOK
    <3>2. job[t] # "new"
      BY <1>1 DEF Phases
    <3>3. job[t] \in {"new", "running", "done"}
      BY <3>1 DEF TypeOK, Job
    <3> QED BY <1>1, <3>1, <3>2, <3>3
  <2> QED BY <1>0, <1>1, <2>1 DEF Phases, With
<1> QED BY <1>4, <1>5, <1>6, <1>7, <1>8

(* The completed stage is put into the global store, and the program ends. *)
LEMMA FinalDedupIInv ==
  ASSUME IInv, FinalDedup
  PROVE  IInv' /\ \A t \in TC : StatusStep(t)
<1> USE DEF IInv
<1> DEFINE tcs == TC2 \cap With(dir, "tc")
           new == tcs \ (With(gbl, "tc") \cup With(gbl, "del"))
<1>1. /\ pc = "finish" /\ why = "" /\ pc' = "ended" /\ todo' = {}
      /\ UNCHANGED <<disable_stage2, queue, dir, img, hash_db, loc, loc_cs,
                     created, job, short>>
  BY DEF FinalDedup, UpdateGlobal, TypeOK, End, afl, stages, local
<1>2. \/ /\ gbl' = gbl \cup {g \in dir : g[1] \in new} \cup (new \X {"img"})
         /\ gbl_cs' = gbl_cs \cup (CS2 \cap img)
         /\ why' = "dedup"
      \/ why' = "image" /\ UNCHANGED <<gbl, gbl_cs>>
  BY DEF FinalDedup, UpdateGlobal, End, global
<1>3. new \subseteq TC
  BY DEF TC
<1>4. \A t \in new : <<t, "tc">> \in dir /\ {<<t, "tc">>, <<t, "del">>} \cap gbl = {}
  BY <1>3 DEF With
<1> HIDE DEF new, tcs
<1>5. /\ gbl' \subseteq TC \X File
      /\ gbl_cs' \subseteq CS /\ gbl_cs \subseteq gbl_cs'
      /\ \A t \in TC1 : <<t, "img">> \in gbl => <<t, "img">> \in gbl'
  <2>1. CASE UNCHANGED <<gbl, gbl_cs>>
    BY <2>1 DEF TypeOK
  <2>2. CASE /\ gbl' = gbl \cup {g \in dir : g[1] \in new} \cup (new \X {"img"})
             /\ gbl_cs' = gbl_cs \cup (CS2 \cap img)
    BY <1>3, <2>2 DEF TypeOK, File, CS2
  <2> QED BY <1>2, <2>1, <2>2
<1>6. TypeOK'
  BY <1>1, <1>2, <1>5 DEF TypeOK, PC, Why
<1>7. GlobalFiles' /\ \A t \in TC : StatusStep(t)
  <2>1. CASE UNCHANGED <<gbl, gbl_cs>>
    BY <2>1, SameKeeps
  <2>2. CASE gbl' = gbl \cup {g \in dir : g[1] \in new} \cup (new \X {"img"})
    <3>1. \A t \in TC, f \in File :
            <<t, f>> \in gbl' <=>
              <<t, f>> \in gbl \/ (t \in new /\ (<<t, f>> \in dir \/ f = "img"))
      BY <2>2
    <3>2. Grows(new)
      BY <1>3, <1>4, <3>1 DEF Grows
    <3> QED BY <1>1, <3>2, GrowsKeeps
  <2> QED BY <1>2, <2>1, <2>2
<1>8. StageFiles'
  <2>1. img \cap CS2 \subseteq hash_db
    BY <1>1 DEF StageFiles
  <2>2. gbl_cs' \cap CS2 \subseteq hash_db'
    BY <1>1, <1>2, <2>1 DEF StageFiles
  <2> QED BY <1>1, <1>2, <2>1, <2>2 DEF StageFiles
<1>9. LocalFiles'
  BY <1>1, <1>5 DEF LocalFiles, With
<1>10. Phases'
  BY <1>1, <1>2 DEF Phases, With
<1> QED BY <1>6, <1>7, <1>8, <1>9, <1>10

-----------------------------------------------------------------------------
(* Every step keeps the invariant and moves each testcase along its life   *)
(* in the global store.                                                    *)
LEMMA NextIInv ==
  ASSUME IInv, [Next]_vars
  PROVE  IInv' /\ \A t \in TC : StatusStep(t)
<1> USE DEF IInv
<1>1. CASE \E t \in TC : AflWrites(t)
  <2>1. IInv' /\ UNCHANGED gbl
    BY <1>1, AflWritesIInv DEF AflWrites, global
  <2> QED BY <2>1, SameKeeps
<1>2. CASE ListQueue \/ Collected \/ TooEarly \/ PassEnds \/ Completes
  <2>1. IInv' /\ UNCHANGED gbl
    BY <1>2, MoveIInv
       DEF ListQueue, Collected, TooEarly, PassEnds, Completes, global
  <2> QED BY <2>1, SameKeeps
<1>3. CASE \E t \in TC1 : CollectTC(t)
  <2>1. IInv' /\ UNCHANGED gbl
    BY <1>3, CollectTCIInv DEF CollectTC, global
  <2> QED BY <2>1, SameKeeps
<1>4. CASE UpdateGlobal1
  BY <1>4, UpdateGlobal1IInv
<1>5. CASE MinimizeGbl
  BY <1>5, MinimizeGblIInv
<1>6. CASE UpdateLocal
  <2>1. IInv' /\ UNCHANGED gbl
    BY <1>6, UpdateLocalIInv DEF UpdateLocal, global
  <2> QED BY <2>1, SameKeeps
<1>7. CASE \E j \in Job : Start(j)
  <2>1. IInv' /\ UNCHANGED gbl
    BY <1>7, StartIInv DEF Start, global
  <2> QED BY <2>1, SameKeeps
<1>8. CASE \E j \in Job : Terminate(j)
  BY <1>8, TerminateIInv
<1>9. CASE CollectAll
  <2>1. IInv' /\ UNCHANGED gbl
    BY <1>9, CollectAllIInv DEF CollectAll, global
  <2> QED BY <2>1, SameKeeps
<1>10. CASE FinalDedup
  BY <1>10, FinalDedupIInv
<1>11. CASE UNCHANGED vars
  <2>1. TypeOK'
    BY <1>11 DEF TypeOK, vars
  <2>2. GlobalFiles' /\ \A t \in TC : StatusStep(t)
    BY <1>11, SameKeeps DEF vars
  <2>3. StageFiles'
    BY <1>11 DEF StageFiles, vars
  <2>4. LocalFiles'
    BY <1>11 DEF LocalFiles, With, vars
  <2>5. Phases'
    BY <1>11 DEF Phases, With, vars
  <2> QED BY <2>1, <2>2, <2>3, <2>4, <2>5
<1> QED
  BY <1>1, <1>2, <1>3, <1>4, <1>5, <1>6, <1>7, <1>8, <1>9, <1>10, <1>11
     DEF Next, Main

(* The inductive invariant holds in every reachable state.                 *)
LEMMA StoresInv == Spec => []IInv
<1>1. Init => IInv
  BY InitIInv
<1>2. IInv /\ [Next]_vars => IInv'
  BY NextIInv
<1> QED BY <1>1, <1>2, PTL DEF Spec

(* Every variable stays in its range; the program has ended exactly when   *)
(* there is a reason for it.                                               *)
THEOREM TypeCorrect == Spec => []TypeOK
<1>1. IInv => TypeOK
  BY DEF IInv
<1> QED BY <1>1, StoresInv, PTL

(* A testcase dropped from the global store never comes back, and its image*)
(* is never removed, however collections, copies and minimizations of the  *)
(* two stages follow each other (update_global, minimize_corpus_gbl/_lcl). *)
THEOREM DroppedStaysDropped == Spec => Lifecycle
<1>1. IInv /\ [Next]_vars => [\A t \in TC : StatusStep(t)]_vars
  BY NextIInv
<1> QED BY <1>1, StoresInv, PTL DEF Spec, Lifecycle

(* Every job of the local store has its image in the global store, so that *)
(* _run_testcase() and the sanity checks of _terminate_*() find it.        *)
THEOREM JobsFindImages == Spec => []JobImages
<1>1. IInv => JobImages
  BY DEF IInv, JobImages, LocalFiles, With, TypeOK
<1> QED BY <1>1, StoresInv, PTL

(* Whatever workers, targets and afl-cmin fail: the checks for maps and    *)
(* images of global minimization, update_local() and the collections hold  *)
(* whenever they are made; a crash site of stage 2 without a hash ends the *)
(* program in the termination that left it (dedup.py:603) and is never in  *)
(* the global store; and when update_global() misses an image, it is in    *)
(* the completed iteration, and one that a worker has failed to make.      *)
(* That there are no other ends is not claimed.                            *)
THEOREM OnlyKnownEnds == Spec => []EndsKnown
<1>1. IInv => EndsKnown
  <2> SUFFICES ASSUME IInv PROVE EndsKnown
    OBVIOUS
  <2>1. why \notin {"gbl_map", "loc_image", "loc_map", "sanity"}
    BY DEF IInv, Phases
  <2>2. why = "image" => \A t \in With(loc, "tc") : job[t] = "done"
    BY DEF IInv, Phases
  <2>3. why = "image" => With(dir, "tc") \ img \subseteq short
    BY DEF IInv, StageFiles, With, TC
  <2>4. /\ why \notin {"hash", "worker"} => img \cap CS2 \subseteq hash_db
        /\ gbl_cs \cap CS2 \subseteq hash_db
    BY DEF IInv, StageFiles
  <2> QED BY <2>1, <2>2, <2>3, <2>4 DEF EndsKnown
<1> QED BY <1>1, StoresInv, PTL
-----------------------------------------------------------------------------
(* Every PM map that reached the global store is that of a testcase which  *)
(* is still there with it.                                                 *)
MapsKept ==
  disable_stage2 =>
    \A t \in With(gbl, "pm") \cup With(gbl, "del") :
      \E k \in TC : PM[k] = PM[t] /\ <<k, "tc">> \in gbl /\ <<k, "pm">> \in gbl

(* update_global() takes no testcase away.                                 *)
LEMMA UpdateGlobal1Maps ==
  ASSUME IInv, MapsKept, UpdateGlobal1
  PROVE  MapsKept'
<1>1. PICK new \in SUBSET TC1 : Grows(new) /\ UNCHANGED <<disable_stage2, dir>>
  BY UpdateGlobal1Grows
<1>2. GlobalFiles'
  BY UpdateGlobal1IInv DEF IInv
<1> SUFFICES ASSUME disable_stage2,
                    NEW t \in With(gbl, "pm")' \cup With(gbl, "del")'
             PROVE  \E k \in TC : /\ PM[k] = PM[t]
                                  /\ <<k, "tc">> \in gbl' /\ <<k, "pm">> \in gbl'
  BY <1>1 DEF MapsKept
<1>3. CASE t \in With(gbl, "pm")'
  BY <1>2, <1>3 DEF With, GlobalFiles, Meta
<1>4. CASE t \in With(gbl, "del")'
  <2>1. <<t, "del">> \notin dir
    BY DEF IInv, TypeOK, Meta
  <2>2. t \in With(gbl, "del")
    BY <1>1, <1>4, <2>1 DEF Grows, With, File
  <2>3. PICK k \in TC : PM[k] = PM[t] /\ <<k, "tc">> \in gbl /\ <<k, "pm">> \in gbl
    BY <2>2 DEF MapsKept
  <2> QED BY <1>1, <2>3 DEF Grows, File, Meta
<1> QED BY <1>3, <1>4

(* Minimization keeps a testcase for every PM map it looks at.             *)
LEMMA MinimizeGblMaps ==
  ASSUME IInv, MapsKept, MinimizeGbl
  PROVE  MapsKept'
<1> DEFINE ins == With(gbl, "tc") \cap With(gbl, "pm")
<1>0. /\ (\E keep \in OnePer(ins, PM) : Shrinks(ins \ keep)) \/ UNCHANGED gbl
      /\ UNCHANGED disable_stage2
  BY MinimizeGblShrinks
<1>a. CASE UNCHANGED gbl
  BY <1>0, <1>a DEF MapsKept, With
<1> SUFFICES ASSUME \E keep \in OnePer(ins, PM) : Shrinks(ins \ keep)
             PROVE  MapsKept'
  BY <1>0, <1>a
<1>1. PICK keep \in OnePer(ins, PM) :
        Shrinks(ins \ keep) /\ UNCHANGED disable_stage2
  BY <1>0
<1>2. keep \subseteq ins /\ \A s \in ins : \E k \in keep : PM[k] = PM[s]
  BY <1>1, OnePerKeeps
<1>3. GlobalFiles'
  BY MinimizeGblIInv DEF IInv
<1>4. ASSUME NEW s \in ins
      PROVE  \E k \in TC : /\ PM[k] = PM[s]
                           /\ <<k, "tc">> \in gbl' /\ <<k, "pm">> \in gbl'
  <2>1. PICK k \in keep : PM[k] = PM[s]
    BY <1>2
  <2>2. k \in TC /\ <<k, "tc">> \in gbl /\ <<k, "pm">> \in gbl
    BY <1>2 DEF With
  <2>3. <<k, "tc">> \in gbl' /\ <<k, "pm">> \in gbl'
    BY <1>1, <2>2 DEF Shrinks, File, Meta
  <2> QED BY <2>1, <2>2, <2>3
<1> SUFFICES ASSUME disable_stage2,
                    NEW t \in With(gbl, "pm")' \cup With(gbl, "del")'
             PROVE  \E k \in TC : /\ PM[k] = PM[t]
                                  /\ <<k, "tc">> \in gbl' /\ <<k, "pm">> \in gbl'
  BY <1>1 DEF MapsKept
<1>5. CASE t \in With(gbl, "pm")'
  BY <1>3, <1>5 DEF With, GlobalFiles, Meta
<1>6. CASE t \in With(gbl, "del")' /\ t \notin With(gbl, "del")
  <2>1. t \in ins
    BY <1>1, <1>6 DEF Shrinks, With, File, Meta
  <2> QED BY <1>4, <2>1
<1>7. CASE t \in With(gbl, "del")
  <2>1. PICK k \in TC : PM[k] = PM[t] /\ <<k, "tc">> \in gbl /\ <<k, "pm">> \in gbl
    BY <1>7 DEF MapsKept
  <2>2. k \in ins
    BY <2>1 DEF With
  <2> QED BY <1>4, <2>1, <2>2
<1> QED BY <1>5, <1>6, <1>7

(* Without stage 2, minimization loses no PM map (minimize_corpus_gbl).    *)
THEOREM GlobalMinimizationKeepsPM == Spec => []GlobalKeepsPM
<1>1. Init => MapsKept
  BY DEF Init, MapsKept, With
<1>2. ASSUME IInv, MapsKept, [Next]_vars
      PROVE  MapsKept'
  <2> USE <1>2
  <2>1. CASE UpdateGlobal1
    BY <2>1, UpdateGlobal1Maps
  <2>2. CASE MinimizeGbl
    BY <2>2, MinimizeGblMaps
  <2>3. CASE UNCHANGED <<disable_stage2, gbl>>
    BY <2>3 DEF MapsKept, With
  <2>4. disable_stage2 => pc \notin {"stage2", "pass", "kill_all", "finish"}
    BY DEF IInv, Phases
  <2>5. CASE \E j \in Job : Start(j) \/ Terminate(j)
    <3>1. ~disable_stage2 /\ UNCHANGED disable_stage2
      BY <2>4, <2>5 DEF Start, Terminate
    <3> QED BY <3>1 DEF MapsKept
  <2>6. CASE UpdateLocal \/ FinalDedup \/ CollectAll
    <3>1. ~disable_stage2 /\ UNCHANGED disable_stage2
      BY <2>4, <2>6 DEF UpdateLocal, FinalDedup, CollectAll
    <3> QED BY <3>1 DEF MapsKept
  <2> QED
    BY <2>1, <2>2, <2>3, <2>5, <2>6
       DEF Next, Main, AflWrites, ListQueue, Collected, TooEarly, PassEnds,
           Completes, CollectTC, global, vars
<1>3. IInv /\ MapsKept => GlobalKeepsPM
  <2> SUFFICES ASSUME MapsKept, disable_stage2 PROVE KeepsPM
    BY DEF GlobalKeepsPM
  <2> QED BY DEF MapsKept, KeepsPM
<1>4. Spec => []MapsKept
  BY <1>1, <1>2, StoresInv, PTL DEF Spec
<1> QED BY <1>3, <1>4, StoresInv, PTL
-----------------------------------------------------------------------------
(* A PM map file is that of a testcase with a PM map, wherever it is.      *)
PMFiles ==
  \A t \in TC : /\ queue[t] = "pm" => PM[t] # NoMap
                /\ <<t, "pm">> \in dir \cup gbl \cup loc => PM[t] # NoMap

(* With stage 2, what the global store drops is still in the local store.  *)
DroppedInLocal ==
  ~disable_stage2 =>
    \A t \in With(gbl, "del") : <<t, "tc">> \in loc /\ <<t, "pm">> \in loc

\* What goes where in a step: files are copied from the queue to the stage,
\* from there to the global store, and from there to the local store.
Flows ==
  /\ \A t \in TC, f \in Meta :
       /\ <<t, f>> \in dir' => <<t, f>> \in dir \/ <<t, f>> \in Queued(t)
       /\ <<t, f>> \in gbl' => <<t, f>> \in dir \cup gbl
       /\ <<t, f>> \in loc' => <<t, f>> \in gbl \cup loc
  /\ \A t \in TC : queue'[t] = "pm" => queue[t] = "pm" \/ PM[t] # NoMap
  /\ loc \subseteq loc' /\ disable_stage2' = disable_stage2

\* What a minimization of stage 2 does to the global store.
LocalMinimum(drop) ==
  /\ Shrinks(drop) /\ ~disable_stage2 /\ pc # "ended"
  /\ Repeats(drop)

\* What a minimization of the global store drops repeats the PM map of one
\* that stays.
GlobalMinimum(drop) ==
  /\ Shrinks(drop) /\ disable_stage2
  /\ drop \subseteq With(gbl, "tc") \cap With(gbl, "pm")
  /\ \A t \in drop :
       \E k \in With(gbl, "tc") \ drop : PM[k] = PM[t]
-----------------------------------------------------------------------------
(* Only the testcases that AFL has given a PM map have the file.           *)
LEMMA QueuedPM ==
  ASSUME TypeOK, NEW t \in TC, <<t, "pm">> \in Queued(t)
  PROVE  queue[t] = "pm"
<1>1. queue[t] \in {"none", "tc", "map", "pm"}
  BY DEF TypeOK, Level, Meta
<1> QED BY <1>1 DEF Queued

(* A step of the main process or of AFL, as far as the global store sees   *)
(* it: nothing, an arrival, a minimization.                                *)
GlobalStep ==
  /\ Flows
  /\ \/ UNCHANGED gbl
     \/ \E new : Grows(new)
     \/ \E drop : LocalMinimum(drop) \/ GlobalMinimum(drop)

(* The steps that do not touch the global store.                           *)
LEMMA GlobalUntouched ==
  ASSUME IInv,
         \/ \E t \in TC : AflWrites(t)
         \/ ListQueue \/ Collected \/ TooEarly \/ PassEnds \/ Completes
         \/ \E t \in TC1 : CollectTC(t)
         \/ UpdateLocal \/ (\E j \in Job : Start(j)) \/ CollectAll
         \/ UNCHANGED vars
  PROVE  Flows /\ UNCHANGED gbl
<1> USE DEF IInv
<1>1. CASE \E t \in TC : AflWrites(t)
  <2>1. PICK t \in TC : AflWrites(t)
    BY <1>1
  <2>2. UNCHANGED <<dir, gbl, loc, disable_stage2>>
    BY <2>1 DEF AflWrites, stages, global, local
  <2>3. \A u \in TC : queue'[u] = "pm" => queue[u] = "pm" \/ PM[u] # NoMap
    BY <2>1 DEF AflWrites, TypeOK
  <2> QED BY <2>2, <2>3 DEF Flows
<1>2. CASE ListQueue \/ Collected \/ TooEarly \/ PassEnds \/ Completes
  BY <1>2 DEF Flows, ListQueue, Collected, TooEarly, PassEnds, Completes,
              afl, stages, global, local
<1>3. CASE \E t \in TC1 : CollectTC(t)
  <2>1. PICK t \in TC1 : CollectTC(t)
    BY <1>3
  <2>2. t \in TC /\ Queued(t) \subseteq {t} \X Meta
    BY QueuedFiles DEF TC
  <2>3. /\ dir' = dir \cup Queued(t)
        /\ UNCHANGED <<queue, gbl, loc, disable_stage2>>
    BY <2>1 DEF CollectTC, afl, global, local
  <2>4. \A u \in TC, f \in Meta :
          <<u, f>> \in dir' => <<u, f>> \in dir \/ <<u, f>> \in Queued(u)
    BY <2>2, <2>3
  <2> QED BY <2>3, <2>4 DEF Flows
<1>4. CASE UpdateLocal
  <2>1. /\ loc \subseteq loc' /\ \A x \in loc' : x \in loc \cup gbl
        /\ UNCHANGED <<queue, dir, gbl, disable_stage2>>
    BY <1>4 DEF UpdateLocal, afl, stages, global
  <2> QED BY <2>1 DEF Flows
<1>5. CASE \E j \in Job : Start(j)
  BY <1>5 DEF Flows, Start, afl, stages, global
<1>6. CASE CollectAll
  <2> DEFINE new == {t \in TC2 : queue[t] # "none" /\ <<t, "tc">> \notin dir}
  <2>1. CollectNew(new) /\ UNCHANGED <<queue, gbl, loc, disable_stage2>>
    BY <1>6 DEF CollectAll, afl, global, local
  <2>2. new \in SUBSET TC2
    OBVIOUS
  <2> HIDE DEF new
  <2>3. \A u \in TC, f \in Meta :
          <<u, f>> \in dir' => <<u, f>> \in dir \/ <<u, f>> \in Queued(u)
    <3>1. PICK got \in [new -> Progress] : dir' = dir \cup Copied(new, got)
      BY <2>1 DEF CollectNew
    <3>2. Directory(dir')
      BY <2>2, <3>1, CollectedDirectory
    <3> QED BY <3>2 DEF Directory
  <2> QED BY <2>1, <2>3 DEF Flows
<1>7. CASE UNCHANGED vars
  BY <1>7 DEF Flows, vars
<1> QED BY <1>1, <1>2, <1>3, <1>4, <1>5, <1>6, <1>7

(* Both minimizations, with the copy that is kept instead.                 *)
LEMMA TerminateMinimizes ==
  ASSUME IInv, NEW j \in Job, Terminate(j)
  PROVE  GlobalStep
<1> USE DEF IInv
<1>1. /\ pc \in {"pass", "kill_all"} /\ why = "" /\ job[j] = "running"
      /\ UNCHANGED <<disable_stage2, queue, loc>>
  BY DEF Terminate, TypeOK, afl
<1>2. HasImage(j)
  BY <1>1 DEF HasImage, LocalFiles, With, TypeOK, TC
<1>3. CollectChildren(j)
  BY <1>2 DEF Terminate
<1>4. PICK drop : Shrinks(drop) /\ Repeats(drop)
  BY <1>1, <1>3, CollectChildrenStep
<1>5. Directory(dir')
  BY <1>1, <1>3, CollectChildrenStep
<1>8. LocalMinimum(drop)
  <2>1. ~disable_stage2
    BY <1>1 DEF Phases
  <2> QED BY <1>1, <1>4, <2>1 DEF LocalMinimum
<1>9. Flows
  <2>1. \A t \in TC, f \in Meta : <<t, f>> \in gbl' => <<t, f>> \in gbl
    BY <1>4 DEF Shrinks, File, Meta, Repeats
  <2> QED BY <1>1, <1>5, <2>1 DEF Flows, Directory
<1> QED BY <1>8, <1>9 DEF GlobalStep

(* Global minimization drops what repeats the PM map of another one there. *)
LEMMA MinimizeGblMinimizes ==
  ASSUME IInv, MinimizeGbl, disable_stage2
  PROVE  GlobalStep
<1> DEFINE ins == With(gbl, "tc") \cap With(gbl, "pm")
<1>0. /\ (\E keep \in OnePer(ins, PM) : Shrinks(ins \ keep)) \/ UNCHANGED gbl
      /\ UNCHANGED <<disable_stage2, queue, dir, loc>>
  BY MinimizeGblShrinks
<1>a. CASE UNCHANGED gbl
  BY <1>0, <1>a DEF GlobalStep, Flows
<1> SUFFICES ASSUME \E keep \in OnePer(ins, PM) : Shrinks(ins \ keep)
             PROVE  GlobalStep
  BY <1>0, <1>a
<1>1. PICK keep \in OnePer(ins, PM) :
        Shrinks(ins \ keep) /\ UNCHANGED <<disable_stage2, queue, dir, loc>>
  BY <1>0
<1>2. keep \subseteq ins /\ \A s \in ins : \E k \in keep : PM[k] = PM[s]
  BY <1>1, OnePerKeeps
<1>3. GlobalMinimum(ins \ keep)
  BY <1>1, <1>2 DEF GlobalMinimum
<1>4. Flows
  <2>1. \A t \in TC, f \in Meta : <<t, f>> \in gbl' => <<t, f>> \in gbl
    BY <1>1 DEF Shrinks, File, Meta
  <2> QED BY <1>1, <2>1 DEF Flows
<1> QED BY <1>3, <1>4 DEF GlobalStep

(* Both calls of update_global().                                          *)
LEMMA UpdatesGrow ==
  ASSUME IInv, UpdateGlobal1 \/ FinalDedup
  PROVE  GlobalStep
<1> USE DEF IInv
<1>1. UNCHANGED <<disable_stage2, queue, dir, loc>>
  BY DEF UpdateGlobal1, FinalDedup, afl, stages, local
<1>2. UNCHANGED gbl \/ \E new : Grows(new)
  <2>1. CASE UpdateGlobal1
    BY <2>1, UpdateGlobal1Grows
  <2>2. CASE FinalDedup
    <3> DEFINE new == (TC2 \cap With(dir, "tc"))
                        \ (With(gbl, "tc") \cup With(gbl, "del"))
    <3>1. \/ UNCHANGED gbl
          \/ gbl' = gbl \cup {g \in dir : g[1] \in new} \cup (new \X {"img"})
      BY <2>2 DEF FinalDedup, UpdateGlobal, global
    <3>2. /\ new \subseteq TC
          /\ \A t \in new : /\ <<t, "tc">> \in dir
                            /\ {<<t, "tc">>, <<t, "del">>} \cap gbl = {}
      BY DEF With, TC
    <3> HIDE DEF new
    <3>3. CASE gbl' = gbl \cup {g \in dir : g[1] \in new} \cup (new \X {"img"})
      <4>1. \A t \in TC, f \in File :
              <<t, f>> \in gbl' <=>
                <<t, f>> \in gbl \/ (t \in new /\ (<<t, f>> \in dir \/ f = "img"))
        BY <3>3
      <4>2. Grows(new)
        BY <3>2, <4>1 DEF Grows
      <4> QED BY <4>2
    <3> QED BY <3>1, <3>3
  <2> QED BY <2>1, <2>2
<1>3. \A t \in TC, f \in Meta : <<t, f>> \in gbl' => <<t, f>> \in dir \cup gbl
  BY <1>2 DEF Grows, Meta, File
<1> QED BY <1>1, <1>2, <1>3 DEF GlobalStep, Flows

(* Every step is one of these, for the global store.                       *)
LEMMA NextGlobalStep ==
  ASSUME IInv, [Next]_vars, pc = "minimize" => disable_stage2
  PROVE  GlobalStep
<1>1. CASE \/ \E t \in TC : AflWrites(t)
           \/ ListQueue \/ Collected \/ TooEarly \/ PassEnds \/ Completes
           \/ \E t \in TC1 : CollectTC(t)
           \/ UpdateLocal \/ (\E j \in Job : Start(j)) \/ CollectAll
           \/ UNCHANGED vars
  BY <1>1, GlobalUntouched DEF GlobalStep
<1>2. CASE UpdateGlobal1 \/ FinalDedup
  BY <1>2, UpdatesGrow
<1>3. CASE MinimizeGbl
  BY <1>3, MinimizeGblMinimizes DEF MinimizeGbl
<1>4. CASE \E j \in Job : Terminate(j)
  BY <1>4, TerminateMinimizes
<1> QED BY <1>1, <1>2, <1>3, <1>4 DEF Next, Main

(* What the refinement needs: minimization of the global store is without  *)
(* stage 2, and the PM files are those of testcases with a PM map.         *)
StoreInv ==
  /\ PMFiles /\ DroppedInLocal
  /\ pc = "minimize" => disable_stage2

(* Where the main process goes: to minimization without stage 2 only, and  *)
(* to the end of the iteration only by its own two steps.                  *)
LEMMA Moves ==
  ASSUME IInv, [Next]_vars
  PROVE  /\ pc' = "minimize" => pc = "minimize" \/ disable_stage2
         /\ \/ (\E t \in TC : AflWrites(t)) \/ UNCHANGED vars
            \/ CollectAll \/ FinalDedup
            \/ pc' # "finish" /\ why' # "dedup"
<1> USE DEF IInv
<1>1. CASE UpdateGlobal1
  <2>1. pc = "update" /\ why = ""
    BY <1>1 DEF UpdateGlobal1, TypeOK
  <2> QED BY <1>1, <2>1, UpdateGlobal1Grows
<1>2. CASE \E j \in Job : Terminate(j)
  <2>1. PICK j \in Job : Terminate(j)
    BY <1>2
  <2>2. pc \in {"pass", "kill_all"} /\ why = ""
    BY <2>1 DEF Terminate, TypeOK
  <2>3. \/ UNCHANGED ctl
        \/ pc' = "ended" /\ why' \in {"sanity", "worker", "hash", "cmin"}
    BY <2>1, <2>2, CollectChildrenStep DEF Terminate, End, Aborts
  <2> QED BY <2>2, <2>3 DEF ctl
<1>3. CASE MinimizeGbl
  <2>1. pc = "minimize" /\ why = ""
    BY <1>3 DEF MinimizeGbl, TypeOK
  <2> QED BY <1>3, <2>1, MinimizeGblShrinks DEF End
<1>4. CASE CollectAll
  <2>1. pc' # "minimize"
    BY <1>4 DEF CollectAll, CollectNew, End
  <2> QED BY <1>4, <2>1
<1>10. CASE FinalDedup
  <2>1. pc' # "minimize"
    BY <1>10 DEF FinalDedup, UpdateGlobal, End
  <2> QED BY <1>10, <2>1
<1>5. CASE UpdateLocal
  BY <1>5 DEF UpdateLocal, End, TypeOK
<1>6. CASE \E t \in TC1 : CollectTC(t)
  BY <1>6 DEF CollectTC, End, TypeOK
<1>7. CASE UNCHANGED vars \/ \E t \in TC : AflWrites(t)
  BY <1>7 DEF vars, AflWrites, ctl
<1>8. CASE ListQueue \/ Collected \/ TooEarly \/ PassEnds \/ Completes
  BY <1>8 DEF ListQueue, Collected, TooEarly, PassEnds, Completes, TypeOK
<1>9. CASE \E j \in Job : Start(j)
  BY <1>9 DEF Start, ctl, TypeOK
<1> QED BY <1>1, <1>2, <1>3, <1>4, <1>5, <1>6, <1>7, <1>8, <1>9,
        <1>10 DEF Next, Main

(* Every step keeps it.                                                    *)
LEMMA NextStoreInv ==
  ASSUME IInv, StoreInv, [Next]_vars
  PROVE  StoreInv'
<1>1. GlobalStep
  BY NextGlobalStep DEF StoreInv
<1>2. Flows
  BY <1>1 DEF GlobalStep
<1>3. PMFiles'
  <2>1. ASSUME NEW t \in TC, <<t, "pm">> \in Queued(t)
        PROVE  PM[t] # NoMap
    BY <2>1, QueuedPM DEF IInv, StoreInv, PMFiles
  <2> QED BY <1>2, <2>1 DEF StoreInv, PMFiles, Flows, Meta
<1>4. DroppedInLocal'
  <2> SUFFICES ASSUME ~disable_stage2, NEW t \in TC, <<t, "del">> \in gbl'
               PROVE  <<t, "tc">> \in loc' /\ <<t, "pm">> \in loc'
    BY <1>2 DEF DroppedInLocal, With, Flows
  <2>1. CASE <<t, "del">> \in gbl
    BY <1>2, <2>1 DEF StoreInv, DroppedInLocal, With, Flows
  <2>2. CASE <<t, "del">> \notin gbl
    <3>1. ~ \E new : Grows(new)
      <4>1. <<t, "del">> \notin dir
        BY DEF IInv, TypeOK, Meta
      <4> QED BY <2>2, <4>1 DEF Grows, File
    <3>2. PICK drop : LocalMinimum(drop)
      BY <1>1, <2>2, <3>1 DEF GlobalStep, GlobalMinimum
    <3>3. t \in drop /\ <<t, "tc">> \in gbl
      BY <2>2, <3>2 DEF LocalMinimum, Shrinks, File
    <3>4. t \in TC1
      BY <3>2, <3>3 DEF LocalMinimum, IInv, StageFiles, TC, File, Meta
    <3>5. <<t, "pm">> \in loc
      BY <3>2, <3>3, <3>4 DEF LocalMinimum, Repeats
    <3>6. <<t, "tc">> \in loc
      BY <3>4, <3>5 DEF IInv, LocalFiles, Meta
    <3> QED BY <1>2, <3>5, <3>6 DEF Flows
  <2> QED BY <2>1, <2>2
<1>5. (pc = "minimize" => disable_stage2)'
  BY <1>2, Moves DEF StoreInv, Flows
<1> QED BY <1>3, <1>4, <1>5 DEF StoreInv

(* It holds in every state.                                                *)
LEMMA StoreInvariant == Spec => []StoreInv
<1>1. Init => StoreInv
  BY DEF Init, StoreInv, PMFiles, DroppedInLocal, With
<1> QED BY <1>1, NextStoreInv, StoresInv, PTL DEF Spec

(* With stage 2, a testcase that the global store has dropped is in the    *)
(* local store with its PM map. minimize_corpus_lcl() compares with the    *)
(* local store (dedup.py:461) and so drops maps from the global store, but *)
(* it loses none: stage 2 goes on fuzzing a testcase with each.            *)
THEOREM DroppedStaysLocal == Spec => []DroppedInLocal
<1>1. StoreInv => DroppedInLocal
  BY DEF StoreInv
<1> QED BY <1>1, StoreInvariant, PTL
-----------------------------------------------------------------------------
(* What comes to the global store is added to the abstract one.            *)
LEMMA GrowsAdds ==
  ASSUME IInv, NEW new, Grows(new), UNCHANGED disable_stage2
  PROVE  new \subseteq TC /\ Abs!Add(new)
<1> USE DEF Abs!Add, With
<1>1. new \subseteq TC
  BY DEF Grows
<1>2. new \cap (With(gbl, "tc") \cup With(gbl, "del")) = {}
  BY DEF Grows
<1>3. \A t \in TC : /\ <<t, "tc">> \in gbl' <=> <<t, "tc">> \in gbl \/ t \in new
                    /\ <<t, "img">> \in gbl' <=> <<t, "img">> \in gbl \/ t \in new
                    /\ <<t, "del">> \in gbl' <=> <<t, "del">> \in gbl
  <2> SUFFICES ASSUME NEW t \in TC
               PROVE  /\ <<t, "tc">> \in gbl' <=> <<t, "tc">> \in gbl \/ t \in new
                      /\ <<t, "img">> \in gbl' <=> <<t, "img">> \in gbl \/ t \in new
                      /\ <<t, "del">> \in gbl' <=> <<t, "del">> \in gbl
    OBVIOUS
  <2>1. <<t, "del">> \notin dir /\ <<t, "img">> \notin dir
    BY DEF IInv, TypeOK, Meta
  <2>2. <<t, "del">> \in gbl' <=> <<t, "del">> \in gbl
    BY <2>1 DEF Grows, File
  <2>3. <<t, "img">> \in gbl' <=> <<t, "img">> \in gbl \/ t \in new
    BY <2>1 DEF Grows, File
  <2>4. <<t, "tc">> \in gbl' <=> <<t, "tc">> \in gbl \/ t \in new
    BY DEF Grows, File, Meta
  <2> QED BY <2>2, <2>3, <2>4
<1> QED BY <1>1, <1>2, <1>3

(* What is minimized away is dropped from the abstract one.                *)
LEMMA ShrinksDrops ==
  ASSUME IInv, NEW drop, Shrinks(drop)
  PROVE  LET old == drop \cap With(gbl, "tc") IN
         /\ With(gbl', "tc") = With(gbl, "tc") \ old
         /\ With(gbl', "del") = With(gbl, "del") \cup old
         /\ With(gbl', "img") = With(gbl, "img")
<1>1. \A t \in TC :
        /\ <<t, "tc">> \in gbl' <=> <<t, "tc">> \in gbl /\ t \notin drop
        /\ <<t, "img">> \in gbl' <=> <<t, "img">> \in gbl
        /\ <<t, "del">> \in gbl' <=>
             <<t, "del">> \in gbl \/ (t \in drop /\ <<t, "tc">> \in gbl)
  <2> TAKE t \in TC
  <2>0. /\ {"tc", "img", "del"} \subseteq File
        /\ "tc" \in Meta /\ "img" \notin Meta /\ "del" \notin Meta
        /\ "tc" # "del" /\ "img" # "del"
    BY DEF File, Meta
  <2>1. <<t, "tc">> \in gbl' <=> <<t, "tc">> \in gbl /\ t \notin drop
    BY <2>0 DEF Shrinks
  <2>2. <<t, "img">> \in gbl' <=> <<t, "img">> \in gbl
    BY <2>0 DEF Shrinks
  <2>3. <<t, "del">> \in gbl' <=>
          <<t, "del">> \in gbl \/ (t \in drop /\ <<t, "tc">> \in gbl)
    BY <2>0 DEF Shrinks
  <2> QED BY <2>1, <2>2, <2>3
<1> QED BY <1>1 DEF With

(* What global minimization drops is an abstract drop.                     *)
LEMMA GlobalMinimumDrops ==
  ASSUME IInv, StoreInv, NEW drop, GlobalMinimum(drop), UNCHANGED disable_stage2
  PROVE  \E S \in SUBSET TC : Abs!Drop(S)
<1> DEFINE old == drop \cap With(gbl, "tc")
<1>1. old \subseteq With(gbl, "tc") /\ old \in SUBSET TC /\ old = drop
  BY DEF With, GlobalMinimum
<1>2. /\ With(gbl', "tc") = With(gbl, "tc") \ old
      /\ With(gbl', "del") = With(gbl, "del") \cup old
      /\ With(gbl', "img") = With(gbl, "img")
  BY ShrinksDrops DEF GlobalMinimum
<1>3. \A t \in old : /\ PM[t] # NoMap
                     /\ \E k \in With(gbl', "tc") : PM[k] = PM[t]
  BY <1>1, <1>2 DEF GlobalMinimum, With, StoreInv, PMFiles
<1> HIDE DEF old
<1>4. Abs!Drop(old)
  <2>1. disable_stage2
    BY DEF GlobalMinimum
  <2>2. With(gbl, "tc")' = With(gbl', "tc") /\ With(gbl, "del")' = With(gbl', "del")
        /\ With(gbl, "img")' = With(gbl', "img")
    BY DEF With
  <2> QED BY <1>1, <1>2, <1>3, <2>1, <2>2 DEF Abs!Drop
<1> QED BY <1>1, <1>4

(* What a minimization of stage 2 drops is one, too.                       *)
LEMMA LocalMinimumDrops ==
  ASSUME IInv, StoreInv, NEW drop, LocalMinimum(drop), UNCHANGED disable_stage2
  PROVE  \E S \in SUBSET TC : Abs!Drop(S)
<1> DEFINE old == drop \cap With(gbl, "tc")
<1>1. old \subseteq With(gbl, "tc") /\ old \in SUBSET TC /\ old \subseteq drop
  BY DEF With
<1>2. /\ With(gbl', "tc") = With(gbl, "tc") \ old
      /\ With(gbl', "del") = With(gbl, "del") \cup old
      /\ With(gbl', "img") = With(gbl, "img")
  BY ShrinksDrops DEF LocalMinimum
<1>3. ASSUME NEW t \in old
      PROVE  PM[t] # NoMap
  <2>1. t \in TC /\ t \in drop
    BY <1>1
  <2>2. \/ <<t, "pm">> \in loc \/ <<t, "pm">> \in dir
        \/ <<t, "pm">> \in Queued(t)
    BY <2>1 DEF LocalMinimum, Repeats
  <2> QED BY <2>1, <2>2, QueuedPM DEF IInv, StoreInv, PMFiles
<1>4. ASSUME NEW t \in old
      PROVE  \E k \in (With(gbl, "tc") \cup With(gbl, "del") \cup TC2) \ old :
               PM[k] = PM[t]
  <2>1. PICK k \in (TC2 \cup With(loc, "pm")) \ drop : PM[k] = PM[t]
    BY <1>1 DEF LocalMinimum, Repeats
  <2>2. CASE k \in TC2
    BY <1>1, <2>1, <2>2
  <2>3. CASE k \in With(loc, "pm")
    <3>1. k \in TC1 /\ <<k, "pm">> \in loc
      BY <2>3 DEF With, IInv, TypeOK
    <3>2. <<k, "img">> \in gbl
      BY <3>1 DEF IInv, LocalFiles, Meta
    <3>3. k \in With(gbl, "tc") \cup With(gbl, "del")
      BY <3>1, <3>2 DEF IInv, GlobalFiles, With, TC
    <3> QED BY <1>1, <2>1, <3>3
  <2> QED BY <2>1, <2>2, <2>3
<1> HIDE DEF old
<1>5. Abs!Drop(old)
  <2>1. ~disable_stage2
    BY DEF LocalMinimum
  <2>2. With(gbl, "tc")' = With(gbl', "tc") /\ With(gbl, "del")' = With(gbl', "del")
        /\ With(gbl, "img")' = With(gbl', "img")
    BY DEF With
  <2> QED BY <1>1, <1>2, <1>3, <1>4, <2>1, <2>2 DEF Abs!Drop
<1> QED BY <1>1, <1>5

(* Every step is one of the abstract store or leaves it alone.             *)
LEMMA StoreStep ==
  ASSUME IInv, StoreInv, [Next]_vars
  PROVE  [Abs!Next]_(Abs!storeVars)
<1>1. GlobalStep /\ UNCHANGED disable_stage2
  BY NextGlobalStep DEF StoreInv, GlobalStep, Flows
<1>2. CASE UNCHANGED gbl
  BY <1>1, <1>2 DEF Abs!storeVars, With
<1>3. CASE \E new : Grows(new)
  BY <1>1, <1>3, GrowsAdds DEF Abs!Next
<1>4. CASE \E drop : LocalMinimum(drop)
  BY <1>1, <1>4, LocalMinimumDrops DEF Abs!Next
<1>5. CASE \E drop : GlobalMinimum(drop)
  BY <1>1, <1>5, GlobalMinimumDrops DEF Abs!Next
<1> QED BY <1>1, <1>2, <1>3, <1>4, <1>5 DEF GlobalStep

(* The global store with its files, stages, queues and jobs implements the *)
(* abstract store: whole arrivals, once; drops only of what repeats a PM   *)
(* map of one that is kept (update_global, minimize_corpus_gbl/_lcl).      *)
THEOREM ImplementsStore == Spec => AbsSpec
<1>1. Init => Abs!Init
  BY DEF Init, Abs!Init, With
<1> QED
  BY <1>1, StoreStep, StoresInv, StoreInvariant, PTL
     DEF Spec, AbsSpec, Abs!Spec
-----------------------------------------------------------------------------
(* What the jobs that were terminated have found, but for what was cut     *)
(* short, is in the directory of the stage when it is put into the global  *)
(* store, and then in the store.                                           *)
FoundInv ==
  \A t \in TC2 \ short :
    job[Origin[t]] = "done" /\ queue[t] # "none" =>
      /\ pc = "finish" => <<t, "tc">> \in dir
      /\ why = "dedup" => <<t, "tc">> \in gbl

(* collect_results() lists whatever is not in the directory.               *)
LEMMA CollectAllFinds ==
  ASSUME IInv, CollectAll
  PROVE  FoundInv'
<1> USE DEF IInv
<1> DEFINE new == {t \in TC2 : queue[t] # "none" /\ <<t, "tc">> \notin dir}
<1>1. /\ CollectNew(new) /\ UNCHANGED queue
      /\ pc = "kill_all" /\ why = ""
  BY DEF CollectAll, afl, TypeOK
<1>2. PICK got \in [new -> Progress] :
        /\ dir' = dir \cup Copied(new, got) /\ NoteShort(new, got)
        /\ UNCHANGED why \/ why' = "worker"
  BY <1>1 DEF CollectNew, End
<1>3. ASSUME NEW t \in TC2, queue[t] # "none", t \notin short'
      PROVE  <<t, "tc">> \in dir'
  <2>1. CASE <<t, "tc">> \in dir
    BY <1>2, <2>1
  <2>2. CASE <<t, "tc">> \notin dir
    <3>1. t \in TC /\ t \in new
      BY <1>3, <2>2 DEF TC
    <3> HIDE DEF new
    <3>2. queue[t] \in {"tc", "map", "pm"}
      BY <1>3, <3>1 DEF TypeOK, Level, Meta
    <3>3. <<t, "tc">> \in Queued(t)
      BY <3>2 DEF Queued, Meta
    <3>4. "img" \in got[t] /\ got[t] \in Progress
      BY <1>2, <1>3, <3>1 DEF NoteShort, Imaged
    <3>5. "tc" \in got[t]
      BY <3>4, ProgressFiles
    <3>6. <<t, "tc">> \in Copied(new, got)
      BY <3>1, <3>3, <3>5 DEF Copied
    <3> QED BY <1>2, <3>6
  <2> QED BY <2>1, <2>2
<1> HIDE DEF new
<1> QED BY <1>1, <1>2, <1>3 DEF FoundInv

(* update_global() of the completed stage takes all that is there: none of *)
(* it has been in the global store before.                                 *)
LEMMA FinalDedupFinds ==
  ASSUME IInv, FoundInv, FinalDedup
  PROVE  FoundInv'
<1> USE DEF IInv
<1> DEFINE new == (TC2 \cap With(dir, "tc"))
                    \ (With(gbl, "tc") \cup With(gbl, "del"))
<1>1. /\ pc = "finish" /\ pc' = "ended" /\ UNCHANGED <<queue, job, dir, short>>
      /\ \/ gbl' = gbl \cup {g \in dir : g[1] \in new} \cup (new \X {"img"})
         \/ why' = "image"
  BY DEF FinalDedup, UpdateGlobal, End, afl, stages, local
<1>2. \A t \in TC2 : <<t, "tc">> \in dir => t \in new
  <2> SUFFICES ASSUME NEW t \in TC2, <<t, "tc">> \in dir
               PROVE  t \in new
    OBVIOUS
  <2>1. <<t, "tc">> \notin gbl /\ <<t, "del">> \notin gbl
    BY <1>1 DEF StageFiles, File, Meta
  <2> QED BY <2>1 DEF With, TC
<1> HIDE DEF new
<1>3. ASSUME NEW t \in TC2 \ short, job[Origin[t]] = "done", queue[t] # "none",
             why' = "dedup"
      PROVE  <<t, "tc">> \in gbl'
  <2>1. <<t, "tc">> \in dir
    BY <1>1, <1>3 DEF FoundInv
  <2> QED BY <1>1, <1>2, <1>3, <2>1
<1> QED BY <1>1, <1>3 DEF FoundInv

(* Every step keeps it.                                                    *)
LEMMA NextFoundInv ==
  ASSUME IInv, FoundInv, [Next]_vars
  PROVE  FoundInv'
<1>1. CASE \E t \in TC : AflWrites(t)
  <2>1. PICK u \in TC : AflWrites(u)
    BY <1>1
  <2>2. UNCHANGED <<dir, gbl, job, pc, why, short>>
    BY <2>1 DEF AflWrites, stages, global, local, ctl
  <2>3. ASSUME NEW t \in TC2, job[Origin[t]] = "done", queue'[t] # "none"
        PROVE  queue[t] # "none"
    <3>1. CASE t = u
      BY <2>1, <2>3, <3>1 DEF AflWrites
    <3>2. CASE t # u
      BY <2>1, <2>3, <3>2 DEF AflWrites, IInv, TypeOK, TC
    <3> QED BY <3>1, <3>2
  <2> QED BY <2>2, <2>3 DEF FoundInv
<1>2. CASE UNCHANGED vars
  BY <1>2 DEF vars, FoundInv
<1>3. CASE pc' # "finish" /\ why' # "dedup"
  BY <1>3 DEF FoundInv
<1> QED BY <1>1, <1>2, <1>3, Moves, CollectAllFinds, FinalDedupFinds

(* What a terminated job of stage 2 has found is in the global store when  *)
(* the iteration has come to its deduplication, whatever DedupEngine and   *)
(* minimize_corpus_lcl() have removed in between: collect_results() copies *)
(* it again (stage2.py:919-980). Only a worker that fails unseen, when it  *)
(* is the last to collect a testcase, loses it.                            *)
THEOREM FoundAlwaysKept == Spec => []FoundKept
<1>1. Init => FoundInv
  BY DEF Init, FoundInv
<1>2. Spec => []FoundInv
  BY <1>1, NextFoundInv, StoresInv, PTL DEF Spec
<1>3. ASSUME IInv, FoundInv
      PROVE  FoundKept
  <2> SUFFICES ASSUME why = "dedup", NEW t \in TC2 \ short,
                      job[Origin[t]] = "done", queue[t] # "none"
               PROVE  Status(t) = "there"
    BY DEF FoundKept
  <2>1. <<t, "tc">> \in gbl
    BY <1>3 DEF FoundInv
  <2>2. t \in TC /\ GlobalFiles
    BY <1>3 DEF IInv, TC
  <2> QED BY <2>1, <2>2, StatusIs
<1> QED BY <1>2, <1>3, StoresInv, PTL
-----------------------------------------------------------------------------
(* Every step of the stores is one of the schedule, or none.               *)
LEMMA ScheduleStep ==
  ASSUME IInv, IInv', [Next]_vars
  PROVE  [Schedule!Next]_(Schedule!scheduleVars)
<1> USE DEF Schedule!scheduleVars
<1>a. /\ Schedule!Job = Job /\ CS1 = CS \ CS2
      /\ JobsIn("running") \cap JobsIn("done") = {}
      /\ job \in [Job -> {"new", "running", "done"}]
  BY DEF Schedule!Job, Job, JobsIn, IInv, TypeOK, CS1, CS2
<1>b. /\ loc' = loc => With(loc, "tc")' = With(loc, "tc")
      /\ \A s : job' = job => JobsIn(s)' = JobsIn(s)
  BY DEF With, JobsIn
<1>c. With(loc, "tc") \subseteq TC1 /\ loc_cs \subseteq CS1
  BY DEF IInv, TypeOK, With
<1> DEFINE Idle == {"loop", "collect", "update", "minimize", "stage2"}
<1>1. ASSUME NEW t \in TC, AflWrites(t)
      PROVE  UNCHANGED Schedule!scheduleVars
  BY <1>1, <1>b DEF AflWrites, local, ctl, StagePhase
<1>2. ASSUME \/ ListQueue \/ Collected \/ UpdateGlobal1 \/ MinimizeGbl \/ TooEarly
             \/ \E t \in TC1 : CollectTC(t)
      PROVE  Schedule!End \/ UNCHANGED Schedule!scheduleVars
  <2>1. pc \in Idle /\ pc' \in Idle \cup {"ended"} /\ UNCHANGED local
    BY <1>2 DEF ListQueue, Collected, UpdateGlobal1, UpdateGlobal, MinimizeGbl,
                TooEarly, CollectTC, End
  <2>2. StagePhase = "idle" /\ StagePhase' \in {"idle", "ended"}
    BY <2>1 DEF StagePhase
  <2> QED
    BY <2>1, <2>2, <1>b DEF local, Schedule!End
<1>3. ASSUME UpdateLocal
      PROVE  Schedule!End \/ \E S \in SUBSET Job : Schedule!Begin(S)
  <2> DEFINE new == (TC1 \cap With(gbl, "tc")) \ With(loc, "tc")
             S == With(loc, "tc")' \cup loc_cs'
  <2>1. pc = "stage2" /\ job' = job
    BY <1>3 DEF UpdateLocal
  <2>2. CASE loc' = loc /\ loc_cs' = loc_cs /\ pc' = "ended"
    BY <2>1, <2>2, <1>b DEF StagePhase, Schedule!End
  <2>3. CASE loc \subseteq loc' /\ loc_cs \subseteq loc_cs' /\ pc' = "pass"
    <3>1. StagePhase = "idle" /\ StagePhase' = "pass"
      BY <2>1, <2>3 DEF StagePhase
    <3>2. With(loc, "tc") \cup loc_cs \subseteq S
      BY <2>3 DEF With
    <3>3. S \in SUBSET Job
      BY DEF IInv, TypeOK, With, Job
    <3>4. Schedule!Begin(S)
      BY <2>1, <3>1, <3>2, <1>b DEF Schedule!Begin
    <3> QED
      BY <3>3, <3>4
  <2> QED
    BY <1>3, <2>2, <2>3 DEF UpdateLocal, End
<1>4. ASSUME NEW j \in Job, Start(j)
      PROVE  Schedule!Start(j)
  <2>1. /\ pc = "pass" /\ pc' = pc /\ loc' = loc /\ loc_cs' = loc_cs
        /\ j \in With(loc, "tc") \cup loc_cs /\ job[j] = "new"
        /\ job' = [job EXCEPT ![j] = "running"]
    BY <1>4 DEF Start, ctl
  <2>2. /\ j \notin JobsIn("running") \cup JobsIn("done")
        /\ JobsIn("running")' = JobsIn("running") \cup {j}
        /\ JobsIn("done")' = JobsIn("done")
    BY <2>1, <1>a DEF JobsIn
  <2>3. StagePhase = "pass" /\ StagePhase' = "pass"
    BY <2>1 DEF StagePhase
  <2> QED
    BY <2>1, <2>2, <2>3, <1>b DEF Schedule!Start
<1>5. ASSUME NEW j \in Job, Terminate(j)
      PROVE  Schedule!Finish(j)
  <2>1. /\ pc = "pass" \/ (pc = "kill_all" /\ j \in TC1)
        /\ loc' = loc /\ loc_cs' = loc_cs /\ job[j] = "running"
        /\ job' = [job EXCEPT ![j] = "done"]
    BY <1>5 DEF Terminate
  <2>2. pc' \in {pc, "ended"}
    <3>1. CollectChildren(j) \/ End("sanity")
      BY <1>5 DEF Terminate
    <3>2. why = ""
      BY <1>5 DEF Terminate, IInv, TypeOK
    <3>3. UNCHANGED ctl \/ Aborts \/ End("sanity")
      BY <3>1, <3>2, CollectChildrenStep
    <3> QED
      BY <3>3 DEF ctl, Aborts, End
  <2>3. /\ j \in JobsIn("running")
        /\ JobsIn("running")' = JobsIn("running") \ {j}
        /\ JobsIn("done")' = JobsIn("done") \cup {j}
    BY <2>1, <1>a DEF JobsIn
  <2>4. /\ StagePhase = "pass" \/ (StagePhase = "closing" /\ j \in TC1)
        /\ StagePhase' \in {StagePhase, "ended"}
    BY <2>1, <2>2 DEF StagePhase
  <2> QED
    BY <2>1, <2>3, <2>4, <1>b DEF Schedule!Finish
<1>6. ASSUME PassEnds
      PROVE  Schedule!EndPass
  BY <1>6, <1>b DEF PassEnds, local, StagePhase, Schedule!EndPass
<1>7. ASSUME Completes
      PROVE  Schedule!Close
  <2>1. /\ pc = "stage2" /\ pc' = "kill_all" /\ UNCHANGED local
        /\ \A t \in With(loc, "tc") : job[t] # "new"
    BY <1>7 DEF Completes
  <2>2. With(loc, "tc") \subseteq JobsIn("running") \cup JobsIn("done")
    BY <2>1, <1>a, <1>c DEF JobsIn, Job
  <2>3. loc_cs \cap TC1 = {}
    BY <1>c, DedupStoreAssumption DEF CS1, TC
  <2>4. StagePhase = "idle" /\ StagePhase' = "closing"
    BY <2>1 DEF StagePhase
  <2> QED
    BY <2>1, <2>2, <2>3, <2>4, <1>b DEF local, Schedule!Close
<1>8. ASSUME CollectAll
      PROVE  Schedule!Closed({}) \/ Schedule!End
  <2>1. /\ pc = "kill_all" /\ pc' \in {"finish", "ended"} /\ UNCHANGED local
        /\ \A t \in TC1 : job[t] # "running"
    BY <1>8 DEF CollectAll, CollectNew, End
  <2>2. JobsIn("running") \cap TC1 = {}
    BY <2>1 DEF JobsIn
  <2>3. StagePhase = "closing" /\ StagePhase' \in {"closed", "ended"}
    BY <2>1 DEF StagePhase
  <2> QED
    BY <2>1, <2>2, <2>3, <1>b DEF local, Schedule!Closed, Schedule!End
<1>9. ASSUME FinalDedup
      PROVE  Schedule!End
  <2>1. pc' = "ended" /\ UNCHANGED local
    BY <1>9 DEF FinalDedup, UpdateGlobal, End
  <2>2. StagePhase' = "ended"
    BY <2>1 DEF StagePhase
  <2> QED
    BY <2>1, <2>2, <1>b DEF local, Schedule!End
<1>10. ASSUME UNCHANGED vars
       PROVE  UNCHANGED Schedule!scheduleVars
  BY <1>10, <1>b DEF vars, StagePhase
<1> QED
  BY <1>a, <1>1, <1>2, <1>3, <1>4, <1>5, <1>6, <1>7, <1>8, <1>9, <1>10
  DEF Next, Main, Schedule!Next

(* Whatever happens to the files, the stores see jobs start and end in no  *)
(* other order than the one the scheduler keeps to.                        *)
THEOREM ImplementsSchedule == Spec => ScheduleSpec
<1>1. Init => Schedule!Init
  BY DEF Init, Schedule!Init, With, JobsIn, StagePhase
<1>2. IInv /\ IInv' /\ [Next]_vars => [Schedule!Next]_(Schedule!scheduleVars)
  BY ScheduleStep
<1> QED
  BY <1>1, <1>2, StoresInv, PTL DEF Spec, ScheduleSpec, Schedule!Spec
=============================================================================
