--------------------------- MODULE Lineage_proofs ---------------------------
(***************************************************************************)
(* What the names of testcases tell: the parent of a child is its job, the *)
(* iteration rises with every child and not with crash sites, a selection  *)
(* of ids that takes a child takes its job, and the image a testcase was   *)
(* found on is found by the testcase's name.                               *)
(***************************************************************************)
EXTENDS Lineage, DedupStore_proofs, FiniteSetTheorems, SequenceTheorems

(* A sequence with one more element.                                       *)
LEMMA LongerSeq ==
  ASSUME NEW S, NEW s \in Seq(S), NEW e \in S
  PROVE  /\ Len(s) \in Nat /\ DOMAIN s = 1 .. Len(s)
         /\ Append(s, e) \in Seq(S)
         /\ Len(Append(s, e)) = Len(s) + 1
         /\ DOMAIN Append(s, e) = 1 .. Len(s) + 1
         /\ \A i \in 1 .. Len(s) : Append(s, e)[i] = s[i]
         /\ Append(s, e)[Len(s) + 1] = e
         /\ SubSeq(Append(s, e), 1, Len(s)) = s
<1>1. /\ Append(s, e) \in Seq(S) /\ Len(Append(s, e)) = Len(s) + 1
      /\ \A i \in 1 .. Len(s) : Append(s, e)[i] = s[i]
      /\ Append(s, e)[Len(s) + 1] = e
  BY AppendProperties
<1>2. Len(s) \in Nat /\ DOMAIN s = 1 .. Len(s)
  BY LenProperties
<1>3. DOMAIN Append(s, e) = 1 .. Len(s) + 1
  BY <1>1, LenProperties
<1> DEFINE q == SubSeq(Append(s, e), 1, Len(s))
<1>4. q \in Seq(S) /\ Len(q) = Len(s) /\ \A i \in 1 .. Len(s) : q[i] = s[i]
  <2>1. \A i \in 1 .. Len(s) : Append(s, e)[i] \in S
    BY <1>1, ElementOfSeq
  <2> HIDE DEF q
  <2>2. /\ q \in Seq(S)
        /\ Len(q) = IF 1 <= Len(s) THEN Len(s) - 1 + 1 ELSE 0
        /\ \A i \in 1 .. Len(s) - 1 + 1 : q[i] = Append(s, e)[1 + i - 1]
    BY <2>1, <1>2, SubSeqProperties DEF q
  <2> QED
    BY <1>1, <1>2, <2>2
<1> HIDE DEF q
<1>5. q = s
  BY <1>2, <1>4, SeqEqual
<1> QED
  BY <1>1, <1>2, <1>3, <1>5 DEF q

(* A name is a sequence of ids and one of separators between them.         *)
LEMMA NameParts ==
  ASSUME NEW n \in Name
  PROVE  /\ n.ids \in Seq(Nat) /\ n.seps \in Seq({"comma", "dot"})
         /\ Len(n.ids) \in Nat \ {0} /\ Len(n.seps) = Len(n.ids) - 1
         /\ n = [ids |-> n.ids, seps |-> n.seps]
<1>1. /\ n.ids \in Seq(Nat) /\ n.seps \in Seq({"comma", "dot"}) /\ n.ids # <<>>
      /\ Len(n.seps) = Len(n.ids) - 1
      /\ n = [ids |-> n.ids, seps |-> n.seps]
  BY DEF Name
<1> QED
  BY <1>1, EmptySeq, LenProperties

(* A name w with one id and one separator more than n.                     *)
Longer(w, n, sep, id) ==
  /\ w.ids \in Seq(Nat) /\ w.seps \in Seq({"comma", "dot"})
  /\ Len(w.ids) = Len(n.ids) + 1 /\ Len(w.seps) = Len(n.ids)
  /\ DOMAIN n.ids = 1 .. Len(n.ids) /\ DOMAIN w.ids = 1 .. Len(n.ids) + 1
  /\ DOMAIN n.seps = 1 .. Len(n.ids) - 1 /\ DOMAIN w.seps = 1 .. Len(n.ids)
  /\ \A i \in 1 .. Len(n.ids) : w.ids[i] = n.ids[i]
  /\ w.ids[Len(n.ids) + 1] = id
  /\ \A i \in 1 .. Len(n.ids) - 1 : w.seps[i] = n.seps[i]
  /\ w.seps[Len(n.ids)] = sep
  /\ SubSeq(w.ids, 1, Len(n.ids)) = n.ids
  /\ SubSeq(w.seps, 1, Len(n.ids) - 1) = n.seps
  /\ w = [ids |-> w.ids, seps |-> w.seps]

(* A name that is longer by an id and a separator.                         *)
LEMMA LongerName ==
  ASSUME NEW n \in Name, NEW sep \in {"comma", "dot"}, NEW id \in Nat
  PROVE  Longer(With1(n, sep, id), n, sep, id)
<1> DEFINE i == Append(n.ids, id)
           p == Append(n.seps, sep)
<1>1. /\ n.ids \in Seq(Nat) /\ n.seps \in Seq({"comma", "dot"})
      /\ Len(n.ids) \in Nat \ {0} /\ Len(n.seps) = Len(n.ids) - 1
  BY NameParts
<1>2. /\ i \in Seq(Nat) /\ Len(i) = Len(n.ids) + 1
      /\ DOMAIN n.ids = 1 .. Len(n.ids) /\ DOMAIN i = 1 .. Len(n.ids) + 1
      /\ \A k \in 1 .. Len(n.ids) : i[k] = n.ids[k]
      /\ i[Len(n.ids) + 1] = id /\ SubSeq(i, 1, Len(n.ids)) = n.ids
  BY <1>1, LongerSeq
<1>3. /\ p \in Seq({"comma", "dot"}) /\ Len(p) = Len(n.seps) + 1
      /\ DOMAIN n.seps = 1 .. Len(n.seps) /\ DOMAIN p = 1 .. Len(n.seps) + 1
      /\ \A k \in 1 .. Len(n.seps) : p[k] = n.seps[k]
      /\ p[Len(n.seps) + 1] = sep /\ SubSeq(p, 1, Len(n.seps)) = n.seps
  BY <1>1, LongerSeq
<1>4. Len(n.seps) + 1 = Len(n.ids)
  BY <1>1
<1> HIDE DEF i, p
<1>5. With1(n, sep, id) = [ids |-> i, seps |-> p]
  BY DEF With1, i, p
<1> QED
  BY <1>1, <1>2, <1>3, <1>4, <1>5 DEF Longer

(* What is appended to a name is what get_testcase_parent() removes.       *)
LEMMA ParentOfLonger ==
  ASSUME NEW n \in Name, NEW sep \in {"comma", "dot"}, NEW id \in Nat
  PROVE  /\ With1(n, sep, id) \in Name
         /\ get_testcase_parent(With1(n, sep, id)) = n
<1> DEFINE w == With1(n, sep, id)
<1>1. Longer(w, n, sep, id)
  BY LongerName
<1>2. /\ n.ids \in Seq(Nat) /\ Len(n.ids) \in Nat \ {0}
      /\ n = [ids |-> n.ids, seps |-> n.seps]
  BY NameParts
<1> HIDE DEF w
<1>3. w \in Name
  <2>1. w.ids # <<>>
    BY <1>1, <1>2, EmptySeq DEF Longer
  <2>2. w \in [ids : Seq(Nat), seps : Seq({"comma", "dot"})]
    BY <1>1 DEF Longer
  <2>3. Len(w.seps) = Len(w.ids) - 1
    BY <1>1, <1>2 DEF Longer
  <2> QED
    BY <2>1, <2>2, <2>3 DEF Name
<1>4. get_testcase_parent(w) = n
  <2>1. Len(w.ids) > 1 /\ Len(w.ids) - 1 = Len(n.ids)
        /\ Len(w.seps) - 1 = Len(n.ids) - 1
    BY <1>1, <1>2 DEF Longer
  <2>2. get_testcase_parent(w) = [ids |-> n.ids, seps |-> n.seps]
    BY <1>1, <2>1 DEF Longer, get_testcase_parent
  <2> QED
    BY <1>2, <2>2
<1> QED
  BY <1>3, <1>4 DEF w

(* The ancestors of a name with one id more.                               *)
LEMMA AncestorsOfLonger ==
  ASSUME NEW n \in Name, NEW sep \in {"comma", "dot"}, NEW id \in Nat
  PROVE  /\ ancestor_cnt(n) \in Nat
         /\ ancestor_cnt(With1(n, sep, id)) =
              IF sep = "comma" THEN ancestor_cnt(n) + 1 ELSE ancestor_cnt(n)
<1> DEFINE w   == With1(n, sep, id)
           k   == Len(n.ids)
           old == {i \in DOMAIN n.seps : n.seps[i] = "comma"}
           new == {i \in DOMAIN w.seps : w.seps[i] = "comma"}
<1>1. Longer(w, n, sep, id)
  BY LongerName
<1>2. k \in Nat \ {0}
  BY NameParts
<1> HIDE DEF w
<1>3. DOMAIN n.seps = 1 .. k - 1 /\ DOMAIN w.seps = 1 .. k
      /\ (\A i \in 1 .. k - 1 : w.seps[i] = n.seps[i]) /\ w.seps[k] = sep
  BY <1>1 DEF Longer
<1> HIDE DEF k
<1>4. IsFiniteSet(old) /\ Cardinality(old) \in Nat /\ k \notin old
  <2>1. IsFiniteSet(1 .. k - 1)
    BY <1>2, FS_Interval
  <2>2. old \subseteq 1 .. k - 1
    BY <1>3
  <2>3. IsFiniteSet(old)
    BY <2>1, <2>2, FS_Subset
  <2>4. k \notin 1 .. k - 1
    BY <1>2
  <2> QED
    BY <2>2, <2>3, <2>4, FS_CardinalityType
<1>5. new = IF sep = "comma" THEN old \cup {k} ELSE old
  <2>1. \A i : i \in 1 .. k <=> i \in 1 .. k - 1 \/ i = k
    BY <1>2
  <2> QED
    BY <1>3, <2>1
<1>6. Cardinality(old \cup {k}) = Cardinality(old) + 1
  BY <1>4, FS_AddElement
<1>7. ancestor_cnt(n) = Cardinality(old) /\ ancestor_cnt(w) = Cardinality(new)
  BY DEF ancestor_cnt
<1> QED
  BY <1>4, <1>5, <1>6, <1>7 DEF w

(* The lineage of a name with one id more: crash sites do not count.       *)
LEMMA LineageOfLonger ==
  ASSUME NEW n \in Name, NEW sep \in {"comma", "dot"}, NEW id \in Nat
  PROVE  get_lineage(With1(n, sep, id)) =
           IF sep = "comma" THEN get_lineage(n) \cup {id} ELSE get_lineage(n)
<1> DEFINE w == With1(n, sep, id)
           k == Len(n.ids)
           heads(m) == {j \in DOMAIN m.ids : j = 1 \/ m.seps[j - 1] = "comma"}
<1>1. Longer(w, n, sep, id)
  BY LongerName
<1>2. k \in Nat \ {0}
  BY NameParts
<1> HIDE DEF w
<1>3. /\ DOMAIN n.ids = 1 .. k /\ DOMAIN w.ids = 1 .. k + 1
      /\ \A i \in 1 .. k : w.ids[i] = n.ids[i]
      /\ w.ids[k + 1] = id
      /\ \A i \in 1 .. k - 1 : w.seps[i] = n.seps[i]
      /\ w.seps[k] = sep
  BY <1>1 DEF Longer
<1> HIDE DEF k
<1>4. heads(w) = IF sep = "comma" THEN heads(n) \cup {k + 1} ELSE heads(n)
  <2>1. ASSUME NEW j \in 1 .. k PROVE j \in heads(w) <=> j \in heads(n)
    <3>1. j = 1 \/ j - 1 \in 1 .. k - 1
      BY <1>2
    <3>2. j \in 1 .. k + 1
      BY <1>2
    <3> QED
      BY <1>3, <3>1, <3>2
  <2>2. k + 1 \in heads(w) <=> sep = "comma"
    <3>1. k + 1 \in 1 .. k + 1 /\ k + 1 # 1 /\ (k + 1) - 1 = k
      BY <1>2
    <3> QED
      BY <1>3, <3>1
  <2>3. heads(n) \subseteq 1 .. k /\ heads(w) \subseteq 1 .. k + 1
    BY <1>3
  <2>4. \A j : j \in 1 .. k + 1 <=> j \in 1 .. k \/ j = k + 1
    BY <1>2
  <2>5. k + 1 \notin 1 .. k
    BY <1>2
  <2> HIDE DEF heads
  <2> QED
    BY <2>1, <2>2, <2>3, <2>4, <2>5
<1>5. heads(n) \subseteq 1 .. k
  BY <1>3
<1>6. get_lineage(n) = {n.ids[i] : i \in heads(n)}
      /\ get_lineage(w) = {w.ids[i] : i \in heads(w)}
  BY DEF get_lineage
<1> HIDE DEF heads
<1>7. {w.ids[i] : i \in heads(n)} = {n.ids[i] : i \in heads(n)}
  BY <1>3, <1>5
<1>8. {w.ids[i] : i \in heads(n) \cup {k + 1}} =
        {w.ids[i] : i \in heads(n)} \cup {id}
  <2>1. w.ids[k + 1] = id
    BY <1>3
  <2> QED
    BY <2>1
<1>9. get_lineage(w) = IF sep = "comma" THEN get_lineage(n) \cup {id}
                                        ELSE get_lineage(n)
  BY <1>4, <1>6, <1>7, <1>8
<1> QED
  BY <1>9 DEF w
-----------------------------------------------------------------------------
(* The name of a child leads back to its job, crash site or not, and counts*)
(* one iteration more (get_testcase_parent, iter_cnt).                     *)
THEOREM ChildOfItsJob ==
  ASSUME NEW j \in Name, NEW id \in Nat
  PROVE  /\ get_testcase_parent(ChildName(j, id)) = j
         /\ iter_cnt(ChildName(j, id)) = iter_cnt(j) + 1
BY ParentOfLonger, AncestorsOfLonger DEF ChildName, iter_cnt

(* A crash site counts as many iterations as the job whose image it was    *)
(* made from; the id of the child that ran, one iteration later, is in the *)
(* name of a crash site of stage 2, but is not counted.                    *)
THEOREM CrashSiteOfItsJob ==
  ASSUME NEW j \in Name, NEW child \in Nat, NEW id \in Nat
  PROVE  /\ iter_cnt(Stage1CrashSite(j, id)) = iter_cnt(j)
         /\ iter_cnt(Stage2CrashSite(j, child, id)) = iter_cnt(j)
<1>1. With1(j, "dot", child) \in Name
  BY ParentOfLonger
<1> QED
  BY <1>1, AncestorsOfLonger DEF Stage1CrashSite, Stage2CrashSite, iter_cnt

(* select_ids (should_use_tc, should_use_cs): a selection that takes a     *)
(* child takes the job without which the child cannot be found, and takes  *)
(* a crash site exactly when it takes the job it was made from.            *)
THEOREM SelectionTakesJobs ==
  ASSUME NEW j \in Name, NEW child \in Nat, NEW id \in Nat, NEW ids
  PROVE  /\ should_use(ChildName(j, id), ids) => should_use(j, ids)
         /\ should_use(Stage1CrashSite(j, id), ids) <=> should_use(j, ids)
         /\ should_use(Stage2CrashSite(j, child, id), ids) <=>
              should_use(j, ids)
<1>1. With1(j, "dot", child) \in Name
  BY ParentOfLonger
<1>2. get_lineage(ChildName(j, id)) = get_lineage(j) \cup {id}
  BY LineageOfLonger DEF ChildName
<1>3. get_lineage(Stage1CrashSite(j, id)) = get_lineage(j)
  BY LineageOfLonger DEF Stage1CrashSite
<1>4. get_lineage(Stage2CrashSite(j, child, id)) = get_lineage(j)
  BY <1>1, LineageOfLonger DEF Stage2CrashSite
<1> QED
  BY <1>2, <1>3, <1>4 DEF should_use
-----------------------------------------------------------------------------
(* A testcase of stage 2 comes from a job that was started.                *)
FromJobs ==
  \A t \in TC2 :
    <<t, "tc">> \in dir \/ queue[t] # "none" => job[Origin[t]] # "new"

(* What comes into the directory of stage 2 comes from a queue.            *)
LEMMA DirFromQueue ==
  ASSUME TypeOK, Next
  PROVE  \A t \in TC2 :
           <<t, "tc">> \in dir' => <<t, "tc">> \in dir \/ queue[t] # "none"
<1>1. CASE \E t \in TC1 : CollectTC(t)
  <2>1. PICK u \in TC1 : dir' = dir \cup Queued(u)
    BY <1>1 DEF CollectTC
  <2>2. Queued(u) \subseteq {u} \X Meta
    BY QueuedFiles DEF TC
  <2> QED
    BY <2>1, <2>2, DedupStoreAssumption
<1>2. CASE \E j \in Job : Terminate(j)
  <2>1. PICK j \in Job : Terminate(j)
    BY <1>2
  <2>2. CASE UNCHANGED dir
    BY <2>2
  <2>3. CASE CollectChildren(j)
    <3>1. PICK got \in [Children(j) -> Progress] :
            dir' \subseteq dir \cup Copied(Children(j), got)
      <4>1. \A d : MinimizeLcl(d) => dir' \subseteq d
        BY DEF MinimizeLcl
      <4>2. \A all : \A d \in EngineLeaves(all) : d \subseteq all
        BY DEF EngineLeaves
      <4>3. \E got \in [Children(j) -> Progress] :
              LET all == dir \cup Copied(Children(j), got) IN
              \/ dir' = all
              \/ \E d \in {all} \cup EngineLeaves(all) :
                   dir' = d \/ MinimizeLcl(d)
        BY <2>3 DEF CollectChildren
      <4> QED
        BY <4>1, <4>2, <4>3
    <3>2. Children(j) \in SUBSET TC
          /\ \A t \in Children(j) : queue[t] # "none"
      BY DEF Children, TC
    <3>3. Copied(Children(j), got) \subseteq Children(j) \X Meta
      BY <3>2, CopiedFiles
    <3> QED
      BY <3>1, <3>2, <3>3
  <2> QED
    BY <2>1, <2>2, <2>3 DEF Terminate, stages
<1>3. CASE CollectAll
  <2> DEFINE new == {t \in TC2 : queue[t] # "none" /\ <<t, "tc">> \notin dir}
  <2>1. PICK got \in [new -> Progress] : dir' = dir \cup Copied(new, got)
    BY <1>3 DEF CollectAll, CollectNew
  <2>2. Copied(new, got) \subseteq new \X Meta
    <3>1. new \in SUBSET TC
      BY DEF TC
    <3> QED
      BY <3>1, CopiedFiles
  <2> QED
    BY <2>1, <2>2
<1>4. CASE \/ ListQueue \/ Collected \/ UpdateGlobal1 \/ MinimizeGbl
           \/ TooEarly \/ UpdateLocal \/ PassEnds \/ Completes \/ FinalDedup
           \/ (\E j \in Job : Start(j)) \/ \E t \in TC : AflWrites(t)
  <2>1. dir' = dir
    BY <1>4 DEF ListQueue, Collected, UpdateGlobal1, MinimizeGbl, TooEarly,
       UpdateLocal, PassEnds, Completes, FinalDedup, Start, AflWrites, stages
  <2> QED
    BY <2>1
<1> QED
  BY <1>1, <1>2, <1>3, <1>4 DEF Next, Main

(* Only a job that runs finds a first file of a testcase, and a job that   *)
(* was started stays so.                                                   *)
LEMMA JobsAndQueues ==
  ASSUME TypeOK, Next
  PROVE  /\ \A t \in TC2 : queue'[t] # "none" =>
              queue[t] # "none" \/ job[Origin[t]] = "running"
         /\ \A j \in Job : job'[j] = "new" => job[j] = "new"
<1>1. CASE \E t \in TC : AflWrites(t)
  <2>1. PICK t \in TC : AflWrites(t)
    BY <1>1
  <2>2. job' = job
    BY <2>1 DEF AflWrites, local
  <2>3. \A u \in TC \ {t} : queue'[u] = queue[u]
    BY <2>1 DEF AflWrites, TypeOK
  <2>4. t \in TC2 => job[Origin[t]] = "running" \/ queue[t] # "none"
    BY <2>1 DEF AflWrites
  <2> QED
    BY <2>2, <2>3, <2>4 DEF TC
<1>2. CASE Main
  <2>1. queue' = queue
    BY <1>2 DEF Main, ListQueue, Collected, UpdateGlobal1, MinimizeGbl,
       TooEarly, UpdateLocal, PassEnds, Completes, CollectAll, FinalDedup,
       CollectTC, Start, Terminate, afl
  <2>2. \/ job' = job
        \/ \E j \in Job, s \in {"running", "done"} :
             job' = [job EXCEPT ![j] = s]
    BY <1>2 DEF Main, ListQueue, Collected, UpdateGlobal1, MinimizeGbl,
       TooEarly, UpdateLocal, PassEnds, Completes, CollectAll, FinalDedup,
       CollectTC, Start, Terminate, local
  <2>3. job \in [Job -> {"new", "running", "done"}]
    BY DEF TypeOK
  <2> QED
    BY <2>1, <2>2, <2>3
<1> QED
  BY <1>1, <1>2 DEF Next

(* FromJobs is an invariant.                                               *)
LEMMA FromJobsInv == Spec => []FromJobs
<1>1. Init => FromJobs
  BY DEF Init, FromJobs, TC
<1>2. TypeOK /\ FromJobs /\ [Next]_vars => FromJobs'
  <2> SUFFICES ASSUME TypeOK, FromJobs, [Next]_vars PROVE FromJobs'
    OBVIOUS
  <2>1. CASE UNCHANGED vars
    BY <2>1 DEF vars, FromJobs
  <2>2. CASE Next
    <3>1. \A t \in TC2 : Origin[t] \in Job
      BY DedupStoreAssumption
    <3> QED
      BY <2>2, <3>1, DirFromQueue, JobsAndQueues DEF FromJobs
  <2> QED
    BY <2>1, <2>2
<1> QED
  BY <1>1, <1>2, TypeCorrect, PTL DEF Spec

(* ParentImages is an invariant: the name of a collected testcase finds    *)
(* exactly the image it was found on.                                      *)
THEOREM ParentImagesByName == Spec => []ParentImages
<1>1. IInv /\ FromJobs => ParentImages
  <2> SUFFICES ASSUME IInv, FromJobs, NEW t \in TC2, <<t, "tc">> \in dir
               PROVE  \E kind \in {"pm_pool", "crash_site"} :
                        get_parent_img(t) = {<<kind, Origin[t]>>}
    BY DEF ParentImages, With
  <2> DEFINE j == Origin[t]
  <2>1. /\ j \in Job /\ job[j] # "new"
        /\ j \in With(loc, "tc") \cup loc_cs
        /\ loc_cs \subseteq gbl_cs /\ gbl_cs \subseteq CS
        /\ \A u \in TC1 : <<u, "tc">> \in loc => <<u, "img">> \in gbl
    BY DedupStoreAssumption DEF FromJobs, IInv, LocalFiles, TypeOK
  <2>2. get_testcase_parent(t) = j
    <3>1. j \in Name /\ t \in Name /\ t = ChildName(j, LastId(t))
      BY <2>1, LineageAssumption DEF Job, TC, CS1
    <3>2. LastId(t) \in Nat
      <4>1. t.ids \in Seq(Nat) /\ Len(t.ids) \in Nat \ {0}
        BY <3>1, NameParts
      <4> QED
        BY <4>1, ElementOfSeq DEF LastId
    <3> QED
      BY <3>1, <3>2, ParentOfLonger DEF ChildName
  <2>3. CASE j \in TC1
    <3>1. j \in TC /\ j \notin CS /\ <<j, "img">> \in gbl
      BY <2>1, <2>3, DedupStoreAssumption DEF TC, With
    <3>2. ImagesOf(j) = {<<"pm_pool", j>>}
      BY <2>1, <3>1 DEF ImagesOf, With
    <3> QED
      BY <2>2, <3>2 DEF get_parent_img
  <2>4. CASE j \in CS1
    <3>1. j \in CS /\ j \notin TC /\ j \in gbl_cs
      BY <2>1, <2>4, DedupStoreAssumption DEF CS1, With
    <3>2. ImagesOf(j) = {<<"crash_site", j>>}
      BY <3>1 DEF ImagesOf, With
    <3> QED
      BY <2>2, <3>2 DEF get_parent_img
  <2> QED
    BY <2>1, <2>3, <2>4 DEF Job
<1> QED
  BY <1>1, StoresInv, FromJobsInv, PTL
=============================================================================
