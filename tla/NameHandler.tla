---------------------------- MODULE NameHandler ----------------------------
(***************************************************************************)
(* The names of testcases, crash sites and their images                    *)
(* (src/src/pmfuzz/handlers/name_handler.py), in which PMFuzz keeps what   *)
(* it knows of their origin: there is no other record of it.               *)
(*                                                                         *)
(* id=3,id=5.id=7 is the name with the ids 3, 5, 7 and the separators      *)
(* comma, dot. Prefixes and extensions, which tell the files of one name   *)
(* apart, are added and removed by get_metadata_files().                   *)
(***************************************************************************)
EXTENDS Naturals, Sequences, FiniteSets

Name ==
  {n \in [ids : Seq(Nat), seps : Seq({"comma", "dot"})] :
     /\ n.ids # <<>>
     /\ Len(n.seps) = Len(n.ids) - 1}

\* What get_testcase_parent() returns of a name with one id.
NoName == [ids |-> <<>>, seps |-> <<>>]

(* n with one more id. clean_tc_name() is left with the number that AFL or *)
(* libpmfuzz gives to what it finds.                                       *)
With1(n, sep, id) ==
  [ids |-> Append(n.ids, id), seps |-> Append(n.seps, sep)]

Stage1Name(id) == [ids |-> <<id>>, seps |-> <<>>]

(* The testcase with this id in the queue of the job: a testcase of stage  *)
(* 1, or a crash site.                                                     *)
ChildName(job, id) == With1(job, "comma", id)

(* The crash site that a failure of this id makes: stage 1 names it after  *)
(* the testcase, ...                                                       *)
Stage1CrashSite(tc, id) == With1(tc, "dot", id)

(* ... stage 2 after the job, whose image it starts from, and the id of    *)
(* the job's child that ran.                                               *)
Stage2CrashSite(job, child, id) == With1(With1(job, "dot", child), "dot", id)

\* A wrong variant: everything after the first separator goes.
get_testcase_parent_first(n) ==
  IF Len(n.ids) > 1 THEN [ids |-> <<n.ids[1]>>, seps |-> <<>>] ELSE NoName

\* The name without its last id.
get_testcase_parent(n) ==
  IF Len(n.ids) > 1
  THEN [ids  |-> SubSeq(n.ids, 1, Len(n.ids) - 1),
        seps |-> SubSeq(n.seps, 1, Len(n.seps) - 1)]
  ELSE NoName

ancestor_cnt(n) == Cardinality({i \in DOMAIN n.seps : n.seps[i] = "comma"})

iter_cnt(n) == ancestor_cnt(n) + 1

\* The first of the ids between two commas; the others are of crash sites.
get_lineage(n) ==
  {n.ids[i] : i \in {j \in DOMAIN n.ids : j = 1 \/ n.seps[j - 1] = "comma"}}

(* should_use_tc() and should_use_cs(), with the select_ids of stage 2.    *)
should_use(n, select_ids) ==
  select_ids = {} \/ get_lineage(n) \subseteq select_ids
=============================================================================
