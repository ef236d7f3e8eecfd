------------------------------ MODULE Lineage ------------------------------
(***************************************************************************)
(* The testcase stores of DedupStore with the names of NameHandler: the    *)
(* testcases and crash sites are their names, and the job that found a     *)
(* testcase is looked for by name, as the code does.                       *)
(***************************************************************************)
EXTENDS DedupStore, NameHandler

LastId(n) == n.ids[Len(n.ids)]

ASSUME LineageAssumption ==
  /\ TC \cup CS \subseteq Name
  /\ \A t \in TC1 : t = Stage1Name(LastId(t))
  /\ \A t \in TC2 : t = ChildName(Origin[t], LastId(t))
  /\ \A c \in CS1 : c = Stage1CrashSite(Origin[c], LastId(c))
  /\ \A c \in CS2 :
       c = Stage2CrashSite(Origin[Origin[c]], LastId(Origin[c]), LastId(c))

\* The images of the global store with the name n, a testcase's and a crash
\* site's being different files.
ImagesOf(n) ==
  {<<"pm_pool", t>> : t \in {n} \cap With(gbl, "img")}
    \cup {<<"crash_site", c>> : c \in {n} \cap gbl_cs}

(* get_parent_img(): there must be exactly one.                            *)
get_parent_img(t) == ImagesOf(get_testcase_parent(t))

(* The image a testcase of stage 2 was found on, be it that of a testcase  *)
(* or of a crash site, is found by the name of the testcase for as long as *)
(* the testcase is kept: it is there, with the job that found it minimized *)
(* or not, and there are not two of the name ("Both images cannot exists", *)
(* name_handler.py:647).                                                   *)
ParentImages ==
  \A t \in TC2 \cap With(dir, "tc") :
    \E kind \in {"pm_pool", "crash_site"} :
      get_parent_img(t) = {<<kind, Origin[t]>>}
=============================================================================
