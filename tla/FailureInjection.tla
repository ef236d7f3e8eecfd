-------------------------- MODULE FailureInjection --------------------------
(***************************************************************************)
(* The failure injection runtime that is linked into the target,           *)
(* src/include/libpmfuzz.c, and the process around it: accesses to PM      *)
(* update the map, the target passes failure points, and some of them      *)
(* leave an image of the PM pool (a crash site). A second process can      *)
(* replay the points from the list that the first one has written.         *)
(*                                                                         *)
(* interfaces/failureinjection.py starts the process and stops it after    *)
(* its timeout; the target itself may crash at any point.                  *)
(***************************************************************************)
EXTENDS PMMap, Sequences, FiniteSets

CONSTANTS
  Env,          \* the settings: FI_MODE, GEN_ALL_CS, IMG_CREAT_FINJ, FAILURE_LIST
  AllLimit,     \* 100
  AllStep,      \* 5
  MaxDumpId,    \* MAX_CRASH_DUMP_ID
  MaxFailures,  \* MAX_FAILURE_COUNT
  EntrySize,    \* 256: an entry of failure_list is a byte
  MaxPoints     \* bound of the model: failure points the target passes

ASSUME FinjAssumption ==
  /\ Env \subseteq [mode : {"NONE", "IMG_GEN"}, gen_all : BOOLEAN,
                    creat : BOOLEAN, listing : BOOLEAN]
  /\ AllLimit \in Nat /\ MaxDumpId \in Nat /\ MaxFailures \in Nat
  /\ AllStep \in Nat \ {0} /\ EntrySize \in Nat \ {0} /\ MaxPoints \in Nat

VARIABLES
  env,              \* the settings of this process
  phase,            \* which process runs, or how it ended
  init_complete,    \* pmfuzz_init_complete
  failure_id,       \* __pmfuzz_failure_id, of 32 bits: -1 for its first value
  last,             \* __last_pmfuzz_area_ptr[]
  images,           \* ids with an image file
  list,             \* ids in the file FAILURE_LIST
  buf,              \* ids printed and still in the buffer of stdio, or lost
  failure_list,     \* failure_list[], of the replaying process
  again,            \* ids with an image file of the replaying process
  init_at, points,  \* failure_id at pmfuzz_init() and at the end, which the
                    \* replaying process, deterministic, meets again
  imaged, failed,   \* maps an image was made of, and could not be made of,
  due               \* and maps at the points that were selected
                    \* (histories of the model)

files == <<images, list, buf>>
replay == <<failure_list, again>>
shape == <<init_at, points>>
history == <<imaged, failed, due>>
injVars == <<env, phase, init_complete, failure_id, last, files, replay, shape, history>>
vars == <<mapVars, injVars>>

Phase == {"run", "exited", "crashed", "replay", "replayed"}
Never == MaxPoints      \* init_at if pmfuzz_init() was not called
Id == 0..MaxPoints - 1
-----------------------------------------------------------------------------
Init ==
  /\ MapInit
  /\ env \in Env
  /\ phase = "run"
  /\ init_complete = FALSE
  /\ failure_id = -1
  /\ last = Empty
  /\ images = {} /\ list = <<>> /\ buf = <<>>
  /\ failure_list = [k \in 0..MaxFailures - 1 |-> 0] /\ again = {}
  /\ init_at = Never /\ points = -1
  /\ imaged = {} /\ failed = {} /\ due = {}

(* The target runs an instrumented instruction.                            *)
RunTarget ==
  /\ phase = "run"
  /\ AccessPM
  /\ UNCHANGED injVars

(* pmfuzz_init(): the pool is opened or created. A later call returns at   *)
(* once. It aborts when the list cannot be opened: that is in Crash.       *)
PmfuzzInit ==
  /\ phase = "run"
  /\ ~init_complete
  /\ init_complete' = TRUE
  /\ init_at' = failure_id
  /\ UNCHANGED <<mapVars, env, phase, failure_id, last, files, replay, points, history>>

\* A wrong variant: the first point can be selected too.
RandomSaveFirst(id) ==
  IF id = 1 THEN {TRUE} ELSE IF id > MaxDumpId THEN {FALSE} ELSE BOOLEAN

\* save_img: what rand(), or a setting that overrides it, can make of it.
\* 10000/id is the bound of a random number below 10000.
RandomSave(id) ==
  IF id = 1 THEN {TRUE} ELSE IF id = 0 \/ id > MaxDumpId THEN {FALSE} ELSE BOOLEAN

SaveImg(id) ==
  IF env.creat THEN {TRUE}
  ELSE IF env.gen_all THEN {id < AllLimit /\ id % AllStep = 0}
  ELSE RandomSave(id)

(* A failure point: the id is incremented first of all.                    *)
FailurePoint ==
  /\ phase = "run"
  /\ failure_id + 1 < MaxPoints
  /\ failure_id' = failure_id + 1
  /\ UNCHANGED <<mapVars, env, phase, init_complete, replay, shape>>

Selects(save) ==
  /\ FailurePoint
  /\ init_complete
  /\ env.mode = "IMG_GEN"
  /\ save \in SaveImg(failure_id')

(* pmfuzz_inject_failure() before the initialization, or switched off,     *)
NoInjection ==
  /\ FailurePoint
  /\ ~init_complete \/ env.mode = "NONE"
  /\ UNCHANGED <<last, files, history>>

(* A wrong variant: the map is remembered at every point.                  *)
IgnoredRemembers ==
  /\ Selects(FALSE)
  /\ last' = map.area
  /\ UNCHANGED <<files, history>>

(* at a point that is not selected,                                        *)
Ignored ==
  /\ Selects(FALSE)
  /\ UNCHANGED <<last, files, history>>

(* at one where the map is the one of the last image,                      *)
Unchanged ==
  /\ Selects(TRUE)
  /\ map.area = last
  /\ due' = due \cup {map.area}
  /\ UNCHANGED <<last, files, imaged, failed>>

\* The image of the point, made or not.
Image(made) ==
  /\ images' = images \cup {id \in {failure_id'} : made}
  /\ imaged' = imaged \cup {a \in {map.area} : made}
  /\ failed' = failed \cup {a \in {map.area} : ~made}

\* A wrong variant: a map that was dumped is not remembered.
DumpForgets(made) ==
  /\ Selects(TRUE) /\ map.area # last
  /\ Image(made)
  /\ buf' = IF env.listing THEN Append(buf, failure_id') ELSE buf
  /\ due' = due \cup {map.area}
  /\ UNCHANGED <<list, last>>

(* and at one that leads to an image. That the copy cannot be made is      *)
(* reported, no more: the map is remembered and the id printed all the     *)
(* same.                                                                   *)
Dump(made) ==
  /\ Selects(TRUE)
  /\ map.area # last
  /\ last' = map.area
  /\ Image(made)
  /\ buf' = IF env.listing THEN Append(buf, failure_id') ELSE buf
  /\ due' = due \cup {map.area}
  /\ UNCHANGED list

(* stdio writes a full buffer to the file.                                 *)
Flush ==
  /\ phase = "run"
  /\ buf # <<>>
  /\ list' = list \o buf /\ buf' = <<>>
  /\ UNCHANGED <<mapVars, env, phase, init_complete, failure_id, last, images,
                 replay, shape, history>>

(* The target ends: exit() flushes; a crash, an abort() or a signal after  *)
(* the timeout does not.                                                   *)
Exit ==
  /\ phase = "run"
  /\ phase' = "exited"
  /\ points' = failure_id
  /\ list' = list \o buf /\ buf' = <<>>
  /\ UNCHANGED <<mapVars, env, init_complete, failure_id, last, images, replay,
                 init_at, history>>

Crash ==
  /\ phase = "run"
  /\ phase' = "crashed"
  /\ points' = failure_id
  /\ UNCHANGED <<mapVars, env, init_complete, failure_id, last, files, replay,
                 init_at, history>>
-----------------------------------------------------------------------------
(* A new process with FI_MODE=IMG_REP and the same input. It has maps of   *)
(* its own, which nothing reads in this mode.                              *)
Replay ==
  /\ phase \in {"exited", "crashed"}
  /\ env.mode = "IMG_GEN" /\ env.listing
  /\ phase' = "replay"
  /\ init_complete' = FALSE
  /\ failure_id' = -1
  /\ UNCHANGED <<mapVars, env, last, files, replay, shape, history>>

(* pmfuzz_init() reads the list into an array, one entry after the other.  *)
ReplayInit ==
  /\ phase = "replay"
  /\ failure_id = init_at
  /\ ~init_complete
  /\ init_complete' = TRUE
  /\ failure_list' = [k \in 0..MaxFailures - 1 |->
                        IF k < Len(list) THEN list[k + 1] % EntrySize ELSE 0]
  /\ UNCHANGED <<mapVars, env, phase, failure_id, last, files, again, shape, history>>

\* failure_list[id]; beyond the array, whatever the memory has there.
Entry(id) == IF id < MaxFailures THEN {failure_list[id] # 0} ELSE BOOLEAN

ReplayPoint(inject) ==
  /\ phase = "replay"
  /\ failure_id < points
  /\ failure_id # init_at \/ init_complete
  /\ failure_id' = failure_id + 1
  /\ inject \in (IF init_complete THEN Entry(failure_id') ELSE {FALSE})
  /\ again' = again \cup {id \in {failure_id'} : inject}
  /\ UNCHANGED <<mapVars, env, phase, init_complete, last, files, failure_list,
                 shape, history>>

ReplayEnd ==
  /\ phase = "replay"
  /\ failure_id = points
  /\ failure_id # init_at \/ init_complete
  /\ phase' = "replayed"
  /\ UNCHANGED <<mapVars, env, init_complete, failure_id, last, files, replay,
                 shape, history>>
-----------------------------------------------------------------------------
Target == RunTarget \/ PmfuzzInit \/ Flush \/ Exit \/ Crash

Inject ==
  \/ NoInjection
  \/ Ignored
  \/ Unchanged
  \/ \E made \in BOOLEAN : Dump(made)

Next ==
  \/ Target
  \/ Inject
  \/ Replay \/ ReplayInit \/ ReplayEnd
  \/ \E inject \in BOOLEAN : ReplayPoint(inject)

Spec == Init /\ [][Next]_vars
-----------------------------------------------------------------------------
Area == [Cell -> Content]

TypeOK ==
  /\ MapTypeOK
  /\ env \in Env
  /\ phase \in Phase
  /\ init_complete \in BOOLEAN
  /\ failure_id \in Id \cup {-1}
  /\ last \in Area
  /\ images \subseteq Id
  /\ list \in Seq(Id) /\ buf \in Seq(Id)
  /\ failure_list \in [0..MaxFailures - 1 -> 0..EntrySize - 1]
  /\ again \subseteq Id
  /\ init_at \in Id \cup {-1, Never}
  /\ points \in Id \cup {-1}
  /\ imaged \subseteq Area /\ failed \subseteq Area /\ due \subseteq Area

(* What "Only when PM bitmap has changed" (libpmfuzz.c:315) costs: of the  *)
(* map at a selected point, unless it is empty, there is an image, or the  *)
(* one attempt to make it failed. A map with an image has only one. A map  *)
(* whose image failed has none and gets none, however often it is selected *)
(* again: it is remembered before the copy is made.                        *)
Covered ==
  /\ due \subseteq imaged \cup failed \cup {Empty}
  /\ imaged \cap failed = {}
  /\ Cardinality(images) = Cardinality(imaged)

\* The maps that led to an image or to an attempt at one.
Tried == imaged \cup failed

\* The ids printed, those that did not reach the file last.
Printed == list \o buf

(* "the falure ids that generate dumps are written to that file, one per   *)
(* line" (libpmfuzz.c:259): as many ids as different maps an image was     *)
(* tried of, in ascending order, those of all images among them, and as    *)
(* many others as images failed; and all of them are in the file unless    *)
(* the target has crashed.                                                 *)
ListComplete ==
  env.listing =>
    /\ Len(Printed) = Cardinality(Tried)
    /\ \A i, j \in DOMAIN Printed : i < j => Printed[i] < Printed[j]
    /\ images \subseteq {Printed[i] : i \in DOMAIN Printed}
    /\ phase = "exited" => buf = <<>>

(* What the mode that reproduces images does instead: whether the point    *)
(* number id has an image depends on the entry of this position, which     *)
(* must exist and not be cut to 0. If points are selected at random, the   *)
(* first one never is (libpmfuzz.c:330), so that the id at a position is   *)
(* always above it: what is reproduced at a point is meant for a later one.*)
ReplayedByPosition ==
  \A id \in again : id < MaxFailures =>
    /\ id < Len(list)
    /\ list[id + 1] % EntrySize # 0
    /\ ~env.creat /\ ~env.gen_all => id < list[id + 1]

(* Failure injection tries each coverage once, and the map only grows: the *)
(* same map can then never be met again after another one.                 *)
Levels(area) == [c \in Cell |-> Level(area[c])]

Coverage == INSTANCE PMCoverage WITH
  level <- Levels(map.area),
  tried <- {Levels(a) : a \in Tried}

AbsSpec == Coverage!Spec

(* "Only the failure ID in the list will lead to an image"                 *)
(* (libpmfuzz.c:302), in the mode that reproduces images. It does not      *)
(* hold: the list is stored by position and read by id.                    *)
OnlyListed == again \subseteq {list[i] : i \in DOMAIN list}
=============================================================================
