------------------------------- MODULE PMMap -------------------------------
(***************************************************************************)
(* The map of PM accesses that the instrumented target keeps:              *)
(* update_loc() of src/include/libpmfuzz.c, called with a location that    *)
(* belongs to a place in the code, and the shift registers of              *)
(* src/include/shiftregarr.h. A cell of the map is an edge between two     *)
(* accesses: the location XORed with half of the one before.               *)
(*                                                                         *)
(* With ENABLE_PM_PATH a cell is a counter of a byte. Without it, it is a  *)
(* register of ElemSize bytes with a bit that moves up at every access; it *)
(* is modelled as the set of its bits that are 1.                          *)
(***************************************************************************)
EXTENDS Integers

CONSTANTS
  Half,         \* half of __pmfuzz_map_size
  ElemCnt,      \* number of registers, __pmfuzz_map_size/__pmfuzz_sra_elem_size
  Gap,          \* 97
  Cap,          \* COUNTER_CAP
  RegBits,      \* bits of a register
  Rand,         \* the compile-time random numbers of the instrumented places
  MaxAccess,    \* bound of the model: instrumented accesses of a process
  BitXor(_, _)     \* the operator ^ of C

\* The sizes are powers of two in the code. What is used of it is what XOR
\* does to numbers below, or not below, a power of two.
ASSUME MapAssumption ==
  /\ Half \in Nat /\ ElemCnt \in Nat /\ Gap \in Nat
  /\ Cap \in Nat \ {0} /\ RegBits \in Nat \ {0} /\ MaxAccess \in Nat
  /\ Gap < Half /\ Gap < ElemCnt
  /\ Rand \subseteq Nat

ASSUME XorAssumption ==
  /\ \A a, b \in 0..Half - 1 : BitXor(a, b) \in 0..Half - 1
  /\ \A a \in Half..2 * Half - 1, b \in 0..Half - 1 : BitXor(a, b) \in Half..2 * Half - 1
  /\ \A a, b \in 0..ElemCnt - 1 : BitXor(a, b) \in 0..ElemCnt - 1

VARIABLES
  pm_path,      \* ENABLE_PM_PATH is in the environment
  map,          \* __pmfuzz_area_ptr[] and __pmfuzz_prev_loc
  reads,        \* cells some read has updated (a history of the model)
  writes,       \* cells some write has updated (also)
  accesses      \* number of instrumented accesses, for the bound

mapVars == <<pm_path, map, reads, writes, accesses>>

Cell == IF pm_path THEN 0..2 * Half - 1 ELSE 0..ElemCnt - 1
Bit == 0..RegBits - 1
Content == IF pm_path THEN 0..Cap ELSE SUBSET Bit
Empty == [c \in Cell |-> IF pm_path THEN 0 ELSE {}]
-----------------------------------------------------------------------------
\* The highest bit of a register that is 1, or -1, where the loop ends.
Top(r) == IF r = {} THEN -1 ELSE CHOOSE b \in r : \A o \in r : o <= b

(* sra_push_back() with base bit 0. Wrong variants: it does not stop at    *)
(* the last bit; it leaves the old bit.                                    *)
PushBackOverflows(r) == (r \ {Top(r)}) \cup {Top(r) + 1}
PushBackKeeps(r) == IF Top(r) = RegBits - 1 THEN r ELSE r \cup {Top(r) + 1}

PushBack(r) ==
  IF Top(r) = RegBits - 1 THEN r ELSE (r \ {Top(r)}) \cup {Top(r) + 1}

(* A wrong variant: the counter wraps around.                              *)
BumpWraps(x) == IF pm_path THEN (x + 1) % (Cap + 1) ELSE PushBack(x)

Bump(x) ==
  IF pm_path THEN (IF x < Cap THEN x + 1 ELSE x) ELSE PushBack(x)

\* How many accesses a cell has counted.
Level(x) == IF pm_path THEN x ELSE Top(x) + 1

(* The index of a location: without ENABLE_PM_PATH the registers are few.  *)
Elem(loc) == IF pm_path THEN loc ELSE loc % (ElemCnt - Gap)
CellOf(m, loc) == BitXor(Elem(loc), m.prev)

(* A wrong variant: the location before is not halved.                     *)
UpdateUnhalved(m, loc) ==
  [area |-> [m.area EXCEPT ![CellOf(m, loc)] = Bump(@)], prev |-> Elem(loc)]

Update(m, loc) ==
  [area |-> [m.area EXCEPT ![CellOf(m, loc)] = Bump(@)],
   prev |-> Elem(loc) \div 2]

(* The first half of the locations is for reads, the second for writes.    *)
ReadLoc(rand) == rand % (Half - Gap)
WriteLoc(rand) == (rand % (Half - Gap)) + Half
ReadOnlyLoc(rand) == rand % Half
-----------------------------------------------------------------------------
MapInit ==
  /\ pm_path \in BOOLEAN
  /\ map = [area |-> Empty, prev |-> 0]
  /\ reads = {} /\ writes = {}
  /\ accesses = 0

Access ==
  /\ accesses < MaxAccess
  /\ accesses' = accesses + 1
  /\ UNCHANGED pm_path

PmfuzzRo(rand) ==
  /\ Access
  /\ map' = Update(map, ReadOnlyLoc(rand))
  /\ reads' = reads \cup {CellOf(map, ReadOnlyLoc(rand))}
  /\ UNCHANGED writes

PmfuzzWo(rand) ==
  /\ Access
  /\ map' = Update(map, WriteLoc(rand))
  /\ writes' = writes \cup {CellOf(map, WriteLoc(rand))}
  /\ UNCHANGED reads

PmfuzzRw(rand) ==
  LET read == Update(map, ReadLoc(rand)) IN
  /\ Access
  /\ map' = Update(read, WriteLoc(rand))
  /\ reads' = reads \cup {CellOf(map, ReadLoc(rand))}
  /\ writes' = writes \cup {CellOf(read, WriteLoc(rand))}

AccessPM == \E rand \in Rand : PmfuzzRo(rand) \/ PmfuzzWo(rand) \/ PmfuzzRw(rand)
-----------------------------------------------------------------------------
MapTypeOK ==
  /\ pm_path \in BOOLEAN
  /\ map \in [area : [Cell -> Content], prev : Cell]
  /\ reads \subseteq Cell
  /\ writes \subseteq Cell
  /\ accesses \in 0..MaxAccess

(* "First half of the map is for reads, second half for writes"            *)
(* (libpmfuzz.c:147): with ENABLE_PM_PATH no read ever updates a cell of   *)
(* the second half, and no write one of the first, although the cell also  *)
(* depends on the access before, of either kind.                           *)
HalvesSeparate ==
  pm_path => reads \subseteq 0..Half - 1 /\ writes \subseteq Half..2 * Half - 1

(* Without ENABLE_PM_PATH a register is what its comment says: one bit     *)
(* that moves. Two contents with the same count are therefore equal, which *)
(* memcmp() of two maps needs.                                             *)
OneHot == ~pm_path => \A c \in Cell : \A a, b \in map.area[c] : a = b
=============================================================================
