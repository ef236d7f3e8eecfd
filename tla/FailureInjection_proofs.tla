----------------------- MODULE FailureInjection_proofs -----------------------
(***************************************************************************)
(* Theorems about the failure injection runtime, for every size of map and *)
(* register, every cap and every setting. All of them rest on one order:   *)
(* the maps that were tried, the last of them, and the present map form a  *)
(* chain, because a cell never counts down. Without it, "differs from the  *)
(* last image" would not mean "was never tried".                           *)
(***************************************************************************)
EXTENDS FailureInjection, FiniteSetTheorems, TLAPS

USE MapAssumption

(* A remainder is smaller than the divisor.                                *)
LEMMA Remainder ==
  ASSUME NEW a \in Nat, NEW b \in Nat \ {0}
  PROVE  a % b \in 0..b - 1
OBVIOUS

(* The highest bit of a register with one bit.                             *)
LEMMA TopOfOne ==
  ASSUME NEW b \in Int
  PROVE  Top({b}) = b
BY DEF Top

\* The contents that occur: a counter, or at most one bit.
Proper(x) == x \in Content /\ (~pm_path => \A a, b \in x : a = b)

(* Such a register is empty or has one bit.                                *)
LEMMA ProperCases ==
  ASSUME NEW x, Proper(x), ~pm_path
  PROVE  x = {} \/ \E b \in Bit : x = {b}
BY DEF Proper, Content

(* An access leaves such a content, and counts no less.                    *)
LEMMA BumpCounts ==
  ASSUME NEW x, Proper(x), pm_path \in BOOLEAN
  PROVE  /\ Proper(Bump(x))
         /\ Level(x) \in Nat /\ Level(Bump(x)) \in Nat
         /\ Level(Bump(x)) >= Level(x)
<1>1. CASE pm_path
  BY <1>1 DEF Proper, Content, Bump, Level
<1>2. CASE ~pm_path
  <2>1. CASE x = {}
    <3>1. Top(x) = -1
      BY <2>1 DEF Top
    <3>2. PushBack(x) = {0}
      BY <2>1, <3>1 DEF PushBack
    <3>3. Top({0}) = 0
      BY TopOfOne
    <3>4. Level(x) = 0 /\ Level(Bump(x)) = 1 /\ Bump(x) = {0}
      BY <1>2, <3>1, <3>2, <3>3 DEF Bump, Level
    <3> QED
      BY <1>2, <3>4 DEF Proper, Content, Bit
  <2>2. ASSUME NEW b \in Bit, x = {b}
        PROVE  /\ Proper(Bump(x))
               /\ Level(x) \in Nat /\ Level(Bump(x)) \in Nat
               /\ Level(Bump(x)) >= Level(x)
    <3>1. b \in Int /\ b + 1 \in Int /\ Top(x) = b /\ Top({b + 1}) = b + 1
      BY <2>2, TopOfOne DEF Bit
    <3>2. CASE b = RegBits - 1
      BY <1>2, <2>2, <3>1, <3>2 DEF Proper, PushBack, Bump, Level, Bit
    <3>3. CASE b # RegBits - 1
      <4>1. PushBack(x) = {b + 1}
        BY <2>2, <3>1, <3>3 DEF PushBack
      <4>2. b + 1 \in Bit
        BY <3>3 DEF Bit
      <4> QED
        BY <1>2, <3>1, <4>1, <4>2 DEF Proper, Content, Bump, Level, Bit
    <3> QED
      BY <3>2, <3>3
  <2> QED
    BY <1>2, <2>1, <2>2, ProperCases
<1> QED
  BY <1>1, <1>2

(* A count stands for one content.                                         *)
LEMMA LevelInjective ==
  ASSUME NEW x, NEW y, Proper(x), Proper(y), pm_path \in BOOLEAN,
         Level(x) = Level(y)
  PROVE  x = y
<1>1. CASE pm_path
  BY <1>1 DEF Level
<1>2. CASE ~pm_path
  <2>1. Top({}) = -1
    BY DEF Top
  <2>2. \A b \in Bit : Top({b}) = b /\ b \in Nat
    BY TopOfOne DEF Bit
  <2>3. Top(x) + 1 = Top(y) + 1
    BY <1>2 DEF Level
  <2> QED
    BY <1>2, <2>1, <2>2, <2>3, ProperCases
<1> QED
  BY <1>1, <1>2
-----------------------------------------------------------------------------
(* Maps: what can be in one, and their order.                              *)
ProperArea(a) == a \in Area /\ \A c \in Cell : Proper(a[c])
Below(a, b) == \A c \in Cell : Level(a[c]) <= Level(b[c])
ProperMap(m) ==
  /\ m \in [area : [Cell -> Content], prev : Cell]
  /\ ProperArea(m.area)
  /\ pm_path => m.prev \in 0..Half - 1

(* What update_loc() does to a map, at a location of either half.          *)
LEMMA UpdateGrows ==
  ASSUME pm_path \in BOOLEAN, NEW m, ProperMap(m), NEW loc \in 0..2 * Half - 1
  PROVE  /\ ProperMap(Update(m, loc))
         /\ Below(m.area, Update(m, loc).area)
         /\ CellOf(m, loc) \in Cell
         /\ pm_path /\ loc < Half => CellOf(m, loc) \in 0..Half - 1
         /\ pm_path /\ loc >= Half => CellOf(m, loc) \in Half..2 * Half - 1
<1>1. /\ CellOf(m, loc) \in Cell /\ Elem(loc) \in Cell
      /\ pm_path => Elem(loc) = loc
      /\ pm_path /\ loc < Half => CellOf(m, loc) \in 0..Half - 1
      /\ pm_path /\ loc >= Half => CellOf(m, loc) \in Half..2 * Half - 1
  <2>1. CASE pm_path
    <3>1. m.prev \in 0..Half - 1
      BY <2>1 DEF ProperMap
    <3>2. CellOf(m, loc) = BitXor(loc, m.prev) /\ Elem(loc) = loc
      BY <2>1 DEF CellOf, Elem
    <3>3. CASE loc < Half
      BY <2>1, <3>1, <3>2, <3>3, XorAssumption DEF Cell
    <3>4. CASE ~(loc < Half)
      BY <2>1, <3>1, <3>2, <3>4, XorAssumption DEF Cell
    <3> QED
      BY <3>3, <3>4
  <2>2. CASE ~pm_path
    <3>1. loc % (ElemCnt - Gap) \in 0..(ElemCnt - Gap) - 1
      <4>1. loc \in Nat /\ ElemCnt - Gap \in Nat \ {0}
        OBVIOUS
      <4> QED
        BY <4>1, Remainder
    <3>2. Elem(loc) \in 0..ElemCnt - 1
      BY <2>2, <3>1 DEF Elem
    <3>3. m.prev \in 0..ElemCnt - 1
      BY <2>2 DEF ProperMap, Cell
    <3> QED
      BY <2>2, <3>2, <3>3, XorAssumption DEF CellOf, Cell
  <2> QED
    BY <2>1, <2>2
<1> DEFINE cell == CellOf(m, loc)
           area == Update(m, loc).area
<1>2. area = [m.area EXCEPT ![cell] = Bump(m.area[cell])]
  BY DEF Update
<1>3. Proper(m.area[cell]) /\ \A c \in Cell : Proper(m.area[c])
  BY <1>1 DEF ProperMap, ProperArea
<1>4. \A c \in Cell : area[c] = IF c = cell THEN Bump(m.area[c]) ELSE m.area[c]
  BY <1>1, <1>2 DEF ProperMap
<1>5. \A c \in Cell : Level(m.area[c]) \in Nat
  BY <1>3, BumpCounts
<1>6. Below(m.area, area)
  <2>1. \A c \in Cell : Level(m.area[c]) <= Level(area[c])
    <3> TAKE c \in Cell
    <3>1. Level(Bump(m.area[c])) >= Level(m.area[c])
          /\ Level(Bump(m.area[c])) \in Nat
      BY <1>3, BumpCounts
    <3>2. area[c] = Bump(m.area[c]) \/ area[c] = m.area[c]
      BY <1>4
    <3>3. CASE area[c] = Bump(m.area[c])
      BY <1>5, <3>1, <3>3
    <3>4. CASE area[c] = m.area[c]
      BY <1>5, <3>4
    <3> QED
      BY <3>2, <3>3, <3>4
  <2> HIDE DEF area
  <2> QED
    BY <2>1 DEF Below
<1>7. ProperArea(area)
  <2>1. \A c \in Cell : Proper(area[c])
    BY <1>3, <1>4, BumpCounts
  <2>2. area \in [Cell -> Content]
    BY <1>1, <1>2, <1>3, BumpCounts DEF ProperMap, Proper
  <2> QED
    BY <2>1, <2>2 DEF ProperArea, Area
<1>8. /\ Update(m, loc).prev \in Cell
      /\ pm_path => Update(m, loc).prev \in 0..Half - 1
  <2>1. Update(m, loc).prev = Elem(loc) \div 2
    BY DEF Update
  <2>2. CASE pm_path
    BY <1>1, <2>1, <2>2 DEF Cell
  <2>3. CASE ~pm_path
    BY <1>1, <2>1, <2>3 DEF Cell
  <2> QED
    BY <2>2, <2>3
<1>9. Update(m, loc) = [area |-> area, prev |-> Update(m, loc).prev]
  BY DEF Update
<1> QED
  BY <1>1, <1>6, <1>7, <1>8, <1>9 DEF ProperMap, ProperArea, Area
-----------------------------------------------------------------------------
(* The order of the maps is transitive.                                    *)
LEMMA BelowTransitive ==
  ASSUME pm_path \in BOOLEAN, NEW x, NEW y, NEW z,
         ProperArea(x), ProperArea(y), ProperArea(z), Below(x, y), Below(y, z)
  PROVE  Below(x, z)
<1>1. \A c \in Cell : /\ Level(x[c]) \in Nat /\ Level(y[c]) \in Nat
                      /\ Level(z[c]) \in Nat
  BY BumpCounts DEF ProperArea
<1> SUFFICES ASSUME NEW c \in Cell
             PROVE  Level(x[c]) <= Level(z[c])
  BY DEF Below
<1>2. Level(x[c]) <= Level(y[c]) /\ Level(y[c]) <= Level(z[c])
  BY DEF Below
<1> QED
  BY <1>1, <1>2

(* It is an order: maps that count the same are equal.                     *)
LEMMA BelowAntisymmetric ==
  ASSUME pm_path \in BOOLEAN, NEW x, NEW y,
         ProperArea(x), ProperArea(y), Below(x, y), Below(y, x)
  PROVE  x = y
<1>1. \A c \in Cell : Level(x[c]) \in Nat /\ Level(y[c]) \in Nat
  BY BumpCounts DEF ProperArea
<1>2. \A c \in Cell : x[c] = y[c]
  <2> TAKE c \in Cell
  <2>1. Level(x[c]) <= Level(y[c]) /\ Level(y[c]) <= Level(x[c])
    BY DEF Below
  <2>2. Level(x[c]) = Level(y[c])
    BY <1>1, <2>1
  <2> QED
    BY <2>2, LevelInjective DEF ProperArea
<1> QED
  BY <1>2 DEF ProperArea, Area

(* Every map is above itself and above the empty one.                      *)
LEMMA EmptyLowest ==
  ASSUME pm_path \in BOOLEAN
  PROVE  /\ ProperArea(Empty)
         /\ \A c \in Cell : Level(Empty[c]) = 0
         /\ \A a : ProperArea(a) => Below(Empty, a) /\ Below(a, a)
<1>1. Top({}) = -1
  BY DEF Top
<1>2. \A c \in Cell : Level(Empty[c]) = 0
  BY <1>1 DEF Empty, Level
<1>3. ProperArea(Empty)
  BY DEF ProperArea, Area, Proper, Empty, Content
<1>4. ASSUME NEW a, ProperArea(a)
      PROVE  Below(Empty, a) /\ Below(a, a)
  <2>1. \A c \in Cell : Level(a[c]) \in Nat
    BY <1>4, BumpCounts DEF ProperArea
  <2> QED
    BY <1>2, <2>1 DEF Below
<1> QED
  BY <1>2, <1>3, <1>4

(* An instrumented access: the map stays proper and grows; reads and       *)
(* writes keep to their halves.                                            *)
LEMMA AccessGrows ==
  ASSUME pm_path \in BOOLEAN, ProperMap(map), AccessPM
  PROVE  /\ ProperMap(map') /\ Below(map.area, map'.area)
         /\ \E R, W \in SUBSET Cell :
              /\ reads' = reads \cup R /\ writes' = writes \cup W
              /\ pm_path => R \subseteq 0..Half - 1 /\ W \subseteq Half..2 * Half - 1
<1>1. PICK rand \in Rand : PmfuzzRo(rand) \/ PmfuzzWo(rand) \/ PmfuzzRw(rand)
  BY DEF AccessPM
<1>2. /\ ReadOnlyLoc(rand) \in 0..Half - 1
      /\ ReadLoc(rand) \in 0..Half - 1
      /\ WriteLoc(rand) \in Half..2 * Half - 1
  <2>1. rand \in Nat /\ Half \in Nat \ {0} /\ Half - Gap \in Nat \ {0}
    OBVIOUS
  <2>2. rand % Half \in 0..Half - 1 /\ rand % (Half - Gap) \in 0..(Half - Gap) - 1
    BY <2>1, Remainder
  <2> QED
    BY <2>2 DEF ReadOnlyLoc, ReadLoc, WriteLoc
<1>3. CASE PmfuzzRo(rand)
  <2> DEFINE loc == ReadOnlyLoc(rand)
  <2>1. loc \in 0..2 * Half - 1 /\ loc < Half
    BY <1>2
  <2>2. /\ map' = Update(map, loc) /\ reads' = reads \cup {CellOf(map, loc)}
        /\ writes' = writes \cup {}
    BY <1>3 DEF PmfuzzRo
  <2> HIDE DEF loc
  <2>3. /\ CellOf(map, loc) \in Cell
        /\ pm_path => CellOf(map, loc) \in 0..Half - 1
    BY <2>1, UpdateGrows
  <2>4. ProperMap(map') /\ Below(map.area, map'.area)
    BY <2>1, <2>2, UpdateGrows
  <2>5. {CellOf(map, loc)} \in SUBSET Cell /\ {} \in SUBSET Cell
    BY <2>3
  <2> QED
    BY <2>2, <2>3, <2>4, <2>5
<1>4. CASE PmfuzzWo(rand)
  <2> DEFINE loc == WriteLoc(rand)
  <2>1. loc \in 0..2 * Half - 1 /\ loc >= Half
    BY <1>2
  <2>2. /\ map' = Update(map, loc) /\ writes' = writes \cup {CellOf(map, loc)}
        /\ reads' = reads \cup {}
    BY <1>4 DEF PmfuzzWo
  <2> HIDE DEF loc
  <2>3. /\ CellOf(map, loc) \in Cell
        /\ pm_path => CellOf(map, loc) \in Half..2 * Half - 1
    BY <2>1, UpdateGrows
  <2>4. ProperMap(map') /\ Below(map.area, map'.area)
    BY <2>1, <2>2, UpdateGrows
  <2>5. {CellOf(map, loc)} \in SUBSET Cell /\ {} \in SUBSET Cell
    BY <2>3
  <2> QED
    BY <2>2, <2>3, <2>4, <2>5
<1>5. CASE PmfuzzRw(rand)
  <2> DEFINE loc == ReadLoc(rand)
             loc2 == WriteLoc(rand)
             read == Update(map, loc)
  <2>1. /\ loc \in 0..2 * Half - 1 /\ loc < Half
        /\ loc2 \in 0..2 * Half - 1 /\ loc2 >= Half
    BY <1>2
  <2>2. /\ map' = Update(read, loc2)
        /\ reads' = reads \cup {CellOf(map, loc)}
        /\ writes' = writes \cup {CellOf(read, loc2)}
    BY <1>5 DEF PmfuzzRw
  <2> HIDE DEF loc, loc2
  <2>3. /\ CellOf(map, loc) \in Cell
        /\ pm_path => CellOf(map, loc) \in 0..Half - 1
        /\ ProperMap(read) /\ Below(map.area, read.area)
    BY <2>1, UpdateGrows
  <2> HIDE DEF read
  <2>4. /\ CellOf(read, loc2) \in Cell
        /\ pm_path => CellOf(read, loc2) \in Half..2 * Half - 1
        /\ ProperMap(Update(read, loc2)) /\ Below(read.area, Update(read, loc2).area)
    BY <2>1, <2>3, UpdateGrows
  <2>5. ProperMap(map') /\ Below(map.area, map'.area)
    BY <2>2, <2>3, <2>4, BelowTransitive DEF ProperMap
  <2>6. {CellOf(map, loc)} \in SUBSET Cell /\ {CellOf(read, loc2)} \in SUBSET Cell
    BY <2>3, <2>4
  <2> QED
    BY <2>2, <2>3, <2>4, <2>5, <2>6
<1> QED
  BY <1>1, <1>3, <1>4, <1>5
-----------------------------------------------------------------------------
(* Only the target changes the map, and nothing else then.                 *)
LEMMA WhoChangesMap ==
  ASSUME [Next]_vars
  PROVE  /\ pm_path' = pm_path
         /\ RunTarget \/ UNCHANGED mapVars
<1>1. CASE RunTarget
  BY <1>1 DEF RunTarget, AccessPM, PmfuzzRo, PmfuzzWo, PmfuzzRw, Access
<1>2. CASE Target /\ ~RunTarget
  BY <1>2 DEF Target, PmfuzzInit, Flush, Exit, Crash, mapVars
<1>3. CASE Inject
  BY <1>3 DEF Inject, NoInjection, Ignored, Unchanged, Dump, Selects, FailurePoint, mapVars
<1>4. CASE Replay \/ ReplayInit \/ ReplayEnd \/ \E inject \in BOOLEAN : ReplayPoint(inject)
  BY <1>4 DEF Replay, ReplayInit, ReplayEnd, ReplayPoint, mapVars
<1>5. CASE UNCHANGED vars
  BY <1>5 DEF vars, mapVars
<1> QED
  BY <1>1, <1>2, <1>3, <1>4, <1>5 DEF Next

(* The map and its histories keep their types, and the map stays proper.   *)
LEMMA MapStep ==
  ASSUME MapTypeOK, ProperMap(map), [Next]_vars
  PROVE  MapTypeOK' /\ ProperMap(map)' /\ Below(map.area, map'.area)
<1>1. pm_path' = pm_path /\ pm_path \in BOOLEAN
  BY WhoChangesMap DEF MapTypeOK
<1>2. ProperMap(map') => ProperMap(map)'
  BY <1>1 DEF ProperMap, ProperArea, Proper, Area, Cell, Content, Bit
<1>3. CASE RunTarget
  <2>1. /\ ProperMap(map') /\ Below(map.area, map'.area)
        /\ reads' \subseteq Cell /\ writes' \subseteq Cell
    BY <1>1, <1>3, AccessGrows DEF RunTarget, MapTypeOK
  <2>2. accesses' \in 0..MaxAccess
    BY <1>3 DEF RunTarget, AccessPM, PmfuzzRo, PmfuzzWo, PmfuzzRw, Access, MapTypeOK
  <2> QED
    BY <1>1, <1>2, <2>1, <2>2 DEF MapTypeOK, ProperMap, Cell, Content, Bit
<1>4. CASE UNCHANGED mapVars
  <2>1. Below(map.area, map'.area)
    BY <1>1, <1>4, EmptyLowest DEF mapVars, ProperMap
  <2> QED
    BY <1>1, <1>2, <1>4, <2>1 DEF mapVars, MapTypeOK, Cell, Content, Bit
<1> QED
  BY <1>3, <1>4, WhoChangesMap

(* Every step keeps the types.                                             *)
LEMMA TypeStep ==
  ASSUME TypeOK, ProperMap(map), [Next]_vars
  PROVE  TypeOK'
<1> USE FinjAssumption
<1>1. MapTypeOK'
  BY MapStep DEF TypeOK
<1>2. /\ Area' = Area /\ map.area \in Area
  BY WhoChangesMap DEF Area, Cell, Content, Bit, ProperMap
<1>3. CASE RunTarget
  BY <1>1, <1>2, <1>3 DEF TypeOK, RunTarget, injVars, files, replay, shape, history
<1>4. CASE PmfuzzInit
  BY <1>1, <1>2, <1>4 DEF TypeOK, PmfuzzInit, files, replay, history
<1>5. CASE NoInjection \/ Ignored \/ Unchanged
  <2>1. failure_id' \in Id
    <3>1. FailurePoint
      BY <1>5 DEF NoInjection, Ignored, Unchanged, Selects
    <3>2. failure_id \in Id \cup {-1}
      BY DEF TypeOK
    <3> QED
      BY <3>1, <3>2 DEF FailurePoint, Id
  <2>2. due' \subseteq Area
    BY <1>2, <1>5 DEF TypeOK, NoInjection, Ignored, Unchanged, history
  <2> QED
    BY <1>1, <1>2, <1>5, <2>1, <2>2
    DEF TypeOK, NoInjection, Ignored, Unchanged, Selects, FailurePoint, files,
        replay, shape, history
<1>6. ASSUME NEW made \in BOOLEAN, Dump(made)
      PROVE  TypeOK'
  <2>1. failure_id' \in Id
    BY <1>6 DEF TypeOK, Dump, Selects, FailurePoint, Id
  <2>2. buf' \in Seq(Id)
    BY <1>6, <2>1 DEF TypeOK, Dump
  <2>3. /\ images' \subseteq Id /\ due' \subseteq Area
        /\ imaged' \subseteq Area /\ failed' \subseteq Area
    BY <1>2, <1>6, <2>1 DEF TypeOK, Dump, Image
  <2> QED
    BY <1>1, <1>2, <1>6, <2>1, <2>2, <2>3
    DEF TypeOK, Dump, Selects, FailurePoint, replay, shape
<1>7. CASE Flush \/ Exit \/ Crash
  <2>1. list' \in Seq(Id) /\ buf' \in Seq(Id)
    <3>1. list \in Seq(Id) /\ buf \in Seq(Id)
      BY DEF TypeOK
    <3>2. list \o buf \in Seq(Id) /\ <<>> \in Seq(Id)
      BY <3>1
    <3> QED
      BY <1>7, <3>1, <3>2 DEF Flush, Exit, Crash, files
  <2> QED
    BY <1>1, <1>2, <1>7, <2>1
    DEF TypeOK, Phase, Flush, Exit, Crash, files, replay, shape, history
<1>8. CASE Replay \/ ReplayEnd
  BY <1>1, <1>2, <1>8 DEF TypeOK, Phase, Replay, ReplayEnd, files, replay, shape, history
<1>9. CASE ReplayInit
  <2>1. failure_list' \in [0..MaxFailures - 1 -> 0..EntrySize - 1]
    <3>1. ASSUME NEW k \in 0..MaxFailures - 1, k < Len(list)
          PROVE  list[k + 1] % EntrySize \in 0..EntrySize - 1
      <4>1. list[k + 1] \in Nat
        BY <3>1 DEF TypeOK, Id
      <4> QED
        BY <4>1, Remainder
    <3>2. 0 \in 0..EntrySize - 1
      OBVIOUS
    <3> QED
      BY <1>9, <3>1, <3>2 DEF ReplayInit
  <2> QED
    BY <1>1, <1>2, <1>9, <2>1 DEF TypeOK, ReplayInit, files, shape, history
<1>10. ASSUME NEW inject \in BOOLEAN, ReplayPoint(inject)
       PROVE  TypeOK'
  <2>1. failure_id' \in Id
    BY <1>10 DEF TypeOK, ReplayPoint, Id
  <2> QED
    BY <1>1, <1>2, <1>10, <2>1 DEF TypeOK, ReplayPoint, files, shape, history
<1>11. CASE UNCHANGED vars
  BY <1>1, <1>2, <1>11
  DEF TypeOK, vars, injVars, files, replay, shape, history
<1> QED
  BY <1>3, <1>4, <1>5, <1>6, <1>7, <1>8, <1>9, <1>10, <1>11
  DEF Next, Target, Inject
-----------------------------------------------------------------------------
(* The maps that were tried, the last of them and the present map are a    *)
(* chain.                                                                  *)
Chain ==
  /\ ProperArea(last) /\ \A a \in Tried : ProperArea(a)
  /\ Below(last, map.area) /\ \A a \in Tried : Below(a, last)
  /\ last \in Tried \cup {Empty}

IInv == TypeOK /\ ProperMap(map) /\ Chain

(* If the present map differs from the last, it was never tried, nor is    *)
(* it empty: whatever counts the same would be between the two.            *)
LEMMA NewMap ==
  ASSUME pm_path \in BOOLEAN, ProperMap(map), Chain, map.area # last,
         NEW a \in Tried \cup {Empty}
  PROVE  ~ Below(map.area, a)
<1>1. ProperArea(map.area) /\ ProperArea(last)
  BY DEF ProperMap, Chain
<1>2. ProperArea(a) /\ Below(a, last)
  BY <1>1, EmptyLowest DEF Chain
<1>3. Below(last, map.area)
  BY DEF Chain
<1> SUFFICES ASSUME Below(map.area, a) PROVE FALSE
  OBVIOUS
<1>4. Below(map.area, last)
  BY <1>1, <1>2, BelowTransitive
<1> QED
  BY <1>1, <1>3, <1>4, BelowAntisymmetric

\* Images and attempts stay what they are.
Idle == UNCHANGED <<last, images, imaged, failed>>

(* A step either leaves the tried maps alone, or tries the present one.    *)
LEMMA WhoDumps ==
  ASSUME [Next]_vars
  PROVE  \/ Idle /\ due' = due
         \/ Idle /\ Unchanged
         \/ \E made \in BOOLEAN : Dump(made)
<1> USE DEF Idle, files
<1>1. CASE Target
  BY <1>1 DEF Target, RunTarget, PmfuzzInit, Flush, Exit, Crash, injVars, history
<1>2. CASE NoInjection \/ Ignored \/ Unchanged
  BY <1>2 DEF NoInjection, Ignored, Unchanged, history
<1>3. CASE Replay \/ ReplayInit \/ ReplayEnd \/ \E inject \in BOOLEAN : ReplayPoint(inject)
  BY <1>3 DEF Replay, ReplayInit, ReplayEnd, ReplayPoint, history
<1>4. CASE UNCHANGED vars
  BY <1>4 DEF vars, injVars, history
<1> QED
  BY <1>1, <1>2, <1>3, <1>4 DEF Next, Inject

(* The tried maps with them.                                               *)
LEMMA TriedStep ==
  /\ Idle => Tried' = Tried /\ last' = last
  /\ history' = history => Tried' = Tried
  /\ \A made \in BOOLEAN : Dump(made) => Tried' = Tried \cup {map.area}
BY DEF Idle, Tried, history, Dump, Image

(* Every step keeps the chain.                                             *)
LEMMA ChainStep ==
  ASSUME TypeOK, ProperMap(map), Chain, [Next]_vars
  PROVE  Chain'
<1>1. pm_path' = pm_path /\ pm_path \in BOOLEAN
  BY WhoChangesMap DEF TypeOK, MapTypeOK
<1>2. Below(map.area, map'.area) /\ ProperArea(map'.area) /\ ProperArea(map.area)
  <2>1. ProperMap(map)' /\ Below(map.area, map'.area)
    BY MapStep DEF TypeOK
  <2> QED
    BY <1>1, <2>1 DEF ProperMap, ProperArea, Proper, Area, Cell, Content, Bit
<1> DEFINE Linked ==
             /\ ProperArea(last') /\ \A a \in Tried' : ProperArea(a)
             /\ Below(last', map'.area) /\ \A a \in Tried' : Below(a, last')
             /\ last' \in Tried' \cup {Empty}
<1>3. Linked
  <2>1. CASE last' = last /\ Tried' = Tried
    BY <1>1, <1>2, <2>1, BelowTransitive DEF Chain
  <2>2. ASSUME NEW made \in BOOLEAN, Dump(made)
        PROVE  Linked
    <3>1. last' = map.area /\ Tried' = Tried \cup {map.area}
      BY <2>2, TriedStep DEF Dump
    <3>2. \A a \in Tried : Below(a, map.area)
      BY <1>1, <1>2, BelowTransitive DEF Chain
    <3>3. Below(map.area, map.area)
      BY <1>1, <1>2, EmptyLowest
    <3> QED
      BY <1>2, <3>1, <3>2, <3>3 DEF Chain
  <2> QED
    BY <2>1, <2>2, WhoDumps, TriedStep
<1> QED
  <2>1. \A a : ProperArea(a) <=> ProperArea(a)'
    BY <1>1 DEF ProperArea, Proper, Area, Cell, Content, Bit
  <2> QED
    BY <1>1, <1>3 DEF Chain, ProperArea, Proper, Area, Cell, Content, Bit, Below,
                      Level, Empty

(* The initial state.                                                      *)
LEMMA InitInv == Init => IInv
<1> SUFFICES ASSUME Init PROVE IInv
  OBVIOUS
<1> USE FinjAssumption
<1>1. pm_path \in BOOLEAN /\ map = [area |-> Empty, prev |-> 0]
  BY DEF Init, MapInit
<1>2. ProperArea(Empty) /\ Below(Empty, Empty)
  BY <1>1, EmptyLowest
<1>3. 0 \in Cell /\ 0 \in 0..Half - 1
  BY DEF Cell
<1>4. ProperMap(map)
  BY <1>1, <1>2, <1>3 DEF ProperMap, ProperArea, Area
<1>5. MapTypeOK
  BY <1>1, <1>4 DEF Init, MapInit, MapTypeOK, ProperMap
<1>6. TypeOK
  <2>1. <<>> \in Seq(Id) /\ 0 \in 0..EntrySize - 1
    OBVIOUS
  <2>2. last \in Area
    BY <1>2 DEF Init, ProperArea
  <2>3. failure_list \in [0..MaxFailures - 1 -> 0..EntrySize - 1]
    BY <2>1 DEF Init
  <2> QED
    BY <1>5, <2>1, <2>2, <2>3 DEF TypeOK, Init, Phase, Never
<1>7. Chain
  BY <1>1, <1>2 DEF Init, Chain, Tried
<1> QED
  BY <1>4, <1>6, <1>7 DEF IInv

(* The invariant of this module.                                           *)
THEOREM Invariant == Spec => []IInv
<1>1. IInv /\ [Next]_vars => IInv'
  BY MapStep, TypeStep, ChainStep DEF IInv, TypeOK
<1> QED
  BY InitInv, <1>1, PTL DEF Spec

(* Every variable of the runtime, its list and its maps keeps its type; in *)
(* particular a register never gets a bit beyond its last.                 *)
THEOREM TypeCorrect == Spec => []TypeOK
BY Invariant, PTL DEF IInv

(* With ENABLE_PM_PATH reads and writes keep to their halves of the map.   *)
THEOREM ReadsAndWritesSeparate == Spec => []HalvesSeparate
<1>1. Init => HalvesSeparate
  BY DEF Init, MapInit, HalvesSeparate
<1>2. ASSUME IInv, HalvesSeparate, [Next]_vars
      PROVE  HalvesSeparate'
  <2>1. pm_path' = pm_path /\ pm_path \in BOOLEAN /\ ProperMap(map)
    BY <1>2, WhoChangesMap DEF IInv, TypeOK, MapTypeOK
  <2>2. CASE RunTarget
    BY <1>2, <2>1, <2>2, AccessGrows DEF RunTarget, HalvesSeparate
  <2>3. CASE UNCHANGED mapVars
    BY <1>2, <2>3 DEF mapVars, HalvesSeparate
  <2> QED
    BY <1>2, <2>2, <2>3, WhoChangesMap
<1> QED
  BY <1>1, <1>2, Invariant, PTL DEF Spec

(* A register never has two bits.                                          *)
THEOREM RegistersOneHot == Spec => []OneHot
<1>1. IInv => OneHot
  BY DEF IInv, ProperMap, ProperArea, Proper, OneHot
<1> QED
  BY <1>1, Invariant, PTL

(* What is needed of the images besides: the ids that have one are not     *)
(* above the present one, so that each image is a file of its own.         *)
ImageInv ==
  /\ Covered
  /\ IsFiniteSet(images) /\ IsFiniteSet(imaged)
  /\ phase = "run" => \A id \in images : id <= failure_id

(* The present map was never tried if it differs from the last.            *)
LEMMA NeverTried ==
  ASSUME IInv, map.area # last
  PROVE  map.area \notin Tried
<1> SUFFICES ASSUME map.area \in Tried PROVE FALSE
  OBVIOUS
<1>1. pm_path \in BOOLEAN /\ Below(map.area, map.area)
  BY EmptyLowest DEF IInv, TypeOK, MapTypeOK, ProperMap
<1> QED
  BY <1>1, NewMap DEF IInv

(* The target runs on only from the same failure point, or to the next.    *)
LEMMA WhoCounts ==
  ASSUME TypeOK, [Next]_vars, phase' = "run"
  PROVE  phase = "run" /\ failure_id' \in {failure_id, failure_id + 1}
<1>1. CASE Target
  BY <1>1 DEF Target, RunTarget, PmfuzzInit, Flush, Exit, Crash, injVars
<1>2. CASE Inject
  BY <1>2 DEF Inject, NoInjection, Ignored, Unchanged, Dump, Selects, FailurePoint
<1>3. CASE Replay \/ ReplayInit \/ ReplayEnd \/ \E inject \in BOOLEAN : ReplayPoint(inject)
  BY <1>3 DEF Replay, ReplayInit, ReplayEnd, ReplayPoint
<1>4. CASE UNCHANGED vars
  BY <1>4 DEF vars, injVars
<1> QED
  BY <1>1, <1>2, <1>3, <1>4 DEF Next

(* Every step keeps it.                                                    *)
LEMMA ImageStep ==
  ASSUME IInv, ImageInv, [Next]_vars
  PROVE  ImageInv'
<1>1. Empty' = Empty
  BY WhoChangesMap DEF Empty, Cell, IInv, TypeOK
<1>2. failure_id \in Int /\ \A id \in images : id \in Int
  BY DEF IInv, TypeOK, Id
<1>3. ASSUME phase' = "run", NEW id \in images
      PROVE  id <= failure_id'
  <2>1. phase = "run" /\ failure_id' \in {failure_id, failure_id + 1}
    BY <1>3, WhoCounts DEF IInv
  <2>2. id <= failure_id
    BY <2>1 DEF ImageInv
  <2> QED
    BY <1>2, <2>1, <2>2
<1>4. CASE Idle /\ due' = due
  BY <1>1, <1>3, <1>4 DEF Idle, ImageInv, Covered
<1>5. CASE Idle /\ Unchanged
  <2>1. due' = due \cup {last}
    BY <1>5 DEF Unchanged
  <2>2. last \in imaged \cup failed \cup {Empty}
    BY DEF IInv, Chain, Tried
  <2> QED
    BY <1>1, <1>3, <1>5, <2>1, <2>2 DEF Idle, ImageInv, Covered
<1>6. ASSUME NEW made \in BOOLEAN, Dump(made)
      PROVE  ImageInv'
  <2>1. /\ map.area \notin imaged /\ map.area \notin failed
        /\ due' = due \cup {map.area}
    BY <1>6, NeverTried DEF Dump, Tried
  <2>2. phase = "run" /\ failure_id' = failure_id + 1
    BY <1>6 DEF Dump, Selects, FailurePoint
  <2>3. failure_id' \notin images
    <3> SUFFICES ASSUME failure_id' \in images PROVE FALSE
      OBVIOUS
    <3>1. failure_id' <= failure_id
      BY <2>2 DEF ImageInv
    <3> QED
      BY <1>2, <2>2, <3>1
  <2>4. CASE made
    <3>1. /\ images' = images \cup {failure_id'} /\ failed' = failed
          /\ imaged' = imaged \cup {map.area}
      BY <1>6, <2>4 DEF Dump, Image
    <3>2. /\ IsFiniteSet(images') /\ Cardinality(images') = Cardinality(images) + 1
          /\ IsFiniteSet(imaged') /\ Cardinality(imaged') = Cardinality(imaged) + 1
      BY <2>1, <2>3, <3>1, FS_AddElement DEF ImageInv
    <3>3. Covered'
      BY <1>1, <2>1, <3>1, <3>2 DEF ImageInv, Covered
    <3>4. \A id \in images' : id <= failure_id'
      BY <1>2, <1>3, <2>2, <3>1 DEF ImageInv
    <3> QED
      BY <3>2, <3>3, <3>4 DEF ImageInv
  <2>5. CASE ~made
    <3>1. images' = images /\ imaged' = imaged /\ failed' = failed \cup {map.area}
      BY <1>6, <2>5 DEF Dump, Image
    <3> QED
      BY <1>1, <1>3, <2>1, <3>1 DEF ImageInv, Covered
  <2> QED
    BY <2>4, <2>5
<1> QED
  BY <1>4, <1>5, <1>6, WhoDumps

(* The map of every selected point has been tried: there is an image of it,*)
(* a file of its own, or the one attempt to make it failed and none is     *)
(* made later (libpmfuzz.c:411-418). Only the second loses a crash site.   *)
THEOREM NothingMissed == Spec => []Covered
<1>1. Init => ImageInv
  <2> SUFFICES ASSUME Init PROVE ImageInv
    OBVIOUS
  <2>1. images = {} /\ imaged = {} /\ failed = {} /\ due = {}
    BY DEF Init
  <2> QED
    BY <2>1, FS_EmptySet DEF ImageInv, Covered
<1>2. IInv /\ ImageInv /\ [Next]_vars => ImageInv'
  BY ImageStep
<1>3. ImageInv => Covered
  BY DEF ImageInv
<1> QED
  BY <1>1, <1>2, <1>3, Invariant, PTL DEF Spec
-----------------------------------------------------------------------------
(* Failure injection takes each coverage at most once.                     *)
THEOREM ImplementsCoverage == Spec => AbsSpec
<1>1. Init => Coverage!Init
  <2> SUFFICES ASSUME Init PROVE Coverage!Init
    OBVIOUS
  <2>1. pm_path \in BOOLEAN /\ map.area = Empty /\ Tried = {}
    BY DEF Init, MapInit, Tried
  <2>2. Levels(map.area) = [c \in Cell |-> 0]
    BY <2>1, EmptyLowest DEF Levels
  <2> QED
    BY <2>1, <2>2 DEF Coverage!Init, Coverage!Uncovered
<1>2. ASSUME IInv, [Next]_vars
      PROVE  [Coverage!Next]_(Coverage!coverageVars)
  <2>1. pm_path' = pm_path /\ pm_path \in BOOLEAN
    BY <1>2, WhoChangesMap DEF IInv, TypeOK, MapTypeOK
  <2>2. \A a : Levels(a)' = Levels(a')
    BY <2>1 DEF Levels, Cell, Level
  <2> DEFINE counts == Levels(map.area)
             taken == {Levels(a) : a \in Tried}
  <2>3. Tried' = Tried => taken' = taken
    BY <2>1 DEF Levels, Cell, Level
  <2>4. map' = map => counts' = counts
    BY <2>1 DEF Levels, Cell, Level
  <2>5. ProperArea(map.area)
    BY <1>2 DEF IInv, ProperMap
  <2>6. CASE RunTarget
    <3>1. ProperMap(map') /\ Below(map.area, map'.area)
      BY <1>2, <2>1, <2>6, AccessGrows DEF RunTarget, IInv
    <3>2. \A c \in Cell : /\ Level(map.area[c]) \in Nat
                          /\ Level(map'.area[c]) \in Nat
                          /\ Level(map'.area[c]) >= Level(map.area[c])
      <4> TAKE c \in Cell
      <4>1. Level(map.area[c]) \in Nat /\ Level(map'.area[c]) \in Nat
        BY <2>1, <2>5, <3>1, BumpCounts DEF ProperMap, ProperArea
      <4>2. Level(map.area[c]) <= Level(map'.area[c])
        BY <3>1 DEF Below
      <4> QED
        BY <4>1, <4>2
    <3>3. counts' = Levels(map'.area)
      BY <2>1 DEF Levels, Cell, Level
    <3>4. /\ DOMAIN counts = Cell /\ DOMAIN counts' = Cell
          /\ \A c \in Cell : /\ counts[c] = Level(map.area[c])
                             /\ counts'[c] = Level(map'.area[c])
      BY <3>3 DEF Levels
    <3>5. taken' = taken
      BY <2>3, <2>6, TriedStep DEF RunTarget, injVars
    <3> QED
      BY <3>2, <3>4, <3>5 DEF Coverage!Next, Coverage!Grow
  <2>7. ASSUME NEW made \in BOOLEAN, Dump(made)
        PROVE  Coverage!Try
    <3>1. map.area # last /\ Tried' = Tried \cup {map.area} /\ map' = map
      BY <2>7, TriedStep DEF Dump, Selects, FailurePoint, mapVars
    <3>2. \A a \in Tried \cup {Empty} : Levels(a) # counts
      <4> SUFFICES ASSUME NEW a \in Tried \cup {Empty}, Levels(a) = counts
                   PROVE  FALSE
        OBVIOUS
      <4>1. \A c \in Cell : Level(map.area[c]) = Level(a[c]) /\ Level(a[c]) \in Nat
        <5>1. ProperArea(a)
          BY <1>2, <2>1, EmptyLowest DEF IInv, Chain
        <5>2. \A c \in Cell : Level(a[c]) \in Nat
          BY <2>1, <5>1, BumpCounts DEF ProperArea
        <5>3. \A c \in Cell : Levels(a)[c] = Level(a[c]) /\ counts[c] = Level(map.area[c])
          BY DEF Levels
        <5> QED
          BY <5>2, <5>3
      <4>2. Below(map.area, a)
        BY <4>1 DEF Below
      <4> QED
        BY <1>2, <2>1, <3>1, <4>2, NewMap DEF IInv
    <3>3. Levels(Empty) = [c \in DOMAIN counts |-> 0]
      BY <2>1, EmptyLowest DEF Levels
    <3>4. taken' = taken \cup {counts} /\ counts' = counts
      BY <2>1, <3>1 DEF Levels, Cell, Level
    <3>5. counts \notin taken \cup {[c \in DOMAIN counts |-> 0]}
      BY <3>2, <3>3
    <3> QED
      BY <3>4, <3>5 DEF Coverage!Try, Coverage!Uncovered
  <2>8. CASE UNCHANGED mapVars /\ Tried' = Tried
    BY <2>3, <2>4, <2>8 DEF mapVars, Coverage!coverageVars
  <2> QED
    BY <1>2, <2>6, <2>7, <2>8, WhoChangesMap, WhoDumps, TriedStep DEF Coverage!Next
<1> QED
  BY <1>1, <1>2, Invariant, PTL DEF Spec, AbsSpec, Coverage!Spec
-----------------------------------------------------------------------------
(* What is needed of the list besides: the ids that were printed are not   *)
(* above the present one.                                                  *)
ListInv ==
  /\ ListComplete
  /\ IsFiniteSet(Tried)
  /\ phase = "run" => \A i \in DOMAIN Printed : Printed[i] <= failure_id

(* The ids in a list are numbers.                                          *)
LEMMA IdsOf ==
  ASSUME NEW s \in Seq(Id), NEW i \in DOMAIN s
  PROVE  s[i] \in Int
<1>1. s[i] \in Id
  OBVIOUS
<1> QED
  BY <1>1 DEF Id

(* Printing an id.                                                         *)
LEMMA PrintedAppend ==
  ASSUME NEW s \in Seq(Id), NEW t \in Seq(Id), NEW x \in Id
  PROVE  /\ s \o Append(t, x) \in Seq(Id)
         /\ Len(s \o Append(t, x)) = Len(s \o t) + 1
         /\ \A i \in DOMAIN (s \o t) : (s \o Append(t, x))[i] = (s \o t)[i]
         /\ (s \o Append(t, x))[Len(s \o t) + 1] = x
OBVIOUS

(* Every step keeps it.                                                    *)
LEMMA ListStep ==
  ASSUME IInv, TypeOK', ListInv, [Next]_vars
  PROVE  ListInv'
<1>1. list \in Seq(Id) /\ buf \in Seq(Id) /\ Printed \in Seq(Id)
  BY DEF IInv, TypeOK, Printed
<1>2. ASSUME files' = files, Tried' = Tried, env' = env,
             phase' = "exited" => phase = "exited",
             phase' = "run" => phase = "run" /\ failure_id' >= failure_id
      PROVE  ListInv'
  <2>1. Printed' = Printed /\ images' = images /\ buf' = buf
    BY <1>2 DEF files, Printed
  <2>2. ListComplete'
    BY <1>2, <2>1 DEF ListInv, ListComplete
  <2>3. ASSUME phase' = "run", NEW i \in DOMAIN Printed
        PROVE  Printed[i] <= failure_id'
    <3>1. Printed[i] \in Int /\ failure_id \in Int /\ failure_id' \in Int
      BY <1>1, <2>3, IdsOf DEF IInv, TypeOK, Id
    <3>2. Printed[i] <= failure_id /\ failure_id <= failure_id'
      BY <1>2, <2>3, <3>1 DEF ListInv
    <3> QED
      BY <3>1, <3>2
  <2> QED
    BY <1>2, <2>1, <2>2, <2>3 DEF ListInv
<1>3. CASE RunTarget \/ PmfuzzInit \/ UNCHANGED vars
  <2>1. files' = files /\ Tried' = Tried /\ env' = env /\ phase' = phase
        /\ failure_id' = failure_id
    BY <1>3, TriedStep DEF RunTarget, PmfuzzInit, vars, injVars
  <2>2. failure_id' >= failure_id
    BY <2>1 DEF IInv, TypeOK, Id
  <2> QED
    BY <1>2, <2>1, <2>2
<1>4. CASE NoInjection \/ Ignored \/ Unchanged
  <2>1. files' = files /\ Tried' = Tried /\ FailurePoint
    BY <1>4 DEF NoInjection, Ignored, Unchanged, Selects, history, Tried
  <2>2. /\ env' = env /\ phase = "run" /\ phase' = phase
        /\ failure_id' = failure_id + 1 /\ failure_id \in Int
    BY <2>1 DEF FailurePoint, IInv, TypeOK, Id
  <2> QED
    BY <1>2, <2>1, <2>2
<1>5. CASE Crash \/ Replay \/ ReplayInit \/ ReplayEnd \/ \E inject \in BOOLEAN : ReplayPoint(inject)
  BY <1>2, <1>5, TriedStep DEF Crash, Replay, ReplayInit, ReplayEnd, ReplayPoint
<1>6. CASE Flush \/ Exit
  <2>1. list' = list \o buf /\ buf' = <<>>
    BY <1>6 DEF Flush, Exit
  <2>2. Printed' = Printed
    BY <1>1, <2>1 DEF Printed
  <2>3. /\ env' = env /\ images' = images /\ Tried' = Tried
        /\ failure_id' = failure_id /\ phase = "run"
    BY <1>6, TriedStep DEF Flush, Exit
  <2> QED
    BY <2>1, <2>2, <2>3 DEF ListInv, ListComplete
<1>7. ASSUME NEW made \in BOOLEAN, Dump(made)
      PROVE  ListInv'
  <2> DEFINE id == failure_id'
  <2>1. /\ Tried' = Tried \cup {map.area} /\ map.area # last
        /\ list' = list /\ env' = env /\ phase = "run" /\ phase' = "run"
        /\ id = failure_id + 1 /\ images' \subseteq images \cup {id}
        /\ buf' = IF env.listing THEN Append(buf, id) ELSE buf
    BY <1>7, TriedStep DEF Dump, Image, Selects, FailurePoint
  <2>2. failure_id \in Int /\ id \in Id
    BY <2>1 DEF IInv, TypeOK, Id
  <2> HIDE DEF id
  <2>3. map.area \notin Tried
    BY <2>1, NeverTried
  <2>4. IsFiniteSet(Tried') /\ Cardinality(Tried') = Cardinality(Tried) + 1
    BY <2>1, <2>3, FS_AddElement DEF ListInv
  <2>5. CASE env.listing
    <3> DEFINE p == Printed
               q == Printed'
               n == Len(Printed) + 1
    <3>1. /\ q \in Seq(Id) /\ Len(q) = n /\ q[n] = id
          /\ \A i \in DOMAIN p : q[i] = p[i]
      BY <1>1, <2>1, <2>2, <2>5, PrintedAppend DEF Printed
    <3>2. p \in Seq(Id) /\ Len(p) = Cardinality(Tried)
      BY <1>1, <2>5 DEF ListInv, ListComplete
    <3>3. /\ \A i, j \in DOMAIN p : i < j => p[i] < p[j]
          /\ \A i \in DOMAIN p : p[i] <= failure_id
          /\ images \subseteq {p[i] : i \in DOMAIN p}
      BY <2>1, <2>5 DEF ListInv, ListComplete
    <3> HIDE DEF p, q
    <3>4. DOMAIN q = 1..n /\ DOMAIN p = 1..n - 1 /\ n \in Nat
      BY <3>1, <3>2 DEF p
    <3>5. \A i \in DOMAIN p : q[i] = p[i] /\ p[i] <= failure_id /\ p[i] \in Int
      BY <3>1, <3>2, <3>3, IdsOf
    <3>6. \A i \in DOMAIN q : q[i] <= id
      BY <2>1, <2>2, <3>1, <3>4, <3>5 DEF Id
    <3>7. \A i, j \in DOMAIN q : i < j => q[i] < q[j]
      <4> SUFFICES ASSUME NEW i \in DOMAIN q, NEW j \in DOMAIN q, i < j
                   PROVE  q[i] < q[j]
        OBVIOUS
      <4>1. i \in DOMAIN p
        BY <3>4
      <4>2. CASE j = n
        BY <2>1, <2>2, <3>1, <3>5, <4>1, <4>2
      <4>3. CASE j # n
        BY <3>3, <3>4, <3>5, <4>1, <4>3
      <4> QED
        BY <4>2, <4>3
    <3>8. images' \subseteq {q[i] : i \in DOMAIN q}
      <4> SUFFICES ASSUME NEW x \in images'
                   PROVE  \E i \in DOMAIN q : x = q[i]
        OBVIOUS
      <4>1. CASE x = id
        BY <3>1, <3>4, <4>1
      <4>2. CASE x \in images
        <5>1. PICK i \in DOMAIN p : x = p[i]
          BY <3>3, <4>2
        <5> QED
          BY <3>4, <3>5, <5>1
      <4> QED
        BY <2>1, <4>1, <4>2
    <3> QED
      BY <2>1, <2>4, <3>1, <3>2, <3>6, <3>7, <3>8 DEF ListInv, ListComplete, p, q, id
  <2>6. CASE ~env.listing
    <3>1. Printed' = Printed
      BY <2>1, <2>6 DEF Printed
    <3>2. \A i \in DOMAIN Printed : Printed[i] <= id
      <4> TAKE i \in DOMAIN Printed
      <4>1. Printed[i] \in Int /\ Printed[i] <= failure_id
        BY <1>1, <2>1, IdsOf DEF ListInv
      <4> QED
        BY <2>1, <2>2, <4>1
    <3> QED
      BY <2>1, <2>4, <2>6, <3>1, <3>2 DEF ListInv, ListComplete, id
  <2> QED
    BY <2>5, <2>6
<1> QED
  BY <1>3, <1>4, <1>5, <1>6, <1>7 DEF Next, Target, Inject

(* It holds in every state.                                                *)
LEMMA ListInvariant == Spec => []ListInv
<1>1. Init => ListInv
  <2> SUFFICES ASSUME Init PROVE ListInv
    OBVIOUS
  <2>1. Printed = <<>> /\ Tried = {} /\ images = {} /\ phase = "run"
    BY DEF Init, Printed, Tried
  <2>2. IsFiniteSet(Tried) /\ Cardinality(Tried) = 0
    BY <2>1, FS_EmptySet
  <2> QED
    BY <2>1, <2>2 DEF ListInv, ListComplete
<1>2. IInv /\ IInv' /\ ListInv /\ [Next]_vars => ListInv'
  BY ListStep DEF IInv
<1> QED
  BY <1>1, <1>2, Invariant, PTL DEF Spec

(* The list has an id for every map an image was tried of, in order, and no *)
(* other.                                                                  *)
THEOREM ListIsComplete == Spec => []ListComplete
<1>1. ListInv => ListComplete
  BY DEF ListInv
<1> QED
  BY <1>1, ListInvariant, PTL
-----------------------------------------------------------------------------
(* An id is never printed before its place in the list: points are counted *)
(* one by one, and each prints at most once. With a choice at random the   *)
(* first point does not, and each place is one behind. The ids themselves  *)
(* are bounded by the setting that selects them.                           *)
AtPlace(i, id) ==
  /\ i <= id + 1
  /\ ~env.creat /\ ~env.gen_all => i <= id /\ (id = 1 \/ id <= MaxDumpId)
  /\ ~env.creat /\ env.gen_all => id < AllLimit

Places == env.listing => \A i \in DOMAIN Printed : AtPlace(i, Printed[i])

(* Only a dump prints.                                                     *)
LEMMA WhoPrints ==
  ASSUME TypeOK, [Next]_vars
  PROVE  /\ env' = env
         /\ \/ Printed' = Printed
            \/ \E made \in BOOLEAN : Dump(made)
<1>1. list \in Seq(Id) /\ buf \in Seq(Id)
  BY DEF TypeOK
<1>2. CASE Flush \/ Exit
  <2>1. list' = list \o buf /\ buf' = <<>> /\ env' = env
    BY <1>2 DEF Flush, Exit
  <2> QED
    BY <1>1, <2>1 DEF Printed
<1>3. CASE RunTarget \/ PmfuzzInit \/ Crash \/ UNCHANGED vars
  BY <1>3 DEF RunTarget, PmfuzzInit, Crash, vars, injVars, files, Printed
<1>4. CASE NoInjection \/ Ignored \/ Unchanged
  BY <1>4 DEF NoInjection, Ignored, Unchanged, Selects, FailurePoint, files, Printed
<1>5. CASE Replay \/ ReplayInit \/ ReplayEnd \/ \E inject \in BOOLEAN : ReplayPoint(inject)
  BY <1>5 DEF Replay, ReplayInit, ReplayEnd, ReplayPoint, files, Printed
<1>6. ASSUME NEW made \in BOOLEAN, Dump(made)
      PROVE  env' = env
  BY <1>6 DEF Dump, Selects, FailurePoint
<1> QED
  BY <1>2, <1>3, <1>4, <1>5, <1>6 DEF Next, Target, Inject

(* Every step keeps the places.                                            *)
LEMMA PlaceStep ==
  ASSUME IInv, TypeOK', ListInv, Places, [Next]_vars
  PROVE  Places'
<1>1. env' = env
  BY WhoPrints DEF IInv
<1>2. CASE Printed' = Printed
  BY <1>1, <1>2 DEF Places, AtPlace
<1>3. ASSUME NEW made \in BOOLEAN, Dump(made), env.listing
      PROVE  \A i \in DOMAIN Printed' : AtPlace(i, Printed'[i])
  <2> DEFINE id == failure_id'
             p == Printed
             q == Printed'
             n == Len(Printed) + 1
  <2>1. /\ list \in Seq(Id) /\ buf \in Seq(Id) /\ p \in Seq(Id)
        /\ failure_id \in Int /\ id \in Id /\ id = failure_id + 1
        /\ list' = list /\ buf' = Append(buf, id) /\ phase = "run"
    BY <1>3 DEF Dump, Selects, FailurePoint, IInv, TypeOK, Id, Printed
  <2>2. TRUE \in SaveImg(id)
    BY <1>3 DEF Dump, Selects
  <2> HIDE DEF id
  <2>3. /\ q \in Seq(Id) /\ Len(q) = n /\ q[n] = id
        /\ \A i \in DOMAIN p : q[i] = p[i]
    BY <2>1, PrintedAppend DEF Printed
  <2>4. \A i \in DOMAIN p : p[i] <= failure_id /\ AtPlace(i, p[i])
    BY <1>3, <2>1 DEF ListInv, Places
  <2> HIDE DEF p, q
  <2>5. id \in Int /\ id >= 0
    BY <2>1 DEF Id
  <2>6. n \in Nat /\ DOMAIN q = 1..n /\ DOMAIN p = 1..n - 1
    BY <2>1, <2>3 DEF p
  <2>7. ASSUME n # 1
        PROVE  /\ p[n - 1] \in Int /\ p[n - 1] < id
               /\ AtPlace(n - 1, p[n - 1])
    <3>1. n \in Nat \ {0}
      BY <2>1 DEF n, p
    <3>2. n - 1 \in DOMAIN p
      BY <2>6, <2>7, <3>1
    <3>3. p[n - 1] \in Int
      BY <2>1, <3>2, IdsOf
    <3> QED
      BY <2>1, <2>4, <3>2, <3>3
  <2>8. n <= id + 1
    BY <2>5, <2>6, <2>7 DEF AtPlace
  <2>9. ASSUME ~env.creat, ~env.gen_all
        PROVE  n <= id /\ (id = 1 \/ id <= MaxDumpId)
    <3>1. TRUE \in RandomSave(id)
      BY <2>2, <2>9 DEF SaveImg
    <3>2. id # 0 /\ (id = 1 \/ id <= MaxDumpId)
      <4> SUFFICES ASSUME id = 0 \/ (id # 1 /\ ~(id <= MaxDumpId))
                   PROVE  FALSE
        OBVIOUS
      <4>1. id # 1 /\ (id = 0 \/ id > MaxDumpId)
        BY <2>5, FinjAssumption
      <4>2. RandomSave(id) = {FALSE}
        BY <4>1 DEF RandomSave
      <4> QED
        BY <3>1, <4>2, Zenon
    <3> QED
      BY <2>5, <2>6, <2>7, <2>9, <3>2 DEF AtPlace
  <2>10. ASSUME ~env.creat, env.gen_all
         PROVE  id < AllLimit
    BY <2>2, <2>10 DEF SaveImg
  <2>11. AtPlace(n, id)
    BY <2>8, <2>9, <2>10 DEF AtPlace
  <2>12. ASSUME NEW i \in DOMAIN q
         PROVE  AtPlace(i, q[i])
    <3>1. CASE i = n
      BY <2>3, <2>11, <3>1
    <3>2. CASE i # n
      <4>1. i \in DOMAIN p
        BY <2>6, <3>2
      <4> QED
        BY <2>3, <2>4, <4>1
    <3> QED
      BY <3>1, <3>2
  <2> QED
    BY <2>12 DEF q
<1>4. CASE \E made \in BOOLEAN : Dump(made)
  <2>1. env.listing => \A i \in DOMAIN Printed' : AtPlace(i, Printed'[i])
    BY <1>3, <1>4
  <2> QED
    BY <1>1, <2>1 DEF Places, AtPlace
<1> QED
  BY <1>2, <1>4, WhoPrints DEF IInv

(* They hold in every state.                                               *)
LEMMA PlaceInvariant == Spec => []Places
<1>1. Init => Places
  <2> SUFFICES ASSUME Init PROVE Places
    OBVIOUS
  <2>1. Printed = <<>>
    BY DEF Init, Printed
  <2> QED
    BY <2>1 DEF Places
<1>2. IInv /\ IInv' /\ ListInv /\ Places /\ [Next]_vars => Places'
  BY PlaceStep DEF IInv
<1> QED
  BY <1>1, <1>2, Invariant, ListInvariant, PTL DEF Spec

\* With a setting that selects by itself the list is never longer than the
\* array it is read into.
ListFits == env.listing /\ ~env.creat => Len(Printed) <= MaxFailures

(* "if (index < MAX_FAILURE_COUNT)" (libpmfuzz.c:493) never cuts a list    *)
(* off, unless IMG_CREAT_FINJ asks for every point: the limits of the      *)
(* selection, 100 and 10000, are not above the size of the array, 10000.   *)
THEOREM ListAlwaysFits ==
  ASSUME AllLimit <= MaxFailures, MaxDumpId <= MaxFailures, MaxDumpId # 0
  PROVE  Spec => []ListFits
<1>1. ASSUME TypeOK, Places
      PROVE  ListFits
  <2> SUFFICES ASSUME env.listing, ~env.creat, Len(Printed) # 0
               PROVE  Len(Printed) <= MaxFailures
    BY FinjAssumption, <1>1 DEF ListFits, TypeOK, Printed
  <2> DEFINE p == Printed
             n == Len(Printed)
  <2>1. p \in Seq(Id)
    BY <1>1 DEF TypeOK, Printed
  <2>2. n \in Nat /\ n \in DOMAIN p
    BY <2>1
  <2>3. p[n] \in Int /\ AtPlace(n, p[n])
    BY <1>1, <2>1, <2>2, IdsOf DEF Places
  <2> HIDE DEF p, n
  <2>4. CASE env.gen_all
    BY <2>2, <2>3, <2>4, FinjAssumption DEF AtPlace, n
  <2>5. CASE ~env.gen_all
    BY <2>2, <2>3, <2>5, FinjAssumption DEF AtPlace, n
  <2> QED
    BY <2>4, <2>5
<1> QED
  BY <1>1, TypeCorrect, PlaceInvariant, PTL
-----------------------------------------------------------------------------
(* The replaying process: it has images once it has read the list, which   *)
(* nothing changes any more, and those inside the array where an entry is  *)
(* not 0.                                                                  *)
ReplayInv ==
  /\ phase \in {"replay", "replayed"} => env.listing
  /\ again # {} => phase \in {"replay", "replayed"} /\ init_complete
  /\ phase \in {"replay", "replayed"} /\ init_complete =>
       \A k \in 0..MaxFailures - 1 :
          failure_list[k] = IF k < Len(list) THEN list[k + 1] % EntrySize ELSE 0
  /\ \A id \in again : id < MaxFailures => failure_list[id] # 0

(* Every step keeps it.                                                    *)
LEMMA ReplayStep ==
  ASSUME TypeOK, TypeOK', ReplayInv, [Next]_vars
  PROVE  ReplayInv'
<1>1. CASE UNCHANGED <<phase, env, init_complete, list, failure_list, again>>
  BY <1>1 DEF ReplayInv
<1>2. CASE phase = "run" /\ phase' \in {"run", "exited", "crashed"} /\ again' = again
  BY <1>2 DEF ReplayInv
<1>3. CASE RunTarget \/ PmfuzzInit \/ Flush \/ Exit \/ Crash \/ Inject
  BY <1>2, <1>3
  DEF RunTarget, PmfuzzInit, Flush, Exit, Crash, Inject, NoInjection, Ignored,
      Unchanged, Dump, Selects, FailurePoint, replay, injVars
<1>4. CASE Replay
  BY <1>4 DEF Replay, ReplayInv, replay, files
<1>5. CASE ReplayInit
  BY <1>5 DEF ReplayInit, ReplayInv, files
<1>6. ASSUME NEW inject \in BOOLEAN, ReplayPoint(inject)
      PROVE  ReplayInv'
  <2>1. /\ phase = "replay" /\ phase' = phase /\ env' = env /\ list' = list
        /\ init_complete' = init_complete /\ failure_list' = failure_list
        /\ again' = again \cup {id \in {failure_id'} : inject}
    BY <1>6 DEF ReplayPoint, files
  <2>2. CASE ~inject
    BY <1>1, <2>1, <2>2
  <2>3. CASE inject
    <3>1. init_complete /\ TRUE \in Entry(failure_id')
      <4>1. inject \in (IF init_complete THEN Entry(failure_id') ELSE {FALSE})
        BY <1>6 DEF ReplayPoint
      <4>2. init_complete
        BY <2>3, <4>1, Zenon
      <4> QED
        BY <2>3, <4>1, <4>2, Zenon
    <3>2. failure_id' < MaxFailures => failure_list[failure_id'] # 0
      BY <3>1 DEF Entry
    <3> QED
      BY <2>1, <3>1, <3>2 DEF ReplayInv
  <2> QED
    BY <2>2, <2>3
<1>7. CASE ReplayEnd
  BY <1>7 DEF ReplayEnd, ReplayInv, replay, files
<1>8. CASE UNCHANGED vars
  BY <1>1, <1>8 DEF vars, injVars, files, replay
<1> QED
  BY <1>3, <1>4, <1>5, <1>6, <1>7, <1>8 DEF Next, Target

(* What is reproduced: a point has an image by the entry at the position   *)
(* of its own number, an id cut to a byte; and the first point is never    *)
(* selected at random (libpmfuzz.c:330), so that the id at a position is   *)
(* above it. This is how far finding OnlyListed goes, for every length of  *)
(* list, array and run.                                                    *)
THEOREM ReplaysByPosition == Spec => []ReplayedByPosition
<1>1. Init => ReplayInv
  BY DEF Init, ReplayInv
<1>2. TypeOK /\ TypeOK' /\ ReplayInv /\ [Next]_vars => ReplayInv'
  BY ReplayStep
<1>3. ASSUME TypeOK, Places, ReplayInv
      PROVE  ReplayedByPosition
  <2> SUFFICES ASSUME NEW id \in again, id < MaxFailures
               PROVE  /\ id < Len(list)
                      /\ list[id + 1] % EntrySize # 0
                      /\ ~env.creat /\ ~env.gen_all => id < list[id + 1]
    BY DEF ReplayedByPosition
  <2>1. id \in Nat /\ id \in 0..MaxFailures - 1 /\ list \in Seq(Id) /\ buf \in Seq(Id)
    BY <1>3, FinjAssumption DEF TypeOK, Id
  <2>2. /\ failure_list[id] = (IF id < Len(list) THEN list[id + 1] % EntrySize ELSE 0)
        /\ failure_list[id] # 0 /\ env.listing
    BY <1>3, <2>1 DEF ReplayInv
  <2>3. id < Len(list) /\ list[id + 1] % EntrySize # 0
    BY <2>2
  <2>4. id + 1 \in DOMAIN list /\ id + 1 \in DOMAIN Printed
        /\ Printed[id + 1] = list[id + 1]
    BY <2>1, <2>3 DEF Printed
  <2>5. list[id + 1] \in Int /\ AtPlace(id + 1, list[id + 1])
    BY <1>3, <2>1, <2>2, <2>4, IdsOf DEF Places
  <2> QED
    BY <2>1, <2>3, <2>5 DEF AtPlace
<1> QED
  BY <1>1, <1>2, <1>3, TypeCorrect, PlaceInvariant, PTL DEF Spec
=============================================================================
