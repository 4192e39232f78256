------------------------ MODULE LegacySwapSpaceProofs -----------------------
(***************************************************************************)
(* Theorems about LegacySwapSpace, for every cache size and every bound.   *)
(* The properties that the run of LegacySwapSpace checks are together an   *)
(* inductive invariant.                                                    *)
(***************************************************************************)
EXTENDS LegacySwapSpace, SequenceTheorems, FiniteSetTheorems, WellFoundedInduction, TLAPS

LegacyInvariant ==
  /\ LegacyTypeOk
  /\ CountsArePointers
  /\ PinsHold
  /\ OneFilePerObject

-----------------------------------------------------------------------------
(* Facts about objects and nodes.                                          *)

LEMMA LegacyFields ==
  ASSUME NEW o \in Object
  PROVE  /\ o.target \in Node \/ o.target = NULL
         /\ o.version \in Nat /\ o.refcount \in Nat /\ o.pincount \in Nat
         /\ o.last_access \in Nat
BY DEF Object

LEMMA LegacyNodes == /\ NewNode \in Node /\ NewNode # NULL
                     /\ \A n \in Node : n # NULL /\ n.kids \subseteq Ids
BY LegacyNullAssumption DEF Node, NewNode

LEMMA IdSetsFinite == \A S \in SUBSET Ids : IsFiniteSet(S) /\ Cardinality(S) \in Nat
<1>1. IsFiniteSet(Ids)
  BY FS_Interval, LegacyBoundsAssumption DEF Ids
<1> QED
  BY <1>1, FS_Subset, FS_CardinalityType

\* The node of object j of objs, which may be a state in the middle of an action.
NodeAt(objs, j) == IF objs[j].target # NULL THEN objs[j].target
                   ELSE Stored(j, objs[j].version)

\* Objects, those in memory and the files go together.
InStep(objs, mem, fs) ==
  /\ \A j \in DOMAIN objs : objs[j] \in Object
  /\ mem = {j \in DOMAIN objs : objs[j].target # NULL}
  /\ \A j \in DOMAIN objs \ mem : objs[j].version > 0
  /\ DOMAIN fs = {f \in {<<j, objs[j].version>> : j \in DOMAIN objs} : f[2] > 0}
  /\ \A f \in DOMAIN fs : fs[f] \in Node

\* What the invariant says of them.
LEMMA LegacyFacts ==
  ASSUME LegacyInvariant
  PROVE  /\ InStep(ptrMap, memory_store, files)
         /\ DOMAIN ptrMap = 1..next_id - 1 /\ DOMAIN ptrMap \subseteq Ids
         /\ next_id \in 1..MaxId + 1 /\ now \in Nat
         /\ handles \in [Ids -> Nat]
         /\ pins \in Seq([id : Ids, through : 0..MaxId, writable : BOOLEAN])
         /\ \A i \in DOMAIN ptrMap : /\ ptrMap[i] \in Object
                                     /\ NodeOf(i) = NodeAt(ptrMap, i)
                                     /\ NodeOf(i) \in Node
         /\ \A i : Parents(i) \subseteq Ids
<1>1. /\ DOMAIN ptrMap = 1..next_id - 1 /\ next_id \in 1..MaxId + 1 /\ now \in Nat
      /\ handles \in [Ids -> Nat]
      /\ pins \in Seq([id : Ids, through : 0..MaxId, writable : BOOLEAN])
  BY DEF LegacyInvariant, LegacyTypeOk
<1>2. DOMAIN ptrMap \subseteq Ids
  BY <1>1, LegacyBoundsAssumption DEF Ids
<1>3. InStep(ptrMap, memory_store, files)
  BY DEF LegacyInvariant, LegacyTypeOk, OneFilePerObject, InStep
<1>4. ASSUME NEW i \in DOMAIN ptrMap
      PROVE  NodeOf(i) = NodeAt(ptrMap, i) /\ NodeOf(i) \in Node /\ ptrMap[i] \in Object
  <2>1. ptrMap[i] \in Object
    BY <1>3 DEF InStep
  <2>2. CASE ptrMap[i].target # NULL
    BY <2>1, <2>2, LegacyFields DEF NodeOf, NodeAt
  <2>3. CASE ptrMap[i].target = NULL
    <3>1. <<i, ptrMap[i].version>> \in DOMAIN files
      BY <1>3, <2>3 DEF InStep
    <3> QED
      BY <1>3, <2>1, <2>3, <3>1 DEF NodeOf, NodeAt, Stored, InStep
  <2> QED
    BY <2>2, <2>3
<1> QED
  BY <1>1, <1>2, <1>3, <1>4 DEF Parents

\* Back again.
LEMMA InStepIsOneFile ==
  ASSUME InStep(ptrMap, memory_store, files)
  PROVE  /\ OneFilePerObject
         /\ \A i \in DOMAIN ptrMap : ptrMap[i] \in Object
         /\ memory_store \subseteq DOMAIN ptrMap
         /\ DOMAIN ptrMap \subseteq Ids =>
              \A f \in DOMAIN files : f \in Ids \X Nat /\ files[f] \in Node
<1>1. ASSUME DOMAIN ptrMap \subseteq Ids, NEW f \in DOMAIN files
      PROVE  f \in Ids \X Nat /\ files[f] \in Node
  <2>1. PICK j \in DOMAIN ptrMap : f = <<j, ptrMap[j].version>>
    BY DEF InStep
  <2> QED
    BY <1>1, <2>1, LegacyFields DEF InStep
<1> QED
  BY <1>1 DEF InStep, OneFilePerObject

-----------------------------------------------------------------------------
(* Eviction.                                                               *)

\* An object that leaves memory keeps its node, in the file of its next version.
LEMMA EvictedFields ==
  ASSUME NEW o \in Object
  PROVE  /\ Evicted(o) \in Object /\ Evicted(o).target = NULL
         /\ Evicted(o).version = o.version + 1 /\ Evicted(o).refcount = o.refcount
         /\ Evicted(o).pincount = o.pincount /\ Evicted(o).last_access = o.last_access
<1> DEFINE c == o.version + 1
<1>1. c \in Nat
  BY LegacyFields
<1>2. Evicted(o) = [o EXCEPT !.target = NULL, !.version = c]
  BY DEF Evicted
<1> HIDE DEF c
<1>3. /\ Evicted(o) \in Object /\ Evicted(o).target = NULL
      /\ Evicted(o).version = c /\ Evicted(o).refcount = o.refcount
      /\ Evicted(o).pincount = o.pincount /\ Evicted(o).last_access = o.last_access
  BY <1>1, <1>2 DEF Object
<1> QED
  BY <1>3 DEF c

\* i has entered memory: every node is as in objs, nobody pinned has left.
RoomMade(i, objs) ==
  /\ InStep(ptrMap', memory_store', files')
  /\ DOMAIN ptrMap' = DOMAIN objs
  /\ i \in memory_store'
  /\ \A j \in DOMAIN objs :
       /\ NodeOf(j)' = NodeAt(objs, j)
       /\ ptrMap'[j].refcount = objs[j].refcount
       /\ ptrMap'[j].pincount = objs[j].pincount
       /\ objs[j].target # NULL /\ (j = i \/ objs[j].pincount # 0) =>
            ptrMap'[j].target = objs[j].target

LEMMA RoomIsMade ==
  ASSUME NEW i, NEW objs, i \in DOMAIN objs, i \notin memory_store,
         InStep(objs, memory_store \cup {i}, files),
         MakeRoomFor(i, objs)
  PROVE  RoomMade(i, objs)
<1> DEFINE Changed(v) == [j \in DOMAIN objs |-> IF j = v THEN Evicted(objs[j]) ELSE objs[j]]
<1>1. CASE Full /\ Oldest(objs) # {}
  <2>1. PICK v \in Oldest(objs) : /\ BackstoreStore(v, objs[v])
                                  /\ ptrMap' = Changed(v)
                                  /\ memory_store' = (memory_store \ {v}) \cup {i}
    BY <1>1 DEF MakeRoomFor
  <2>2. v \in memory_store /\ objs[v].pincount = 0
    BY DEF Oldest
  <2>3. v # i /\ v \in DOMAIN objs /\ objs[v] \in Object /\ objs[v].target # NULL
    BY <2>2 DEF InStep
  <2>4. /\ DOMAIN ptrMap' = DOMAIN objs
        /\ ptrMap'[v] = Evicted(objs[v])
        /\ \A j \in DOMAIN objs : j # v => ptrMap'[j] = objs[j]
    BY <2>1, <2>3
  <2>5. /\ ptrMap'[v] \in Object /\ ptrMap'[v].target = NULL
        /\ ptrMap'[v].version = objs[v].version + 1
        /\ ptrMap'[v].refcount = objs[v].refcount
        /\ ptrMap'[v].pincount = objs[v].pincount
    BY <2>3, <2>4, EvictedFields
  <2> DEFINE old == <<v, objs[v].version>>
             new == <<v, objs[v].version + 1>>
  <2>6. /\ DOMAIN files' = (DOMAIN files \ {old}) \cup {new}
        /\ files'[new] = objs[v].target
        /\ \A f \in DOMAIN files' : f # new => files'[f] = files[f]
    BY <2>1 DEF BackstoreStore
  <2>7. objs[v].version \in Nat /\ objs[v].target \in Node
    BY <2>3, LegacyFields
  <2>8. DOMAIN files' = {f \in {<<j, ptrMap'[j].version>> : j \in DOMAIN objs} : f[2] > 0}
    <3>1. ASSUME NEW f \in DOMAIN files'
          PROVE  f \in {<<j, ptrMap'[j].version>> : j \in DOMAIN objs} /\ f[2] > 0
      <4>1. CASE f = new
        BY <2>3, <2>5, <2>7, <4>1
      <4>2. CASE f # new
        <5>1. f \in DOMAIN files /\ f # old
          BY <2>6, <4>2
        <5>2. PICK j \in DOMAIN objs : f = <<j, objs[j].version>> /\ f[2] > 0
          BY <5>1 DEF InStep
        <5>3. j # v
          BY <5>1, <5>2
        <5> QED
          BY <2>4, <5>2, <5>3
      <4> QED
        BY <4>1, <4>2
    <3>2. ASSUME NEW j \in DOMAIN objs, ptrMap'[j].version > 0
          PROVE  <<j, ptrMap'[j].version>> \in DOMAIN files'
      <4>1. CASE j = v
        BY <2>5, <2>6, <4>1
      <4>2. CASE j # v
        BY <2>4, <2>6, <3>2, <4>2 DEF InStep
      <4> QED
        BY <4>1, <4>2
    <3> DEFINE Current == {<<j, ptrMap'[j].version>> : j \in DOMAIN objs}
    <3>3. ASSUME NEW f \in Current, f[2] > 0
          PROVE  f \in DOMAIN files'
      <4>1. PICK j \in DOMAIN objs : f = <<j, ptrMap'[j].version>>
        OBVIOUS
      <4> QED
        BY <3>2, <3>3, <4>1
    <3> HIDE DEF Current
    <3>4. DOMAIN files' = {f \in Current : f[2] > 0}
      BY <3>1, <3>3 DEF Current
    <3> QED
      BY <3>4 DEF Current
  <2>9. \A f \in DOMAIN files' : files'[f] \in Node
    BY <2>6, <2>7 DEF InStep
  <2>10. InStep(ptrMap', memory_store', files')
    <3>1. \A j \in DOMAIN ptrMap' : ptrMap'[j] \in Object
      BY <2>4, <2>5 DEF InStep
    <3>2. memory_store' = {j \in DOMAIN ptrMap' : ptrMap'[j].target # NULL}
      BY <2>1, <2>3, <2>4, <2>5 DEF InStep
    <3>3. \A j \in DOMAIN ptrMap' \ memory_store' : ptrMap'[j].version > 0
      BY <2>1, <2>4, <2>5, <2>7 DEF InStep
    <3> QED
      BY <2>4, <2>8, <2>9, <3>1, <3>2, <3>3 DEF InStep
  <2>11. ASSUME NEW j \in DOMAIN objs
         PROVE  NodeOf(j)' = NodeAt(objs, j)
    <3>1. CASE j = v
      BY <2>3, <2>5, <2>6, <3>1 DEF NodeOf, NodeAt, Stored
    <3>2. CASE j # v
      <4>1. <<j, objs[j].version>> \in DOMAIN files' <=> <<j, objs[j].version>> \in DOMAIN files
        BY <2>6, <3>2
      <4>2. <<j, objs[j].version>> # new
        BY <3>2
      <4> QED
        BY <2>4, <2>6, <3>2, <4>1, <4>2 DEF NodeOf, NodeAt, Stored
    <3> QED
      BY <3>1, <3>2
  <2> QED
    BY <2>1, <2>2, <2>3, <2>4, <2>5, <2>10, <2>11 DEF RoomMade
<1>2. CASE ~(Full /\ Oldest(objs) # {})
  <2>1. /\ ptrMap' = [j \in DOMAIN objs |-> objs[j]]
        /\ memory_store' = memory_store \cup {i}
        /\ files' = files
    BY <1>2 DEF MakeRoomFor
  <2>2. DOMAIN ptrMap' = DOMAIN objs /\ \A j \in DOMAIN objs : ptrMap'[j] = objs[j]
    BY <2>1
  <2>3. InStep(ptrMap', memory_store', files')
    BY <2>1, <2>2 DEF InStep
  <2> QED
    BY <2>1, <2>2, <2>3 DEF NodeOf, NodeAt, Stored, RoomMade
<1> QED
  BY <1>1, <1>2

-----------------------------------------------------------------------------
(* Pins.                                                                   *)

Pin == [id : Ids, through : 0..MaxId, writable : BOOLEAN]
PinsOf(i) == {n \in DOMAIN pins : pins[n].id = i}

LEMMA PinSetsFinite ==
  ASSUME pins \in Seq(Pin), NEW i
  PROVE  IsFiniteSet(PinsOf(i)) /\ Cardinality(PinsOf(i)) \in Nat
<1>1. DOMAIN pins = 1..Len(pins) /\ Len(pins) \in Nat
  BY LenProperties
<1>2. IsFiniteSet(DOMAIN pins)
  BY <1>1, FS_Interval
<1> QED
  BY <1>2, FS_Subset, FS_CardinalityType DEF PinsOf

\* Who is pinned is in memory and counted as pinned; so is who holds the pointer.
LEMMA PinnedFacts ==
  ASSUME LegacyInvariant, NEW n \in DOMAIN pins
  PROVE  /\ pins[n] \in Pin /\ pins[n].id \in Ids /\ pins[n].id \in DOMAIN ptrMap
         /\ pins[n].id \in memory_store /\ ptrMap[pins[n].id].target # NULL
         /\ ptrMap[pins[n].id].pincount # 0
         /\ NodeOf(pins[n].id) = ptrMap[pins[n].id].target
         /\ pins[n].through = 0 => handles[pins[n].id] > 0
         /\ pins[n].through # 0 =>
              /\ n > 1 /\ n - 1 \in DOMAIN pins /\ pins[n].through = pins[n - 1].id
              /\ pins[n].through \in memory_store
              /\ pins[n].id \in ptrMap[pins[n].through].target.kids
<1> DEFINE i == pins[n].id
<1>1. pins \in Seq(Pin) /\ DOMAIN pins = 1..Len(pins) /\ Len(pins) \in Nat
  BY LegacyFacts, LenProperties DEF Pin
<1>2. pins[n] \in Pin /\ i \in Ids
  <2>1. pins[n] \in Pin
    BY <1>1, ElementOfSeq
  <2> QED
    BY <2>1 DEF Pin
<1>3. /\ i \in memory_store /\ ptrMap[i].target # NULL
      /\ pins[n].through = 0 => handles[i] > 0
      /\ pins[n].through # 0 =>
              /\ n > 1 /\ pins[n].through = pins[n - 1].id
              /\ pins[n].through \in memory_store
              /\ i \in ptrMap[pins[n].through].target.kids
  BY DEF LegacyInvariant, PinsHold
<1>4. i \in DOMAIN ptrMap /\ NodeOf(i) = ptrMap[i].target
  BY <1>3, LegacyFacts DEF InStep, NodeOf
<1>5. ptrMap[i].pincount = Cardinality(PinsOf(i))
  BY <1>4 DEF LegacyInvariant, PinsHold, PinsOf
<1>6. n \in PinsOf(i)
  BY DEF PinsOf
<1>7. Cardinality(PinsOf(i)) # 0
  BY <1>1, <1>6, PinSetsFinite, FS_EmptySet
<1>8. n > 1 => n - 1 \in DOMAIN pins
  BY <1>1
<1> QED
  BY <1>2, <1>3, <1>4, <1>5, <1>7, <1>8

\* The node on top of the stack.
LEMMA TopIsPinned ==
  ASSUME LegacyInvariant, pins # << >>
  PROVE  /\ Len(pins) \in DOMAIN pins /\ Len(pins) \in Nat
         /\ Top \in Ids /\ Top \in DOMAIN ptrMap /\ Top \in memory_store
         /\ ptrMap[Top].target \in Node /\ ptrMap[Top].pincount # 0
         /\ NodeOf(Top) = ptrMap[Top].target
<1>1. pins \in Seq(Pin)
  BY LegacyFacts DEF Pin
<1>2. Len(pins) \in DOMAIN pins /\ Len(pins) \in Nat
  BY <1>1, LenProperties, EmptySeq
<1>3. /\ Top \in Ids /\ Top \in DOMAIN ptrMap /\ Top \in memory_store
      /\ ptrMap[Top].target # NULL /\ ptrMap[Top].pincount # 0
      /\ NodeOf(Top) = ptrMap[Top].target
  BY <1>2, PinnedFacts DEF Top
<1> QED
  BY <1>2, <1>3, LegacyFacts

\* A step that neither pins nor unpins keeps PinsHold if no pin's object leaves memory
\* and no pointer that one was made through goes.
LEMMA PinsStay ==
  ASSUME LegacyInvariant, pins' = pins,
         \A i \in DOMAIN ptrMap' : ptrMap'[i].pincount =
                                     IF i \in DOMAIN ptrMap THEN ptrMap[i].pincount ELSE 0,
         DOMAIN ptrMap' \ DOMAIN ptrMap \subseteq {next_id},
         \A n \in DOMAIN pins :
           /\ pins[n].id \in memory_store' /\ ptrMap'[pins[n].id].target # NULL
           /\ pins[n].through = 0 => handles'[pins[n].id] > 0
           /\ pins[n].through # 0 =>
                pins[n].id \in ptrMap'[pins[n].through].target.kids
  PROVE  PinsHold'
<1>1. ASSUME NEW n \in DOMAIN pins
      PROVE  pins[n].through # 0 =>
               /\ n > 1 /\ pins[n].through = pins[n - 1].id
               /\ pins[n].through \in memory_store'
  BY PinnedFacts
<1>2. ASSUME NEW i \in DOMAIN ptrMap'
      PROVE  ptrMap'[i].pincount = Cardinality(PinsOf(i)')
  <2>1. PinsOf(i)' = PinsOf(i)
    BY DEF PinsOf
  <2>2. CASE i \in DOMAIN ptrMap
    BY <2>1, <2>2 DEF LegacyInvariant, PinsHold, PinsOf
  <2>3. CASE i \notin DOMAIN ptrMap
    <3>1. PinsOf(i) = {}
      BY <2>3, PinnedFacts DEF PinsOf
    <3> QED
      BY <2>1, <2>3, <3>1, FS_EmptySet
  <2> QED
    BY <2>2, <2>3
<1> QED
  BY <1>1, <1>2 DEF PinsHold, PinsOf

-----------------------------------------------------------------------------
(* Counts.                                                                 *)

\* A step that changes no node's kids keeps the counts right if each object's count
\* goes with the number of local pointers to it.
LEMMA CountsFollow ==
  ASSUME LegacyInvariant, DOMAIN ptrMap' = DOMAIN ptrMap,
         \A i \in DOMAIN ptrMap : NodeOf(i)'.kids = NodeOf(i).kids,
         handles' \in [Ids -> Nat],
         \A i \in DOMAIN ptrMap :
           /\ ptrMap'[i].refcount \in Nat
           /\ ptrMap'[i].refcount + handles[i] = ptrMap[i].refcount + handles'[i],
         \A i \in Ids \ DOMAIN ptrMap : handles'[i] = handles[i]
  PROVE  CountsArePointers'
<1>1. \A i : Parents(i)' = Parents(i)
  BY DEF Parents
<1>2. ASSUME NEW i \in Ids
      PROVE  handles'[i] + Cardinality(Parents(i)')
               = IF i \in DOMAIN ptrMap' THEN ptrMap'[i].refcount ELSE 0
  <2>1. /\ handles[i] \in Nat /\ handles'[i] \in Nat
        /\ Cardinality(Parents(i)) \in Nat /\ Parents(i)' = Parents(i)
    BY <1>1, LegacyFacts, IdSetsFinite
  <2>2. handles[i] + Cardinality(Parents(i))
          = IF i \in DOMAIN ptrMap THEN ptrMap[i].refcount ELSE 0
    BY DEF LegacyInvariant, CountsArePointers
  <2>3. CASE i \in DOMAIN ptrMap
    BY <2>1, <2>2, <2>3
  <2>4. CASE i \notin DOMAIN ptrMap
    BY <2>1, <2>2, <2>4
  <2> QED
    BY <2>3, <2>4
<1> QED
  BY <1>2 DEF CountsArePointers

\* What a pointer leads to is there, and counted.
LEMMA PointedAtIsLive ==
  ASSUME LegacyInvariant, NEW i \in Ids,
         handles[i] > 0 \/ \E j \in DOMAIN ptrMap : i \in NodeOf(j).kids
  PROVE  i \in DOMAIN ptrMap /\ ptrMap[i].refcount \in Nat \ {0}
<1>1. /\ handles[i] \in Nat /\ IsFiniteSet(Parents(i)) /\ Cardinality(Parents(i)) \in Nat
  BY LegacyFacts, IdSetsFinite
<1>2. handles[i] > 0 \/ Cardinality(Parents(i)) # 0
  <2>1. (\E j \in DOMAIN ptrMap : i \in NodeOf(j).kids) => Parents(i) # {}
    BY DEF Parents
  <2> QED
    BY <1>1, <2>1, FS_EmptySet
<1>3. handles[i] + Cardinality(Parents(i))
        = IF i \in DOMAIN ptrMap THEN ptrMap[i].refcount ELSE 0
  BY DEF LegacyInvariant, CountsArePointers
<1> QED
  BY <1>1, <1>2, <1>3

LEMMA HeldIsAllocated ==
  ASSUME LegacyInvariant, NEW i \in Ids, NEW h \in Holders(i)
  PROVE  /\ i \in DOMAIN ptrMap
         /\ \/ h = 0 /\ handles[i] > 0
            \/ /\ h # 0 /\ pins # << >> /\ h = Top /\ h \in 0..MaxId
               /\ i \in ptrMap[Top].target.kids
<1>1. \/ h = 0 /\ handles[i] > 0
      \/ pins # << >> /\ h = Top /\ i \in ptrMap[Top].target.kids
  BY DEF Holders
<1>2. CASE h = 0 /\ handles[i] > 0
  BY <1>2, PointedAtIsLive
<1>3. CASE pins # << >> /\ h = Top /\ i \in ptrMap[Top].target.kids
  <2>1. Top \in Ids /\ Top \in DOMAIN ptrMap /\ i \in NodeOf(Top).kids
    BY <1>3, TopIsPinned
  <2>2. h # 0 /\ h \in 0..MaxId
    BY <1>3, <2>1 DEF Ids
  <2> QED
    BY <1>3, <2>1, <2>2, PointedAtIsLive
<1> QED
  BY <1>1, <1>2, <1>3

\* The parts of the invariant together, for a step that allocates nothing.
LEMMA Assembled ==
  ASSUME LegacyInvariant, InStep(ptrMap', memory_store', files'),
         DOMAIN ptrMap' = DOMAIN ptrMap, next_id' = next_id, now' \in Nat,
         handles' \in [Ids -> Nat], pins' \in Seq(Pin), CountsArePointers', PinsHold'
  PROVE  LegacyInvariant'
<1>1. /\ OneFilePerObject'
      /\ \A i \in DOMAIN ptrMap' : ptrMap'[i] \in Object
      /\ memory_store' \subseteq DOMAIN ptrMap'
      /\ \A f \in DOMAIN files' : f \in Ids \X Nat /\ files'[f] \in Node
  <2>1. InStep(ptrMap', memory_store', files') => InStep(ptrMap, memory_store, files)'
    BY DEF InStep
  <2>2. DOMAIN ptrMap' \subseteq Ids
    BY LegacyFacts
  <2>3. (InStep(ptrMap, memory_store, files) =>
           /\ OneFilePerObject
           /\ \A i \in DOMAIN ptrMap : ptrMap[i] \in Object
           /\ memory_store \subseteq DOMAIN ptrMap
           /\ DOMAIN ptrMap \subseteq Ids =>
                \A f \in DOMAIN files : f \in Ids \X Nat /\ files[f] \in Node)'
    BY InStepIsOneFile, PTL
  <2> QED
    BY <2>1, <2>2, <2>3
<1>2. LegacyTypeOk'
  BY <1>1, LegacyFacts DEF LegacyTypeOk, Pin
<1> QED
  BY <1>1, <1>2 DEF LegacyInvariant

-----------------------------------------------------------------------------
(* Steps that only change local pointers and pins.                         *)

\* A step that keeps every object's node and file keeps InStep.
LEMMA InStepKept ==
  ASSUME LegacyInvariant, DOMAIN ptrMap' = DOMAIN ptrMap,
         UNCHANGED <<memory_store, files>>,
         \A i \in DOMAIN ptrMap : /\ ptrMap'[i] \in Object
                                  /\ ptrMap'[i].target = ptrMap[i].target
                                  /\ ptrMap'[i].version = ptrMap[i].version
  PROVE  /\ InStep(ptrMap', memory_store', files')
         /\ \A i \in DOMAIN ptrMap : NodeOf(i)' = NodeOf(i)
<1>1. InStep(ptrMap, memory_store, files)
  BY LegacyFacts
<1>2. {<<j, ptrMap'[j].version>> : j \in DOMAIN ptrMap}
        = {<<j, ptrMap[j].version>> : j \in DOMAIN ptrMap}
  OBVIOUS
<1>3. InStep(ptrMap', memory_store', files')
  BY <1>1, <1>2 DEF InStep
<1> QED
  BY <1>3 DEF NodeOf, Stored

\* Local pointers change, and with them the counts, but for what is pinned through them.
LEMMA LocalPointersStep ==
  ASSUME LegacyInvariant, DOMAIN ptrMap' = DOMAIN ptrMap,
         UNCHANGED <<memory_store, next_id, now, pins, files>>,
         handles' \in [Ids -> Nat],
         \A i \in DOMAIN ptrMap :
           /\ ptrMap'[i] = [ptrMap[i] EXCEPT !.refcount = ptrMap'[i].refcount]
           /\ ptrMap'[i].refcount \in Nat
           /\ ptrMap'[i].refcount + handles[i] = ptrMap[i].refcount + handles'[i],
         \A i \in Ids \ DOMAIN ptrMap : handles'[i] = handles[i],
         \A i \in Ids : NotPinnedThrough(0, i) \/ handles'[i] > 0
  PROVE  /\ LegacyInvariant'
         /\ \A i \in DOMAIN ptrMap : NodeOf(i)' = NodeOf(i)
<1>1. ASSUME NEW i \in DOMAIN ptrMap
      PROVE  /\ ptrMap'[i] \in Object
             /\ ptrMap'[i].target = ptrMap[i].target
             /\ ptrMap'[i].version = ptrMap[i].version
             /\ ptrMap'[i].pincount = ptrMap[i].pincount
  <2> DEFINE c == ptrMap'[i].refcount
  <2>1. c \in Nat /\ ptrMap[i] \in Object /\ ptrMap'[i] = [ptrMap[i] EXCEPT !.refcount = c]
    BY LegacyFacts
  <2> HIDE DEF c
  <2>2. /\ [ptrMap[i] EXCEPT !.refcount = c] \in Object
        /\ [ptrMap[i] EXCEPT !.refcount = c].target = ptrMap[i].target
        /\ [ptrMap[i] EXCEPT !.refcount = c].version = ptrMap[i].version
        /\ [ptrMap[i] EXCEPT !.refcount = c].pincount = ptrMap[i].pincount
    BY <2>1 DEF Object
  <2> QED
    BY <2>1, <2>2
<1>2. /\ InStep(ptrMap', memory_store', files')
      /\ \A i \in DOMAIN ptrMap : NodeOf(i)' = NodeOf(i)
  BY <1>1, InStepKept
<1>3. CountsArePointers'
  BY <1>2, CountsFollow
<1>4. ASSUME NEW n \in DOMAIN pins
      PROVE  /\ pins[n].id \in memory_store' /\ ptrMap'[pins[n].id].target # NULL
             /\ pins[n].through = 0 => handles'[pins[n].id] > 0
             /\ pins[n].through # 0 =>
                  pins[n].id \in ptrMap'[pins[n].through].target.kids
  <2>1. pins[n].through # 0 => pins[n].through \in DOMAIN ptrMap
    BY PinnedFacts, LegacyFacts DEF InStep
  <2> QED
    BY <1>1, <2>1, PinnedFacts DEF NotPinnedThrough
<1>5. PinsHold'
  BY <1>1, <1>4, PinsStay
<1> QED
  BY <1>2, <1>3, <1>5, Assembled, LegacyFacts DEF Pin

LEMMA CopyKidStep ==
  ASSUME LegacyInvariant, NEW k \in Ids, CopyKid(k)
  PROVE  /\ LegacyInvariant' /\ DOMAIN ptrMap' = DOMAIN ptrMap
         /\ \A i \in DOMAIN ptrMap : NodeOf(i)' = NodeOf(i)
<1> DEFINE c == ptrMap[k].refcount + 1
<1>1. /\ ptrMap' = [ptrMap EXCEPT ![k].refcount = c]
      /\ handles' = [handles EXCEPT ![k] = @ + 1]
      /\ pins # << >> /\ k \in ptrMap[Top].target.kids
      /\ UNCHANGED <<memory_store, next_id, now, pins, files>>
  BY DEF CopyKid
<1>2. k \in DOMAIN ptrMap /\ ptrMap[k].refcount \in Nat /\ handles \in [Ids -> Nat]
  BY <1>1, TopIsPinned, PointedAtIsLive, LegacyFacts
<1>3. /\ handles' \in [Ids -> Nat] /\ handles'[k] = handles[k] + 1
      /\ \A i \in Ids \ {k} : handles'[i] = handles[i]
  BY <1>1, <1>2
<1>4. /\ DOMAIN ptrMap' = DOMAIN ptrMap
      /\ ptrMap'[k] = [ptrMap[k] EXCEPT !.refcount = c]
      /\ \A i \in DOMAIN ptrMap \ {k} : ptrMap'[i] = ptrMap[i]
  BY <1>1, <1>2
<1>5. c \in Nat /\ ptrMap[k] \in Object
  BY <1>2, LegacyFacts
<1>6. ptrMap'[k].refcount = c
  BY <1>4, <1>5 DEF Object
<1>7. ASSUME NEW i \in DOMAIN ptrMap
      PROVE  /\ ptrMap'[i] = [ptrMap[i] EXCEPT !.refcount = ptrMap'[i].refcount]
             /\ ptrMap'[i].refcount \in Nat
             /\ ptrMap'[i].refcount + handles[i] = ptrMap[i].refcount + handles'[i]
  <2>1. handles[i] \in Nat /\ ptrMap[i] \in Object /\ ptrMap[i].refcount \in Nat
    BY LegacyFacts, LegacyFields
  <2>2. CASE i = k
    <3>1. ptrMap'[k] = [ptrMap[k] EXCEPT !.refcount = ptrMap'[k].refcount]
      BY <1>4, <1>6
    <3>2. ptrMap'[k].refcount + handles[k] = ptrMap[k].refcount + handles'[k]
      BY <1>2, <1>3, <1>6, <2>1, <2>2
    <3> QED
      BY <1>5, <1>6, <2>2, <3>1, <3>2
  <2>3. CASE i # k
    BY <1>3, <1>4, <2>1, <2>3, LegacyFacts DEF Object
  <2> QED
    BY <2>2, <2>3
<1>8. ASSUME NEW i \in Ids
      PROVE  NotPinnedThrough(0, i) \/ handles'[i] > 0
  BY <1>2, <1>3, PinnedFacts DEF NotPinnedThrough
<1> HIDE DEF c
<1> QED
  BY <1>1, <1>2, <1>3, <1>4, <1>7, <1>8, LocalPointersStep

LEMMA DropHandleStep ==
  ASSUME LegacyInvariant, NEW k \in Ids, DropHandle(k)
  PROVE  /\ LegacyInvariant' /\ DOMAIN ptrMap' = DOMAIN ptrMap
         /\ \A i \in DOMAIN ptrMap : NodeOf(i)' = NodeOf(i)
<1> DEFINE c == ptrMap[k].refcount - 1
<1>1. /\ ptrMap' = [ptrMap EXCEPT ![k].refcount = c]
      /\ handles' = [handles EXCEPT ![k] = @ - 1]
      /\ handles[k] > 0 /\ NotPinnedThrough(0, k)
      /\ UNCHANGED <<memory_store, next_id, now, pins, files>>
  BY DEF DropHandle
<1>2. /\ k \in DOMAIN ptrMap /\ ptrMap[k].refcount \in Nat \ {0}
      /\ handles \in [Ids -> Nat]
  BY <1>1, PointedAtIsLive, LegacyFacts
<1>3. /\ handles' \in [Ids -> Nat] /\ handles'[k] = handles[k] - 1
      /\ \A i \in Ids \ {k} : handles'[i] = handles[i]
  BY <1>1, <1>2
<1>4. /\ DOMAIN ptrMap' = DOMAIN ptrMap
      /\ ptrMap'[k] = [ptrMap[k] EXCEPT !.refcount = c]
      /\ \A i \in DOMAIN ptrMap \ {k} : ptrMap'[i] = ptrMap[i]
  BY <1>1, <1>2
<1>5. c \in Nat /\ ptrMap[k] \in Object
  BY <1>2, LegacyFacts
<1>6. ptrMap'[k].refcount = c
  BY <1>4, <1>5 DEF Object
<1>7. ASSUME NEW i \in DOMAIN ptrMap
      PROVE  /\ ptrMap'[i] = [ptrMap[i] EXCEPT !.refcount = ptrMap'[i].refcount]
             /\ ptrMap'[i].refcount \in Nat
             /\ ptrMap'[i].refcount + handles[i] = ptrMap[i].refcount + handles'[i]
  <2>1. handles[i] \in Nat /\ ptrMap[i] \in Object /\ ptrMap[i].refcount \in Nat
    BY LegacyFacts, LegacyFields
  <2>2. CASE i = k
    <3>1. ptrMap'[k] = [ptrMap[k] EXCEPT !.refcount = ptrMap'[k].refcount]
      BY <1>4, <1>6
    <3>2. ptrMap'[k].refcount + handles[k] = ptrMap[k].refcount + handles'[k]
      BY <1>2, <1>3, <1>6, <2>1, <2>2
    <3> QED
      BY <1>5, <1>6, <2>2, <3>1, <3>2
  <2>3. CASE i # k
    BY <1>3, <1>4, <2>1, <2>3, LegacyFacts DEF Object
  <2> QED
    BY <2>2, <2>3
<1>8. ASSUME NEW i \in Ids
      PROVE  NotPinnedThrough(0, i) \/ handles'[i] > 0
  BY <1>1, <1>2, <1>3, PinnedFacts DEF NotPinnedThrough
<1> HIDE DEF c
<1> QED
  BY <1>1, <1>2, <1>3, <1>4, <1>7, <1>8, LocalPointersStep

LEMMA AssignStep ==
  ASSUME LegacyInvariant, NEW i \in Ids, NEW j \in Ids, Assign(i, j)
  PROVE  /\ LegacyInvariant' /\ DOMAIN ptrMap' = DOMAIN ptrMap
         /\ \A m \in DOMAIN ptrMap : NodeOf(m)' = NodeOf(m)
<1> DEFINE c == ptrMap[i].refcount - 1
           d == ptrMap[j].refcount + 1
<1>1. /\ i # j
      /\ ptrMap' = [ptrMap EXCEPT ![i].refcount = @ - 1, ![j].refcount = @ + 1]
      /\ handles' = [handles EXCEPT ![i] = @ - 1, ![j] = @ + 1]
      /\ handles[i] > 0 /\ NotPinnedThrough(0, i) /\ handles[j] > 0
      /\ UNCHANGED <<memory_store, next_id, now, pins, files>>
  BY DEF Assign
<1>2. /\ i \in DOMAIN ptrMap /\ ptrMap[i].refcount \in Nat \ {0}
      /\ j \in DOMAIN ptrMap /\ ptrMap[j].refcount \in Nat
      /\ handles \in [Ids -> Nat]
  BY <1>1, PointedAtIsLive, LegacyFacts
<1>3. /\ handles' \in [Ids -> Nat] /\ handles'[i] = handles[i] - 1
      /\ handles'[j] = handles[j] + 1
      /\ \A m \in Ids \ {i, j} : handles'[m] = handles[m]
  BY <1>1, <1>2
<1>4. /\ DOMAIN ptrMap' = DOMAIN ptrMap
      /\ ptrMap'[i] = [ptrMap[i] EXCEPT !.refcount = c]
      /\ ptrMap'[j] = [ptrMap[j] EXCEPT !.refcount = d]
      /\ \A m \in DOMAIN ptrMap \ {i, j} : ptrMap'[m] = ptrMap[m]
  BY <1>1, <1>2
<1>5. c \in Nat /\ d \in Nat /\ ptrMap[i] \in Object /\ ptrMap[j] \in Object
  BY <1>2, LegacyFacts
<1>6. ptrMap'[i].refcount = c /\ ptrMap'[j].refcount = d
  BY <1>4, <1>5 DEF Object
<1>7. ASSUME NEW m \in DOMAIN ptrMap
      PROVE  /\ ptrMap'[m] = [ptrMap[m] EXCEPT !.refcount = ptrMap'[m].refcount]
             /\ ptrMap'[m].refcount \in Nat
             /\ ptrMap'[m].refcount + handles[m] = ptrMap[m].refcount + handles'[m]
  <2>1. handles[m] \in Nat /\ ptrMap[m] \in Object /\ ptrMap[m].refcount \in Nat
    BY LegacyFacts, LegacyFields
  <2>2. CASE m \in {i, j}
    <3>1. ptrMap'[m] = [ptrMap[m] EXCEPT !.refcount = ptrMap'[m].refcount]
      BY <1>4, <1>6, <2>2
    <3>2. ptrMap'[m].refcount + handles[m] = ptrMap[m].refcount + handles'[m]
      BY <1>2, <1>3, <1>6, <2>1, <2>2
    <3> QED
      BY <1>5, <1>6, <2>2, <3>1, <3>2
  <2>3. CASE m \notin {i, j}
    BY <1>3, <1>4, <2>1, <2>3, LegacyFacts DEF Object
  <2> QED
    BY <2>2, <2>3
<1>8. ASSUME NEW m \in Ids
      PROVE  NotPinnedThrough(0, m) \/ handles'[m] > 0
  BY <1>1, <1>2, <1>3, PinnedFacts DEF NotPinnedThrough
<1> HIDE DEF c, d
<1> QED
  BY <1>1, <1>2, <1>3, <1>4, <1>7, <1>8, LocalPointersStep

-----------------------------------------------------------------------------
(* Dereferencing and unpinning.                                            *)

LEMMA PinPushed ==
  ASSUME pins \in Seq(Pin), NEW p \in Pin, pins' = Append(pins, p)
  PROVE  /\ pins' \in Seq(Pin)
         /\ DOMAIN pins' = DOMAIN pins \cup {Len(pins) + 1}
         /\ Len(pins) \in Nat /\ DOMAIN pins = 1..Len(pins)
         /\ \A n \in DOMAIN pins : pins'[n] = pins[n]
         /\ pins'[Len(pins) + 1] = p
         /\ \A i : Cardinality(PinsOf(i)')
                     = Cardinality(PinsOf(i)) + (IF i = p.id THEN 1 ELSE 0)
<1>1. /\ pins' \in Seq(Pin)
      /\ DOMAIN pins' = DOMAIN pins \cup {Len(pins) + 1}
      /\ Len(pins) \in Nat /\ DOMAIN pins = 1..Len(pins)
      /\ \A n \in DOMAIN pins : pins'[n] = pins[n]
      /\ pins'[Len(pins) + 1] = p
  BY AppendProperties, LenProperties
<1>2. ASSUME NEW i
      PROVE  Cardinality(PinsOf(i)')
               = Cardinality(PinsOf(i)) + (IF i = p.id THEN 1 ELSE 0)
  <2>1. Len(pins) + 1 \notin PinsOf(i)
    BY <1>1 DEF PinsOf
  <2>2. CASE i = p.id
    <3>1. PinsOf(i)' = PinsOf(i) \cup {Len(pins) + 1}
      BY <1>1, <2>2 DEF PinsOf
    <3> QED
      BY <2>1, <2>2, <3>1, PinSetsFinite, FS_AddElement
  <2>3. CASE i # p.id
    <3>1. PinsOf(i)' = PinsOf(i)
      BY <1>1, <2>3 DEF PinsOf
    <3> QED
      BY <2>3, <3>1, PinSetsFinite
  <2> QED
    BY <2>2, <2>3
<1> QED
  BY <1>1, <1>2

LEMMA PinPopped ==
  ASSUME pins \in Seq(Pin), pins # << >>, pins' = SubSeq(pins, 1, Len(pins) - 1)
  PROVE  /\ pins' \in Seq(Pin)
         /\ Len(pins) \in DOMAIN pins /\ Len(pins) \in Nat /\ DOMAIN pins = 1..Len(pins)
         /\ DOMAIN pins' = DOMAIN pins \ {Len(pins)}
         /\ \A n \in DOMAIN pins' : pins'[n] = pins[n]
         /\ \A i : Cardinality(PinsOf(i)')
                     = Cardinality(PinsOf(i)) - (IF i = Top THEN 1 ELSE 0)
<1>1. Len(pins) \in Nat \ {0} /\ DOMAIN pins = 1..Len(pins)
  BY LenProperties, EmptySeq
<1>2. /\ pins' \in Seq(Pin) /\ Len(pins') = Len(pins) - 1
      /\ \A n \in 1..(Len(pins) - 1) : pins'[n] = pins[n]
  BY <1>1, SubSeqProperties
<1>3. DOMAIN pins' = DOMAIN pins \ {Len(pins)}
  <2>1. DOMAIN pins' = 1..(Len(pins) - 1)
    BY <1>2, LenProperties
  <2> QED
    BY <1>1, <2>1
<1>4. \A n \in DOMAIN pins' : pins'[n] = pins[n]
  BY <1>1, <1>2, <1>3
<1>5. ASSUME NEW i
      PROVE  Cardinality(PinsOf(i)')
               = Cardinality(PinsOf(i)) - (IF i = Top THEN 1 ELSE 0)
  <2>1. CASE i = Top
    <3>1. PinsOf(i)' = PinsOf(i) \ {Len(pins)} /\ Len(pins) \in PinsOf(i)
      BY <1>1, <1>3, <1>4, <2>1 DEF PinsOf, Top
    <3> QED
      BY <2>1, <3>1, PinSetsFinite, FS_RemoveElement
  <2>2. CASE i # Top
    <3>1. PinsOf(i)' = PinsOf(i)
      BY <1>1, <1>3, <1>4, <2>2 DEF PinsOf, Top
    <3> QED
      BY <2>2, <3>1, PinSetsFinite
  <2> QED
    BY <2>1, <2>2
<1> QED
  BY <1>1, <1>2, <1>3, <1>4, <1>5

LEMMA UnpinStep ==
  ASSUME LegacyInvariant, Unpin
  PROVE  /\ LegacyInvariant' /\ DOMAIN ptrMap' = DOMAIN ptrMap
         /\ \A i \in DOMAIN ptrMap : NodeOf(i)' = NodeOf(i)
<1> DEFINE c == ptrMap[Top].pincount - 1
<1>1. /\ pins # << >> /\ ptrMap' = [ptrMap EXCEPT ![Top].pincount = c]
      /\ pins' = SubSeq(pins, 1, Len(pins) - 1)
      /\ UNCHANGED <<memory_store, next_id, now, handles, files>>
  BY DEF Unpin
<1>2. pins \in Seq(Pin) /\ Top \in DOMAIN ptrMap /\ ptrMap[Top].pincount # 0
  BY <1>1, LegacyFacts, TopIsPinned DEF Pin
<1>3. /\ pins' \in Seq(Pin)
      /\ Len(pins) \in Nat /\ DOMAIN pins = 1..Len(pins)
      /\ DOMAIN pins' = DOMAIN pins \ {Len(pins)}
      /\ \A n \in DOMAIN pins' : pins'[n] = pins[n]
      /\ \A i : Cardinality(PinsOf(i)')
                  = Cardinality(PinsOf(i)) - (IF i = Top THEN 1 ELSE 0)
  BY <1>1, <1>2, PinPopped
<1>4. c \in Nat /\ ptrMap[Top] \in Object
  BY <1>2, LegacyFacts, LegacyFields
<1>5. /\ DOMAIN ptrMap' = DOMAIN ptrMap
      /\ ptrMap'[Top] = [ptrMap[Top] EXCEPT !.pincount = c]
      /\ \A i \in DOMAIN ptrMap \ {Top} : ptrMap'[i] = ptrMap[i]
  BY <1>1, <1>2
<1> HIDE DEF c
<1>6. /\ ptrMap'[Top] \in Object /\ ptrMap'[Top].pincount = c
      /\ ptrMap'[Top].target = ptrMap[Top].target
      /\ ptrMap'[Top].version = ptrMap[Top].version
      /\ ptrMap'[Top].refcount = ptrMap[Top].refcount
  BY <1>4, <1>5 DEF Object
<1>7. \A i \in DOMAIN ptrMap : /\ ptrMap'[i] \in Object
                               /\ ptrMap'[i].target = ptrMap[i].target
                               /\ ptrMap'[i].version = ptrMap[i].version
                               /\ ptrMap'[i].refcount = ptrMap[i].refcount
  BY <1>5, <1>6, LegacyFacts
<1>8. /\ InStep(ptrMap', memory_store', files')
      /\ \A i \in DOMAIN ptrMap : NodeOf(i)' = NodeOf(i)
  BY <1>1, <1>5, <1>7, InStepKept
<1>9. CountsArePointers'
  <2>1. \A i \in DOMAIN ptrMap : ptrMap[i].refcount \in Nat
    BY LegacyFacts, LegacyFields
  <2> QED
    BY <1>1, <1>5, <1>7, <1>8, <2>1, CountsFollow, LegacyFacts
<1>10. PinsHold'
  <2>1. ASSUME NEW n \in DOMAIN pins'
        PROVE  /\ pins'[n].id \in memory_store' /\ ptrMap'[pins'[n].id].target # NULL
               /\ pins'[n].through = 0 => handles'[pins'[n].id] > 0
               /\ pins'[n].through # 0 =>
                    /\ n > 1 /\ pins'[n].through = pins'[n - 1].id
                    /\ pins'[n].through \in memory_store'
                    /\ pins'[n].id \in ptrMap'[pins'[n].through].target.kids
    <3>1. n \in DOMAIN pins /\ pins'[n] = pins[n]
      BY <1>3
    <3>2. n > 1 => pins'[n - 1] = pins[n - 1]
      BY <1>3
    <3>3. pins[n].through # 0 => pins[n].through \in DOMAIN ptrMap
      BY <3>1, PinnedFacts, LegacyFacts DEF InStep
    <3> QED
      BY <1>1, <1>7, <3>1, <3>2, <3>3, PinnedFacts
  <2>2. ASSUME NEW i \in DOMAIN ptrMap
        PROVE  ptrMap'[i].pincount = Cardinality(PinsOf(i)')
    <3>1. ptrMap[i].pincount = Cardinality(PinsOf(i))
      BY DEF LegacyInvariant, PinsHold, PinsOf
    <3>2. ptrMap[i].pincount \in Nat
      BY LegacyFacts, LegacyFields
    <3>3. Cardinality(PinsOf(i)') = Cardinality(PinsOf(i)) - (IF i = Top THEN 1 ELSE 0)
      BY <1>3
    <3>4. ptrMap'[i].pincount = ptrMap[i].pincount - (IF i = Top THEN 1 ELSE 0)
      <4>1. CASE i = Top
        BY <1>6, <4>1 DEF c
      <4>2. CASE i # Top
        BY <1>5, <3>2, <4>2
      <4> QED
        BY <4>1, <4>2
    <3> QED
      BY <3>1, <3>3, <3>4
  <2> QED
    BY <1>5, <2>1, <2>2 DEF PinsHold, PinsOf
<1> QED
  BY <1>1, <1>3, <1>5, <1>8, <1>9, <1>10, Assembled, LegacyFacts

LEMMA DereferenceStep ==
  ASSUME LegacyInvariant, NEW i \in Ids, NEW writable \in BOOLEAN, Dereference(i, writable)
  PROVE  /\ LegacyInvariant' /\ DOMAIN ptrMap' = DOMAIN ptrMap
         /\ \A j \in DOMAIN ptrMap : NodeOf(j)' = NodeOf(j)
<1> DEFINE o == ptrMap[i]
           loaded == IF i \in memory_store THEN o.target ELSE Stored(i, o.version)
           t == IF writable THEN now' ELSE o.last_access
           c == o.pincount + 1
           p == [o EXCEPT !.pincount = c, !.target = loaded, !.last_access = t]
           objs == [ptrMap EXCEPT ![i] = p]
<1>1. PICK h \in Holders(i) :
        pins' = Append(pins, [id |-> i, through |-> h, writable |-> writable])
  BY DEF Dereference
<1> DEFINE pin == [id |-> i, through |-> h, writable |-> writable]
<1>2. /\ now' \in (IF writable THEN {now, now + 1} ELSE {now})
      /\ UNCHANGED <<next_id, handles>>
  BY DEF Dereference
<1>3. /\ i \in DOMAIN ptrMap
      /\ \/ h = 0 /\ handles[i] > 0
         \/ /\ h # 0 /\ pins # << >> /\ h = Top /\ h \in 0..MaxId
            /\ i \in ptrMap[Top].target.kids
  BY HeldIsAllocated
<1>4. now' \in Nat /\ o \in Object /\ InStep(ptrMap, memory_store, files)
  BY <1>2, <1>3, LegacyFacts
<1>5. loaded = NodeOf(i) /\ loaded \in Node /\ loaded # NULL
  <2>1. i \in memory_store <=> o.target # NULL
    BY <1>3, <1>4 DEF InStep
  <2> QED
    BY <1>3, <2>1, LegacyFacts, LegacyNodes DEF NodeOf
<1>6. t \in Nat /\ c \in Nat
  BY <1>4, LegacyFields
<1>7. \/ i \in memory_store /\ ptrMap' = objs /\ UNCHANGED <<memory_store, files>>
      \/ i \notin memory_store /\ MakeRoomFor(i, objs)
  <2> DEFINE pinned == [ptrMap EXCEPT ![i].pincount = @ + 1]
             Touched(m) == [m EXCEPT ![i].last_access = IF writable THEN now' ELSE @]
  <2>1. CASE i \in memory_store
    <3>1. ptrMap' = Touched(pinned) /\ UNCHANGED <<memory_store, files>>
      BY <2>1 DEF Dereference
    <3>2. Touched(pinned) = objs
      BY <1>3, <1>4, <2>1 DEF Object
    <3> QED
      BY <2>1, <3>1, <3>2
  <2>2. CASE i \notin memory_store
    <3>1. MakeRoomFor(i, Touched([pinned EXCEPT ![i].target = Stored(i, ptrMap[i].version)]))
      BY <2>2 DEF Dereference
    <3>2. Touched([pinned EXCEPT ![i].target = Stored(i, ptrMap[i].version)]) = objs
      BY <1>3, <1>4, <2>2 DEF Object
    <3> QED
      BY <2>2, <3>1, <3>2
  <2> QED
    BY <2>1, <2>2
<1>8. DOMAIN objs = DOMAIN ptrMap /\ objs[i] = p
      /\ \A j \in DOMAIN ptrMap : j # i => objs[j] = ptrMap[j]
  BY <1>3
<1> HIDE DEF o, loaded, t, c
<1>9. /\ p \in Object /\ p.target = loaded /\ p.pincount = c
      /\ p.version = o.version /\ p.refcount = o.refcount
  BY <1>4, <1>5, <1>6 DEF Object
<1> HIDE DEF p, objs
<1>10. \A j \in DOMAIN ptrMap :
         /\ NodeAt(objs, j) = NodeOf(j)
         /\ objs[j].refcount = ptrMap[j].refcount
         /\ objs[j].pincount = ptrMap[j].pincount + (IF j = i THEN 1 ELSE 0)
         /\ ptrMap[j].target # NULL => objs[j].target = ptrMap[j].target
  <2>1. ASSUME NEW j \in DOMAIN ptrMap
        PROVE  ptrMap[j].pincount \in Nat
    BY LegacyFacts, LegacyFields
  <2> QED
    BY <1>3, <1>5, <1>8, <1>9, <2>1 DEF NodeAt, NodeOf, o, c, loaded
<1>11. InStep(objs, memory_store \cup {i}, files)
  <2>1. \A j \in DOMAIN ptrMap : objs[j] \in Object /\ objs[j].version = ptrMap[j].version
    BY <1>8, <1>9, LegacyFacts DEF o
  <2>2. {<<j, objs[j].version>> : j \in DOMAIN ptrMap}
          = {<<j, ptrMap[j].version>> : j \in DOMAIN ptrMap}
    BY <2>1
  <2>3. memory_store \cup {i} = {j \in DOMAIN objs : objs[j].target # NULL}
    BY <1>3, <1>4, <1>5, <1>8, <1>9 DEF InStep
  <2> QED
    BY <1>4, <1>8, <2>1, <2>2, <2>3 DEF InStep
<1>12. /\ InStep(ptrMap', memory_store', files')
       /\ DOMAIN ptrMap' = DOMAIN ptrMap
       /\ \A j \in DOMAIN ptrMap :
            /\ NodeOf(j)' = NodeOf(j)
            /\ ptrMap'[j].refcount = ptrMap[j].refcount
            /\ ptrMap'[j].pincount = ptrMap[j].pincount + (IF j = i THEN 1 ELSE 0)
            /\ objs[j].target # NULL /\ objs[j].pincount # 0 =>
                 ptrMap'[j].target = objs[j].target
       /\ i \in memory_store' /\ ptrMap'[i].target = loaded
  <2>1. CASE i \in memory_store /\ ptrMap' = objs /\ UNCHANGED <<memory_store, files>>
    <3>1. memory_store \cup {i} = memory_store
      BY <2>1
    <3>2. \A j \in DOMAIN ptrMap : NodeOf(j)' = NodeAt(objs, j)
      BY <2>1 DEF NodeOf, NodeAt, Stored
    <3> QED
      BY <1>8, <1>9, <1>10, <1>11, <2>1, <3>1, <3>2
  <2>2. CASE i \notin memory_store /\ MakeRoomFor(i, objs)
    <3>1. /\ InStep(ptrMap', memory_store', files')
          /\ DOMAIN ptrMap' = DOMAIN objs
          /\ i \in memory_store'
          /\ \A j \in DOMAIN objs :
               /\ NodeOf(j)' = NodeAt(objs, j)
               /\ ptrMap'[j].refcount = objs[j].refcount
               /\ ptrMap'[j].pincount = objs[j].pincount
               /\ objs[j].target # NULL /\ (j = i \/ objs[j].pincount # 0) =>
                    ptrMap'[j].target = objs[j].target
      BY <1>3, <1>8, <1>11, <2>2, RoomIsMade DEF RoomMade
    <3> QED
      BY <1>3, <1>5, <1>8, <1>9, <1>10, <3>1
  <2> QED
    BY <1>7, <2>1, <2>2
<1>13. CountsArePointers'
  <2>1. \A j \in DOMAIN ptrMap : ptrMap[j].refcount \in Nat
    BY LegacyFacts, LegacyFields
  <2> QED
    BY <1>2, <1>12, <2>1, CountsFollow, LegacyFacts
<1>14. pin \in Pin /\ pin.id = i /\ pin.through = h
  BY <1>3, LegacyBoundsAssumption DEF Pin
<1>15. pins \in Seq(Pin) /\ pins' = Append(pins, pin)
  BY <1>1, LegacyFacts DEF Pin
<1> HIDE DEF pin
<1>16. /\ pins' \in Seq(Pin)
       /\ DOMAIN pins' = DOMAIN pins \cup {Len(pins) + 1}
       /\ Len(pins) \in Nat /\ DOMAIN pins = 1..Len(pins)
       /\ \A n \in DOMAIN pins : pins'[n] = pins[n]
       /\ pins'[Len(pins) + 1] = pin
       /\ \A j : Cardinality(PinsOf(j)')
                   = Cardinality(PinsOf(j)) + (IF j = i THEN 1 ELSE 0)
  BY <1>14, <1>15, PinPushed
<1>17. \A j \in DOMAIN ptrMap : /\ ptrMap[j].pincount # 0 /\ ptrMap[j].target # NULL =>
                                     /\ ptrMap'[j].target = ptrMap[j].target
                                     /\ j \in memory_store'
  <2>1. ASSUME NEW j \in DOMAIN ptrMap, ptrMap[j].pincount # 0, ptrMap[j].target # NULL
        PROVE  ptrMap'[j].target = ptrMap[j].target /\ j \in memory_store'
    <3>1. objs[j].target = ptrMap[j].target /\ objs[j].pincount # 0
      <4>1. ptrMap[j].pincount \in Nat \ {0}
        BY <2>1, LegacyFacts, LegacyFields
      <4> QED
        BY <1>10, <2>1, <4>1
    <3>2. ptrMap'[j].target = ptrMap[j].target
      BY <1>12, <2>1, <3>1
    <3> QED
      BY <1>12, <2>1, <3>2 DEF InStep
  <2> QED
    BY <2>1
<1>18. PinsHold'
  <2>1. ASSUME NEW n \in DOMAIN pins
        PROVE  /\ pins[n].id \in memory_store' /\ ptrMap'[pins[n].id].target # NULL
               /\ pins[n].through = 0 => handles'[pins[n].id] > 0
               /\ pins[n].through # 0 =>
                    /\ n > 1 /\ n - 1 \in DOMAIN pins /\ pins[n].through = pins[n - 1].id
                    /\ pins[n].through \in memory_store'
                    /\ pins[n].id \in ptrMap'[pins[n].through].target.kids
    <3>1. /\ pins[n].id \in memory_store' /\ ptrMap'[pins[n].id].target # NULL
      BY <1>17, PinnedFacts
    <3>2. CASE pins[n].through # 0
      <4>1. /\ n > 1 /\ n - 1 \in DOMAIN pins /\ pins[n].through = pins[n - 1].id
            /\ pins[n].id \in ptrMap[pins[n].through].target.kids
        BY <3>2, PinnedFacts
      <4>2. /\ pins[n - 1].id \in DOMAIN ptrMap
            /\ ptrMap'[pins[n - 1].id].target = ptrMap[pins[n - 1].id].target
            /\ pins[n - 1].id \in memory_store'
        BY <1>17, <4>1, PinnedFacts
      <4> QED
        BY <3>1, <3>2, <4>1, <4>2
    <3>3. CASE pins[n].through = 0
      BY <1>2, <3>1, <3>3, PinnedFacts
    <3> QED
      BY <3>2, <3>3
  <2>2. /\ i \in memory_store' /\ ptrMap'[i].target # NULL
        /\ h = 0 => handles'[i] > 0
        /\ h # 0 => /\ pins # << >> /\ Len(pins) \in DOMAIN pins
                    /\ h = pins[Len(pins)].id /\ h \in memory_store'
                    /\ i \in ptrMap'[h].target.kids
    <3>1. CASE h = 0
      BY <1>2, <1>3, <1>5, <1>12, <3>1
    <3>2. CASE h # 0
      <4>1. /\ pins # << >> /\ h = Top /\ i \in ptrMap[Top].target.kids
        BY <1>3, <3>2
      <4>2. /\ Len(pins) \in DOMAIN pins /\ Top \in DOMAIN ptrMap
            /\ ptrMap[Top].target # NULL /\ ptrMap[Top].pincount # 0
        BY <4>1, TopIsPinned, LegacyNodes
      <4> QED
        BY <1>5, <1>12, <1>17, <3>2, <4>1, <4>2 DEF Top
    <3> QED
      BY <3>1, <3>2
  <2>3. ASSUME NEW n \in DOMAIN pins'
        PROVE  /\ pins'[n].id \in memory_store' /\ ptrMap'[pins'[n].id].target # NULL
               /\ pins'[n].through = 0 => handles'[pins'[n].id] > 0
               /\ pins'[n].through # 0 =>
                    /\ n > 1 /\ pins'[n].through = pins'[n - 1].id
                    /\ pins'[n].through \in memory_store'
                    /\ pins'[n].id \in ptrMap'[pins'[n].through].target.kids
    <3>1. CASE n \in DOMAIN pins
      BY <1>16, <2>1, <3>1
    <3>2. CASE n = Len(pins) + 1
      <4>1. pins'[n].id = i /\ pins'[n].through = h
        BY <1>14, <1>16, <3>2
      <4>2. h # 0 => n > 1 /\ n - 1 = Len(pins) /\ pins'[n - 1] = pins[Len(pins)]
        BY <1>16, <2>2, <3>2
      <4> QED
        BY <2>2, <4>1, <4>2
    <3> QED
      BY <1>16, <3>1, <3>2
  <2>4. ASSUME NEW j \in DOMAIN ptrMap
        PROVE  ptrMap'[j].pincount = Cardinality(PinsOf(j)')
    <3>1. ptrMap[j].pincount = Cardinality(PinsOf(j))
      BY DEF LegacyInvariant, PinsHold, PinsOf
    <3> QED
      BY <1>12, <1>16, <3>1
  <2> QED
    BY <1>12, <2>3, <2>4 DEF PinsHold, PinsOf
<1> QED
  BY <1>2, <1>4, <1>12, <1>13, <1>16, <1>18, Assembled, LegacyFacts

-----------------------------------------------------------------------------
(* Changing the node on top.                                               *)

\* The node on top with the kids K, and the objects with it.
WithKids(K) == [ptrMap[Top].target EXCEPT !.kids = K]
TopWith(K)  == [ptrMap EXCEPT ![Top].target = WithKids(K)]

\* The node on top gets the kids K, and the count of k becomes c.
Rewritten(k, K, c) ==
  /\ DOMAIN ptrMap' = DOMAIN ptrMap
  /\ \A i \in DOMAIN ptrMap :
       /\ ptrMap'[i].pincount = ptrMap[i].pincount
       /\ ptrMap'[i].refcount = IF i = k THEN c ELSE ptrMap[i].refcount
       /\ ptrMap'[i].target = IF i = Top THEN WithKids(K) ELSE ptrMap[i].target
  /\ WithKids(K) \in Node /\ WithKids(K).kids = K
  /\ InStep(ptrMap', memory_store', files')
  /\ \A i \in DOMAIN ptrMap : NodeOf(i)' = IF i = Top THEN WithKids(K) ELSE NodeOf(i)

LEMMA TopRewritten ==
  ASSUME LegacyInvariant, pins # << >>, NEW k \in DOMAIN ptrMap,
         NEW K \in SUBSET Ids, NEW c \in Nat,
         ptrMap' = [TopWith(K) EXCEPT ![k].refcount = c],
         UNCHANGED <<memory_store, files>>
  PROVE  Rewritten(k, K, c)
<1> DEFINE n == WithKids(K)
           written == TopWith(K)
<1>1. Top \in DOMAIN ptrMap /\ ptrMap[Top].target \in Node /\ Top \in memory_store
  BY TopIsPinned
<1>2. n \in Node /\ n.kids = K /\ n # NULL
  <2>1. n \in Node /\ n.kids = K
    BY <1>1 DEF Node, WithKids
  <2> QED
    BY <2>1, LegacyNodes
<1> HIDE DEF n
<1>3. /\ DOMAIN written = DOMAIN ptrMap
      /\ \A i \in DOMAIN ptrMap :
           written[i] = IF i = Top THEN [ptrMap[Top] EXCEPT !.target = n] ELSE ptrMap[i]
  BY <1>1 DEF TopWith, n
<1> HIDE DEF written
<1>4. \A i \in DOMAIN ptrMap :
        /\ written[i] \in Object
        /\ written[i].version = ptrMap[i].version
        /\ written[i].pincount = ptrMap[i].pincount
        /\ written[i].refcount = ptrMap[i].refcount
        /\ written[i].target = IF i = Top THEN n ELSE ptrMap[i].target
  <2>1. /\ [ptrMap[Top] EXCEPT !.target = n] \in Object
        /\ [ptrMap[Top] EXCEPT !.target = n].version = ptrMap[Top].version
        /\ [ptrMap[Top] EXCEPT !.target = n].pincount = ptrMap[Top].pincount
        /\ [ptrMap[Top] EXCEPT !.target = n].refcount = ptrMap[Top].refcount
        /\ [ptrMap[Top] EXCEPT !.target = n].target = n
    <3>1. ptrMap[Top] \in Object
      BY <1>1, LegacyFacts
    <3> QED
      BY <1>2, <3>1 DEF Object
  <2> QED
    BY <1>3, <2>1, LegacyFacts
<1>5. /\ DOMAIN ptrMap' = DOMAIN ptrMap
      /\ \A i \in DOMAIN ptrMap :
           ptrMap'[i] = IF i = k THEN [written[k] EXCEPT !.refcount = c] ELSE written[i]
  BY <1>3 DEF written
<1>6. \A i \in DOMAIN ptrMap :
        /\ ptrMap'[i] \in Object
        /\ ptrMap'[i].version = written[i].version
        /\ ptrMap'[i].pincount = written[i].pincount
        /\ ptrMap'[i].refcount = IF i = k THEN c ELSE written[i].refcount
        /\ ptrMap'[i].target = written[i].target
  <2>1. /\ [written[k] EXCEPT !.refcount = c] \in Object
        /\ [written[k] EXCEPT !.refcount = c].version = written[k].version
        /\ [written[k] EXCEPT !.refcount = c].pincount = written[k].pincount
        /\ [written[k] EXCEPT !.refcount = c].refcount = c
        /\ [written[k] EXCEPT !.refcount = c].target = written[k].target
    <3>1. written[k] \in Object
      BY <1>4
    <3> QED
      BY <3>1 DEF Object
  <2> QED
    BY <1>4, <1>5, <2>1
<1>7. \A i \in DOMAIN ptrMap :
        /\ ptrMap'[i] \in Object
        /\ ptrMap'[i].version = ptrMap[i].version
        /\ ptrMap'[i].pincount = ptrMap[i].pincount
        /\ ptrMap'[i].refcount = IF i = k THEN c ELSE ptrMap[i].refcount
        /\ ptrMap'[i].target = IF i = Top THEN n ELSE ptrMap[i].target
  BY <1>4, <1>6
<1>8. InStep(ptrMap', memory_store', files')
  <2>1. InStep(ptrMap, memory_store, files)
    BY LegacyFacts
  <2>2. {<<j, ptrMap'[j].version>> : j \in DOMAIN ptrMap}
          = {<<j, ptrMap[j].version>> : j \in DOMAIN ptrMap}
    BY <1>7
  <2>3. \A i \in DOMAIN ptrMap : ptrMap'[i].target = NULL <=> ptrMap[i].target = NULL
    BY <1>1, <1>2, <1>7, LegacyNodes
  <2> QED
    BY <1>5, <1>7, <2>1, <2>2, <2>3 DEF InStep
<1>9. ASSUME NEW i \in DOMAIN ptrMap
      PROVE  NodeOf(i)' = IF i = Top THEN n ELSE NodeOf(i)
  <2>1. CASE i = Top
    BY <1>2, <1>7, <2>1 DEF NodeOf
  <2>2. CASE i # Top
    BY <1>7, <2>2 DEF NodeOf, Stored
  <2> QED
    BY <2>1, <2>2
<1> QED
  BY <1>2, <1>5, <1>7, <1>8, <1>9 DEF Rewritten, n

\* What the heap sees of it.
TopChanged ==
  /\ pins # << >>
  /\ Top \in DOMAIN ptrMap /\ DOMAIN ptrMap' = DOMAIN ptrMap
  /\ \E n \in Node : \A i \in DOMAIN ptrMap : NodeOf(i)' = IF i = Top THEN n ELSE NodeOf(i)

\* The kids of the node on top and the count of k have changed by the same.
LEMMA TopRewrittenKeeps ==
  ASSUME LegacyInvariant, pins # << >>, NEW k \in DOMAIN ptrMap,
         NEW K \in SUBSET Ids, NEW c \in Nat, Rewritten(k, K, c),
         \A i \in Ids \ {k} : i \in K <=> i \in ptrMap[Top].target.kids,
         Cardinality(Parents(k)') + ptrMap[k].refcount = Cardinality(Parents(k)) + c,
         k \in K \/ NotPinnedThrough(Top, k),
         UNCHANGED <<memory_store, next_id, now, handles, pins, files>>
  PROVE  LegacyInvariant' /\ TopChanged
<1> DEFINE n == WithKids(K)
<1>1. /\ DOMAIN ptrMap' = DOMAIN ptrMap
      /\ \A i \in DOMAIN ptrMap :
           /\ ptrMap'[i].pincount = ptrMap[i].pincount
           /\ ptrMap'[i].refcount = IF i = k THEN c ELSE ptrMap[i].refcount
           /\ ptrMap'[i].target = IF i = Top THEN n ELSE ptrMap[i].target
      /\ n \in Node /\ n.kids = K
      /\ InStep(ptrMap', memory_store', files')
      /\ \A i \in DOMAIN ptrMap : NodeOf(i)' = IF i = Top THEN n ELSE NodeOf(i)
  BY DEF Rewritten
<1> HIDE DEF n
<1>2. Top \in DOMAIN ptrMap /\ NodeOf(Top) = ptrMap[Top].target /\ DOMAIN ptrMap \subseteq Ids
  BY TopIsPinned, LegacyFacts
<1>3. \A i \in Ids \ {k} : Parents(i)' = Parents(i)
  BY <1>2, <1>1 DEF Parents
<1>4. CountsArePointers'
  <2>1. ASSUME NEW i \in Ids
        PROVE  handles'[i] + Cardinality(Parents(i)')
                 = IF i \in DOMAIN ptrMap' THEN ptrMap'[i].refcount ELSE 0
    <3>1. handles[i] + Cardinality(Parents(i))
            = IF i \in DOMAIN ptrMap THEN ptrMap[i].refcount ELSE 0
      BY DEF LegacyInvariant, CountsArePointers
    <3>2. CASE i # k
      BY <1>3, <1>1, <3>1, <3>2
    <3>3. CASE i = k
      <4>1. handles[k] \in Nat /\ Cardinality(Parents(k)) \in Nat /\ ptrMap[k].refcount \in Nat
        BY <1>2, LegacyFacts, LegacyFields, IdSetsFinite
      <4>2. Cardinality(Parents(k)') \in Nat
        <5>1. Parents(k)' \subseteq Ids
          BY <1>2, <1>1 DEF Parents
        <5> QED
          BY <5>1, IdSetsFinite
      <4>3. k \in DOMAIN ptrMap' /\ ptrMap'[k].refcount = c /\ handles' = handles
        BY <1>1
      <4>4. handles[k] + Cardinality(Parents(k)) = ptrMap[k].refcount
        BY <3>1, <3>3
      <4>5. handles[k] + Cardinality(Parents(k)') = c
        BY <4>1, <4>2, <4>4
      <4> QED
        BY <3>3, <4>3, <4>5
    <3> QED
      BY <3>2, <3>3
  <2> QED
    BY <2>1 DEF CountsArePointers
<1>5. PinsHold'
  <2>1. ASSUME NEW m \in DOMAIN pins
        PROVE  /\ pins[m].id \in memory_store' /\ ptrMap'[pins[m].id].target # NULL
               /\ pins[m].through = 0 => handles'[pins[m].id] > 0
               /\ pins[m].through # 0 =>
                    pins[m].id \in ptrMap'[pins[m].through].target.kids
    <3>1. /\ pins[m].id \in memory_store' /\ ptrMap'[pins[m].id].target # NULL
          /\ pins[m].through = 0 => handles'[pins[m].id] > 0
      BY <1>1, PinnedFacts, LegacyNodes
    <3>2. ASSUME pins[m].through # 0
          PROVE  pins[m].id \in ptrMap'[pins[m].through].target.kids
      <4>1. /\ pins[m].through \in DOMAIN ptrMap /\ pins[m].id \in Ids
            /\ pins[m].id \in ptrMap[pins[m].through].target.kids
        BY <3>2, PinnedFacts, LegacyFacts DEF InStep
      <4>2. CASE pins[m].through = Top /\ pins[m].id = k
        BY <1>2, <1>1, <4>2 DEF NotPinnedThrough
      <4>3. CASE pins[m].through = Top /\ pins[m].id # k
        BY <1>2, <1>1, <4>1, <4>3
      <4>4. CASE pins[m].through # Top
        BY <1>1, <4>1, <4>4
      <4> QED
        BY <4>2, <4>3, <4>4
    <3> QED
      BY <3>1, <3>2
  <2> QED
    BY <1>1, <2>1, PinsStay
<1>6. LegacyInvariant'
  BY <1>1, <1>4, <1>5, Assembled, LegacyFacts DEF Pin
<1> QED
  BY <1>2, <1>1, <1>6 DEF TopChanged

LEMMA AddKidStep ==
  ASSUME LegacyInvariant, NEW k \in Ids, AddKid(k)
  PROVE  LegacyInvariant' /\ TopChanged
<1> DEFINE K == ptrMap[Top].target.kids \cup {k}
           c == ptrMap[k].refcount + 1
           written == TopWith(K)
<1>1. /\ pins # << >> /\ handles[k] > 0 /\ k \notin ptrMap[Top].target.kids /\ k # Top
      /\ ptrMap' = [ptrMap EXCEPT ![Top].target.kids = @ \cup {k}, ![k].refcount = @ + 1]
      /\ UNCHANGED <<memory_store, next_id, now, handles, pins, files>>
  BY DEF AddKid, TopWritable, CannotReach
<1>2. /\ Top \in DOMAIN ptrMap /\ ptrMap[Top].target \in Node
      /\ NodeOf(Top) = ptrMap[Top].target /\ k \in DOMAIN ptrMap
      /\ ptrMap[k].refcount \in Nat
  BY <1>1, TopIsPinned, PointedAtIsLive
<1>3. c \in Nat /\ K \in SUBSET Ids
  BY <1>2, LegacyNodes
<1>4. ptrMap' = [written EXCEPT ![k].refcount = c]
  BY <1>1, <1>2 DEF TopWith, WithKids
<1> HIDE DEF K, c, written
<1>5. Rewritten(k, K, c)
  BY <1>1, <1>2, <1>3, <1>4, TopRewritten DEF written
<1>6. \A i \in Ids \ {k} : i \in K <=> i \in ptrMap[Top].target.kids
  BY DEF K
<1>7. Cardinality(Parents(k)') + ptrMap[k].refcount = Cardinality(Parents(k)) + c
  <2>1. Parents(k)' = Parents(k) \cup {Top} /\ Top \notin Parents(k)
    <3>1. /\ DOMAIN ptrMap' = DOMAIN ptrMap
          /\ \A i \in DOMAIN ptrMap : NodeOf(i)'.kids = IF i = Top THEN K ELSE NodeOf(i).kids
      BY <1>5 DEF Rewritten
    <3>2. Parents(k)' = {i \in DOMAIN ptrMap : k \in (IF i = Top THEN K ELSE NodeOf(i).kids)}
      BY <3>1 DEF Parents
    <3> QED
      BY <1>1, <1>2, <3>2 DEF Parents, K
  <2>2. IsFiniteSet(Parents(k)) /\ Cardinality(Parents(k)) \in Nat
    BY LegacyFacts, IdSetsFinite
  <2>3. Cardinality(Parents(k)') = Cardinality(Parents(k)) + 1
    BY <2>1, <2>2, FS_AddElement
  <2> QED
    BY <1>2, <2>2, <2>3 DEF c
<1>8. k \in K
  BY DEF K
<1> QED
  BY <1>1, <1>2, <1>3, <1>5, <1>6, <1>7, <1>8, TopRewrittenKeeps

LEMMA RemoveKidStep ==
  ASSUME LegacyInvariant, NEW k \in Ids, RemoveKid(k)
  PROVE  LegacyInvariant' /\ TopChanged
<1> DEFINE K == ptrMap[Top].target.kids \ {k}
           c == ptrMap[k].refcount - 1
           written == TopWith(K)
<1>1. /\ pins # << >> /\ k \in ptrMap[Top].target.kids /\ NotPinnedThrough(Top, k)
      /\ ptrMap' = [ptrMap EXCEPT ![Top].target.kids = @ \ {k}, ![k].refcount = @ - 1]
      /\ UNCHANGED <<memory_store, next_id, now, handles, pins, files>>
  BY DEF RemoveKid, TopWritable
<1>2. /\ Top \in DOMAIN ptrMap /\ ptrMap[Top].target \in Node /\ ptrMap[Top] \in Object
      /\ NodeOf(Top) = ptrMap[Top].target /\ k \in DOMAIN ptrMap
      /\ ptrMap[k].refcount \in Nat \ {0}
  BY <1>1, TopIsPinned, PointedAtIsLive, LegacyFacts
<1>3. c \in Nat /\ K \in SUBSET Ids
  BY <1>2, LegacyNodes
<1>4. ptrMap' = [written EXCEPT ![k].refcount = c]
  <2>1. written[k].refcount = ptrMap[k].refcount
    BY <1>2 DEF Object, TopWith
  <2>2. ptrMap' = [written EXCEPT ![k].refcount = @ - 1]
    BY <1>1, <1>2 DEF TopWith, WithKids
  <2>3. k \in DOMAIN written
    BY <1>2 DEF TopWith
  <2> HIDE DEF written
  <2> QED
    BY <2>1, <2>2, <2>3
<1> HIDE DEF K, c, written
<1>5. Rewritten(k, K, c)
  BY <1>1, <1>2, <1>3, <1>4, TopRewritten DEF written
<1>6. \A i \in Ids \ {k} : i \in K <=> i \in ptrMap[Top].target.kids
  BY DEF K
<1>7. Cardinality(Parents(k)') + ptrMap[k].refcount = Cardinality(Parents(k)) + c
  <2>1. Parents(k)' = Parents(k) \ {Top} /\ Top \in Parents(k)
    <3>1. /\ DOMAIN ptrMap' = DOMAIN ptrMap
          /\ \A i \in DOMAIN ptrMap : NodeOf(i)'.kids = IF i = Top THEN K ELSE NodeOf(i).kids
      BY <1>5 DEF Rewritten
    <3>2. Parents(k)' = {i \in DOMAIN ptrMap : k \in (IF i = Top THEN K ELSE NodeOf(i).kids)}
      BY <3>1 DEF Parents
    <3> QED
      BY <1>1, <1>2, <3>2 DEF Parents, K
  <2>2. IsFiniteSet(Parents(k)) /\ Cardinality(Parents(k)) \in Nat
    BY LegacyFacts, IdSetsFinite
  <2>3. Cardinality(Parents(k)') = Cardinality(Parents(k)) - 1
    BY <2>1, <2>2, FS_RemoveElement
  <2> QED
    BY <1>2, <2>2, <2>3 DEF c
<1> QED
  BY <1>1, <1>2, <1>3, <1>5, <1>6, <1>7, TopRewrittenKeeps

-----------------------------------------------------------------------------
(* Allocating.                                                             *)

LEMMA NewObjectFields ==
  /\ NewObject \in Object /\ NewObject.target = NewNode /\ NewObject.version = 0
  /\ NewObject.refcount = 1 /\ NewObject.pincount = 0
BY LegacyNodes DEF NewObject, Object

\* What the heap sees of it.
NodeAdded(id) ==
  /\ id \in Ids /\ id \notin DOMAIN ptrMap
  /\ DOMAIN ptrMap' = DOMAIN ptrMap \cup {id}
  /\ \A i \in DOMAIN ptrMap' : NodeOf(i)' = IF i = id THEN NewNode ELSE NodeOf(i)
  /\ handles' = [handles EXCEPT ![id] = @ + 1]

LEMMA AllocateStep ==
  ASSUME LegacyInvariant, Allocate
  PROVE  LegacyInvariant' /\ NodeAdded(next_id)
<1>1. PICK id : id = next_id
  OBVIOUS
<1>2. PICK objs : objs = [i \in DOMAIN ptrMap \cup {id} |->
                            IF i = id THEN NewObject ELSE ptrMap[i]]
  OBVIOUS
<1>3. /\ id <= MaxId /\ next_id' = id + 1
      /\ MakeRoomFor(id, objs)
      /\ handles' = [handles EXCEPT ![id] = @ + 1]
      /\ UNCHANGED <<now, pins>>
  BY <1>1, <1>2 DEF Allocate
<1>4. /\ InStep(ptrMap, memory_store, files)
      /\ DOMAIN ptrMap = 1..id - 1 /\ DOMAIN ptrMap \subseteq Ids
      /\ id \in 1..MaxId + 1 /\ now \in Nat /\ handles \in [Ids -> Nat]
      /\ pins \in Seq(Pin)
  BY <1>1, LegacyFacts DEF Pin
<1>5. id \in Ids /\ id \notin DOMAIN ptrMap /\ id \notin memory_store
  BY <1>3, <1>4, LegacyBoundsAssumption DEF Ids, InStep
<1>6. /\ DOMAIN objs = DOMAIN ptrMap \cup {id} /\ objs[id] = NewObject
      /\ \A i \in DOMAIN ptrMap : objs[i] = ptrMap[i]
  BY <1>2, <1>5
<1>7. InStep(objs, memory_store \cup {id}, files)
  <2>1. \A j \in DOMAIN objs : objs[j] \in Object
    BY <1>4, <1>6, NewObjectFields DEF InStep
  <2>2. memory_store \cup {id} = {j \in DOMAIN objs : objs[j].target # NULL}
    BY <1>4, <1>5, <1>6, NewObjectFields, LegacyNodes DEF InStep
  <2>3. \A j \in DOMAIN objs \ (memory_store \cup {id}) : objs[j].version > 0
    BY <1>4, <1>6 DEF InStep
  <2>4. ASSUME NEW f
        PROVE  f \in DOMAIN files <=> /\ f \in {<<j, objs[j].version>> : j \in DOMAIN objs}
                                      /\ f[2] > 0
    <3>1. f \in DOMAIN files <=> /\ f \in {<<j, ptrMap[j].version>> : j \in DOMAIN ptrMap}
                                 /\ f[2] > 0
      BY <1>4 DEF InStep
    <3>2. f \in {<<j, ptrMap[j].version>> : j \in DOMAIN ptrMap} =>
            f \in {<<j, objs[j].version>> : j \in DOMAIN objs}
      BY <1>6
    <3>3. ASSUME f \in {<<j, objs[j].version>> : j \in DOMAIN objs}, f[2] > 0
          PROVE  f \in {<<j, ptrMap[j].version>> : j \in DOMAIN ptrMap}
      <4>1. PICK j \in DOMAIN objs : f = <<j, objs[j].version>>
        BY <3>3
      <4>2. j # id
        BY <1>6, <3>3, <4>1, NewObjectFields
      <4> QED
        BY <1>6, <4>1, <4>2
    <3> QED
      BY <3>1, <3>2, <3>3
  <2>5. DOMAIN files = {f \in {<<j, objs[j].version>> : j \in DOMAIN objs} : f[2] > 0}
    <3> DEFINE Current == {<<j, objs[j].version>> : j \in DOMAIN objs}
    <3>1. \A f : f \in DOMAIN files <=> f \in Current /\ f[2] > 0
      BY <2>4
    <3> HIDE DEF Current
    <3>2. DOMAIN files = {f \in Current : f[2] > 0}
      BY <3>1
    <3> QED
      BY <3>2 DEF Current
  <2> QED
    BY <1>4, <2>1, <2>2, <2>3, <2>5 DEF InStep
<1>8. /\ InStep(ptrMap', memory_store', files')
      /\ DOMAIN ptrMap' = DOMAIN objs
      /\ id \in memory_store'
      /\ \A j \in DOMAIN objs :
           /\ NodeOf(j)' = NodeAt(objs, j)
           /\ ptrMap'[j].refcount = objs[j].refcount
           /\ ptrMap'[j].pincount = objs[j].pincount
           /\ objs[j].target # NULL /\ (j = id \/ objs[j].pincount # 0) =>
                ptrMap'[j].target = objs[j].target
  <2>1. id \in DOMAIN objs /\ id \notin memory_store
    BY <1>5, <1>6
  <2>2. MakeRoomFor(id, objs)
    BY <1>3
  <2>3. RoomMade(id, objs)
    BY <1>7, <2>1, <2>2, RoomIsMade
  <2> QED
    BY <2>3 DEF RoomMade
<1>9. ASSUME NEW j \in DOMAIN ptrMap'
      PROVE  NodeOf(j)' = IF j = id THEN NewNode ELSE NodeOf(j)
  <2>1. j \in DOMAIN objs /\ NodeOf(j)' = NodeAt(objs, j)
    BY <1>8
  <2>2. CASE j = id
    BY <1>6, <2>1, <2>2, NewObjectFields, LegacyNodes DEF NodeAt
  <2>3. CASE j # id
    <3>1. j \in DOMAIN ptrMap /\ objs[j] = ptrMap[j]
      BY <1>6, <2>1, <2>3
    <3>2. NodeOf(j) = NodeAt(ptrMap, j)
      BY <3>1, LegacyFacts
    <3> QED
      BY <2>1, <2>3, <3>1, <3>2 DEF NodeAt
  <2> QED
    BY <2>2, <2>3
<1>10. NodeAdded(id)
  BY <1>3, <1>5, <1>6, <1>8, <1>9 DEF NodeAdded
<1>11. /\ handles' \in [Ids -> Nat] /\ handles'[id] = handles[id] + 1
      /\ \A i \in Ids \ {id} : handles'[i] = handles[i]
  BY <1>3, <1>4, <1>5
<1>12. CountsArePointers'
  <2>1. ASSUME NEW i \in Ids
        PROVE  Parents(i)' = Parents(i)
    <3>1. NewNode.kids = {}
      BY DEF NewNode
    <3> QED
      BY <1>5, <1>6, <1>8, <1>9, <3>1 DEF Parents
  <2>2. ASSUME NEW i \in Ids
        PROVE  handles'[i] + Cardinality(Parents(i)')
                 = IF i \in DOMAIN ptrMap' THEN ptrMap'[i].refcount ELSE 0
    <3>1. /\ handles[i] + Cardinality(Parents(i))
               = IF i \in DOMAIN ptrMap THEN ptrMap[i].refcount ELSE 0
          /\ handles[i] \in Nat /\ Cardinality(Parents(i)) \in Nat
      BY LegacyFacts, IdSetsFinite DEF LegacyInvariant, CountsArePointers
    <3>2. CASE i = id
      <4>1. handles[i] = 0 /\ Cardinality(Parents(i)) = 0
        BY <1>5, <3>1, <3>2
      <4>2. i \in DOMAIN ptrMap' /\ ptrMap'[i].refcount = 1
        BY <1>6, <1>8, <3>2, NewObjectFields
      <4> QED
        BY <1>11, <2>1, <3>2, <4>1, <4>2
    <3>3. CASE i # id
      BY <1>6, <1>8, <1>11, <2>1, <3>1, <3>3
    <3> QED
      BY <3>2, <3>3
  <2> QED
    BY <2>2 DEF CountsArePointers
<1>13. PinsHold'
  <2>1. ASSUME NEW j \in DOMAIN ptrMap, ptrMap[j].pincount # 0, ptrMap[j].target # NULL
        PROVE  ptrMap'[j].target = ptrMap[j].target /\ j \in memory_store'
    <3>1. ptrMap'[j].target = ptrMap[j].target
      BY <1>6, <1>8, <2>1
    <3> QED
      BY <1>6, <1>8, <2>1, <3>1 DEF InStep
  <2>2. ASSUME NEW n \in DOMAIN pins
        PROVE  /\ pins[n].id \in memory_store' /\ ptrMap'[pins[n].id].target # NULL
               /\ pins[n].through = 0 => handles'[pins[n].id] > 0
               /\ pins[n].through # 0 =>
                    pins[n].id \in ptrMap'[pins[n].through].target.kids
    <3>1. pins[n].id \in memory_store' /\ ptrMap'[pins[n].id].target # NULL
      BY <2>1, PinnedFacts
    <3>2. pins[n].through = 0 => handles'[pins[n].id] > 0
      BY <1>4, <1>5, <1>11, PinnedFacts
    <3>3. ASSUME pins[n].through # 0
          PROVE  pins[n].id \in ptrMap'[pins[n].through].target.kids
      <4>1. /\ n - 1 \in DOMAIN pins /\ pins[n].through = pins[n - 1].id
            /\ pins[n].id \in ptrMap[pins[n].through].target.kids
        BY <3>3, PinnedFacts
      <4>2. ptrMap'[pins[n - 1].id].target = ptrMap[pins[n - 1].id].target
        BY <2>1, <4>1, PinnedFacts
      <4> QED
        BY <4>1, <4>2
    <3> QED
      BY <3>1, <3>2, <3>3
  <2>3. \A i \in DOMAIN ptrMap' : ptrMap'[i].pincount =
                                    IF i \in DOMAIN ptrMap THEN ptrMap[i].pincount ELSE 0
    BY <1>5, <1>6, <1>8, NewObjectFields
  <2> QED
    BY <1>1, <1>3, <1>6, <1>8, <2>2, <2>3, PinsStay
<1>14. LegacyTypeOk' /\ OneFilePerObject'
  <2>1. InStep(ptrMap', memory_store', files') => InStep(ptrMap, memory_store, files)'
    BY DEF InStep
  <2>2. (InStep(ptrMap, memory_store, files) =>
           /\ OneFilePerObject
           /\ \A i \in DOMAIN ptrMap : ptrMap[i] \in Object
           /\ memory_store \subseteq DOMAIN ptrMap
           /\ DOMAIN ptrMap \subseteq Ids =>
                \A f \in DOMAIN files : f \in Ids \X Nat /\ files[f] \in Node)'
    BY InStepIsOneFile, PTL
  <2>3. DOMAIN ptrMap' \subseteq Ids
    BY <1>4, <1>5, <1>6, <1>8
  <2>4. /\ OneFilePerObject'
        /\ \A i \in DOMAIN ptrMap' : ptrMap'[i] \in Object
        /\ memory_store' \subseteq DOMAIN ptrMap'
        /\ \A f \in DOMAIN files' : f \in Ids \X Nat /\ files'[f] \in Node
    BY <1>8, <2>1, <2>2, <2>3
  <2>5. DOMAIN ptrMap' = 1..next_id' - 1 /\ next_id' \in 1..MaxId + 1
    <3>1. id \in Nat /\ id > 0 /\ MaxId \in Nat
      BY <1>4, LegacyBoundsAssumption
    <3>2. 1..(id + 1) - 1 = (1..id - 1) \cup {id}
      BY <3>1
    <3> QED
      BY <1>3, <1>4, <1>6, <1>8, <3>1, <3>2
  <2>6. pins' \in Seq([id : Ids, through : 0..MaxId, writable : BOOLEAN]) /\ now' \in Nat
    BY <1>3, <1>4 DEF Pin
  <2> QED
    BY <1>11, <2>4, <2>5, <2>6 DEF LegacyTypeOk
<1> QED
  BY <1>1, <1>10, <1>12, <1>13, <1>14 DEF LegacyInvariant

-----------------------------------------------------------------------------
(* The theorems.                                                           *)

LEMMA LegacyInitInvariant == Init => LegacyInvariant
<1> SUFFICES ASSUME Init PROVE LegacyInvariant
  OBVIOUS
<1>1. /\ ptrMap = << >> /\ memory_store = {} /\ next_id = 1 /\ now = 1
      /\ handles = [i \in Ids |-> 0] /\ pins = << >> /\ files = << >>
      /\ DOMAIN << >> = {}
  BY DEF Init
<1>2. LegacyTypeOk
  <2>1. 1..next_id - 1 = {} /\ next_id \in 1..MaxId + 1
    BY <1>1, LegacyBoundsAssumption
  <2>2. pins \in Seq([id : Ids, through : 0..MaxId, writable : BOOLEAN])
    BY <1>1
  <2> QED
    BY <1>1, <2>1, <2>2 DEF LegacyTypeOk
<1>3. CountsArePointers
  <2>1. \A i \in Ids : Parents(i) = {} /\ handles[i] = 0
    BY <1>1 DEF Parents
  <2> QED
    BY <1>1, <2>1, FS_EmptySet DEF CountsArePointers
<1>4. PinsHold /\ OneFilePerObject
  BY <1>1 DEF PinsHold, OneFilePerObject
<1> QED
  BY <1>2, <1>3, <1>4 DEF LegacyInvariant

LEMMA LegacyStutterStep ==
  ASSUME LegacyInvariant, UNCHANGED vars
  PROVE  LegacyInvariant'
<1>1. UNCHANGED <<ptrMap, memory_store, next_id, now, handles, pins, files>>
  BY DEF vars
<1>2. LegacyTypeOk' /\ OneFilePerObject' /\ PinsHold'
  BY <1>1 DEF LegacyInvariant, LegacyTypeOk, OneFilePerObject, PinsHold
<1>3. CountsArePointers'
  BY <1>1 DEF LegacyInvariant, CountsArePointers, Parents, NodeOf, Stored
<1> QED
  BY <1>2, <1>3 DEF LegacyInvariant

LEMMA LegacyNextKeeps ==
  ASSUME LegacyInvariant, [Next]_vars
  PROVE  LegacyInvariant'
<1>1. CASE Allocate
  BY <1>1, AllocateStep
<1>2. CASE \E i \in Ids, writable \in BOOLEAN : Dereference(i, writable)
  BY <1>2, DereferenceStep
<1>3. CASE Unpin
  BY <1>3, UnpinStep
<1>4. CASE \E k \in Ids : AddKid(k) \/ CopyKid(k) \/ RemoveKid(k) \/ DropHandle(k)
  BY <1>4, AddKidStep, CopyKidStep, RemoveKidStep, DropHandleStep
<1>5. CASE \E i, j \in Ids : Assign(i, j)
  BY <1>5, AssignStep
<1>6. CASE UNCHANGED vars
  BY <1>6, LegacyStutterStep
<1> QED
  BY <1>1, <1>2, <1>3, <1>4, <1>5, <1>6 DEF Next

\* Every action of pointers, pins and eviction keeps the four properties together.
LEMMA LegacyInvariantHolds == Spec => []LegacyInvariant
<1>1. Init => LegacyInvariant
  BY LegacyInitInvariant
<1>2. LegacyInvariant /\ [Next]_vars => LegacyInvariant'
  BY LegacyNextKeeps
<1> QED
  BY <1>1, <1>2, PTL DEF Spec

\* Every variable of the earlier swap space keeps its type: in particular, neither a
\* reference count nor a pin count, uint64_t in swap_space.hpp, is lowered below 0.
THEOREM LegacyTypeCorrect == Spec => []LegacyTypeOk
<1>1. LegacyInvariant => LegacyTypeOk
  BY DEF LegacyInvariant
<1> QED
  BY <1>1, LegacyInvariantHolds, PTL

\* The count of an object is the number of pointers to it, whatever is evicted, loaded,
\* copied or assigned (pointer.hpp 107-151, 197-207).
THEOREM LegacyPointersAreCounted == Spec => []CountsArePointers
<1>1. LegacyInvariant => CountsArePointers
  BY DEF LegacyInvariant
<1> QED
  BY <1>1, LegacyInvariantHolds, PTL

\* A pin keeps its object in memory, and the pointer that it follows again when it ends
\* (pointer.hpp 59-63) is still there and still leads to that object.
THEOREM LegacyPinsProtect == Spec => []PinsHold
<1>1. LegacyInvariant => PinsHold
  BY DEF LegacyInvariant
<1> QED
  BY <1>1, LegacyInvariantHolds, PTL

\* Versions in memory and files stay in step: every load and every unlink finds its
\* file, and no old version is left (backing_store.cpp 30-50, swap_space.hpp 193-226).
THEOREM LegacyFilesInStep == Spec => []OneFilePerObject
<1>1. LegacyInvariant => OneFilePerObject
  BY DEF LegacyInvariant
<1> QED
  BY <1>1, LegacyInvariantHolds, PTL

-----------------------------------------------------------------------------
(* The size of the cache.                                                  *)

LEMMA LeastExists ==
  ASSUME NEW T \in SUBSET Nat, T # {}
  PROVE  \E x \in T : \A y \in T : x <= y
<1>1. PICK x \in T : \A y \in T : ~(<<y, x>> \in OpToRel(<, Nat))
  BY NatLessThanWellFounded, WFMin
<1>2. \A y \in T : ~(y < x)
  BY <1>1 DEF OpToRel
<1> QED
  BY <1>2

\* Among objects in memory one of which is not pinned there is one to evict.
LEMMA OldestExists ==
  ASSUME NEW objs, NEW k \in memory_store, objs[k].pincount = 0,
         \A j \in memory_store : objs[j].last_access \in Nat
  PROVE  Oldest(objs) # {}
<1> DEFINE free == {j \in memory_store : objs[j].pincount = 0}
           times == {objs[j].last_access : j \in free}
<1>1. times \in SUBSET Nat /\ times # {}
  OBVIOUS
<1>2. PICK x \in times : \A y \in times : x <= y
  BY <1>1, LeastExists
<1>3. PICK v \in free : x = objs[v].last_access
  BY <1>2
<1>4. v \in Oldest(objs)
  BY <1>2, <1>3 DEF Oldest
<1> QED
  BY <1>4

\* What must be so if an object enters memory and none leaves.
MayGrow == \/ Cardinality(memory_store) < max_in_memory_objects
           \/ \A j \in memory_store : ptrMap[j].pincount > 0

LEMMA RoomGrows ==
  ASSUME LegacyInvariant, NEW i \in Ids, i \notin memory_store, NEW objs,
         \A j \in memory_store : /\ objs[j].pincount = ptrMap[j].pincount
                                 /\ objs[j].last_access = ptrMap[j].last_access,
         MakeRoomFor(i, objs), Cardinality(memory_store') > Cardinality(memory_store)
  PROVE  MayGrow
<1>1. /\ IsFiniteSet(memory_store) /\ Cardinality(memory_store) \in Nat
      /\ max_in_memory_objects \in Nat
      /\ \A j \in memory_store : ptrMap[j].last_access \in Nat /\ ptrMap[j].pincount \in Nat
  BY LegacyFacts, LegacyFields, IdSetsFinite, LegacyBoundsAssumption DEF InStep
<1>2. CASE ~Full
  BY <1>1, <1>2 DEF Full, MayGrow
<1>3. CASE Oldest(objs) = {}
  <2>1. ASSUME NEW j \in memory_store
        PROVE  ptrMap[j].pincount # 0
    BY <1>1, <1>3, OldestExists
  <2> QED
    BY <1>1, <2>1 DEF MayGrow
<1>4. CASE Full /\ Oldest(objs) # {}
  <2>1. PICK v \in Oldest(objs) : memory_store' = (memory_store \ {v}) \cup {i}
    BY <1>4 DEF MakeRoomFor
  <2>2. v \in memory_store
    BY DEF Oldest
  <2>3. Cardinality(memory_store \ {v}) = Cardinality(memory_store) - 1
        /\ IsFiniteSet(memory_store \ {v})
    BY <1>1, <2>2, FS_RemoveElement
  <2>4. Cardinality((memory_store \ {v}) \cup {i}) = Cardinality(memory_store \ {v}) + 1
    BY <2>3, FS_AddElement
  <2> QED
    BY <1>1, <2>1, <2>3, <2>4
<1> QED
  BY <1>2, <1>3, <1>4

LEMMA AllocateGrows ==
  ASSUME LegacyInvariant, Allocate, Cardinality(memory_store') > Cardinality(memory_store)
  PROVE  MayGrow
<1>1. PICK id : id = next_id
  OBVIOUS
<1>2. PICK objs : objs = [i \in DOMAIN ptrMap \cup {id} |->
                            IF i = id THEN NewObject ELSE ptrMap[i]]
  OBVIOUS
<1>3. MakeRoomFor(id, objs)
  BY <1>1, <1>2 DEF Allocate
<1>4. id \in Ids /\ id \notin DOMAIN ptrMap
  BY <1>1, AllocateStep DEF NodeAdded
<1>5. memory_store \subseteq DOMAIN ptrMap
  BY LegacyFacts DEF InStep
<1>6. \A j \in memory_store : objs[j] = ptrMap[j]
  BY <1>2, <1>4, <1>5
<1> QED
  BY <1>3, <1>4, <1>5, <1>6, RoomGrows

LEMMA DereferenceGrows ==
  ASSUME LegacyInvariant, NEW i \in Ids, NEW writable \in BOOLEAN, Dereference(i, writable),
         Cardinality(memory_store') > Cardinality(memory_store)
  PROVE  MayGrow
<1> DEFINE pinned == [ptrMap EXCEPT ![i].pincount = @ + 1]
           loaded == [pinned EXCEPT ![i].target = Stored(i, ptrMap[i].version)]
           touched == [loaded EXCEPT ![i].last_access = IF writable THEN now' ELSE @]
<1>1. Cardinality(memory_store) \in Nat /\ memory_store \subseteq DOMAIN ptrMap
  BY LegacyFacts, IdSetsFinite DEF InStep
<1>2. i \notin memory_store
  <2>1. memory_store' # memory_store
    BY <1>1
  <2> QED
    BY <2>1 DEF Dereference
<1>3. MakeRoomFor(i, touched)
  BY <1>2 DEF Dereference
<1>4. PICK objs : objs = touched
  OBVIOUS
<1>5. \A j \in memory_store : objs[j] = ptrMap[j]
  BY <1>1, <1>2, <1>4
<1>6. MakeRoomFor(i, objs)
  BY <1>3, <1>4
<1> QED
  BY <1>2, <1>5, <1>6, RoomGrows

\* The cache grows beyond its size only when everything in it is pinned
\* (swap_space.hpp 123-127, 179-182).
THEOREM LegacyCacheGrowsForPins == Spec => GrowsOnlyWhenPinned
<1>1. ASSUME LegacyInvariant, [Next]_vars,
             Cardinality(memory_store') > Cardinality(memory_store)
      PROVE  MayGrow
  <2>1. memory_store' # memory_store
    <3>1. Cardinality(memory_store) \in Nat
      BY <1>1, LegacyFacts, IdSetsFinite DEF InStep
    <3> QED
      BY <1>1, <3>1
  <2>2. \/ Allocate
        \/ \E i \in Ids, writable \in BOOLEAN : Dereference(i, writable)
    BY <1>1, <2>1 DEF Next, vars, Unpin, AddKid, CopyKid, RemoveKid, DropHandle, Assign
  <2> QED
    BY <1>1, <2>2, AllocateGrows, DereferenceGrows
<1>2. LegacyInvariant /\ [Next]_vars =>
        [Cardinality(memory_store') > Cardinality(memory_store) =>
           \/ Cardinality(memory_store) < max_in_memory_objects
           \/ \A i \in memory_store : ptrMap[i].pincount > 0]_vars
  BY <1>1 DEF MayGrow
<1> QED
  BY <1>2, LegacyInvariantHolds, PTL DEF Spec, GrowsOnlyWhenPinned

-----------------------------------------------------------------------------
(* The refinement: the heap is every object's node, in memory or in its    *)
(* file, and the client holds what it has local pointers to.               *)

HeapNow == [i \in DOMAIN ptrMap |-> NodeOf(i)]
Held    == {i \in Ids : handles[i] > 0}

HeapUnseen == HeapNow' = HeapNow /\ Held' = Held

LEMMA LegacyHeapMapped ==
  /\ (UNCHANGED LegacyHeap!heapVars) <=> HeapUnseen
  /\ \A i : LegacyHeap!Allocate(i) <=>
       /\ i \notin DOMAIN HeapNow
       /\ HeapNow' = [j \in DOMAIN HeapNow \cup {i} |->
                        IF j = i THEN NewNode ELSE HeapNow[j]]
       /\ Held' \subseteq Held \cup {i} /\ i \in Held'
  /\ \A i, n : LegacyHeap!Write(i, n) <=>
       /\ i \in DOMAIN HeapNow
       /\ HeapNow' = [HeapNow EXCEPT ![i] = n]
       /\ Held' = Held
  /\ LegacyHeap!Hold <=> Held' \subseteq DOMAIN HeapNow /\ HeapNow' = HeapNow
BY DEF LegacyHeap!heapVars, LegacyHeap!Allocate, LegacyHeap!Write, LegacyHeap!Hold,
       HeapUnseen, HeapNow, Held

\* A step that keeps every node keeps the heap.
LEMMA HeapStays ==
  ASSUME DOMAIN ptrMap' = DOMAIN ptrMap, \A i \in DOMAIN ptrMap : NodeOf(i)' = NodeOf(i)
  PROVE  HeapNow' = HeapNow
<1>1. HeapNow' = [i \in DOMAIN ptrMap' |-> NodeOf(i)']
  BY DEF HeapNow
<1> QED
  BY <1>1 DEF HeapNow

LEMMA HeldIsInHeap == LegacyInvariant => Held \subseteq DOMAIN HeapNow
<1> SUFFICES ASSUME LegacyInvariant
             PROVE  Held \subseteq DOMAIN HeapNow
  OBVIOUS
<1> QED
  BY PointedAtIsLive DEF Held, HeapNow

LEMMA AllocateAddsNode ==
  ASSUME LegacyInvariant, Allocate
  PROVE  \E i \in Ids : LegacyHeap!Allocate(i)
<1>1. PICK id : id = next_id
  OBVIOUS
<1>2. NodeAdded(id)
  BY <1>1, AllocateStep
<1>3. HeapNow' = [j \in DOMAIN HeapNow \cup {id} |-> IF j = id THEN NewNode ELSE HeapNow[j]]
  <2>1. HeapNow' = [i \in DOMAIN ptrMap' |-> NodeOf(i)']
    BY DEF HeapNow
  <2> QED
    BY <1>2, <2>1 DEF NodeAdded, HeapNow
<1>4. Held' \subseteq Held \cup {id} /\ id \in Held'
  <2>1. handles \in [Ids -> Nat]
    BY LegacyFacts
  <2>2. /\ id \in Ids /\ handles'[id] > 0
        /\ \A i \in Ids \ {id} : handles'[i] = handles[i]
    BY <1>2, <2>1 DEF NodeAdded
  <2> QED
    BY <2>2 DEF Held
<1>5. id \in Ids /\ id \notin DOMAIN HeapNow
  BY <1>2 DEF NodeAdded, HeapNow
<1> QED
  BY <1>3, <1>4, <1>5, LegacyHeapMapped

LEMMA KidsAreWritten ==
  ASSUME LegacyInvariant, NEW k \in Ids, AddKid(k) \/ RemoveKid(k)
  PROVE  \E i \in Ids, n \in Node : LegacyHeap!Write(i, n)
<1>1. TopChanged /\ handles' = handles
  BY AddKidStep, RemoveKidStep DEF AddKid, RemoveKid
<1>2. PICK i : i = Top
  OBVIOUS
<1>3. PICK n \in Node : \A j \in DOMAIN ptrMap :
                          NodeOf(j)' = IF j = i THEN n ELSE NodeOf(j)
  BY <1>1, <1>2 DEF TopChanged
<1>4. i \in DOMAIN ptrMap /\ DOMAIN ptrMap' = DOMAIN ptrMap /\ i \in Ids
  BY <1>1, <1>2, LegacyFacts DEF TopChanged
<1>5. HeapNow' = [j \in DOMAIN ptrMap' |-> NodeOf(j)']
  BY DEF HeapNow
<1>6. HeapNow' = [HeapNow EXCEPT ![i] = n] /\ i \in DOMAIN HeapNow
  BY <1>3, <1>4, <1>5 DEF HeapNow
<1>7. Held' = Held
  BY <1>1 DEF Held
<1> QED
  BY <1>4, <1>6, <1>7, LegacyHeapMapped

LEMMA PointersAreHeld ==
  ASSUME LegacyInvariant,
         \/ \E k \in Ids : CopyKid(k) \/ DropHandle(k)
         \/ \E i, j \in Ids : Assign(i, j)
  PROVE  LegacyHeap!Hold
<1>1. /\ LegacyInvariant' /\ DOMAIN ptrMap' = DOMAIN ptrMap
      /\ \A i \in DOMAIN ptrMap : NodeOf(i)' = NodeOf(i)
  BY CopyKidStep, DropHandleStep, AssignStep
<1>2. HeapNow' = HeapNow
  BY <1>1, HeapStays
<1>3. LegacyInvariant' => (Held \subseteq DOMAIN HeapNow)'
  BY HeldIsInHeap, PTL
<1> QED
  BY <1>1, <1>2, <1>3, LegacyHeapMapped

LEMMA CachingIsUnseen ==
  ASSUME LegacyInvariant,
         Unpin \/ \E i \in Ids, writable \in BOOLEAN : Dereference(i, writable)
  PROVE  HeapUnseen
<1>1. /\ DOMAIN ptrMap' = DOMAIN ptrMap
      /\ \A i \in DOMAIN ptrMap : NodeOf(i)' = NodeOf(i)
  BY UnpinStep, DereferenceStep
<1>2. handles' = handles
  BY DEF Unpin, Dereference
<1> QED
  BY <1>1, <1>2, HeapStays DEF HeapUnseen, Held

\* However nodes come and go between memory and files, the client reads what it wrote:
\* eviction, versions and loading (swap_space.hpp, backing_store.cpp) implement a heap
\* from which nothing is freed.
THEOREM LegacyImplementsHeap == Spec => LegacyHeapSpec
<1>1. Init => LegacyHeap!Init
  <2> SUFFICES ASSUME Init PROVE LegacyHeap!Init
    OBVIOUS
  <2>1. HeapNow = << >> /\ Held = {}
    BY DEF Init, HeapNow, Held, Ids
  <2> QED
    BY <2>1 DEF LegacyHeap!Init, HeapNow, Held
<1>2. ASSUME LegacyInvariant, [Next]_vars
      PROVE  [LegacyHeap!Next]_(LegacyHeap!heapVars)
  <2> SUFFICES LegacyHeap!Next \/ HeapUnseen
    BY LegacyHeapMapped
  <2>1. CASE Allocate
    BY <1>2, <2>1, AllocateAddsNode DEF LegacyHeap!Next
  <2>2. CASE \E k \in Ids : AddKid(k) \/ RemoveKid(k)
    BY <1>2, <2>2, KidsAreWritten DEF LegacyHeap!Next
  <2>3. CASE \/ \E k \in Ids : CopyKid(k) \/ DropHandle(k)
             \/ \E i, j \in Ids : Assign(i, j)
    BY <1>2, <2>3, PointersAreHeld DEF LegacyHeap!Next
  <2>4. CASE Unpin \/ \E i \in Ids, writable \in BOOLEAN : Dereference(i, writable)
    BY <1>2, <2>4, CachingIsUnseen
  <2>5. CASE UNCHANGED vars
    BY <2>5 DEF vars, HeapUnseen, HeapNow, Held, NodeOf, Stored
  <2> QED
    BY <1>2, <2>1, <2>2, <2>3, <2>4, <2>5 DEF Next
<1> QED
  BY <1>1, <1>2, LegacyInvariantHolds, PTL DEF Spec, LegacyHeapSpec, LegacyHeap!Spec

=============================================================================
