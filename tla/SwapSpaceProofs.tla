--------------------------- MODULE SwapSpaceProofs --------------------------
(***************************************************************************)
(* Theorems about SwapSpace, for every cache size, every set of data and   *)
(* every bound.                                                            *)
(***************************************************************************)
EXTENDS SwapSpaceInv, SequenceTheorems, FiniteSetTheorems, TLAPS

-----------------------------------------------------------------------------
(* Facts about the operators of the model.                                 *)

LEMMA ModRange ==
  ASSUME NEW a \in Nat
  PROVE  a % CounterModulus \in 0..CounterModulus - 1
BY CacheAssumption

LEMMA IdsFinite == \A S \in SUBSET Ids : IsFiniteSet(S) /\ Cardinality(S) \in Nat
<1>1. IsFiniteSet(Ids)
  BY FS_Interval, SwapBoundsAssumption DEF Ids
<1> QED
  BY <1>1, FS_Subset, FS_CardinalityType

\* A file that is there is read as it is.
LEMMA StoredFile ==
  ASSUME NEW i, NEW v, <<i, v>> \in DOMAIN files
  PROVE  Stored(i, v) = files[<<i, v>>]
BY DEF Stored

\* The fields of an object.
LEMMA ObjectFields ==
  ASSUME NEW o \in Object
  PROVE  /\ o.target \in Node \/ o.target = NULL
         /\ o.version \in Nat /\ o.refcount \in Nat /\ o.pincount \in Nat
         /\ o.last_access \in Nat /\ o.is_leaf \in BOOLEAN /\ o.dirty \in BOOLEAN
BY DEF Object

LEMMA NodeFields ==
  ASSUME NEW n \in Node
  PROVE  n # NULL /\ n.kids \in SUBSET Ids /\ n.data \in Data
BY NullAssumption DEF Node

\* The node of an object, in memory or in its file, is a node.
LEMMA NodeInTyped ==
  ASSUME NEW objs, NEW lru, CacheOk(objs, lru),
         \A f \in DOMAIN files : files[f] \in Node,
         NEW i \in DOMAIN objs
  PROVE  NodeIn(objs, i) \in Node
<1>1. CASE objs[i].target # NULL
  BY <1>1, ObjectFields DEF CacheOk, NodeIn
<1>2. CASE objs[i].target = NULL
  <2>1. ~objs[i].dirty
    BY <1>2 DEF CacheOk
  <2> QED
    BY <2>1 DEF CacheOk
<1> QED
  BY <1>1, <1>2

-----------------------------------------------------------------------------
(* Eviction.                                                               *)

\* What writing out a set of objects does to one of them.
LEMMA EvictedObject ==
  ASSUME NEW o \in Object, o.target # NULL
  PROVE  /\ Evicted(o) \in Object
         /\ Evicted(o).target = NULL /\ ~Evicted(o).dirty
         /\ Evicted(o).version = IF o.dirty THEN o.version + 1 ELSE o.version
         /\ Evicted(o).is_leaf <=> o.target.kids = {}
         /\ Evicted(o).refcount = o.refcount /\ Evicted(o).pincount = o.pincount
<1> DEFINE v == IF o.dirty THEN o.version + 1 ELSE o.version
           b == o.target.kids = {}
           w == [o EXCEPT !.is_leaf = b, !.version = v, !.dirty = FALSE]
<1>1. v \in Nat /\ b \in BOOLEAN
  BY ObjectFields
<1>2. WrittenBack(o) = w
  BY DEF WrittenBack
<1>3. /\ w.version = v /\ (w.is_leaf <=> o.target.kids = {}) /\ w.dirty = FALSE
      /\ w.refcount = o.refcount /\ w.pincount = o.pincount
  BY DEF Object
<1>4. w \in Object
  <2> HIDE DEF v, b
  <2> QED
    BY <1>1 DEF Object
<1> HIDE DEF w
<1>5. Evicted(o) = [w EXCEPT !.target = NULL]
  BY <1>2 DEF Evicted
<1>6. /\ [w EXCEPT !.target = NULL] \in Object
      /\ [w EXCEPT !.target = NULL].target = NULL
      /\ [w EXCEPT !.target = NULL].version = w.version
      /\ [w EXCEPT !.target = NULL].is_leaf = w.is_leaf
      /\ [w EXCEPT !.target = NULL].dirty = w.dirty
      /\ [w EXCEPT !.target = NULL].refcount = w.refcount
      /\ [w EXCEPT !.target = NULL].pincount = w.pincount
  BY <1>4 DEF Object
<1> QED
  BY <1>3, <1>5, <1>6

\* Files and recorded versions after a set of objects has been written out.
LEMMA WriteOutFiles ==
  ASSUME NEW objs, NEW lru, NEW current, NEW E,
         WriteOut(E, objs, lru, current), E \subseteq DOMAIN objs
  PROVE  /\ \A i \in E : objs[i].dirty =>
              /\ <<i, objs[i].version + 1>> \in DOMAIN files'
              /\ files'[<<i, objs[i].version + 1>>] = objs[i].target
              /\ i \in DOMAIN objects_to_versions'
              /\ objects_to_versions'[i] = objs[i].version + 1
         /\ \A f \in DOMAIN files :
              /\ f \in DOMAIN files'
              /\ (\A i \in E : objs[i].dirty => f # <<i, objs[i].version + 1>>)
                   => files'[f] = files[f]
         /\ \A f \in DOMAIN files' :
              \/ f \in DOMAIN files /\ files'[f] = files[f]
              \/ \E i \in E : /\ objs[i].dirty /\ f = <<i, objs[i].version + 1>>
                              /\ files'[f] = objs[i].target
         /\ \A i \in DOMAIN objects_to_versions :
              /\ i \in DOMAIN objects_to_versions'
              /\ i \notin E \/ ~objs[i].dirty
                   => objects_to_versions'[i] = objects_to_versions[i]
         /\ \A i \in DOMAIN objects_to_versions' :
              i \in DOMAIN objects_to_versions \/ (i \in E /\ objs[i].dirty)
<1> DEFINE dirty == {i \in E : objs[i].dirty}
           new   == {<<i, objs[i].version + 1>> : i \in dirty}
<1>1. files' = [f \in DOMAIN files \cup new |->
                  IF f \in new THEN objs[f[1]].target ELSE files[f]]
  BY DEF WriteOut
<1>2. objects_to_versions' = [i \in DOMAIN objects_to_versions \cup dirty |->
                                IF i \in dirty THEN objs[i].version + 1
                                ELSE objects_to_versions[i]]
  BY DEF WriteOut
<1>3. \A f \in new : \E i \in dirty : f = <<i, objs[i].version + 1>> /\ f[1] = i
  OBVIOUS
<1>4. \A i \in dirty : <<i, objs[i].version + 1>> \in new
  OBVIOUS
<1>5. \A i \in E : i \in dirty <=> objs[i].dirty
  OBVIOUS
<1>6. \A i \in dirty : i \in E
  OBVIOUS
<1> HIDE DEF dirty, new
<1>7. ASSUME NEW f \in new PROVE f \in DOMAIN files' /\ files'[f] = objs[f[1]].target
  BY <1>1
<1>8. ASSUME NEW f \in DOMAIN files, f \notin new
      PROVE  f \in DOMAIN files' /\ files'[f] = files[f]
  BY <1>1, <1>8
<1>9. ASSUME NEW i \in dirty
      PROVE  files'[<<i, objs[i].version + 1>>] = objs[i].target
  <2>1. <<i, objs[i].version + 1>>[1] = i
    OBVIOUS
  <2> QED
    BY <1>4, <1>7, <2>1
<1>10. DOMAIN files' = DOMAIN files \cup new
  BY <1>1
<1>11. \A i \in E : objs[i].dirty =>
         /\ <<i, objs[i].version + 1>> \in DOMAIN files'
         /\ files'[<<i, objs[i].version + 1>>] = objs[i].target
  BY <1>4, <1>5, <1>9, <1>10
<1>12. \A i \in E : objs[i].dirty =>
         /\ i \in DOMAIN objects_to_versions'
         /\ objects_to_versions'[i] = objs[i].version + 1
  BY <1>2, <1>5
<1>13. \A f \in DOMAIN files :
         /\ f \in DOMAIN files'
         /\ (\A i \in E : objs[i].dirty => f # <<i, objs[i].version + 1>>)
              => files'[f] = files[f]
  <2>1. ASSUME NEW f \in DOMAIN files,
               \A i \in E : objs[i].dirty => f # <<i, objs[i].version + 1>>
        PROVE  f \notin new
    BY <1>3, <1>5, <1>6, <2>1
  <2> QED
    BY <1>8, <1>10, <2>1
<1>14. \A f \in DOMAIN files' :
         \/ f \in DOMAIN files /\ files'[f] = files[f]
         \/ \E i \in E : /\ objs[i].dirty /\ f = <<i, objs[i].version + 1>>
                         /\ files'[f] = objs[i].target
  <2>1. ASSUME NEW f \in new
        PROVE  \E i \in E : /\ objs[i].dirty /\ f = <<i, objs[i].version + 1>>
                            /\ files'[f] = objs[i].target
    BY <1>3, <1>5, <1>6, <1>9
  <2> QED
    BY <1>8, <1>10, <2>1
<1>15. \A i \in DOMAIN objects_to_versions :
         /\ i \in DOMAIN objects_to_versions'
         /\ i \notin E \/ ~objs[i].dirty
              => objects_to_versions'[i] = objects_to_versions[i]
  BY <1>2, <1>5, <1>6
<1>16. \A i \in DOMAIN objects_to_versions' :
         i \in DOMAIN objects_to_versions \/ (i \in E /\ objs[i].dirty)
  BY <1>2, <1>5, <1>6
<1> QED
  BY <1>11, <1>12, <1>13, <1>14, <1>15, <1>16

FilesTyped == \A f \in DOMAIN files : f \in Ids \X Nat /\ files[f] \in Node

\* Writing out a set of objects changes no node and keeps objects, queue and files
\* in agreement.  Only the versions above the current ones are written.
LEMMA WriteOutKeeps ==
  ASSUME NEW objs, NEW lru, NEW current, NEW E \in SUBSET lru,
         CacheOk(objs, lru), FilesTyped, WriteOut(E, objs, lru, current)
  PROVE  /\ CacheOk(objects, lru_pqueue)' /\ FilesTyped'
         /\ DOMAIN objects' = DOMAIN objs
         /\ \A i \in DOMAIN objs :
              /\ NodeOf(i)' = NodeIn(objs, i)
              /\ objects'[i].refcount = objs[i].refcount
              /\ objects'[i].pincount = objs[i].pincount
              /\ objs[i].version <= objects'[i].version
              /\ i \notin E => objects'[i] = objs[i]
              /\ i \in E => ~objects'[i].dirty
         /\ \A i \in Ids, v \in Nat :
              <<i, v>> \in DOMAIN files =>
                /\ <<i, v>> \in DOMAIN files'
                /\ (i \in DOMAIN objs => v <= objs[i].version)
                     => Stored(i, v)' = Stored(i, v)
<1>1. /\ DOMAIN objects' = DOMAIN objs
      /\ \A i \in DOMAIN objs :
           objects'[i] = IF i \in E THEN Evicted(objs[i]) ELSE objs[i]
      /\ lru_pqueue' = lru \ E
  BY DEF WriteOut, Unqueued
<1>2. E \subseteq DOMAIN objs /\ \A i \in E : objs[i].target # NULL
  BY DEF CacheOk
<1>3. \A i \in DOMAIN objs : objs[i] \in Object /\ objs[i].version \in Nat
  BY ObjectFields DEF CacheOk
<1>4. ASSUME NEW i \in E
      PROVE  /\ objects'[i] \in Object /\ objects'[i].target = NULL
             /\ ~objects'[i].dirty
             /\ objects'[i].version
                  = IF objs[i].dirty THEN objs[i].version + 1 ELSE objs[i].version
             /\ objects'[i].is_leaf <=> objs[i].target.kids = {}
             /\ objects'[i].refcount = objs[i].refcount
             /\ objects'[i].pincount = objs[i].pincount
  BY <1>1, <1>2, <1>3, EvictedObject
<1>5. /\ \A i \in E : objs[i].dirty =>
           /\ <<i, objs[i].version + 1>> \in DOMAIN files'
           /\ files'[<<i, objs[i].version + 1>>] = objs[i].target
           /\ i \in DOMAIN objects_to_versions'
           /\ objects_to_versions'[i] = objs[i].version + 1
      /\ \A f \in DOMAIN files :
           /\ f \in DOMAIN files'
           /\ (\A i \in E : objs[i].dirty => f # <<i, objs[i].version + 1>>)
                => files'[f] = files[f]
      /\ \A f \in DOMAIN files' :
           \/ f \in DOMAIN files /\ files'[f] = files[f]
           \/ \E i \in E : /\ objs[i].dirty /\ f = <<i, objs[i].version + 1>>
                           /\ files'[f] = objs[i].target
      /\ \A i \in DOMAIN objects_to_versions :
           /\ i \in DOMAIN objects_to_versions'
           /\ i \notin E \/ ~objs[i].dirty
                => objects_to_versions'[i] = objects_to_versions[i]
      /\ \A i \in DOMAIN objects_to_versions' :
           i \in DOMAIN objects_to_versions \/ (i \in E /\ objs[i].dirty)
  BY <1>2, WriteOutFiles
<1>6. ASSUME NEW i \in Ids, NEW v \in Nat, <<i, v>> \in DOMAIN files,
             i \in DOMAIN objs => v <= objs[i].version
      PROVE  /\ <<i, v>> \in DOMAIN files'
             /\ files'[<<i, v>>] = files[<<i, v>>]
             /\ Stored(i, v)' = Stored(i, v)
  <2>1. \A j \in E : objs[j].dirty => <<i, v>> # <<j, objs[j].version + 1>>
    <3> SUFFICES ASSUME NEW j \in E, <<i, v>> = <<j, objs[j].version + 1>>
                 PROVE  FALSE
      OBVIOUS
    <3>1. i = j /\ v = objs[j].version + 1
      OBVIOUS
    <3> QED
      BY <1>2, <1>3, <1>6, <3>1
  <2>2. <<i, v>> \in DOMAIN files' /\ files'[<<i, v>>] = files[<<i, v>>]
    BY <1>5, <1>6, <2>1
  <2> QED
    BY <1>6, <2>2 DEF Stored
\* A clean object keeps its file.
<1>7. ASSUME NEW i \in DOMAIN objs, ~objs[i].dirty
      PROVE  /\ <<i, objs[i].version>> \in DOMAIN files'
             /\ files'[<<i, objs[i].version>>] = NodeIn(objs, i)
             /\ i \in DOMAIN objects_to_versions'
             /\ objects_to_versions'[i] = objs[i].version
             /\ objects'[i].version = objs[i].version
             /\ ~objects'[i].dirty
  <2>1. i \in Ids /\ objs[i].version \in Nat /\ objs[i].version <= objs[i].version
    BY <1>3 DEF CacheOk
  <2>2. /\ <<i, objs[i].version>> \in DOMAIN files
        /\ files[<<i, objs[i].version>>] = NodeIn(objs, i)
        /\ i \in DOMAIN objects_to_versions
        /\ objects_to_versions[i] = objs[i].version
    BY <1>7 DEF CacheOk
  <2>3. /\ <<i, objs[i].version>> \in DOMAIN files'
        /\ files'[<<i, objs[i].version>>] = files[<<i, objs[i].version>>]
    BY <1>6, <2>1, <2>2
  <2>4. objects'[i].version = objs[i].version /\ ~objects'[i].dirty
    BY <1>1, <1>4, <1>7
  <2> QED
    BY <1>5, <1>7, <2>2, <2>3, <2>4
<1>8. ASSUME NEW i \in DOMAIN objs PROVE NodeOf(i)' = NodeIn(objs, i)
  <2>1. CASE i \notin E /\ objs[i].target # NULL
    BY <1>1, <2>1 DEF NodeOf, NodeIn
  <2>2. CASE ~objs[i].dirty /\ (i \in E \/ objs[i].target = NULL)
    <3>1. objects'[i].target = NULL
      BY <1>1, <1>4, <2>2
    <3>2. Stored(i, objects[i].version)' = NodeIn(objs, i)
      BY <1>7, <2>2 DEF Stored
    <3> QED
      BY <3>1, <3>2 DEF NodeOf
  <2>3. CASE i \in E /\ objs[i].dirty
    <3>1. objects'[i].target = NULL /\ objects'[i].version = objs[i].version + 1
      BY <1>4, <2>3
    <3>2. Stored(i, objects[i].version)' = objs[i].target
      BY <1>5, <2>3, <3>1 DEF Stored
    <3> QED
      BY <1>2, <2>3, <3>1, <3>2 DEF NodeOf, NodeIn
  <2>4. objs[i].dirty => objs[i].target # NULL
    BY DEF CacheOk
  <2> QED
    BY <2>1, <2>2, <2>3, <2>4
<1>9. FilesTyped'
  <2> SUFFICES ASSUME NEW f \in DOMAIN files'
               PROVE  f \in Ids \X Nat /\ files'[f] \in Node
    BY DEF FilesTyped
  <2>1. CASE f \in DOMAIN files /\ files'[f] = files[f]
    BY <2>1 DEF FilesTyped
  <2>2. CASE \E i \in E : /\ objs[i].dirty /\ f = <<i, objs[i].version + 1>>
                          /\ files'[f] = objs[i].target
    <3>1. PICK i \in E : f = <<i, objs[i].version + 1>> /\ files'[f] = objs[i].target
      BY <2>2
    <3>2. i \in Ids /\ objs[i].version + 1 \in Nat /\ objs[i].target \in Node
      BY <1>2, <1>3, ObjectFields DEF CacheOk
    <3> QED
      BY <3>1, <3>2
  <2> QED
    BY <1>5, <2>1, <2>2
<1>10. CacheOk(objects, lru_pqueue)'
  <2>1. DOMAIN objects' \subseteq Ids /\ \A i \in DOMAIN objects' : objects'[i] \in Object
    BY <1>1, <1>3, <1>4 DEF CacheOk
  <2>2. lru_pqueue' = {i \in DOMAIN objects' : objects'[i].target # NULL}
    BY <1>1, <1>2, <1>4 DEF CacheOk
  <2>3. DOMAIN objects_to_versions' \subseteq DOMAIN objects'
    BY <1>1, <1>2, <1>5 DEF CacheOk
  <2>4. \A i \in DOMAIN objects' : objects'[i].dirty => objects'[i].target # NULL
    BY <1>1, <1>4 DEF CacheOk
  <2>5. \A i \in DOMAIN objects : NodeIn(objects, i)' = NodeOf(i)'
    BY DEF NodeIn, NodeOf
  <2>6. ASSUME NEW i \in DOMAIN objects' PROVE NodeIn(objects, i)' = NodeIn(objs, i)
    BY <1>1, <1>8, <2>6 DEF NodeIn, NodeOf
  <2>7. ASSUME NEW i \in DOMAIN objects', ~objects'[i].dirty
        PROVE  /\ <<i, objects'[i].version>> \in DOMAIN files'
               /\ NodeIn(objects, i)' = files'[<<i, objects'[i].version>>]
               /\ i \in DOMAIN objects_to_versions'
               /\ objects_to_versions'[i] = objects'[i].version
    <3>1. CASE ~objs[i].dirty
      BY <1>1, <1>7, <2>6, <3>1
    <3>2. CASE objs[i].dirty
      <4>1. i \in E
        BY <1>1, <2>7, <3>2
      <4>2. NodeIn(objs, i) = objs[i].target
        BY <1>2, <4>1 DEF NodeIn
      <4> QED
        BY <1>4, <1>5, <2>6, <3>2, <4>1, <4>2
    <3> QED
      BY <3>1, <3>2
  <2>8. ASSUME NEW i \in DOMAIN objects', objects'[i].target = NULL
        PROVE  objects'[i].is_leaf <=> NodeIn(objects, i)'.kids = {}
    <3>1. CASE i \in E
      BY <1>2, <1>4, <2>6, <3>1 DEF NodeIn
    <3>2. CASE i \notin E
      BY <1>1, <2>6, <2>8, <3>2 DEF CacheOk
    <3> QED
      BY <3>1, <3>2
  <2> HIDE DEF NodeIn
  <2> QED
    BY <2>1, <2>2, <2>3, <2>4, <2>7, <2>8 DEF CacheOk
<1>11. ASSUME NEW i \in DOMAIN objs
       PROVE  /\ objects'[i].refcount = objs[i].refcount
              /\ objects'[i].pincount = objs[i].pincount
              /\ objs[i].version <= objects'[i].version
              /\ i \notin E => objects'[i] = objs[i]
              /\ i \in E => ~objects'[i].dirty
  BY <1>1, <1>3, <1>4
<1>12. \A i \in Ids, v \in Nat :
         <<i, v>> \in DOMAIN files => <<i, v>> \in DOMAIN files'
  BY <1>5
<1> QED
  BY <1>1, <1>6, <1>8, <1>9, <1>10, <1>11, <1>12

\* What an action that ends in an eviction from objs does to objects and files.
KeepsNodes(objs) ==
  /\ CacheOk(objects, lru_pqueue)' /\ FilesTyped'
  /\ DOMAIN objects' = DOMAIN objs
  /\ \A i \in DOMAIN objs :
       /\ NodeOf(i)' = NodeIn(objs, i)
       /\ objects'[i].refcount = objs[i].refcount
       /\ objects'[i].pincount = objs[i].pincount
       /\ objs[i].version <= objects'[i].version
       /\ objs[i].pincount # 0 => objects'[i] = objs[i]

KeepsFiles(objs) ==
  \A i \in Ids, v \in Nat :
    <<i, v>> \in DOMAIN files =>
      /\ <<i, v>> \in DOMAIN files'
      /\ (i \in DOMAIN objs => v <= objs[i].version) => Stored(i, v)' = Stored(i, v)

\* The counter wraps around within its range.
LEMMA CounterInRange ==
  ASSUME NEW objs, NEW lru, NEW current \in Nat, NEW E \in SUBSET Ids,
         WriteOut(E, objs, lru, current)
  PROVE  current_in_memory_objects' \in 0..CounterModulus - 1
<1>1. Cardinality(E) \in Nat
  BY IdsFinite
<1>2. current + Cardinality(E) * (CounterModulus - 1) \in Nat
  <2>1. CounterModulus - 1 \in Nat
    BY CacheAssumption
  <2>2. \A a, b \in Nat : a * b \in Nat
    OBVIOUS
  <2> QED
    BY <1>1, <2>1, <2>2
<1> QED
  BY <1>2, ModRange DEF WriteOut

LEMMA EvictionKeeps ==
  ASSUME NEW objs, NEW lru, NEW current \in Nat,
         CacheOk(objs, lru), FilesTyped, MaybeEvictSomething(objs, lru, current)
  PROVE  /\ KeepsNodes(objs) /\ KeepsFiles(objs)
         /\ current_in_memory_objects' \in 0..CounterModulus - 1
<1>1. PICK E \in SUBSET lru : EvictionSet(E, objs, lru, current)
                              /\ WriteOut(E, objs, lru, current)
  BY DEF MaybeEvictSomething
<1>2. \A i \in E : objs[i].pincount = 0
  BY <1>1 DEF EvictionSet
<1>3. KeepsNodes(objs)
  BY <1>1, <1>2, WriteOutKeeps DEF KeepsNodes
<1>4. KeepsFiles(objs)
  BY <1>1, WriteOutKeeps DEF KeepsFiles
<1>5. E \subseteq Ids
  BY DEF CacheOk
<1>6. current_in_memory_objects' \in 0..CounterModulus - 1
  BY <1>1, <1>5, CounterInRange
<1> QED
  BY <1>3, <1>4, <1>6

-----------------------------------------------------------------------------
(* What a step that leaves part of the state alone preserves.              *)

\* The same pointers, the same counts.
LEMMA PointersKept ==
  ASSUME PointerInv, DOMAIN objects' = DOMAIN objects,
         \A i \in DOMAIN objects : /\ NodeOf(i)'.kids = NodeOf(i).kids
                                   /\ objects'[i].refcount = objects[i].refcount,
         UNCHANGED <<root, handles, dropping>>
  PROVE  PointerInv' /\ \A i : Parents(i)' = Parents(i)
<1>1. \A i : Parents(i)' = Parents(i)
  BY DEF Parents
<1>2. RefCountsExact'
  BY <1>1 DEF PointerInv, RefCountsExact
<1>3. NoDanglingPointer'
  BY DEF PointerInv, NoDanglingPointer
<1> QED
  BY <1>1, <1>2, <1>3 DEF PointerInv

\* The same map, and the files it names.
LEMMA SavedKept ==
  ASSUME SavedInv, version_map' = version_map,
         \A i \in DOMAIN version_map.versions :
           /\ <<i, version_map.versions[i]>> \in DOMAIN files'
           /\ Stored(i, version_map.versions[i])' = Stored(i, version_map.versions[i])
           /\ step' # "down" => i <= next_id'
           /\ i \in DOMAIN objects' => version_map.versions[i] <= objects'[i].version
  PROVE  SavedInv' /\ SavedHeap' = SavedHeap
<1>1. SavedHeap' = SavedHeap
  BY DEF SavedHeap
<1>2. \A i : SavedParents(i)' = SavedParents(i)
  BY <1>1 DEF SavedParents
<1> QED
  BY <1>1, <1>2 DEF SavedInv

\* In particular a step that evicts and makes at most one new object.
LEMMA SavedKeptByEviction ==
  ASSUME SavedInv, version_map' = version_map, step # "down", next_id \in Nat,
         next_id' \in Nat, next_id <= next_id',
         NEW objs, KeepsNodes(objs), KeepsFiles(objs),
         \A i \in DOMAIN objs : /\ i <= next_id => i \in DOMAIN objects
                                /\ i \in DOMAIN objects =>
                                     objs[i].version = objects[i].version,
         \A i \in DOMAIN objs : objs[i].version \in Nat /\ objects'[i].version \in Nat
  PROVE  SavedInv' /\ SavedHeap' = SavedHeap
<1>1. ASSUME NEW i \in DOMAIN version_map.versions
      PROVE  /\ <<i, version_map.versions[i]>> \in DOMAIN files'
             /\ Stored(i, version_map.versions[i])' = Stored(i, version_map.versions[i])
             /\ step' # "down" => i <= next_id'
             /\ i \in DOMAIN objects' => version_map.versions[i] <= objects'[i].version
  <2>1. /\ i \in Ids /\ version_map.versions[i] \in Nat /\ i <= next_id
        /\ <<i, version_map.versions[i]>> \in DOMAIN files
        /\ i \in DOMAIN objects => version_map.versions[i] <= objects[i].version
    BY DEF SavedInv
  <2>2. i \in DOMAIN objs => version_map.versions[i] <= objs[i].version
    BY <2>1
  <2>3. i \in DOMAIN objs => version_map.versions[i] <= objects'[i].version
    BY <2>1, <2>2 DEF KeepsNodes
  <2>4. i <= next_id'
    BY <2>1 DEF Ids
  <2> QED
    BY <2>1, <2>2, <2>3, <2>4 DEF KeepsFiles, KeepsNodes
<1> QED
  BY <1>1, SavedKept

-----------------------------------------------------------------------------
(* Pins.                                                                   *)

PinType == [id : Ids, writable : BOOLEAN]
PinsOf(i) == {n \in DOMAIN pins : pins[n].id = i}

LEMMA PinsOfFinite ==
  ASSUME pins \in Seq(PinType), NEW i
  PROVE  IsFiniteSet(PinsOf(i)) /\ Cardinality(PinsOf(i)) \in Nat
<1>1. DOMAIN pins = 1..Len(pins) /\ Len(pins) \in Nat
  BY LenProperties
<1>2. IsFiniteSet(DOMAIN pins)
  BY <1>1, FS_Interval
<1> QED
  BY <1>2, FS_Subset, FS_CardinalityType DEF PinsOf

\* Who is pinned has a pin count above 0.
LEMMA PinnedIsCounted ==
  ASSUME pins \in Seq(PinType), PinInv, NEW n \in DOMAIN pins
  PROVE  /\ pins[n].id \in DOMAIN objects /\ pins[n].id \in Ids
         /\ objects[pins[n].id].pincount \in Nat \ {0}
         /\ NodeOf(pins[n].id) = objects[pins[n].id].target
         /\ objects[pins[n].id].target # NULL
<1> DEFINE i == pins[n].id
<1>1. i \in DOMAIN objects /\ objects[i].target # NULL
  BY DEF PinInv, Resident
<1>2. objects[i].pincount = Cardinality(PinsOf(i))
  BY <1>1 DEF PinInv, PinsOf
<1>3. n \in PinsOf(i)
  BY DEF PinsOf
<1>4. Cardinality(PinsOf(i)) # 0
  BY <1>3, PinsOfFinite, FS_EmptySet
<1>5. pins[n] \in PinType
  BY ElementOfSeq, LenProperties
<1>6. i \in Ids
  BY <1>5 DEF PinType
<1> QED
  BY <1>1, <1>2, <1>4, <1>6, PinsOfFinite DEF NodeOf

LEMMA PushPin ==
  ASSUME pins \in Seq(PinType), NEW p \in PinType, pins' = Append(pins, p)
  PROVE  /\ pins' \in Seq(PinType)
         /\ DOMAIN pins' = DOMAIN pins \cup {Len(pins) + 1}
         /\ Len(pins) \in Nat /\ DOMAIN pins = 1..Len(pins)
         /\ \A n \in DOMAIN pins : pins'[n] = pins[n]
         /\ pins'[Len(pins) + 1] = p
         /\ \A i : Cardinality(PinsOf(i)')
                     = Cardinality(PinsOf(i)) + (IF i = p.id THEN 1 ELSE 0)
<1>1. /\ pins' \in Seq(PinType)
      /\ DOMAIN pins' = DOMAIN pins \cup {Len(pins) + 1}
      /\ Len(pins) \in Nat /\ DOMAIN pins = 1..Len(pins)
      /\ \A n \in DOMAIN pins : pins'[n] = pins[n]
      /\ pins'[Len(pins) + 1] = p
  BY AppendProperties, LenProperties
<1>2. ASSUME NEW i
      PROVE  Cardinality(PinsOf(i)')
               = Cardinality(PinsOf(i)) + (IF i = p.id THEN 1 ELSE 0)
  <2>1. Len(pins) + 1 \notin PinsOf(i)
    BY <1>1 DEF PinsOf
  <2>2. CASE i = p.id
    <3>1. PinsOf(i)' = PinsOf(i) \cup {Len(pins) + 1}
      BY <1>1, <2>2 DEF PinsOf
    <3> QED
      BY <2>1, <2>2, <3>1, PinsOfFinite, FS_AddElement
  <2>3. CASE i # p.id
    <3>1. PinsOf(i)' = PinsOf(i)
      BY <1>1, <2>3 DEF PinsOf
    <3> QED
      BY <2>3, <3>1, PinsOfFinite
  <2> QED
    BY <2>2, <2>3
<1> QED
  BY <1>1, <1>2

LEMMA PopPin ==
  ASSUME pins \in Seq(PinType), pins # << >>, pins' = SubSeq(pins, 1, Len(pins) - 1)
  PROVE  /\ pins' \in Seq(PinType)
         /\ Len(pins) \in DOMAIN pins /\ Len(pins) \in Nat /\ DOMAIN pins = 1..Len(pins)
         /\ DOMAIN pins' = DOMAIN pins \ {Len(pins)}
         /\ \A n \in DOMAIN pins' : pins'[n] = pins[n]
         /\ \A i : Cardinality(PinsOf(i)')
                     = Cardinality(PinsOf(i)) - (IF i = pins[Len(pins)].id THEN 1 ELSE 0)
<1>1. Len(pins) \in Nat \ {0} /\ DOMAIN pins = 1..Len(pins)
  BY LenProperties, EmptySeq
<1>2. /\ pins' \in Seq(PinType) /\ Len(pins') = Len(pins) - 1
      /\ \A n \in 1..(Len(pins) - 1) : pins'[n] = pins[n]
  BY <1>1, SubSeqProperties
<1>3. DOMAIN pins' = DOMAIN pins \ {Len(pins)}
  <2>1. DOMAIN pins' = 1..(Len(pins) - 1)
    BY <1>2, LenProperties
  <2> QED
    BY <1>1, <2>1
<1>4. \A n \in DOMAIN pins' : pins'[n] = pins[n]
  BY <1>1, <1>2, <1>3
<1>5. ASSUME NEW i
      PROVE  Cardinality(PinsOf(i)')
               = Cardinality(PinsOf(i)) - (IF i = pins[Len(pins)].id THEN 1 ELSE 0)
  <2>1. CASE i = pins[Len(pins)].id
    <3>1. PinsOf(i)' = PinsOf(i) \ {Len(pins)} /\ Len(pins) \in PinsOf(i)
      BY <1>1, <1>3, <1>4, <2>1 DEF PinsOf
    <3> QED
      BY <2>1, <3>1, PinsOfFinite, FS_RemoveElement
  <2>2. CASE i # pins[Len(pins)].id
    <3>1. PinsOf(i)' = PinsOf(i)
      BY <1>1, <1>3, <1>4, <2>2 DEF PinsOf
    <3> QED
      BY <2>2, <3>1, PinsOfFinite
  <2> QED
    BY <2>1, <2>2
<1> QED
  BY <1>1, <1>2, <1>3, <1>4, <1>5

-----------------------------------------------------------------------------
(* Dereferencing and unpinning.                                            *)

\* What the invariant says, in the form the proofs use.
LEMMA Facts ==
  ASSUME SwapInvariant
  PROVE  /\ FilesTyped /\ CacheOk(objects, lru_pqueue)
         /\ \A i \in DOMAIN objects :
              /\ NodeOf(i) = NodeIn(objects, i) /\ NodeOf(i) \in Node
              /\ objects[i] \in Object /\ i \in Ids
         /\ pins \in Seq(PinType)
         /\ next_id \in Nat \ {0} /\ next_access_time \in Nat
         /\ current_in_memory_objects \in Nat
         /\ \A i \in Ids : handles[i] \in Nat /\ dropping[i] \in Nat
<1>1. FilesTyped /\ CacheOk(objects, lru_pqueue)
  BY DEF SwapInvariant, SwapTypeOk, FilesTyped
<1>2. ASSUME NEW i \in DOMAIN objects
      PROVE  /\ NodeOf(i) = NodeIn(objects, i) /\ NodeOf(i) \in Node
             /\ objects[i] \in Object /\ i \in Ids
  <2>1. NodeOf(i) = NodeIn(objects, i)
    BY DEF NodeOf, NodeIn
  <2>2. NodeIn(objects, i) \in Node
    BY <1>1, NodeInTyped DEF FilesTyped
  <2>3. objects[i] \in Object /\ i \in Ids
    BY <1>1 DEF CacheOk
  <2> QED
    BY <2>1, <2>2, <2>3
<1>3. pins \in Seq(PinType)
  BY DEF SwapInvariant, SwapTypeOk, PinType
<1>4. /\ next_id \in Nat \ {0} /\ next_access_time \in Nat
      /\ current_in_memory_objects \in Nat
      /\ \A i \in Ids : handles[i] \in Nat /\ dropping[i] \in Nat
  BY CacheAssumption DEF SwapInvariant, SwapTypeOk
<1> QED
  BY <1>1, <1>2, <1>3, <1>4

\* What a step does to the nodes: nothing; or it writes the one on top of the pins.
NodesKept == /\ DOMAIN objects' = DOMAIN objects
             /\ \A i \in DOMAIN objects : NodeOf(i)' = NodeOf(i)
HeapKept  == NodesKept /\ SavedHeap' = SavedHeap
TopWritten == /\ Top \in DOMAIN objects /\ DOMAIN objects' = DOMAIN objects
              /\ \E n \in Node : \A i \in DOMAIN objects :
                   NodeOf(i)' = IF i = Top THEN n ELSE NodeOf(i)
              /\ SavedHeap' = SavedHeap

\* A step that only pins or unpins and evicts.
LEMMA PinStep ==
  ASSUME SwapInvariant, Ready,
         NEW objs, NEW lru, NEW current \in Nat,
         CacheOk(objs, lru), MaybeEvictSomething(objs, lru, current),
         DOMAIN objs = DOMAIN objects,
         \A i \in DOMAIN objects : /\ NodeIn(objs, i) = NodeOf(i)
                                   /\ objs[i].refcount = objects[i].refcount
                                   /\ objs[i].version = objects[i].version,
         UNCHANGED <<next_id, root_id, root, handles, dropping, step, version_map, crashes>>,
         next_access_time' \in Nat,
         pins' \in Seq(PinType),
         \A n \in DOMAIN pins' :
           /\ pins'[n].id \in DOMAIN objs
           /\ objs[pins'[n].id].target # NULL
           /\ objs[pins'[n].id].pincount # 0
           /\ pins'[n].writable => objs[pins'[n].id].dirty
           /\ \/ root = pins'[n].id
              \/ handles[pins'[n].id] > 0
              \/ /\ n > 1 /\ pins'[n - 1].id \in DOMAIN objects
                 /\ pins'[n].id \in NodeOf(pins'[n - 1].id).kids,
         \A i \in DOMAIN objs : objs[i].pincount = Cardinality(PinsOf(i)')
  PROVE  SwapInvariant' /\ HeapKept
<1>1. /\ KeepsNodes(objs) /\ KeepsFiles(objs)
      /\ current_in_memory_objects' \in 0..CounterModulus - 1
  BY Facts, EvictionKeeps
<1>2. CacheOk(objects, lru_pqueue)' /\ FilesTyped'
  BY <1>1 DEF KeepsNodes
<1>3. /\ DOMAIN objects' = DOMAIN objects
      /\ \A i \in DOMAIN objects : /\ NodeOf(i)' = NodeOf(i)
                                   /\ objects'[i].refcount = objects[i].refcount
                                   /\ objects'[i].pincount = objs[i].pincount
                                   /\ objs[i].pincount # 0 => objects'[i] = objs[i]
  BY <1>1 DEF KeepsNodes
<1>4. PointerInv'
  BY <1>3, PointersKept DEF SwapInvariant
<1>5. SwapTypeOk'
  BY <1>1, <1>2 DEF SwapInvariant, SwapTypeOk, CacheOk, FilesTyped, PinType
<1>6. PinInv'
  <2>1. ASSUME NEW n \in DOMAIN pins'
        PROVE  /\ pins'[n].id \in Resident'
               /\ pins'[n].writable => objects'[pins'[n].id].dirty
               /\ \/ root' = pins'[n].id
                  \/ handles'[pins'[n].id] > 0
                  \/ n > 1 /\ pins'[n].id \in NodeOf(pins[n - 1].id)'.kids
    <3>1. objects'[pins'[n].id] = objs[pins'[n].id]
      BY <1>3
    <3>2. pins'[n - 1].id \in DOMAIN objects
            => NodeOf(pins[n - 1].id)' = NodeOf(pins'[n - 1].id)
      BY <1>3 DEF NodeOf, Stored
    <3> QED
      BY <1>3, <3>1, <3>2 DEF Resident
  <2>2. \A i \in DOMAIN objects' : objects'[i].pincount = Cardinality(PinsOf(i)')
    BY <1>3
  <2> QED
    BY <2>1, <2>2 DEF PinInv, PinsOf
<1>7. StepInv'
  BY <1>3 DEF SwapInvariant, StepInv, Ready
<1>8. SavedInv' /\ SavedHeap' = SavedHeap
  <2>1. \A i \in DOMAIN objs : objs[i].version \in Nat /\ objects'[i].version \in Nat
    BY <1>2, <1>3, ObjectFields DEF CacheOk
  <2> QED
    BY <1>1, <2>1, Facts, SavedKeptByEviction DEF SwapInvariant, Ready
<1> QED
  BY <1>2, <1>3, <1>4, <1>5, <1>6, <1>7, <1>8 DEF SwapInvariant, HeapKept, NodesKept

\* Objects that differ only in counts, access times and what is loaded or flagged
\* dirty agree with the files as before.
LEMMA CacheKept ==
  ASSUME CacheOk(objects, lru_pqueue),
         NEW objs, NEW lru, DOMAIN objs = DOMAIN objects,
         lru = {i \in DOMAIN objs : objs[i].target # NULL},
         \A i \in DOMAIN objects :
           /\ objs[i] \in Object
           /\ NodeIn(objs, i) = NodeIn(objects, i)
           /\ objs[i].version = objects[i].version
           /\ objs[i].is_leaf = objects[i].is_leaf
           /\ objs[i].target = NULL => objects[i].target = NULL
           /\ objs[i].dirty => objs[i].target # NULL
           /\ objects[i].dirty => objs[i].dirty
  PROVE  CacheOk(objs, lru)
<1> HIDE DEF NodeIn
<1> QED
  BY DEF CacheOk

\* What the client can follow is live and has a pointer that stays.
LEMMA FollowableIsLive ==
  ASSUME SwapInvariant, NEW i \in Followable
  PROVE  /\ i \in DOMAIN objects /\ i \in Ids
         /\ \/ root = i
            \/ handles[i] > 0
            \/ /\ pins # << >> /\ Len(pins) \in DOMAIN pins /\ Top \in DOMAIN objects
               /\ i \in NodeOf(Top).kids
<1>1. CASE i \in Ids /\ (root = i \/ handles[i] > 0)
  <2>1. handles[i] > 0 => handles[i] + dropping[i] > 0
    BY <1>1, Facts
  <2> QED
    BY <1>1, <2>1 DEF SwapInvariant, PointerInv, NoDanglingPointer
<1>2. CASE pins # << >> /\ i \in objects[Top].target.kids
  <2>1. pins \in Seq(PinType) /\ Len(pins) \in DOMAIN pins
    BY <1>2, Facts, LenProperties, EmptySeq
  <2>2. Top \in DOMAIN objects /\ NodeOf(Top) = objects[Top].target
    BY <2>1, PinnedIsCounted DEF Top, SwapInvariant
  <2>3. i \in DOMAIN objects
    BY <1>2, <2>2 DEF SwapInvariant, PointerInv, NoDanglingPointer
  <2> QED
    BY <1>2, <2>1, <2>2, <2>3, Facts
<1> QED
  BY <1>1, <1>2 DEF Followable

LEMMA DereferenceStep ==
  ASSUME SwapInvariant, NEW i \in Ids, NEW writable \in BOOLEAN, Dereference(i, writable)
  PROVE  SwapInvariant' /\ HeapKept
<1> DEFINE o == objects[i]
           t == IF o.target = NULL THEN Stored(i, o.version) ELSE o.target
           p == [o EXCEPT !.pincount = @ + 1, !.last_access = next_access_time,
                          !.dirty = @ \/ writable, !.target = t]
           objs == [objects EXCEPT ![i] = p]
           lru == lru_pqueue \cup {i}
           current == IF o.target = NULL
                      THEN (current_in_memory_objects + 1) % CounterModulus
                      ELSE current_in_memory_objects
           pin == [id |-> i, writable |-> writable]
<1>1. /\ i \in DOMAIN objects
      /\ \/ root = i
         \/ handles[i] > 0
         \/ /\ pins # << >> /\ Len(pins) \in DOMAIN pins /\ Top \in DOMAIN objects
            /\ i \in NodeOf(Top).kids
  BY FollowableIsLive DEF Dereference
<1>2. t = NodeOf(i) /\ t \in Node /\ o \in Object
  BY <1>1, Facts DEF NodeOf
<1>3. MaybeEvictSomething(objs, lru, current)
  BY <1>1 DEF Dereference
<1>4. /\ p \in Object /\ p.target = t /\ p.version = o.version /\ p.is_leaf = o.is_leaf
      /\ p.refcount = o.refcount /\ p.pincount = o.pincount + 1
      /\ p.dirty <=> o.dirty \/ writable
  <2>1. next_access_time \in Nat
    BY Facts
  <2> DEFINE c == o.pincount + 1
             d == o.dirty \/ writable
  <2>2. c \in Nat /\ d \in BOOLEAN
    BY <1>2, ObjectFields
  <2>3. p = [o EXCEPT !.pincount = c, !.last_access = next_access_time,
                      !.dirty = d, !.target = t]
    OBVIOUS
  <2> HIDE DEF t, o, p, c, d
  <2>4. /\ p \in Object /\ p.target = t /\ p.dirty = d /\ p.pincount = c
        /\ p.version = o.version /\ p.is_leaf = o.is_leaf /\ p.refcount = o.refcount
    BY <1>2, <2>1, <2>2, <2>3 DEF Object
  <2> QED
    BY <2>4 DEF c, d
<1>5. /\ pins' = Append(pins, pin) /\ next_access_time' \in Nat
      /\ UNCHANGED <<next_id, root_id, root, handles, dropping, step, version_map, crashes>>
      /\ Ready
  BY Facts DEF Dereference
<1>6. pin \in PinType /\ pin.id = i /\ pin.writable = writable
  BY DEF PinType
<1>7. DOMAIN objs = DOMAIN objects /\ objs[i] = p
      /\ \A j \in DOMAIN objects : j # i => objs[j] = objects[j]
  BY <1>1
<1>8. current \in Nat
  <2>1. current_in_memory_objects + 1 \in Nat /\ current_in_memory_objects \in Nat
    BY Facts
  <2> QED
    BY <2>1, ModRange, CacheAssumption
<1> HIDE DEF o, t, p, objs, lru, current, pin
<1>9. t # NULL
  BY <1>2, NodeFields
<1>10. \A j \in DOMAIN objects : /\ NodeIn(objs, j) = NodeOf(j)
                                 /\ objs[j].refcount = objects[j].refcount
                                 /\ objs[j].version = objects[j].version
  BY <1>2, <1>4, <1>7, <1>9 DEF NodeIn, NodeOf, o
<1>11. CacheOk(objs, lru)
  <2>1. lru = {j \in DOMAIN objs : objs[j].target # NULL}
    BY <1>1, <1>4, <1>7, <1>9, Facts DEF lru, CacheOk
  <2>2. \A j \in DOMAIN objects :
          /\ objs[j] \in Object
          /\ NodeIn(objs, j) = NodeIn(objects, j)
          /\ objs[j].version = objects[j].version
          /\ objs[j].is_leaf = objects[j].is_leaf
          /\ objs[j].target = NULL => objects[j].target = NULL
          /\ objs[j].dirty => objs[j].target # NULL
          /\ objects[j].dirty => objs[j].dirty
    BY <1>4, <1>7, <1>9, <1>10, Facts DEF o, CacheOk
  <2> QED
    BY <1>7, <2>1, <2>2, Facts, CacheKept
<1>12. /\ pins' \in Seq(PinType)
       /\ DOMAIN pins' = DOMAIN pins \cup {Len(pins) + 1}
       /\ Len(pins) \in Nat /\ DOMAIN pins = 1..Len(pins)
       /\ \A n \in DOMAIN pins : pins'[n] = pins[n]
       /\ pins'[Len(pins) + 1] = pin
       /\ \A j : Cardinality(PinsOf(j)')
                   = Cardinality(PinsOf(j)) + (IF j = i THEN 1 ELSE 0)
  BY <1>5, <1>6, Facts, PushPin
<1>13. \A j \in DOMAIN objs : objs[j].pincount = Cardinality(PinsOf(j)')
  <2>1. \A j \in DOMAIN objects : objects[j].pincount = Cardinality(PinsOf(j))
    BY DEF SwapInvariant, PinInv, PinsOf
  <2>2. \A j \in DOMAIN objects : objects[j].pincount \in Nat
    BY Facts, ObjectFields
  <2> QED
    BY <1>4, <1>7, <1>12, <2>1, <2>2 DEF o
<1>14. ASSUME NEW n \in DOMAIN pins
       PROVE  /\ pins[n].id \in DOMAIN objs
              /\ objs[pins[n].id].target # NULL
              /\ objs[pins[n].id].pincount # 0
              /\ pins[n].writable => objs[pins[n].id].dirty
              /\ \/ root = pins[n].id
                 \/ handles[pins[n].id] > 0
                 \/ /\ n > 1 /\ n - 1 \in DOMAIN pins /\ pins[n - 1].id \in DOMAIN objects
                    /\ pins[n].id \in NodeOf(pins[n - 1].id).kids
  <2>1. /\ pins[n].id \in DOMAIN objects
        /\ objects[pins[n].id].pincount \in Nat \ {0}
        /\ objects[pins[n].id].target # NULL
    BY Facts, PinnedIsCounted DEF SwapInvariant
  <2>2. /\ pins[n].writable => objects[pins[n].id].dirty
        /\ \/ root = pins[n].id
           \/ handles[pins[n].id] > 0
           \/ n > 1 /\ pins[n].id \in NodeOf(pins[n - 1].id).kids
    BY DEF SwapInvariant, PinInv
  <2>3. n > 1 => n - 1 \in DOMAIN pins
    BY <1>12
  <2>4. n > 1 => pins[n - 1].id \in DOMAIN objects
    BY <2>3, Facts, PinnedIsCounted DEF SwapInvariant
  <2> QED
    BY <1>4, <1>7, <1>9, <2>1, <2>2, <2>3, <2>4 DEF o
<1>15. ASSUME NEW n \in DOMAIN pins'
       PROVE  /\ pins'[n].id \in DOMAIN objs
              /\ objs[pins'[n].id].target # NULL
              /\ objs[pins'[n].id].pincount # 0
              /\ pins'[n].writable => objs[pins'[n].id].dirty
              /\ \/ root = pins'[n].id
                 \/ handles[pins'[n].id] > 0
                 \/ /\ n > 1 /\ pins'[n - 1].id \in DOMAIN objects
                    /\ pins'[n].id \in NodeOf(pins'[n - 1].id).kids
  <2>1. CASE n \in DOMAIN pins
    BY <1>12, <1>14, <2>1
  <2>2. CASE n = Len(pins) + 1
    <3>1. pins'[n].id = i /\ pins'[n].writable = writable
      BY <1>6, <1>12, <2>2
    <3>2. o.pincount \in Nat
      BY <1>2, ObjectFields
    <3>3. Len(pins) \in DOMAIN pins
            => n > 1 /\ n - 1 = Len(pins) /\ pins'[n - 1] = pins[Len(pins)]
      BY <1>12, <2>2
    <3> QED
      BY <1>1, <1>4, <1>7, <1>9, <3>1, <3>2, <3>3 DEF Top
  <2> QED
    BY <1>12, <2>1, <2>2
<1> QED
  BY <1>3, <1>5, <1>7, <1>8, <1>10, <1>11, <1>12, <1>13, <1>15, PinStep

LEMMA UnpinStep ==
  ASSUME SwapInvariant, Unpin
  PROVE  SwapInvariant' /\ HeapKept
<1> DEFINE c == objects[Top].pincount - 1
           objs == [objects EXCEPT ![Top].pincount = c]
<1>1. /\ Ready /\ pins # << >> /\ pins' = SubSeq(pins, 1, Len(pins) - 1)
      /\ UNCHANGED <<next_id, next_access_time, root_id, root, handles, dropping, step,
                     version_map, crashes>>
      /\ MaybeEvictSomething(objs, lru_pqueue, current_in_memory_objects)
  BY DEF Unpin
<1>2. /\ pins' \in Seq(PinType)
      /\ Len(pins) \in DOMAIN pins /\ Len(pins) \in Nat /\ DOMAIN pins = 1..Len(pins)
      /\ DOMAIN pins' = DOMAIN pins \ {Len(pins)}
      /\ \A n \in DOMAIN pins' : pins'[n] = pins[n]
      /\ \A i : Cardinality(PinsOf(i)')
                  = Cardinality(PinsOf(i)) - (IF i = Top THEN 1 ELSE 0)
  BY <1>1, Facts, PopPin DEF Top
<1>3. \A n \in DOMAIN pins :
        /\ pins[n].id \in DOMAIN objects /\ objects[pins[n].id].target # NULL
        /\ objects[pins[n].id].pincount \in Nat \ {0}
  BY Facts, PinnedIsCounted DEF SwapInvariant
<1>4. Top \in DOMAIN objects /\ c \in Nat
  BY <1>2, <1>3 DEF Top
<1>5. DOMAIN objs = DOMAIN objects /\ objs[Top] = [objects[Top] EXCEPT !.pincount = c]
      /\ \A i \in DOMAIN objects : i # Top => objs[i] = objects[i]
  BY <1>4
<1>6. \A i \in DOMAIN objects : objects[i] \in Object
  BY Facts
<1> HIDE DEF objs
<1>7. /\ objs[Top] \in Object /\ objs[Top].pincount = c
      /\ objs[Top].target = objects[Top].target
      /\ objs[Top].version = objects[Top].version
      /\ objs[Top].is_leaf = objects[Top].is_leaf
      /\ objs[Top].refcount = objects[Top].refcount
      /\ objs[Top].dirty = objects[Top].dirty
  <2> HIDE DEF c
  <2> QED
    BY <1>4, <1>5, <1>6 DEF Object
<1>8. \A i \in DOMAIN objects : /\ objs[i] \in Object
                                /\ objs[i].target = objects[i].target
                                /\ objs[i].version = objects[i].version
                                /\ objs[i].is_leaf = objects[i].is_leaf
                                /\ objs[i].refcount = objects[i].refcount
                                /\ objs[i].dirty = objects[i].dirty
  BY <1>5, <1>6, <1>7
<1>9. \A i \in DOMAIN objects : NodeIn(objs, i) = NodeIn(objects, i)
  BY <1>8 DEF NodeIn
<1>10. CacheOk(objs, lru_pqueue)
  <2>1. lru_pqueue = {i \in DOMAIN objs : objs[i].target # NULL}
    BY <1>5, <1>8, Facts DEF CacheOk
  <2>2. \A i \in DOMAIN objects :
          /\ objs[i] \in Object
          /\ NodeIn(objs, i) = NodeIn(objects, i)
          /\ objs[i].version = objects[i].version
          /\ objs[i].is_leaf = objects[i].is_leaf
          /\ objs[i].target = NULL => objects[i].target = NULL
          /\ objs[i].dirty => objs[i].target # NULL
          /\ objects[i].dirty => objs[i].dirty
    BY <1>8, <1>9, Facts DEF CacheOk
  <2>3. CacheOk(objects, lru_pqueue) /\ DOMAIN objs = DOMAIN objects
    BY <1>5, Facts
  <2> QED
    BY <2>1, <2>2, <2>3, CacheKept
<1>11. \A i \in DOMAIN objs : objs[i].pincount = Cardinality(PinsOf(i)')
  <2>1. \A i \in DOMAIN objects : objects[i].pincount = Cardinality(PinsOf(i))
    BY DEF SwapInvariant, PinInv, PinsOf
  <2>2. \A i \in DOMAIN objects : objects[i].pincount \in Nat
    BY <1>6, ObjectFields
  <2>3. ASSUME NEW i \in DOMAIN objs
        PROVE  objs[i].pincount = Cardinality(PinsOf(i)')
    <3>1. Cardinality(PinsOf(i)')
            = objects[i].pincount - (IF i = Top THEN 1 ELSE 0)
      BY <1>2, <1>5, <2>1
    <3>2. CASE i = Top
      BY <1>7, <3>1, <3>2
    <3>3. CASE i # Top
      BY <1>5, <2>2, <3>1, <3>3
    <3> QED
      BY <3>2, <3>3
  <2> QED
    BY <2>3
<1>12. ASSUME NEW n \in DOMAIN pins'
       PROVE  /\ pins'[n].id \in DOMAIN objs
              /\ objs[pins'[n].id].target # NULL
              /\ objs[pins'[n].id].pincount # 0
              /\ pins'[n].writable => objs[pins'[n].id].dirty
              /\ \/ root = pins'[n].id
                 \/ handles[pins'[n].id] > 0
                 \/ /\ n > 1 /\ pins'[n - 1].id \in DOMAIN objects
                    /\ pins'[n].id \in NodeOf(pins'[n - 1].id).kids
  <2>1. n \in DOMAIN pins /\ pins'[n] = pins[n] /\ pins[n].id \in DOMAIN objects
    BY <1>2, <1>3
  <2>2. /\ pins[n].writable => objects[pins[n].id].dirty
        /\ \/ root = pins[n].id
           \/ handles[pins[n].id] > 0
           \/ n > 1 /\ pins[n].id \in NodeOf(pins[n - 1].id).kids
    BY <2>1 DEF SwapInvariant, PinInv
  <2>3. n > 1 => n - 1 \in DOMAIN pins' /\ pins'[n - 1] = pins[n - 1]
                 /\ pins[n - 1].id \in DOMAIN objects
    BY <1>2, <1>3
  <2>4. objs[pins'[n].id].pincount # 0
    <3>1. n \in PinsOf(pins[n].id)'
      BY <2>1 DEF PinsOf
    <3>2. IsFiniteSet(PinsOf(pins[n].id)')
      <4>1. PinsOf(pins[n].id)' \subseteq PinsOf(pins[n].id)
        BY <1>2 DEF PinsOf
      <4> QED
        BY <4>1, Facts, PinsOfFinite, FS_Subset
    <3> QED
      BY <1>5, <1>11, <2>1, <3>1, <3>2, FS_EmptySet
  <2> QED
    BY <1>3, <1>5, <1>8, <2>1, <2>2, <2>3, <2>4
<1>13. current_in_memory_objects \in Nat /\ next_access_time' \in Nat
  BY <1>1, Facts
<1>14. \A i \in DOMAIN objects : NodeIn(objs, i) = NodeOf(i)
  BY <1>9, Facts
<1> QED
  BY <1>1, <1>2, <1>5, <1>8, <1>10, <1>11, <1>12, <1>13, <1>14, PinStep

-----------------------------------------------------------------------------
(* Steps that change nodes and pointers in memory and evict nothing.       *)

\* The node on top of the pins.
LEMMA TopFacts ==
  ASSUME SwapInvariant, pins # << >>
  PROVE  /\ Top \in DOMAIN objects /\ Top \in Ids
         /\ objects[Top].target \in Node /\ NodeOf(Top) = objects[Top].target
         /\ objects[Top].pincount # 0
         /\ TopWritable => objects[Top].dirty
<1>1. Len(pins) \in DOMAIN pins
  BY Facts, LenProperties, EmptySeq
<1>2. /\ Top \in DOMAIN objects /\ Top \in Ids
      /\ NodeOf(Top) = objects[Top].target
      /\ objects[Top].pincount # 0
  BY <1>1, Facts, PinnedIsCounted DEF Top, SwapInvariant
<1>3. TopWritable => objects[Top].dirty
  BY <1>1 DEF TopWritable, Top, SwapInvariant, PinInv
<1> QED
  BY <1>2, <1>3, Facts

\* Such a step keeps the invariant if it keeps the counts, changes dirty nodes only,
\* and takes no pointer away from an object that is pinned.
LEMMA LocalStep ==
  ASSUME SwapInvariant, step = "ready",
         UNCHANGED <<lru_pqueue, current_in_memory_objects, objects_to_versions, next_id,
                     next_access_time, root_id, root, pins, step, diskVars, crashes>>,
         DOMAIN objects' = DOMAIN objects,
         handles' \in [Ids -> Nat], dropping' \in [Ids -> Nat],
         \A i \in DOMAIN objects :
           /\ objects'[i] \in Object
           /\ objects'[i].version = objects[i].version
           /\ objects'[i].is_leaf = objects[i].is_leaf
           /\ objects'[i].dirty = objects[i].dirty
           /\ objects'[i].pincount = objects[i].pincount
           /\ objects'[i].target = NULL <=> objects[i].target = NULL
           /\ ~objects[i].dirty => objects'[i].target = objects[i].target
           /\ objects[i].pincount # 0 =>
                /\ handles[i] > 0 => handles'[i] > 0
                /\ \A j \in DOMAIN objects : i \in NodeOf(j).kids => i \in NodeOf(j)'.kids,
         PointerInv'
  PROVE  SwapInvariant' /\ SavedHeap' = SavedHeap
<1>1. CacheOk(objects, lru_pqueue)'
  <2>1. DOMAIN objects' \subseteq Ids /\ \A i \in DOMAIN objects' : objects'[i] \in Object
    BY Facts DEF CacheOk
  <2>2. lru_pqueue' = {i \in DOMAIN objects' : objects'[i].target # NULL}
    BY Facts DEF CacheOk
  <2>3. DOMAIN objects_to_versions' \subseteq DOMAIN objects'
    BY Facts DEF CacheOk
  <2>4. \A i \in DOMAIN objects' : objects'[i].dirty => objects'[i].target # NULL
    BY Facts DEF CacheOk
  <2>5. \A i \in DOMAIN objects : ~objects[i].dirty =>
          NodeIn(objects, i)' = NodeIn(objects, i)
    BY DEF NodeIn, Stored, diskVars
  <2>6. \A i \in DOMAIN objects' : ~objects'[i].dirty =>
          /\ <<i, objects'[i].version>> \in DOMAIN files'
          /\ NodeIn(objects, i)' = files'[<<i, objects'[i].version>>]
          /\ i \in DOMAIN objects_to_versions'
          /\ objects_to_versions'[i] = objects'[i].version
    BY <2>5, Facts DEF CacheOk, diskVars
  <2>7. \A i \in DOMAIN objects' :
          objects'[i].target = NULL => (objects'[i].is_leaf <=> NodeIn(objects, i)'.kids = {})
    BY <2>5, Facts DEF CacheOk
  <2> HIDE DEF NodeIn
  <2> QED
    BY <2>1, <2>2, <2>3, <2>4, <2>6, <2>7 DEF CacheOk
<1>2. SwapTypeOk'
  <2>1. FilesTyped'
    BY Facts DEF FilesTyped, diskVars
  <2> QED
    BY <1>1, <2>1 DEF SwapInvariant, SwapTypeOk, CacheOk, FilesTyped
<1>3. PinInv'
  <2>1. \A i \in DOMAIN objects' : objects'[i].pincount = Cardinality(PinsOf(i)')
    BY DEF SwapInvariant, PinInv, PinsOf
  <2>2. ASSUME NEW n \in DOMAIN pins
        PROVE  /\ pins[n].id \in Resident'
               /\ pins[n].writable => objects'[pins[n].id].dirty
               /\ \/ root = pins[n].id
                  \/ handles'[pins[n].id] > 0
                  \/ n > 1 /\ pins'[n].id \in NodeOf(pins[n - 1].id)'.kids
    <3>1. /\ pins[n].id \in DOMAIN objects /\ objects[pins[n].id].target # NULL
          /\ objects[pins[n].id].pincount # 0
      BY Facts, PinnedIsCounted DEF SwapInvariant
    <3>2. n > 1 => pins[n - 1].id \in DOMAIN objects
      <4>1. n > 1 => n - 1 \in DOMAIN pins
        BY Facts, LenProperties
      <4> QED
        BY <4>1, Facts, PinnedIsCounted DEF SwapInvariant
    <3>3. n > 1 /\ pins[n].id \in NodeOf(pins[n - 1].id).kids
            => pins[n].id \in NodeOf(pins[n - 1].id)'.kids
      <4>1. PICK j : j = pins[n - 1].id
        OBVIOUS
      <4>2. NodeOf(pins[n - 1].id)' = NodeOf(j)'
        BY <4>1 DEF NodeOf, Stored
      <4> QED
        BY <3>1, <3>2, <4>1, <4>2
    <3>4. /\ pins[n].writable => objects[pins[n].id].dirty
          /\ \/ root = pins[n].id
             \/ handles[pins[n].id] > 0
             \/ n > 1 /\ pins[n].id \in NodeOf(pins[n - 1].id).kids
      BY DEF SwapInvariant, PinInv
    <3> QED
      BY <3>1, <3>3, <3>4 DEF Resident
  <2> QED
    BY <2>1, <2>2 DEF PinInv, PinsOf
<1>4. StepInv'
  BY DEF SwapInvariant, StepInv
<1>5. SavedInv' /\ SavedHeap' = SavedHeap
  <2>1. ASSUME NEW i \in DOMAIN version_map.versions
        PROVE  /\ <<i, version_map.versions[i]>> \in DOMAIN files'
               /\ Stored(i, version_map.versions[i])' = Stored(i, version_map.versions[i])
               /\ step' # "down" => i <= next_id'
               /\ i \in DOMAIN objects' => version_map.versions[i] <= objects'[i].version
    BY DEF SwapInvariant, SavedInv, Stored, diskVars
  <2> QED
    BY <2>1, SavedKept DEF SwapInvariant, diskVars
<1> QED
  BY <1>1, <1>2, <1>3, <1>4, <1>5 DEF SwapInvariant

\* The node on top of the pins becomes n.
LEMMA TopObject ==
  ASSUME SwapInvariant, TopWritable, NEW n \in Node,
         objects' = [objects EXCEPT ![Top].target = n]
  PROVE  /\ DOMAIN objects' = DOMAIN objects
         /\ \A i \in DOMAIN objects :
              /\ objects'[i] \in Object
              /\ objects'[i].version = objects[i].version
              /\ objects'[i].is_leaf = objects[i].is_leaf
              /\ objects'[i].dirty = objects[i].dirty
              /\ objects'[i].pincount = objects[i].pincount
              /\ objects'[i].refcount = objects[i].refcount
              /\ objects'[i].target = NULL <=> objects[i].target = NULL
              /\ i # Top => objects'[i] = objects[i]
              /\ ~objects[i].dirty => objects'[i].target = objects[i].target
         /\ objects'[Top].target = n
<1>1. /\ Top \in DOMAIN objects /\ objects[Top].target # NULL /\ objects[Top].dirty
      /\ \A i \in DOMAIN objects : objects[i] \in Object
  BY TopFacts, Facts, NodeFields DEF TopWritable
<1>2. /\ DOMAIN objects' = DOMAIN objects
      /\ objects'[Top] = [objects[Top] EXCEPT !.target = n]
      /\ \A i \in DOMAIN objects : i # Top => objects'[i] = objects[i]
  BY <1>1
<1>3. /\ objects'[Top] \in Object /\ objects'[Top].target = n
      /\ objects'[Top].version = objects[Top].version
      /\ objects'[Top].is_leaf = objects[Top].is_leaf
      /\ objects'[Top].dirty = objects[Top].dirty
      /\ objects'[Top].pincount = objects[Top].pincount
      /\ objects'[Top].refcount = objects[Top].refcount
  BY <1>1, <1>2 DEF Object
<1>4. n # NULL
  BY NodeFields
<1> QED
  BY <1>1, <1>2, <1>3, <1>4

LEMMA ChangeDataStep ==
  ASSUME SwapInvariant, NEW d \in Data, ChangeData(d)
  PROVE  SwapInvariant' /\ TopWritten
<1> DEFINE n == [objects[Top].target EXCEPT !.data = d]
<1>1. Ready /\ TopWritable /\ objects' = [objects EXCEPT ![Top].target = n]
      /\ UNCHANGED <<lru_pqueue, current_in_memory_objects, objects_to_versions, next_id,
                     next_access_time, root_id, clientVars, diskVars, crashes>>
  BY DEF ChangeData
<1>2. objects[Top].target \in Node /\ NodeOf(Top) = objects[Top].target
  BY <1>1, TopFacts DEF TopWritable
<1>3. n \in Node /\ n.kids = objects[Top].target.kids
  BY <1>2 DEF Node
<1> HIDE DEF n
<1>4. /\ DOMAIN objects' = DOMAIN objects
      /\ \A i \in DOMAIN objects :
           /\ objects'[i] \in Object
           /\ objects'[i].version = objects[i].version
           /\ objects'[i].is_leaf = objects[i].is_leaf
           /\ objects'[i].dirty = objects[i].dirty
           /\ objects'[i].pincount = objects[i].pincount
           /\ objects'[i].refcount = objects[i].refcount
           /\ objects'[i].target = NULL <=> objects[i].target = NULL
           /\ i # Top => objects'[i] = objects[i]
           /\ ~objects[i].dirty => objects'[i].target = objects[i].target
      /\ objects'[Top].target = n
  BY <1>1, <1>3, TopObject
<1>5. /\ \A i \in DOMAIN objects : NodeOf(i)' = IF i = Top THEN n ELSE NodeOf(i)
      /\ \A i \in DOMAIN objects : NodeOf(i)'.kids = NodeOf(i).kids
  BY <1>1, <1>2, <1>3, <1>4, NodeFields DEF NodeOf, Stored, diskVars
<1>6. PointerInv'
  BY <1>1, <1>4, <1>5, PointersKept DEF SwapInvariant, clientVars
<1>7. /\ step = "ready"
      /\ handles' \in [Ids -> Nat] /\ dropping' \in [Ids -> Nat]
      /\ UNCHANGED <<handles, root, pins, step, diskVars>>
  BY <1>1 DEF Ready, SwapInvariant, SwapTypeOk, clientVars
<1>8. SwapInvariant' /\ SavedHeap' = SavedHeap
  BY <1>1, <1>4, <1>5, <1>6, <1>7, LocalStep
<1>9. Top \in DOMAIN objects
  BY <1>1, TopFacts DEF TopWritable
<1> QED
  BY <1>3, <1>4, <1>5, <1>8, <1>9 DEF TopWritten

LEMMA SameNode ==
  ASSUME NEW i, files' = files, objects'[i].target = objects[i].target,
         objects'[i].version = objects[i].version
  PROVE  NodeOf(i)' = NodeOf(i)
BY DEF NodeOf, Stored

LEMMA CountedObject ==
  ASSUME NEW o \in Object, NEW c \in Nat
  PROVE  /\ [o EXCEPT !.refcount = c] \in Object
         /\ [o EXCEPT !.refcount = c].refcount = c
         /\ [o EXCEPT !.refcount = c].target = o.target
         /\ [o EXCEPT !.refcount = c].version = o.version
         /\ [o EXCEPT !.refcount = c].is_leaf = o.is_leaf
         /\ [o EXCEPT !.refcount = c].dirty = o.dirty
         /\ [o EXCEPT !.refcount = c].pincount = o.pincount
BY DEF Object

LEMMA ParentsFinite ==
  ASSUME SwapInvariant, NEW i
  PROVE  IsFiniteSet(Parents(i)) /\ Cardinality(Parents(i)) \in Nat
<1>1. Parents(i) \subseteq Ids
  BY Facts DEF Parents
<1> QED
  BY <1>1, IdsFinite

LEMMA AddKidStep ==
  ASSUME SwapInvariant, NEW k \in Ids, AddKid(k)
  PROVE  SwapInvariant' /\ TopWritten
<1> DEFINE n == [objects[Top].target EXCEPT !.kids = @ \cup {k}]
           c == objects[k].refcount + 1
<1>1. /\ Ready /\ TopWritable /\ handles[k] > 0 /\ k \notin objects[Top].target.kids
      /\ k # Top
      /\ objects' = [objects EXCEPT ![Top].target.kids = @ \cup {k},
                                    ![k].refcount = @ + 1]
      /\ UNCHANGED <<lru_pqueue, current_in_memory_objects, objects_to_versions, next_id,
                     next_access_time, root_id, clientVars, diskVars, crashes>>
  BY DEF AddKid, CannotReach
<1>2. /\ objects[Top].target \in Node /\ NodeOf(Top) = objects[Top].target
      /\ Top \in DOMAIN objects /\ objects[Top].dirty
  BY <1>1, TopFacts DEF TopWritable
<1>3. k \in DOMAIN objects
  BY <1>1, FollowableIsLive DEF Followable
<1>4. n \in Node /\ n.kids = objects[Top].target.kids \cup {k} /\ n # NULL
  BY <1>2, NodeFields DEF Node
<1>5. /\ DOMAIN objects' = DOMAIN objects
      /\ objects'[Top] = [objects[Top] EXCEPT !.target = n]
      /\ objects'[k] = [objects[k] EXCEPT !.refcount = c]
      /\ \A i \in DOMAIN objects : i # Top /\ i # k => objects'[i] = objects[i]
  BY <1>1, <1>2, <1>3
<1>6. \A i \in DOMAIN objects : objects[i] \in Object
  BY Facts
<1>7. c \in Nat
  BY <1>3, <1>6, ObjectFields
<1> HIDE DEF n
<1>8. /\ objects'[Top] \in Object /\ objects'[Top].target = n
      /\ objects'[Top].version = objects[Top].version
      /\ objects'[Top].is_leaf = objects[Top].is_leaf
      /\ objects'[Top].dirty = objects[Top].dirty
      /\ objects'[Top].pincount = objects[Top].pincount
      /\ objects'[Top].refcount = objects[Top].refcount
  <2>1. objects'[Top] = [objects[Top] EXCEPT !.target = n] /\ objects[Top] \in Object
    BY <1>2, <1>5, <1>6
  <2> QED
    BY <1>4, <2>1 DEF Object
<1>9. /\ objects'[k] \in Object /\ objects'[k].refcount = c
      /\ objects'[k].target = objects[k].target
      /\ objects'[k].version = objects[k].version
      /\ objects'[k].is_leaf = objects[k].is_leaf
      /\ objects'[k].dirty = objects[k].dirty
      /\ objects'[k].pincount = objects[k].pincount
  <2> HIDE DEF c
  <2> QED
    BY <1>3, <1>5, <1>6, <1>7, CountedObject
<1>10. \A i \in DOMAIN objects :
         /\ objects'[i] \in Object
         /\ objects'[i].version = objects[i].version
         /\ objects'[i].is_leaf = objects[i].is_leaf
         /\ objects'[i].dirty = objects[i].dirty
         /\ objects'[i].pincount = objects[i].pincount
         /\ i # k => objects'[i].refcount = objects[i].refcount
         /\ i # Top => objects'[i].target = objects[i].target
         /\ objects'[i].target = NULL <=> objects[i].target = NULL
         /\ ~objects[i].dirty => objects'[i].target = objects[i].target
  BY <1>2, <1>4, <1>5, <1>6, <1>8, <1>9, NodeFields
<1>11. files' = files /\ UNCHANGED <<root, handles, pins, dropping, step>>
  BY <1>1 DEF diskVars, clientVars
<1>12. \A i \in DOMAIN objects : i # Top => NodeOf(i)' = NodeOf(i)
  BY <1>10, <1>11, SameNode
<1>13. \A i : i = Top => NodeOf(i)' = n
  BY <1>4, <1>8 DEF NodeOf
<1>14. \A i \in DOMAIN objects :
         NodeOf(i)'.kids = NodeOf(i).kids \cup (IF i = Top THEN {k} ELSE {})
  BY <1>2, <1>4, <1>12, <1>13
<1>15. PointerInv'
  <2>1. \A i : i # k => Parents(i)' = Parents(i)
    BY <1>5, <1>14 DEF Parents
  <2>2. Parents(k)' = Parents(k) \cup {Top}
    BY <1>2, <1>5, <1>14 DEF Parents
  <2>3. Top \notin Parents(k)
    BY <1>1, <1>2 DEF Parents
  <2>4. Cardinality(Parents(k)') = Cardinality(Parents(k)) + 1
    BY <2>2, <2>3, ParentsFinite, FS_AddElement
  <2>5. RefCountsExact'
    <3> SUFFICES ASSUME NEW i \in DOMAIN objects
                 PROVE  objects'[i].refcount
                          = Cardinality(Parents(i)') + handles[i] + dropping[i]
                            + (IF root = i THEN 1 ELSE 0)
      BY <1>5, <1>11 DEF RefCountsExact
    <3>1. /\ objects[i].refcount = Cardinality(Parents(i)) + handles[i] + dropping[i]
                                  + (IF root = i THEN 1 ELSE 0)
          /\ Cardinality(Parents(i)) \in Nat /\ handles[i] \in Nat /\ dropping[i] \in Nat
      BY Facts, ParentsFinite DEF SwapInvariant, PointerInv, RefCountsExact
    <3>2. CASE i = k
      BY <1>9, <2>4, <3>1, <3>2
    <3>3. CASE i # k
      BY <1>10, <2>1, <3>1, <3>3
    <3> QED
      BY <3>2, <3>3
  <2>6. NoDanglingPointer'
    <3>1. \A i \in Ids : handles'[i] + dropping'[i] > 0 \/ root' = i => i \in DOMAIN objects'
      BY <1>5, <1>11 DEF SwapInvariant, PointerInv, NoDanglingPointer
    <3>2. \A i \in DOMAIN objects : NodeOf(i)'.kids \subseteq DOMAIN objects
      BY <1>3, <1>14 DEF SwapInvariant, PointerInv, NoDanglingPointer
    <3> QED
      BY <1>5, <3>1, <3>2 DEF NoDanglingPointer
  <2> QED
    BY <2>5, <2>6 DEF PointerInv
<1>16. /\ step = "ready"
       /\ handles' \in [Ids -> Nat] /\ dropping' \in [Ids -> Nat]
  BY <1>1, <1>11 DEF Ready, SwapInvariant, SwapTypeOk
<1>17. \A i, j \in DOMAIN objects : i \in NodeOf(j).kids => i \in NodeOf(j)'.kids
  BY <1>14
<1>18. SwapInvariant' /\ SavedHeap' = SavedHeap
  BY <1>1, <1>5, <1>10, <1>11, <1>15, <1>16, <1>17, LocalStep
<1> QED
  BY <1>2, <1>4, <1>5, <1>12, <1>13, <1>18 DEF TopWritten

\* Local pointers, pointers being released and the count of one object change.
LEMMA CountStep ==
  ASSUME SwapInvariant, step = "ready",
         UNCHANGED <<lru_pqueue, current_in_memory_objects, objects_to_versions, next_id,
                     next_access_time, root_id, root, pins, step, diskVars, crashes>>,
         NEW k \in DOMAIN objects, NEW c \in Nat,
         DOMAIN objects' = DOMAIN objects,
         objects'[k] = [objects[k] EXCEPT !.refcount = c],
         \A i \in DOMAIN objects : i # k => objects'[i] = objects[i],
         handles' \in [Ids -> Nat], dropping' \in [Ids -> Nat],
         \A i \in Ids : i # k => handles'[i] = handles[i] /\ dropping'[i] = dropping[i],
         c = Cardinality(Parents(k)) + handles'[k] + dropping'[k]
             + (IF root = k THEN 1 ELSE 0),
         objects[k].pincount # 0 /\ handles[k] > 0 => handles'[k] > 0
  PROVE  SwapInvariant' /\ HeapKept
<1>1. \A i \in DOMAIN objects : objects[i] \in Object /\ i \in Ids
  BY Facts
<1>2. /\ objects'[k] \in Object /\ objects'[k].refcount = c
      /\ objects'[k].target = objects[k].target
      /\ objects'[k].version = objects[k].version
      /\ objects'[k].is_leaf = objects[k].is_leaf
      /\ objects'[k].dirty = objects[k].dirty
      /\ objects'[k].pincount = objects[k].pincount
  BY <1>1, CountedObject
<1>3. \A i \in DOMAIN objects :
        /\ objects'[i] \in Object
        /\ objects'[i].version = objects[i].version
        /\ objects'[i].is_leaf = objects[i].is_leaf
        /\ objects'[i].dirty = objects[i].dirty
        /\ objects'[i].pincount = objects[i].pincount
        /\ objects'[i].target = objects[i].target
  BY <1>1, <1>2
<1>4. \A i \in DOMAIN objects : NodeOf(i)' = NodeOf(i)
  BY <1>3, SameNode DEF diskVars
<1>5. \A i : Parents(i)' = Parents(i)
  BY <1>4 DEF Parents
<1>6. RefCountsExact'
  <2> SUFFICES ASSUME NEW i \in DOMAIN objects
               PROVE  objects'[i].refcount
                        = Cardinality(Parents(i)') + handles'[i] + dropping'[i]
                          + (IF root = i THEN 1 ELSE 0)
    BY DEF RefCountsExact
  <2>1. objects[i].refcount = Cardinality(Parents(i)) + handles[i] + dropping[i]
                              + (IF root = i THEN 1 ELSE 0)
    BY DEF SwapInvariant, PointerInv, RefCountsExact
  <2>2. CASE i = k
    BY <1>2, <1>5, <2>2
  <2>3. CASE i # k
    BY <1>1, <1>5, <2>1, <2>3
  <2> QED
    BY <2>2, <2>3
<1>7. NoDanglingPointer'
  <2>1. \A i \in Ids : handles'[i] + dropping'[i] > 0 \/ root' = i => i \in DOMAIN objects'
    BY DEF SwapInvariant, PointerInv, NoDanglingPointer
  <2>2. \A i \in DOMAIN objects : NodeOf(i)'.kids \subseteq DOMAIN objects
    BY <1>4 DEF SwapInvariant, PointerInv, NoDanglingPointer
  <2> QED
    BY <2>1, <2>2 DEF NoDanglingPointer
<1>8. \A i \in DOMAIN objects : objects[i].pincount # 0 =>
        /\ handles[i] > 0 => handles'[i] > 0
        /\ \A j \in DOMAIN objects : i \in NodeOf(j).kids => i \in NodeOf(j)'.kids
  BY <1>1, <1>4
<1>9. PointerInv'
  BY <1>6, <1>7 DEF PointerInv
<1>10. SwapInvariant' /\ SavedHeap' = SavedHeap
  BY <1>3, <1>8, <1>9, LocalStep
<1> QED
  BY <1>4, <1>10 DEF HeapKept, NodesKept

LEMMA PointerCounts ==
  ASSUME SwapInvariant
  PROVE  handles \in [Ids -> Nat] /\ dropping \in [Ids -> Nat]
BY DEF SwapInvariant, SwapTypeOk

LEMMA CopyKidStep ==
  ASSUME SwapInvariant, NEW k \in Ids, CopyKid(k)
  PROVE  SwapInvariant' /\ HeapKept
<1>1. /\ step = "ready" /\ pins # << >> /\ k \in objects[Top].target.kids
      /\ handles' = [handles EXCEPT ![k] = @ + 1]
      /\ objects' = [objects EXCEPT ![k].refcount = @ + 1]
      /\ UNCHANGED <<lru_pqueue, current_in_memory_objects, objects_to_versions, next_id,
                     next_access_time, root_id, root, pins, dropping, step, diskVars, crashes>>
  BY DEF CopyKid, Ready
<1>2. k \in DOMAIN objects
  BY <1>1, TopFacts DEF SwapInvariant, PointerInv, NoDanglingPointer
<1>3. /\ handles \in [Ids -> Nat] /\ dropping \in [Ids -> Nat] /\ handles[k] \in Nat
      /\ handles' \in [Ids -> Nat] /\ dropping' \in [Ids -> Nat]
      /\ handles'[k] = handles[k] + 1 /\ dropping'[k] = dropping[k] /\ dropping[k] \in Nat
      /\ \A i \in Ids : i # k => handles'[i] = handles[i] /\ dropping'[i] = dropping[i]
  BY <1>1, PointerCounts
<1>4. /\ objects[k].refcount = Cardinality(Parents(k)) + handles[k] + dropping[k]
                               + (IF root = k THEN 1 ELSE 0)
      /\ objects[k].refcount \in Nat /\ Cardinality(Parents(k)) \in Nat
  BY <1>2, Facts, ObjectFields, ParentsFinite
  DEF SwapInvariant, PointerInv, RefCountsExact
<1>5. PICK c \in Nat : c = objects[k].refcount + 1
  BY <1>4
<1>6. /\ DOMAIN objects' = DOMAIN objects
      /\ objects'[k] = [objects[k] EXCEPT !.refcount = c]
      /\ \A i \in DOMAIN objects : i # k => objects'[i] = objects[i]
  BY <1>1, <1>2, <1>5
<1>7. c = Cardinality(Parents(k)) + handles'[k] + dropping'[k]
          + (IF root = k THEN 1 ELSE 0)
  BY <1>3, <1>4, <1>5
<1>8. handles'[k] > 0
  BY <1>3
<1> QED
  BY <1>1, <1>2, <1>3, <1>6, <1>7, <1>8, CountStep

LEMMA DropHandleStep ==
  ASSUME SwapInvariant, NEW k \in Ids, DropHandle(k)
  PROVE  SwapInvariant' /\ HeapKept
<1>1. /\ step = "ready" /\ handles[k] > 0 /\ objects[k].pincount = 0
      /\ handles' = [handles EXCEPT ![k] = @ - 1]
      /\ dropping' = [dropping EXCEPT ![k] = @ + 1]
      /\ UNCHANGED <<cacheVars, root, pins, step, diskVars, crashes>>
  BY DEF DropHandle, Ready
<1>2. k \in DOMAIN objects
  BY <1>1, FollowableIsLive DEF Followable
<1>3. /\ handles[k] \in Nat /\ dropping[k] \in Nat
      /\ handles' \in [Ids -> Nat] /\ dropping' \in [Ids -> Nat]
      /\ handles'[k] = handles[k] - 1 /\ dropping'[k] = dropping[k] + 1
      /\ \A i \in Ids : i # k => handles'[i] = handles[i] /\ dropping'[i] = dropping[i]
  BY <1>1, PointerCounts
<1>4. /\ objects[k].refcount = Cardinality(Parents(k)) + handles[k] + dropping[k]
                               + (IF root = k THEN 1 ELSE 0)
      /\ objects[k].refcount \in Nat /\ Cardinality(Parents(k)) \in Nat
  BY <1>2, Facts, ObjectFields, ParentsFinite
  DEF SwapInvariant, PointerInv, RefCountsExact
<1>5. PICK c \in Nat : c = objects[k].refcount
  BY <1>4
<1>6. /\ DOMAIN objects' = DOMAIN objects
      /\ objects'[k] = [objects[k] EXCEPT !.refcount = c]
      /\ \A i \in DOMAIN objects : i # k => objects'[i] = objects[i]
  <2>1. objects[k] \in Object /\ objects' = objects
    BY <1>1, <1>2, Facts DEF cacheVars
  <2> QED
    BY <1>5, <2>1 DEF Object
<1>7. c = Cardinality(Parents(k)) + handles'[k] + dropping'[k]
          + (IF root = k THEN 1 ELSE 0)
  BY <1>3, <1>4, <1>5
<1>8. UNCHANGED <<lru_pqueue, current_in_memory_objects, objects_to_versions, next_id,
                  next_access_time, root_id, root, pins, step, diskVars, crashes>>
  BY <1>1 DEF cacheVars
<1> QED
  BY <1>1, <1>2, <1>3, <1>6, <1>7, <1>8, CountStep

\* A pointer is being released only while the process runs and no checkpoint does.
LEMMA DroppingIsReady ==
  ASSUME SwapInvariant, NEW k \in Ids, dropping[k] > 0
  PROVE  step = "ready" /\ k \in DOMAIN objects
<1>1. k \in DOMAIN objects
  <2>1. handles[k] + dropping[k] > 0
    BY Facts
  <2> QED
    BY <2>1 DEF SwapInvariant, PointerInv, NoDanglingPointer
<1>2. step # "down"
  BY DEF SwapInvariant, StepInv, NoPointers
<1>3. step \notin {"map", "delete"}
  BY DEF SwapInvariant, StepInv, Quiet
<1> QED
  BY <1>1, <1>2, <1>3 DEF SwapInvariant, SwapTypeOk

LEMMA ReleaseSharedStep ==
  ASSUME SwapInvariant, NEW k \in Ids, ReleaseShared(k)
  PROVE  SwapInvariant' /\ HeapKept
<1>1. /\ dropping[k] > 0 /\ objects[k].refcount > 1
      /\ objects' = [objects EXCEPT ![k].refcount = @ - 1]
      /\ dropping' = [dropping EXCEPT ![k] = @ - 1]
      /\ UNCHANGED <<lru_pqueue, current_in_memory_objects, objects_to_versions, next_id,
                     next_access_time, root_id, root, handles, pins, step, diskVars, crashes>>
  BY DEF ReleaseShared
<1>2. step = "ready" /\ k \in DOMAIN objects
  BY <1>1, DroppingIsReady
<1>3. /\ handles[k] \in Nat /\ dropping[k] \in Nat
      /\ handles' \in [Ids -> Nat] /\ dropping' \in [Ids -> Nat]
      /\ handles'[k] = handles[k] /\ dropping'[k] = dropping[k] - 1
      /\ \A i \in Ids : i # k => handles'[i] = handles[i] /\ dropping'[i] = dropping[i]
  BY <1>1, PointerCounts
<1>4. /\ objects[k].refcount = Cardinality(Parents(k)) + handles[k] + dropping[k]
                               + (IF root = k THEN 1 ELSE 0)
      /\ objects[k].refcount \in Nat /\ Cardinality(Parents(k)) \in Nat
  BY <1>2, Facts, ObjectFields, ParentsFinite
  DEF SwapInvariant, PointerInv, RefCountsExact
<1>5. PICK c \in Nat : c = objects[k].refcount - 1
  BY <1>1, <1>4
<1>6. /\ DOMAIN objects' = DOMAIN objects
      /\ objects'[k] = [objects[k] EXCEPT !.refcount = c]
      /\ \A i \in DOMAIN objects : i # k => objects'[i] = objects[i]
  BY <1>1, <1>2, <1>5
<1>7. c = Cardinality(Parents(k)) + handles'[k] + dropping'[k]
          + (IF root = k THEN 1 ELSE 0)
  BY <1>3, <1>4, <1>5
<1> QED
  BY <1>1, <1>2, <1>3, <1>6, <1>7, CountStep

LEMMA RemoveKidStep ==
  ASSUME SwapInvariant, NEW k \in Ids, RemoveKid(k)
  PROVE  SwapInvariant' /\ TopWritten
<1> DEFINE n == [objects[Top].target EXCEPT !.kids = @ \ {k}]
<1>1. /\ step = "ready" /\ TopWritable
      /\ k \in objects[Top].target.kids /\ objects[k].pincount = 0
      /\ objects' = [objects EXCEPT ![Top].target = n]
      /\ dropping' = [dropping EXCEPT ![k] = @ + 1]
      /\ UNCHANGED <<lru_pqueue, current_in_memory_objects, objects_to_versions, next_id,
                     next_access_time, root_id, root, handles, pins, step, diskVars, crashes>>
  BY DEF RemoveKid, Ready
<1>2. /\ objects[Top].target \in Node /\ NodeOf(Top) = objects[Top].target
      /\ Top \in DOMAIN objects
  BY <1>1, TopFacts DEF TopWritable
<1>3. n \in Node /\ n.kids = objects[Top].target.kids \ {k} /\ n # NULL
  BY <1>2, NodeFields DEF Node
<1> HIDE DEF n
<1>4. /\ DOMAIN objects' = DOMAIN objects
      /\ \A i \in DOMAIN objects :
           /\ objects'[i] \in Object
           /\ objects'[i].version = objects[i].version
           /\ objects'[i].is_leaf = objects[i].is_leaf
           /\ objects'[i].dirty = objects[i].dirty
           /\ objects'[i].pincount = objects[i].pincount
           /\ objects'[i].refcount = objects[i].refcount
           /\ objects'[i].target = NULL <=> objects[i].target = NULL
           /\ i # Top => objects'[i] = objects[i]
           /\ ~objects[i].dirty => objects'[i].target = objects[i].target
      /\ objects'[Top].target = n
  BY <1>1, <1>3, TopObject
<1>5. \A i \in DOMAIN objects : i # Top => NodeOf(i)' = NodeOf(i)
  BY <1>1, <1>4, SameNode DEF diskVars
<1>6. \A i : i = Top => NodeOf(i)' = n
  BY <1>3, <1>4 DEF NodeOf
<1>7. \A i \in DOMAIN objects :
        NodeOf(i)'.kids = NodeOf(i).kids \ (IF i = Top THEN {k} ELSE {})
  BY <1>2, <1>3, <1>5, <1>6
<1>8. k \in DOMAIN objects
  BY <1>1, <1>2 DEF SwapInvariant, PointerInv, NoDanglingPointer
<1>9. /\ handles[k] \in Nat /\ dropping[k] \in Nat
      /\ handles' \in [Ids -> Nat] /\ dropping' \in [Ids -> Nat]
      /\ handles' = handles /\ dropping'[k] = dropping[k] + 1
      /\ \A i \in Ids : i # k => dropping'[i] = dropping[i]
  BY <1>1, PointerCounts
<1>10. PointerInv'
  <2>1. \A i : i # k => Parents(i)' = Parents(i)
    BY <1>4, <1>7 DEF Parents
  <2>2. Parents(k)' = Parents(k) \ {Top} /\ Top \in Parents(k)
    BY <1>1, <1>2, <1>4, <1>7 DEF Parents
  <2>3. Cardinality(Parents(k)') = Cardinality(Parents(k)) - 1
    BY <2>2, ParentsFinite, FS_RemoveElement
  <2>4. RefCountsExact'
    <3> SUFFICES ASSUME NEW i \in DOMAIN objects
                 PROVE  objects'[i].refcount
                          = Cardinality(Parents(i)') + handles[i] + dropping'[i]
                            + (IF root = i THEN 1 ELSE 0)
      BY <1>1, <1>4 DEF RefCountsExact
    <3>1. /\ objects[i].refcount = Cardinality(Parents(i)) + handles[i] + dropping[i]
                                  + (IF root = i THEN 1 ELSE 0)
          /\ Cardinality(Parents(i)) \in Nat /\ i \in Ids
      BY Facts, ParentsFinite DEF SwapInvariant, PointerInv, RefCountsExact
    <3>2. CASE i = k
      BY <1>4, <1>9, <2>3, <3>1, <3>2
    <3>3. CASE i # k
      BY <1>4, <1>9, <2>1, <3>1, <3>3
    <3> QED
      BY <3>2, <3>3
  <2>5. NoDanglingPointer'
    <3>1. \A i \in Ids : handles'[i] + dropping'[i] > 0 \/ root' = i => i \in DOMAIN objects'
      BY <1>1, <1>4, <1>8, <1>9 DEF SwapInvariant, PointerInv, NoDanglingPointer
    <3>2. \A i \in DOMAIN objects : NodeOf(i)'.kids \subseteq DOMAIN objects
      BY <1>7 DEF SwapInvariant, PointerInv, NoDanglingPointer
    <3> QED
      BY <1>4, <3>1, <3>2 DEF NoDanglingPointer
  <2> QED
    BY <2>4, <2>5 DEF PointerInv
<1>11. \A i \in DOMAIN objects : objects[i].pincount # 0 =>
         /\ handles[i] > 0 => handles'[i] > 0
         /\ \A j \in DOMAIN objects : i \in NodeOf(j).kids => i \in NodeOf(j)'.kids
  BY <1>1, <1>7
<1>12. SwapInvariant' /\ SavedHeap' = SavedHeap
  BY <1>1, <1>4, <1>9, <1>10, <1>11, LocalStep
<1> QED
  BY <1>2, <1>3, <1>4, <1>5, <1>6, <1>12 DEF TopWritten

-----------------------------------------------------------------------------
(* The last pointer goes.                                                  *)

\* An object whose only pointer is being released is in no node and not pinned.
LEMMA LastPointer ==
  ASSUME SwapInvariant, NEW i \in Ids, dropping[i] > 0, objects[i].refcount = 1
  PROVE  /\ i \in DOMAIN objects /\ step = "ready"
         /\ Parents(i) = {} /\ handles[i] = 0 /\ dropping[i] = 1 /\ root # i
         /\ \A n \in DOMAIN pins : pins[n].id # i
<1>1. i \in DOMAIN objects /\ step = "ready"
  BY DroppingIsReady
<1>2. /\ 1 = Cardinality(Parents(i)) + handles[i] + dropping[i]
             + (IF root = i THEN 1 ELSE 0)
      /\ Cardinality(Parents(i)) \in Nat /\ handles[i] \in Nat /\ dropping[i] \in Nat
  BY <1>1, Facts, ParentsFinite DEF SwapInvariant, PointerInv, RefCountsExact
<1>3. Cardinality(Parents(i)) = 0 /\ handles[i] = 0 /\ dropping[i] = 1 /\ root # i
  BY <1>2
<1>4. Parents(i) = {}
  BY <1>3, ParentsFinite, FS_EmptySet
<1>5. ASSUME NEW n \in DOMAIN pins, pins[n].id = i PROVE FALSE
  <2>1. n > 1 /\ i \in NodeOf(pins[n - 1].id).kids
    BY <1>3, <1>5 DEF SwapInvariant, PinInv
  <2>2. n - 1 \in DOMAIN pins
    BY <2>1, Facts, LenProperties
  <2>3. pins[n - 1].id \in DOMAIN objects
    BY <2>2, Facts, PinnedIsCounted DEF SwapInvariant
  <2> QED
    BY <1>4, <2>1, <2>3 DEF Parents
<1> QED
  BY <1>1, <1>3, <1>4, <1>5

LEMMA ReleaseLastStep ==
  ASSUME SwapInvariant, NEW i \in Ids, ReleaseLast(i)
  PROVE  /\ SwapInvariant' /\ SavedHeap' = SavedHeap
         /\ DOMAIN objects' = DOMAIN objects \ {i}
         /\ \A j \in DOMAIN objects' : NodeOf(j)' = NodeOf(j)
<1> DEFINE o      == objects[i]
           loaded == o.target = NULL /\ ~o.is_leaf
           node   == IF loaded THEN Stored(i, o.version) ELSE o.target
           kids   == IF node = NULL THEN {} ELSE node.kids
<1>1. /\ dropping[i] > 0 /\ o.refcount = 1
      /\ objects' = [j \in DOMAIN objects \ {i} |-> objects[j]]
      /\ objects_to_versions'
           = [j \in DOMAIN objects_to_versions \ {i} |-> objects_to_versions[j]]
      /\ lru_pqueue' = lru_pqueue \ {i}
      /\ current_in_memory_objects' =
           IF loaded THEN current_in_memory_objects
           ELSE (current_in_memory_objects + CounterModulus - 1) % CounterModulus
      /\ dropping' = [j \in Ids |-> dropping[j] + (IF j \in kids THEN 1 ELSE 0)
                                               - (IF j = i THEN 1 ELSE 0)]
      /\ UNCHANGED <<next_id, next_access_time, root_id, root, handles, pins, step,
                     diskVars, crashes>>
  BY DEF ReleaseLast, Destroy, VersionsWithout, Unqueued
<1>2. /\ i \in DOMAIN objects /\ step = "ready"
      /\ Parents(i) = {} /\ handles[i] = 0 /\ dropping[i] = 1 /\ root # i
      /\ \A n \in DOMAIN pins : pins[n].id # i
  BY <1>1, LastPointer
<1>3. kids = NodeOf(i).kids
  <2>1. NodeOf(i) \in Node /\ NodeOf(i) # NULL /\ NodeOf(i) = NodeIn(objects, i)
    BY <1>2, Facts, NodeFields
  <2>2. CASE o.target # NULL
    BY <2>2 DEF NodeOf
  <2>3. CASE loaded
    BY <2>1, <2>3 DEF NodeOf
  <2>4. CASE o.target = NULL /\ o.is_leaf
    BY <1>2, <2>1, <2>4, Facts DEF CacheOk
  <2> QED
    BY <2>2, <2>3, <2>4
<1>4. \A j \in DOMAIN objects : j \in Parents(i) <=> i \in NodeOf(j).kids
  BY DEF Parents
<1>5. i \notin kids /\ kids \subseteq DOMAIN objects /\ kids \subseteq Ids
  BY <1>2, <1>3, <1>4, Facts, NodeFields DEF SwapInvariant, PointerInv, NoDanglingPointer
<1>6. current_in_memory_objects' \in 0..CounterModulus - 1
  <2>1. current_in_memory_objects + CounterModulus - 1 \in Nat
    BY Facts, CacheAssumption
  <2> QED
    BY <1>1, <2>1, ModRange DEF SwapInvariant, SwapTypeOk
<1> HIDE DEF o, loaded, node, kids
<1>7. /\ DOMAIN objects' = DOMAIN objects \ {i}
      /\ \A j \in DOMAIN objects' : objects'[j] = objects[j]
  BY <1>1
<1>8. files' = files /\ version_map' = version_map
      /\ UNCHANGED <<root, handles, pins, step>>
  BY <1>1 DEF diskVars
<1>9. \A j \in DOMAIN objects' : NodeOf(j)' = NodeOf(j)
  BY <1>7, <1>8, SameNode
<1>10. /\ dropping' \in [Ids -> Nat]
       /\ dropping'[i] = 0
       /\ \A j \in Ids : j # i =>
            dropping'[j] = dropping[j] + (IF j \in kids THEN 1 ELSE 0)
  <2>1. ASSUME NEW j \in Ids PROVE dropping[j] + (IF j \in kids THEN 1 ELSE 0)
                                      - (IF j = i THEN 1 ELSE 0) \in Nat
    BY <1>2, <1>5, Facts
  <2> QED
    BY <1>1, <1>2, <1>5, <2>1, Facts
<1>11. CacheOk(objects, lru_pqueue)'
  <2>1. DOMAIN objects' \subseteq Ids /\ \A j \in DOMAIN objects' : objects'[j] \in Object
    BY <1>7, Facts DEF CacheOk
  <2>2. lru_pqueue' = {j \in DOMAIN objects' : objects'[j].target # NULL}
    BY <1>1, <1>7, Facts DEF CacheOk
  <2>3. /\ DOMAIN objects_to_versions' \subseteq DOMAIN objects'
        /\ \A j \in DOMAIN objects' : j \in DOMAIN objects_to_versions =>
             /\ j \in DOMAIN objects_to_versions'
             /\ objects_to_versions'[j] = objects_to_versions[j]
    BY <1>1, <1>7, Facts DEF CacheOk
  <2>4. \A j \in DOMAIN objects' : objects'[j].dirty => objects'[j].target # NULL
    BY <1>7, Facts DEF CacheOk
  <2>5. \A j \in DOMAIN objects' : NodeIn(objects, j)' = NodeIn(objects, j)
    BY <1>7, <1>8 DEF NodeIn, Stored
  <2>6. \A j \in DOMAIN objects' : ~objects'[j].dirty =>
          /\ <<j, objects'[j].version>> \in DOMAIN files'
          /\ NodeIn(objects, j)' = files'[<<j, objects'[j].version>>]
          /\ j \in DOMAIN objects_to_versions'
          /\ objects_to_versions'[j] = objects'[j].version
    BY <1>7, <1>8, <2>3, <2>5, Facts DEF CacheOk
  <2>7. \A j \in DOMAIN objects' :
          objects'[j].target = NULL => (objects'[j].is_leaf <=> NodeIn(objects, j)'.kids = {})
    BY <1>7, <2>5, Facts DEF CacheOk
  <2> HIDE DEF NodeIn
  <2> QED
    BY <2>1, <2>2, <2>3, <2>4, <2>6, <2>7 DEF CacheOk
<1>12. SwapTypeOk'
  <2>1. FilesTyped'
    BY <1>8, Facts DEF FilesTyped
  <2> QED
    BY <1>1, <1>6, <1>10, <1>11, <2>1 DEF SwapInvariant, SwapTypeOk, CacheOk, FilesTyped
<1>13. RefCountsExact'
  <2> SUFFICES ASSUME NEW j \in DOMAIN objects'
               PROVE  objects'[j].refcount
                        = Cardinality(Parents(j)') + handles[j] + dropping'[j]
                          + (IF root = j THEN 1 ELSE 0)
    BY <1>8 DEF RefCountsExact
  <2>1. /\ objects[j].refcount = Cardinality(Parents(j)) + handles[j] + dropping[j]
                                 + (IF root = j THEN 1 ELSE 0)
        /\ Cardinality(Parents(j)) \in Nat /\ IsFiniteSet(Parents(j))
        /\ j # i /\ j \in Ids /\ dropping[j] \in Nat /\ handles[j] \in Nat
    BY <1>7, Facts, ParentsFinite DEF SwapInvariant, PointerInv, RefCountsExact
  <2>2. CASE j \in kids
    <3>1. Parents(j)' = Parents(j) \ {i} /\ i \in Parents(j)
      BY <1>2, <1>3, <1>7, <1>9, <2>2 DEF Parents
    <3>2. Cardinality(Parents(j)') = Cardinality(Parents(j)) - 1
      BY <2>1, <3>1, FS_RemoveElement
    <3> QED
      BY <1>7, <1>10, <2>1, <2>2, <3>2
  <2>3. CASE j \notin kids
    <3>1. Parents(j)' = Parents(j)
      BY <1>3, <1>7, <1>9, <2>3 DEF Parents
    <3> QED
      BY <1>7, <1>10, <2>1, <2>3, <3>1
  <2> QED
    BY <2>2, <2>3
<1>14. NoDanglingPointer'
  <2>1. ASSUME NEW j \in Ids, handles'[j] + dropping'[j] > 0 \/ root' = j
        PROVE  j \in DOMAIN objects'
    <3>1. j # i
      BY <1>2, <1>8, <1>10, <2>1
    <3>2. handles[j] + dropping[j] > 0 \/ root = j \/ j \in kids
      BY <1>8, <1>10, <2>1, <3>1, Facts
    <3> QED
      BY <1>5, <1>7, <3>1, <3>2 DEF SwapInvariant, PointerInv, NoDanglingPointer
  <2>2. \A j \in DOMAIN objects' : NodeOf(j)'.kids \subseteq DOMAIN objects'
    BY <1>2, <1>4, <1>7, <1>9 DEF SwapInvariant, PointerInv, NoDanglingPointer
  <2> QED
    BY <2>1, <2>2 DEF NoDanglingPointer
<1>15. PinInv'
  <2>1. \A j \in DOMAIN objects' : objects'[j].pincount = Cardinality(PinsOf(j)')
    BY <1>7, <1>8 DEF SwapInvariant, PinInv, PinsOf
  <2>2. ASSUME NEW n \in DOMAIN pins
        PROVE  /\ pins[n].id \in Resident'
               /\ pins[n].writable => objects'[pins[n].id].dirty
               /\ \/ root = pins[n].id
                  \/ handles[pins[n].id] > 0
                  \/ n > 1 /\ pins[n].id \in NodeOf(pins[n - 1].id)'.kids
    <3>1. /\ pins[n].id \in DOMAIN objects /\ objects[pins[n].id].target # NULL
          /\ pins[n].id # i
      BY <1>2, Facts, PinnedIsCounted DEF SwapInvariant
    <3>2. n > 1 => pins[n - 1].id \in DOMAIN objects'
      <4>1. n > 1 => n - 1 \in DOMAIN pins
        BY Facts, LenProperties
      <4> QED
        BY <1>2, <1>7, <4>1, Facts, PinnedIsCounted DEF SwapInvariant
    <3>3. n > 1 => NodeOf(pins[n - 1].id)' = NodeOf(pins[n - 1].id)
      <4>1. PICK j : j = pins[n - 1].id
        OBVIOUS
      <4>2. NodeOf(pins[n - 1].id)' = NodeOf(j)'
        BY <1>8, <4>1 DEF NodeOf, Stored
      <4> QED
        BY <1>9, <3>2, <4>1, <4>2
    <3>4. /\ pins[n].writable => objects[pins[n].id].dirty
          /\ \/ root = pins[n].id
             \/ handles[pins[n].id] > 0
             \/ n > 1 /\ pins[n].id \in NodeOf(pins[n - 1].id).kids
      BY DEF SwapInvariant, PinInv
    <3> QED
      BY <1>7, <3>1, <3>3, <3>4 DEF Resident
  <2> QED
    BY <1>8, <2>1, <2>2 DEF PinInv, PinsOf
<1>16. StepInv'
  BY <1>1, <1>2, <1>7 DEF SwapInvariant, StepInv
<1>17. SavedInv' /\ SavedHeap' = SavedHeap
  <2>1. ASSUME NEW j \in DOMAIN version_map.versions
        PROVE  /\ <<j, version_map.versions[j]>> \in DOMAIN files'
               /\ Stored(j, version_map.versions[j])' = Stored(j, version_map.versions[j])
               /\ step' # "down" => j <= next_id'
               /\ j \in DOMAIN objects' => version_map.versions[j] <= objects'[j].version
    BY <1>1, <1>7, <1>8 DEF SwapInvariant, SavedInv, Stored
  <2> QED
    BY <1>8, <2>1, SavedKept DEF SwapInvariant
<1> QED
  BY <1>7, <1>9, <1>11, <1>12, <1>13, <1>14, <1>15, <1>16, <1>17 DEF SwapInvariant, PointerInv

-----------------------------------------------------------------------------
(* New objects.                                                            *)

NewObject == [target |-> NewNode, version |-> 0, is_leaf |-> FALSE, refcount |-> 1,
              last_access |-> next_access_time, dirty |-> TRUE, pincount |-> 0]

LEMMA NewObjectTyped ==
  ASSUME next_access_time \in Nat
  PROVE  /\ NewNode \in Node /\ NewNode.kids = {} /\ NewNode # NULL
         /\ NewObject \in Object
         /\ NewObject.target = NewNode /\ NewObject.version = 0 /\ NewObject.dirty
         /\ NewObject.refcount = 1 /\ NewObject.pincount = 0
<1>1. NewNode \in Node /\ NewNode.kids = {}
  BY DataAssumption DEF NewNode, Node
<1> QED
  BY <1>1, NodeFields DEF NewObject, Object

\* Object id is new and nothing else changes.
NodeAllocated(id) ==
  /\ id \in Ids /\ id \notin DOMAIN objects
  /\ DOMAIN objects' = DOMAIN objects \cup {id}
  /\ \A i \in DOMAIN objects' : NodeOf(i)' = IF i = id THEN NewNode ELSE NodeOf(i)
  /\ SavedHeap' = SavedHeap

\* The pointer constructor keeps the invariant if every other object keeps as many
\* pointers as it had and the new one gets one.
LEMMA AllocateStep ==
  ASSUME SwapInvariant, Ready, NEW nr \in 0..MaxId,
         NEW nh \in [Ids -> Nat], NEW nd \in [Ids -> Nat],
         AllocateObject(nr, nh, nd), root_id' \in {0, nr},
         nh[next_id + 1] + nd[next_id + 1] + (IF nr = next_id + 1 THEN 1 ELSE 0) = 1,
         \A i \in DOMAIN objects :
           nh[i] + nd[i] + (IF nr = i THEN 1 ELSE 0)
             = handles[i] + dropping[i] + (IF root = i THEN 1 ELSE 0),
         \A i \in Ids : nh[i] + nd[i] > 0 \/ nr = i
                          => i \in DOMAIN objects \cup {next_id + 1},
         \A n \in DOMAIN pins : /\ root = pins[n].id => nr = pins[n].id
                                /\ handles[pins[n].id] > 0 => nh[pins[n].id] > 0
  PROVE  SwapInvariant' /\ NodeAllocated(next_id + 1)
<1>0. PICK id : id = next_id + 1
  OBVIOUS
<1> DEFINE objs    == [i \in DOMAIN objects \cup {id} |->
                         IF i = id THEN NewObject ELSE objects[i]]
           lru     == lru_pqueue \cup {id}
           current == (current_in_memory_objects + 1) % CounterModulus
<1>1. /\ id <= MaxId /\ next_id' = next_id + 2 /\ next_access_time' = next_access_time + 1
      /\ MaybeEvictSomething(objs, lru, current)
      /\ root' = nr /\ handles' = nh /\ dropping' = nd
      /\ UNCHANGED <<pins, step, version_map, crashes>>
  BY <1>0 DEF AllocateObject, NewObject
<1>2. step = "ready" /\ next_id \in Nat \ {0} /\ next_access_time \in Nat
  BY Facts DEF Ready
<1>3. id \in Ids /\ id \notin DOMAIN objects
  <2>1. \A i \in DOMAIN objects : i <= next_id /\ i \in Ids
    BY Facts DEF SwapInvariant, StepInv
  <2> QED
    BY <1>0, <1>1, <1>2, <2>1, SwapBoundsAssumption DEF Ids
<1>4. current \in Nat
  <2>1. current_in_memory_objects + 1 \in Nat
    BY Facts
  <2> QED
    BY <2>1, ModRange, CacheAssumption
<1>5. /\ DOMAIN objs = DOMAIN objects \cup {id} /\ objs[id] = NewObject
      /\ \A i \in DOMAIN objects : objs[i] = objects[i]
  BY <1>3
<1>6. /\ NewNode \in Node /\ NewNode.kids = {} /\ NewNode # NULL
      /\ NewObject \in Object
      /\ NewObject.target = NewNode /\ NewObject.version = 0 /\ NewObject.dirty
      /\ NewObject.refcount = 1 /\ NewObject.pincount = 0
  BY <1>2, NewObjectTyped
<1> HIDE DEF objs, lru, current
<1>7. /\ NodeIn(objs, id) = NewNode
      /\ \A i \in DOMAIN objects : NodeIn(objs, i) = NodeIn(objects, i)
  BY <1>5, <1>6 DEF NodeIn
<1>8. CacheOk(objs, lru)
  <2>1. DOMAIN objs \subseteq Ids /\ \A i \in DOMAIN objs : objs[i] \in Object
    BY <1>3, <1>5, <1>6, Facts DEF CacheOk
  <2>2. lru = {i \in DOMAIN objs : objs[i].target # NULL}
    BY <1>3, <1>5, <1>6, Facts DEF CacheOk, lru
  <2>3. DOMAIN objects_to_versions \subseteq DOMAIN objs
    BY <1>5, Facts DEF CacheOk
  <2>4. \A i \in DOMAIN objs : objs[i].dirty => objs[i].target # NULL
    BY <1>5, <1>6, Facts DEF CacheOk
  <2>5. \A i \in DOMAIN objs : ~objs[i].dirty =>
          /\ <<i, objs[i].version>> \in DOMAIN files
          /\ NodeIn(objs, i) = files[<<i, objs[i].version>>]
          /\ i \in DOMAIN objects_to_versions
          /\ objects_to_versions[i] = objs[i].version
    BY <1>5, <1>6, <1>7, Facts DEF CacheOk
  <2>6. \A i \in DOMAIN objs :
          objs[i].target = NULL => (objs[i].is_leaf <=> NodeIn(objs, i).kids = {})
    BY <1>5, <1>6, <1>7, Facts DEF CacheOk
  <2> QED
    BY <2>1, <2>2, <2>3, <2>4, <2>5, <2>6 DEF CacheOk
<1>9. /\ KeepsNodes(objs) /\ KeepsFiles(objs)
      /\ current_in_memory_objects' \in 0..CounterModulus - 1
  BY <1>1, <1>4, <1>8, Facts, EvictionKeeps
<1>10. CacheOk(objects, lru_pqueue)' /\ FilesTyped'
  BY <1>9 DEF KeepsNodes
<1>11. /\ DOMAIN objects' = DOMAIN objects \cup {id}
       /\ NodeOf(id)' = NewNode
       /\ objects'[id].refcount = 1 /\ objects'[id].pincount = 0
       /\ \A i \in DOMAIN objects :
            /\ NodeOf(i)' = NodeOf(i)
            /\ objects'[i].refcount = objects[i].refcount
            /\ objects'[i].pincount = objects[i].pincount
            /\ objects[i].pincount # 0 => objects'[i] = objects[i]
  <2>1. NodeOf(id)' = NewNode /\ objects'[id].refcount = 1 /\ objects'[id].pincount = 0
    BY <1>5, <1>6, <1>7, <1>9 DEF KeepsNodes
  <2>2. \A i \in DOMAIN objects : NodeIn(objs, i) = NodeOf(i)
    BY <1>7, Facts
  <2> QED
    BY <1>5, <1>9, <2>1, <2>2 DEF KeepsNodes
<1>12. \A i : Parents(i)' = Parents(i)
  BY <1>3, <1>6, <1>11 DEF Parents
<1>13. Parents(id) = {}
  BY <1>3 DEF Parents, SwapInvariant, PointerInv, NoDanglingPointer
<1>14. RefCountsExact'
  <2> SUFFICES ASSUME NEW i \in DOMAIN objects'
               PROVE  objects'[i].refcount
                        = Cardinality(Parents(i)') + nh[i] + nd[i]
                          + (IF nr = i THEN 1 ELSE 0)
    BY <1>1 DEF RefCountsExact
  <2>1. CASE i = id
    <3>1. Cardinality(Parents(i)') = 0
      BY <1>12, <1>13, <2>1, FS_EmptySet
    <3>2. nh[i] \in Nat /\ nd[i] \in Nat
      BY <1>3, <2>1
    <3> QED
      BY <1>0, <1>11, <2>1, <3>1, <3>2
  <2>2. CASE i \in DOMAIN objects
    <3>1. /\ objects[i].refcount = Cardinality(Parents(i)) + handles[i] + dropping[i]
                                  + (IF root = i THEN 1 ELSE 0)
          /\ Cardinality(Parents(i)) \in Nat /\ i \in Ids
          /\ handles[i] \in Nat /\ dropping[i] \in Nat
      BY <2>2, Facts, ParentsFinite DEF SwapInvariant, PointerInv, RefCountsExact
    <3>2. nh[i] \in Nat /\ nd[i] \in Nat
      BY <3>1
    <3>3. nh[i] + nd[i] + (IF nr = i THEN 1 ELSE 0)
            = handles[i] + dropping[i] + (IF root = i THEN 1 ELSE 0)
      BY <2>2
    <3>4. objects'[i].refcount = objects[i].refcount /\ Parents(i)' = Parents(i)
      BY <1>11, <1>12, <2>2
    <3> QED
      BY <3>1, <3>2, <3>3, <3>4
  <2> QED
    BY <1>11, <2>1, <2>2
<1>15. NoDanglingPointer'
  <2>1. \A i \in Ids : handles'[i] + dropping'[i] > 0 \/ root' = i => i \in DOMAIN objects'
    BY <1>0, <1>1, <1>11
  <2>2. \A i \in DOMAIN objects' : NodeOf(i)'.kids \subseteq DOMAIN objects'
    BY <1>6, <1>11 DEF SwapInvariant, PointerInv, NoDanglingPointer
  <2> QED
    BY <2>1, <2>2 DEF NoDanglingPointer
<1>16. SwapTypeOk'
  <2>1. next_id' \in Nat \ {0} /\ next_access_time' \in Nat
    BY <1>1, <1>2
  <2>2. root' \in 0..MaxId /\ root_id' \in 0..MaxId
    BY <1>1, SwapBoundsAssumption
  <2> QED
    BY <1>1, <1>9, <1>10, <2>1, <2>2 DEF SwapInvariant, SwapTypeOk, CacheOk, FilesTyped
<1>17. PinInv'
  <2>1. ASSUME NEW i \in DOMAIN objects'
        PROVE  objects'[i].pincount = Cardinality(PinsOf(i)')
    <3>1. PinsOf(i)' = PinsOf(i)
      BY <1>1 DEF PinsOf
    <3>2. CASE i = id
      <4>1. PinsOf(i) = {}
        BY <1>3, <3>2, Facts, PinnedIsCounted DEF PinsOf, SwapInvariant
      <4> QED
        BY <1>11, <3>1, <3>2, <4>1, FS_EmptySet
    <3>3. CASE i \in DOMAIN objects
      BY <1>11, <3>1, <3>3 DEF PinsOf, SwapInvariant, PinInv
    <3> QED
      BY <1>11, <3>2, <3>3
  <2>2. ASSUME NEW n \in DOMAIN pins
        PROVE  /\ pins[n].id \in Resident'
               /\ pins[n].writable => objects'[pins[n].id].dirty
               /\ \/ nr = pins[n].id
                  \/ nh[pins[n].id] > 0
                  \/ n > 1 /\ pins[n].id \in NodeOf(pins[n - 1].id)'.kids
    <3>1. /\ pins[n].id \in DOMAIN objects /\ objects[pins[n].id].target # NULL
          /\ objects[pins[n].id].pincount # 0
      BY Facts, PinnedIsCounted DEF SwapInvariant
    <3>2. n > 1 => pins[n - 1].id \in DOMAIN objects
      <4>1. n > 1 => n - 1 \in DOMAIN pins
        BY Facts, LenProperties
      <4> QED
        BY <4>1, Facts, PinnedIsCounted DEF SwapInvariant
    <3>3. n > 1 => NodeOf(pins[n - 1].id)' = NodeOf(pins[n - 1].id)
      <4>1. PICK j : j = pins[n - 1].id
        OBVIOUS
      <4>2. NodeOf(pins[n - 1].id)' = NodeOf(j)'
        BY <1>1, <4>1 DEF NodeOf, Stored
      <4> QED
        BY <1>11, <3>2, <4>1, <4>2
    <3>4. /\ pins[n].writable => objects[pins[n].id].dirty
          /\ \/ root = pins[n].id
             \/ handles[pins[n].id] > 0
             \/ n > 1 /\ pins[n].id \in NodeOf(pins[n - 1].id).kids
      BY DEF SwapInvariant, PinInv
    <3>5. objects'[pins[n].id] = objects[pins[n].id]
      BY <1>11, <3>1
    <3> QED
      BY <1>11, <3>1, <3>3, <3>4, <3>5 DEF Resident
  <2> QED
    BY <1>1, <2>1, <2>2 DEF PinInv, PinsOf
<1>18. StepInv'
  <2>1. \A i \in DOMAIN objects' : i <= next_id'
    <3>1. \A i \in DOMAIN objects : i <= next_id /\ i \in Nat
      BY Facts DEF SwapInvariant, StepInv, Ids
    <3> QED
      BY <1>0, <1>1, <1>2, <1>11, <3>1
  <2> QED
    BY <1>1, <1>2, <2>1 DEF StepInv
<1>19. SavedInv' /\ SavedHeap' = SavedHeap
  <2>1. \A i \in DOMAIN objs : /\ i <= next_id => i \in DOMAIN objects
                               /\ i \in DOMAIN objects => objs[i].version = objects[i].version
    BY <1>0, <1>2, <1>5
  <2>2. \A i \in DOMAIN objs : objs[i].version \in Nat /\ objects'[i].version \in Nat
    BY <1>5, <1>8, <1>10, <1>11, ObjectFields DEF CacheOk
  <2>3. step # "down" /\ next_id' \in Nat /\ next_id <= next_id' /\ next_id \in Nat
    BY <1>1, <1>2
  <2> QED
    BY <1>1, <1>9, <2>1, <2>2, <2>3, SavedKeptByEviction DEF SwapInvariant
<1>20. NodeAllocated(id)
  BY <1>3, <1>11, <1>19 DEF NodeAllocated
<1>21. SwapInvariant'
  BY <1>10, <1>14, <1>15, <1>16, <1>17, <1>18, <1>19 DEF SwapInvariant, PointerInv
<1> QED
  BY <1>0, <1>20, <1>21

\* The next id is nobody's, so no pointer leads to it.
LEMMA NextIdIsFree ==
  ASSUME SwapInvariant, next_id + 1 <= MaxId
  PROVE  /\ next_id + 1 \in Ids /\ next_id + 1 \notin DOMAIN objects
         /\ handles[next_id + 1] = 0 /\ dropping[next_id + 1] = 0 /\ root # next_id + 1
<1>1. \A i \in DOMAIN objects : i <= next_id /\ i \in Ids
  BY Facts DEF SwapInvariant, StepInv
<1>2. next_id + 1 \in Ids /\ next_id + 1 \notin DOMAIN objects
  BY <1>1, Facts, SwapBoundsAssumption DEF Ids
<1>3. handles[next_id + 1] \in Nat /\ dropping[next_id + 1] \in Nat
  BY <1>2, Facts
<1> QED
  BY <1>2, <1>3 DEF SwapInvariant, PointerInv, NoDanglingPointer

LEMMA AllocateLocalStep ==
  ASSUME SwapInvariant, Allocate
  PROVE  SwapInvariant' /\ NodeAllocated(next_id + 1)
<1> DEFINE nh == [handles EXCEPT ![next_id + 1] = @ + 1]
<1>1. Ready /\ AllocateObject(root, nh, dropping) /\ root_id' = root_id
  BY DEF Allocate
<1>2. next_id + 1 <= MaxId
  BY <1>1 DEF AllocateObject
<1>3. /\ next_id + 1 \in Ids /\ next_id + 1 \notin DOMAIN objects
      /\ handles[next_id + 1] = 0 /\ dropping[next_id + 1] = 0 /\ root # next_id + 1
  BY <1>2, NextIdIsFree
<1>4. /\ root \in 0..MaxId /\ dropping \in [Ids -> Nat] /\ handles \in [Ids -> Nat]
      /\ root_id' \in {0, root}
  BY <1>1 DEF SwapInvariant, SwapTypeOk, StepInv
<1>5. /\ nh \in [Ids -> Nat] /\ nh[next_id + 1] = 1
      /\ \A i \in Ids : i # next_id + 1 => nh[i] = handles[i]
  BY <1>3, <1>4
<1> HIDE DEF nh
<1>6. nh[next_id + 1] + dropping[next_id + 1] + (IF root = next_id + 1 THEN 1 ELSE 0) = 1
  BY <1>3, <1>5
<1>7. \A i \in DOMAIN objects :
        nh[i] + dropping[i] + (IF root = i THEN 1 ELSE 0)
          = handles[i] + dropping[i] + (IF root = i THEN 1 ELSE 0)
  BY <1>3, <1>5, Facts
<1>8. \A i \in Ids : nh[i] + dropping[i] > 0 \/ root = i
                       => i \in DOMAIN objects \cup {next_id + 1}
  BY <1>5 DEF SwapInvariant, PointerInv, NoDanglingPointer
<1>9. \A n \in DOMAIN pins : /\ root = pins[n].id => root = pins[n].id
                             /\ handles[pins[n].id] > 0 => nh[pins[n].id] > 0
  BY <1>3, <1>5, Facts, PinnedIsCounted DEF SwapInvariant
<1> QED
  BY <1>1, <1>4, <1>5, <1>6, <1>7, <1>8, <1>9, AllocateStep

LEMMA AllocateRootStep ==
  ASSUME SwapInvariant, AllocateRoot
  PROVE  SwapInvariant' /\ NodeAllocated(next_id + 1)
<1> DEFINE nr == next_id + 1
           nd == IF root = 0 THEN dropping ELSE [dropping EXCEPT ![root] = @ + 1]
<1>1. Ready /\ pins = << >> /\ AllocateObject(nr, handles, nd) /\ root_id' = nr
  BY DEF AllocateRoot
<1>2. nr <= MaxId
  BY <1>1 DEF AllocateObject
<1>3. /\ nr \in Ids /\ nr \notin DOMAIN objects
      /\ handles[nr] = 0 /\ dropping[nr] = 0 /\ root # nr
  BY <1>2, NextIdIsFree
<1>4. /\ root \in 0..MaxId /\ dropping \in [Ids -> Nat] /\ handles \in [Ids -> Nat]
  BY <1>1 DEF SwapInvariant, SwapTypeOk, StepInv
<1>5. root # 0 => root \in Ids
  BY <1>4, SwapBoundsAssumption DEF Ids
<1>6. /\ nd \in [Ids -> Nat]
      /\ \A i \in Ids : nd[i] = dropping[i] + (IF root = i THEN 1 ELSE 0)
  <2>1. CASE root = 0
    BY <1>4, <2>1 DEF Ids
  <2>2. CASE root # 0
    BY <1>4, <1>5, <2>2
  <2> QED
    BY <2>1, <2>2
<1>7. nr \in 0..MaxId /\ root_id' \in {0, nr}
  BY <1>1, <1>3, SwapBoundsAssumption DEF Ids
<1> HIDE DEF nd
<1>8. handles[nr] + nd[nr] + (IF nr = nr THEN 1 ELSE 0) = 1
  BY <1>3, <1>6
<1>9. \A i \in DOMAIN objects :
        handles[i] + nd[i] + (IF nr = i THEN 1 ELSE 0)
          = handles[i] + dropping[i] + (IF root = i THEN 1 ELSE 0)
  <2> SUFFICES ASSUME NEW i \in DOMAIN objects
               PROVE  handles[i] + nd[i] + (IF nr = i THEN 1 ELSE 0)
                        = handles[i] + dropping[i] + (IF root = i THEN 1 ELSE 0)
    OBVIOUS
  <2>1. i # nr /\ i \in Ids /\ handles[i] \in Nat /\ dropping[i] \in Nat
    BY <1>3, Facts
  <2>2. nd[i] = dropping[i] + (IF root = i THEN 1 ELSE 0)
    BY <1>6, <2>1
  <2> QED
    BY <2>1, <2>2
<1>10. \A i \in Ids : handles[i] + nd[i] > 0 \/ nr = i => i \in DOMAIN objects \cup {nr}
  <2>1. \A i \in Ids : handles[i] \in Nat /\ dropping[i] \in Nat
    BY Facts
  <2> QED
    BY <1>6, <2>1 DEF SwapInvariant, PointerInv, NoDanglingPointer
<1>11. \A n \in DOMAIN pins : /\ root = pins[n].id => nr = pins[n].id
                              /\ handles[pins[n].id] > 0 => handles[pins[n].id] > 0
  BY <1>1
<1> QED
  BY <1>1, <1>4, <1>6, <1>7, <1>8, <1>9, <1>10, <1>11, AllocateStep

-----------------------------------------------------------------------------
(* Checkpoint, crash and recovery.                                         *)

\* A checkpoint's first step leaves no page dirty and changes no node.
LEMMA WriteBackStep ==
  ASSUME SwapInvariant, WriteBackDirtyPages
  PROVE  SwapInvariant' /\ HeapKept
<1> DEFINE E == {i \in lru_pqueue : objects[i].dirty}
<1>1. /\ Ready /\ pins = << >> /\ TreeShaped /\ step' = "map"
      /\ WriteOut(E, objects, lru_pqueue, current_in_memory_objects)
      /\ UNCHANGED <<next_id, next_access_time, root_id, root, handles, pins, dropping,
                     version_map, crashes>>
  BY DEF WriteBackDirtyPages
<1>2. /\ E \in SUBSET lru_pqueue /\ E \in SUBSET Ids
      /\ \A i \in DOMAIN objects : objects[i].dirty => i \in E
  BY Facts DEF CacheOk
<1> HIDE DEF E
<1>3. CacheOk(objects, lru_pqueue) /\ FilesTyped
  BY Facts
<1>4. /\ CacheOk(objects, lru_pqueue)' /\ FilesTyped'
      /\ DOMAIN objects' = DOMAIN objects
      /\ \A i \in DOMAIN objects :
           /\ NodeOf(i)' = NodeIn(objects, i)
           /\ objects'[i].refcount = objects[i].refcount
           /\ objects'[i].pincount = objects[i].pincount
           /\ objects[i].version <= objects'[i].version
           /\ i \notin E => objects'[i] = objects[i]
           /\ i \in E => ~objects'[i].dirty
      /\ \A i \in Ids, v \in Nat :
           <<i, v>> \in DOMAIN files =>
             /\ <<i, v>> \in DOMAIN files'
             /\ (i \in DOMAIN objects => v <= objects[i].version)
                  => Stored(i, v)' = Stored(i, v)
  BY <1>1, <1>2, <1>3, WriteOutKeeps
<1>5. \A i \in DOMAIN objects : NodeOf(i)' = NodeOf(i)
  BY <1>4, Facts
<1>6. PointerInv' /\ \A i : Parents(i)' = Parents(i)
  BY <1>1, <1>4, <1>5, PointersKept DEF SwapInvariant
<1>7. current_in_memory_objects' \in 0..CounterModulus - 1
  BY <1>1, <1>2, Facts, CounterInRange
<1>8. SwapTypeOk'
  BY <1>1, <1>4, <1>7 DEF SwapInvariant, SwapTypeOk, CacheOk, FilesTyped
<1>9. PinInv'
  BY <1>1, <1>4 DEF SwapInvariant, PinInv
<1>10. StepInv'
  <2>1. \A i \in DOMAIN objects' : ~objects'[i].dirty
    BY <1>2, <1>4
  <2>2. TreeShaped'
    BY <1>1, <1>4, <1>6 DEF TreeShaped
  <2>3. Quiet'
    BY <1>1, <2>1, <2>2 DEF Quiet, Ready
  <2> QED
    BY <1>1, <1>4, <2>3 DEF SwapInvariant, StepInv
<1>11. SavedInv' /\ SavedHeap' = SavedHeap
  <2>1. ASSUME NEW i \in DOMAIN version_map.versions
        PROVE  /\ <<i, version_map.versions[i]>> \in DOMAIN files'
               /\ Stored(i, version_map.versions[i])' = Stored(i, version_map.versions[i])
               /\ step' # "down" => i <= next_id'
               /\ i \in DOMAIN objects' => version_map.versions[i] <= objects'[i].version
    <3>1. /\ i \in Ids /\ version_map.versions[i] \in Nat /\ i <= next_id
          /\ <<i, version_map.versions[i]>> \in DOMAIN files
          /\ i \in DOMAIN objects => version_map.versions[i] <= objects[i].version
      BY <1>1 DEF SwapInvariant, SavedInv, Ready
    <3>2. i \in DOMAIN objects => objects[i].version \in Nat /\ objects'[i].version \in Nat
      BY <1>3, <1>4, ObjectFields DEF CacheOk
    <3>3. PICK v : v = version_map.versions[i]
      OBVIOUS
    <3>4. <<i, v>> \in DOMAIN files' /\ Stored(i, v)' = Stored(i, v)
      BY <1>4, <3>1, <3>3
    <3>5. i \in DOMAIN objects => version_map.versions[i] <= objects'[i].version
      BY <1>4, <3>1, <3>2
    <3> QED
      BY <1>1, <1>4, <3>1, <3>3, <3>4, <3>5
  <2> QED
    BY <1>1, <2>1, SavedKept DEF SwapInvariant
<1> QED
  BY <1>4, <1>5, <1>6, <1>8, <1>9, <1>10, <1>11 DEF SwapInvariant, HeapKept, NodesKept

\* While a checkpoint runs, the recorded versions are those of the live objects, and
\* their files hold the nodes.
LEMMA QuietFiles ==
  ASSUME SwapInvariant, Quiet
  PROVE  /\ DOMAIN objects_to_versions = DOMAIN objects
         /\ \A i \in DOMAIN objects :
              /\ objects_to_versions[i] = objects[i].version
              /\ objects_to_versions[i] \in Nat /\ i \in Ids
              /\ <<i, objects_to_versions[i]>> \in DOMAIN files
              /\ Stored(i, objects_to_versions[i]) = NodeOf(i)
<1>1. DOMAIN objects_to_versions \subseteq DOMAIN objects
  BY Facts DEF CacheOk
<1>2. ASSUME NEW i \in DOMAIN objects
      PROVE  /\ i \in DOMAIN objects_to_versions
             /\ objects_to_versions[i] = objects[i].version
             /\ objects_to_versions[i] \in Nat /\ i \in Ids
             /\ <<i, objects_to_versions[i]>> \in DOMAIN files
             /\ Stored(i, objects_to_versions[i]) = NodeOf(i)
  <2>1. ~objects[i].dirty /\ objects[i].version \in Nat /\ i \in Ids
    BY Facts, ObjectFields DEF Quiet
  <2>2. /\ <<i, objects[i].version>> \in DOMAIN files
        /\ NodeIn(objects, i) = files[<<i, objects[i].version>>]
        /\ i \in DOMAIN objects_to_versions
        /\ objects_to_versions[i] = objects[i].version
    BY <2>1, Facts DEF CacheOk
  <2>3. Stored(i, objects[i].version) = NodeOf(i)
    BY <2>2, Facts, StoredFile
  <2> QED
    BY <2>1, <2>2, <2>3
<1> QED
  BY <1>1, <1>2

LEMMA WriteVersionMapStep ==
  ASSUME SwapInvariant, WriteVersionMap
  PROVE  /\ SwapInvariant' /\ NodesKept
         /\ DOMAIN version_map'.versions = DOMAIN objects
         /\ \A i \in DOMAIN objects : SavedHeap'[i] = NodeOf(i)
<1>1. /\ step = "map" /\ step' = "delete"
      /\ version_map'
           = [versions |-> objects_to_versions, next_id |-> next_id, root |-> root_id]
      /\ UNCHANGED <<objects, lru_pqueue, current_in_memory_objects, objects_to_versions,
                     next_id, next_access_time, root_id, root, handles, pins, dropping,
                     files, crashes>>
  BY DEF WriteVersionMap, cacheVars
<1>2. /\ version_map'.versions = objects_to_versions
      /\ version_map'.next_id = next_id /\ version_map'.root = root_id
  BY <1>1
<1>3. Quiet
  BY <1>1 DEF SwapInvariant, StepInv
<1>4. /\ DOMAIN objects_to_versions = DOMAIN objects
      /\ \A i \in DOMAIN objects :
           /\ objects_to_versions[i] = objects[i].version
           /\ objects_to_versions[i] \in Nat /\ i \in Ids
           /\ <<i, objects_to_versions[i]>> \in DOMAIN files
           /\ Stored(i, objects_to_versions[i]) = NodeOf(i)
  BY <1>3, QuietFiles
<1>5. \A i \in DOMAIN objects : NodeOf(i)' = NodeOf(i)
  BY <1>1 DEF NodeOf, Stored
<1>6. PointerInv' /\ \A i : Parents(i)' = Parents(i)
  BY <1>1, <1>5, PointersKept DEF SwapInvariant
<1>7. SwapTypeOk' /\ CacheOk(objects, lru_pqueue)'
  BY <1>1, Facts DEF SwapInvariant, SwapTypeOk, CacheOk, NodeIn, Stored
<1>8. PinInv'
  BY <1>1 DEF SwapInvariant, PinInv, Resident, NodeOf, Stored
<1>9. StepInv'
  <2>1. Quiet'
    BY <1>1, <1>3, <1>6 DEF Quiet, TreeShaped
  <2> QED
    BY <1>1, <1>2, <2>1 DEF SwapInvariant, StepInv
<1>10. \A i \in DOMAIN objects : SavedHeap'[i] = NodeOf(i)
  BY <1>1, <1>2, <1>4 DEF SavedHeap, Stored
<1>11. SavedInv'
  <2>1. \A i \in DOMAIN objects : SavedHeap'[i] = NodeOf(i)
    BY <1>10
  <2>2. \A i : SavedParents(i)' = Parents(i)
    BY <1>2, <1>4, <2>1 DEF SavedParents, Parents
  <2>3. root_id \in {0, root} /\ \A i \in DOMAIN objects : i <= next_id
    BY DEF SwapInvariant, StepInv
  <2>4. 0 \notin DOMAIN objects
    <3>1. 0 \notin Ids
      BY SwapBoundsAssumption DEF Ids
    <3> QED
      BY <1>4, <3>1
  <2>5. ASSUME NEW i \in DOMAIN objects, root_id \in DOMAIN objects
        PROVE  Cardinality(SavedParents(i)') = IF i = root_id THEN 0 ELSE 1
    <3>1. Cardinality(Parents(i)) = IF i = root THEN 0 ELSE 1
      BY <1>3 DEF Quiet, TreeShaped
    <3>2. root_id = root
      BY <2>3, <2>4, <2>5
    <3>3. SavedParents(i)' = Parents(i)
      BY <2>2
    <3> QED
      BY <3>1, <3>2, <3>3
  <2>6. \A i \in DOMAIN objects : /\ SavedHeap'[i].kids \subseteq DOMAIN objects
                                  /\ objects_to_versions[i] <= objects[i].version
    <3>1. \A i \in DOMAIN objects : NodeOf(i).kids \subseteq DOMAIN objects
      BY DEF SwapInvariant, PointerInv, NoDanglingPointer
    <3>2. ASSUME NEW i \in DOMAIN objects
          PROVE  objects_to_versions[i] <= objects[i].version
      <4>1. objects_to_versions[i] = objects[i].version /\ objects_to_versions[i] \in Nat
        BY <1>4
      <4> QED
        BY <4>1
    <3> QED
      BY <2>1, <3>1, <3>2
  <2>7. next_id \in Nat \ {0} /\ DOMAIN objects \subseteq Ids
    BY <1>4, Facts
  <2> QED
    BY <1>1, <1>2, <1>4, <2>3, <2>5, <2>6, <2>7 DEF SavedInv
<1> QED
  BY <1>1, <1>2, <1>4, <1>5, <1>6, <1>7, <1>8, <1>9, <1>10, <1>11 DEF SwapInvariant, NodesKept

\* Deleting old versions keeps every file that is current.
LEMMA DeleteOldVersionStep ==
  ASSUME SwapInvariant, DeleteOldVersion
  PROVE  SwapInvariant' /\ HeapKept
<1> DEFINE kept == {g \in DOMAIN files : g[1] \in DOMAIN objects_to_versions
                                           => g[2] >= objects_to_versions[g[1]]}
<1>1. /\ step = "delete" /\ step' = "ready"
      /\ files' = [f \in kept |-> files[f]]
      /\ UNCHANGED <<objects, lru_pqueue, current_in_memory_objects, objects_to_versions,
                     next_id, next_access_time, root_id, root, handles, pins, dropping,
                     version_map, crashes>>
  BY DEF DeleteOldVersion, cacheVars
<1>2. Quiet /\ version_map.versions = objects_to_versions
  BY <1>1 DEF SwapInvariant, StepInv
<1>3. /\ DOMAIN objects_to_versions = DOMAIN objects
      /\ \A i \in DOMAIN objects :
           /\ objects_to_versions[i] = objects[i].version
           /\ objects_to_versions[i] \in Nat /\ i \in Ids
           /\ <<i, objects_to_versions[i]>> \in DOMAIN files
           /\ Stored(i, objects_to_versions[i]) = NodeOf(i)
  BY <1>2, QuietFiles
<1>4. ASSUME NEW i \in DOMAIN objects
      PROVE  /\ <<i, objects[i].version>> \in DOMAIN files'
             /\ files'[<<i, objects[i].version>>] = files[<<i, objects[i].version>>]
  <2>1. /\ objects[i].version \in Nat /\ objects_to_versions[i] = objects[i].version
        /\ <<i, objects[i].version>> \in DOMAIN files
    <3>1. objects_to_versions[i] = objects[i].version /\ objects_to_versions[i] \in Nat
      BY <1>3
    <3>2. <<i, objects_to_versions[i]>> \in DOMAIN files
      BY <1>3
    <3> QED
      BY <3>1, <3>2
  <2>2. PICK v : v = objects[i].version
    OBVIOUS
  <2>3. <<i, v>> \in DOMAIN files /\ v >= objects_to_versions[i]
    BY <2>1, <2>2
  <2>4. <<i, v>>[1] = i /\ <<i, v>>[2] = v
    OBVIOUS
  <2>5. <<i, objects[i].version>> \in kept
    BY <2>2, <2>3, <2>4
  <2> QED
    BY <1>1, <2>5
<1>5. DOMAIN files' \subseteq DOMAIN files /\ \A f \in DOMAIN files' : files'[f] = files[f]
  BY <1>1
<1> HIDE DEF kept
<1>6. ASSUME NEW i \in DOMAIN objects
      PROVE  /\ NodeOf(i)' = NodeOf(i)
             /\ NodeIn(objects, i)' = NodeIn(objects, i)
             /\ Stored(i, objects[i].version)' = Stored(i, objects[i].version)
  <2>1. Stored(i, objects[i].version)' = Stored(i, objects[i].version)
    BY <1>1, <1>3, <1>4 DEF Stored
  <2> QED
    BY <1>1, <2>1 DEF NodeOf, NodeIn
<1>7. PointerInv' /\ \A i : Parents(i)' = Parents(i)
  BY <1>1, <1>6, PointersKept DEF SwapInvariant
<1>8. CacheOk(objects, lru_pqueue)'
  <2>1. \A i \in DOMAIN objects : ~objects[i].dirty =>
          /\ <<i, objects[i].version>> \in DOMAIN files'
          /\ NodeIn(objects, i)' = files'[<<i, objects[i].version>>]
          /\ i \in DOMAIN objects_to_versions
          /\ objects_to_versions[i] = objects[i].version
    BY <1>4, <1>6, Facts DEF CacheOk
  <2>2. \A i \in DOMAIN objects :
          objects[i].target = NULL => (objects[i].is_leaf <=> NodeIn(objects, i)'.kids = {})
    BY <1>6, Facts DEF CacheOk
  <2>3. CacheOk(objects, lru_pqueue)
    BY Facts
  <2> HIDE DEF NodeIn
  <2> QED
    BY <1>1, <2>1, <2>2, <2>3 DEF CacheOk
<1>9. SwapTypeOk'
  BY <1>1, <1>5 DEF SwapInvariant, SwapTypeOk
<1>10. PinInv'
  <2>1. pins = << >>
    BY <1>2 DEF Quiet
  <2> QED
    BY <1>1, <2>1 DEF SwapInvariant, PinInv
<1>11. StepInv'
  BY <1>1 DEF SwapInvariant, StepInv
<1>12. SavedInv' /\ SavedHeap' = SavedHeap
  <2>1. ASSUME NEW i \in DOMAIN version_map.versions
        PROVE  /\ <<i, version_map.versions[i]>> \in DOMAIN files'
               /\ Stored(i, version_map.versions[i])' = Stored(i, version_map.versions[i])
               /\ step' # "down" => i <= next_id'
               /\ i \in DOMAIN objects' => version_map.versions[i] <= objects'[i].version
    <3>1. i \in DOMAIN objects /\ version_map.versions[i] = objects[i].version
      BY <1>2, <1>3
    <3>2. Stored(i, version_map.versions[i])' = Stored(i, version_map.versions[i])
      BY <1>1, <1>4, <3>1, <1>3, <1>2 DEF Stored
    <3>3. i <= next_id /\ version_map.versions[i] <= objects[i].version
      BY <1>1, <3>1 DEF SwapInvariant, SavedInv
    <3> QED
      BY <1>1, <1>4, <3>1, <3>2, <3>3
  <2> QED
    BY <1>1, <2>1, SavedKept DEF SwapInvariant
<1> QED
  BY <1>1, <1>6, <1>7, <1>8, <1>9, <1>10, <1>11, <1>12
  DEF SwapInvariant, HeapKept, NodesKept

\* A state with no process: everything in memory is gone.
Down ==
  /\ objects = << >> /\ lru_pqueue = {} /\ current_in_memory_objects = 0
  /\ objects_to_versions = << >> /\ next_id = 1 /\ next_access_time = 0
  /\ root_id = 0 /\ root = 0
  /\ handles = NoPointers /\ pins = << >> /\ dropping = NoPointers
  /\ step = "down" /\ crashes \in 0..MaxCrashes

LEMMA NothingRuns == Down /\ FilesTyped /\ SavedInv => SwapInvariant
<1> SUFFICES ASSUME Down, FilesTyped, SavedInv PROVE SwapInvariant
  OBVIOUS
<1> USE DEF Down
<1>1. DOMAIN objects = {} /\ DOMAIN pins = {} /\ DOMAIN objects_to_versions = {}
  OBVIOUS
<1>2. SwapTypeOk
  <2>1. handles \in [Ids -> Nat] /\ dropping \in [Ids -> Nat]
    BY DEF NoPointers
  <2>2. pins \in Seq([id : Ids, writable : BOOLEAN])
    BY EmptySeq
  <2>3. 0 \in 0..MaxId /\ 0 \in 0..CounterModulus - 1
    BY SwapBoundsAssumption, CacheAssumption
  <2> QED
    BY <1>1, <2>1, <2>2, <2>3 DEF SwapTypeOk, FilesTyped
<1>3. CacheOk(objects, lru_pqueue)
  BY <1>1 DEF CacheOk
<1>4. PointerInv
  BY <1>1 DEF PointerInv, RefCountsExact, NoDanglingPointer, NoPointers, Ids
<1>5. PinInv
  BY <1>1 DEF PinInv
<1>6. StepInv
  BY <1>1 DEF StepInv
<1> QED
  BY <1>2, <1>3, <1>4, <1>5, <1>6 DEF SwapInvariant

LEMMA InitInvariant ==
  ASSUME Init
  PROVE  SwapInvariant
<1>1. Down /\ FilesTyped
  BY SwapBoundsAssumption DEF Init, Down, FilesTyped
<1>2. SavedInv
  <2>1. version_map = NoMap /\ DOMAIN version_map.versions = {}
    BY DEF Init, NoMap
  <2> QED
    BY <2>1 DEF SavedInv
<1> QED
  BY <1>1, <1>2, NothingRuns

LEMMA CrashStep ==
  ASSUME SwapInvariant, Crash
  PROVE  SwapInvariant' /\ SavedHeap' = SavedHeap
<1>1. Down'
  <2>1. crashes' \in 0..MaxCrashes
    BY SwapBoundsAssumption DEF SwapInvariant, SwapTypeOk, Crash
  <2> QED
    BY <2>1 DEF Crash, Down, NoPointers
<1>2. FilesTyped'
  BY Facts DEF Crash, diskVars, FilesTyped
<1>3. SavedInv' /\ SavedHeap' = SavedHeap
  <2>1. ASSUME NEW i \in DOMAIN version_map.versions
        PROVE  /\ <<i, version_map.versions[i]>> \in DOMAIN files'
               /\ Stored(i, version_map.versions[i])' = Stored(i, version_map.versions[i])
               /\ step' # "down" => i <= next_id'
               /\ i \in DOMAIN objects' => version_map.versions[i] <= objects'[i].version
    <3>1. DOMAIN objects' = {} /\ step' = "down"
      BY DEF Crash
    <3> QED
      BY <3>1 DEF Crash, diskVars, SwapInvariant, SavedInv, Stored
  <2> QED
    BY <2>1, SavedKept DEF SwapInvariant, Crash, diskVars
<1>4. (Down /\ FilesTyped /\ SavedInv)' => SwapInvariant'
  BY NothingRuns, PTL
<1> QED
  BY <1>1, <1>2, <1>3, <1>4

\* A new tree.
LEMMA BootEmptyStep ==
  ASSUME SwapInvariant, BootEmpty
  PROVE  /\ SwapInvariant' /\ SavedHeap' = SavedHeap
         /\ DOMAIN version_map.versions = {}
         /\ 2 \in Ids /\ DOMAIN objects' = {2} /\ NodeOf(2)' = NewNode /\ root' = 2
<1> DEFINE objs == [i \in {2} |-> NewObject]
<1>1. /\ step = "down" /\ version_map = NoMap /\ step' = "ready"
      /\ next_id' = next_id + 2 /\ next_access_time' = next_access_time + 1
      /\ root' = next_id + 1 /\ root_id' = next_id + 1
      /\ MaybeEvictSomething([i \in {next_id + 1} |-> NewObject], {next_id + 1},
                             1 % CounterModulus)
      /\ UNCHANGED <<handles, pins, dropping, version_map, crashes>>
  BY DEF BootEmpty, NewObject
<1>2. /\ objects = << >> /\ objects_to_versions = << >> /\ next_id = 1
      /\ handles = NoPointers /\ dropping = NoPointers /\ pins = << >>
  BY <1>1 DEF SwapInvariant, StepInv
<1>3. /\ next_id' = 3 /\ root' = 2 /\ root_id' = 2 /\ 2 \in Ids /\ 2 \in 0..MaxId
      /\ MaybeEvictSomething(objs, {2}, 1 % CounterModulus)
      /\ next_access_time' \in Nat /\ next_access_time \in Nat
  <2>1. 2 \in Ids /\ 2 \in 0..MaxId
    BY SwapBoundsAssumption DEF Ids
  <2>2. next_id + 1 = 2
    BY <1>2
  <2> QED
    BY <1>1, <1>2, <2>1, <2>2, Facts
<1>4. /\ NewNode \in Node /\ NewNode.kids = {} /\ NewNode # NULL
      /\ NewObject \in Object
      /\ NewObject.target = NewNode /\ NewObject.version = 0 /\ NewObject.dirty
      /\ NewObject.refcount = 1 /\ NewObject.pincount = 0
  BY <1>3, NewObjectTyped
<1>5. DOMAIN objs = {2} /\ objs[2] = NewObject
  OBVIOUS
<1> HIDE DEF objs
<1>6. CacheOk(objs, {2})
  <2>1. {2} = {i \in DOMAIN objs : objs[i].target # NULL}
    BY <1>4, <1>5
  <2>2. DOMAIN objects_to_versions \subseteq DOMAIN objs
    BY <1>2
  <2> QED
    BY <1>3, <1>4, <1>5, <2>1, <2>2 DEF CacheOk
<1>7. 1 % CounterModulus \in Nat
  BY ModRange, CacheAssumption
<1>8. /\ KeepsNodes(objs)
      /\ current_in_memory_objects' \in 0..CounterModulus - 1
  BY <1>3, <1>6, <1>7, Facts, EvictionKeeps
<1>9. /\ CacheOk(objects, lru_pqueue)' /\ FilesTyped'
      /\ DOMAIN objects' = {2}
      /\ NodeOf(2)' = NewNode /\ objects'[2].refcount = 1 /\ objects'[2].pincount = 0
  BY <1>4, <1>5, <1>8 DEF KeepsNodes, NodeIn
<1>10. SwapTypeOk'
  BY <1>1, <1>3, <1>8, <1>9 DEF SwapInvariant, SwapTypeOk, CacheOk, FilesTyped
<1>11. PointerInv'
  <2>1. Parents(2)' = {}
    BY <1>4, <1>9 DEF Parents
  <2>2. Cardinality(Parents(2)') = 0
    BY <2>1, FS_EmptySet
  <2>3. handles'[2] = 0 /\ dropping'[2] = 0
    BY <1>1, <1>2, <1>3 DEF NoPointers
  <2>4. RefCountsExact'
    BY <1>3, <1>9, <2>2, <2>3 DEF RefCountsExact
  <2>5. NoDanglingPointer'
    <3>1. \A i \in Ids : handles'[i] = 0 /\ dropping'[i] = 0
      BY <1>1, <1>2 DEF NoPointers
    <3> QED
      BY <1>3, <1>4, <1>9, <3>1 DEF NoDanglingPointer
  <2> QED
    BY <2>4, <2>5 DEF PointerInv
<1>12. PinInv'
  <2>1. pins' = << >> /\ DOMAIN pins' = {}
    BY <1>1, <1>2
  <2>2. \A i : PinsOf(i)' = {}
    BY <2>1 DEF PinsOf
  <2> QED
    BY <1>9, <2>1, <2>2, FS_EmptySet DEF PinInv, PinsOf
<1>13. StepInv'
  BY <1>1, <1>3, <1>9 DEF StepInv
<1>14. SavedInv'
  <2>1. version_map' = NoMap /\ DOMAIN version_map'.versions = {}
    BY <1>1 DEF NoMap
  <2> QED
    BY <2>1 DEF SavedInv
<1>15. SavedHeap' = SavedHeap /\ DOMAIN version_map.versions = {}
  <2>1. DOMAIN version_map.versions = {} /\ version_map' = version_map
    BY <1>1 DEF NoMap
  <2> QED
    BY <2>1 DEF SavedHeap
<1> QED
  BY <1>3, <1>9, <1>10, <1>11, <1>12, <1>13, <1>14, <1>15 DEF SwapInvariant

\* Recovery: the map's tree becomes the live objects, each with one pointer.
LEMMA BootFromMapStep ==
  ASSUME SwapInvariant, BootFromMap
  PROVE  /\ SwapInvariant' /\ SavedHeap' = SavedHeap
         /\ DOMAIN objects' = DOMAIN version_map.versions
         /\ \A i \in DOMAIN objects' : NodeOf(i)' = SavedHeap[i]
         /\ root' \in DOMAIN version_map.versions
<1> DEFINE V == version_map.versions
<1>1. /\ step = "down" /\ version_map # NoMap /\ version_map.root \in DOMAIN V
      /\ step' = "ready" /\ objects_to_versions' = V
      /\ objects' = [i \in DOMAIN V |-> RebuiltObject(i)]
      /\ next_id' = version_map.next_id
      /\ next_access_time' = next_access_time + Cardinality(DOMAIN V)
      /\ root' = version_map.root /\ root_id' \in {0, version_map.root}
      /\ UNCHANGED <<lru_pqueue, current_in_memory_objects, handles, pins, dropping,
                     files, version_map, crashes>>
  BY DEF BootFromMap, diskVars
<1>2. /\ objects = << >> /\ lru_pqueue = {}
      /\ handles = NoPointers /\ dropping = NoPointers /\ pins = << >>
  BY <1>1 DEF SwapInvariant, StepInv
<1>3. /\ DOMAIN V \subseteq Ids /\ version_map.next_id \in Nat \ {0}
      /\ \A i \in DOMAIN V :
           /\ V[i] \in Nat /\ <<i, V[i]>> \in DOMAIN files /\ i <= version_map.next_id
           /\ SavedHeap[i].kids \subseteq DOMAIN V
           /\ Cardinality(SavedParents(i)) = IF i = version_map.root THEN 0 ELSE 1
           /\ SavedHeap[i] = Stored(i, V[i])
           /\ files[<<i, V[i]>>] = SavedHeap[i] /\ SavedHeap[i] \in Node
  <2>1. \A i \in DOMAIN V : SavedHeap[i] = Stored(i, V[i])
    BY DEF SavedHeap
  <2>2. \A i \in DOMAIN V : <<i, V[i]>> \in DOMAIN files
    BY DEF SwapInvariant, SavedInv
  <2>3. \A i \in DOMAIN V : files[<<i, V[i]>>] = SavedHeap[i] /\ SavedHeap[i] \in Node
    BY <2>1, <2>2, Facts, StoredFile DEF FilesTyped
  <2> QED
    BY <1>1, <2>1, <2>2, <2>3 DEF SwapInvariant, SavedInv
<1>4. DOMAIN objects' = DOMAIN V /\ version_map' = version_map /\ files' = files
  BY <1>1
<1>5. ASSUME NEW i \in DOMAIN V
      PROVE  /\ objects'[i] \in Object
             /\ objects'[i].target = NULL /\ objects'[i].version = V[i]
             /\ objects'[i].is_leaf <=> SavedHeap[i].kids = {}
             /\ objects'[i].refcount = 1 /\ ~objects'[i].dirty /\ objects'[i].pincount = 0
  <2> DEFINE b == Stored(i, V[i]).kids = {}
  <2>1. objects'[i] = [target |-> NULL, version |-> V[i], is_leaf |-> b,
                       refcount |-> 1, last_access |-> 0, dirty |-> FALSE, pincount |-> 0]
    BY <1>1 DEF RebuiltObject, RebuiltWithCount
  <2>2. b \in BOOLEAN /\ V[i] \in Nat
    BY <1>3
  <2>3. b <=> SavedHeap[i].kids = {}
    BY <1>3
  <2> HIDE DEF b
  <2> QED
    BY <2>1, <2>2, <2>3 DEF Object
<1>6. \A i \in DOMAIN V : NodeOf(i)' = SavedHeap[i] /\ NodeIn(objects, i)' = SavedHeap[i]
  BY <1>3, <1>4, <1>5 DEF NodeOf, NodeIn, Stored
<1>7. \A i : Parents(i)' = SavedParents(i)
  BY <1>4, <1>6 DEF Parents, SavedParents
<1> HIDE DEF V
<1>8. CacheOk(objects, lru_pqueue)'
  <2>1. lru_pqueue' = {i \in DOMAIN objects' : objects'[i].target # NULL}
    BY <1>1, <1>2, <1>4, <1>5
  <2>2. \A i \in DOMAIN objects' :
          /\ <<i, objects'[i].version>> \in DOMAIN files'
          /\ NodeIn(objects, i)' = files'[<<i, objects'[i].version>>]
          /\ i \in DOMAIN objects_to_versions'
          /\ objects_to_versions'[i] = objects'[i].version
          /\ objects'[i].is_leaf <=> NodeIn(objects, i)'.kids = {}
          /\ ~objects'[i].dirty /\ objects'[i] \in Object
    <3> SUFFICES ASSUME NEW i \in DOMAIN V
                 PROVE  /\ <<i, objects'[i].version>> \in DOMAIN files'
                        /\ NodeIn(objects, i)' = files'[<<i, objects'[i].version>>]
                        /\ i \in DOMAIN objects_to_versions'
                        /\ objects_to_versions'[i] = objects'[i].version
                        /\ objects'[i].is_leaf <=> NodeIn(objects, i)'.kids = {}
                        /\ ~objects'[i].dirty /\ objects'[i] \in Object
      BY <1>4
    <3>1. objects'[i].version = V[i] /\ ~objects'[i].dirty /\ objects'[i] \in Object
      BY <1>5
    <3>2. NodeIn(objects, i)' = SavedHeap[i] /\ <<i, V[i]>> \in DOMAIN files
          /\ files[<<i, V[i]>>] = SavedHeap[i]
      BY <1>3, <1>6
    <3>3. objects'[i].is_leaf <=> NodeIn(objects, i)'.kids = {}
      BY <1>5, <3>2
    <3> QED
      BY <1>1, <1>4, <3>1, <3>2, <3>3
  <2> HIDE DEF NodeIn
  <2> QED
    BY <1>1, <1>3, <1>4, <2>1, <2>2 DEF CacheOk
<1>9. SwapTypeOk'
  <2>1. FilesTyped'
    BY <1>4, Facts DEF FilesTyped
  <2>2. next_access_time' \in Nat
    <3>1. Cardinality(DOMAIN V) \in Nat
      BY <1>3, IdsFinite
    <3> QED
      BY <1>1, <3>1, Facts
  <2>3. root' \in 0..MaxId /\ root_id' \in 0..MaxId
    BY <1>1, <1>3, SwapBoundsAssumption DEF Ids
  <2> QED
    BY <1>1, <1>3, <1>8, <2>1, <2>2, <2>3
    DEF SwapInvariant, SwapTypeOk, CacheOk, FilesTyped
<1>10. PointerInv'
  <2>1. \A i \in Ids : handles'[i] = 0 /\ dropping'[i] = 0
    BY <1>1, <1>2 DEF NoPointers
  <2>2. RefCountsExact'
    <3> SUFFICES ASSUME NEW i \in DOMAIN V
                 PROVE  objects'[i].refcount
                          = Cardinality(Parents(i)') + handles'[i] + dropping'[i]
                            + (IF root' = i THEN 1 ELSE 0)
      BY <1>4 DEF RefCountsExact
    <3>1. Cardinality(Parents(i)') = IF i = version_map.root THEN 0 ELSE 1
      BY <1>3, <1>7
    <3>2. i \in Ids
      BY <1>3
    <3> QED
      BY <1>1, <1>5, <2>1, <3>1, <3>2
  <2>3. NoDanglingPointer'
    <3>1. ASSUME NEW i \in Ids, handles'[i] + dropping'[i] > 0 \/ root' = i
          PROVE  i \in DOMAIN objects'
      <4>1. handles'[i] = 0 /\ dropping'[i] = 0
        BY <2>1
      <4> QED
        BY <1>1, <1>4, <3>1, <4>1
    <3>2. \A i \in DOMAIN V : NodeOf(i)'.kids \subseteq DOMAIN V
      BY <1>3, <1>6
    <3> QED
      BY <1>4, <3>1, <3>2 DEF NoDanglingPointer
  <2> QED
    BY <2>2, <2>3 DEF PointerInv
<1>11. PinInv'
  <2>1. pins' = << >> /\ DOMAIN pins' = {}
    BY <1>1, <1>2
  <2>2. \A i : PinsOf(i)' = {}
    BY <2>1 DEF PinsOf
  <2> QED
    BY <1>4, <1>5, <2>1, <2>2, FS_EmptySet DEF PinInv, PinsOf
<1>12. StepInv'
  BY <1>1, <1>3, <1>4 DEF StepInv
<1>13. SavedInv' /\ SavedHeap' = SavedHeap
  <2>1. ASSUME NEW i \in DOMAIN version_map.versions
        PROVE  /\ <<i, version_map.versions[i]>> \in DOMAIN files'
               /\ Stored(i, version_map.versions[i])' = Stored(i, version_map.versions[i])
               /\ step' # "down" => i <= next_id'
               /\ i \in DOMAIN objects' => version_map.versions[i] <= objects'[i].version
    <3>1. i \in DOMAIN V /\ V[i] \in Nat /\ objects'[i].version = V[i]
      BY <1>3, <1>5 DEF V
    <3> QED
      BY <1>1, <1>3, <1>4, <3>1 DEF V, Stored
  <2> QED
    BY <1>4, <2>1, SavedKept DEF SwapInvariant
<1> QED
  BY <1>1, <1>4, <1>6, <1>8, <1>9, <1>10, <1>11, <1>12, <1>13 DEF SwapInvariant, V

-----------------------------------------------------------------------------
(* Theorems.                                                               *)

LEMMA StutterStep ==
  ASSUME SwapInvariant, UNCHANGED vars
  PROVE  SwapInvariant'
<1>1. UNCHANGED <<objects, lru_pqueue, current_in_memory_objects, objects_to_versions,
                  next_id, next_access_time, root_id, root, handles, pins, dropping, step,
                  files, version_map, crashes>>
  BY DEF vars, cacheVars, clientVars, diskVars
<1>2. SwapTypeOk' /\ CacheOk(objects, lru_pqueue)'
  BY <1>1, Facts DEF SwapInvariant, SwapTypeOk, CacheOk, NodeIn, Stored
<1>3. \A i \in DOMAIN objects : NodeOf(i)' = NodeOf(i)
  BY <1>1, SameNode
<1>4. PointerInv' /\ \A i : Parents(i)' = Parents(i)
  BY <1>1, <1>3, PointersKept DEF SwapInvariant
<1>5. PinInv'
  BY <1>1 DEF SwapInvariant, PinInv, Resident, NodeOf, Stored
<1>6. StepInv'
  BY <1>1, <1>4 DEF SwapInvariant, StepInv, Quiet, TreeShaped
<1>7. SavedInv'
  <2>1. ASSUME NEW i \in DOMAIN version_map.versions
        PROVE  /\ <<i, version_map.versions[i]>> \in DOMAIN files'
               /\ Stored(i, version_map.versions[i])' = Stored(i, version_map.versions[i])
               /\ step' # "down" => i <= next_id'
               /\ i \in DOMAIN objects' => version_map.versions[i] <= objects'[i].version
    BY <1>1 DEF SwapInvariant, SavedInv, Stored
  <2> QED
    BY <1>1, <2>1, SavedKept DEF SwapInvariant
<1> QED
  BY <1>2, <1>4, <1>5, <1>6, <1>7 DEF SwapInvariant

LEMMA NextKeeps ==
  ASSUME SwapInvariant, [Next]_vars
  PROVE  SwapInvariant'
<1>1. CASE BootEmpty \/ BootFromMap
  BY <1>1, BootEmptyStep, BootFromMapStep
<1>2. CASE Allocate \/ AllocateRoot
  BY <1>2, AllocateLocalStep, AllocateRootStep
<1>3. CASE \E i \in Ids : \E writable \in BOOLEAN : Dereference(i, writable)
  BY <1>3, DereferenceStep
<1>4. CASE Unpin
  BY <1>4, UnpinStep
<1>5. CASE \E d \in Data : ChangeData(d)
  BY <1>5, ChangeDataStep
<1>6. CASE \E k \in Ids : AddKid(k) \/ CopyKid(k) \/ RemoveKid(k) \/ DropHandle(k)
  BY <1>6, AddKidStep, CopyKidStep, RemoveKidStep, DropHandleStep
<1>7. CASE \E i \in Ids : ReleaseShared(i) \/ ReleaseLast(i)
  BY <1>7, ReleaseSharedStep, ReleaseLastStep
<1>8. CASE WriteBackDirtyPages \/ WriteVersionMap \/ DeleteOldVersion
  BY <1>8, WriteBackStep, WriteVersionMapStep, DeleteOldVersionStep
<1>9. CASE Crash
  BY <1>9, CrashStep
<1>10. CASE UNCHANGED vars
  BY <1>10, StutterStep
<1> QED
  BY <1>1, <1>2, <1>3, <1>4, <1>5, <1>6, <1>7, <1>8, <1>9, <1>10 DEF Next

\* The inductive invariant of the swap space: every action of pointers, pins, eviction,
\* checkpoint and recovery keeps it (swap_space.hpp and swap_space.cpp).
THEOREM SwapInvariantHolds == Spec => []SwapInvariant
<1>1. Init => SwapInvariant
  BY InitInvariant
<1>2. SwapInvariant /\ [Next]_vars => SwapInvariant'
  BY NextKeeps
<1> QED
  BY <1>1, <1>2, PTL DEF Spec

\* Every variable of the swap space keeps its type: in particular, no reference count
\* and no pin count, uint64_t in swap_space.hpp, is lowered below 0.
THEOREM SwapTypeCorrect == Spec => []SwapTypeOk
<1>1. SwapInvariant => SwapTypeOk
  BY DEF SwapInvariant
<1> QED
  BY <1>1, SwapInvariantHolds, PTL

\* The count of every object is the number of pointers to it: the root's, local ones,
\* those being released, and those in nodes, in memory or in files (pointer of
\* swap_space.hpp, rebuildObjectMap of swap_space.cpp).
THEOREM PointersAreCounted == Spec => []RefCountsExact
<1>1. SwapInvariant => RefCountsExact
  BY DEF SwapInvariant, PointerInv
<1> QED
  BY <1>1, SwapInvariantHolds, PTL

\* No pointer leads to an object that is gone: the assertions on objects.count(target)
\* in swap_space.hpp hold.
THEOREM NothingDangles == Spec => []NoDanglingPointer
<1>1. SwapInvariant => NoDanglingPointer
  BY DEF SwapInvariant, PointerInv
<1> QED
  BY <1>1, SwapInvariantHolds, PTL

\* The memory a running member call uses is not evicted and not freed: what is pinned
\* is live and loaded (pin, maybe_evict_something and depoint of swap_space.hpp).
THEOREM PinsProtect == Spec => []PinnedIsResident
<1>1. SwapInvariant => PinnedIsResident
  BY DEF SwapInvariant, PinInv, PinnedIsResident
<1> QED
  BY <1>1, SwapInvariantHolds, PTL

\* No change is dropped by eviction, checkpoint or recovery: what is not flagged dirty
\* equals its current file, and what is flagged is in memory (write_back, access).
THEOREM NoChangeIsDropped == Spec => []CleanMatchesFile
<1>1. SwapInvariant => CleanMatchesFile
  <2> SUFFICES ASSUME SwapInvariant, NEW i \in DOMAIN objects
               PROVE  /\ ~objects[i].dirty =>
                           /\ <<i, objects[i].version>> \in DOMAIN files
                           /\ NodeOf(i) = Stored(i, objects[i].version)
                           /\ i \in DOMAIN objects_to_versions
                           /\ objects_to_versions[i] = objects[i].version
                      /\ objects[i].dirty => i \in Resident
    BY DEF CleanMatchesFile
  <2>1. CacheOk(objects, lru_pqueue) /\ NodeOf(i) = NodeIn(objects, i)
    BY Facts
  <2>2. CASE ~objects[i].dirty
    BY <2>1, <2>2, StoredFile DEF CacheOk
  <2>3. CASE objects[i].dirty
    BY <2>1, <2>3 DEF CacheOk, Resident
  <2> QED
    BY <2>2, <2>3
<1> QED
  BY <1>1, SwapInvariantHolds, PTL

\* The queue holds exactly the objects in memory, so that each of them can be evicted
\* and nothing else is (lru_pqueue of swap_space.hpp).
THEOREM QueueIsTrue == Spec => []QueueIsResident
<1>1. SwapInvariant => QueueIsResident
  BY Facts DEF CacheOk, QueueIsResident, Resident
<1> QED
  BY <1>1, SwapInvariantHolds, PTL

\* An evicted object is flagged a leaf exactly when its file has no kids, so that
\* depoint, which frees a leaf without loading it, leaks none.
THEOREM LeafFlagsAreTrue == Spec => []LeafFlagIsTrue
<1>1. SwapInvariant => LeafFlagIsTrue
  <2> SUFFICES ASSUME SwapInvariant PROVE LeafFlagIsTrue
    OBVIOUS
  <2>1. CacheOk(objects, lru_pqueue) /\ \A i \in DOMAIN objects : NodeOf(i) = NodeIn(objects, i)
    BY Facts
  <2> QED
    BY <2>1 DEF CacheOk, LeafFlagIsTrue, Resident
<1> QED
  BY <1>1, SwapInvariantHolds, PTL

-----------------------------------------------------------------------------
(* The swap space implements ObjectHeap: every action of SwapSpace is an   *)
(* action of the heap or leaves the heap alone.                            *)

\* The refinement mapping: heap, saved copy and what the client holds.
HeapNow == IF step = "down" THEN SavedHeap ELSE [i \in DOMAIN objects |-> NodeOf(i)]
Held    == {i \in Ids : root = i \/ handles[i] > 0}

HeapUnseen == UNCHANGED <<HeapNow, SavedHeap, Held>>

LEMMA HeapVarsMapped == (UNCHANGED Heap!heapVars) <=> HeapUnseen
BY DEF Heap!heapVars, HeapUnseen, HeapNow, Held

\* The heap of a running process.
LEMMA RunningHeap ==
  ASSUME step # "down"
  PROVE  /\ HeapNow = [i \in DOMAIN objects |-> NodeOf(i)]
         /\ DOMAIN HeapNow = DOMAIN objects
         /\ \A i \in DOMAIN objects : HeapNow[i] = NodeOf(i)
BY DEF HeapNow

HeldLive == Held \subseteq DOMAIN objects

LEMMA HeldIsLive == SwapInvariant => HeldLive
<1> SUFFICES ASSUME SwapInvariant, NEW i \in Held PROVE i \in DOMAIN objects
  BY DEF HeldLive
<1>1. i \in Followable
  BY DEF Held, Followable
<1> QED
  BY <1>1, FollowableIsLive

\* A step that keeps every node keeps the heap.
LEMMA KeptHeap ==
  ASSUME step # "down", step' # "down", NodesKept
  PROVE  HeapNow' = HeapNow
<1>1. HeapNow' = [i \in DOMAIN objects' |-> NodeOf(i)']
  BY DEF HeapNow
<1>2. HeapNow = [i \in DOMAIN objects |-> NodeOf(i)]
  BY DEF HeapNow
<1> QED
  BY <1>1, <1>2 DEF NodesKept

-----------------------------------------------------------------------------
(* Steps the heap does not see.                                            *)

LEMMA CachingIsUnseen ==
  ASSUME SwapInvariant,
         \/ \E i \in Ids, w \in BOOLEAN : Dereference(i, w)
         \/ Unpin \/ WriteBackDirtyPages \/ DeleteOldVersion
         \/ \E i \in Ids : ReleaseShared(i)
  PROVE  HeapUnseen
<1>1. HeapKept
  BY DereferenceStep, UnpinStep, WriteBackStep, DeleteOldVersionStep, ReleaseSharedStep
<1>2. UNCHANGED <<root, handles>>
  BY DEF Dereference, Unpin, WriteBackDirtyPages, DeleteOldVersion, ReleaseShared
<1>3. step # "down" /\ step' # "down"
  BY DroppingIsReady
  DEF Dereference, Unpin, WriteBackDirtyPages, DeleteOldVersion, ReleaseShared, Ready
<1>4. Held' = Held
  BY <1>2 DEF Held
<1>5. HeapNow' = HeapNow /\ SavedHeap' = SavedHeap
  BY <1>1, <1>3, KeptHeap DEF HeapKept
<1> QED
  BY <1>4, <1>5 DEF HeapUnseen

-----------------------------------------------------------------------------
(* Steps of the heap.                                                      *)

LEMMA HeapActions ==
  /\ \A i : Heap!Allocate(i) <=>
       /\ i \notin DOMAIN HeapNow
       /\ HeapNow' = [j \in DOMAIN HeapNow \cup {i} |->
                        IF j = i THEN NewNode ELSE HeapNow[j]]
       /\ Held' \subseteq Held \cup {i} /\ i \in Held'
       /\ SavedHeap' = SavedHeap
  /\ \A i, n : Heap!Write(i, n) <=>
       /\ i \in DOMAIN HeapNow
       /\ HeapNow' = [HeapNow EXCEPT ![i] = n]
       /\ SavedHeap' = SavedHeap /\ Held' = Held
  /\ Heap!Hold <=>
       /\ Held' \subseteq DOMAIN HeapNow
       /\ HeapNow' = HeapNow /\ SavedHeap' = SavedHeap
  /\ \A i : Heap!Free(i) <=>
       /\ i \in DOMAIN HeapNow \ Held
       /\ \A j \in DOMAIN HeapNow : i \notin HeapNow[j].kids
       /\ HeapNow' = [j \in DOMAIN HeapNow \ {i} |-> HeapNow[j]]
       /\ SavedHeap' = SavedHeap /\ Held' = Held
  /\ Heap!Checkpoint <=>
       /\ \A i \in DOMAIN HeapNow : HeapNow[i].kids \subseteq DOMAIN HeapNow
       /\ SavedHeap' = HeapNow
       /\ HeapNow' = HeapNow /\ Held' = Held
  /\ Heap!Crash <=> HeapNow' = SavedHeap /\ Held' = {} /\ SavedHeap' = SavedHeap
BY DEF Heap!Allocate, Heap!Write, Heap!Hold, Heap!Free, Heap!Checkpoint, Heap!Closed,
       Heap!Crash, HeapNow, Held

LEMMA AllocateImplements ==
  ASSUME SwapInvariant, Allocate \/ AllocateRoot
  PROVE  \E i \in Ids : Heap!Allocate(i)
<1>1. PICK id : id = next_id + 1
  OBVIOUS
<1>2. NodeAllocated(id)
  BY <1>1, AllocateLocalStep, AllocateRootStep
<1>3. step # "down" /\ step' # "down"
  BY DEF Allocate, AllocateRoot, AllocateObject, Ready
<1>4. /\ DOMAIN HeapNow = DOMAIN objects
      /\ \A i \in DOMAIN objects : HeapNow[i] = NodeOf(i)
  BY <1>3, RunningHeap
<1>5. HeapNow' = [j \in DOMAIN HeapNow \cup {id} |->
                    IF j = id THEN NewNode ELSE HeapNow[j]]
  <2>1. HeapNow' = [i \in DOMAIN objects' |-> NodeOf(i)']
    BY <1>3 DEF HeapNow
  <2>2. \A i \in DOMAIN objects' :
          NodeOf(i)' = IF i = id THEN NewNode ELSE HeapNow[i]
    BY <1>2, <1>4 DEF NodeAllocated
  <2> QED
    BY <1>2, <1>4, <2>1, <2>2 DEF NodeAllocated
<1>6. Held' \subseteq Held \cup {id} /\ id \in Held'
  <2>1. CASE Allocate
    <3>1. root' = root /\ handles' = [handles EXCEPT ![id] = @ + 1]
      BY <1>1, <2>1 DEF Allocate, AllocateObject
    <3>2. handles \in [Ids -> Nat] /\ id \in Ids
      BY <1>2, PointerCounts DEF NodeAllocated
    <3>3. handles'[id] > 0 /\ \A i \in Ids : i # id => handles'[i] = handles[i]
      BY <3>1, <3>2
    <3> QED
      BY <3>1, <3>2, <3>3 DEF Held
  <2>2. CASE AllocateRoot
    <3>1. root' = id /\ handles' = handles /\ id \in Ids
      BY <1>1, <1>2, <2>2 DEF AllocateRoot, AllocateObject, NodeAllocated
    <3> QED
      BY <3>1 DEF Held
  <2> QED
    BY <2>1, <2>2
<1>7. Heap!Allocate(id)
  BY <1>2, <1>4, <1>5, <1>6, HeapActions DEF NodeAllocated
<1> QED
  BY <1>2, <1>7 DEF NodeAllocated

LEMMA WriteImplements ==
  ASSUME SwapInvariant,
         \/ \E d \in Data : ChangeData(d)
         \/ \E k \in Ids : AddKid(k) \/ RemoveKid(k)
  PROVE  \E i \in Ids, n \in Node : Heap!Write(i, n)
<1>1. TopWritten
  BY ChangeDataStep, AddKidStep, RemoveKidStep
<1>2. /\ UNCHANGED <<root, handles>> /\ step # "down" /\ step' # "down"
  BY DEF ChangeData, AddKid, RemoveKid, Ready, clientVars
<1>3. PICK i : i = Top
  OBVIOUS
<1>4. PICK n \in Node : \A j \in DOMAIN objects :
                          NodeOf(j)' = IF j = i THEN n ELSE NodeOf(j)
  BY <1>1, <1>3 DEF TopWritten
<1>5. /\ i \in DOMAIN objects /\ DOMAIN objects' = DOMAIN objects
      /\ SavedHeap' = SavedHeap /\ i \in Ids
  BY <1>1, <1>3, Facts DEF TopWritten
<1>6. HeapNow = [j \in DOMAIN objects |-> NodeOf(j)]
  BY <1>2 DEF HeapNow
<1>7. HeapNow' = [j \in DOMAIN objects' |-> NodeOf(j)']
  BY <1>2 DEF HeapNow
<1>8. HeapNow' = [HeapNow EXCEPT ![i] = n]
  BY <1>4, <1>5, <1>6, <1>7
<1>9. Held' = Held /\ i \in DOMAIN HeapNow
  BY <1>2, <1>5, <1>6 DEF Held
<1>10. Heap!Write(i, n)
  BY <1>5, <1>8, <1>9, HeapActions
<1> QED
  BY <1>4, <1>5, <1>10

LEMMA HoldImplements ==
  ASSUME SwapInvariant, NEW k \in Ids, CopyKid(k) \/ DropHandle(k)
  PROVE  Heap!Hold
<1>1. SwapInvariant' /\ HeapKept
  BY CopyKidStep, DropHandleStep
<1>2. step # "down" /\ step' # "down"
  BY DEF CopyKid, DropHandle, Ready
<1>3. HeapNow' = HeapNow /\ SavedHeap' = SavedHeap /\ DOMAIN HeapNow = DOMAIN objects
  BY <1>1, <1>2, KeptHeap, RunningHeap DEF HeapKept
<1>4. Held' \subseteq DOMAIN objects'
  <2>1. SwapInvariant' => HeldLive'
    BY HeldIsLive, PTL
  <2> QED
    BY <1>1, <2>1 DEF HeldLive
<1> QED
  BY <1>1, <1>3, <1>4, HeapActions DEF HeapKept, NodesKept

LEMMA FreeImplements ==
  ASSUME SwapInvariant, NEW i \in Ids, ReleaseLast(i)
  PROVE  Heap!Free(i)
<1>1. /\ SavedHeap' = SavedHeap
      /\ DOMAIN objects' = DOMAIN objects \ {i}
      /\ \A j \in DOMAIN objects' : NodeOf(j)' = NodeOf(j)
  BY ReleaseLastStep
<1>2. /\ i \in DOMAIN objects /\ step = "ready"
      /\ Parents(i) = {} /\ handles[i] = 0 /\ root # i
  BY LastPointer DEF ReleaseLast
<1>3. UNCHANGED <<root, handles, step>>
  BY DEF ReleaseLast, Destroy
<1>4. /\ DOMAIN HeapNow = DOMAIN objects
      /\ \A j \in DOMAIN objects : HeapNow[j] = NodeOf(j)
  BY <1>2, RunningHeap
<1>5. HeapNow' = [j \in DOMAIN HeapNow \ {i} |-> HeapNow[j]]
  <2>1. HeapNow' = [j \in DOMAIN objects' |-> NodeOf(j)']
    BY <1>2, <1>3 DEF HeapNow
  <2> QED
    BY <1>1, <1>4, <2>1
<1>6. Held' = Held /\ i \notin Held
  BY <1>2, <1>3 DEF Held
<1>7. \A j \in DOMAIN HeapNow : i \notin HeapNow[j].kids
  BY <1>2, <1>4 DEF Parents
<1> QED
  BY <1>1, <1>2, <1>4, <1>5, <1>6, <1>7, HeapActions

LEMMA CheckpointImplements ==
  ASSUME SwapInvariant, WriteVersionMap
  PROVE  Heap!Checkpoint
<1>1. /\ NodesKept
      /\ DOMAIN version_map'.versions = DOMAIN objects
      /\ \A i \in DOMAIN objects : SavedHeap'[i] = NodeOf(i)
  BY WriteVersionMapStep
<1>2. step # "down" /\ step' # "down" /\ UNCHANGED <<root, handles>>
  BY DEF WriteVersionMap
<1>3. /\ HeapNow = [j \in DOMAIN objects |-> NodeOf(j)]
      /\ HeapNow' = HeapNow /\ Held' = Held
  BY <1>1, <1>2, KeptHeap DEF HeapNow, Held
<1>4. SavedHeap' = HeapNow
  <2>1. SavedHeap' = [i \in DOMAIN version_map'.versions |-> SavedHeap'[i]]
    BY DEF SavedHeap
  <2> QED
    BY <1>1, <1>3, <2>1
<1>5. \A i \in DOMAIN HeapNow : HeapNow[i].kids \subseteq DOMAIN HeapNow
  BY <1>3 DEF SwapInvariant, PointerInv, NoDanglingPointer
<1> QED
  BY <1>3, <1>4, <1>5, HeapActions

LEMMA CrashImplements ==
  ASSUME SwapInvariant, Crash
  PROVE  Heap!Crash
<1>1. SavedHeap' = SavedHeap
  BY CrashStep
<1>2. HeapNow' = SavedHeap'
  BY DEF Crash, HeapNow
<1>3. Held' = {}
  BY DEF Crash, Held, NoPointers, Ids
<1> QED
  BY <1>1, <1>2, <1>3, HeapActions

LEMMA BootEmptyImplements ==
  ASSUME SwapInvariant, BootEmpty
  PROVE  2 \in Ids /\ Heap!Allocate(2)
<1>1. /\ SavedHeap' = SavedHeap
      /\ DOMAIN version_map.versions = {}
      /\ 2 \in Ids /\ DOMAIN objects' = {2} /\ NodeOf(2)' = NewNode /\ root' = 2
  BY BootEmptyStep
<1>2. step = "down" /\ step' = "ready" /\ handles' = handles /\ handles = NoPointers
  BY DEF BootEmpty, SwapInvariant, StepInv
<1>3. HeapNow = SavedHeap /\ DOMAIN HeapNow = {}
  BY <1>1, <1>2 DEF HeapNow, SavedHeap
<1>4. HeapNow' = [j \in DOMAIN HeapNow \cup {2} |-> IF j = 2 THEN NewNode ELSE HeapNow[j]]
  <2>1. HeapNow' = [j \in {2} |-> NodeOf(j)']
    BY <1>1, <1>2 DEF HeapNow
  <2> QED
    BY <1>1, <1>3, <2>1
<1>5. Held' = {2}
  BY <1>1, <1>2 DEF Held, NoPointers
<1> QED
  BY <1>1, <1>3, <1>4, <1>5, HeapActions

LEMMA BootFromMapImplements ==
  ASSUME SwapInvariant, BootFromMap
  PROVE  Heap!Hold
<1>1. /\ SavedHeap' = SavedHeap
      /\ DOMAIN objects' = DOMAIN version_map.versions
      /\ \A i \in DOMAIN objects' : NodeOf(i)' = SavedHeap[i]
      /\ root' \in DOMAIN version_map.versions
  BY BootFromMapStep
<1>2. step = "down" /\ step' = "ready" /\ handles' = handles /\ handles = NoPointers
  BY DEF BootFromMap, SwapInvariant, StepInv
<1>3. HeapNow = SavedHeap
  BY <1>2 DEF HeapNow
<1>4. DOMAIN SavedHeap = DOMAIN version_map.versions
      /\ SavedHeap = [i \in DOMAIN version_map.versions |-> SavedHeap[i]]
  BY DEF SavedHeap
<1>5. HeapNow' = HeapNow
  <2>1. HeapNow' = [i \in DOMAIN objects' |-> NodeOf(i)']
    BY <1>2 DEF HeapNow
  <2> QED
    BY <1>1, <1>3, <1>4, <2>1
<1>6. Held' \subseteq DOMAIN HeapNow
  BY <1>1, <1>2, <1>3, <1>4 DEF Held, NoPointers
<1> QED
  BY <1>1, <1>5, <1>6, HeapActions

-----------------------------------------------------------------------------
(* The theorem.                                                            *)

LEMMA NextImplements ==
  ASSUME SwapInvariant, [Next]_vars
  PROVE  [Heap!Next]_(Heap!heapVars)
<1> SUFFICES Heap!Next \/ HeapUnseen
  BY HeapVarsMapped
<1>1. CASE BootEmpty
  BY <1>1, BootEmptyImplements DEF Heap!Next
<1>2. CASE BootFromMap
  BY <1>2, BootFromMapImplements DEF Heap!Next
<1>3. CASE Allocate \/ AllocateRoot
  BY <1>3, AllocateImplements DEF Heap!Next
<1>4. CASE \/ \E i \in Ids : \E w \in BOOLEAN : Dereference(i, w)
           \/ Unpin \/ WriteBackDirtyPages \/ DeleteOldVersion
           \/ \E i \in Ids : ReleaseShared(i)
  BY <1>4, CachingIsUnseen
<1>5. CASE \/ \E d \in Data : ChangeData(d)
           \/ \E k \in Ids : AddKid(k) \/ RemoveKid(k)
  BY <1>5, WriteImplements DEF Heap!Next
<1>6. CASE \E k \in Ids : CopyKid(k) \/ DropHandle(k)
  BY <1>6, HoldImplements DEF Heap!Next
<1>7. CASE \E i \in Ids : ReleaseLast(i)
  BY <1>7, FreeImplements DEF Heap!Next
<1>8. CASE WriteVersionMap
  BY <1>8, CheckpointImplements DEF Heap!Next
<1>9. CASE Crash
  BY <1>9, CrashImplements DEF Heap!Next
<1>10. CASE UNCHANGED vars
  BY <1>10 DEF vars, cacheVars, clientVars, diskVars, HeapUnseen, HeapNow, SavedHeap, Held,
               NodeOf, Stored
<1> QED
  BY <1>1, <1>2, <1>3, <1>4, <1>5, <1>6, <1>7, <1>8, <1>9, <1>10 DEF Next

\* Caching, eviction, versions, checkpoints, the deletion of old files and recovery
\* (swap_space.hpp, swap_space.cpp, backing_store.cpp) implement a heap with a copy on
\* disk: what the tree reads is what it wrote, and a crash brings back the last
\* checkpoint, whole.
THEOREM ImplementsHeap == Spec => HeapSpec
<1>1. Init => Heap!Init
  <2> SUFFICES ASSUME Init PROVE Heap!Init
    OBVIOUS
  <2>1. SavedHeap = << >> /\ HeapNow = << >>
    <3>1. DOMAIN version_map.versions = {}
      BY DEF Init, NoMap
    <3> QED
      BY <3>1 DEF Init, SavedHeap, HeapNow
  <2>2. Held = {}
    BY DEF Init, Held, NoPointers, Ids
  <2> QED
    BY <2>1, <2>2 DEF Heap!Init, HeapNow, Held
<1>2. SwapInvariant /\ [Next]_vars => [Heap!Next]_(Heap!heapVars)
  BY NextImplements
<1> QED
  BY <1>1, <1>2, SwapInvariantHolds, PTL DEF Spec, HeapSpec, Heap!Spec
=============================================================================
