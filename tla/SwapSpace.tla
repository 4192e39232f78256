----------------------------- MODULE SwapSpace ------------------------------
(***************************************************************************)
(* project3/swap_space.hpp, swap_space.cpp and backing_store.cpp: counted  *)
(* pointers to objects that are cached in memory, evicted in LRU order to  *)
(* one file per object and version, written out by a checkpoint, and       *)
(* rebuilt from the version map after a crash.                             *)
(*                                                                         *)
(* The client is betree.hpp, reduced to what it does with pointers.  It    *)
(* holds a root and local pointers, pins objects in stack order (the       *)
(* temporaries of operator->), changes a node only while it is on top of   *)
(* the stack and was dereferenced for writing, and takes a checkpoint with *)
(* nothing pinned.  A node is [data, kids]: pivots are the kids, all else  *)
(* is data.                                                                *)
(***************************************************************************)
EXTENDS Naturals, Sequences, FiniteSets

CONSTANTS
  Data,              \* what a node may hold besides its kids
  NoData,            \* what `new node' holds
  NULL,              \* the null pointer
  MaxInMemory,       \* max_in_memory_objects, the -C argument
  CounterModulus,    \* 2^64 in the code
  MaxId,             \* bound: largest object id
  MaxVersion,        \* bound: largest version of an object
  MaxPins,           \* bound: nested dereferences (height of the tree)
  MaxHandles,        \* bound: local pointers to one object
  MaxCrashes         \* bound: kills in a behaviour

ASSUME DataAssumption == NoData \in Data
ASSUME CacheAssumption == MaxInMemory \in Nat /\ CounterModulus \in Nat \ {0}
ASSUME SwapBoundsAssumption ==
  /\ {MaxId, MaxVersion, MaxPins, MaxHandles, MaxCrashes} \subseteq Nat
  /\ MaxId >= 2                                  \* room for the first root

VARIABLES
  objects,                     \* live id |-> the fields of its object
  lru_pqueue,                  \* ids in the queue, ordered by last_access
  current_in_memory_objects,
  objects_to_versions,         \* id |-> version last written
  next_id, next_access_time,
  root_id,                     \* swap_space::root_id; 0 stands for a value that is no root
  root,                        \* client: the object betree::root points to, 0 before recovery
  handles,                     \* client: number of local pointers to each id
  pins,                        \* client: stack of [id, writable]
  dropping,                    \* pointers a running depoint() still has to release
  step,                        \* how far a checkpoint is; "down" when no process runs
  files,                       \* backing store: <<id, version>> |-> node
  version_map,                 \* version_map.txt
  crashes                      \* history: kills so far

cacheVars  == <<objects, lru_pqueue, current_in_memory_objects, objects_to_versions,
                next_id, next_access_time, root_id>>
clientVars == <<root, handles, pins, dropping, step>>
diskVars   == <<files, version_map>>
vars == <<cacheVars, clientVars, diskVars, crashes>>

Ids == 1..MaxId
Node == [data : Data, kids : SUBSET Ids]
NewNode == [data |-> NoData, kids |-> {}]
ASSUME NullAssumption == NULL \notin Node
NoMap == [versions |-> << >>, next_id |-> 0, root |-> 0]

Object == [target : Node \cup {NULL}, version : Nat, is_leaf : BOOLEAN,
           refcount : Nat, last_access : Nat, dirty : BOOLEAN, pincount : Nat]

\* backing_store::get.  To open a file that is not there fails an assertion; here
\* it reads as a node nobody wrote, for the properties to notice.
Stored(i, v) == IF <<i, v>> \in DOMAIN files THEN files[<<i, v>>]
                ELSE [data |-> NULL, kids |-> {}]

-----------------------------------------------------------------------------
(* Eviction.                                                               *)

Least(a, b) == IF a < b THEN a ELSE b

\* Mutant: the pin count is not looked at.
EvictionSetOfAny(E, objs, lru, current) ==
  LET over == IF current > MaxInMemory THEN current - MaxInMemory ELSE 0
  IN /\ E \subseteq lru
     /\ Cardinality(E) = Least(over, Cardinality(lru))
     /\ \A i \in E, j \in lru \ E : objs[i].last_access < objs[j].last_access

\* The objects maybe_evict_something takes: as long as the counter is above the
\* maximum, the unpinned object of the queue that was used longest ago.
EvictionSet(E, objs, lru, current) ==
  LET free == {i \in lru : objs[i].pincount = 0}
      over == IF current > MaxInMemory THEN current - MaxInMemory ELSE 0
  IN /\ E \subseteq free
     /\ Cardinality(E) = Least(over, Cardinality(free))
     /\ \A i \in E, j \in free \ E : objs[i].last_access < objs[j].last_access

\* Mutant: the leaf flag stays what it was.
WrittenBackWithOldFlag(o) ==
  [o EXCEPT !.version = IF o.dirty THEN @ + 1 ELSE @, !.dirty = FALSE]

\* write_back: the leaf flag is recomputed, a dirty object gets a new version.
WrittenBack(o) ==
  [o EXCEPT !.is_leaf = (o.target.kids = {}),
            !.version = IF o.dirty THEN @ + 1 ELSE @,
            !.dirty   = FALSE]

\* The loop body after write_back.
Evicted(o) == [WrittenBack(o) EXCEPT !.target = NULL]

\* lru_pqueue.erase.
StillQueued(lru, E) == lru          \* mutant: nothing is erased
Unqueued(lru, E)    == lru \ E

\* Objects E of objs are written back and leave memory and the queue.
WriteOut(E, objs, lru, current) ==
  LET dirty == {i \in E : objs[i].dirty}
      new   == {<<i, objs[i].version + 1>> : i \in dirty}
  IN /\ objects' = [i \in DOMAIN objs |-> IF i \in E THEN Evicted(objs[i]) ELSE objs[i]]
     /\ lru_pqueue' = Unqueued(lru, E)
     /\ current_in_memory_objects' =
          (current + Cardinality(E) * (CounterModulus - 1)) % CounterModulus
     /\ files' = [f \in DOMAIN files \cup new |->
                    IF f \in new THEN objs[f[1]].target ELSE files[f]]
     /\ objects_to_versions' =
          [i \in DOMAIN objects_to_versions \cup dirty |->
             IF i \in dirty THEN objs[i].version + 1 ELSE objects_to_versions[i]]

MaybeEvictSomething(objs, lru, current) ==
  \E E \in SUBSET lru : EvictionSet(E, objs, lru, current) /\ WriteOut(E, objs, lru, current)

-----------------------------------------------------------------------------
(* Pointers and pins.                                                      *)

Ready == step = "ready" /\ \A i \in Ids : dropping[i] = 0

\* The node a non-const dereference gave the client, on top of the stack.
Top == pins[Len(pins)].id
TopWritable == pins # << >> /\ pins[Len(pins)].writable

\* Pointers the client can follow: its own and those in the node on top.
Followable ==
  {i \in Ids : root = i \/ handles[i] > 0}
    \cup IF pins = << >> THEN {} ELSE objects[Top].target.kids

\* The pointer constructor.  The first number it draws from next_id is wasted,
\* the object's own constructor draws the second.
AllocateObject(new_root, new_handles, new_dropping) ==
  LET id  == next_id + 1
      obj == [target |-> NewNode, version |-> 0, is_leaf |-> FALSE, refcount |-> 1,
              last_access |-> next_access_time, dirty |-> TRUE, pincount |-> 0]
  IN /\ id <= MaxId
     /\ next_id' = next_id + 2
     /\ next_access_time' = next_access_time + 1
     /\ MaybeEvictSomething(
          [i \in DOMAIN objects \cup {id} |-> IF i = id THEN obj ELSE objects[i]],
          lru_pqueue \cup {id},
          (current_in_memory_objects + 1) % CounterModulus)
     /\ root' = new_root /\ handles' = new_handles /\ dropping' = new_dropping
     /\ UNCHANGED <<pins, step, version_map, crashes>>

\* ss->allocate(new node), kept in a local pointer.
Allocate ==
  /\ Ready
  /\ AllocateObject(root, [handles EXCEPT ![next_id + 1] = @ + 1], dropping)
  /\ UNCHANGED root_id

\* root = ss->allocate_root(new node): the old root loses a pointer.
AllocateRoot ==
  /\ Ready /\ pins = << >>
  /\ AllocateObject(next_id + 1, handles,
                    IF root = 0 THEN dropping ELSE [dropping EXCEPT ![root] = @ + 1])
  /\ root_id' = next_id + 1

\* pointer::operator-> and pin::operator->: dopin, access, load.
Dereference(i, writable) ==
  LET o == objects[i]
      loaded == o.target = NULL
  IN /\ Ready
     /\ i \in Followable
     /\ Len(pins) < MaxPins
     /\ writable => o.dirty \/ o.version < MaxVersion
     /\ pins' = Append(pins, [id |-> i, writable |-> writable])
     /\ next_access_time' = next_access_time + 1
     /\ MaybeEvictSomething(
          [objects EXCEPT ![i] =
             [o EXCEPT !.pincount = @ + 1,
                       !.last_access = next_access_time,
                       !.dirty = @ \/ writable,
                       !.target = IF loaded THEN Stored(i, o.version) ELSE @]],
          lru_pqueue \cup {i},
          IF loaded THEN (current_in_memory_objects + 1) % CounterModulus
                    ELSE current_in_memory_objects)
     /\ UNCHANGED <<next_id, root_id, root, handles, dropping, step, version_map, crashes>>

\* pin::~pin.
Unpin ==
  /\ Ready
  /\ pins # << >>
  /\ pins' = SubSeq(pins, 1, Len(pins) - 1)
  /\ MaybeEvictSomething([objects EXCEPT ![Top].pincount = @ - 1], lru_pqueue,
                         current_in_memory_objects)
  /\ UNCHANGED <<next_id, next_access_time, root_id, root, handles, dropping, step,
                 version_map, crashes>>

\* The client changes the data of the node on top.
ChangeData(d) ==
  /\ Ready /\ TopWritable
  /\ objects' = [objects EXCEPT ![Top].target.data = d]
  /\ UNCHANGED <<lru_pqueue, current_in_memory_objects, objects_to_versions, next_id,
                 next_access_time, root_id, clientVars, diskVars, crashes>>

\* Objects that i reaches through nodes in memory or in their current file.
NodeOf(i) == IF objects[i].target # NULL THEN objects[i].target
             ELSE Stored(i, objects[i].version)
Parents(i) == {j \in DOMAIN objects : i \in NodeOf(j).kids}

\* No path of pointers leads from i to j.
CannotReach(i, j) ==
  \E S \in SUBSET DOMAIN objects :
    i \in S /\ j \notin S /\ \A m \in S : NodeOf(m).kids \subseteq S

\* A copy of a local pointer goes into the node on top; the tree has no cycles.
AddKid(k) ==
  /\ Ready /\ TopWritable
  /\ handles[k] > 0
  /\ k \notin objects[Top].target.kids
  /\ CannotReach(k, Top)
  /\ objects' = [objects EXCEPT ![Top].target.kids = @ \cup {k}, ![k].refcount = @ + 1]
  /\ UNCHANGED <<lru_pqueue, current_in_memory_objects, objects_to_versions, next_id,
                 next_access_time, root_id, clientVars, diskVars, crashes>>

\* Mutant: the copy is not counted.
CopyKidUncounted(k) ==
  /\ Ready /\ pins # << >>
  /\ k \in objects[Top].target.kids
  /\ handles[k] < MaxHandles
  /\ handles' = [handles EXCEPT ![k] = @ + 1]
  /\ UNCHANGED <<cacheVars, root, pins, dropping, step, diskVars, crashes>>

\* A pointer of the node on top is copied into a local one.
CopyKid(k) ==
  /\ Ready /\ pins # << >>
  /\ k \in objects[Top].target.kids
  /\ handles[k] < MaxHandles
  /\ handles' = [handles EXCEPT ![k] = @ + 1]
  /\ objects' = [objects EXCEPT ![k].refcount = @ + 1]
  /\ UNCHANGED <<lru_pqueue, current_in_memory_objects, objects_to_versions, next_id,
                 next_access_time, root_id, root, pins, dropping, step, diskVars, crashes>>

\* A pivot of the node on top is erased; the pointer's destructor follows.
RemoveKid(k) ==
  /\ Ready /\ TopWritable
  /\ k \in objects[Top].target.kids
  /\ objects[k].pincount = 0
  /\ objects' = [objects EXCEPT ![Top].target.kids = @ \ {k}]
  /\ dropping' = [dropping EXCEPT ![k] = @ + 1]
  /\ UNCHANGED <<lru_pqueue, current_in_memory_objects, objects_to_versions, next_id,
                 next_access_time, root_id, root, handles, pins, step, diskVars, crashes>>

\* A local pointer goes out of scope.
DropHandle(i) ==
  /\ Ready
  /\ handles[i] > 0
  /\ objects[i].pincount = 0
  /\ handles' = [handles EXCEPT ![i] = @ - 1]
  /\ dropping' = [dropping EXCEPT ![i] = @ + 1]
  /\ UNCHANGED <<cacheVars, root, pins, step, diskVars, crashes>>

\* pointer::depoint on a shared object.
ReleaseShared(i) ==
  /\ dropping[i] > 0
  /\ objects[i].refcount > 1
  /\ objects' = [objects EXCEPT ![i].refcount = @ - 1]
  /\ dropping' = [dropping EXCEPT ![i] = @ - 1]
  /\ UNCHANGED <<lru_pqueue, current_in_memory_objects, objects_to_versions, next_id,
                 next_access_time, root_id, root, handles, pins, step, diskVars, crashes>>

\* objects_to_versions.erase.
KeptVersions(i)      == objects_to_versions          \* mutant: nothing is erased
VersionsWithout(i)   == [j \in DOMAIN objects_to_versions \ {i} |-> objects_to_versions[j]]

\* The object goes.  Its node is loaded, unless it is flagged a leaf, so that
\* deleting it releases its kids in turn; the counter goes down whether or not
\* the node was in memory.
Destroy(i) ==
  LET o      == objects[i]
      loaded == o.target = NULL /\ ~o.is_leaf
      node   == IF loaded THEN Stored(i, o.version) ELSE o.target
      kids   == IF node = NULL THEN {} ELSE node.kids
  IN /\ objects' = [j \in DOMAIN objects \ {i} |-> objects[j]]
     /\ objects_to_versions' = VersionsWithout(i)
     /\ lru_pqueue' = Unqueued(lru_pqueue, {i})
     /\ current_in_memory_objects' =
          IF loaded THEN current_in_memory_objects
          ELSE (current_in_memory_objects + CounterModulus - 1) % CounterModulus
     /\ dropping' = [j \in Ids |-> dropping[j] + (IF j \in kids THEN 1 ELSE 0)
                                              - (IF j = i THEN 1 ELSE 0)]
     /\ UNCHANGED <<next_id, next_access_time, root_id, root, handles, pins, step,
                    diskVars, crashes>>

\* Mutant: the last pointer but one destroys the object.
ReleaseLastButOne(i) ==
  /\ dropping[i] > 0
  /\ objects[i].refcount \in {1, 2}
  /\ Destroy(i)

\* pointer::depoint on the last pointer.
ReleaseLast(i) ==
  /\ dropping[i] > 0
  /\ objects[i].refcount = 1
  /\ Destroy(i)
-----------------------------------------------------------------------------
(* Checkpoint, crash and recovery.                                         *)

\* What betree guarantees when it takes a checkpoint: the live objects form a
\* tree under the root.
TreeShaped ==
  \A i \in DOMAIN objects : Cardinality(Parents(i)) = IF i = root THEN 0 ELSE 1

\* Mutant: the dirty pages stay in memory.
CheckpointLeavesDirtyPages ==
  /\ Ready /\ pins = << >> /\ root # 0
  /\ TreeShaped
  /\ step' = "map"
  /\ UNCHANGED <<cacheVars, root, handles, pins, dropping, diskVars, crashes>>

\* write_back_dirty_pages_info_to_disk: every dirty page is written and evicted.
WriteBackDirtyPages ==
  /\ Ready /\ pins = << >> /\ root # 0
  /\ TreeShaped
  /\ WriteOut({i \in lru_pqueue : objects[i].dirty}, objects, lru_pqueue,
              current_in_memory_objects)
  /\ step' = "map"
  /\ UNCHANGED <<next_id, next_access_time, root_id, root, handles, pins, dropping,
                 version_map, crashes>>

\* write_version_map_to_disk: a temporary file and a rename.
WriteVersionMap ==
  /\ step = "map"
  /\ version_map' = [versions |-> objects_to_versions, next_id |-> next_id, root |-> root_id]
  /\ step' = "delete"
  /\ UNCHANGED <<cacheVars, root, handles, pins, dropping, files, crashes>>

\* Mutant: the current versions go, too.
DeleteCurrentVersion ==
  /\ step = "delete"
  /\ files' = [f \in {g \in DOMAIN files : g[1] \in DOMAIN objects_to_versions
                                             => g[2] > objects_to_versions[g[1]]} |-> files[f]]
  /\ step' = "ready"
  /\ UNCHANGED <<cacheVars, root, handles, pins, dropping, version_map, crashes>>

\* delete_old_version unlinks the versions below the current ones.
DeleteOldVersion ==
  /\ step = "delete"
  /\ files' = [f \in {g \in DOMAIN files : g[1] \in DOMAIN objects_to_versions
                                             => g[2] >= objects_to_versions[g[1]]} |-> files[f]]
  /\ step' = "ready"
  /\ UNCHANGED <<cacheVars, root, handles, pins, dropping, version_map, crashes>>

NoPointers == [i \in Ids |-> 0]

Init ==
  /\ objects = << >> /\ lru_pqueue = {}
  /\ current_in_memory_objects = 0
  /\ objects_to_versions = << >>
  /\ next_id = 1 /\ next_access_time = 0
  /\ root_id = 0 /\ root = 0
  /\ handles = NoPointers /\ pins = << >> /\ dropping = NoPointers
  /\ step = "down"
  /\ files = << >>
  /\ version_map = NoMap
  /\ crashes = 0

\* A kill at any point; nothing is written when the process ends by itself either.
Crash ==
  /\ step # "down"
  /\ crashes < MaxCrashes
  /\ crashes' = crashes + 1
  /\ objects' = << >> /\ lru_pqueue' = {}
  /\ current_in_memory_objects' = 0
  /\ objects_to_versions' = << >>
  /\ next_id' = 1 /\ next_access_time' = 0
  /\ root_id' = 0 /\ root' = 0
  /\ handles' = NoPointers /\ pins' = << >> /\ dropping' = NoPointers
  /\ step' = "down"
  /\ UNCHANGED diskVars

\* recoverState without a map: a new tree.
BootEmpty ==
  /\ step = "down" /\ version_map = NoMap
  /\ step' = "ready"
  /\ next_id' = next_id + 2 /\ next_access_time' = next_access_time + 1
  /\ root' = next_id + 1 /\ root_id' = next_id + 1
  /\ MaybeEvictSomething(
       [i \in {next_id + 1} |->
          [target |-> NewNode, version |-> 0, is_leaf |-> FALSE, refcount |-> 1,
           last_access |-> next_access_time, dirty |-> TRUE, pincount |-> 0]],
       {next_id + 1}, 1 % CounterModulus)
  /\ UNCHANGED <<handles, pins, dropping, version_map, crashes>>

\* The object rebuildObjectMap makes, counted once.  Its last_access is the
\* largest there is, until the first access; the object is not in the queue before.
RebuiltWithCount(i, count) ==
  [target |-> NULL, version |-> version_map.versions[i],
   is_leaf |-> Stored(i, version_map.versions[i]).kids = {},
   refcount |-> count, last_access |-> 0, dirty |-> FALSE, pincount |-> 0]

\* (Mutant: the root's new pointer is counted on top.)
RebuiltWithRootTwice(i) == RebuiltWithCount(i, IF i = version_map.root THEN 2 ELSE 1)
RebuiltObject(i) == RebuiltWithCount(i, 1)

\* rebuildVersionMap, rebuildObjectMap and get_root.  The objects are neither in
\* memory nor in the queue; the first pointer to each is the one their count of
\* 1 stands for.  root_id stays uninitialised and may hold the root by chance.
\* With a map whose root is no object the process cannot start.
BootFromMap ==
  /\ step = "down" /\ version_map # NoMap
  /\ version_map.root \in DOMAIN version_map.versions
  /\ step' = "ready"
  /\ objects_to_versions' = version_map.versions
  /\ objects' = [i \in DOMAIN version_map.versions |-> RebuiltObject(i)]
  /\ next_id' = version_map.next_id
  /\ next_access_time' = next_access_time + Cardinality(DOMAIN version_map.versions)
  /\ root' = version_map.root
  /\ root_id' \in {0, version_map.root}
  /\ UNCHANGED <<lru_pqueue, current_in_memory_objects, handles, pins, dropping,
                 diskVars, crashes>>

Next ==
  \/ BootEmpty \/ BootFromMap
  \/ Allocate \/ AllocateRoot
  \/ \E i \in Ids : \E writable \in BOOLEAN : Dereference(i, writable)
  \/ Unpin
  \/ \E d \in Data : ChangeData(d)
  \/ \E k \in Ids : AddKid(k) \/ CopyKid(k) \/ RemoveKid(k) \/ DropHandle(k)
  \/ \E i \in Ids : ReleaseShared(i) \/ ReleaseLast(i)
  \/ WriteBackDirtyPages \/ WriteVersionMap \/ DeleteOldVersion
  \/ Crash

Spec == Init /\ [][Next]_vars
-----------------------------------------------------------------------------
(***************************************************************************)
(* Properties.                                                             *)
(***************************************************************************)
Resident == {i \in DOMAIN objects : objects[i].target # NULL}

SwapTypeOk ==
  /\ DOMAIN objects \subseteq Ids
  /\ \A i \in DOMAIN objects : objects[i] \in Object
  /\ lru_pqueue \subseteq DOMAIN objects
  /\ current_in_memory_objects \in 0..CounterModulus - 1
  /\ DOMAIN objects_to_versions \subseteq DOMAIN objects
  /\ next_id \in Nat \ {0} /\ next_access_time \in Nat
  /\ root_id \in 0..MaxId /\ root \in 0..MaxId
  /\ handles \in [Ids -> Nat] /\ dropping \in [Ids -> Nat]
  /\ pins \in Seq([id : Ids, writable : BOOLEAN])
  /\ step \in {"down", "ready", "map", "delete"}
  /\ \A f \in DOMAIN files : f \in Ids \X Nat /\ files[f] \in Node
  /\ crashes \in 0..MaxCrashes

\* The count of an object is the number of pointers to it: the root, local
\* pointers, those being released, and those in nodes, whether the node is in
\* memory or was serialised, which zeroes its pointers without releasing them
\* (pointer 308-362, _serialize 411-418, rebuildObjectMap 257-328).
RefCountsExact ==
  \A i \in DOMAIN objects :
    objects[i].refcount = Cardinality(Parents(i)) + handles[i] + dropping[i]
                          + (IF root = i THEN 1 ELSE 0)

\* Every pointer anyone can follow leads to a live object: the assertions
\* objects.count(target) > 0 (swap_space.hpp 214, 222, 269, 273, 282, 312, 324,
\* 357, 425) hold.
NoDanglingPointer ==
  /\ \A i \in Ids : handles[i] + dropping[i] > 0 \/ root = i => i \in DOMAIN objects
  /\ \A j \in DOMAIN objects : NodeOf(j).kids \subseteq DOMAIN objects

\* What is pinned is live and in memory, so that `this' stays valid during a
\* member call, however much the call evicts (pin 255-290, maybe_evict 131-150).
PinnedIsResident ==
  /\ \A n \in DOMAIN pins : pins[n].id \in Resident
  /\ \A i \in DOMAIN objects :
       objects[i].pincount = Cardinality({n \in DOMAIN pins : pins[n].id = i})

\* A change is never dropped: an object that is clean, in memory or not, equals
\* its current file, and one changed under a pin is flagged dirty.
CleanMatchesFile ==
  \A i \in DOMAIN objects :
    /\ ~objects[i].dirty =>
         /\ <<i, objects[i].version>> \in DOMAIN files
         /\ NodeOf(i) = Stored(i, objects[i].version)
         /\ i \in DOMAIN objects_to_versions
         /\ objects_to_versions[i] = objects[i].version
    /\ objects[i].dirty => i \in Resident

\* An object out of memory is flagged a leaf only if its file has no kids: to
\* skip the load in depoint (321-349) then leaks no kid.
LeafFlagIsTrue ==
  \A i \in DOMAIN objects \ Resident : objects[i].is_leaf <=> NodeOf(i).kids = {}

\* The queue holds what is in memory, so that all of it can be evicted and the
\* checkpoint misses no dirty page.
QueueIsResident == lru_pqueue = Resident

\* The heap the client sees, and the one the version map has on disk.
SavedHeap == [i \in DOMAIN version_map.versions |-> Stored(i, version_map.versions[i])]

Heap == INSTANCE ObjectHeap WITH
  Nodes <- Node,
  heap  <- IF step = "down" THEN SavedHeap ELSE [i \in DOMAIN objects |-> NodeOf(i)],
  saved <- SavedHeap,
  held  <- {i \in Ids : root = i \/ handles[i] > 0}

\* Caching, eviction, versions, checkpoints, deletion of old versions and recovery
\* implement a heap with a crash-proof copy.
HeapSpec == Heap!Spec

=============================================================================
