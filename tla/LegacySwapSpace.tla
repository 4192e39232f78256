--------------------------- MODULE LegacySwapSpace ---------------------------
(***************************************************************************)
(* CS6530-P2/swap_space.hpp, pointer.hpp and backing_store.cpp: the swap   *)
(* space the tree ran on before it had a log.  Pointers are counted, but   *)
(* nothing reacts to a count of 0; the cache gives up one object for each  *)
(* one that enters, and always writes it out, since nothing sets           *)
(* target_is_dirty; pins go through the pointer they were made from.       *)
(*                                                                         *)
(* The client is CS6530-P2/betree.hpp, reduced to what it does with        *)
(* pointers: it holds local ones (betree::root among them), pins objects   *)
(* in stack order (the temporaries of operator->), and changes a node only *)
(* while it is on top of the stack.  A node is [kids]: its pivots stand    *)
(* for all that is read and written with them.                             *)
(***************************************************************************)
EXTENDS Naturals, Sequences, FiniteSets, Functions

CONSTANTS
  NULL,                   \* the null pointer
  max_in_memory_objects,
  MaxId,                  \* bound: objects allocated
  MaxStores,              \* bound: nodes written out in a behaviour
  MaxPins,                \* bound: nested dereferences (height of the tree)
  MaxHandles              \* bound: local pointers

ASSUME LegacyBoundsAssumption ==
  {max_in_memory_objects, MaxId, MaxStores, MaxPins, MaxHandles} \subseteq Nat

VARIABLES
  ptrMap,                 \* id |-> the fields of its object; nothing is ever erased
  memory_store,           \* ids of the objects in memory
  next_id,
  now,                    \* the wall clock, in milliseconds, when it was last read
  handles,                \* client: number of local pointers to each id
  pins,                   \* client: stack of [id, through, writable]
  files                   \* backing store: <<id, version>> |-> node

vars == <<ptrMap, memory_store, next_id, now, handles, pins, files>>

Ids == 1..MaxId
Node == [kids : SUBSET Ids]
NewNode == [kids |-> {}]

\* The null pointer leads to no node.
ASSUME LegacyNullAssumption == NULL \notin Node

Object == [target : Node \cup {NULL}, version : Nat, refcount : Nat,
           last_access : Nat, pincount : Nat]

\* Mutant: the pointer that allocate returns is not counted.
NewObjectUncounted == [target |-> NewNode, version |-> 0, refcount |-> 0,
                       last_access |-> 0, pincount |-> 0]
NewObject == [target |-> NewNode, version |-> 0, refcount |-> 1,
              last_access |-> 0, pincount |-> 0]

\* backstore_load.  To open a file that is not there fails an assertion; here it
\* reads as a node nobody wrote, for the properties to notice.
Stored(i, v) == IF <<i, v>> \in DOMAIN files THEN files[<<i, v>>]
                ELSE [kids |-> {0}]

-----------------------------------------------------------------------------
(* Eviction.                                                               *)

\* Mutant: there is room for one more.
FullBeyond == Cardinality(memory_store) > max_in_memory_objects

\* memory_store.size() >= max_in_memory_objects.
Full == Cardinality(memory_store) >= max_in_memory_objects

\* Mutant: the pin count is not looked at.
OldestOfAll(objs) ==
  {i \in memory_store : \A j \in memory_store : objs[i].last_access <= objs[j].last_access}

\* What evict_object_from_memory may pick: unpinned and not used since.  Of several
\* with the same time it takes the first in the order of a hash table.
Oldest(objs) ==
  LET free == {i \in memory_store : objs[i].pincount = 0}
  IN {i \in free : \A j \in free : objs[i].last_access <= objs[j].last_access}

\* Mutants: the file of the old version stays; an object that has a file is not
\* written again.
StoreKeepsOld(i, o) ==
  files' = [f \in DOMAIN files \cup {<<i, o.version + 1>>} |->
              IF f = <<i, o.version + 1>> THEN o.target ELSE files[f]]
StoreOnce(i, o) ==
  files' = [f \in (DOMAIN files \ {<<i, o.version>>}) \cup {<<i, o.version + 1>>} |->
              IF f # <<i, o.version + 1>> THEN files[f]
              ELSE IF o.version = 0 THEN o.target ELSE files[<<i, o.version>>]]

\* backstore_store: the node goes to the file of the next version, then the file of
\* the one before goes.
BackstoreStore(i, o) ==
  files' = [f \in (DOMAIN files \ {<<i, o.version>>}) \cup {<<i, o.version + 1>>} |->
              IF f = <<i, o.version + 1>> THEN o.target ELSE files[f]]

\* The object leaves memory.  To serialise its node zeroed the pointers in it, so
\* that deleting the node releases none of them.
Evicted(o) == [o EXCEPT !.target = NULL, !.version = @ + 1]

Total(f) == FoldFunction(LAMBDA n, m : n + m, 0, f)
Stores   == Total([i \in DOMAIN ptrMap |-> ptrMap[i].version])

\* i enters memory, for which one other object leaves if there is no room; if all
\* are pinned, nothing leaves.
MakeRoomFor(i, objs) ==
  IF Full /\ Oldest(objs) # {}
    THEN \E v \in Oldest(objs) :
           /\ Stores < MaxStores
           /\ BackstoreStore(v, objs[v])
           /\ ptrMap' = [j \in DOMAIN objs |-> IF j = v THEN Evicted(objs[j]) ELSE objs[j]]
           /\ memory_store' = (memory_store \ {v}) \cup {i}
    ELSE /\ ptrMap' = [j \in DOMAIN objs |-> objs[j]]
         /\ memory_store' = memory_store \cup {i}
         /\ UNCHANGED files

-----------------------------------------------------------------------------
(* Pointers and pins.                                                      *)

\* The node the client works in, on top of the stack, and whether it may write.
Top == pins[Len(pins)].id
TopWritable == pins # << >> /\ pins[Len(pins)].writable

\* The pointers the client can follow, by where they are: 0 for its own ones, else
\* the node on top.
Holders(i) ==
  (IF handles[i] > 0 THEN {0} ELSE {})
    \cup (IF pins # << >> /\ i \in ptrMap[Top].target.kids THEN {Top} ELSE {})

RoomForHandle == Total(handles) < MaxHandles

\* ss->allocate(new node), kept in a local pointer.  The constructor leaves
\* last_access at 0.
Allocate ==
  /\ next_id <= MaxId /\ RoomForHandle
  /\ next_id' = next_id + 1
  /\ MakeRoomFor(next_id, [i \in DOMAIN ptrMap \cup {next_id} |->
                             IF i = next_id THEN NewObject ELSE ptrMap[i]])
  /\ handles' = [handles EXCEPT ![next_id] = @ + 1]
  /\ UNCHANGED <<now, pins>>

\* pointer::operator-> makes a pin, pin::operator-> loads the object; only the
\* non-const one takes the time, after a load.
Dereference(i, writable) ==
  LET pinned == [ptrMap EXCEPT ![i].pincount = @ + 1]
      Touched(objs, t) == [objs EXCEPT ![i].last_access = IF writable THEN t ELSE @]
  IN /\ Len(pins) < MaxPins
     /\ \E h \in Holders(i) :
          pins' = Append(pins, [id |-> i, through |-> h, writable |-> writable])
     /\ now' \in IF writable THEN {now, now + 1} ELSE {now}
     /\ IF i \in memory_store
          THEN /\ ptrMap' = Touched(pinned, now')
               /\ UNCHANGED <<memory_store, files>>
          ELSE MakeRoomFor(i, Touched([pinned EXCEPT ![i].target =
                                         Stored(i, ptrMap[i].version)], now'))
     /\ UNCHANGED <<next_id, handles>>

\* pin::~pin, through the pointer, which must not have changed.
Unpin ==
  /\ pins # << >>
  /\ ptrMap' = [ptrMap EXCEPT ![Top].pincount = @ - 1]
  /\ pins' = SubSeq(pins, 1, Len(pins) - 1)
  /\ UNCHANGED <<memory_store, next_id, now, handles, files>>

NodeOf(i) == IF ptrMap[i].target # NULL THEN ptrMap[i].target
             ELSE Stored(i, ptrMap[i].version)
Parents(i) == {j \in DOMAIN ptrMap : i \in NodeOf(j).kids}

\* No path of pointers leads from i to j.
CannotReach(i, j) ==
  \E S \in SUBSET DOMAIN ptrMap :
    i \in S /\ j \notin S /\ \A m \in S : NodeOf(m).kids \subseteq S

\* pointer::pointer(const pointer &) into a pivot of the node on top; the tree has
\* no cycles.
AddKid(k) ==
  /\ TopWritable
  /\ handles[k] > 0
  /\ k \notin ptrMap[Top].target.kids
  /\ CannotReach(k, Top)
  /\ ptrMap' = [ptrMap EXCEPT ![Top].target.kids = @ \cup {k}, ![k].refcount = @ + 1]
  /\ UNCHANGED <<memory_store, next_id, now, handles, pins, files>>

\* The same, from a pivot of the node on top to a local pointer.
CopyKid(k) ==
  /\ pins # << >>
  /\ k \in ptrMap[Top].target.kids
  /\ RoomForHandle
  /\ ptrMap' = [ptrMap EXCEPT ![k].refcount = @ + 1]
  /\ handles' = [handles EXCEPT ![k] = @ + 1]
  /\ UNCHANGED <<memory_store, next_id, now, pins, files>>

\* No pin was made through a pointer at h to i: the tree does not change a pointer
\* while a call through it runs.
NotPinnedThrough(h, i) == \A n \in DOMAIN pins : ~(pins[n].id = i /\ pins[n].through = h)

\* pointer::~pointer, of a pivot of the node on top.
RemoveKid(k) ==
  /\ TopWritable
  /\ k \in ptrMap[Top].target.kids
  /\ NotPinnedThrough(Top, k)
  /\ ptrMap' = [ptrMap EXCEPT ![Top].target.kids = @ \ {k}, ![k].refcount = @ - 1]
  /\ UNCHANGED <<memory_store, next_id, now, handles, pins, files>>

\* The same, of a local pointer.
DropHandle(i) ==
  /\ handles[i] > 0
  /\ NotPinnedThrough(0, i)
  /\ ptrMap' = [ptrMap EXCEPT ![i].refcount = @ - 1]
  /\ handles' = [handles EXCEPT ![i] = @ - 1]
  /\ UNCHANGED <<memory_store, next_id, now, pins, files>>

\* Mutant: what the pointer led to keeps its count.
AssignKeepsOldCount(i, j) ==
  /\ i # j
  /\ handles[i] > 0 /\ NotPinnedThrough(0, i)
  /\ handles[j] > 0
  /\ ptrMap' = [ptrMap EXCEPT ![j].refcount = @ + 1]
  /\ handles' = [handles EXCEPT ![i] = @ - 1, ![j] = @ + 1]
  /\ UNCHANGED <<memory_store, next_id, now, pins, files>>

\* pointer::operator=, from a local pointer to j to one that led to i.
Assign(i, j) ==
  /\ i # j
  /\ handles[i] > 0 /\ NotPinnedThrough(0, i)
  /\ handles[j] > 0
  /\ ptrMap' = [ptrMap EXCEPT ![i].refcount = @ - 1, ![j].refcount = @ + 1]
  /\ handles' = [handles EXCEPT ![i] = @ - 1, ![j] = @ + 1]
  /\ UNCHANGED <<memory_store, next_id, now, pins, files>>

Init ==
  /\ ptrMap = << >> /\ memory_store = {}
  /\ next_id = 1
  /\ now = 1
  /\ handles = [i \in Ids |-> 0]
  /\ pins = << >>
  /\ files = << >>

Next ==
  \/ Allocate
  \/ \E i \in Ids, writable \in BOOLEAN : Dereference(i, writable)
  \/ Unpin
  \/ \E k \in Ids : AddKid(k) \/ CopyKid(k) \/ RemoveKid(k) \/ DropHandle(k)
  \/ \E i, j \in Ids : Assign(i, j)

Spec == Init /\ [][Next]_vars
-----------------------------------------------------------------------------
(***************************************************************************)
(* Properties.                                                             *)
(***************************************************************************)
LegacyTypeOk ==
  /\ DOMAIN ptrMap = 1..next_id - 1
  /\ \A i \in DOMAIN ptrMap : ptrMap[i] \in Object
  /\ memory_store \subseteq DOMAIN ptrMap
  /\ next_id \in 1..MaxId + 1 /\ now \in Nat
  /\ handles \in [Ids -> Nat]
  /\ pins \in Seq([id : Ids, through : 0..MaxId, writable : BOOLEAN])
  /\ \A f \in DOMAIN files : f \in Ids \X Nat /\ files[f] \in Node

\* The count of an object is the number of pointers to it: local ones and those in
\* nodes, in memory or written out, whoever holds those nodes (pointer.hpp 107-151,
\* 197-207, swap_space.hpp 161-164).  No pointer leads to an id not given out yet.
CountsArePointers ==
  \A i \in Ids : handles[i] + Cardinality(Parents(i))
                 = IF i \in DOMAIN ptrMap THEN ptrMap[i].refcount ELSE 0

\* What is pinned stays in memory, and so does the pointer the pin was made through,
\* unchanged, because the node it lies in is what was pinned before: ~pin, which
\* follows it again (pointer.hpp 59-63), lowers the count of the object whose count
\* the pin raised.
PinsHold ==
  /\ \A n \in DOMAIN pins :
       /\ pins[n].id \in memory_store /\ ptrMap[pins[n].id].target # NULL
       /\ LET h == pins[n].through
          IN IF h = 0 THEN handles[pins[n].id] > 0
             ELSE /\ n > 1 /\ h = pins[n - 1].id
                  /\ h \in memory_store /\ pins[n].id \in ptrMap[h].target.kids
  /\ \A i \in DOMAIN ptrMap :
       ptrMap[i].pincount = Cardinality({n \in DOMAIN pins : pins[n].id = i})

\* An object is in memory or it has a file, and no version but the current one has
\* a file: no load and no unlink fails (backing_store.cpp 30-50), and the
\* backing store does not fill up with old versions.
OneFilePerObject ==
  /\ DOMAIN files = {f \in {<<i, ptrMap[i].version>> : i \in DOMAIN ptrMap} : f[2] > 0}
  /\ \A i \in DOMAIN ptrMap :
       /\ i \in memory_store <=> ptrMap[i].target # NULL
       /\ i \notin memory_store => ptrMap[i].version > 0

\* The cache grows beyond its size only when everything in it is pinned
\* (swap_space.hpp 123-127, 179-182).
GrowsOnlyWhenPinned ==
  [][Cardinality(memory_store') > Cardinality(memory_store) =>
       \/ Cardinality(memory_store) < max_in_memory_objects
       \/ \A i \in memory_store : ptrMap[i].pincount > 0]_vars

\* However nodes come and go between memory and files, the client reads what it
\* wrote: a heap as in ObjectHeap, without a copy, and from which nothing is freed.
LegacyHeap == INSTANCE ObjectHeap WITH
  Nodes <- Node,
  heap  <- [i \in DOMAIN ptrMap |-> NodeOf(i)],
  saved <- << >>,
  held  <- {i \in Ids : handles[i] > 0}

LegacyHeapSpec == LegacyHeap!Spec
=============================================================================
