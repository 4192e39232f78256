----------------------------- MODULE SwapSpaceInv ---------------------------
(***************************************************************************)
(* The inductive invariant behind the theorems of SwapSpaceProofs.         *)
(***************************************************************************)
EXTENDS SwapSpace

\* The node of object i of objs, which may be a state in the middle of an action,
\* before it evicts anything.
NodeIn(objs, i) == IF objs[i].target # NULL THEN objs[i].target
                   ELSE Stored(i, objs[i].version)

\* Objects and queue agree with each other and with the files.
CacheOk(objs, lru) ==
  /\ DOMAIN objs \subseteq Ids
  /\ \A i \in DOMAIN objs : objs[i] \in Object
  /\ lru = {i \in DOMAIN objs : objs[i].target # NULL}
  /\ DOMAIN objects_to_versions \subseteq DOMAIN objs
  /\ \A i \in DOMAIN objs : objs[i].dirty => objs[i].target # NULL
  /\ \A i \in DOMAIN objs : ~objs[i].dirty =>
       /\ <<i, objs[i].version>> \in DOMAIN files
       /\ NodeIn(objs, i) = files[<<i, objs[i].version>>]
       /\ i \in DOMAIN objects_to_versions
       /\ objects_to_versions[i] = objs[i].version
  /\ \A i \in DOMAIN objs :
       objs[i].target = NULL => (objs[i].is_leaf <=> NodeIn(objs, i).kids = {})

PointerInv == RefCountsExact /\ NoDanglingPointer

\* Who is pinned is in memory, flagged dirty if the pin writes, and held by a
\* pointer that its pin protects: the root's, a local one, or one in the node
\* pinned before it.  That is what keeps depoint() from destroying it.
PinInv ==
  /\ \A n \in DOMAIN pins :
       /\ pins[n].id \in Resident
       /\ pins[n].writable => objects[pins[n].id].dirty
       /\ \/ root = pins[n].id
          \/ handles[pins[n].id] > 0
          \/ n > 1 /\ pins[n].id \in NodeOf(pins[n - 1].id).kids
  /\ \A i \in DOMAIN objects :
       objects[i].pincount = Cardinality({n \in DOMAIN pins : pins[n].id = i})

\* A checkpoint in progress: nothing is pinned or being released, no page is dirty.
Quiet ==
  /\ pins = << >>
  /\ \A i \in Ids : dropping[i] = 0
  /\ \A i \in DOMAIN objects : ~objects[i].dirty
  /\ TreeShaped

StepInv ==
  /\ step = "down" =>
       /\ objects = << >> /\ lru_pqueue = {} /\ objects_to_versions = << >>
       /\ next_id = 1 /\ root = 0 /\ root_id = 0
       /\ handles = NoPointers /\ dropping = NoPointers /\ pins = << >>
  /\ step \in {"map", "delete"} => Quiet
  /\ step = "delete" => version_map.versions = objects_to_versions
  /\ root_id \in {0, root}
  /\ \A i \in DOMAIN objects : i <= next_id

SavedParents(i) == {j \in DOMAIN version_map.versions : i \in SavedHeap[j].kids}

\* The map names files that exist and make up a tree, and the running process
\* can neither overwrite one of them nor give one of its ids to another object.
SavedInv ==
  /\ DOMAIN version_map.versions \subseteq Ids
  /\ version_map # NoMap => version_map.next_id \in Nat \ {0}
  /\ \A i \in DOMAIN version_map.versions :
       /\ version_map.versions[i] \in Nat
       /\ <<i, version_map.versions[i]>> \in DOMAIN files
       /\ i <= version_map.next_id
       /\ step # "down" => i <= next_id
       /\ i \in DOMAIN objects => version_map.versions[i] <= objects[i].version
       /\ SavedHeap[i].kids \subseteq DOMAIN version_map.versions
       /\ version_map.root \in DOMAIN version_map.versions =>
            Cardinality(SavedParents(i)) = IF i = version_map.root THEN 0 ELSE 1

SwapInvariant ==
  /\ SwapTypeOk
  /\ CacheOk(objects, lru_pqueue)
  /\ PointerInv
  /\ PinInv
  /\ StepInv
  /\ SavedInv

=============================================================================
