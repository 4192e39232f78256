----------------------------- MODULE ObjectHeap -----------------------------
(***************************************************************************)
(* What the swap space promises the tree above it: a heap of nodes that    *)
(* keeps what is written to it, whatever is cached, evicted or reloaded;   *)
(* that frees a node only when nothing refers to it; and of which a        *)
(* checkpoint keeps a copy that nothing but the next checkpoint changes    *)
(* and that a restart brings back.                                         *)
(***************************************************************************)
CONSTANTS Ids,          \* names of objects
          Nodes,        \* contents of objects, records with a field `kids'
          NewNode       \* the node a constructor makes

VARIABLES heap,         \* live objects and their nodes
          saved,        \* the copy of the last checkpoint
          held          \* the objects the client holds pointers to

heapVars == <<heap, saved, held>>

\* A heap in which every pointer leads to a node.
Closed(h) == \A i \in DOMAIN h : h[i].kids \subseteq DOMAIN h

Init ==
  /\ heap = << >>
  /\ saved = << >>
  /\ held = {}

Allocate(i) ==
  /\ i \notin DOMAIN heap
  /\ heap' = [j \in DOMAIN heap \cup {i} |-> IF j = i THEN NewNode ELSE heap[j]]
  /\ held' \subseteq held \cup {i} /\ i \in held'
  /\ UNCHANGED saved

Write(i, n) ==
  /\ i \in DOMAIN heap
  /\ heap' = [heap EXCEPT ![i] = n]
  /\ UNCHANGED <<saved, held>>

\* The client copies or destroys pointers of its own.
Hold ==
  /\ held' \in SUBSET DOMAIN heap
  /\ UNCHANGED <<heap, saved>>

Free(i) ==
  /\ i \in DOMAIN heap \ held
  /\ \A j \in DOMAIN heap : i \notin heap[j].kids
  /\ heap' = [j \in DOMAIN heap \ {i} |-> heap[j]]
  /\ UNCHANGED <<saved, held>>

Checkpoint ==
  /\ Closed(heap)
  /\ saved' = heap
  /\ UNCHANGED <<heap, held>>

\* The process dies; what a restart will find is the copy.
Crash == heap' = saved /\ held' = {} /\ UNCHANGED saved

Next ==
  \/ \E i \in Ids : Allocate(i) \/ Free(i)
  \/ \E i \in Ids, n \in Nodes : Write(i, n)
  \/ Hold
  \/ Checkpoint
  \/ Crash

Spec == Init /\ [][Next]_heapVars
=============================================================================
