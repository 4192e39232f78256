---------------------------- MODULE LegacyBeTree ----------------------------
(***************************************************************************)
(* The tree of CS6530-P2/betree.hpp, the predecessor of project3's: the    *)
(* same upserts and queries (BeTreeFlush, BeTreeQuery), no log, no         *)
(* recovery, and another swap space underneath.                            *)
(*                                                                         *)
(* Nothing sets an object's target_is_dirty there, so is_dirty is false    *)
(* and the branch of flush for a single dirty child dead: every message    *)
(* goes through a buffer.  What is left of the cache is is_in_memory, and  *)
(* as the swap space may evict at every access, also in the middle of a    *)
(* call, each test of it may give either answer.                           *)
(***************************************************************************)
EXTENDS BeTreeQuery

ASSUME DirtyIsNotTracked == ~TracksDirty

vars == <<flushVars, asked>>

-----------------------------------------------------------------------------
Init == FlushInit /\ asked = NULL

\* upsert: the message has its own timestamp.
Upsert(op, k) ==
  /\ asked = NULL
  /\ Begin(op, k, next_timestamp)
  /\ next_timestamp' = next_timestamp + 1
  /\ UNCHANGED asked

Flush == FlushStep /\ UNCHANGED asked
Query == QueryStep \/ \E k \in Keys : StartQuery(k)

Next == Flush \/ Query \/ \E op \in {INSERT, DELETE, UPDATE}, k \in Keys : Upsert(op, k)

Spec == Init /\ [][Next]_vars
-----------------------------------------------------------------------------
(***************************************************************************)
(* Properties.                                                             *)
(***************************************************************************)

\* A query finds what the calls made of the key, whichever children were in memory
\* when a flush asked (apply 278-323, flush 422-529, query 531-585).
QueryIsExpected == AnswerIsExpected

\* With every message in a buffer, a child never overtakes its parent: messages for
\* a key get older on the way down, below the pivots that lead to them, and leaves
\* are down to one insert for a key.
TreeInOrder == OlderBelow /\ KeysWithinPivots /\ LeavesHoldInserts

\* "Whenever a flush returns, all the nodes in the subtree of that node are
\* guaranteed to satisfy the max-size requirement" (36-41).  It is
\* so while min_flush_size is small against max_node_size.
NodesFit == Idle => \A i \in DOMAIN nodes : Size(nodes[i]) <= max_node_size
=============================================================================
