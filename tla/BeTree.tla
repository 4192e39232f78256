------------------------------- MODULE BeTree -------------------------------
(***************************************************************************)
(* The B-epsilon tree of project3/betree.hpp: upserts (BeTreeFlush) and    *)
(* queries (BeTreeQuery) from one thread, on top of a cache that decides   *)
(* which nodes are dirty, through checkpoints and restarts.  See           *)
(* Durability for the log and SwapSpace for the cache.                     *)
(***************************************************************************)
EXTENDS BeTreeQuery

CONSTANTS
  MaxCacheSteps,     \* bound: cache steps and restarts in a behaviour
  MaxRestarts        \* bound: restarts among them

ASSUME StepsAssumption == MaxCacheSteps \in Nat /\ MaxRestarts \in Nat
ASSUME DirtyIsTracked == TracksDirty

VARIABLES
  blind,             \* history: no call so far was an update
  steps, restarts    \* history: cache steps and restarts so far

vars == <<flushVars, asked, blind, steps, restarts>>

-----------------------------------------------------------------------------
Init ==
  /\ FlushInit
  /\ asked = NULL
  /\ blind = TRUE /\ steps = 0 /\ restarts = 0

\* Mutant: the timestamp stays what it was, as in replay.
UpsertKeepsTimestamp(op, k) ==
  /\ asked = NULL
  /\ Begin(op, k, next_timestamp + 1)
  /\ blind' = (blind /\ op # UPDATE)
  /\ UNCHANGED <<next_timestamp, asked, steps, restarts>>

\* With logging: the message carries the timestamp after the one that was logged.
Upsert(op, k) ==
  /\ asked = NULL
  /\ Begin(op, k, next_timestamp + 1)
  /\ next_timestamp' = next_timestamp + 1
  /\ blind' = (blind /\ op # UPDATE)
  /\ UNCHANGED <<asked, steps, restarts>>

\* A logged call made again by replayLogs, with do_log = false: all have the
\* timestamp the recovery began with.  `expected' takes the call in only here.
Replay(op, k) ==
  /\ asked = NULL
  /\ restarts > 0 /\ next_timestamp = FirstTimestamp
  /\ Begin(op, k, next_timestamp)
  /\ blind' = (blind /\ op # UPDATE)
  /\ UNCHANGED <<next_timestamp, asked, steps, restarts>>

CacheStep ==
  /\ faults = {} /\ steps < MaxCacheSteps
  /\ steps' = steps + 1
  /\ UNCHANGED <<asked, blind>>

\* An object that is not pinned is written out.
WriteBack ==
  /\ CacheStep
  /\ \E i \in dirty :
       /\ \A f \in DOMAIN stack : stack[f].node # i
       /\ dirty' = dirty \ {i}
  /\ UNCHANGED <<treeVars, stack, callVars, historyVars, restarts>>

\* write_back_dirty_pages_info_to_disk.
Checkpoint ==
  /\ CacheStep /\ Idle
  /\ dirty' = {}
  /\ UNCHANGED <<treeVars, stack, callVars, historyVars, restarts>>

\* A kill and a recovery up to its replay: the tree is as the last checkpoint left
\* it (calls that went after it are left to Replay), timestamps start again.
Restart ==
  /\ CacheStep /\ Idle
  /\ restarts < MaxRestarts
  /\ restarts' = restarts + 1
  /\ dirty' = {}
  /\ next_timestamp' = FirstTimestamp
  /\ UNCHANGED <<treeVars, stack, ops, expected, historyVars>>

Next ==
  \/ \E op \in {INSERT, DELETE, UPDATE}, k \in Keys : Upsert(op, k) \/ Replay(op, k)
  \/ \E k \in Keys : StartQuery(k) /\ UNCHANGED <<blind, steps, restarts>>
  \/ FlushStep /\ UNCHANGED <<asked, blind, steps, restarts>>
  \/ QueryStep /\ UNCHANGED <<blind, steps, restarts>>
  \/ WriteBack \/ Checkpoint \/ Restart

Spec == Init /\ [][Next]_vars
-----------------------------------------------------------------------------
(***************************************************************************)
(* Properties.                                                             *)
(***************************************************************************)

BeTreeTypeOk ==
  /\ FlushTypeOk
  /\ steps \in 0..MaxCacheSteps /\ restarts \in 0..MaxRestarts

\* A query finds what the calls made of the key, wherever their messages wait
\* (apply 282-326, flush 429-532, split 330-383, query 534-588).  Without updates,
\* it does so after a restart, too, although timestamps have started again: an
\* insert or a delete sweeps away what it meets, whatever its timestamp.
QueryIsExpected == restarts = 0 \/ blind => AnswerIsExpected

\* The messages for a key get older on the way down.  (Timestamps order messages
\* only within one run of the program.)
NewerAbove == restarts = 0 => OlderBelow

\* Every query gives what the reference std::map of the test has (test.cpp:173),
\* also in a run that recovered the tree of an earlier one.
QueryIsExpectedAfterRestart == AnswerIsExpected

\* "There shouldn't be anything in our buffer for this child" (betree.hpp:463).
NothingBufferedForDirtyChild == "buffer not empty" \notin faults
=============================================================================
