--------------------------- MODULE BeTreeProofs ---------------------------
(***************************************************************************)
(* What holds of the tree of project3 under any cache, any size of nodes   *)
(* and any number of calls, checkpoints and restarts.  The steps of flush  *)
(* and query are in BeTreeFlushProofs and BeTreeValueProofs; here are      *)
(* those of the calls and of the cache.                                    *)
(***************************************************************************)
EXTENDS BeTree, BeTreeValueProofs

\* Calls are counted, and timestamps do not run ahead of them.
Counted ==
  /\ next_timestamp \in 1..ops + 1
  /\ steps \in 0..MaxCacheSteps /\ restarts \in 0..MaxRestarts
  /\ restarts > 0 \/ \A k \in DOMAIN came[root] : came[root][k].ts <= next_timestamp

\* In one run of the program timestamps order the messages; across runs nothing does,
\* and only calls that do not look at the value before them are safe.
BeTreeInvariant ==
  /\ TreeInv /\ Counted
  /\ restarts = 0 => OrderInv
  /\ blind => BlindInv
  /\ restarts = 0 \/ blind => ValueInv /\ QueryInv

LEMMA InitInvariant == Init => BeTreeInvariant
<1> SUFFICES ASSUME Init PROVE BeTreeInvariant
  OBVIOUS
<1>1. FlushInit /\ asked = NULL /\ steps = 0 /\ restarts = 0
  BY DEF Init
<1>2. TreeInv /\ OrderInv /\ DOMAIN came[root] = {} /\ BlindInv /\ ValueInv
  BY <1>1, FlushInitTree, FlushInitOrder, FlushInitBlind, FlushInitValue
<1>3. next_timestamp = 1 /\ ops = 0
  BY <1>1 DEF FlushInit, FirstTimestamp
<1>4. QueryInv
  BY <1>1 DEF QueryInv
<1>5. Counted
  BY <1>1, <1>2, <1>3, StepsAssumption DEF Counted
<1> QED
  BY <1>2, <1>4, <1>5 DEF BeTreeInvariant

\* A call: of a client, or of the replay, which only a run after the first makes.
LEMMA BeginInvariant ==
  ASSUME BeTreeInvariant, NEW op \in {INSERT, DELETE, UPDATE}, NEW k \in Keys,
         asked = NULL, asked' = NULL, UNCHANGED <<steps, restarts>>,
         blind' = (blind /\ op # UPDATE), NEW ts \in Nat, Begin(op, k, ts),
         ts <= next_timestamp + 1, ts > 0, restarts = 0 => ts = next_timestamp + 1,
         next_timestamp' = IF restarts = 0 THEN ts ELSE next_timestamp'
  PROVE  next_timestamp' \in 1..ops' + 1 => BeTreeInvariant'
<1> SUFFICES ASSUME next_timestamp' \in 1..ops' + 1 PROVE BeTreeInvariant'
  OBVIOUS
<1>1. TreeInv /\ Counted
  BY DEF BeTreeInvariant
<1>2. ops < MaxOps /\ ops \in Nat /\ MaxOps \in Nat
  BY <1>1, MaxOpsAssumption DEF Begin, TreeInv, CallsTyped
<1>3. ts \in Timestamps
  BY <1>1, <1>2 DEF Counted, Timestamps
<1>4. TreeInv'
  BY <1>1, <1>3, BeginKeeps
<1>5. steps' = steps /\ restarts' = restarts
  OBVIOUS
<1>6. ASSUME restarts = 0
      PROVE  OrderInv' /\ \A j \in DOMAIN came'[root'] : came'[root'][j].ts <= next_timestamp'
  <2>1. OrderInv
    BY <1>6 DEF BeTreeInvariant
  <2>2. ASSUME NEW j \in DOMAIN came[root] PROVE came[root][j].ts < ts
    <3>1. IsCame(came[root])
      BY <1>1, NodeFacts DEF TreeInv, HeapTyped
    <3>2. came[root][j].ts \in Nat
      BY <1>2, <3>1 DEF IsCame, Timestamps
    <3> QED
      BY <1>1, <1>6, <3>2 DEF Counted
  <2> QED
    BY <1>1, <1>3, <1>4, <1>6, <2>1, <2>2, BeginOrder
<1>7. Counted'
  BY <1>1, <1>5, <1>6 DEF Counted
<1>8. blind' => BlindInv'
  BY <1>1, <1>3, BeginBlind DEF BeTreeInvariant
<1>9. restarts = 0 \/ blind => ValueInv'
  BY <1>1, <1>3, BeginValue DEF BeTreeInvariant
<1>10. QueryInv'
  BY DEF QueryInv
<1> QED
  BY <1>4, <1>5, <1>6, <1>7, <1>8, <1>9, <1>10 DEF BeTreeInvariant

LEMMA UpsertInvariant ==
  ASSUME BeTreeInvariant, NEW op \in {INSERT, DELETE, UPDATE}, NEW k \in Keys,
         Upsert(op, k) \/ Replay(op, k)
  PROVE  BeTreeInvariant'
<1>1. next_timestamp \in 1..ops + 1 /\ ops \in Nat /\ restarts \in Nat
  BY StepsAssumption, MaxOpsAssumption DEF BeTreeInvariant, Counted, TreeInv, CallsTyped
<1>2. CASE Upsert(op, k)
  <2> DEFINE ts == next_timestamp + 1
  <2>1. /\ asked = NULL /\ asked' = NULL /\ UNCHANGED <<steps, restarts>>
        /\ blind' = (blind /\ op # UPDATE) /\ Begin(op, k, ts) /\ next_timestamp' = ts
        /\ ops' = ops + 1
    BY <1>2 DEF Upsert, Begin
  <2>2. next_timestamp' \in 1..ops' + 1 /\ ts \in Nat /\ ts > 0 /\ ts <= next_timestamp + 1
    BY <1>1, <2>1
  <2> QED
    BY <2>1, <2>2, BeginInvariant
<1>3. CASE Replay(op, k)
  <2> DEFINE ts == next_timestamp
  <2>1. /\ asked = NULL /\ asked' = NULL /\ UNCHANGED <<steps, restarts>> /\ restarts # 0
        /\ blind' = (blind /\ op # UPDATE) /\ Begin(op, k, ts) /\ next_timestamp' = ts
        /\ ops' = ops + 1
    BY <1>1, <1>3 DEF Replay, Begin
  <2>2. next_timestamp' \in 1..ops' + 1 /\ ts \in Nat /\ ts > 0 /\ ts <= next_timestamp + 1
    BY <1>1, <2>1
  <2> QED
    BY <2>1, <2>2, BeginInvariant
<1> QED
  BY <1>2, <1>3

LEMMA FlushInvariant ==
  ASSUME BeTreeInvariant, FlushStep, UNCHANGED <<asked, blind, steps, restarts>>
  PROVE  BeTreeInvariant'
<1>1. TreeInv /\ Counted
  BY DEF BeTreeInvariant
<1>2. asked' = asked /\ blind' = blind /\ steps' = steps /\ restarts' = restarts
  OBVIOUS
<1>3. TreeInv'
  BY <1>1, FlushStepKeepsTree
<1>4. came'[root'] = came[root] /\ ops' = ops /\ next_timestamp' = next_timestamp
  BY <1>1, RootKeepsCame
<1>5. Counted'
  BY <1>1, <1>2, <1>4 DEF Counted
<1>6. restarts = 0 => OrderInv'
  BY <1>1, FlushStepKeepsOrder DEF BeTreeInvariant
<1>7. blind => BlindInv'
  BY <1>1, FlushStepKeepsBlind DEF BeTreeInvariant
<1>8. restarts = 0 \/ blind => ValueInv' /\ QueryInv'
  BY <1>1, <1>2, FlushStepKeepsValue, FlushStepKeepsQuery DEF BeTreeInvariant
<1> QED
  BY <1>2, <1>3, <1>5, <1>6, <1>7, <1>8 DEF BeTreeInvariant

\* Steps that leave the tree alone.
LEMMA TreeLeftAlone ==
  ASSUME BeTreeInvariant, UNCHANGED <<nodes, root, next_id, stack, came, ops, expected, blind>>,
         dirty' \subseteq DOMAIN nodes, Counted',
         restarts' = 0 => restarts = 0,
         restarts = 0 \/ blind => QueryInv'
  PROVE  BeTreeInvariant'
<1>1. TreeInv'
  BY UnchangedKeeps DEF BeTreeInvariant
<1>2. UNCHANGED <<nodes, root, stack, came, expected>> /\ blind' = blind
  OBVIOUS
<1>3. (OrderInv => OrderInv') /\ (BlindInv => BlindInv') /\ (ValueInv => ValueInv')
  BY <1>2, UnchangedSent, UnchangedValue
<1> QED
  BY <1>1, <1>2, <1>3 DEF BeTreeInvariant

LEMMA QueryInvariant ==
  ASSUME BeTreeInvariant, QueryStep \/ \E k \in Keys : StartQuery(k),
         UNCHANGED <<blind, steps, restarts>>
  PROVE  BeTreeInvariant'
<1>1. TreeInv /\ Counted
  BY DEF BeTreeInvariant
<1>2. UNCHANGED flushVars
  BY DEF QueryStep, AskLeaf, AskChild, NoChild, FoundHere, ChildAnswered, AddUpdate,
         EndQuery, StartQuery
<1>3. /\ UNCHANGED <<nodes, root, next_id, stack, came, ops, expected, blind>>
      /\ dirty' = dirty /\ next_timestamp' = next_timestamp
      /\ steps' = steps /\ restarts' = restarts
  BY <1>2 DEF flushVars, treeVars, callVars, historyVars
<1>4. dirty' \subseteq DOMAIN nodes
  BY <1>1, <1>3 DEF TreeInv, HeapTyped
<1>5. Counted'
  BY <1>1, <1>3 DEF Counted
<1>6. restarts = 0 \/ blind => QueryInv'
  BY <1>1, QueryStepKeepsQuery, StartQueryKeepsQuery DEF BeTreeInvariant
<1> QED
  BY <1>3, <1>4, <1>5, <1>6, TreeLeftAlone

LEMMA CacheInvariant ==
  ASSUME BeTreeInvariant, WriteBack \/ Checkpoint \/ Restart
  PROVE  BeTreeInvariant'
<1>1. TreeInv /\ Counted
  BY DEF BeTreeInvariant
<1>2. dirty \subseteq DOMAIN nodes /\ ops \in Nat /\ MaxCacheSteps \in Nat /\ MaxRestarts \in Nat
  BY <1>1, StepsAssumption, MaxOpsAssumption DEF TreeInv, HeapTyped, CallsTyped
<1>3. UNCHANGED <<nodes, root, next_id, stack, came, ops, expected, blind>> /\ asked' = asked
  BY DEF WriteBack, Checkpoint, Restart, CacheStep, treeVars, callVars, historyVars
<1>4. dirty' \subseteq DOMAIN nodes
  BY <1>2 DEF WriteBack, Checkpoint, Restart
<1>5. steps < MaxCacheSteps /\ steps' = steps + 1
  BY DEF WriteBack, Checkpoint, Restart, CacheStep
<1>6. Counted' /\ (restarts' = 0 => restarts = 0)
  <2>1. CASE Restart
    <3>1. restarts < MaxRestarts /\ restarts' = restarts + 1 /\ next_timestamp' = 1
      BY <2>1 DEF Restart, FirstTimestamp
    <3>2. restarts' > 0 /\ restarts' \in 0..MaxRestarts /\ steps' \in 0..MaxCacheSteps
      BY <1>1, <1>2, <1>5, <3>1 DEF Counted
    <3>3. next_timestamp' \in 1..ops' + 1
      BY <1>2, <1>3, <3>1
    <3> QED
      BY <3>2, <3>3 DEF Counted
  <2>2. CASE WriteBack \/ Checkpoint
    <3>1. next_timestamp' = next_timestamp /\ restarts' = restarts
      BY <2>2 DEF WriteBack, Checkpoint, callVars
    <3>2. steps' \in 0..MaxCacheSteps
      BY <1>1, <1>2, <1>5 DEF Counted
    <3> QED
      BY <1>1, <1>3, <3>1, <3>2 DEF Counted
  <2> QED
    BY <2>1, <2>2
<1>7. restarts = 0 \/ blind => QueryInv'
  <2>1. UNCHANGED <<nodes, root, stack, came, expected, asked>>
    BY <1>3
  <2> QED
    BY <2>1, UnchangedQuery DEF BeTreeInvariant
<1> QED
  BY <1>3, <1>4, <1>6, <1>7, TreeLeftAlone

LEMMA StutterInvariant ==
  ASSUME BeTreeInvariant, UNCHANGED vars
  PROVE  BeTreeInvariant'
<1>1. /\ UNCHANGED <<nodes, root, next_id, stack, came, ops, expected, blind>>
      /\ UNCHANGED <<nodes, root, stack, came, expected, asked>>
      /\ dirty' = dirty /\ next_timestamp' = next_timestamp
      /\ steps' = steps /\ restarts' = restarts
  BY DEF vars, flushVars, treeVars, callVars, historyVars
<1>2. dirty' \subseteq DOMAIN nodes
  BY <1>1 DEF BeTreeInvariant, TreeInv, HeapTyped
<1>3. Counted'
  BY <1>1 DEF BeTreeInvariant, Counted
<1>4. restarts = 0 \/ blind => QueryInv'
  BY <1>1, UnchangedQuery DEF BeTreeInvariant
<1> QED
  BY <1>1, <1>2, <1>3, <1>4, TreeLeftAlone

-----------------------------------------------------------------------------
(* The theorems.                                                           *)

\* The inductive invariant of the tree: of its heap, its stack of flushes, its
\* timestamps, and the value each node makes of each key.
THEOREM BeTreeInvariantHolds == Spec => []BeTreeInvariant
<1>1. BeTreeInvariant /\ [Next]_vars => BeTreeInvariant'
  <2> SUFFICES ASSUME BeTreeInvariant, [Next]_vars PROVE BeTreeInvariant'
    OBVIOUS
  <2>1. CASE \E op \in {INSERT, DELETE, UPDATE}, k \in Keys : Upsert(op, k) \/ Replay(op, k)
    BY <2>1, UpsertInvariant
  <2>2. CASE \E k \in Keys : StartQuery(k) /\ UNCHANGED <<blind, steps, restarts>>
    BY <2>2, QueryInvariant
  <2>3. CASE FlushStep /\ UNCHANGED <<asked, blind, steps, restarts>>
    BY <2>3, FlushInvariant
  <2>4. CASE QueryStep /\ UNCHANGED <<blind, steps, restarts>>
    BY <2>4, QueryInvariant
  <2>5. CASE WriteBack \/ Checkpoint \/ Restart
    BY <2>5, CacheInvariant
  <2>6. CASE UNCHANGED vars
    BY <2>6, StutterInvariant
  <2> QED
    BY <2>1, <2>2, <2>3, <2>4, <2>5, <2>6 DEF Next
<1> QED
  BY <1>1, InitInvariant, PTL DEF Spec

\* Types: of the nodes, of the messages in their buffers, of the calls.
THEOREM BeTreeTypeCorrect == Spec => []BeTreeTypeOk
<1>1. BeTreeInvariant => BeTreeTypeOk
  <2> SUFFICES ASSUME BeTreeInvariant PROVE BeTreeTypeOk
    OBVIOUS
  <2>1. TreeInv /\ Counted /\ HeapTyped /\ CallsTyped
    BY DEF BeTreeInvariant, TreeInv
  <2>2. ASSUME NEW i \in DOMAIN nodes
        PROVE  /\ DOMAIN nodes[i].pivots \subseteq Keys
               /\ \A m \in DOMAIN nodes[i].elements :
                    m[1] \in Keys /\ m[2] \in 1..MaxOps + 1 /\ nodes[i].elements[m] \in Message
    <3>1. DOMAIN nodes[i].pivots \subseteq Keys /\ IsElements(nodes[i].elements)
      BY <2>1, NodeFacts
    <3> QED
      BY <3>1, ElementFacts DEF Timestamps
  <2>3. next_timestamp \in 1..MaxOps + 1
    BY <2>1, MaxOpsAssumption DEF Counted, CallsTyped
  <2> QED
    BY <2>1, <2>2, <2>3 DEF BeTreeTypeOk, FlushTypeOk, HeapTyped, CallsTyped, Counted
<1> QED
  BY <1>1, BeTreeInvariantHolds, PTL

\* What came to a node came through the pivots above it, also while children split and
\* first pivots are lowered (betree.hpp 449-455, 513-526): a search meets every message.
THEOREM TreeKeepsKeysWithinPivots == Spec => []KeysWithinPivots
<1>1. BeTreeInvariant => KeysWithinPivots
  BY DEF BeTreeInvariant, TreeInv
<1> QED
  BY <1>1, BeTreeInvariantHolds, PTL

\* A leaf has only inserts, one for a key (apply, betree.hpp 282-326): what query
\* asserts of it and what split relies on.
THEOREM TreeLeavesHoldInserts == Spec => []LeavesHoldInserts
<1>1. BeTreeInvariant => LeavesHoldInserts
  BY DEF BeTreeInvariant, TreeInv
<1> QED
  BY <1>1, BeTreeInvariantHolds, PTL

\* Until the program is restarted the messages for a key get older on the way down,
\* whichever of them went past a buffer to a dirty child (betree.hpp 461-479).
THEOREM TreeNewerAbove == Spec => []NewerAbove
<1>1. BeTreeInvariant => NewerAbove
  BY DEF BeTreeInvariant, OrderInv, NewerAbove
<1> QED
  BY <1>1, BeTreeInvariantHolds, PTL

\* Every query answers what the calls made of the key, wherever the flushes have left
\* its messages: in one run of the program, and after restarts, too, as long as no
\* call was an update (query, betree.hpp 534-588).
THEOREM TreeQueryIsExpected == Spec => []QueryIsExpected
<1>1. BeTreeInvariant => QueryIsExpected
  BY AnswerFollows DEF BeTreeInvariant, QueryIsExpected
<1> QED
  BY <1>1, BeTreeInvariantHolds, PTL
=============================================================================
