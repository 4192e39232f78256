------------------------ MODULE LegacyBeTreeProofs ------------------------
(***************************************************************************)
(* The same for the tree of CS6530-P2.                                     *)
(***************************************************************************)
EXTENDS LegacyBeTree, BeTreeValueProofs

\* Every call has a timestamp of its own.
Counted ==
  /\ next_timestamp = ops + 1
  /\ \A k \in DOMAIN came[root] : came[root][k].ts < next_timestamp

LegacyTreeInvariant == TreeInv /\ Counted /\ OrderInv /\ ValueInv /\ QueryInv

LEMMA InitInvariant == Init => LegacyTreeInvariant
<1> SUFFICES ASSUME Init PROVE LegacyTreeInvariant
  OBVIOUS
<1>1. FlushInit /\ asked = NULL
  BY DEF Init
<1>2. TreeInv /\ OrderInv /\ DOMAIN came[root] = {} /\ ValueInv
  BY <1>1, FlushInitTree, FlushInitOrder, FlushInitValue
<1>3. next_timestamp = 1 /\ ops = 0
  BY <1>1 DEF FlushInit, FirstTimestamp
<1>4. QueryInv
  BY <1>1 DEF QueryInv
<1> QED
  BY <1>2, <1>3, <1>4 DEF LegacyTreeInvariant, Counted

LEMMA UpsertInvariant ==
  ASSUME LegacyTreeInvariant, NEW op \in {INSERT, DELETE, UPDATE}, NEW k \in Keys, Upsert(op, k)
  PROVE  LegacyTreeInvariant'
<1> DEFINE ts == ops + 1
<1>1. /\ TreeInv /\ OrderInv /\ ValueInv /\ next_timestamp = ts
      /\ \A j \in DOMAIN came[root] : came[root][j].ts < ts
  BY DEF LegacyTreeInvariant, Counted
<1>2. /\ asked = NULL /\ asked' = NULL /\ Begin(op, k, ts) /\ next_timestamp' = ts + 1
      /\ ops' = ops + 1
  BY <1>1 DEF Upsert, Begin
<1>3. ts \in Timestamps /\ ops \in Nat
  BY <1>1, MaxOpsAssumption DEF TreeInv, CallsTyped, Timestamps
<1> HIDE DEF ts
<1>4. TreeInv'
  BY <1>1, <1>2, <1>3, BeginKeeps
<1>5. OrderInv' /\ \A j \in DOMAIN came'[root'] : came'[root'][j].ts <= ts
  BY <1>1, <1>2, <1>3, <1>4, BeginOrder
<1>6. ValueInv'
  BY <1>1, <1>2, <1>3, BeginValue
<1>7. QueryInv'
  BY <1>2 DEF QueryInv
<1>8. Counted'
  <2>1. next_timestamp' = ops' + 1
    BY <1>2 DEF ts
  <2>2. ASSUME NEW j \in DOMAIN came'[root'] PROVE came'[root'][j].ts < next_timestamp'
    <3>1. IsCame(came'[root'])
      BY <1>4 DEF TreeInv, HeapTyped
    <3>2. came'[root'][j].ts \in Nat /\ ts \in Nat
      BY <1>3, <3>1, MaxOpsAssumption DEF IsCame, Timestamps
    <3> QED
      BY <1>2, <1>5, <3>2
  <2> QED
    BY <2>1, <2>2 DEF Counted
<1> QED
  BY <1>4, <1>5, <1>6, <1>7, <1>8 DEF LegacyTreeInvariant

LEMMA FlushInvariant ==
  ASSUME LegacyTreeInvariant, FlushStep, asked' = asked
  PROVE  LegacyTreeInvariant'
<1>1. TreeInv /\ Counted /\ OrderInv /\ ValueInv /\ QueryInv
  BY DEF LegacyTreeInvariant
<1>2. TreeInv' /\ OrderInv' /\ ValueInv' /\ QueryInv'
  BY <1>1, FlushStepKeepsTree, FlushStepKeepsOrder, FlushStepKeepsValue, FlushStepKeepsQuery
<1>3. came'[root'] = came[root] /\ ops' = ops /\ next_timestamp' = next_timestamp
  BY <1>1, RootKeepsCame
<1> QED
  BY <1>1, <1>2, <1>3 DEF LegacyTreeInvariant, Counted

LEMMA TreeLeftAlone ==
  ASSUME LegacyTreeInvariant, UNCHANGED flushVars, QueryInv'
  PROVE  LegacyTreeInvariant'
<1>1. /\ UNCHANGED <<nodes, root, next_id, stack, came, ops, expected>>
      /\ UNCHANGED <<nodes, root, stack, came, expected>>
      /\ dirty' = dirty
      /\ came' = came /\ root' = root /\ next_timestamp' = next_timestamp /\ ops' = ops
  BY DEF flushVars, treeVars, callVars, historyVars
<1>2. dirty' \subseteq DOMAIN nodes
  BY <1>1 DEF LegacyTreeInvariant, TreeInv, HeapTyped
<1>3. TreeInv' /\ ValueInv'
  BY <1>1, <1>2, UnchangedKeeps, UnchangedValue DEF LegacyTreeInvariant
<1>4. OrderInv'
  BY <1>1, UnchangedSent DEF LegacyTreeInvariant
<1>5. Counted'
  BY <1>1 DEF LegacyTreeInvariant, Counted
<1> QED
  BY <1>3, <1>4, <1>5 DEF LegacyTreeInvariant

LEMMA QueryInvariant ==
  ASSUME LegacyTreeInvariant, QueryStep \/ \E k \in Keys : StartQuery(k)
  PROVE  LegacyTreeInvariant'
<1>1. UNCHANGED flushVars
  BY DEF QueryStep, AskLeaf, AskChild, NoChild, FoundHere, ChildAnswered, AddUpdate,
         EndQuery, StartQuery
<1>2. QueryInv'
  BY QueryStepKeepsQuery, StartQueryKeepsQuery DEF LegacyTreeInvariant
<1> QED
  BY <1>1, <1>2, TreeLeftAlone

LEMMA StutterInvariant ==
  ASSUME LegacyTreeInvariant, UNCHANGED vars
  PROVE  LegacyTreeInvariant'
<1>1. UNCHANGED flushVars /\ asked' = asked
  BY DEF vars
<1>2. UNCHANGED <<nodes, root, stack, came, expected, asked>>
  BY <1>1 DEF flushVars, treeVars, callVars, historyVars
<1>3. QueryInv'
  BY <1>2, UnchangedQuery DEF LegacyTreeInvariant
<1> QED
  BY <1>1, <1>3, TreeLeftAlone

-----------------------------------------------------------------------------
(* The theorems.                                                           *)

\* The inductive invariant of the earlier tree.
THEOREM LegacyTreeInvariantHolds == Spec => []LegacyTreeInvariant
<1>1. LegacyTreeInvariant /\ [Next]_vars => LegacyTreeInvariant'
  <2> SUFFICES ASSUME LegacyTreeInvariant, [Next]_vars PROVE LegacyTreeInvariant'
    OBVIOUS
  <2> QED
    BY UpsertInvariant, QueryInvariant, FlushInvariant, StutterInvariant DEF Next, Flush, Query
<1> QED
  BY <1>1, InitInvariant, PTL DEF Spec

\* With every message in a buffer no child overtakes its parent, a search meets every
\* message for its key, and leaves are down to one insert for a key, whatever children
\* were in memory when a flush asked (betree.hpp 278-323, 422-529).
THEOREM LegacyTreeInOrder == Spec => []TreeInOrder
<1>1. LegacyTreeInvariant => TreeInOrder
  BY DEF LegacyTreeInvariant, TreeInv, OrderInv, TreeInOrder
<1> QED
  BY <1>1, LegacyTreeInvariantHolds, PTL

\* Every query answers what the calls made of the key (betree.hpp 531-585).
THEOREM LegacyQueryIsExpected == Spec => []QueryIsExpected
<1>1. LegacyTreeInvariant => QueryIsExpected
  BY AnswerFollows DEF LegacyTreeInvariant, QueryIsExpected
<1> QED
  BY <1>1, LegacyTreeInvariantHolds, PTL
=============================================================================
