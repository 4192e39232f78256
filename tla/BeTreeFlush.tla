---------------------------- MODULE BeTreeFlush ----------------------------
(***************************************************************************)
(* upsert and flush of project3/betree.hpp, which the tree of CS6530-P2    *)
(* has, too: messages trickle down through the buffers of inner nodes to   *)
(* the leaves.  A flush in progress is a frame on a stack; each action is  *)
(* one step of the one on top.                                             *)
(*                                                                         *)
(* The way a message takes depends on the cache.  A node is dirty until it *)
(* is written out, which may happen at any time to one that no flush has   *)
(* pinned; one that is not dirty may be in memory or not.  An id is a pair *)
(* of a number and a key, so that one allocation can name several nodes.   *)
(***************************************************************************)
EXTENDS BeTreeNode

CONSTANTS
  min_flush_size,
  Keys,              \* what clients use
  TracksDirty,       \* whether anything sets the flag that is_dirty returns
  NULL,              \* no value, no pivot
  MaxOps             \* bound: upserts in a behaviour

Value == Seq(1..MaxOps)

\* means is a history: the value of the key after the call that sent the message.
Message == [op : {INSERT, DELETE, UPDATE}, val : Value, means : Value \cup {NULL}]

ASSUME FlushSizeAssumption == min_flush_size \in Nat
ASSUME KeysAssumption == Keys \subseteq Nat
ASSUME TracksDirtyAssumption == TracksDirty \in BOOLEAN
ASSUME NullIsNoValue == NULL \notin Value /\ NULL \notin Nat
ASSUME MaxOpsAssumption == MaxOps \in Nat

VARIABLES
  nodes,             \* id |-> node
  root,              \* the id of the node betree::root points to
  next_id,
  dirty,             \* ids of the nodes that are flagged dirty
  stack,             \* the flushes in progress, the innermost last
  next_timestamp,
  faults,            \* history: what went wrong in flush
  ops,               \* history: calls so far; the nth call writes the value <<n>>
  expected,          \* history: what the calls made of each key, NULL if nothing
  came               \* history: id |-> key |-> the last message for the key that came
                     \* to the node, or to what it was split from: [ts, means]

treeVars    == <<nodes, root, next_id>>
callVars    == <<next_timestamp, ops, expected>>
historyVars == <<faults, came>>
flushVars   == <<treeVars, dirty, stack, callVars, historyVars>>

NodeIds == Nat \X Nat

-----------------------------------------------------------------------------
(* Frames.                                                                 *)

\* A call of flush: the node, how far it is, the messages it has still to apply,
\* first_pivot_idx (NULL once its pivot has been erased), and the pivot of the child
\* that is being flushed to.
Frame(i, elts) ==
  [node |-> i, at |-> "enter", elts |-> elts, first |-> NULL, pivot |-> NULL]

Top == stack[Len(stack)]
Me  == nodes[Top.node]

At(l) == faults = {} /\ stack # << >> /\ Top.at = l

\* The frame on top goes on as f.
Become(f) == [stack EXCEPT ![Len(stack)] = f]

\* Nodes in S are accessed for writing.
Touched(S) == IF TracksDirty THEN dirty \cup S ELSE {}

\* The answers is_in_memory may give.
InMemory(i) == IF i \in dirty THEN {TRUE} ELSE BOOLEAN

\* elts come to a node.
Arrived(old, elts) ==
  LET last(k) == Latest(MessagesOf(elts, k))
  IN [k \in DOMAIN old \cup KeysOf(elts) |->
        IF k \in KeysOf(elts) THEN [ts |-> last(k)[2], means |-> elts[last(k)].means]
        ELSE old[k]]

\* The frame on top goes on as f and calls flush for node i.
Calls(f, i, elts) ==
  /\ stack' = Append(Become(f), Frame(i, elts))
  /\ came'  = [came EXCEPT ![i] = Arrived(@, elts)]

-----------------------------------------------------------------------------
(* Down.                                                                   *)

Lowered == LowerFirstPivot(Me, Top.elts)
First   == get_pivot(Lowered.pivots, Earliest(DOMAIN Top.elts)[1])
Last    == get_pivot(Lowered.pivots, Latest(DOMAIN Top.elts)[1])

\* "Everything is going to a single dirty child".
OneDirtyChild == First = Last /\ Lowered.pivots[First] \in dirty

FlushLeaf ==
  /\ At("enter") /\ is_leaf(Me)
  /\ stack' = Become([Top EXCEPT !.at = "apply"])
  /\ dirty' = Touched({Top.node})
  /\ UNCHANGED <<treeVars, callVars, historyVars>>

\* Past the buffer, in which nothing should be for the child.
FlushThrough ==
  /\ At("enter") /\ ~is_leaf(Me) /\ OneDirtyChild
  /\ IF ElementsFor(Lowered, First) = {}
       THEN /\ nodes' = [nodes EXCEPT ![Top.node] = Lowered]
            /\ Calls([Top EXCEPT !.at = "through", !.elts = NoElements,
                                 !.first = First, !.pivot = First],
                     Lowered.pivots[First], Top.elts)
            /\ dirty' = Touched({Top.node})
            /\ UNCHANGED faults
       ELSE /\ faults' = {"buffer not empty"}
            /\ UNCHANGED <<nodes, stack, dirty, came>>
  /\ UNCHANGED <<root, next_id, callVars>>

FlushToBuffer ==
  /\ At("enter") /\ ~is_leaf(Me) /\ ~OneDirtyChild
  /\ nodes' = [nodes EXCEPT ![Top.node] = Lowered]
  /\ stack' = Become([Top EXCEPT !.at = "apply", !.first = First])
  /\ dirty' = Touched({Top.node})
  /\ UNCHANGED <<root, next_id, callVars, historyVars>>

\* The loop over elts.
ApplyNext ==
  /\ At("apply") /\ Top.elts # NoElements
  /\ LET m == Earliest(DOMAIN Top.elts)
     IN /\ nodes' = [nodes EXCEPT ![Top.node] = Apply(@, m, Top.elts[m])]
        /\ stack' = Become([Top EXCEPT !.elts = Without(@, {m})])
  /\ UNCHANGED <<root, next_id, dirty, callVars, historyVars>>

\* Worth the I/O: more messages for a child on disk than for one in memory.
Pays(size, in_memory) ==
  size > min_flush_size \/ (size > min_flush_size \div 2 /\ in_memory)

FullBuffer == ~is_leaf(Me) /\ Size(Me) >= max_node_size
BatchFor(p) == Restrict(Me.elements, ElementsFor(Me, p))
MayPay(in_memory) == Pays(Cardinality(ElementsFor(Me, Fullest(Me))), in_memory)

\* A round of the while loop: the messages for the fullest child go to it.  They
\* leave the buffer when its flush has returned.
FlushChild ==
  /\ At("apply") /\ Top.elts = NoElements /\ FullBuffer
  /\ LET p == Fullest(Me)
     IN /\ \E in_memory \in InMemory(Me.pivots[p]) : MayPay(in_memory)
        /\ Calls([Top EXCEPT !.at = "child", !.pivot = p], Me.pivots[p], BatchFor(p))
  /\ UNCHANGED <<treeVars, dirty, callVars, faults>>

-----------------------------------------------------------------------------
(* Up.                                                                     *)

\* Nothing is left to be done in the node but to split it; a leaf does that when it
\* is full, an inner node when it is more than full.  After FlushThrough nobody asks.
Finished ==
  \/ At("done")
  \/ /\ At("apply") /\ Top.elts = NoElements
     /\ FullBuffer => \E in_memory \in InMemory(Me.pivots[Fullest(Me)]) : ~MayPay(in_memory)

\* Mutant: pivots do not count.
TooLargeInMessages ==
  Top.at = "apply" /\ Cardinality(DOMAIN Me.elements)
                        >= (IF is_leaf(Me) THEN max_node_size ELSE max_node_size + 1)

TooLarge ==
  Top.at = "apply" /\ Size(Me) >= (IF is_leaf(Me) THEN max_node_size ELSE max_node_size + 1)

Caller == stack[Len(stack) - 1]
\* The frames left when the one on top returns, its caller going on as f.
Return(f) == [SubSeq(stack, 1, Len(stack) - 1) EXCEPT ![Len(stack) - 1] = f]

\* What the caller has in its buffer when the child has returned.
AfterBatch(n) ==
  IF Caller.at = "child" THEN [n EXCEPT !.elements = Without(@, ElementsFor(n, Caller.pivot))]
  ELSE n

\* A call that went past the buffer returns as well.
Resumed == [Caller EXCEPT !.at = IF @ = "child" THEN "apply" ELSE "done", !.pivot = NULL]

\* The child is still there; child_size is set, through first_pivot_idx.
ReturnWhole ==
  /\ Finished /\ ~TooLarge /\ Len(stack) > 1
  /\ Caller.first # NULL
  /\ nodes' = [nodes EXCEPT ![Caller.node] = AfterBatch(@)]
  /\ stack' = Return(Resumed)
  /\ dirty' = Touched({Top.node})
  /\ UNCHANGED <<root, next_id, callVars, historyVars>>

\* ... whose pivot has been erased.
ReturnWholeFails ==
  /\ Finished /\ ~TooLarge /\ Len(stack) > 1
  /\ Caller.first = NULL
  /\ faults' = {"erased pivot used"}
  /\ UNCHANGED <<treeVars, dirty, stack, callVars, came>>

\* The new nodes, by first key.
Parts == Split(Me)
Kids  == [k \in DOMAIN Parts |-> <<next_id, k>>]

KidIds == {Kids[k] : k \in DOMAIN Parts}

\* What came to the part that begins at k.
Share(k) ==
  Restrict(came[Top.node],
           {j \in DOMAIN came[Top.node] : k <= j /\ j \in PartOf(DOMAIN Parts, k)})

\* The parts take the place of the node on top.
NodesSplit == [i \in (DOMAIN nodes \ {Top.node}) \cup KidIds |->
                 IF i \in KidIds THEN Parts[i[2]] ELSE nodes[i]]
CameSplit  == [i \in (DOMAIN came \ {Top.node}) \cup KidIds |->
                 IF i \in KidIds THEN Share(i[2]) ELSE came[i]]

\* The node splits, its parent takes the new nodes in its place.
ReturnSplit ==
  /\ Finished /\ TooLarge /\ Len(stack) > 1
  /\ LET parent == ReplaceChild(AfterBatch(nodes[Caller.node]), Caller.pivot, Kids)
     IN nodes' = [NodesSplit EXCEPT ![Caller.node] = parent]
  /\ came' = CameSplit
  /\ next_id' = next_id + 1
  /\ stack' = Return([Resumed EXCEPT !.first = IF @ = Caller.pivot THEN NULL ELSE @])
  /\ dirty' = Touched(KidIds) \ {Top.node}
  /\ UNCHANGED <<root, callVars, faults>>

EndUpsert ==
  /\ Finished /\ ~TooLarge /\ Len(stack) = 1
  /\ stack' = << >>
  /\ UNCHANGED <<treeVars, dirty, callVars, historyVars>>

\* The root splits and gets a new one above it.
SplitRoot ==
  /\ Finished /\ TooLarge /\ Len(stack) = 1
  /\ root'  = <<next_id + 1, 0>>
  /\ nodes' = Put(NodesSplit, root', [NewNode EXCEPT !.pivots = Kids])
  /\ came'  = Put(CameSplit, root', came[root])
  /\ dirty' = Touched(KidIds \cup {root'}) \ {root}
  /\ next_id' = next_id + 2
  /\ stack' = << >>
  /\ UNCHANGED <<callVars, faults>>

FlushStep ==
  \/ FlushLeaf \/ FlushThrough \/ FlushToBuffer
  \/ ApplyNext \/ FlushChild
  \/ ReturnWhole \/ ReturnWholeFails \/ ReturnSplit \/ EndUpsert \/ SplitRoot

-----------------------------------------------------------------------------
(* Calls.                                                                  *)

\* "Nothing has a timestamp of 0".  Mutant: something has.
ZeroTimestamp  == 0
FirstTimestamp == 1

FlushInit ==
  /\ root = <<0, 0>>
  /\ nodes = [i \in {root} |-> NewNode]
  /\ next_id = 1
  /\ dirty = IF TracksDirty THEN {root} ELSE {}
  /\ stack = << >>
  /\ next_timestamp = FirstTimestamp
  /\ faults = {}
  /\ ops = 0
  /\ expected = [k \in Keys |-> NULL]
  /\ came = [i \in {root} |-> << >>]

\* The value of a key after a call, whatever the tree looks like.
Meaning(old, op, v) ==
  IF op = INSERT THEN v
  ELSE IF op = DELETE THEN NULL
  ELSE (IF old = NULL THEN default_value ELSE old) \o v

\* The message is given to the root.
Begin(op, k, ts) ==
  LET val  == IF op = DELETE THEN default_value ELSE <<ops + 1>>
      msg  == [op |-> op, val |-> val, means |-> Meaning(expected[k], op, val)]
      elts == Put(NoElements, <<k, ts>>, msg)
  IN /\ faults = {} /\ stack = << >>
     /\ ops < MaxOps
     /\ ops' = ops + 1
     /\ stack' = <<Frame(root, elts)>>
     /\ came'  = [came EXCEPT ![root] = Arrived(@, elts)]
     /\ expected' = [expected EXCEPT ![k] = msg.means]
     /\ UNCHANGED <<treeVars, dirty, faults>>

-----------------------------------------------------------------------------
(***************************************************************************)
(* Properties.                                                             *)
(***************************************************************************)

FlushTypeOk ==
  /\ \A i \in DOMAIN nodes :
       /\ DOMAIN nodes[i].pivots \subseteq Keys
       /\ \A m \in DOMAIN nodes[i].elements :
            m[1] \in Keys /\ m[2] \in 1..MaxOps + 1 /\ nodes[i].elements[m] \in Message
  /\ root \in DOMAIN nodes /\ dirty \subseteq DOMAIN nodes
  /\ next_timestamp \in 1..MaxOps + 1
  /\ expected \in [Keys -> Value \cup {NULL}]
  /\ ops \in 0..MaxOps

\* The keys between pivot p and the next one.
Between(n, p) == {k \in Keys : p <= k /\ \A q \in DOMAIN n.pivots : p < q => k < q}

\* A search for a key passes every node that has a message for it: what came to a
\* node came through the pivots above it, also when a first pivot was lowered and
\* when children split, and no message is below a node's pivots.
KeysWithinPivots ==
  \A i \in DOMAIN nodes :
    LET n == nodes[i]
    IN /\ DOMAIN n.pivots \cup KeysOf(n.elements) \subseteq DOMAIN came[i]
       /\ ~is_leaf(n) => \A k \in KeysOf(n.elements) : ~BelowPivots(n.pivots, k)
       /\ \A p \in DOMAIN n.pivots :
            DOMAIN came[n.pivots[p]] \subseteq DOMAIN came[i] \cap Between(n, p)

\* A leaf has only inserts, one for a key.
LeavesHoldInserts == \A i \in DOMAIN nodes : is_leaf(nodes[i]) => ProperLeaf(nodes[i])

\* Messages of node i that are being flushed, and that it will not keep.
Sent(i) ==
  {m \in DOMAIN nodes[i].elements :
     \E f \in DOMAIN stack : /\ stack[f].node = i /\ stack[f].at = "child"
                             /\ m \in ElementsFor(nodes[i], stack[f].pivot)}

\* The messages for a key get older on the way down: those in a node's buffer are
\* newer than all that ever came to the child they are for.
OlderBelow ==
  \A i \in DOMAIN nodes :
    /\ \A m \in DOMAIN nodes[i].elements : m[2] <= came[i][m[1]].ts
    /\ \A p \in DOMAIN nodes[i].pivots :
         LET c == came[nodes[i].pivots[p]]
         IN /\ \A k \in DOMAIN c : c[k].ts <= came[i][k].ts
            /\ \A m \in ElementsFor(nodes[i], p) \ Sent(i) :
                 m[1] \in DOMAIN c => c[m[1]].ts < m[2]
=============================================================================
