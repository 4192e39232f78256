----------------------------- MODULE BeTreeNode -----------------------------
(***************************************************************************)
(* One node of the tree of project3/betree.hpp: its maps, how a message is *)
(* applied to it and how it splits.                                        *)
(*                                                                         *)
(* A node is [pivots, elements].  pivots maps keys to the ids of children, *)
(* elements maps message keys <<key, timestamp>> to messages [op, val].    *)
(* Values are sequences of tokens and `+' appends, as it does for the      *)
(* strings of the tests, so that the order of updates can be seen in a     *)
(* value.  child_size is left out: only merge_small_children, which        *)
(* nothing calls, reads it.                                                *)
(***************************************************************************)
EXTENDS Naturals, Sequences, FiniteSetsExt, Functions

CONSTANT max_node_size

\* With less than 3, split divides by zero.
ASSUME NodeSizeAssumption == max_node_size \in Nat /\ max_node_size >= 3

INSERT == 0
DELETE == 1
UPDATE == 2

NoPivots      == << >>
NoElements    == << >>
default_value == << >>

NewNode == [pivots |-> NoPivots, elements |-> NoElements]

is_leaf(n) == DOMAIN n.pivots = {}

\* elements.size() + pivots.size()
Size(n) == Cardinality(DOMAIN n.elements) + Cardinality(DOMAIN n.pivots)

\* operator< on message keys, and what std::map makes of it.
Before(a, b) == a[1] < b[1] \/ (a[1] = b[1] /\ a[2] < b[2])
Earliest(S) == CHOOSE a \in S : \A b \in S \ {a} : Before(a, b)
Latest(S)   == CHOOSE a \in S : \A b \in S \ {a} : Before(b, a)

Without(f, S) == Restrict(f, DOMAIN f \ S)
Put(f, x, v)  == [y \in DOMAIN f \cup {x} |-> IF y = x THEN v ELSE f[y]]

\* From range_start(k) to range_end(k).
MessagesOf(elts, k) == {m \in DOMAIN elts : m[1] = k}
KeysOf(elts) == {m[1] : m \in DOMAIN elts}

\* get_pivot; it throws if k is below every pivot.
BelowPivots(pivots, k) == \A p \in DOMAIN pivots : k < p
get_pivot(pivots, k) == Max({p \in DOMAIN pivots : p <= k})

\* Mutant: up to the last message for the next pivot's key.
ElementsUpToNext(n, p) ==
  {m \in DOMAIN n.elements :
     /\ p <= m[1]
     /\ \A q \in DOMAIN n.pivots : p < q => m[1] <= q}

\* get_element_begin(p) up to get_element_begin(next(p)).
ElementsFor(n, p) ==
  {m \in DOMAIN n.elements :
     /\ p <= m[1]
     /\ \A q \in DOMAIN n.pivots : p < q => m[1] < q}

-----------------------------------------------------------------------------
\* All messages of the key go; this one takes their place.
Replace(elts, m, msg) == Put(Without(elts, MessagesOf(elts, m[1])), m, msg)

\* The update msg and the value it adds to.
Merged(old, msg) == [msg EXCEPT !.op = INSERT, !.val = old \o @]

\* Mutant: a leaf keeps an update that finds nothing to be merged into.
ApplyUpdateAsInBuffer(n, m, msg) ==
  LET elts == n.elements
      mine == MessagesOf(elts, m[1])
      last == elts[Latest(mine)]
  IN [n EXCEPT !.elements =
        IF msg.op = INSERT THEN Replace(elts, m, msg)
        ELSE IF msg.op = DELETE
          THEN IF is_leaf(n) THEN Without(elts, mine) ELSE Replace(elts, m, msg)
        ELSE IF mine # {} /\ last.op = INSERT THEN Replace(elts, m, Merged(last.val, msg))
        ELSE Put(elts, m, msg)]

\* An update is merged into an insert right away; a leaf has no other messages
\* than inserts.  In an inner node it waits with its own timestamp.
Apply(n, m, msg) ==
  LET elts == n.elements
      mine == MessagesOf(elts, m[1])
      last == elts[Latest(mine)]
  IN [n EXCEPT !.elements =
        IF msg.op = INSERT THEN Replace(elts, m, msg)
        ELSE IF msg.op = DELETE
          THEN IF is_leaf(n) THEN Without(elts, mine) ELSE Replace(elts, m, msg)
        ELSE IF mine # {} /\ last.op = INSERT THEN Replace(elts, m, Merged(last.val, msg))
        ELSE IF mine = {} /\ is_leaf(n) THEN Replace(elts, m, Merged(default_value, msg))
        ELSE Put(elts, m, msg)]

-----------------------------------------------------------------------------
\* What split moves as a whole: an element of a leaf (which has one for a key),
\* a pivot of an inner node with the elements up to the next one.
Units(n) == IF is_leaf(n) THEN KeysOf(n.elements) ELSE DOMAIN n.pivots

\* things_moved when the unit's turn comes.
ThingsBefore(n, u) ==
  IF u = Min(Units(n)) THEN 0
  ELSE Cardinality({m \in DOMAIN n.elements : m[1] < u})
         + Cardinality({p \in DOMAIN n.pivots : p < u})

\* Units are dealt out in order, things_per_new_leaf to a node: the first keys of the
\* new nodes.  (A node that gets none, because the unit before filled it, loses its
\* place in the result.)
Cuts(n) ==
  LET num_new_leaves      == Size(n) \div ((10 * max_node_size) \div 24)
      things_per_new_leaf == (Size(n) + num_new_leaves - 1) \div num_new_leaves
      Leaf(u) == ThingsBefore(n, u) \div things_per_new_leaf
  IN {u \in Units(n) : \A v \in Units(n) : v < u => Leaf(v) # Leaf(u)}

\* The keys of the part that begins at k, if the parts begin at S.
PartOf(S, k) ==
  {j \in Nat : (k <= j \/ \A l \in S : k <= l) /\ \A l \in S : k < l => j < l}

Split(n) ==
  [k \in Cuts(n) |->
     LET Ours(j) == j \in PartOf(Cuts(n), k)
     IN [pivots   |-> Restrict(n.pivots, {p \in DOMAIN n.pivots : Ours(p)}),
         elements |-> Restrict(n.elements, {m \in DOMAIN n.elements : Ours(m[1])})]]

-----------------------------------------------------------------------------
(* The steps of flush within the node.                                     *)

\* "Update the key of the first child, if necessary".
LowerFirstPivot(n, elts) ==
  LET oldmin == Min(DOMAIN n.pivots)
      newmin == Earliest(DOMAIN elts)[1]
  IN IF newmin < oldmin
       THEN [n EXCEPT !.pivots = Put(Without(@, {oldmin}), newmin, @[oldmin])]
       ELSE n

\* The child at p has split into those that kids lists.  (insert leaves a pivot that
\* is there alone.)
ReplaceChild(n, p, kids) ==
  [n EXCEPT !.pivots = [k \in (DOMAIN @ \ {p}) \cup DOMAIN kids |->
                          IF k \in DOMAIN @ \ {p} THEN @[k] ELSE kids[k]]]

\* The child with most messages in the buffer, the first of several.
Fullest(n) ==
  LET Count(p) == Cardinality(ElementsFor(n, p))
  IN Min({p \in DOMAIN n.pivots : \A q \in DOMAIN n.pivots : Count(q) <= Count(p)})

\* A leaf with only inserts, one for a key: what query and split rely on.
ProperLeaf(n) ==
  \A m \in DOMAIN n.elements :
    n.elements[m].op = INSERT /\ MessagesOf(n.elements, m[1]) = {m}
=============================================================================
