----------------------------- MODULE BeTreeScan -----------------------------
(***************************************************************************)
(* Iterators of project3/betree.hpp, the same in CS6530-P2: the messages   *)
(* of all nodes merged in order, and what they make of each key.           *)
(***************************************************************************)
EXTENDS BeTreeQuery

CONSTANT MaxTimestamp  \* UINT64_MAX; larger than any timestamp given out

ASSUME TimestampAssumption == MaxTimestamp \in Nat

-----------------------------------------------------------------------------
RECURSIVE NextMessage(_, _)

\* Mutant: only the child at the message's pivot is asked.
NextFromOneChild(i, m) ==
  LET n   == nodes[i]
      low == m = NULL \/ BelowPivots(n.pivots, m[1])
  IN IF low THEN NextMessage(n.pivots[Min(DOMAIN n.pivots)], NULL)
     ELSE NextMessage(n.pivots[get_pivot(n.pivots, m[1])], m)

\* get_next_message_from_children: the first child that has one.
NextFromChildren(i, m) ==
  LET n     == nodes[i]
      low   == m = NULL \/ BelowPivots(n.pivots, m[1])
      from  == IF low THEN Min(DOMAIN n.pivots) ELSE get_pivot(n.pivots, m[1])
      after == IF low THEN NULL ELSE m
      Found(p) == NextMessage(n.pivots[p], after)
      kids  == {p \in DOMAIN n.pivots : p >= from /\ Found(p) # NULL}
  IN IF kids = {} THEN NULL ELSE Found(Min(kids))

\* get_next_message: the first message after m in the subtree, NULL if none.
NextMessage(i, m) ==
  LET n     == nodes[i]
      later == {e \in DOMAIN n.elements : m = NULL \/ Before(m, e)}
      own   == IF later = {} THEN NULL
               ELSE [at |-> Earliest(later), msg |-> n.elements[Earliest(later)]]
      kids  == IF is_leaf(n) THEN NULL ELSE NextFromChildren(i, m)
  IN IF own = NULL \/ (kids # NULL /\ Before(kids.at, own.at)) THEN kids ELSE own

\* iterator::apply.
Absorb(it, pos) ==
  IF pos.msg.op = DELETE THEN [it EXCEPT !.is_valid = FALSE]
  ELSE [is_valid |-> TRUE, first |-> pos.at[1],
        second |-> IF pos.msg.op = INSERT THEN pos.msg.val
                   ELSE (IF it.is_valid THEN it.second ELSE default_value) \o pos.msg.val]

\* setup_next_element: messages are absorbed until the next key begins.
RECURSIVE SetUp(_, _)
SetUp(it, pos) ==
  IF pos # NULL /\ (it.is_valid => pos.at[1] = it.first)
    THEN SetUp(Absorb(it, pos), NextMessage(root, pos.at))
    ELSE [it |-> it, pos |-> pos]

\* What the iterator shows from position pos to end().
RECURSIVE Elements(_)
Elements(pos) ==
  LET next == SetUp([is_valid |-> FALSE, first |-> NULL, second |-> NULL], pos)
  IN IF ~next.it.is_valid THEN << >>
     ELSE <<<<next.it.first, next.it.second>>>> \o Elements(next.pos)

\* iterator(bet, mkey) up to end().
Scan(mkey) == Elements(NextMessage(root, mkey))

\* range_start and range_end: before and after every message for the key.
range_start(k)   == <<k, 0>>
RangeEndAtOne(k) == <<k, 1>>             \* mutant: not the largest timestamp
range_end(k)     == <<k, MaxTimestamp>>

-----------------------------------------------------------------------------
(* What they should give.                                                  *)

\* The keys in S of a map, but for those without a value, in order.
Listed(map, S) ==
  LET present == {k \in S : map[k] # NULL}
      Nth(i)  == CHOOSE k \in present : Cardinality({j \in present : j < k}) = i - 1
  IN [i \in 1..Cardinality(present) |-> <<Nth(i), map[Nth(i)]>>]

begin          == Scan(NULL)
lower_bound(k) == Scan(range_start(k))
upper_bound(k) == Scan(range_end(k))

\* Between calls a scan shows every key that exists, once, in order, with its value:
\* from the first key, from a key, and from behind a key.
ScansAgree ==
  Idle =>
    /\ begin = Listed(expected, Keys)
    /\ \A k \in Keys :
         /\ lower_bound(k) = Listed(expected, {j \in Keys : j >= k})
         /\ upper_bound(k) = Listed(expected, {j \in Keys : j > k})
=============================================================================
