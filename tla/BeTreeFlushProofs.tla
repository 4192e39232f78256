-------------------------- MODULE BeTreeFlushProofs --------------------------
(***************************************************************************)
(* What the operators on nodes do, and that every step of a flush keeps    *)
(* the heap of nodes, the stack of flushes and the keys each node may      *)
(* have, in both trees.                                                    *)
(***************************************************************************)
EXTENDS BeTreeQuery, FiniteSetTheorems, SequenceTheorems, WellFoundedInduction,
        TLAPS

(***************************************************************************)
(* The inductive invariant.                                                *)
(***************************************************************************)

(* Types.                                                                  *)

Timestamps  == 1..MaxOps + 1
MessageKeys == Keys \X Timestamps

IsElements(e) ==
  /\ DOMAIN e \subseteq MessageKeys /\ IsFiniteSet(DOMAIN e)
  /\ e \in [DOMAIN e -> Message]

IsNode(n) ==
  /\ n = [pivots |-> n.pivots, elements |-> n.elements]
  /\ DOMAIN n.pivots \subseteq Keys /\ n.pivots \in [DOMAIN n.pivots -> DOMAIN nodes]
  /\ IsElements(n.elements)

IsCame(c) ==
  DOMAIN c \subseteq Keys /\ c \in [DOMAIN c -> [ts : Timestamps, means : Value \cup {NULL}]]

IsFrame(f) ==
  /\ f = [node |-> f.node, at |-> f.at, elts |-> f.elts, first |-> f.first, pivot |-> f.pivot]
  /\ f.node \in DOMAIN nodes
  /\ f.at \in {"enter", "apply", "child", "through", "done"}
  /\ IsElements(f.elts)
  /\ f.first \in Nat \cup {NULL}

HeapTyped ==
  /\ nodes \in [DOMAIN nodes -> {nodes[i] : i \in DOMAIN nodes}]
  /\ DOMAIN nodes \subseteq NodeIds /\ root \in DOMAIN nodes
  /\ next_id \in Nat /\ \A i \in DOMAIN nodes : i[1] < next_id
  /\ \A i \in DOMAIN nodes : IsNode(nodes[i])
  /\ came \in [DOMAIN nodes -> {came[i] : i \in DOMAIN nodes}]
  /\ \A i \in DOMAIN nodes : IsCame(came[i])
  /\ stack \in Seq({stack[f] : f \in DOMAIN stack})
  /\ \A f \in DOMAIN stack : IsFrame(stack[f])
  /\ dirty \subseteq DOMAIN nodes

CallsTyped == ops \in 0..MaxOps /\ expected \in [Keys -> Value \cup {NULL}]

-----------------------------------------------------------------------------
(* The tree and the stack.                                                 *)

IsTree ==
  /\ \A i \in DOMAIN nodes : \A p \in DOMAIN nodes[i].pivots : nodes[i].pivots[p] # root
  /\ \A i, j \in DOMAIN nodes :
       \A p \in DOMAIN nodes[i].pivots, q \in DOMAIN nodes[j].pivots :
         nodes[i].pivots[p] = nodes[j].pivots[q] => i = j /\ p = q

\* A frame that is not on top waits for the child at its pivot.
Waits(f, g) ==
  /\ f.at \in {"child", "through"} /\ f.elts = NoElements
  /\ f.pivot \in DOMAIN nodes[f.node].pivots
  /\ g.node = nodes[f.node].pivots[f.pivot]
  /\ f.at = "through" => ElementsFor(nodes[f.node], f.pivot) = {}

IsStack ==
  /\ stack # << >> => /\ stack[1].node = root
                      /\ Top.at \in {"enter", "apply", "done"}
                      /\ Top.at = "enter" => Top.elts # NoElements
                      /\ Top.at = "done" => Top.elts = NoElements
  /\ \A f \in DOMAIN stack : f # Len(stack) => Waits(stack[f], stack[f + 1])
  /\ \A f, g \in DOMAIN stack : stack[f].node = stack[g].node => f = g

\* The messages on top came to the node; once they are applied they are not below
\* its pivots.
PendingWithinPivots ==
  \A f \in DOMAIN stack :
    LET n == nodes[stack[f].node]
    IN /\ KeysOf(stack[f].elts) \subseteq DOMAIN came[stack[f].node]
       /\ stack[f].at = "apply" /\ ~is_leaf(n) =>
            \A k \in KeysOf(stack[f].elts) : ~BelowPivots(n.pivots, k)

TreeInv ==
  /\ HeapTyped /\ CallsTyped
  /\ IsTree /\ IsStack
  /\ KeysWithinPivots /\ PendingWithinPivots
  /\ LeavesHoldInserts

-----------------------------------------------------------------------------
(* Least and greatest numbers.                                             *)

\* A set of numbers has a least one.
LEMMA LeastNat ==
  ASSUME NEW S \in SUBSET Nat, S # {}
  PROVE  Min(S) \in S /\ \A x \in S : Min(S) <= x
<1> DEFINE R == {ss \in Nat \X Nat : ss[1] < ss[2]}
<1>1. IsWellFoundedOn(R, Nat)
  BY NatLessThanWellFounded DEF OpToRel
<1>2. PICK x \in S : \A y \in S : <<y, x>> \notin R
  <2> HIDE DEF R
  <2> QED
    BY <1>1, WFMin
<1>3. \A y \in S : x <= y
  <2> TAKE y \in S
  <2>1. x \in Nat /\ y \in Nat
    OBVIOUS
  <2>2. ~ (y < x)
    <3>1. <<y, x>> \in Nat \X Nat /\ <<y, x>> \notin R
      BY <1>2, <2>1
    <3> QED
      BY <3>1
  <2> QED
    BY <2>1, <2>2
<1> QED
  BY <1>3 DEF Min

\* A set of numbers below a bound has a greatest one.
LEMMA GreatestBelow ==
  ASSUME NEW S \in SUBSET Nat, S # {}, NEW b \in Nat, \A x \in S : x <= b
  PROVE  Max(S) \in S /\ \A x \in S : x <= Max(S)
<1> DEFINE T == {y \in Nat : \E x \in S : y = b - x}
<1>1. T \in SUBSET Nat /\ T # {}
  <2>1. PICK x \in S : TRUE
    OBVIOUS
  <2>2. b - x \in T
    BY <2>1
  <2> QED
    BY <2>2
<1>2. Min(T) \in T /\ \A y \in T : Min(T) <= y
  <2> HIDE DEF T
  <2> QED
    BY <1>1, LeastNat
<1>3. PICK x \in S : Min(T) = b - x
  BY <1>2
<1>4. \A y \in S : y <= x
  <2> TAKE y \in S
  <2>1. b - y \in T
    OBVIOUS
  <2>2. Min(T) <= b - y
    BY <1>2, <2>1
  <2> QED
    BY <1>3, <2>2
<1>5. \E z \in S : \A y \in S : z >= y
  BY <1>4
<1> QED
  BY <1>5 DEF Max

\* A finite set of numbers has a bound.
LEMMA FiniteBound ==
  ASSUME NEW S \in SUBSET Nat, IsFiniteSet(S)
  PROVE  \E b \in Nat : \A x \in S : x <= b
<1> DEFINE Unbounded(T) == T \in SUBSET Nat /\ IsFiniteSet(T) /\ ~ \E b \in Nat : \A x \in T : x <= b
           Bad == {n \in Nat : \E T \in SUBSET Nat : Unbounded(T) /\ Cardinality(T) = n}
<1> SUFFICES ASSUME ~ \E b \in Nat : \A x \in S : x <= b
             PROVE  FALSE
  OBVIOUS
<1>1. Cardinality(S) \in Bad
  BY FS_CardinalityType
<1>2. Min(Bad) \in Bad /\ \A n \in Bad : Min(Bad) <= n
  <2>1. Bad \in SUBSET Nat /\ Bad # {}
    BY <1>1
  <2> HIDE DEF Bad
  <2> QED
    BY <2>1, LeastNat
<1>3. PICK T \in SUBSET Nat : Unbounded(T) /\ Cardinality(T) = Min(Bad)
  BY <1>2
<1>4. PICK y \in T : TRUE
  <2>1. CASE T = {}
    <3>1. \A x \in T : x <= 0
      BY <2>1
    <3> QED
      BY <1>3, <3>1
  <2> QED
    BY <2>1
<1>5. IsFiniteSet(T \ {y}) /\ Cardinality(T \ {y}) = Min(Bad) - 1
  BY <1>3, <1>4, FS_RemoveElement
<1>6. Cardinality(T \ {y}) \in Nat /\ Min(Bad) \in Nat
  BY <1>2, <1>5, FS_CardinalityType
<1>7. Cardinality(T \ {y}) \notin Bad
  <2> HIDE DEF Bad
  <2> QED
    BY <1>2, <1>5, <1>6
<1>8. PICK b \in Nat : \A x \in T \ {y} : x <= b
  BY <1>5, <1>6, <1>7
<1>9. \A x \in T : x <= b + y
  BY <1>4, <1>8
<1> QED
  BY <1>3, <1>4, <1>9
-----------------------------------------------------------------------------
(* Messages in order.                                                      *)

LEMMA EarliestIs ==
  ASSUME NEW S \in SUBSET (Nat \X Nat), S # {}
  PROVE  /\ Earliest(S) \in S
         /\ \A b \in S \ {Earliest(S)} : Before(Earliest(S), b)
         /\ \A b \in S : Earliest(S)[1] <= b[1]
<1> DEFINE K == {k \in Nat : \E m \in S : m[1] = k}
           k0 == Min(K)
           T == {t \in Nat : <<k0, t>> \in S}
           t0 == Min(T)
<1>1. k0 \in K /\ \A k \in K : k0 <= k
  <2>1. K \in SUBSET Nat /\ K # {}
    <3>1. PICK m \in S : m[1] \in Nat
      OBVIOUS
    <3> QED
      BY <3>1
  <2> HIDE DEF K
  <2> QED
    BY <2>1, LeastNat
<1>2. t0 \in T /\ \A t \in T : t0 <= t
  <2>1. T \in SUBSET Nat /\ T # {}
    <3>1. PICK m \in S : m[1] = k0
      BY <1>1
    <3>2. m = <<k0, m[2]>> /\ m[2] \in Nat
      BY <3>1
    <3> QED
      BY <3>2
  <2> HIDE DEF T
  <2> QED
    BY <2>1, LeastNat
<1>3. <<k0, t0>> \in S /\ \A b \in S \ {<<k0, t0>>} : Before(<<k0, t0>>, b)
  <2>1. <<k0, t0>> \in S
    BY <1>2
  <2>2. ASSUME NEW b \in S \ {<<k0, t0>>}
        PROVE  Before(<<k0, t0>>, b)
    <3>1. b = <<b[1], b[2]>> /\ b[1] \in Nat /\ b[2] \in Nat /\ k0 \in Nat /\ t0 \in Nat
      BY <1>1, <1>2
    <3>2. k0 <= b[1]
      BY <1>1, <3>1
    <3>3. CASE b[1] = k0
      <4>1. b[2] \in T
        BY <3>1, <3>3
      <4>2. t0 <= b[2] /\ b[2] # t0
        BY <1>2, <4>1, <3>1, <3>3
      <4> HIDE DEF k0, t0, T, K
      <4> QED
        BY <3>1, <3>3, <4>2 DEF Before
    <3> HIDE DEF k0, t0, T, K
    <3> QED
      BY <3>1, <3>2, <3>3 DEF Before
  <2> QED
    BY <2>1, <2>2
<1>4. Earliest(S) \in S /\ \A b \in S \ {Earliest(S)} : Before(Earliest(S), b)
  <2> HIDE DEF k0, t0, T, K
  <2>1. \E a \in S : \A b \in S \ {a} : Before(a, b)
    BY <1>3
  <2> QED
    BY <2>1 DEF Earliest
<1>5. \A b \in S : Earliest(S)[1] <= b[1]
  <2> HIDE DEF k0, t0, T, K
  <2> QED
    BY <1>4 DEF Before
<1> QED
  BY <1>4, <1>5

LEMMA LatestIs ==
  ASSUME NEW S \in SUBSET (Nat \X Nat), S # {}, IsFiniteSet(S)
  PROVE  /\ Latest(S) \in S
         /\ \A b \in S \ {Latest(S)} : Before(b, Latest(S))
         /\ \A b \in S : b[1] <= Latest(S)[1]
<1> DEFINE K == {k \in Nat : \E m \in S : m[1] = k}
           k0 == Max(K)
           T == {t \in Nat : <<k0, t>> \in S}
           t0 == Max(T)
<1>1. k0 \in K /\ \A k \in K : k <= k0
  <2>1. K \in SUBSET Nat /\ K # {}
    <3>1. PICK m \in S : m[1] \in Nat
      OBVIOUS
    <3> QED
      BY <3>1
  <2>2. IsFiniteSet(K)
    <3> DEFINE f == [m \in S |-> m[1]]
    <3>1. f \in Surjection(S, K)
      BY DEF Surjection
    <3> HIDE DEF f, K
    <3> QED
      BY <3>1, FS_Surjection
  <2> HIDE DEF K
  <2> QED
    BY <2>1, <2>2, FiniteBound, GreatestBelow
<1>2. t0 \in T /\ \A t \in T : t <= t0
  <2>1. T \in SUBSET Nat /\ T # {}
    <3>1. PICK m \in S : m[1] = k0
      BY <1>1
    <3>2. m = <<k0, m[2]>> /\ m[2] \in Nat
      BY <3>1
    <3> QED
      BY <3>2
  <2>2. IsFiniteSet(T)
    <3> DEFINE U == {m \in S : m[1] = k0}
               f == [m \in U |-> m[2]]
    <3>1. IsFiniteSet(U)
      BY FS_Subset
    <3>2. f \in Surjection(U, T)
      <4>1. \A m \in U : m[2] \in T
        OBVIOUS
      <4>2. \A t \in T : <<k0, t>> \in U /\ <<k0, t>>[2] = t
        OBVIOUS
      <4> HIDE DEF U, T, k0
      <4> QED
        BY <4>1, <4>2 DEF Surjection
    <3> HIDE DEF f, T, U
    <3> QED
      BY <3>1, <3>2, FS_Surjection
  <2> HIDE DEF T
  <2> QED
    BY <2>1, <2>2, FiniteBound, GreatestBelow
<1>3. <<k0, t0>> \in S /\ \A b \in S \ {<<k0, t0>>} : Before(b, <<k0, t0>>)
  <2>1. <<k0, t0>> \in S
    BY <1>2
  <2>2. ASSUME NEW b \in S \ {<<k0, t0>>}
        PROVE  Before(b, <<k0, t0>>)
    <3>1. b = <<b[1], b[2]>> /\ b[1] \in Nat /\ b[2] \in Nat /\ k0 \in Nat /\ t0 \in Nat
      BY <1>1, <1>2
    <3>2. b[1] <= k0
      BY <1>1, <3>1
    <3>3. CASE b[1] = k0
      <4>1. b[2] \in T
        BY <3>1, <3>3
      <4>2. b[2] <= t0 /\ b[2] # t0
        BY <1>2, <4>1, <3>1, <3>3
      <4> HIDE DEF k0, t0, T, K
      <4> QED
        BY <3>1, <3>3, <4>2 DEF Before
    <3> HIDE DEF k0, t0, T, K
    <3> QED
      BY <3>1, <3>2, <3>3 DEF Before
  <2> QED
    BY <2>1, <2>2
<1>4. Latest(S) \in S /\ \A b \in S \ {Latest(S)} : Before(b, Latest(S))
  <2> HIDE DEF k0, t0, T, K
  <2>1. \E a \in S : \A b \in S \ {a} : Before(b, a)
    BY <1>3
  <2> QED
    BY <2>1 DEF Latest
<1>5. \A b \in S : b[1] <= Latest(S)[1]
  <2> HIDE DEF k0, t0, T, K
  <2> QED
    BY <1>4 DEF Before
<1> QED
  BY <1>4, <1>5

-----------------------------------------------------------------------------
(* Pivots.                                                                 *)

LEMMA PivotIs ==
  ASSUME NEW P, DOMAIN P \subseteq Nat, NEW k \in Nat, ~BelowPivots(P, k)
  PROVE  /\ get_pivot(P, k) \in DOMAIN P
         /\ get_pivot(P, k) <= k
         /\ \A q \in DOMAIN P : get_pivot(P, k) < q => k < q
<1> DEFINE S == {p \in DOMAIN P : p <= k}
<1>1. S \in SUBSET Nat /\ S # {} /\ \A x \in S : x <= k
  BY DEF BelowPivots
<1>2. Max(S) \in S /\ \A x \in S : x <= Max(S)
  <2> HIDE DEF S
  <2> QED
    BY <1>1, GreatestBelow
<1> QED
  BY <1>2 DEF get_pivot

\* The child with most messages is one of the children.
LEMMA FullestIs ==
  ASSUME NEW n, DOMAIN n.pivots \subseteq Nat, ~is_leaf(n), IsFiniteSet(DOMAIN n.elements)
  PROVE  Fullest(n) \in DOMAIN n.pivots
<1> DEFINE Count(p) == Cardinality(ElementsFor(n, p))
           C == {c \in Nat : \E p \in DOMAIN n.pivots : c = Count(p)}
           b == Cardinality(DOMAIN n.elements)
           F == {p \in DOMAIN n.pivots : \A q \in DOMAIN n.pivots : Count(q) <= Count(p)}
<1>1. b \in Nat /\ \A p \in DOMAIN n.pivots : Count(p) \in Nat /\ Count(p) <= b
  <2>1. \A p : ElementsFor(n, p) \in SUBSET DOMAIN n.elements
    BY DEF ElementsFor
  <2> QED
    BY <2>1, FS_Subset, FS_CardinalityType
<1>2. Max(C) \in C /\ \A c \in C : c <= Max(C)
  <2>1. C \in SUBSET Nat /\ C # {} /\ \A c \in C : c <= b
    BY <1>1 DEF is_leaf
  <2> HIDE DEF C, b
  <2> QED
    BY <1>1, <2>1, GreatestBelow
<1>3. F \in SUBSET Nat /\ F # {}
  <2>1. PICK p \in DOMAIN n.pivots : Max(C) = Count(p)
    BY <1>2
  <2>2. \A q \in DOMAIN n.pivots : Count(q) <= Count(p)
    BY <1>1, <1>2, <2>1
  <2> HIDE DEF Count, C
  <2> QED
    BY <2>1, <2>2
<1>4. Min(F) \in F
  <2> HIDE DEF F
  <2> QED
    BY <1>3, LeastNat
<1> QED
  BY <1>4 DEF Fullest

IsRecord(n) == n = [pivots |-> n.pivots, elements |-> n.elements]
IsFunction(f) == f = [x \in DOMAIN f |-> f[x]]

\* The node with its first pivot, old, lowered to lo.
WithFirst(n, old, lo) ==
  [pivots   |-> [p \in (DOMAIN n.pivots \ {old}) \cup {lo} |->
                   IF p = lo THEN n.pivots[old] ELSE n.pivots[p]],
   elements |-> n.elements]

\* The first pivot goes down to the first message, if that is below it; its child
\* stays its child.
LEMMA LoweredIs ==
  ASSUME NEW n, IsRecord(n), DOMAIN n.pivots \subseteq Nat, ~is_leaf(n),
         n.pivots = [p \in DOMAIN n.pivots |-> n.pivots[p]],
         NEW e, DOMAIN e \in SUBSET (Nat \X Nat), DOMAIN e # {}
  PROVE  \E old \in DOMAIN n.pivots, lo \in Nat :
           /\ \A p \in DOMAIN n.pivots : old <= p
           /\ lo <= old /\ (lo # old => lo \in KeysOf(e))
           /\ \A m \in DOMAIN e : lo <= m[1]
           /\ LowerFirstPivot(n, e) = WithFirst(n, old, lo)
<1> DEFINE old == Min(DOMAIN n.pivots)
           a   == Earliest(DOMAIN e)
           new == a[1]
           lo  == IF new < old THEN new ELSE old
<1>1. old \in DOMAIN n.pivots /\ old \in Nat /\ \A p \in DOMAIN n.pivots : old <= p
  BY LeastNat DEF is_leaf
<1>2. a \in DOMAIN e /\ new \in Nat /\ \A m \in DOMAIN e : m[1] \in Nat /\ new <= m[1]
  <2>1. a \in DOMAIN e /\ \A m \in DOMAIN e : new <= m[1]
    BY EarliestIs
  <2> HIDE DEF a
  <2> QED
    BY <2>1
<1>3. lo \in Nat /\ lo <= old /\ (lo # old => lo \in KeysOf(e)) /\ \A m \in DOMAIN e : lo <= m[1]
  <2> HIDE DEF old, a
  <2> QED
    BY <1>1, <1>2 DEF KeysOf
<1>4. LowerFirstPivot(n, e) =
                [pivots   |-> [p \in (DOMAIN n.pivots \ {old}) \cup {lo} |->
                                 IF p = lo THEN n.pivots[old] ELSE n.pivots[p]],
                 elements |-> n.elements]
  <2>1. CASE new < old
    <3>1. LowerFirstPivot(n, e) =
            [n EXCEPT !.pivots = Put(Without(@, {old}), new, @[old])]
      BY <2>1 DEF LowerFirstPivot
    <3>2. LowerFirstPivot(n, e) =
            [pivots |-> Put(Without(n.pivots, {old}), new, n.pivots[old]), elements |-> n.elements]
      <4> HIDE DEF old, a
      <4> QED
        BY <3>1 DEF IsRecord
    <3>3. Without(n.pivots, {old}) = [p \in DOMAIN n.pivots \ {old} |-> n.pivots[p]]
      BY DEF Without, Restrict
    <3>4. Put(Without(n.pivots, {old}), new, n.pivots[old]) =
            [p \in (DOMAIN n.pivots \ {old}) \cup {new} |->
                                 IF p = new THEN n.pivots[old] ELSE n.pivots[p]]
      <4> HIDE DEF old, a
      <4> QED
        BY <3>3 DEF Put
    <3> QED
      BY <2>1, <3>2, <3>4
  <2>2. CASE ~(new < old)
    <3>1. LowerFirstPivot(n, e) = n
      BY <2>2 DEF LowerFirstPivot
    <3>2. lo = old
      BY <2>2
    <3> HIDE DEF lo, old, a
    <3>3. n.pivots = [p \in (DOMAIN n.pivots \ {old}) \cup {lo} |->
                                 IF p = lo THEN n.pivots[old] ELSE n.pivots[p]]
      <4>1. (DOMAIN n.pivots \ {old}) \cup {lo} = DOMAIN n.pivots
        BY <1>1, <3>2
      <4> QED
        BY <4>1, <3>2
    <3> QED
      BY <3>1, <3>3 DEF IsRecord
  <2> QED
    BY <2>1, <2>2
<1>5. LowerFirstPivot(n, e) = WithFirst(n, old, lo)
  BY <1>4 DEF WithFirst
<1> HIDE DEF old, lo
<1> QED
  BY <1>1, <1>3, <1>5

-----------------------------------------------------------------------------
(* Messages applied.                                                       *)

\* What a message turns into where it finds old in front of it: an update is merged
\* into an insert, in a leaf into nothing.
Merges(n, m, msg) ==
  LET mine == MessagesOf(n.elements, m[1])
  IN msg.op = UPDATE /\ (mine = {} => is_leaf(n))
                     /\ (mine # {} => n.elements[Latest(mine)].op = INSERT)

Into(n, m) ==
  LET mine == MessagesOf(n.elements, m[1])
  IN IF mine = {} THEN default_value ELSE n.elements[Latest(mine)].val

\* The four ends of apply.
LEMMA ApplyIs ==
  ASSUME NEW n, NEW m, NEW msg, IsRecord(n), msg.op \in {INSERT, DELETE, UPDATE}
  PROVE  LET E == n.elements
             A == Apply(n, m, msg)
         IN /\ A = [pivots |-> n.pivots, elements |-> A.elements]
            /\ A.elements =
                 IF Merges(n, m, msg) THEN Replace(E, m, Merged(Into(n, m), msg))
                 ELSE IF msg.op = UPDATE THEN Put(E, m, msg)
                 ELSE IF msg.op = DELETE /\ is_leaf(n) THEN Without(E, MessagesOf(E, m[1]))
                 ELSE Replace(E, m, msg)
<1> DEFINE mine == MessagesOf(n.elements, m[1])
           last == n.elements[Latest(mine)]
<1>1. /\ Merges(n, m, msg) <=>
           /\ msg.op = UPDATE /\ (mine = {} => is_leaf(n))
           /\ (mine # {} => last.op = INSERT)
      /\ Into(n, m) = IF mine = {} THEN default_value ELSE last.val
  BY DEF Merges, Into
<1>2. Apply(n, m, msg) =
        [n EXCEPT !.elements =
        IF msg.op = INSERT THEN Replace(n.elements, m, msg)
        ELSE IF msg.op = DELETE
          THEN IF is_leaf(n) THEN Without(n.elements, mine) ELSE Replace(n.elements, m, msg)
        ELSE IF mine # {} /\ last.op = INSERT THEN Replace(n.elements, m, Merged(last.val, msg))
        ELSE IF mine = {} /\ is_leaf(n) THEN Replace(n.elements, m, Merged(default_value, msg))
        ELSE Put(n.elements, m, msg)]
  BY DEF Apply
<1>3. INSERT # DELETE /\ INSERT # UPDATE /\ DELETE # UPDATE
  BY DEF INSERT, DELETE, UPDATE
<1>4. MessagesOf(n.elements, m[1]) = mine
  OBVIOUS
<1> HIDE DEF mine, last
<1>5. Apply(n, m, msg).elements =
        IF msg.op = INSERT THEN Replace(n.elements, m, msg)
        ELSE IF msg.op = DELETE
          THEN IF is_leaf(n) THEN Without(n.elements, mine) ELSE Replace(n.elements, m, msg)
        ELSE IF mine # {} /\ last.op = INSERT THEN Replace(n.elements, m, Merged(last.val, msg))
        ELSE IF mine = {} /\ is_leaf(n) THEN Replace(n.elements, m, Merged(default_value, msg))
        ELSE Put(n.elements, m, msg)
  BY <1>2 DEF IsRecord
<1>6. Apply(n, m, msg) = [pivots |-> n.pivots, elements |-> Apply(n, m, msg).elements]
  BY <1>2 DEF IsRecord
<1>7. CASE msg.op = INSERT
  BY <1>1, <1>3, <1>5, <1>6, <1>7
<1>8. CASE msg.op = DELETE
  BY <1>1, <1>3, <1>4, <1>5, <1>6, <1>8
<1>9. CASE msg.op = UPDATE
  BY <1>1, <1>3, <1>5, <1>6, <1>9
<1> QED
  BY <1>7, <1>8, <1>9

LEMMA WithoutIs ==
  ASSUME NEW f, NEW S
  PROVE  /\ DOMAIN Without(f, S) = DOMAIN f \ S
         /\ \A y \in DOMAIN f \ S : Without(f, S)[y] = f[y]
         /\ IsFunction(Without(f, S))
BY DEF Without, Restrict, IsFunction

LEMMA ReplaceIs ==
  ASSUME NEW f, NEW m, NEW v
  PROVE  /\ DOMAIN Replace(f, m, v) = {y \in DOMAIN f : y[1] # m[1]} \cup {m}
         /\ Replace(f, m, v)[m] = v
         /\ \A y \in DOMAIN f : y[1] # m[1] => Replace(f, m, v)[y] = f[y]
         /\ IsFunction(Replace(f, m, v))
<1> DEFINE D == {y \in DOMAIN f : y[1] # m[1]}
<1>1. D = DOMAIN f \ MessagesOf(f, m[1]) /\ D \subseteq DOMAIN f
  BY DEF MessagesOf
<1>2. \A y \in D : y # m
  OBVIOUS
<1>3. DOMAIN f \cap D = D
  BY <1>1
<1> HIDE DEF D
<1>4. Without(f, MessagesOf(f, m[1])) = [y \in D |-> f[y]]
  BY <1>1, <1>3 DEF Without, Restrict
<1>5. Replace(f, m, v) = [y \in D \cup {m} |-> IF y = m THEN v ELSE [z \in D |-> f[z]][y]]
  BY <1>4 DEF Replace, Put
<1>6. /\ DOMAIN Replace(f, m, v) = D \cup {m}
      /\ Replace(f, m, v)[m] = v
      /\ \A y \in D : Replace(f, m, v)[y] = f[y]
      /\ IsFunction(Replace(f, m, v))
  BY <1>2, <1>5 DEF IsFunction
<1> QED
  BY <1>6 DEF D

-----------------------------------------------------------------------------
(* Splits.                                                                 *)

\* Every key belongs to one part.
LEMMA PartsCover ==
  ASSUME NEW C \in SUBSET Nat, C # {}, NEW j \in Nat
  PROVE  \E k \in C : j \in PartOf(C, k)
<1> DEFINE L == {l \in C : l <= j}
<1>1. CASE L = {}
  <2>1. Min(C) \in C /\ \A l \in C : Min(C) <= l
    BY LeastNat
  <2>2. \A l \in C : j < l
    BY <1>1
  <2> QED
    BY <2>1, <2>2 DEF PartOf
<1>2. CASE L # {}
  <2>1. Max(L) \in L /\ \A l \in L : l <= Max(L)
    <3>1. L \in SUBSET Nat /\ \A l \in L : l <= j
      OBVIOUS
    <3> HIDE DEF L
    <3> QED
      BY <1>2, <3>1, GreatestBelow
  <2>2. Max(L) \in C /\ Max(L) <= j
    BY <2>1
  <2>3. \A l \in C : Max(L) < l => j < l
    <3> TAKE l \in C
    <3>1. l <= j => l <= Max(L)
      BY <2>1
    <3>2. l \in Nat /\ Max(L) \in Nat /\ j \in Nat
      BY <2>2
    <3> HIDE DEF L
    <3> QED
      BY <3>1, <3>2
  <2> HIDE DEF L
  <2> QED
    BY <2>2, <2>3 DEF PartOf
<1> QED
  BY <1>1, <1>2

LEMMA PartsDisjoint ==
  ASSUME NEW C \in SUBSET Nat, NEW k \in C, NEW l \in C, NEW j,
         j \in PartOf(C, k), j \in PartOf(C, l)
  PROVE  k = l
<1>1. ASSUME NEW a \in C, NEW b \in C, j \in PartOf(C, a), j \in PartOf(C, b), a < b
      PROVE  FALSE
  <2>1. j \in Nat /\ j < b
    BY <1>1 DEF PartOf
  <2>2. b <= j \/ \A x \in C : b <= x
    BY <1>1 DEF PartOf
  <2> QED
    BY <1>1, <2>1, <2>2
<1>2. ~(k < l) /\ ~(l < k)
  BY <1>1
<1> QED
  BY <1>2

\* The parts begin at some of the units, the first of them among these.
LEMMA CutsAre ==
  ASSUME NEW n, DOMAIN n.pivots \subseteq Nat, DOMAIN n.elements \subseteq Nat \X Nat,
         Units(n) # {}
  PROVE  /\ Units(n) \in SUBSET Nat
         /\ Cuts(n) \in SUBSET Units(n)
         /\ Min(Units(n)) \in Cuts(n)
         /\ \A u \in Units(n) : Min(Units(n)) <= u
<1>1. Units(n) \in SUBSET Nat
  BY DEF Units, KeysOf
<1>2. Min(Units(n)) \in Units(n) /\ \A u \in Units(n) : Min(Units(n)) <= u
  BY <1>1, LeastNat
<1>3. \A u \in Units(n) : ~(u < Min(Units(n)))
  BY <1>1, <1>2
<1>4. Min(Units(n)) \in Cuts(n)
  BY <1>2, <1>3 DEF Cuts
<1>5. Cuts(n) \in SUBSET Units(n)
  BY DEF Cuts
<1> QED
  BY <1>1, <1>2, <1>4, <1>5

\* What is at or behind the first unit is not in front of its part.
LEMMA PartBegins ==
  ASSUME NEW n, DOMAIN n.pivots \subseteq Nat, DOMAIN n.elements \subseteq Nat \X Nat,
         NEW u \in Units(n), NEW k \in Cuts(n), NEW j \in PartOf(Cuts(n), k), u <= j
  PROVE  k <= j
<1>1. /\ u \in Nat /\ j \in Nat /\ k \in Nat
      /\ Min(Units(n)) \in Cuts(n) /\ Min(Units(n)) <= u /\ Min(Units(n)) \in Nat
  BY CutsAre DEF PartOf
<1>2. k <= j \/ k <= Min(Units(n))
  BY <1>1 DEF PartOf
<1> QED
  BY <1>1, <1>2

LEMMA SplitIs ==
  ASSUME NEW n
  PROVE  /\ DOMAIN Split(n) = Cuts(n)
         /\ \A k \in Cuts(n) :
              /\ IsRecord(Split(n)[k])
              /\ DOMAIN Split(n)[k].pivots = {p \in DOMAIN n.pivots : p \in PartOf(Cuts(n), k)}
              /\ \A p \in DOMAIN Split(n)[k].pivots : Split(n)[k].pivots[p] = n.pivots[p]
              /\ IsFunction(Split(n)[k].pivots)
              /\ DOMAIN Split(n)[k].elements =
                   {m \in DOMAIN n.elements : m[1] \in PartOf(Cuts(n), k)}
              /\ \A m \in DOMAIN Split(n)[k].elements : Split(n)[k].elements[m] = n.elements[m]
              /\ IsFunction(Split(n)[k].elements)
<1>1. DOMAIN Split(n) = Cuts(n)
  BY DEF Split
<1>2. ASSUME NEW k \in Cuts(n)
      PROVE  /\ IsRecord(Split(n)[k])
             /\ DOMAIN Split(n)[k].pivots = {p \in DOMAIN n.pivots : p \in PartOf(Cuts(n), k)}
             /\ \A p \in DOMAIN Split(n)[k].pivots : Split(n)[k].pivots[p] = n.pivots[p]
             /\ IsFunction(Split(n)[k].pivots)
             /\ DOMAIN Split(n)[k].elements =
                  {m \in DOMAIN n.elements : m[1] \in PartOf(Cuts(n), k)}
             /\ \A m \in DOMAIN Split(n)[k].elements : Split(n)[k].elements[m] = n.elements[m]
             /\ IsFunction(Split(n)[k].elements)
  <2> DEFINE P == {p \in DOMAIN n.pivots : p \in PartOf(Cuts(n), k)}
             D == {m \in DOMAIN n.elements : m[1] \in PartOf(Cuts(n), k)}
  <2>1. Split(n)[k] = [pivots |-> Restrict(n.pivots, P), elements |-> Restrict(n.elements, D)]
    BY DEF Split
  <2>2. P \subseteq DOMAIN n.pivots /\ D \subseteq DOMAIN n.elements
    OBVIOUS
  <2> HIDE DEF P, D
  <2>3. Split(n)[k] = [pivots |-> [p \in P |-> n.pivots[p]],
                       elements |-> [m \in D |-> n.elements[m]]]
    <3>1. P \cap DOMAIN n.pivots = P /\ DOMAIN n.pivots \cap P = P
      BY <2>2
    <3>2. D \cap DOMAIN n.elements = D /\ DOMAIN n.elements \cap D = D
      BY <2>2
    <3> QED
      BY <2>1, <3>1, <3>2 DEF Restrict
  <2>4. Split(n)[k].pivots = [p \in P |-> n.pivots[p]] /\ Split(n)[k].elements = [m \in D |-> n.elements[m]]
    BY <2>3
  <2>5. IsRecord(Split(n)[k])
    BY <2>3, <2>4 DEF IsRecord
  <2> QED
    BY <2>4, <2>5 DEF P, D, IsFunction
<1> QED
  BY <1>1, <1>2

-----------------------------------------------------------------------------
(* Stacks.                                                                 *)

IsSeq(s) == s \in Seq({s[f] : f \in DOMAIN s})

LEMMA IsSeqFacts ==
  ASSUME NEW s, IsSeq(s)
  PROVE  /\ Len(s) \in Nat /\ DOMAIN s = 1..Len(s)
         /\ s # << >> <=> Len(s) > 0
BY DEF IsSeq

LEMMA FunctionIsSeq ==
  ASSUME NEW n \in Nat, NEW s, s = [f \in 1..n |-> s[f]]
  PROVE  IsSeq(s) /\ Len(s) = n
<1> DEFINE R == {s[f] : f \in DOMAIN s}
<1>1. DOMAIN s = 1..n
  OBVIOUS
<1>2. \A f \in 1..n : s[f] \in R
  BY <1>1
<1>3. s \in [1..n -> R]
  <2> HIDE DEF R
  <2> QED
    BY <1>1, <1>2
<1>4. s \in Seq(R)
  <2> HIDE DEF R
  <2> QED
    BY <1>3, SeqDef
<1> QED
  BY <1>1, <1>4 DEF IsSeq

LEMMA BecomeIs ==
  ASSUME NEW s, IsSeq(s), s # << >>, NEW f
  PROVE  LET t == [s EXCEPT ![Len(s)] = f]
         IN /\ IsSeq(t) /\ t # << >> /\ Len(t) = Len(s) /\ DOMAIN t = DOMAIN s
            /\ t[Len(s)] = f
            /\ \A g \in DOMAIN s : g # Len(s) => t[g] = s[g]
<1> DEFINE t == [s EXCEPT ![Len(s)] = f]
<1>1. Len(s) \in Nat /\ DOMAIN s = 1..Len(s) /\ Len(s) \in 1..Len(s)
  BY IsSeqFacts
<1>2. /\ t = [g \in 1..Len(s) |-> t[g]] /\ DOMAIN t = 1..Len(s) /\ t[Len(s)] = f
      /\ \A g \in DOMAIN s : g # Len(s) => t[g] = s[g]
  BY <1>1
<1> HIDE DEF t
<1>3. IsSeq(t) /\ Len(t) = Len(s)
  BY <1>1, <1>2, FunctionIsSeq
<1>4. t # << >>
  BY <1>1, <1>3, IsSeqFacts
<1> QED
  BY <1>1, <1>2, <1>3, <1>4 DEF t

LEMMA AppendIs ==
  ASSUME NEW b, IsSeq(b), NEW h
  PROVE  /\ IsSeq(Append(b, h)) /\ Append(b, h) # << >> /\ Len(Append(b, h)) = Len(b) + 1
         /\ DOMAIN Append(b, h) = 1..(Len(b) + 1)
         /\ Append(b, h)[Len(b) + 1] = h
         /\ \A g \in DOMAIN b : Append(b, h)[g] = b[g]
<1> DEFINE R == {b[g] : g \in DOMAIN b} \cup {h}
           t == Append(b, h)
<1>1. Len(b) \in Nat /\ DOMAIN b = 1..Len(b)
  BY IsSeqFacts
<1>2. b \in Seq(R) /\ h \in R
  <2>1. \A g \in 1..Len(b) : b[g] \in R
    BY <1>1
  <2>2. b = [g \in 1..Len(b) |-> b[g]]
    BY DEF IsSeq
  <2> HIDE DEF R
  <2>3. b \in [1..Len(b) -> R]
    BY <2>1, <2>2
  <2> QED
    BY <1>1, <2>3, SeqDef DEF R
<1>3. t \in Seq(R) /\ Len(t) = Len(b) + 1 /\ t[Len(b) + 1] = h /\ \A g \in 1..Len(b) : t[g] = b[g]
  <2> HIDE DEF R
  <2> QED
    BY <1>2, AppendProperties
<1> HIDE DEF R, t
<1>4. DOMAIN t = 1..(Len(b) + 1) /\ t = [g \in 1..(Len(b) + 1) |-> t[g]]
  BY <1>1, <1>3
<1>5. IsSeq(t)
  BY <1>1, <1>4, FunctionIsSeq
<1>6. t # << >>
  BY <1>1, <1>3, <1>5, IsSeqFacts
<1> QED
  BY <1>1, <1>3, <1>4, <1>5, <1>6 DEF t

LEMMA PrefixIs ==
  ASSUME NEW s, IsSeq(s), Len(s) > 1
  PROVE  LET t == SubSeq(s, 1, Len(s) - 1)
         IN /\ IsSeq(t) /\ t # << >> /\ Len(t) = Len(s) - 1 /\ DOMAIN t = 1..(Len(s) - 1)
            /\ \A g \in 1..(Len(s) - 1) : t[g] = s[g]
<1> DEFINE R == {s[g] : g \in DOMAIN s}
           t == SubSeq(s, 1, Len(s) - 1)
<1>1. Len(s) \in Nat /\ DOMAIN s = 1..Len(s)
  BY IsSeqFacts
<1>2. \A g \in 1..(Len(s) - 1) : s[g] \in R
  BY <1>1
<1> HIDE DEF R
<1>3. /\ t \in Seq(R) /\ Len(t) = Len(s) - 1 /\ \A g \in 1..(Len(s) - 1) : t[g] = s[g]
  <2>1. /\ SubSeq(s, 1, Len(s) - 1) \in Seq(R)
        /\ Len(SubSeq(s, 1, Len(s) - 1)) = IF 1 <= Len(s) - 1 THEN Len(s) - 1 - 1 + 1 ELSE 0
        /\ \A i \in 1..(Len(s) - 1 - 1 + 1) : SubSeq(s, 1, Len(s) - 1)[i] = s[1 + i - 1]
    BY <1>1, <1>2, SubSeqProperties
  <2> HIDE DEF t
  <2>2. \A i \in 1..(Len(s) - 1) : i \in 1..(Len(s) - 1 - 1 + 1) /\ 1 + i - 1 = i
    BY <1>1
  <2> QED
    BY <1>1, <2>1, <2>2 DEF t
<1> HIDE DEF t
<1>4. DOMAIN t = 1..(Len(s) - 1) /\ t = [g \in 1..(Len(s) - 1) |-> t[g]]
  BY <1>1, <1>3
<1>5. IsSeq(t)
  BY <1>1, <1>4, FunctionIsSeq
<1>6. t # << >>
  BY <1>1, <1>3, <1>5, IsSeqFacts
<1> QED
  BY <1>1, <1>3, <1>4, <1>5, <1>6 DEF t

LEMMA ReturnIs ==
  ASSUME NEW s, IsSeq(s), Len(s) > 1, NEW f
  PROVE  LET t == [SubSeq(s, 1, Len(s) - 1) EXCEPT ![Len(s) - 1] = f]
         IN /\ IsSeq(t) /\ t # << >> /\ Len(t) = Len(s) - 1 /\ DOMAIN t = 1..(Len(s) - 1)
            /\ t[Len(s) - 1] = f
            /\ \A g \in 1..(Len(s) - 1) : g # Len(s) - 1 => t[g] = s[g]
<1> DEFINE b == SubSeq(s, 1, Len(s) - 1)
           t == [b EXCEPT ![Len(b)] = f]
<1>1. Len(s) \in Nat
  BY IsSeqFacts
<1>2. /\ IsSeq(b) /\ b # << >> /\ Len(b) = Len(s) - 1 /\ DOMAIN b = 1..(Len(s) - 1)
      /\ \A g \in 1..(Len(s) - 1) : b[g] = s[g]
  BY PrefixIs
<1> HIDE DEF b
<1>3. /\ IsSeq(t) /\ t # << >> /\ Len(t) = Len(b) /\ DOMAIN t = DOMAIN b
      /\ t[Len(b)] = f /\ \A g \in DOMAIN b : g # Len(b) => t[g] = b[g]
  BY <1>2, BecomeIs
<1> HIDE DEF t
<1>4. /\ IsSeq(t) /\ t # << >> /\ Len(t) = Len(s) - 1 /\ DOMAIN t = 1..(Len(s) - 1)
      /\ t[Len(s) - 1] = f
      /\ \A g \in 1..(Len(s) - 1) : g # Len(s) - 1 => t[g] = s[g]
  BY <1>1, <1>2, <1>3
<1>5. t = [SubSeq(s, 1, Len(s) - 1) EXCEPT ![Len(s) - 1] = f]
  <2>1. t = [b EXCEPT ![Len(s) - 1] = f]
    BY <1>2 DEF t
  <2> QED
    BY <2>1 DEF b
<1> QED
  <2> DEFINE u == [SubSeq(s, 1, Len(s) - 1) EXCEPT ![Len(s) - 1] = f]
  <2>1. t = u
    BY <1>5
  <2> HIDE DEF u
  <2>2. /\ IsSeq(u) /\ u # << >> /\ Len(u) = Len(s) - 1 /\ DOMAIN u = 1..(Len(s) - 1)
        /\ u[Len(s) - 1] = f
        /\ \A g \in 1..(Len(s) - 1) : g # Len(s) - 1 => u[g] = s[g]
    BY <1>4, <2>1
  <2> QED
    BY <2>2 DEF u

-----------------------------------------------------------------------------
(* What the invariant says of a node, of the frame on top and of children. *)

LEMMA NodeFacts ==
  ASSUME HeapTyped, NEW i \in DOMAIN nodes
  PROVE  /\ IsRecord(nodes[i])
         /\ DOMAIN nodes[i].pivots \subseteq Keys /\ DOMAIN nodes[i].pivots \subseteq Nat
         /\ nodes[i].pivots = [p \in DOMAIN nodes[i].pivots |-> nodes[i].pivots[p]]
         /\ \A p \in DOMAIN nodes[i].pivots : nodes[i].pivots[p] \in DOMAIN nodes
         /\ IsElements(nodes[i].elements)
         /\ IsCame(came[i])
<1>1. IsNode(nodes[i]) /\ IsCame(came[i])
  BY DEF HeapTyped
<1> QED
  BY <1>1, KeysAssumption DEF IsNode, IsRecord

LEMMA ElementFacts ==
  ASSUME NEW e, IsElements(e)
  PROVE  /\ DOMAIN e \in SUBSET (Nat \X Nat) /\ IsFiniteSet(DOMAIN e)
         /\ e = [m \in DOMAIN e |-> e[m]]
         /\ \A m \in DOMAIN e : /\ m[1] \in Keys /\ m[1] \in Nat /\ m[2] \in Timestamps /\ m[2] \in Nat
                                /\ m = <<m[1], m[2]>>
                                /\ e[m] \in Message
         /\ KeysOf(e) \subseteq Keys /\ KeysOf(e) \subseteq Nat
<1>1. Keys \subseteq Nat /\ Timestamps \subseteq Nat
  BY KeysAssumption, MaxOpsAssumption DEF Timestamps
<1>2. DOMAIN e \subseteq Keys \X Timestamps
  BY DEF IsElements, MessageKeys
<1>3. IsFiniteSet(DOMAIN e) /\ e \in [DOMAIN e -> Message]
  BY DEF IsElements
<1> QED
  BY <1>1, <1>2, <1>3 DEF KeysOf

LEMMA NoElementsIs == IsElements(NoElements) /\ KeysOf(NoElements) = {} /\ DOMAIN NoElements = {}
<1>1. DOMAIN NoElements = {}
  BY DEF NoElements
<1> QED
  BY <1>1, FS_EmptySet DEF IsElements, KeysOf, NoElements

LEMMA NothingLeft ==
  ASSUME NEW e, IsElements(e)
  PROVE  e = NoElements <=> DOMAIN e = {}
<1>1. ASSUME DOMAIN e = {} PROVE e = NoElements
  BY <1>1, ElementFacts DEF NoElements
<1> QED
  BY <1>1, NoElementsIs

\* A part of the messages.
LEMMA SomeElements ==
  ASSUME NEW e, IsElements(e), NEW D \in SUBSET DOMAIN e, NEW d,
         d = [m \in D |-> e[m]]
  PROVE  IsElements(d)
<1>1. DOMAIN d = D /\ IsFiniteSet(D)
  BY FS_Subset DEF IsElements
<1>2. D \subseteq MessageKeys /\ \A m \in D : e[m] \in Message
  BY DEF IsElements
<1> QED
  BY <1>1, <1>2 DEF IsElements

IsFrameRecord(f) == f = [x \in {"node", "at", "elts", "first", "pivot"} |-> f[x]]

LEMMA FrameRecord ==
  ASSUME NEW f
  PROVE  IsFrameRecord(f) <=>
           f = [node |-> f.node, at |-> f.at, elts |-> f.elts, first |-> f.first, pivot |-> f.pivot]
BY DEF IsFrameRecord

LEMMA TopFacts ==
  ASSUME HeapTyped, IsStack, stack # << >>
  PROVE  /\ IsSeq(stack) /\ Len(stack) \in Nat /\ Len(stack) > 0 /\ DOMAIN stack = 1..Len(stack)
         /\ Len(stack) \in DOMAIN stack
         /\ IsFrame(Top) /\ Top.node \in DOMAIN nodes /\ IsElements(Top.elts)
         /\ IsFrameRecord(Top)
         /\ \A f \in DOMAIN stack : /\ IsFrame(stack[f])
                                    /\ f # Len(stack) => /\ stack[f].node # Top.node
                                                         /\ stack[f].elts = NoElements
<1>1. IsSeq(stack)
  BY DEF HeapTyped, IsSeq
<1>2. /\ Len(stack) \in Nat /\ Len(stack) > 0 /\ DOMAIN stack = 1..Len(stack)
      /\ Len(stack) \in DOMAIN stack
  BY <1>1, IsSeqFacts
<1>3. \A f \in DOMAIN stack : IsFrame(stack[f])
  BY DEF HeapTyped
<1>4. IsFrame(Top)
  BY <1>2, <1>3 DEF Top
<1>5. \A f \in DOMAIN stack : f # Len(stack) => stack[f].node # Top.node /\ stack[f].elts = NoElements
  BY <1>2 DEF IsStack, Waits, Top
<1> QED
  BY <1>1, <1>2, <1>3, <1>4, <1>5, FrameRecord DEF IsFrame

LEMMA OneWay ==
  ASSUME IsTree, NEW i \in DOMAIN nodes, NEW j \in DOMAIN nodes,
         NEW p \in DOMAIN nodes[i].pivots, NEW q \in DOMAIN nodes[j].pivots,
         nodes[i].pivots[p] = nodes[j].pivots[q]
  PROVE  i = j /\ p = q
BY DEF IsTree

\* The node on top is not in the stack below, and neither are its children.
LEMMA ChildIsNew ==
  ASSUME HeapTyped, IsTree, IsStack, stack # << >>,
         NEW p \in DOMAIN nodes[Top.node].pivots, NEW f \in DOMAIN stack
  PROVE  stack[f].node # nodes[Top.node].pivots[p]
<1> DEFINE c == nodes[Top.node].pivots[p]
<1>1. /\ DOMAIN stack = 1..Len(stack) /\ Len(stack) \in Nat /\ Len(stack) \in DOMAIN stack
      /\ Top.node \in DOMAIN nodes
  BY TopFacts
<1>2. CASE f = 1
  BY <1>1, <1>2 DEF IsStack, IsTree
<1>3. CASE f # 1
  <2>1. f - 1 \in DOMAIN stack /\ f - 1 # Len(stack) /\ f - 1 + 1 = f
    BY <1>1, <1>3
  <2>2. Waits(stack[f - 1], stack[f])
    BY <2>1 DEF IsStack
  <2>3. /\ stack[f].node = nodes[stack[f - 1].node].pivots[stack[f - 1].pivot]
        /\ stack[f - 1].pivot \in DOMAIN nodes[stack[f - 1].node].pivots
        /\ stack[f - 1].node \in DOMAIN nodes
    BY <2>1, <2>2, TopFacts DEF Waits, IsFrame
  <2>4. ASSUME stack[f].node = c PROVE FALSE
    <3> DEFINE i == stack[f - 1].node
               q == stack[f - 1].pivot
    <3>0. i \in DOMAIN nodes /\ q \in DOMAIN nodes[i].pivots /\ nodes[i].pivots[q] = nodes[Top.node].pivots[p]
      BY <2>3, <2>4
    <3> HIDE DEF i, q
    <3>2. i = Top.node
      BY <1>1, <3>0, OneWay
    <3>1. stack[f - 1].node = Top.node
      BY <3>2 DEF i
    <3> QED
      BY <2>1, <3>1, TopFacts
  <2> QED
    BY <2>4
<1> QED
  BY <1>2, <1>3

\* A node has no parent but the one in the frame below it.
LEMMA OneParent ==
  ASSUME HeapTyped, IsTree, IsStack, stack # << >>, Len(stack) > 1
  PROVE  /\ Len(stack) - 1 \in DOMAIN stack /\ Len(stack) - 1 # Len(stack)
         /\ IsFrame(Caller) /\ Caller.node \in DOMAIN nodes /\ Caller.node # Top.node
         /\ Caller.at \in {"child", "through"} /\ Caller.elts = NoElements
         /\ Caller.pivot \in DOMAIN nodes[Caller.node].pivots
         /\ Top.node = nodes[Caller.node].pivots[Caller.pivot]
         /\ Caller.at = "through" => ElementsFor(nodes[Caller.node], Caller.pivot) = {}
         /\ \A i \in DOMAIN nodes : \A p \in DOMAIN nodes[i].pivots :
              nodes[i].pivots[p] = Top.node => i = Caller.node /\ p = Caller.pivot
         /\ Top.node # root
<1>1. /\ Len(stack) - 1 \in DOMAIN stack /\ Len(stack) - 1 # Len(stack)
      /\ (Len(stack) - 1) + 1 = Len(stack)
  <2>1. Len(stack) \in Nat /\ DOMAIN stack = 1..Len(stack)
    BY TopFacts
  <2>2. \A l \in Nat : l > 1 => l - 1 \in 1..l /\ l - 1 # l /\ (l - 1) + 1 = l
    OBVIOUS
  <2> QED
    BY <2>1, <2>2
<1>2. Waits(Caller, Top)
  BY <1>1 DEF IsStack, Caller, Top
<1>3. IsFrame(Caller) /\ Caller.node # Top.node
  BY <1>1, TopFacts DEF Caller
<1>4. Caller.node \in DOMAIN nodes
  BY <1>3 DEF IsFrame
<1>5. /\ Caller.at \in {"child", "through"} /\ Caller.elts = NoElements
      /\ Caller.pivot \in DOMAIN nodes[Caller.node].pivots
      /\ Top.node = nodes[Caller.node].pivots[Caller.pivot]
      /\ Caller.at = "through" => ElementsFor(nodes[Caller.node], Caller.pivot) = {}
  BY <1>2 DEF Waits
<1>6. \A i \in DOMAIN nodes : \A p \in DOMAIN nodes[i].pivots :
        nodes[i].pivots[p] = Top.node => i = Caller.node /\ p = Caller.pivot
  BY <1>4, <1>5, OneWay
<1>7. Top.node # root
  BY <1>4, <1>5 DEF IsTree
<1> QED
  BY <1>1, <1>3, <1>4, <1>5, <1>6, <1>7

\* The last and the first of the messages for a key.
LEMMA LatestOf ==
  ASSUME NEW e, IsElements(e), NEW k, NEW S \in SUBSET MessagesOf(e, k), S # {}
  PROVE  Latest(S) \in S /\ \A x \in S : x[2] <= Latest(S)[2]
<1>1. S \in SUBSET DOMAIN e /\ S \in SUBSET (Nat \X Nat)
  BY ElementFacts DEF MessagesOf
<1>2. IsFiniteSet(S)
  BY <1>1, ElementFacts, FS_Subset
<1>3. Latest(S) \in S /\ \A x \in S \ {Latest(S)} : Before(x, Latest(S))
  BY <1>1, <1>2, LatestIs
<1>4. \A x \in S : x[1] = k /\ x[2] \in Nat /\ x[1] \in Nat
  BY ElementFacts DEF MessagesOf
<1> QED
  BY <1>3, <1>4 DEF Before

\* What came is kept with its latest message.
LEMMA ArrivedIs ==
  ASSUME NEW old, IsCame(old), NEW e, IsElements(e)
  PROVE  /\ IsCame(Arrived(old, e))
         /\ DOMAIN Arrived(old, e) = DOMAIN old \cup KeysOf(e)
         /\ \A k \in DOMAIN old \ KeysOf(e) : Arrived(old, e)[k] = old[k]
         /\ \A k \in KeysOf(e) :
              LET m == Latest(MessagesOf(e, k))
              IN /\ m \in MessagesOf(e, k) /\ \A x \in MessagesOf(e, k) : x[2] <= m[2]
                 /\ Arrived(old, e)[k] = [ts |-> m[2], means |-> e[m].means]
<1> DEFINE last(k) == Latest(MessagesOf(e, k))
<1>1. ASSUME NEW k \in KeysOf(e)
      PROVE  last(k) \in MessagesOf(e, k) /\ \A x \in MessagesOf(e, k) : x[2] <= last(k)[2]
  <2>1. MessagesOf(e, k) # {}
    BY DEF MessagesOf, KeysOf
  <2> QED
    BY <2>1, LatestOf
<1>2. /\ DOMAIN Arrived(old, e) = DOMAIN old \cup KeysOf(e)
      /\ \A k \in DOMAIN old \ KeysOf(e) : Arrived(old, e)[k] = old[k]
      /\ \A k \in KeysOf(e) :
            Arrived(old, e)[k] = [ts |-> last(k)[2], means |-> e[last(k)].means]
      /\ Arrived(old, e) = [k \in DOMAIN old \cup KeysOf(e) |-> Arrived(old, e)[k]]
  BY DEF Arrived
<1>3. ASSUME NEW k \in KeysOf(e)
      PROVE  /\ last(k)[2] \in Timestamps /\ e[last(k)].means \in Value \cup {NULL}
  <2>1. last(k) \in DOMAIN e
    BY <1>1 DEF MessagesOf
  <2> HIDE DEF last
  <2> QED
    BY <2>1, ElementFacts DEF Message
<1>4. IsCame(Arrived(old, e))
  <2> DEFINE T == [ts : Timestamps, means : Value \cup {NULL}]
             a == Arrived(old, e)
  <2>1. \A k \in KeysOf(e) : a[k] \in T
    BY <1>2, <1>3
  <2>2. \A k \in DOMAIN old : old[k] \in T
    BY DEF IsCame
  <2>3. DOMAIN a \subseteq Keys
    BY <1>2, ElementFacts DEF IsCame
  <2>4. \A k \in DOMAIN a : a[k] \in T
    <3> HIDE DEF T
    <3> QED
      BY <1>2, <2>1, <2>2
  <2>5. a \in [DOMAIN a -> T]
    <3> HIDE DEF T, last
    <3> QED
      BY <1>2, <2>4
  <2> QED
    BY <2>3, <2>5 DEF IsCame
<1> QED
  BY <1>1, <1>2, <1>4

-----------------------------------------------------------------------------
(* How the parts of the invariant are kept: the heap when no node comes or *)
(* goes, the stack when a frame goes on, calls or returns.                 *)

LEMMA HeapKept ==
  ASSUME HeapTyped,
         DOMAIN nodes' = DOMAIN nodes, IsFunction(nodes'),
         \A j \in DOMAIN nodes : IsNode(nodes'[j]),
         DOMAIN came' = DOMAIN nodes, IsFunction(came'), \A j \in DOMAIN nodes : IsCame(came'[j]),
         IsSeq(stack'), \A f \in DOMAIN stack' : IsFrame(stack'[f]),
         dirty' \subseteq DOMAIN nodes, UNCHANGED <<root, next_id>>
  PROVE  HeapTyped'
<1>1. nodes' \in [DOMAIN nodes' -> {nodes'[i] : i \in DOMAIN nodes'}]
  BY DEF IsFunction
<1>2. came' \in [DOMAIN nodes' -> {came'[i] : i \in DOMAIN nodes'}]
  BY DEF IsFunction
<1>3. (\A j \in DOMAIN nodes : IsNode(nodes[j]))'
  BY DEF IsNode
<1>4. (\A f \in DOMAIN stack : IsFrame(stack[f]))'
  BY DEF IsFrame
<1>5. stack' \in Seq({stack'[f] : f \in DOMAIN stack'})
  BY DEF IsSeq
<1>6. DOMAIN nodes' \subseteq NodeIds /\ root' \in DOMAIN nodes'
      /\ next_id' \in Nat /\ \A i \in DOMAIN nodes' : i[1] < next_id'
  BY DEF HeapTyped
<1>7. (\A i \in DOMAIN nodes : IsCame(came[i]))'
  OBVIOUS
<1> QED
  BY <1>1, <1>2, <1>3, <1>4, <1>5, <1>6, <1>7 DEF HeapTyped

\* The frame on top is f now; it is f and has called h; it has returned to f.
Became(f) ==
  /\ IsSeq(stack') /\ stack' # << >> /\ Len(stack') = Len(stack) /\ DOMAIN stack' = DOMAIN stack
  /\ stack'[Len(stack)] = f
  /\ \A g \in DOMAIN stack : g # Len(stack) => stack'[g] = stack[g]

Called(f, h) ==
  /\ IsSeq(stack') /\ stack' # << >> /\ Len(stack') = Len(stack) + 1
  /\ DOMAIN stack' = 1..(Len(stack) + 1)
  /\ stack'[Len(stack) + 1] = h /\ stack'[Len(stack)] = f
  /\ \A g \in DOMAIN stack : g # Len(stack) => stack'[g] = stack[g]

Returned(f) ==
  /\ IsSeq(stack') /\ stack' # << >> /\ Len(stack') = Len(stack) - 1
  /\ DOMAIN stack' = 1..(Len(stack) - 1)
  /\ stack'[Len(stack) - 1] = f
  /\ \A g \in 1..(Len(stack) - 1) : g # Len(stack) - 1 => stack'[g] = stack[g]

LEMMA BecomeStack ==
  ASSUME HeapTyped, stack # << >>, NEW f, stack' = Become(f)
  PROVE  Became(f)
<1>1. IsSeq(stack)
  BY DEF HeapTyped, IsSeq
<1> QED
  BY <1>1, BecomeIs DEF Become, Became

LEMMA CallStack ==
  ASSUME HeapTyped, stack # << >>, NEW f, NEW h
  PROVE  stack' = Append(Become(f), h) => Called(f, h)
<1>1. IsSeq(stack)
  BY DEF HeapTyped, IsSeq
<1> DEFINE b == Become(f)
           t == Append(b, h)
<1>2. /\ IsSeq(b) /\ Len(b) = Len(stack) /\ DOMAIN b = DOMAIN stack /\ b[Len(stack)] = f
      /\ \A g \in DOMAIN stack : g # Len(stack) => b[g] = stack[g]
  BY <1>1, BecomeIs DEF Become
<1>3. Len(stack) \in Nat /\ Len(stack) \in DOMAIN stack
  BY <1>1, IsSeqFacts
<1> HIDE DEF b
<1>4. /\ IsSeq(t) /\ t # << >> /\ Len(t) = Len(b) + 1 /\ DOMAIN t = 1..(Len(b) + 1)
      /\ t[Len(b) + 1] = h /\ \A g \in DOMAIN b : t[g] = b[g]
  BY <1>2, AppendIs
<1> HIDE DEF t
<1>5. stack' = t => Called(f, h)
  BY <1>2, <1>3, <1>4 DEF Called
<1> QED
  BY <1>5 DEF t, b

LEMMA ReturnStack ==
  ASSUME HeapTyped, Len(stack) > 1, NEW f, stack' = Return(f)
  PROVE  Returned(f)
<1>1. IsSeq(stack)
  BY DEF HeapTyped, IsSeq
<1> QED
  BY <1>1, ReturnIs DEF Return, Returned

\* Nodes below the top are as they were.
OthersKept == \A j \in DOMAIN nodes : j # Top.node => nodes'[j] = nodes[j]

LEMMA StackGoesOn ==
  ASSUME HeapTyped, IsStack, stack # << >>, OthersKept, root' = root,
         NEW f, Became(f), f.node = Top.node,
         f.at \in {"enter", "apply", "done"},
         f.at = "enter" => f.elts # NoElements, f.at = "done" => f.elts = NoElements
  PROVE  IsStack'
<1>1. /\ Len(stack) \in Nat /\ Len(stack) > 0 /\ DOMAIN stack = 1..Len(stack)
      /\ Len(stack) \in DOMAIN stack
  BY TopFacts
<1>2. /\ stack' # << >> /\ Len(stack') = Len(stack) /\ DOMAIN stack' = DOMAIN stack
      /\ stack'[Len(stack)] = f /\ \A g \in DOMAIN stack : g # Len(stack) => stack'[g] = stack[g]
  BY DEF Became
<1>3. \A g \in DOMAIN stack : stack'[g].node = stack[g].node
  BY <1>2 DEF Top
<1>4. Top' = f
  BY <1>2 DEF Top
<1>5. ASSUME NEW g \in DOMAIN stack, g # Len(stack)
      PROVE  Waits(stack[g], stack[g + 1])'
  <2>1. g + 1 \in DOMAIN stack /\ Waits(stack[g], stack[g + 1])
    BY <1>1, <1>5 DEF IsStack
  <2>2. stack'[g] = stack[g] /\ stack'[g + 1].node = stack[g + 1].node
    BY <1>2, <1>3, <1>5, <2>1
  <2>3. nodes'[stack[g].node] = nodes[stack[g].node]
    BY <1>5, TopFacts DEF OthersKept, IsFrame
  <2> QED
    BY <2>1, <2>2, <2>3 DEF Waits
<1>6. stack'[1].node = root'
  BY <1>1, <1>3 DEF IsStack
<1>7. \A g, h \in DOMAIN stack' : stack'[g].node = stack'[h].node => g = h
  BY <1>2, <1>3 DEF IsStack
<1> QED
  BY <1>2, <1>4, <1>5, <1>6, <1>7 DEF IsStack

LEMMA StackCalls ==
  ASSUME HeapTyped, IsTree, IsStack, stack # << >>, OthersKept, root' = root,
         NEW f, NEW c, NEW e, Called(f, Frame(c, e)), f.node = Top.node,
         f.at \in {"child", "through"}, f.elts = NoElements, e # NoElements,
         f.pivot \in DOMAIN nodes'[Top.node].pivots,
         c = nodes'[Top.node].pivots[f.pivot],
         f.at = "through" => ElementsFor(nodes'[Top.node], f.pivot) = {},
         \E p \in DOMAIN nodes[Top.node].pivots : c = nodes[Top.node].pivots[p]
  PROVE  IsStack'
<1> DEFINE l == Len(stack)
<1>1. l \in Nat /\ l > 0 /\ DOMAIN stack = 1..l /\ l \in DOMAIN stack
  BY TopFacts
<1>2. /\ stack' # << >> /\ Len(stack') = l + 1 /\ DOMAIN stack' = 1..(l + 1)
      /\ stack'[l + 1] = Frame(c, e) /\ stack'[l] = f
      /\ \A g \in DOMAIN stack : g # l => stack'[g] = stack[g]
  BY DEF Called
<1>3. \A g \in DOMAIN stack : stack'[g].node = stack[g].node
  BY <1>2 DEF Top
<1>4. Top' = Frame(c, e) /\ Top'.node = c /\ Top'.at = "enter" /\ Top'.elts = e
  BY <1>2 DEF Top, Frame
<1>5. ASSUME NEW g \in DOMAIN stack
      PROVE  Waits(stack[g], stack[g + 1])'
  <2>1. CASE g # l
    <3>1. g + 1 \in DOMAIN stack /\ Waits(stack[g], stack[g + 1])
      BY <1>1, <2>1 DEF IsStack
    <3>2. stack'[g] = stack[g] /\ stack'[g + 1].node = stack[g + 1].node
      BY <1>2, <1>3, <2>1, <3>1
    <3>3. nodes'[stack[g].node] = nodes[stack[g].node]
      BY <2>1, TopFacts DEF OthersKept, IsFrame
    <3> QED
      BY <3>1, <3>2, <3>3 DEF Waits
  <2>2. CASE g = l
    <3>1. stack'[g] = f /\ stack'[g + 1].node = c
      BY <1>2, <2>2 DEF Frame
    <3> QED
      BY <3>1 DEF Waits
  <2> QED
    BY <2>1, <2>2
<1>6. stack'[1].node = root'
  BY <1>1, <1>3 DEF IsStack
<1>7. \A g \in DOMAIN stack : stack[g].node # c
  BY ChildIsNew
<1> HIDE DEF l
<1>8. \A g, h \in DOMAIN stack' : stack'[g].node = stack'[h].node => g = h
  <2>1. \A g \in DOMAIN stack' : g = l + 1 \/ g \in DOMAIN stack
    BY <1>1, <1>2
  <2>2. stack'[l + 1].node = c
    BY <1>2 DEF Frame
  <2>3. \A g, h \in DOMAIN stack : stack'[g].node = stack'[h].node => g = h
    BY <1>3 DEF IsStack
  <2> QED
    BY <2>1, <2>2, <2>3, <1>3, <1>7
<1>9. (\A g \in DOMAIN stack : g # Len(stack) => Waits(stack[g], stack[g + 1]))'
  <2>1. \A g \in DOMAIN stack' : g # l + 1 => g \in DOMAIN stack
    BY <1>1, <1>2
  <2> QED
    BY <1>2, <1>5, <2>1
<1> QED
  BY <1>2, <1>4, <1>6, <1>8, <1>9 DEF IsStack

LEMMA StackReturns ==
  ASSUME HeapTyped, IsTree, IsStack, stack # << >>, Len(stack) > 1, root' = root,
         \A j \in DOMAIN nodes : j # Top.node /\ j # Caller.node => nodes'[j] = nodes[j],
         NEW f, Returned(f), f.node = Caller.node,
         f.at \in {"apply", "done"}, f.elts = NoElements
  PROVE  IsStack'
<1> DEFINE l == Len(stack) - 1
<1>1. /\ l \in Nat /\ l > 0 /\ DOMAIN stack = 1..(l + 1) /\ l \in DOMAIN stack
      /\ Len(stack) = l + 1
  <2>1. \A n \in Nat : n > 1 => n - 1 \in Nat /\ n - 1 > 0 /\ n - 1 \in 1..n /\ n = n - 1 + 1
    OBVIOUS
  <2> QED
    BY <2>1, TopFacts
<1>2. /\ stack' # << >> /\ Len(stack') = l /\ DOMAIN stack' = 1..l
      /\ stack'[l] = f /\ \A g \in 1..l : g # l => stack'[g] = stack[g]
  BY DEF Returned
<1>0. Caller = stack[l]
  BY DEF Caller
<1> HIDE DEF l
<1>3. \A g \in 1..l : stack'[g].node = stack[g].node
  BY <1>0, <1>2
<1>4. Top' = f
  BY <1>2 DEF Top
<1>5. ASSUME NEW g \in 1..l, g # l
      PROVE  Waits(stack[g], stack[g + 1])'
  <2>1. g + 1 \in 1..l /\ g \in DOMAIN stack /\ g # l + 1
    BY <1>1, <1>5
  <2>2. Waits(stack[g], stack[g + 1])
    BY <1>1, <2>1 DEF IsStack
  <2>3. stack'[g] = stack[g] /\ stack'[g + 1].node = stack[g + 1].node
    BY <1>2, <1>3, <1>5, <2>1
  <2>4. stack[g].node # Caller.node /\ stack[g].node # Top.node /\ stack[g].node \in DOMAIN nodes
    <3>1. l \in DOMAIN stack /\ g \in DOMAIN stack
      BY <1>1, <2>1
    <3>2. stack[g].node # Caller.node
      BY <1>0, <1>5, <3>1 DEF IsStack
    <3> QED
      BY <1>1, <2>1, <3>2, TopFacts DEF IsFrame
  <2>5. nodes'[stack[g].node] = nodes[stack[g].node]
    BY <2>4
  <2> QED
    BY <2>2, <2>3, <2>5 DEF Waits
<1>6. stack'[1].node = root'
  BY <1>1, <1>3 DEF IsStack
<1>7. \A g, h \in DOMAIN stack' : stack'[g].node = stack'[h].node => g = h
  <2>1. \A g \in 1..l : g \in DOMAIN stack
    BY <1>1
  <2> QED
    BY <1>2, <1>3, <2>1 DEF IsStack
<1> QED
  BY <1>2, <1>4, <1>5, <1>6, <1>7 DEF IsStack

\* Messages come to nodes, and one node changes without a child getting lost.
LEMMA WithinKept ==
  ASSUME HeapTyped, KeysWithinPivots, DOMAIN nodes' = DOMAIN nodes,
         NEW i \in DOMAIN nodes, NEW n, nodes'[i] = n,
         \A j \in DOMAIN nodes : j # i => nodes'[j] = nodes[j],
         \A p \in DOMAIN n.pivots : \E q \in DOMAIN nodes[i].pivots :
           n.pivots[p] = nodes[i].pivots[q] /\ Between(nodes[i], q) \subseteq Between(n, p),
         DOMAIN n.pivots \cup KeysOf(n.elements) \subseteq DOMAIN came[i],
         ~is_leaf(n) => \A k \in KeysOf(n.elements) : ~BelowPivots(n.pivots, k),
         \A j \in DOMAIN nodes : DOMAIN came[j] \subseteq DOMAIN came'[j],
         \A j \in DOMAIN nodes : \A p \in DOMAIN nodes'[j].pivots :
           DOMAIN came'[nodes'[j].pivots[p]] \ DOMAIN came[nodes'[j].pivots[p]]
             \subseteq DOMAIN came'[j] \cap Between(nodes'[j], p)
  PROVE  KeysWithinPivots'
<1> SUFFICES ASSUME NEW j \in DOMAIN nodes
             PROVE  /\ DOMAIN nodes'[j].pivots \cup KeysOf(nodes'[j].elements) \subseteq DOMAIN came'[j]
                    /\ ~is_leaf(nodes'[j]) =>
                         \A k \in KeysOf(nodes'[j].elements) : ~BelowPivots(nodes'[j].pivots, k)
                    /\ \A p \in DOMAIN nodes'[j].pivots :
                         DOMAIN came'[nodes'[j].pivots[p]]
                           \subseteq DOMAIN came'[j] \cap Between(nodes'[j], p)
  BY DEF KeysWithinPivots
<1>1. DOMAIN nodes'[j].pivots \cup KeysOf(nodes'[j].elements) \subseteq DOMAIN came'[j]
  <2>1. DOMAIN nodes'[j].pivots \cup KeysOf(nodes'[j].elements) \subseteq DOMAIN came[j]
    BY DEF KeysWithinPivots
  <2> QED
    BY <2>1
<1>2. ~is_leaf(nodes'[j]) => \A k \in KeysOf(nodes'[j].elements) : ~BelowPivots(nodes'[j].pivots, k)
  BY DEF KeysWithinPivots
<1>3. ASSUME NEW p \in DOMAIN nodes'[j].pivots
      PROVE  DOMAIN came'[nodes'[j].pivots[p]] \subseteq DOMAIN came'[j] \cap Between(nodes'[j], p)
  <2> DEFINE c == nodes'[j].pivots[p]
  <2>1. PICK q \in DOMAIN nodes[j].pivots :
          c = nodes[j].pivots[q] /\ Between(nodes[j], q) \subseteq Between(nodes'[j], p)
    <3>1. CASE j = i
      BY <3>1
    <3>2. CASE j # i
      BY <3>2
    <3> QED
      BY <3>1, <3>2
  <2>2. DOMAIN came[c] \subseteq DOMAIN came[j] \cap Between(nodes[j], q)
    BY <2>1 DEF KeysWithinPivots
  <2>3. DOMAIN came'[c] \ DOMAIN came[c] \subseteq DOMAIN came'[j] \cap Between(nodes'[j], p)
    OBVIOUS
  <2>4. DOMAIN came[j] \subseteq DOMAIN came'[j]
    OBVIOUS
  <2> HIDE DEF c
  <2>5. DOMAIN came'[c] \subseteq DOMAIN came'[j] \cap Between(nodes'[j], p)
    BY <2>1, <2>2, <2>3, <2>4
  <2> QED
    BY <2>5 DEF c
<1> QED
  BY <1>1, <1>2, <1>3

\* The tree stays one if a node keeps its children.
LEMMA TreeKept ==
  ASSUME HeapTyped, IsTree, DOMAIN nodes' = DOMAIN nodes, root' = root,
         NEW i \in DOMAIN nodes, NEW n, nodes'[i] = n,
         \A j \in DOMAIN nodes : j # i => nodes'[j] = nodes[j],
         \A p \in DOMAIN n.pivots : \E q \in DOMAIN nodes[i].pivots : n.pivots[p] = nodes[i].pivots[q],
         \A p, q \in DOMAIN n.pivots : n.pivots[p] = n.pivots[q] => p = q
  PROVE  IsTree'
<1>1. ASSUME NEW j \in DOMAIN nodes, NEW p \in DOMAIN nodes'[j].pivots
      PROVE  \E q \in DOMAIN nodes[j].pivots : nodes'[j].pivots[p] = nodes[j].pivots[q]
  BY <1>1
<1>2. \A j \in DOMAIN nodes : \A p \in DOMAIN nodes'[j].pivots : nodes'[j].pivots[p] # root
  BY <1>1 DEF IsTree
<1>3. ASSUME NEW j \in DOMAIN nodes, NEW k \in DOMAIN nodes,
             NEW p \in DOMAIN nodes'[j].pivots, NEW q \in DOMAIN nodes'[k].pivots,
             nodes'[j].pivots[p] = nodes'[k].pivots[q]
      PROVE  j = k /\ p = q
  <2>1. PICK p0 \in DOMAIN nodes[j].pivots : nodes'[j].pivots[p] = nodes[j].pivots[p0]
    BY <1>1
  <2>2. PICK q0 \in DOMAIN nodes[k].pivots : nodes'[k].pivots[q] = nodes[k].pivots[q0]
    BY <1>1
  <2>0. nodes[j].pivots[p0] = nodes[k].pivots[q0]
    BY <1>3, <2>1, <2>2
  <2>3. j = k
    BY <2>0, OneWay
  <2>4. CASE j = i
    BY <1>3, <2>3, <2>4
  <2>5. CASE j # i
    <3>1. nodes'[j] = nodes[j]
      BY <2>5
    <3> QED
      BY <1>3, <2>3, <3>1, OneWay
  <2> QED
    BY <2>3, <2>4, <2>5
<1> QED
  BY <1>2, <1>3 DEF IsTree

\* The node on top with its first pivot lowered.
LEMMA LoweredFacts ==
  ASSUME TreeInv, stack # << >>, ~is_leaf(Me), Top.elts # NoElements
  PROVE  /\ IsNode(Lowered) /\ ~is_leaf(Lowered) /\ Lowered.elements = Me.elements
         /\ DOMAIN Lowered.pivots \subseteq DOMAIN came[Top.node]
         /\ \A k \in KeysOf(Me.elements) \cup KeysOf(Top.elts) : ~BelowPivots(Lowered.pivots, k)
         /\ \A p \in DOMAIN Lowered.pivots : \E q \in DOMAIN Me.pivots :
              /\ Lowered.pivots[p] = Me.pivots[q] /\ Between(Me, q) \subseteq Between(Lowered, p)
              /\ ElementsFor(Lowered, p) = ElementsFor(Me, q)
         /\ \A p, q \in DOMAIN Lowered.pivots : Lowered.pivots[p] = Lowered.pivots[q] => p = q
         /\ \A q \in DOMAIN Me.pivots : \E p \in DOMAIN Lowered.pivots : Lowered.pivots[p] = Me.pivots[q]
<1> DEFINE i == Top.node
           n == Me
           e == Top.elts
<1> USE DEF TreeInv
<1>1. /\ i \in DOMAIN nodes /\ n = nodes[i] /\ IsElements(e)
  BY TopFacts DEF Me
<1>2. /\ IsRecord(n) /\ DOMAIN n.pivots \subseteq Keys /\ DOMAIN n.pivots \subseteq Nat
      /\ n.pivots = [p \in DOMAIN n.pivots |-> n.pivots[p]]
      /\ \A p \in DOMAIN n.pivots : n.pivots[p] \in DOMAIN nodes
      /\ IsElements(n.elements)
  BY <1>1, NodeFacts
<1>3. DOMAIN e \in SUBSET (Nat \X Nat) /\ DOMAIN e # {}
  BY <1>1, ElementFacts, NothingLeft
<1> HIDE DEF n
<1>4. PICK old \in DOMAIN n.pivots, lo \in Nat :
           /\ \A p \in DOMAIN n.pivots : old <= p
           /\ lo <= old /\ (lo # old => lo \in KeysOf(e))
           /\ \A m \in DOMAIN e : lo <= m[1]
           /\ LowerFirstPivot(n, e) = WithFirst(n, old, lo)
  <2>1. ~is_leaf(n)
    BY DEF n
  <2> HIDE DEF e
  <2> QED
    BY <1>2, <1>3, <2>1, LoweredIs
<1> DEFINE L == Lowered
<1>5. /\ IsRecord(L) /\ DOMAIN L.pivots = (DOMAIN n.pivots \ {old}) \cup {lo}
      /\ L.pivots[lo] = n.pivots[old]
      /\ \A p \in DOMAIN n.pivots \ {old} : p # lo /\ L.pivots[p] = n.pivots[p]
      /\ L.pivots = [p \in DOMAIN L.pivots |-> L.pivots[p]]
      /\ L.elements = n.elements
  <2>1. L = LowerFirstPivot(n, e)
    BY DEF Lowered, n
  <2>2. \A p \in DOMAIN n.pivots \ {old} : p # lo
    BY <1>2, <1>4
  <2>3. L = WithFirst(n, old, lo)
    BY <1>4, <2>1
  <2> HIDE DEF L, e
  <2> QED
    BY <2>2, <2>3 DEF IsRecord, WithFirst
<1> HIDE DEF L
<1>6. KeysOf(e) \subseteq DOMAIN came[i]
  BY <1>1, TopFacts DEF PendingWithinPivots, Top
<1>7. DOMAIN n.pivots \subseteq DOMAIN came[i] /\ \A k \in KeysOf(n.elements) : ~BelowPivots(n.pivots, k)
  BY <1>1 DEF KeysWithinPivots, n
<1>8. DOMAIN came[i] \subseteq Keys
  BY <1>1, NodeFacts DEF IsCame
<1>9. DOMAIN L.pivots \subseteq DOMAIN came[i] /\ lo \in Keys
  BY <1>4, <1>5, <1>6, <1>7, <1>8
<1>10. IsNode(L)
  <2>1. L.pivots \in [DOMAIN L.pivots -> DOMAIN nodes]
    BY <1>2, <1>5
  <2> QED
    BY <1>2, <1>5, <1>8, <1>9, <2>1 DEF IsNode, IsRecord
<1>11. ~is_leaf(L)
  BY <1>5 DEF is_leaf
<1>12. \A k \in KeysOf(n.elements) \cup KeysOf(e) : ~BelowPivots(L.pivots, k)
  <2>1. ASSUME NEW k \in KeysOf(e) PROVE ~BelowPivots(L.pivots, k)
    <3>1. lo <= k /\ k \in Nat
      BY <1>1, <1>4, ElementFacts DEF KeysOf
    <3> QED
      BY <1>5, <3>1 DEF BelowPivots
  <2>2. ASSUME NEW k \in KeysOf(n.elements) PROVE ~BelowPivots(L.pivots, k)
    <3>1. k \in Nat
      BY <1>2, ElementFacts
    <3>2. PICK p \in DOMAIN n.pivots : ~(k < p)
      BY <1>7 DEF BelowPivots
    <3>3. \E q \in DOMAIN L.pivots : ~(k < q)
      BY <1>2, <1>4, <1>5, <3>1, <3>2
    <3> QED
      BY <3>3 DEF BelowPivots
  <2> QED
    BY <2>1, <2>2
<1>13. ASSUME NEW p \in DOMAIN L.pivots
       PROVE  \E q \in DOMAIN n.pivots :
                /\ L.pivots[p] = n.pivots[q] /\ Between(n, q) \subseteq Between(L, p)
                /\ ElementsFor(L, p) = ElementsFor(n, q)
  <2>0. \A m \in DOMAIN n.elements : m[1] \in Nat /\ \E q \in DOMAIN n.pivots : ~(m[1] < q)
    BY <1>2, <1>7, ElementFacts DEF KeysOf, BelowPivots
  <2>1. CASE p = lo
    <3>1. L.pivots[p] = n.pivots[old]
      BY <1>5, <2>1
    <3>2. \A q \in DOMAIN L.pivots : lo < q => q \in DOMAIN n.pivots /\ old < q
      BY <1>2, <1>4, <1>5
    <3>3. \A q \in DOMAIN n.pivots : old < q => q \in DOMAIN L.pivots /\ lo < q
      BY <1>2, <1>4, <1>5
    <3>4. Between(n, old) \subseteq Between(L, lo)
      <4> SUFFICES ASSUME NEW k \in Between(n, old)
                   PROVE  k \in Between(L, lo)
        OBVIOUS
      <4>1. /\ k \in Keys /\ k \in Nat /\ old <= k /\ old \in Nat
            /\ \A q \in DOMAIN n.pivots : old < q => k < q
        BY <1>2, KeysAssumption DEF Between
      <4>2. lo <= k
        BY <1>4, <4>1
      <4> QED
        BY <3>2, <4>1, <4>2 DEF Between
    <3>5. \A m \in DOMAIN n.elements : old <= m[1]
      BY <1>2, <1>4, <2>0
    <3>6. ElementsFor(L, lo) = ElementsFor(n, old)
      <4>1. \A m \in DOMAIN n.elements : lo <= m[1]
        BY <1>2, <1>4, <2>0, <3>5
      <4>2. L.elements = n.elements
        BY <1>5
      <4> QED
        BY <3>2, <3>3, <3>5, <4>1, <4>2 DEF ElementsFor
    <3> QED
      BY <2>1, <3>1, <3>4, <3>6
  <2>2. CASE p # lo
    <3>1. p \in DOMAIN n.pivots /\ p # old /\ L.pivots[p] = n.pivots[p]
      BY <1>5, <2>2
    <3>2. \A q \in DOMAIN L.pivots : p < q => q \in DOMAIN n.pivots
      BY <1>2, <1>4, <1>5, <3>1
    <3>3. \A q \in DOMAIN n.pivots : p < q => q \in DOMAIN L.pivots
      BY <1>2, <1>4, <1>5, <3>1
    <3>4. Between(n, p) \subseteq Between(L, p)
      BY <3>2 DEF Between
    <3>5. ElementsFor(L, p) = ElementsFor(n, p)
      BY <1>5, <3>2, <3>3 DEF ElementsFor
    <3> QED
      BY <3>1, <3>4, <3>5
  <2> QED
    BY <2>1, <2>2
<1>14. \A p, q \in DOMAIN n.pivots : n.pivots[p] = n.pivots[q] => p = q
  BY <1>1, OneWay DEF n
<1>15. \A p, q \in DOMAIN L.pivots : L.pivots[p] = L.pivots[q] => p = q
  BY <1>4, <1>5, <1>14
<1>16. \A q \in DOMAIN n.pivots : \E p \in DOMAIN L.pivots : L.pivots[p] = n.pivots[q]
  BY <1>5
<1> QED
  BY <1>5, <1>9, <1>10, <1>11, <1>12, <1>13, <1>15, <1>16 DEF L, n, e

-----------------------------------------------------------------------------
(* A message applied.                                                      *)

LEMMA MergedIs ==
  ASSUME NEW old \in Value, NEW msg \in Message
  PROVE  /\ Merged(old, msg) \in Message
         /\ Merged(old, msg).op = INSERT /\ Merged(old, msg).val = old \o msg.val
         /\ Merged(old, msg).means = msg.means
<1>1. msg = [op |-> msg.op, val |-> msg.val, means |-> msg.means] /\ msg.val \in Value
      /\ msg.means \in Value \cup {NULL}
  BY DEF Message
<1>2. Merged(old, msg) = [op |-> INSERT, val |-> old \o msg.val, means |-> msg.means]
  <2> DEFINE v == old \o msg.val
  <2>1. Merged(old, msg) = [msg EXCEPT !.op = INSERT, !.val = v]
    BY DEF Merged
  <2> HIDE DEF v
  <2>2. Merged(old, msg) = [op |-> INSERT, val |-> v, means |-> msg.means]
    BY <1>1, <2>1
  <2> QED
    BY <2>2 DEF v
<1>3. old \o msg.val \in Value
  BY <1>1, ConcatProperties DEF Value
<1> QED
  BY <1>1, <1>2, <1>3 DEF Message

LEMMA ApplyTyped ==
  ASSUME NEW n, IsRecord(n), IsElements(n.elements),
         NEW m \in MessageKeys, NEW msg \in Message
  PROVE  LET A == Apply(n, m, msg).elements
         IN /\ Apply(n, m, msg) = [pivots |-> n.pivots, elements |-> A]
            /\ IsElements(A) /\ DOMAIN A \subseteq DOMAIN n.elements \cup {m}
            /\ is_leaf(n) /\ ProperLeaf(n) => ProperLeaf(Apply(n, m, msg))
<1> DEFINE E == n.elements
           A == Apply(n, m, msg).elements
           mine == MessagesOf(E, m[1])
           w == Merged(Into(n, m), msg)
<1>1. msg.op \in {INSERT, DELETE, UPDATE} /\ INSERT # DELETE /\ INSERT # UPDATE /\ DELETE # UPDATE
  BY DEF Message, INSERT, DELETE, UPDATE
<1>2. Into(n, m) \in Value
  <2>1. CASE mine = {}
    BY <2>1 DEF Into, default_value, Value
  <2>2. CASE mine # {}
    <3>1. Latest(mine) \in mine
      BY <2>2, LatestOf
    <3>2. E[Latest(mine)] \in Message
      BY <3>1, ElementFacts DEF MessagesOf
    <3>3. Into(n, m) = E[Latest(mine)].val
      BY <2>2 DEF Into
    <3> HIDE DEF mine, E
    <3> QED
      BY <3>2, <3>3 DEF Message
  <2> QED
    BY <2>1, <2>2
<1>3. w \in Message /\ w.op = INSERT
  <2> HIDE DEF w
  <2> QED
    BY <1>2, MergedIs DEF w
<1>4. /\ Apply(n, m, msg) = [pivots |-> n.pivots, elements |-> A]
      /\ A = IF Merges(n, m, msg) THEN Replace(E, m, w)
             ELSE IF msg.op = UPDATE THEN Put(E, m, msg)
             ELSE IF msg.op = DELETE /\ is_leaf(n) THEN Without(E, mine)
             ELSE Replace(E, m, msg)
  BY <1>1, ApplyIs
<1> HIDE DEF w, A
<1>5. IsFiniteSet(DOMAIN E) /\ DOMAIN E \subseteq MessageKeys /\ \A y \in DOMAIN E : E[y] \in Message
  BY DEF IsElements
<1> HIDE DEF E
<1>6. ASSUME NEW v \in Message
      PROVE  /\ IsElements(Replace(E, m, v)) /\ DOMAIN Replace(E, m, v) \subseteq DOMAIN E \cup {m}
             /\ \A y \in DOMAIN Replace(E, m, v) : y[1] = m[1] => y = m
             /\ Replace(E, m, v)[m] = v
             /\ \A y \in DOMAIN Replace(E, m, v) : y # m => y \in DOMAIN E /\ Replace(E, m, v)[y] = E[y]
  <2> DEFINE R == Replace(E, m, v)
  <2>1. /\ DOMAIN R = {y \in DOMAIN E : y[1] # m[1]} \cup {m}
        /\ R[m] = v
        /\ \A y \in DOMAIN E : y[1] # m[1] => R[y] = E[y]
        /\ IsFunction(R)
    BY ReplaceIs
  <2> HIDE DEF R
  <2>2. IsFiniteSet(DOMAIN R)
    <3>1. IsFiniteSet(DOMAIN E \cup {m})
      BY <1>5, FS_AddElement
    <3>2. DOMAIN R \in SUBSET (DOMAIN E \cup {m})
      BY <2>1
    <3> QED
      BY <3>1, <3>2, FS_Subset
  <2>3. DOMAIN R \subseteq MessageKeys /\ \A y \in DOMAIN R : R[y] \in Message
    BY <1>5, <2>1
  <2>4. IsElements(R)
    BY <2>1, <2>2, <2>3 DEF IsElements, IsFunction
  <2>5. /\ DOMAIN R \subseteq DOMAIN E \cup {m}
        /\ \A y \in DOMAIN R : y[1] = m[1] => y = m
        /\ \A y \in DOMAIN R : y # m => y \in DOMAIN E /\ R[y] = E[y]
    BY <2>1
  <2> QED
    BY <2>1, <2>4, <2>5 DEF R
<1>7. IsElements(Put(E, m, msg)) /\ DOMAIN Put(E, m, msg) \subseteq DOMAIN E \cup {m}
  <2> DEFINE R == Put(E, m, msg)
  <2>1. /\ DOMAIN R = DOMAIN E \cup {m} /\ R[m] = msg
        /\ \A y \in DOMAIN E : y # m => R[y] = E[y]
        /\ IsFunction(R)
    BY DEF Put, IsFunction
  <2> HIDE DEF R
  <2>2. IsFiniteSet(DOMAIN R)
    BY <1>5, <2>1, FS_AddElement
  <2>3. DOMAIN R \subseteq MessageKeys /\ \A y \in DOMAIN R : R[y] \in Message
    BY <1>5, <2>1
  <2>4. IsElements(R)
    BY <2>1, <2>2, <2>3 DEF IsElements, IsFunction
  <2> QED
    BY <2>1, <2>4 DEF R
<1>8. IsElements(Without(E, mine)) /\ DOMAIN Without(E, mine) \subseteq DOMAIN E
      /\ \A y \in DOMAIN Without(E, mine) : Without(E, mine)[y] = E[y]
  <2> DEFINE R == Without(E, mine)
  <2>1. /\ DOMAIN R = DOMAIN E \ mine
        /\ \A y \in DOMAIN E \ mine : R[y] = E[y]
        /\ IsFunction(R)
    BY WithoutIs
  <2> HIDE DEF R
  <2>2. IsFiniteSet(DOMAIN R)
    <3>1. DOMAIN R \in SUBSET DOMAIN E
      BY <2>1
    <3> QED
      BY <1>5, <3>1, FS_Subset
  <2>3. DOMAIN R \subseteq MessageKeys /\ \A y \in DOMAIN R : R[y] \in Message
    BY <1>5, <2>1
  <2>4. IsElements(R)
    BY <2>1, <2>2, <2>3 DEF IsElements, IsFunction
  <2> QED
    BY <2>1, <2>4 DEF R
<1>9. IsElements(A) /\ DOMAIN A \subseteq DOMAIN E \cup {m}
  <2>1. CASE Merges(n, m, msg)
    BY <1>3, <1>4, <1>6, <2>1
  <2>2. CASE ~Merges(n, m, msg)
    BY <1>4, <1>6, <1>7, <1>8, <2>2
  <2> QED
    BY <2>1, <2>2
<1>10. ASSUME is_leaf(n), ProperLeaf(n) PROVE ProperLeaf(Apply(n, m, msg))
  <2>1. \A y \in DOMAIN E : E[y].op = INSERT /\ MessagesOf(E, y[1]) = {y}
    BY <1>10 DEF ProperLeaf, E
  <2>2. msg.op = UPDATE => Merges(n, m, msg)
    <3>1. ASSUME mine # {} PROVE E[Latest(mine)].op = INSERT
      <4>1. Latest(mine) \in mine
        BY <3>1, LatestOf DEF E
      <4> QED
        BY <2>1, <4>1 DEF MessagesOf
    <3> HIDE DEF mine
    <3>2. mine = MessagesOf(n.elements, m[1])
      BY DEF mine, E
    <3> QED
      BY <1>10, <3>1, <3>2 DEF Merges, E
  <2>3. ASSUME NEW v \in Message, v.op = INSERT, A = Replace(E, m, v)
        PROVE  \A y \in DOMAIN A : A[y].op = INSERT /\ MessagesOf(A, y[1]) = {y}
    <3>1. /\ \A y \in DOMAIN A : y[1] = m[1] => y = m
          /\ A[m] = v
          /\ \A y \in DOMAIN A : y # m => y \in DOMAIN E /\ A[y] = E[y]
      BY <1>6, <2>3
    <3>2. ASSUME NEW y \in DOMAIN A PROVE A[y].op = INSERT
      BY <2>1, <2>3, <3>1
    <3>3. ASSUME NEW y \in DOMAIN A, NEW x \in DOMAIN A, x[1] = y[1] PROVE x = y
      <4>1. CASE y[1] = m[1]
        BY <3>1, <3>3, <4>1
      <4>2. CASE y[1] # m[1]
        <5>1. x \in DOMAIN E /\ y \in DOMAIN E
          BY <3>1, <3>3, <4>2
        <5>2. x \in MessagesOf(E, y[1])
          BY <3>3, <5>1 DEF MessagesOf
        <5> QED
          BY <2>1, <5>1, <5>2
      <4> QED
        BY <4>1, <4>2
    <3>4. \A y \in DOMAIN A : MessagesOf(A, y[1]) = {y}
      BY <3>3 DEF MessagesOf
    <3> QED
      BY <3>2, <3>4
  <2>4. \A y \in DOMAIN A : A[y].op = INSERT /\ MessagesOf(A, y[1]) = {y}
    <3>1. CASE msg.op = UPDATE
      BY <1>3, <1>4, <2>2, <2>3, <3>1
    <3>2. CASE msg.op = INSERT
      <4>1. A = Replace(E, m, msg)
        BY <1>1, <1>4, <3>2 DEF Merges
      <4> QED
        BY <2>3, <3>2, <4>1
    <3>3. CASE msg.op = DELETE
      <4>1. A = Without(E, mine)
        BY <1>1, <1>4, <1>10, <3>3 DEF Merges
      <4>2. \A y \in DOMAIN A : y \in DOMAIN E /\ A[y] = E[y]
        BY <1>8, <4>1
      <4>3. \A y \in DOMAIN A : MessagesOf(A, y[1]) \subseteq MessagesOf(E, y[1])
        BY <4>2 DEF MessagesOf
      <4>4. \A y \in DOMAIN A : y \in MessagesOf(A, y[1])
        BY DEF MessagesOf
      <4> HIDE DEF mine
      <4>5. ASSUME NEW y \in DOMAIN A PROVE A[y].op = INSERT /\ MessagesOf(A, y[1]) = {y}
        <5>1. A[y].op = INSERT /\ MessagesOf(E, y[1]) = {y}
          BY <2>1, <4>2
        <5> QED
          BY <5>1, <4>3, <4>4
      <4> QED
        BY <4>5
    <3> QED
      BY <1>1, <3>1, <3>2, <3>3
  <2>5. Apply(n, m, msg).elements = A
    BY DEF A
  <2> QED
    BY <2>4, <2>5 DEF ProperLeaf
<1> QED
  BY <1>4, <1>9, <1>10 DEF A, E

-----------------------------------------------------------------------------
(* The steps down.                                                         *)

LEMMA HeapSame ==
  ASSUME HeapTyped
  PROVE  /\ IsFunction(nodes) /\ \A j \in DOMAIN nodes : IsNode(nodes[j])
         /\ IsFunction(came) /\ \A j \in DOMAIN nodes : IsCame(came[j])
         /\ DOMAIN came = DOMAIN nodes
         /\ dirty \subseteq DOMAIN nodes
BY DEF HeapTyped, IsFunction

\* A function that is changed in one place.
LEMMA ExceptIs ==
  ASSUME NEW g, IsFunction(g), NEW x \in DOMAIN g, NEW v
  PROVE  LET h == [g EXCEPT ![x] = v]
         IN /\ IsFunction(h) /\ DOMAIN h = DOMAIN g /\ h[x] = v
            /\ \A y \in DOMAIN g : y # x => h[y] = g[y]
BY DEF IsFunction

LEMMA FramesKept ==
  ASSUME HeapTyped, IsStack, stack # << >>, NEW f, IsFrame(f)
  PROVE  /\ Became(f) => IsSeq(stack') /\ \A g \in DOMAIN stack' : IsFrame(stack'[g])
         /\ \A h : IsFrame(h) /\ Called(f, h) =>
              IsSeq(stack') /\ \A g \in DOMAIN stack' : IsFrame(stack'[g])
         /\ Len(stack) > 1 /\ Returned(f) =>
              IsSeq(stack') /\ \A g \in DOMAIN stack' : IsFrame(stack'[g])
<1>1. /\ Len(stack) \in Nat /\ Len(stack) > 0 /\ DOMAIN stack = 1..Len(stack)
      /\ \A g \in DOMAIN stack : IsFrame(stack[g])
  BY TopFacts
<1>2. Became(f) => IsSeq(stack') /\ \A g \in DOMAIN stack' : IsFrame(stack'[g])
  BY <1>1 DEF Became
<1>3. ASSUME NEW h, IsFrame(h), Called(f, h), NEW g \in DOMAIN stack'
      PROVE  IsFrame(stack'[g])
  <2>1. /\ DOMAIN stack' = 1..(Len(stack) + 1)
        /\ stack'[Len(stack) + 1] = h /\ stack'[Len(stack)] = f
        /\ \A x \in DOMAIN stack : x # Len(stack) => stack'[x] = stack[x]
    BY <1>3 DEF Called
  <2>2. g = Len(stack) + 1 \/ g \in DOMAIN stack
    BY <1>1, <2>1
  <2> QED
    BY <1>1, <1>3, <2>1, <2>2
<1>4. ASSUME Returned(f), NEW g \in DOMAIN stack'
      PROVE  IsFrame(stack'[g])
  <2>1. /\ DOMAIN stack' = 1..(Len(stack) - 1) /\ stack'[Len(stack) - 1] = f
        /\ \A x \in 1..(Len(stack) - 1) : x # Len(stack) - 1 => stack'[x] = stack[x]
    BY <1>4 DEF Returned
  <2>2. \A n \in Nat : \A x \in 1..(n - 1) : x \in 1..n
    OBVIOUS
  <2>3. g \in DOMAIN stack
    BY <1>1, <2>1, <2>2
  <2> QED
    BY <1>1, <1>4, <2>1, <2>3
<1>5. \A h : Called(f, h) => IsSeq(stack')
  BY DEF Called
<1>6. Returned(f) => IsSeq(stack')
  BY DEF Returned
<1> QED
  BY <1>2, <1>3, <1>4, <1>5, <1>6

LEMMA PendingKept ==
  ASSUME IsStack', stack' # << >>, NEW f, f = stack'[Len(stack')],
         KeysOf(f.elts) \subseteq DOMAIN came'[f.node],
         f.at = "apply" /\ ~is_leaf(nodes'[f.node]) =>
           \A k \in KeysOf(f.elts) : ~BelowPivots(nodes'[f.node].pivots, k)
  PROVE  PendingWithinPivots'
<1>1. \A g \in DOMAIN stack' : g # Len(stack') => stack'[g].elts = NoElements
  BY DEF IsStack, Waits
<1>2. KeysOf(NoElements) = {}
  BY NoElementsIs
<1> QED
  BY <1>1, <1>2 DEF PendingWithinPivots

LEMMA TouchedIs ==
  ASSUME HeapTyped, NEW S \in SUBSET DOMAIN nodes
  PROVE  Touched(S) \subseteq DOMAIN nodes
BY HeapSame DEF Touched

LEMMA UnchangedKeeps ==
  ASSUME TreeInv, dirty' \subseteq DOMAIN nodes,
         UNCHANGED <<nodes, root, next_id, stack, came, ops, expected>>
  PROVE  TreeInv'
<1> USE DEF TreeInv
<1>1. HeapTyped'
  <2>1. IsSeq(stack') /\ \A g \in DOMAIN stack' : IsFrame(stack'[g])
    BY DEF HeapTyped, IsSeq
  <2> QED
    BY <2>1, HeapSame, HeapKept
<1>2. CallsTyped'
  BY DEF CallsTyped
<1>3. IsTree'
  BY DEF IsTree
<1>4. IsStack'
  BY DEF IsStack, Waits, Top
<1>5. KeysWithinPivots' /\ PendingWithinPivots' /\ LeavesHoldInserts'
  BY DEF KeysWithinPivots, PendingWithinPivots, LeavesHoldInserts
<1> QED
  BY <1>1, <1>2, <1>3, <1>4, <1>5

LEMMA FlushLeafKeeps ==
  ASSUME TreeInv, FlushLeaf
  PROVE  TreeInv'
<1> DEFINE f == [Top EXCEPT !.at = "apply"]
<1> USE DEF TreeInv
<1>1. /\ stack # << >> /\ is_leaf(Me) /\ stack' = Become(f) /\ dirty' = Touched({Top.node})
      /\ UNCHANGED <<nodes, root, next_id, came, ops, expected>>
  BY DEF FlushLeaf, At, treeVars, callVars, historyVars
<1>2. /\ IsFrameRecord(f) /\ f.node = Top.node /\ f.at = "apply" /\ f.elts = Top.elts
      /\ f.first = Top.first
      /\ IsFrame(Top) /\ Top.node \in DOMAIN nodes
  BY <1>1, TopFacts DEF IsFrameRecord
<1>3. Became(f)
  BY <1>1, BecomeStack
<1> HIDE DEF f
<1>4. IsFrame(f)
  BY <1>2, FrameRecord DEF IsFrame
<1>5. HeapTyped'
  <2>1. dirty' \subseteq DOMAIN nodes
    BY <1>1, <1>2, TouchedIs
  <2>2. IsSeq(stack') /\ \A g \in DOMAIN stack' : IsFrame(stack'[g])
    BY <1>1, <1>3, <1>4, FramesKept
  <2> QED
    BY <1>1, <2>1, <2>2, HeapSame, HeapKept
<1>6. IsTree' /\ KeysWithinPivots' /\ LeavesHoldInserts' /\ CallsTyped'
  BY <1>1 DEF IsTree, KeysWithinPivots, LeavesHoldInserts, CallsTyped
<1>7. IsStack'
  <2>1. OthersKept
    BY <1>1 DEF OthersKept
  <2> QED
    BY <1>1, <1>2, <1>3, <2>1, StackGoesOn
<1>8. PendingWithinPivots'
  <2>1. stack' # << >> /\ f = stack'[Len(stack')]
    BY <1>3 DEF Became
  <2>2. is_leaf(nodes'[f.node])
    BY <1>1, <1>2 DEF Me
  <2>3. KeysOf(f.elts) \subseteq DOMAIN came'[f.node]
    BY <1>1, <1>2, TopFacts DEF PendingWithinPivots, Top
  <2> QED
    BY <1>7, <2>1, <2>2, <2>3, PendingKept
<1> QED
  BY <1>5, <1>6, <1>7, <1>8

LEMMA FirstIs ==
  ASSUME TreeInv, stack # << >>, ~is_leaf(Me), Top.elts # NoElements
  PROVE  /\ First \in DOMAIN Lowered.pivots /\ First \in Nat
         /\ First = Last => KeysOf(Top.elts) \subseteq Between(Lowered, First)
<1> DEFINE e == Top.elts
           a == Earliest(DOMAIN e)
           z == Latest(DOMAIN e)
<1> USE DEF TreeInv
<1>1. IsElements(e) /\ DOMAIN e # {}
  BY TopFacts, NothingLeft
<1>2. /\ DOMAIN e \in SUBSET (Nat \X Nat) /\ IsFiniteSet(DOMAIN e)
      /\ KeysOf(e) \subseteq Keys /\ KeysOf(e) \subseteq Nat
  BY <1>1, ElementFacts
<1>3. a \in DOMAIN e /\ \A m \in DOMAIN e : a[1] <= m[1]
  BY <1>1, <1>2, EarliestIs
<1>4. z \in DOMAIN e /\ \A m \in DOMAIN e : m[1] <= z[1]
  BY <1>1, <1>2, LatestIs
<1>5. a[1] \in KeysOf(e) /\ a[1] \in Nat /\ z[1] \in KeysOf(e) /\ z[1] \in Nat
  BY <1>2, <1>3, <1>4 DEF KeysOf
<1>6. /\ DOMAIN Lowered.pivots \subseteq Nat
      /\ \A k \in KeysOf(e) : ~BelowPivots(Lowered.pivots, k)
  BY LoweredFacts, KeysAssumption DEF IsNode
<1>7. First = get_pivot(Lowered.pivots, a[1]) /\ Last = get_pivot(Lowered.pivots, z[1])
  BY DEF First, Last
<1> HIDE DEF a, z, e
<1>8. First \in DOMAIN Lowered.pivots /\ First <= a[1]
  BY <1>5, <1>6, <1>7, PivotIs
<1>9. \A q \in DOMAIN Lowered.pivots : Last < q => z[1] < q
  BY <1>5, <1>6, <1>7, PivotIs
<1>10. ASSUME First = Last, NEW k \in KeysOf(e) PROVE k \in Between(Lowered, First)
  <2>1. a[1] <= k /\ k <= z[1] /\ k \in Nat /\ k \in Keys
    BY <1>2, <1>3, <1>4 DEF KeysOf
  <2>2. First \in Nat /\ First <= k
    BY <1>5, <1>6, <1>8, <2>1
  <2>3. \A q \in DOMAIN Lowered.pivots : First < q => k < q
    BY <1>5, <1>6, <1>9, <1>10, <2>1
  <2> QED
    BY <2>1, <2>2, <2>3 DEF Between
<1> QED
  BY <1>6, <1>8, <1>10 DEF e

LEMMA CameGains ==
  ASSUME HeapTyped, NEW c \in DOMAIN nodes, NEW e, IsElements(e),
         came' = [came EXCEPT ![c] = Arrived(@, e)]
  PROVE  /\ DOMAIN came' = DOMAIN nodes /\ IsFunction(came')
         /\ \A j \in DOMAIN nodes : IsCame(came'[j])
         /\ came'[c] = Arrived(came[c], e)
         /\ \A j \in DOMAIN nodes : j # c => came'[j] = came[j]
         /\ DOMAIN came'[c] = DOMAIN came[c] \cup KeysOf(e)
<1> DEFINE v == Arrived(came[c], e)
<1>1. came' = [came EXCEPT ![c] = v]
  OBVIOUS
<1>2. IsCame(v) /\ DOMAIN v = DOMAIN came[c] \cup KeysOf(e)
  BY HeapSame, ArrivedIs
<1> HIDE DEF v
<1>3. /\ IsFunction(came') /\ DOMAIN came' = DOMAIN nodes /\ came'[c] = v
      /\ \A j \in DOMAIN nodes : j # c => came'[j] = came[j]
  BY <1>1, HeapSame DEF IsFunction
<1>4. \A j \in DOMAIN nodes : IsCame(came'[j])
  BY <1>2, <1>3, HeapSame
<1> QED
  BY <1>2, <1>3, <1>4 DEF v

LEMMA FlushToBufferKeeps ==
  ASSUME TreeInv, FlushToBuffer
  PROVE  TreeInv'
<1> DEFINE f == [Top EXCEPT !.at = "apply", !.first = First]
           i == Top.node
<1> USE DEF TreeInv
<1>1. /\ stack # << >> /\ ~is_leaf(Me) /\ stack' = Become(f) /\ dirty' = Touched({Top.node})
      /\ nodes' = [nodes EXCEPT ![i] = Lowered] /\ Top.at = "enter"
      /\ UNCHANGED <<root, next_id, came, ops, expected>>
  BY DEF FlushToBuffer, At, callVars, historyVars
<1>2. /\ IsFrameRecord(f) /\ f.node = i /\ f.at = "apply" /\ f.elts = Top.elts
      /\ f.first = First
      /\ IsFrame(Top) /\ i \in DOMAIN nodes
  BY <1>1, TopFacts DEF IsFrameRecord
<1>3. Became(f)
  BY <1>1, BecomeStack
<1>4. Top.elts # NoElements
  BY <1>1 DEF IsStack
<1>5. /\ IsNode(Lowered) /\ ~is_leaf(Lowered) /\ Lowered.elements = Me.elements
      /\ DOMAIN Lowered.pivots \subseteq DOMAIN came[i]
      /\ \A k \in KeysOf(Me.elements) \cup KeysOf(Top.elts) : ~BelowPivots(Lowered.pivots, k)
      /\ \A p \in DOMAIN Lowered.pivots : \E q \in DOMAIN Me.pivots :
              /\ Lowered.pivots[p] = Me.pivots[q] /\ Between(Me, q) \subseteq Between(Lowered, p)
      /\ \A p, q \in DOMAIN Lowered.pivots : Lowered.pivots[p] = Lowered.pivots[q] => p = q
  BY <1>1, <1>4, LoweredFacts
<1>6. First \in Nat
  BY <1>1, <1>4, FirstIs
<1> HIDE DEF f
<1>7. IsFrame(f)
  BY <1>2, <1>6, FrameRecord DEF IsFrame
<1>8. /\ DOMAIN nodes' = DOMAIN nodes /\ nodes'[i] = Lowered
      /\ \A j \in DOMAIN nodes : j # i => nodes'[j] = nodes[j]
      /\ IsFunction(nodes')
  BY <1>1, <1>2, HeapSame, ExceptIs
<1>9. HeapTyped'
  <2>1. dirty' \subseteq DOMAIN nodes
    BY <1>1, <1>2, TouchedIs
  <2>2. IsSeq(stack') /\ \A g \in DOMAIN stack' : IsFrame(stack'[g])
    BY <1>1, <1>3, <1>7, FramesKept
  <2>3. \A j \in DOMAIN nodes : IsNode(nodes'[j])
    BY <1>5, <1>8, HeapSame
  <2> QED
    BY <1>1, <1>8, <2>1, <2>2, <2>3, HeapSame, HeapKept
<1>10. IsTree'
  BY <1>1, <1>2, <1>5, <1>8, TreeKept DEF Me
<1>11. KeysWithinPivots'
  <2>1. DOMAIN Lowered.pivots \cup KeysOf(Lowered.elements) \subseteq DOMAIN came[i]
    BY <1>2, <1>5 DEF KeysWithinPivots, Me
  <2>2. \A k \in KeysOf(Lowered.elements) : ~BelowPivots(Lowered.pivots, k)
    BY <1>5
  <2> QED
    BY <1>1, <1>2, <1>5, <1>8, <2>1, <2>2, WithinKept DEF Me
<1>12. IsStack'
  <2>1. OthersKept
    BY <1>8, <1>1 DEF OthersKept
  <2> QED
    BY <1>1, <1>2, <1>3, <2>1, StackGoesOn
<1>13. PendingWithinPivots'
  <2>1. stack' # << >> /\ f = stack'[Len(stack')]
    BY <1>3 DEF Became
  <2>2. KeysOf(f.elts) \subseteq DOMAIN came'[f.node]
    BY <1>1, <1>2, TopFacts DEF PendingWithinPivots, Top
  <2> QED
    BY <1>2, <1>5, <1>8, <1>12, <2>1, <2>2, PendingKept
<1>14. LeavesHoldInserts' /\ CallsTyped'
  BY <1>1, <1>5, <1>8 DEF LeavesHoldInserts, CallsTyped
<1> QED
  BY <1>9, <1>10, <1>11, <1>12, <1>13, <1>14

LEMMA FlushThroughKeeps ==
  ASSUME TreeInv, FlushThrough
  PROVE  TreeInv'
<1> DEFINE f == [Top EXCEPT !.at = "through", !.elts = NoElements,
                            !.first = First, !.pivot = First]
           i == Top.node
           e == Top.elts
           c == Lowered.pivots[First]
<1> USE DEF TreeInv
<1>1. CASE ElementsFor(Lowered, First) # {}
  <2>1. /\ UNCHANGED <<nodes, root, next_id, stack, came, ops, expected>>
        /\ dirty' \subseteq DOMAIN nodes
    BY <1>1, HeapSame DEF FlushThrough, callVars
  <2> QED
    BY <2>1, UnchangedKeeps
<1>2. CASE ElementsFor(Lowered, First) = {}
  <2>1. /\ stack # << >> /\ ~is_leaf(Me) /\ stack' = Append(Become(f), Frame(c, e))
        /\ dirty' = Touched({i}) /\ nodes' = [nodes EXCEPT ![i] = Lowered]
        /\ came' = [came EXCEPT ![c] = Arrived(@, e)]
        /\ Top.at = "enter" /\ First = Last
        /\ UNCHANGED <<root, next_id, ops, expected>>
    BY <1>2 DEF FlushThrough, At, callVars, Calls, OneDirtyChild
  <2>2. /\ IsFrameRecord(f) /\ f.node = i /\ f.at = "through" /\ f.elts = NoElements
        /\ f.first = First /\ f.pivot = First
        /\ IsFrame(Top) /\ i \in DOMAIN nodes /\ IsElements(e)
    BY <2>1, TopFacts DEF IsFrameRecord
  <2>3. Called(f, Frame(c, e))
    BY <2>1, CallStack
  <2>4. e # NoElements
    BY <2>1 DEF IsStack
  <2>5. /\ IsNode(Lowered) /\ ~is_leaf(Lowered) /\ Lowered.elements = Me.elements
        /\ DOMAIN Lowered.pivots \subseteq DOMAIN came[i]
        /\ \A k \in KeysOf(Me.elements) \cup KeysOf(Top.elts) : ~BelowPivots(Lowered.pivots, k)
        /\ \A p \in DOMAIN Lowered.pivots : \E q \in DOMAIN Me.pivots :
                /\ Lowered.pivots[p] = Me.pivots[q] /\ Between(Me, q) \subseteq Between(Lowered, p)
        /\ \A p, q \in DOMAIN Lowered.pivots : Lowered.pivots[p] = Lowered.pivots[q] => p = q
    BY <2>1, <2>4, LoweredFacts
  <2>6. First \in DOMAIN Lowered.pivots /\ First \in Nat /\ KeysOf(e) \subseteq Between(Lowered, First)
    BY <2>1, <2>4, FirstIs
  <2>7. c \in DOMAIN nodes /\ \E q \in DOMAIN Me.pivots : c = Me.pivots[q]
    BY <2>5, <2>6 DEF IsNode
  <2>8. Me = nodes[i]
    BY DEF Me
  <2>9. c # i
    BY <2>1, <2>7, <2>8, TopFacts, ChildIsNew DEF Top
  <2> HIDE DEF f, c
  <2>10. IsFrame(f) /\ IsFrame(Frame(c, e))
    <3>1. IsFrame(f)
      BY <2>2, <2>6, NoElementsIs, FrameRecord DEF IsFrame
    <3> QED
      BY <3>1, <2>2, <2>7, NullIsNoValue DEF IsFrame, Frame
  <2>11. /\ DOMAIN nodes' = DOMAIN nodes /\ nodes'[i] = Lowered
         /\ \A j \in DOMAIN nodes : j # i => nodes'[j] = nodes[j]
         /\ IsFunction(nodes')
    BY <2>1, <2>2, HeapSame, ExceptIs
  <2>12. /\ DOMAIN came' = DOMAIN nodes /\ IsFunction(came')
         /\ \A j \in DOMAIN nodes : IsCame(came'[j])
         /\ \A j \in DOMAIN nodes : j # c => came'[j] = came[j]
         /\ DOMAIN came'[c] = DOMAIN came[c] \cup KeysOf(e)
    BY <2>1, <2>2, <2>7, CameGains
  <2>13. HeapTyped'
    <3>1. dirty' \subseteq DOMAIN nodes
      BY <2>1, <2>2, TouchedIs
    <3>2. IsSeq(stack') /\ \A g \in DOMAIN stack' : IsFrame(stack'[g])
      BY <2>1, <2>3, <2>10, FramesKept
    <3>3. \A j \in DOMAIN nodes : IsNode(nodes'[j])
      BY <2>5, <2>11, HeapSame
    <3> QED
      BY <2>1, <2>11, <2>12, <3>1, <3>2, <3>3, HeapKept
  <2>14. IsTree'
    BY <2>1, <2>2, <2>5, <2>8, <2>11, TreeKept
  <2>15. KeysOf(e) \subseteq DOMAIN came[i]
    BY <2>1, TopFacts DEF PendingWithinPivots, Top
  <2>16. KeysWithinPivots'
    <3>1. DOMAIN Lowered.pivots \cup KeysOf(Lowered.elements) \subseteq DOMAIN came[i]
      BY <2>2, <2>5, <2>8 DEF KeysWithinPivots
    <3>2. \A k \in KeysOf(Lowered.elements) : ~BelowPivots(Lowered.pivots, k)
      BY <2>5
    <3>3. \A j \in DOMAIN nodes : DOMAIN came[j] \subseteq DOMAIN came'[j]
      BY <2>7, <2>12
    <3>4. ASSUME NEW j \in DOMAIN nodes, NEW p \in DOMAIN nodes'[j].pivots
          PROVE  DOMAIN came'[nodes'[j].pivots[p]] \ DOMAIN came[nodes'[j].pivots[p]]
                   \subseteq DOMAIN came'[j] \cap Between(nodes'[j], p)
      <4>1. CASE nodes'[j].pivots[p] = c
        <5>1. i = j /\ First = p
          <6>1. /\ nodes'[i].pivots[First] = c /\ First \in DOMAIN nodes'[i].pivots
                /\ i \in DOMAIN nodes' /\ j \in DOMAIN nodes'
            BY <2>2, <2>6, <2>11 DEF c
          <6> QED
            BY <2>14, <4>1, <6>1 DEF IsTree
        <5>2. DOMAIN came'[i] = DOMAIN came[i]
          BY <2>2, <2>9, <2>12
        <5> QED
          BY <2>6, <2>11, <2>12, <2>15, <4>1, <5>1, <5>2
      <4>2. CASE nodes'[j].pivots[p] # c
        <5>1. nodes'[j].pivots[p] \in DOMAIN nodes
          BY <2>13, <2>11 DEF HeapTyped, IsNode
        <5> QED
          BY <2>12, <4>2, <5>1
      <4> QED
        BY <4>1, <4>2
    <3> QED
      BY <2>2, <2>5, <2>8, <2>11, <3>1, <3>2, <3>3, <3>4, WithinKept
  <2>17. IsStack'
    <3>1. OthersKept
      BY <2>11 DEF OthersKept
    <3>2. nodes'[i] = Lowered /\ c = Lowered.pivots[First]
      BY <2>11 DEF c
    <3> QED
      BY <1>2, <2>1, <2>2, <2>3, <2>4, <2>6, <2>7, <2>8, <3>1, <3>2, StackCalls
  <2>18. PendingWithinPivots'
    <3>1. stack' # << >> /\ Frame(c, e) = stack'[Len(stack')]
      BY <2>3 DEF Called
    <3> QED
      BY <2>12, <2>17, <3>1, PendingKept DEF Frame
  <2>19. LeavesHoldInserts' /\ CallsTyped'
    BY <2>1, <2>5, <2>11 DEF LeavesHoldInserts, CallsTyped
  <2> QED
    BY <2>13, <2>14, <2>16, <2>17, <2>18, <2>19
<1> QED
  BY <1>1, <1>2

LEMMA ApplyNextKeeps ==
  ASSUME TreeInv, ApplyNext
  PROVE  TreeInv'
<1> DEFINE i == Top.node
           e == Top.elts
           m == Earliest(DOMAIN e)
           n == Apply(Me, m, e[m])
           rest == Without(e, {m})
           f == [Top EXCEPT !.elts = Without(@, {m})]
<1> USE DEF TreeInv
<1>1. /\ stack # << >> /\ Top.at = "apply" /\ e # NoElements
      /\ nodes' = [nodes EXCEPT ![i] = Apply(@, m, e[m])] /\ stack' = Become(f)
      /\ UNCHANGED <<root, next_id, dirty, came, ops, expected>>
  BY DEF ApplyNext, At, callVars, historyVars
<1>2. /\ IsFrameRecord(f) /\ f.node = i /\ f.at = "apply" /\ f.elts = rest
      /\ f.first = Top.first /\ IsFrame(Top) /\ i \in DOMAIN nodes /\ IsElements(e)
      /\ Me = nodes[i]
  BY <1>1, TopFacts DEF IsFrameRecord, Me
<1>3. Became(f)
  BY <1>1, BecomeStack
<1>4. m \in DOMAIN e /\ m \in MessageKeys /\ e[m] \in Message /\ m[1] \in KeysOf(e)
  <2>1. DOMAIN e \in SUBSET (Nat \X Nat) /\ DOMAIN e # {}
    BY <1>1, <1>2, ElementFacts, NothingLeft
  <2>2. m \in DOMAIN e
    BY <2>1, EarliestIs
  <2> HIDE DEF m, e
  <2> QED
    BY <1>2, <2>2 DEF IsElements, KeysOf
<1>5. nodes' = [nodes EXCEPT ![i] = n]
  BY <1>1, <1>2
<1>6. /\ IsRecord(nodes[i]) /\ IsNode(nodes[i]) /\ IsElements(nodes[i].elements)
  BY <1>2, NodeFacts, HeapSame
<1>7. /\ n = [pivots |-> nodes[i].pivots, elements |-> n.elements]
      /\ IsElements(n.elements) /\ DOMAIN n.elements \subseteq DOMAIN nodes[i].elements \cup {m}
      /\ is_leaf(nodes[i]) /\ ProperLeaf(nodes[i]) => ProperLeaf(n)
  <2> HIDE DEF m, e
  <2> QED
    BY <1>2, <1>4, <1>6, ApplyTyped
<1>8. IsElements(rest) /\ DOMAIN rest \subseteq DOMAIN e
  <2>1. DOMAIN rest = DOMAIN e \ {m} /\ (\A y \in DOMAIN e \ {m} : rest[y] = e[y]) /\ IsFunction(rest)
    BY WithoutIs
  <2> HIDE DEF rest, m, e
  <2>2. rest = [y \in DOMAIN e \ {m} |-> e[y]]
    BY <2>1 DEF IsFunction
  <2> QED
    BY <1>2, <2>1, <2>2, SomeElements
<1> HIDE DEF f, n, rest, m
<1>9. IsFrame(f)
  BY <1>2, <1>8, FrameRecord DEF IsFrame
<1>10. n.pivots = nodes[i].pivots /\ IsNode(n)
  <2>1. n.pivots = nodes[i].pivots
    BY <1>7
  <2> QED
    BY <1>6, <1>7, <2>1 DEF IsNode
<1>11. /\ DOMAIN nodes' = DOMAIN nodes /\ nodes'[i] = n
       /\ \A j \in DOMAIN nodes : j # i => nodes'[j] = nodes[j]
       /\ IsFunction(nodes')
  BY <1>5, <1>2, HeapSame, ExceptIs
<1>12. HeapTyped'
  <2>1. IsSeq(stack') /\ \A g \in DOMAIN stack' : IsFrame(stack'[g])
    BY <1>1, <1>3, <1>9, FramesKept
  <2>2. \A j \in DOMAIN nodes : IsNode(nodes'[j])
    BY <1>10, <1>11, HeapSame
  <2> QED
    BY <1>1, <1>11, <2>1, <2>2, HeapSame, HeapKept
<1>13. IsTree'
  <2>1. \A p, q \in DOMAIN n.pivots : n.pivots[p] = n.pivots[q] => p = q
    BY <1>2, <1>10, OneWay
  <2> QED
    BY <1>1, <1>2, <1>10, <1>11, <2>1, TreeKept
<1>14. KeysOf(e) \subseteq DOMAIN came[i]
       /\ (~is_leaf(nodes[i]) => \A k \in KeysOf(e) : ~BelowPivots(nodes[i].pivots, k))
  BY <1>1, TopFacts DEF PendingWithinPivots, Top
<1>15. is_leaf(n) <=> is_leaf(nodes[i])
  BY <1>10 DEF is_leaf
<1>16. KeysOf(n.elements) \subseteq KeysOf(nodes[i].elements) \cup {m[1]}
  BY <1>7 DEF KeysOf
<1>17. KeysWithinPivots'
  <2>1. DOMAIN n.pivots \cup KeysOf(n.elements) \subseteq DOMAIN came[i]
    BY <1>2, <1>4, <1>10, <1>14, <1>16 DEF KeysWithinPivots
  <2>2. ~is_leaf(n) => \A k \in KeysOf(n.elements) : ~BelowPivots(n.pivots, k)
    BY <1>2, <1>4, <1>10, <1>14, <1>15, <1>16 DEF KeysWithinPivots
  <2>3. \A p : Between(n, p) = Between(nodes[i], p)
    BY <1>10 DEF Between
  <2>4. \A j \in DOMAIN nodes : \A p \in DOMAIN nodes'[j].pivots :
           DOMAIN came'[nodes'[j].pivots[p]] \ DOMAIN came[nodes'[j].pivots[p]] = {}
    BY <1>1
  <2> QED
    BY <1>1, <1>2, <1>10, <1>11, <2>1, <2>2, <2>3, <2>4, WithinKept
<1>18. IsStack'
  <2>1. OthersKept
    BY <1>11 DEF OthersKept
  <2> QED
    BY <1>1, <1>2, <1>3, <2>1, StackGoesOn
<1>19. PendingWithinPivots'
  <2>1. stack' # << >> /\ f = stack'[Len(stack')]
    BY <1>3 DEF Became
  <2>2. KeysOf(rest) \subseteq KeysOf(e)
    BY <1>8 DEF KeysOf
  <2> QED
    BY <1>1, <1>2, <1>10, <1>11, <1>14, <1>15, <1>18, <2>1, <2>2, PendingKept
<1>20. LeavesHoldInserts'
  BY <1>2, <1>7, <1>11, <1>15 DEF LeavesHoldInserts
<1>21. CallsTyped'
  BY <1>1 DEF CallsTyped
<1> QED
  BY <1>12, <1>13, <1>17, <1>18, <1>19, <1>20, <1>21

\* The messages for a child.
LEMMA BatchIs ==
  ASSUME HeapTyped, KeysWithinPivots, NEW i \in DOMAIN nodes, NEW p \in DOMAIN nodes[i].pivots,
         NEW b, b = Restrict(nodes[i].elements, ElementsFor(nodes[i], p))
  PROVE  /\ IsElements(b) /\ DOMAIN b = ElementsFor(nodes[i], p)
         /\ \A m \in DOMAIN b : b[m] = nodes[i].elements[m]
         /\ KeysOf(b) \subseteq DOMAIN came[i] \cap Between(nodes[i], p)
<1> DEFINE n == nodes[i]
           D == ElementsFor(n, p)
<1>1. IsElements(n.elements) /\ KeysOf(n.elements) \subseteq DOMAIN came[i]
  BY NodeFacts DEF KeysWithinPivots
<1>2. D \in SUBSET DOMAIN n.elements
  BY DEF ElementsFor
<1>3. \A m \in D : /\ m[1] \in Keys /\ p <= m[1] /\ \A q \in DOMAIN n.pivots : p < q => m[1] < q
                   /\ m[1] \in KeysOf(n.elements)
  BY <1>1, ElementFacts DEF ElementsFor, KeysOf
<1> HIDE DEF D
<1>4. D \cap DOMAIN n.elements = D /\ DOMAIN n.elements \cap D = D
  BY <1>2
<1>5. b = [m \in D |-> n.elements[m]]
  BY <1>4 DEF Restrict, D
<1>6. DOMAIN b = D /\ \A m \in DOMAIN b : b[m] = n.elements[m]
  BY <1>5
<1>7. IsElements(b)
  BY <1>1, <1>2, <1>5, SomeElements
<1>8. KeysOf(b) \subseteq DOMAIN came[i] \cap Between(n, p)
  BY <1>1, <1>3, <1>6 DEF KeysOf, Between
<1> QED
  BY <1>6, <1>7, <1>8 DEF D

LEMMA FlushChildIs ==
  ASSUME TreeInv, FlushChild
  PROVE  /\ stack # << >> /\ Top.at = "apply" /\ Top.elts = NoElements
         /\ Top.node \in DOMAIN nodes /\ Me = nodes[Top.node] /\ ~is_leaf(Me)
         /\ Fullest(Me) \in DOMAIN Me.pivots /\ Me.pivots[Fullest(Me)] \in DOMAIN nodes
         /\ DOMAIN BatchFor(Fullest(Me)) # {}
         /\ Calls([Top EXCEPT !.at = "child", !.pivot = Fullest(Me)],
                  Me.pivots[Fullest(Me)], BatchFor(Fullest(Me)))
         /\ UNCHANGED <<nodes, root, next_id, dirty, ops, expected, next_timestamp, faults>>
<1> DEFINE p == Fullest(Me)
<1> USE DEF TreeInv
<1>1. /\ stack # << >> /\ Top.at = "apply" /\ Top.elts = NoElements /\ ~is_leaf(Me)
      /\ \E in_memory \in InMemory(Me.pivots[p]) : MayPay(in_memory)
      /\ Calls([Top EXCEPT !.at = "child", !.pivot = p], Me.pivots[p], BatchFor(p))
      /\ UNCHANGED <<nodes, root, next_id, dirty, ops, expected, next_timestamp, faults>>
  BY DEF FlushChild, At, FullBuffer, treeVars, callVars
<1>2. Top.node \in DOMAIN nodes /\ Me = nodes[Top.node]
  BY <1>1, TopFacts DEF Me
<1>3. /\ DOMAIN Me.pivots \subseteq Nat /\ IsElements(Me.elements) /\ IsFiniteSet(DOMAIN Me.elements)
      /\ \A q \in DOMAIN Me.pivots : Me.pivots[q] \in DOMAIN nodes
  BY <1>2, NodeFacts, ElementFacts
<1>4. p \in DOMAIN Me.pivots
  BY <1>1, <1>3, FullestIs
<1>5. ElementsFor(Me, p) # {}
  <2>1. PICK in_memory : Pays(Cardinality(ElementsFor(Me, p)), in_memory)
    BY <1>1 DEF MayPay
  <2>2. ~Pays(0, in_memory)
    <3>1. min_flush_size \in Nat /\ min_flush_size \div 2 \in Nat
      BY FlushSizeAssumption
    <3> QED
      BY <3>1 DEF Pays
  <2> HIDE DEF p
  <2> QED
    BY <2>1, <2>2, FS_EmptySet
<1>6. DOMAIN BatchFor(p) = ElementsFor(Me, p)
  <2> HIDE DEF p
  <2> QED
    BY <1>2, <1>4, BatchIs DEF BatchFor
<1> QED
  BY <1>1, <1>2, <1>3, <1>4, <1>5, <1>6

LEMMA FlushChildKeeps ==
  ASSUME TreeInv, FlushChild
  PROVE  TreeInv'
<1> DEFINE p == Fullest(Me)
           f == [Top EXCEPT !.at = "child", !.pivot = p]
           i == Top.node
           c == Me.pivots[p]
           e == BatchFor(p)
<1> USE DEF TreeInv
<1>1. /\ stack # << >> /\ Top.at = "apply" /\ Top.elts = NoElements
      /\ i \in DOMAIN nodes /\ Me = nodes[i] /\ ~is_leaf(Me)
      /\ p \in DOMAIN nodes[i].pivots /\ c = nodes[i].pivots[p] /\ c \in DOMAIN nodes
      /\ DOMAIN e # {}
      /\ stack' = Append(Become(f), Frame(c, e))
      /\ came' = [came EXCEPT ![c] = Arrived(@, e)]
      /\ UNCHANGED <<nodes, root, next_id, dirty, ops, expected>>
  BY FlushChildIs DEF Calls
<1>2. /\ IsFrameRecord(f) /\ f.node = i /\ f.at = "child" /\ f.elts = NoElements
      /\ f.first = Top.first /\ f.pivot = p /\ IsFrame(Top)
  BY <1>1, TopFacts DEF IsFrameRecord
<1>3. Called(f, Frame(c, e))
  BY <1>1, CallStack
<1> HIDE DEF f, c, p
<1>4. /\ IsElements(e) /\ KeysOf(e) \subseteq DOMAIN came[i] \cap Between(nodes[i], p)
      /\ e # NoElements
  <2>1. e = Restrict(nodes[i].elements, ElementsFor(nodes[i], p))
    BY <1>1 DEF BatchFor
  <2>2. IsElements(e) /\ KeysOf(e) \subseteq DOMAIN came[i] \cap Between(nodes[i], p)
    BY <1>1, <2>1, BatchIs
  <2> QED
    BY <1>1, <2>2, NothingLeft
<1> HIDE DEF e
<1>5. c # i
  <2>1. Len(stack) \in DOMAIN stack
    BY <1>1, TopFacts
  <2> QED
    BY <1>1, <2>1, ChildIsNew DEF Top
<1>6. IsFrame(f) /\ IsFrame(Frame(c, e))
  <2>1. IsFrame(f)
    BY <1>2, NoElementsIs, FrameRecord DEF IsFrame
  <2> QED
    BY <2>1, <1>1, <1>4, NullIsNoValue DEF IsFrame, Frame
<1>7. /\ DOMAIN came' = DOMAIN nodes /\ IsFunction(came')
      /\ \A j \in DOMAIN nodes : IsCame(came'[j])
      /\ \A j \in DOMAIN nodes : j # c => came'[j] = came[j]
      /\ DOMAIN came'[c] = DOMAIN came[c] \cup KeysOf(e)
  BY <1>1, <1>4, CameGains
<1>8. HeapTyped'
  <2>1. IsSeq(stack') /\ \A g \in DOMAIN stack' : IsFrame(stack'[g])
    BY <1>1, <1>3, <1>6, FramesKept
  <2> QED
    BY <1>1, <1>7, <2>1, HeapSame, HeapKept
<1>9. IsTree'
  BY <1>1 DEF IsTree
<1>10. KeysWithinPivots'
  <2>1. \A j \in DOMAIN nodes : DOMAIN came[j] \subseteq DOMAIN came'[j]
    BY <1>1, <1>7
  <2>2. ASSUME NEW j \in DOMAIN nodes, NEW q \in DOMAIN nodes'[j].pivots
        PROVE  DOMAIN came'[nodes'[j].pivots[q]] \ DOMAIN came[nodes'[j].pivots[q]]
                 \subseteq DOMAIN came'[j] \cap Between(nodes'[j], q)
    <3>1. nodes'[j].pivots[q] = nodes[j].pivots[q] /\ q \in DOMAIN nodes[j].pivots
          /\ nodes[j].pivots[q] \in DOMAIN nodes
      BY <1>1, <2>2, NodeFacts
    <3>2. CASE nodes[j].pivots[q] = c
      <4>1. j = i /\ q = p
        BY <1>1, <3>1, <3>2, OneWay
      <4>2. DOMAIN came'[i] = DOMAIN came[i]
        BY <1>1, <1>5, <1>7
      <4>3. Between(nodes'[i], p) = Between(nodes[i], p)
        BY <1>1
      <4> QED
        BY <1>4, <1>7, <3>1, <3>2, <4>1, <4>2, <4>3
    <3>3. CASE nodes[j].pivots[q] # c
      BY <1>7, <3>1, <3>3
    <3> QED
      BY <3>2, <3>3
  <2>3. /\ DOMAIN nodes[i].pivots \cup KeysOf(nodes[i].elements) \subseteq DOMAIN came[i]
        /\ (~is_leaf(nodes[i]) => \A k \in KeysOf(nodes[i].elements) : ~BelowPivots(nodes[i].pivots, k))
    BY <1>1 DEF KeysWithinPivots
  <2> QED
    BY <1>1, <2>1, <2>2, <2>3, WithinKept
<1>11. IsStack'
  <2>1. OthersKept
    BY <1>1 DEF OthersKept
  <2> QED
    BY <1>1, <1>2, <1>3, <1>4, <2>1, StackCalls
<1>12. PendingWithinPivots'
  <2>1. stack' # << >> /\ Frame(c, e) = stack'[Len(stack')]
    BY <1>3 DEF Called
  <2> QED
    BY <1>7, <1>11, <2>1, PendingKept DEF Frame
<1>13. LeavesHoldInserts' /\ CallsTyped'
  BY <1>1 DEF LeavesHoldInserts, CallsTyped
<1> QED
  BY <1>8, <1>9, <1>10, <1>11, <1>12, <1>13

-----------------------------------------------------------------------------
(* The steps up.                                                           *)

LEMMA FinishedIs ==
  ASSUME HeapTyped, IsStack, Finished
  PROVE  /\ stack # << >> /\ Top.elts = NoElements
         /\ Top.at \in {"apply", "done"}
BY DEF Finished, At, IsStack

\* The messages that are with the child leave the buffer.
LEMMA AfterBatchIs ==
  ASSUME HeapTyped, IsTree, IsStack, stack # << >>, Len(stack) > 1
  PROVE  LET n == nodes[Caller.node]
             a == AfterBatch(n)
         IN /\ IsNode(a) /\ a.pivots = n.pivots
            /\ DOMAIN a.elements = DOMAIN n.elements \ ElementsFor(n, Caller.pivot)
            /\ \A m \in DOMAIN a.elements : a.elements[m] = n.elements[m]
            /\ ElementsFor(a, Caller.pivot) = {}
<1> DEFINE n == nodes[Caller.node]
           a == AfterBatch(n)
           p == Caller.pivot
           D == DOMAIN n.elements \ ElementsFor(n, p)
<1>1. /\ Caller.node \in DOMAIN nodes /\ Caller.at \in {"child", "through"}
      /\ Caller.at = "through" => ElementsFor(n, p) = {}
  BY OneParent
<1>2. IsNode(n) /\ IsRecord(n) /\ IsElements(n.elements)
  BY <1>1, HeapSame, NodeFacts
<1>3. /\ IsRecord(a) /\ a.pivots = n.pivots /\ DOMAIN a.elements = D /\ IsFunction(a.elements)
      /\ \A m \in D : a.elements[m] = n.elements[m]
  <2>1. CASE Caller.at = "child"
    <3> DEFINE w == Without(n.elements, ElementsFor(n, p))
    <3>1. DOMAIN w = D /\ IsFunction(w) /\ \A m \in D : w[m] = n.elements[m]
      BY WithoutIs
    <3>2. a = [n EXCEPT !.elements = w]
      BY <2>1 DEF AfterBatch
    <3> HIDE DEF w, n, D, a
    <3>3. IsRecord(a) /\ a.pivots = n.pivots /\ a.elements = w
      BY <1>2, <3>2 DEF IsRecord
    <3> QED
      BY <3>1, <3>3
  <2>2. CASE Caller.at # "child"
    <3>1. a = n /\ D = DOMAIN n.elements
      BY <1>1, <2>2 DEF AfterBatch
    <3>2. IsFunction(n.elements)
      BY <1>2, ElementFacts DEF IsFunction
    <3> HIDE DEF a, D
    <3> QED
      BY <1>2, <3>1, <3>2
  <2> QED
    BY <2>1, <2>2
<1> HIDE DEF a
<1>4. IsElements(a.elements)
  <2>1. a.elements = [m \in D |-> n.elements[m]]
    BY <1>3 DEF IsFunction
  <2>2. D \in SUBSET DOMAIN n.elements
    OBVIOUS
  <2> HIDE DEF D, n
  <2> QED
    BY <1>2, <2>1, <2>2, SomeElements
<1>5. IsNode(a)
  BY <1>2, <1>3, <1>4 DEF IsNode, IsRecord
<1>6. ElementsFor(a, p) = {}
  BY <1>3 DEF ElementsFor
<1> QED
  BY <1>3, <1>5, <1>6 DEF a

ResumedAt == IF Caller.at = "child" THEN "apply" ELSE "done"

LEMMA ResumedIs ==
  ASSUME HeapTyped, IsTree, IsStack, stack # << >>, Len(stack) > 1, NEW v \in Nat \cup {NULL}
  PROVE  LET f == [Resumed EXCEPT !.first = v]
         IN /\ IsFrame(Resumed) /\ Resumed.node = Caller.node /\ Resumed.at = ResumedAt
            /\ Resumed.elts = NoElements /\ Resumed.first = Caller.first
            /\ IsFrame(f) /\ f.node = Caller.node /\ f.at = ResumedAt
            /\ f.elts = NoElements /\ f.first = v
<1> DEFINE r == Resumed
           f == [r EXCEPT !.first = v]
<1>1. IsFrame(Caller) /\ Caller.elts = NoElements
  BY OneParent
<1>2. IsFrameRecord(Caller)
  BY <1>1, FrameRecord DEF IsFrame
<1>3. IsFrameRecord(r) /\ r.node = Caller.node /\ r.at = ResumedAt /\ r.elts = Caller.elts
      /\ r.first = Caller.first
  BY <1>2 DEF Resumed, ResumedAt, IsFrameRecord
<1> HIDE DEF r
<1>4. IsFrameRecord(f) /\ f.node = Caller.node /\ f.at = ResumedAt /\ f.elts = Caller.elts
      /\ f.first = v
  BY <1>3 DEF IsFrameRecord
<1> HIDE DEF f
<1>5. IsFrame(r) /\ IsFrame(f)
  BY <1>1, <1>3, <1>4, FrameRecord DEF IsFrame, ResumedAt
<1> QED
  BY <1>1, <1>3, <1>4, <1>5 DEF r, f

LEMMA ReturnWholeKeeps ==
  ASSUME TreeInv, ReturnWhole
  PROVE  TreeInv'
<1> DEFINE i == Caller.node
           n == nodes[i]
           a == AfterBatch(n)
           f == Resumed
<1> USE DEF TreeInv
<1>1. /\ stack # << >> /\ Len(stack) > 1 /\ Top.node \in DOMAIN nodes
      /\ nodes' = [nodes EXCEPT ![i] = AfterBatch(@)]
      /\ stack' = Return(f) /\ dirty' = Touched({Top.node})
      /\ UNCHANGED <<root, next_id, came, ops, expected>>
  BY FinishedIs, TopFacts DEF ReturnWhole, callVars, historyVars
<1>2. i \in DOMAIN nodes /\ Caller.pivot \in DOMAIN n.pivots
  BY <1>1, OneParent
<1>3. nodes' = [nodes EXCEPT ![i] = a]
  BY <1>1
<1>4. /\ IsNode(a) /\ a.pivots = n.pivots
      /\ DOMAIN a.elements \subseteq DOMAIN n.elements
  BY <1>1, AfterBatchIs
<1>5. IsFrame(f) /\ f.node = i /\ f.at \in {"apply", "done"} /\ f.elts = NoElements
  BY <1>1, ResumedIs DEF ResumedAt
<1>6. Returned(f)
  BY <1>1, ReturnStack
<1> HIDE DEF f, a
<1>7. /\ DOMAIN nodes' = DOMAIN nodes /\ nodes'[i] = a
      /\ \A j \in DOMAIN nodes : j # i => nodes'[j] = nodes[j]
      /\ IsFunction(nodes')
  BY <1>2, <1>3, HeapSame, ExceptIs
<1>8. HeapTyped'
  <2>1. dirty' \subseteq DOMAIN nodes
    BY <1>1, TouchedIs
  <2>2. IsSeq(stack') /\ \A g \in DOMAIN stack' : IsFrame(stack'[g])
    BY <1>1, <1>5, <1>6, FramesKept
  <2>3. \A j \in DOMAIN nodes : IsNode(nodes'[j])
    BY <1>4, <1>7, HeapSame
  <2> QED
    BY <1>1, <1>7, <2>1, <2>2, <2>3, HeapSame, HeapKept
<1>9. IsTree'
  <2>1. \A p, q \in DOMAIN a.pivots : a.pivots[p] = a.pivots[q] => p = q
    BY <1>2, <1>4, OneWay
  <2> QED
    BY <1>1, <1>2, <1>4, <1>7, <2>1, TreeKept
<1>10. KeysWithinPivots'
  <2>1. KeysOf(a.elements) \subseteq KeysOf(n.elements)
    BY <1>4 DEF KeysOf
  <2>2. /\ DOMAIN n.pivots \cup KeysOf(n.elements) \subseteq DOMAIN came[i]
        /\ (~is_leaf(n) => \A k \in KeysOf(n.elements) : ~BelowPivots(n.pivots, k))
    BY <1>2 DEF KeysWithinPivots
  <2>3. DOMAIN a.pivots \cup KeysOf(a.elements) \subseteq DOMAIN came[i]
    BY <1>4, <2>1, <2>2
  <2>4. ~is_leaf(a) => \A k \in KeysOf(a.elements) : ~BelowPivots(a.pivots, k)
    BY <1>4, <2>1, <2>2 DEF is_leaf
  <2>5. \A p : Between(a, p) = Between(n, p)
    BY <1>4 DEF Between
  <2>6. \A p \in DOMAIN a.pivots : \E q \in DOMAIN nodes[i].pivots :
           a.pivots[p] = nodes[i].pivots[q] /\ Between(nodes[i], q) \subseteq Between(a, p)
    BY <1>4, <2>5
  <2> QED
    BY <1>1, <1>2, <1>7, <2>3, <2>4, <2>6, WithinKept
<1>11. IsStack'
  BY <1>1, <1>5, <1>6, <1>7, StackReturns
<1>12. PendingWithinPivots'
  <2>1. stack' # << >> /\ f = stack'[Len(stack')]
    BY <1>6 DEF Returned
  <2> QED
    BY <1>5, <1>11, <2>1, NoElementsIs, PendingKept
<1>13. LeavesHoldInserts'
  <2>1. ~is_leaf(a)
    BY <1>2, <1>4 DEF is_leaf
  <2> QED
    BY <1>7, <2>1 DEF LeavesHoldInserts
<1>14. CallsTyped'
  BY <1>1 DEF CallsTyped
<1> QED
  BY <1>8, <1>9, <1>10, <1>11, <1>12, <1>13, <1>14

LEMMA ReturnWholeFailsKeeps ==
  ASSUME TreeInv, ReturnWholeFails
  PROVE  TreeInv'
<1>1. /\ UNCHANGED <<nodes, root, next_id, stack, came, ops, expected>>
      /\ dirty' \subseteq DOMAIN nodes
  BY HeapSame DEF TreeInv, ReturnWholeFails, treeVars, callVars
<1> QED
  BY <1>1, UnchangedKeeps

LEMMA EmptyIsSeq == IsSeq(<< >>) /\ DOMAIN << >> = {} /\ Len(<< >>) = 0
BY DEF IsSeq

\* The stack is empty and the nodes are as they were, or not.
LEMMA EndKeeps ==
  ASSUME stack' = << >>
  PROVE  IsStack' /\ PendingWithinPivots'
<1>1. DOMAIN stack' = {}
  BY EmptyIsSeq
<1> QED
  BY <1>1 DEF IsStack, PendingWithinPivots

LEMMA EndUpsertKeeps ==
  ASSUME TreeInv, EndUpsert
  PROVE  TreeInv'
<1> USE DEF TreeInv
<1>1. /\ stack' = << >>
      /\ UNCHANGED <<nodes, root, next_id, dirty, came, ops, expected>>
  BY DEF EndUpsert, treeVars, callVars, historyVars
<1>2. IsStack' /\ PendingWithinPivots'
  BY <1>1, EndKeeps
<1>3. HeapTyped'
  <2>1. IsSeq(stack') /\ \A g \in DOMAIN stack' : IsFrame(stack'[g])
    BY <1>1, EmptyIsSeq
  <2> QED
    BY <1>1, <2>1, HeapSame, HeapKept
<1>4. IsTree' /\ KeysWithinPivots' /\ LeavesHoldInserts' /\ CallsTyped'
  BY <1>1 DEF IsTree, KeysWithinPivots, LeavesHoldInserts, CallsTyped
<1> QED
  BY <1>2, <1>3, <1>4

-----------------------------------------------------------------------------
(* Calls.                                                                  *)

LEMMA MeaningIs ==
  ASSUME NEW old \in Value \cup {NULL}, NEW op \in {INSERT, DELETE, UPDATE}, NEW v \in Value
  PROVE  Meaning(old, op, v) \in Value \cup {NULL}
<1>1. default_value \in Value
  BY DEF default_value, Value
<1>2. \A u \in Value : u \o v \in Value
  BY ConcatProperties DEF Value
<1> QED
  BY <1>1, <1>2 DEF Meaning

\* What a call sends.
Sends(op, k, ts, m, msg, elts) ==
  /\ msg = [op |-> op, val |-> IF op = DELETE THEN default_value ELSE <<ops + 1>>,
            means |-> msg.means]
  /\ msg.means = Meaning(expected[k], op, msg.val)
  /\ m = <<k, ts>> /\ elts = [x \in {m} |-> msg]

Begins(op, k, ts, m, msg, elts) ==
  /\ Sends(op, k, ts, m, msg, elts)
  /\ IsElements(elts) /\ DOMAIN elts = {m} /\ elts[m] = msg /\ KeysOf(elts) = {k}
  /\ stack = << >> /\ faults = {} /\ stack' = <<Frame(root, elts)>>
  /\ came' = [came EXCEPT ![root] = Arrived(@, elts)]
  /\ expected' = [expected EXCEPT ![k] = msg.means]
  /\ ops < MaxOps /\ ops' = ops + 1
  /\ UNCHANGED <<nodes, root, next_id, dirty, faults>>

LEMMA BeginIs ==
  ASSUME TreeInv, NEW op \in {INSERT, DELETE, UPDATE}, NEW k \in Keys, NEW ts \in Timestamps,
         Begin(op, k, ts)
  PROVE  \E m \in MessageKeys, msg \in Message : \E elts : Begins(op, k, ts, m, msg, elts)
<1> DEFINE val  == IF op = DELETE THEN default_value ELSE <<ops + 1>>
           msg  == [op |-> op, val |-> val, means |-> Meaning(expected[k], op, val)]
           m    == <<k, ts>>
           elts == Put(NoElements, m, msg)
<1>1. /\ stack = << >> /\ faults = {} /\ stack' = <<Frame(root, elts)>>
      /\ came' = [came EXCEPT ![root] = Arrived(@, elts)]
      /\ expected' = [expected EXCEPT ![k] = msg.means]
      /\ ops < MaxOps /\ ops' = ops + 1
      /\ UNCHANGED <<nodes, root, next_id, dirty, faults>>
  BY DEF Begin, treeVars
<1>2. ops \in 0..MaxOps /\ MaxOps \in Nat /\ expected[k] \in Value \cup {NULL}
  BY MaxOpsAssumption DEF TreeInv, CallsTyped
<1>3. val \in Value
  <2>1. ops + 1 \in 1..MaxOps
    BY <1>1, <1>2
  <2>2. <<ops + 1>> \in Seq(1..MaxOps)
    BY <2>1
  <2>3. default_value \in Seq(1..MaxOps)
    BY DEF default_value
  <2> QED
    BY <2>2, <2>3 DEF Value
<1>4. msg \in Message
  <2> HIDE DEF val
  <2> QED
    BY <1>2, <1>3, MeaningIs DEF Message
<1>5. m \in MessageKeys /\ m[1] = k
  BY DEF MessageKeys
<1>6. Sends(op, k, ts, m, msg, [x \in {m} |-> msg])
  BY DEF Sends
<1>7. elts = [x \in {m} |-> msg]
  <2> HIDE DEF m, msg
  <2>1. DOMAIN NoElements \cup {m} = {m}
    BY NoElementsIs
  <2>2. elts = [y \in {m} |-> IF y = m THEN msg ELSE NoElements[y]]
    BY <2>1 DEF Put
  <2> QED
    BY <2>2
<1> HIDE DEF msg, m, elts
<1>8. DOMAIN elts = {m} /\ elts[m] = msg
  BY <1>7
<1>9. IsElements(elts)
  <2>1. IsFiniteSet({m})
    BY FS_Singleton
  <2>2. elts \in [DOMAIN elts -> Message]
    BY <1>4, <1>7
  <2> QED
    BY <1>5, <1>8, <2>1, <2>2 DEF IsElements
<1>10. KeysOf(elts) = {k}
  BY <1>5, <1>8 DEF KeysOf
<1> QED
  BY <1>1, <1>4, <1>5, <1>6, <1>7, <1>8, <1>9, <1>10 DEF Begins

LEMMA BeginKeeps ==
  ASSUME TreeInv, NEW op \in {INSERT, DELETE, UPDATE}, NEW k \in Keys, NEW ts \in Timestamps,
         Begin(op, k, ts)
  PROVE  TreeInv'
<1>1. PICK m \in MessageKeys, msg \in Message : \E elts : Begins(op, k, ts, m, msg, elts)
  BY BeginIs
<1> USE DEF TreeInv
<1>2. PICK elts :
           /\ IsElements(elts) /\ DOMAIN elts = {m} /\ elts[m] = msg /\ KeysOf(elts) = {k}
           /\ stack = << >> /\ stack' = <<Frame(root, elts)>>
           /\ came' = [came EXCEPT ![root] = Arrived(@, elts)]
           /\ expected' = [expected EXCEPT ![k] = msg.means]
           /\ ops < MaxOps /\ ops' = ops + 1
           /\ UNCHANGED <<nodes, root, next_id, dirty>>
  BY <1>1 DEF Begins
<1>3. root \in DOMAIN nodes
  BY DEF HeapTyped
<1>4. /\ DOMAIN came' = DOMAIN nodes /\ IsFunction(came')
      /\ \A j \in DOMAIN nodes : IsCame(came'[j])
      /\ \A j \in DOMAIN nodes : j # root => came'[j] = came[j]
      /\ DOMAIN came'[root] = DOMAIN came[root] \cup {k}
  BY <1>2, <1>3, CameGains
<1> DEFINE h == Frame(root, elts)
<1>5. IsFrame(h) /\ h.node = root /\ h.at = "enter" /\ h.elts = elts /\ elts # NoElements
  BY <1>2, <1>3, NullIsNoValue, NothingLeft DEF IsFrame, Frame
<1> HIDE DEF h
<1>6. IsSeq(stack') /\ stack' # << >> /\ Len(stack') = 1 /\ DOMAIN stack' = {1} /\ stack'[1] = h
  <2>1. stack' = <<h>>
    BY <1>2 DEF h
  <2>2. stack' = [f \in 1..1 |-> stack'[f]] /\ DOMAIN stack' = 1..1 /\ stack'[1] = h
    BY <2>1
  <2>3. IsSeq(stack') /\ Len(stack') = 1
    BY <2>2, FunctionIsSeq
  <2>4. 1..1 = {1}
    OBVIOUS
  <2> QED
    BY <2>1, <2>2, <2>3, <2>4
<1>7. HeapTyped'
  BY <1>2, <1>4, <1>5, <1>6, HeapSame, HeapKept
<1>8. IsTree' /\ LeavesHoldInserts'
  BY <1>2 DEF IsTree, LeavesHoldInserts
<1>9. IsStack'
  BY <1>2, <1>5, <1>6 DEF IsStack, Top
<1>10. KeysWithinPivots'
  <2>1. \A j \in DOMAIN nodes : DOMAIN came[j] \subseteq DOMAIN came'[j]
    BY <1>3, <1>4
  <2>2. ASSUME NEW j \in DOMAIN nodes, NEW p \in DOMAIN nodes'[j].pivots
        PROVE  DOMAIN came'[nodes'[j].pivots[p]] \ DOMAIN came[nodes'[j].pivots[p]] = {}
    <3>1. nodes'[j].pivots[p] \in DOMAIN nodes /\ nodes'[j].pivots[p] # root
      BY <1>2, NodeFacts DEF IsTree
    <3> QED
      BY <1>4, <3>1
  <2>3. /\ DOMAIN nodes[root].pivots \cup KeysOf(nodes[root].elements) \subseteq DOMAIN came[root]
        /\ (~is_leaf(nodes[root]) =>
              \A x \in KeysOf(nodes[root].elements) : ~BelowPivots(nodes[root].pivots, x))
    BY <1>3 DEF KeysWithinPivots
  <2> QED
    BY <1>2, <1>3, <2>1, <2>2, <2>3, WithinKept
<1>11. PendingWithinPivots'
  BY <1>2, <1>4, <1>5, <1>6, <1>9, PendingKept
<1>12. CallsTyped'
  <2>1. msg.means \in Value \cup {NULL}
    BY DEF Message
  <2> QED
    BY <1>2, <2>1, MaxOpsAssumption DEF CallsTyped
<1> QED
  BY <1>7, <1>8, <1>9, <1>10, <1>11, <1>12

-----------------------------------------------------------------------------
(* A node splits.                                                          *)

LEMMA UnitsExist ==
  ASSUME TreeInv, Finished, TooLarge
  PROVE  Units(Me) # {}
<1> USE DEF TreeInv
<1>1. Top.node \in DOMAIN nodes /\ Me = nodes[Top.node]
  BY FinishedIs, TopFacts DEF Me
<1>2. CASE ~is_leaf(Me)
  BY <1>2 DEF Units, is_leaf
<1>3. CASE is_leaf(Me)
  <2>1. Size(Me) >= max_node_size
    BY <1>3 DEF TooLarge
  <2>2. Cardinality(DOMAIN Me.pivots) = 0
    BY <1>3, FS_EmptySet DEF is_leaf
  <2>3. DOMAIN Me.elements # {}
    <3>1. ASSUME DOMAIN Me.elements = {} PROVE FALSE
      <4>1. Cardinality(DOMAIN Me.elements) = 0
        BY <3>1, FS_EmptySet
      <4>2. Size(Me) = 0
        BY <2>2, <4>1 DEF Size
      <4> QED
        BY <2>1, <4>2, NodeSizeAssumption
    <3> QED
      BY <3>1
  <2> QED
    BY <1>3, <2>3 DEF Units, KeysOf
<1> QED
  BY <1>2, <1>3

\* What the parts of the node on top have.
IsPart(k) ==
  /\ IsNode(Parts[k])
  /\ is_leaf(Parts[k]) <=> is_leaf(Me)
  /\ DOMAIN Parts[k].pivots \cup KeysOf(Parts[k].elements) \subseteq DOMAIN Share(k)
  /\ ~is_leaf(Parts[k]) => \A j \in KeysOf(Parts[k].elements) : ~BelowPivots(Parts[k].pivots, j)
  /\ \A p \in DOMAIN Parts[k].pivots :
       /\ p \in DOMAIN Me.pivots /\ Parts[k].pivots[p] = Me.pivots[p]
       /\ DOMAIN came[Me.pivots[p]] \subseteq DOMAIN Share(k) \cap Between(Parts[k], p)
  /\ ProperLeaf(Me) => ProperLeaf(Parts[k])
  /\ \A m \in DOMAIN Parts[k].elements :
       m \in DOMAIN Me.elements /\ Parts[k].elements[m] = Me.elements[m]

\* Where the parts begin.
LEMMA CutsFacts ==
  ASSUME TreeInv, Finished, TooLarge
  PROVE  /\ stack # << >> /\ Top.node \in DOMAIN nodes /\ Me = nodes[Top.node]
         /\ DOMAIN Parts = Cuts(Me) /\ Cuts(Me) # {} /\ Cuts(Me) \in SUBSET Nat
         /\ Cuts(Me) \subseteq DOMAIN came[Top.node] /\ Cuts(Me) \subseteq Keys
         /\ Cuts(Me) \subseteq Units(Me)
         /\ DOMAIN Me.pivots \subseteq Nat /\ DOMAIN Me.elements \subseteq Nat \X Nat
<1> USE DEF TreeInv
<1>1. stack # << >> /\ Top.node \in DOMAIN nodes /\ Me = nodes[Top.node]
  BY FinishedIs, TopFacts DEF Me
<1>2. /\ DOMAIN Me.pivots \subseteq Nat /\ IsElements(Me.elements) /\ IsCame(came[Top.node])
  BY <1>1, NodeFacts
<1>3. DOMAIN Me.elements \subseteq Nat \X Nat
  BY <1>2, ElementFacts
<1>4. /\ Units(Me) \in SUBSET Nat /\ Cuts(Me) \in SUBSET Units(Me)
      /\ Min(Units(Me)) \in Cuts(Me)
  BY <1>2, <1>3, UnitsExist, CutsAre
<1>5. Units(Me) \subseteq DOMAIN came[Top.node]
  <2>1. DOMAIN Me.pivots \cup KeysOf(Me.elements) \subseteq DOMAIN came[Top.node]
    BY <1>1 DEF KeysWithinPivots
  <2> QED
    BY <2>1 DEF Units
<1>6. DOMAIN came[Top.node] \subseteq Keys
  BY <1>2 DEF IsCame
<1>7. DOMAIN Parts = Cuts(Me)
  BY SplitIs DEF Parts
<1> QED
  BY <1>1, <1>2, <1>3, <1>4, <1>5, <1>6, <1>7

LEMMA ShareIs ==
  ASSUME TreeInv, Finished, TooLarge, NEW k \in Cuts(Me)
  PROVE  /\ IsCame(Share(k))
         /\ DOMAIN Share(k) = {j \in DOMAIN came[Top.node] : k <= j /\ j \in PartOf(Cuts(Me), k)}
         /\ \A j \in DOMAIN Share(k) : Share(k)[j] = came[Top.node][j]
<1> DEFINE c == came[Top.node]
           D == {j \in DOMAIN c : k <= j /\ j \in PartOf(Cuts(Me), k)}
<1>1. Top.node \in DOMAIN nodes /\ DOMAIN Parts = Cuts(Me)
  BY CutsFacts
<1>2. IsCame(c)
  BY <1>1, NodeFacts DEF TreeInv
<1>3. D \subseteq DOMAIN c
  OBVIOUS
<1>4. Share(k) = Restrict(c, D)
  BY <1>1 DEF Share
<1> HIDE DEF D, c
<1>5. D \cap DOMAIN c = D /\ DOMAIN c \cap D = D
  BY <1>3
<1>6. Share(k) = [j \in D |-> c[j]]
  BY <1>4, <1>5 DEF Restrict
<1>7. IsCame(Share(k))
  <2>1. DOMAIN Share(k) = D /\ D \subseteq Keys
    BY <1>2, <1>3, <1>6 DEF IsCame
  <2>2. \A j \in D : c[j] \in [ts : Timestamps, means : Value \cup {NULL}]
    BY <1>2, <1>3 DEF IsCame
  <2> QED
    BY <1>6, <2>1, <2>2 DEF IsCame
<1> QED
  BY <1>6, <1>7 DEF D, c

LEMMA PartFacts ==
  ASSUME TreeInv, Finished, TooLarge, NEW k \in Cuts(Me)
  PROVE  IsPart(k)
<1> DEFINE i == Top.node
           n == Me
           C == Cuts(n)
           S == Parts[k]
           Ours(j) == j \in PartOf(C, k)
<1> USE DEF TreeInv
<1>1. /\ stack # << >> /\ i \in DOMAIN nodes /\ n = nodes[i] /\ DOMAIN Parts = C
      /\ C # {} /\ C \in SUBSET Nat /\ C \subseteq DOMAIN came[i] /\ C \subseteq Keys
      /\ C \subseteq Units(n)
      /\ DOMAIN n.pivots \subseteq Nat /\ DOMAIN n.elements \subseteq Nat \X Nat
  BY CutsFacts
<1>2. /\ IsRecord(S)
      /\ DOMAIN S.pivots = {p \in DOMAIN n.pivots : Ours(p)}
      /\ \A p \in DOMAIN S.pivots : S.pivots[p] = n.pivots[p]
      /\ IsFunction(S.pivots)
      /\ DOMAIN S.elements = {m \in DOMAIN n.elements : Ours(m[1])}
      /\ \A m \in DOMAIN S.elements : S.elements[m] = n.elements[m]
      /\ IsFunction(S.elements)
  BY SplitIs DEF Parts
<1>3. DOMAIN Share(k) = {j \in DOMAIN came[i] : k <= j /\ Ours(j)}
  BY ShareIs
<1>4. IsNode(n) /\ IsElements(n.elements)
  BY <1>1, HeapSame, NodeFacts
<1>5. DOMAIN n.pivots \cup KeysOf(n.elements) \subseteq DOMAIN came[i]
      /\ (~is_leaf(n) => \A j \in KeysOf(n.elements) : ~BelowPivots(n.pivots, j))
  BY <1>1 DEF KeysWithinPivots
<1>6. ASSUME NEW u \in Units(n), NEW j, Ours(j), u <= j PROVE k <= j
  BY <1>1, <1>6, PartBegins
<1> HIDE DEF n, C, S
<1>7. IsElements(S.elements)
  <2>1. S.elements = [m \in DOMAIN S.elements |-> n.elements[m]]
    BY <1>2 DEF IsFunction
  <2>2. DOMAIN S.elements \in SUBSET DOMAIN n.elements
    BY <1>2
  <2> QED
    BY <1>4, <2>1, <2>2, SomeElements
<1>8. IsNode(S)
  <2>1. DOMAIN S.pivots \subseteq Keys /\ \A p \in DOMAIN S.pivots : S.pivots[p] \in DOMAIN nodes
    BY <1>2, <1>4 DEF IsNode
  <2>2. S.pivots \in [DOMAIN S.pivots -> DOMAIN nodes]
    BY <1>2, <2>1 DEF IsFunction
  <2> QED
    BY <1>2, <1>7, <2>1, <2>2 DEF IsNode, IsRecord
<1>9. k \in Nat /\ k \in C /\ Ours(k)
  BY <1>1 DEF PartOf, C, n
<1>10. ~is_leaf(n) => k \in DOMAIN S.pivots
  BY <1>1, <1>2, <1>9 DEF Units
<1>11. is_leaf(S) <=> is_leaf(n)
  BY <1>2, <1>10 DEF is_leaf
<1>12. ASSUME NEW p \in DOMAIN S.pivots PROVE p \in DOMAIN Share(k)
  <2>1. p \in DOMAIN n.pivots /\ Ours(p) /\ p \in Nat
    BY <1>1, <1>2
  <2>2. p \in Units(n)
    BY <2>1 DEF Units, is_leaf
  <2>3. k <= p
    BY <1>6, <2>1, <2>2
  <2> QED
    BY <1>3, <1>5, <2>1, <2>3
<1>13. ASSUME NEW j \in KeysOf(S.elements) PROVE j \in DOMAIN Share(k) /\ k <= j
  <2>1. j \in KeysOf(n.elements) /\ Ours(j) /\ j \in Nat
    <3>1. PICK m \in DOMAIN S.elements : j = m[1]
      BY DEF KeysOf
    <3>2. m \in DOMAIN n.elements /\ Ours(m[1])
      BY <1>2
    <3> QED
      BY <1>1, <3>1, <3>2 DEF KeysOf
  <2>2. \E u \in Units(n) : u <= j
    <3>1. CASE is_leaf(n)
      BY <2>1, <3>1 DEF Units
    <3>2. CASE ~is_leaf(n)
      <4>1. PICK p \in DOMAIN n.pivots : ~(j < p)
        BY <1>5, <2>1, <3>2 DEF BelowPivots
      <4>2. p <= j
        BY <1>1, <2>1, <4>1
      <4> QED
        BY <3>2, <4>1, <4>2 DEF Units
    <3> QED
      BY <3>1, <3>2
  <2>3. k <= j
    BY <1>6, <2>1, <2>2
  <2> QED
    BY <1>3, <1>5, <2>1, <2>3
<1>14. DOMAIN S.pivots \cup KeysOf(S.elements) \subseteq DOMAIN Share(k)
  BY <1>12, <1>13
<1>15. ~is_leaf(S) => \A j \in KeysOf(S.elements) : ~BelowPivots(S.pivots, j)
  <2>1. SUFFICES ASSUME ~is_leaf(S), NEW j \in KeysOf(S.elements) PROVE ~BelowPivots(S.pivots, j)
    OBVIOUS
  <2>2. k \in DOMAIN S.pivots /\ k <= j /\ j \in Nat
    BY <1>7, <1>10, <1>11, <1>13, <2>1, ElementFacts
  <2> QED
    BY <1>9, <2>2 DEF BelowPivots
<1>16. ASSUME NEW p \in DOMAIN S.pivots
       PROVE  /\ p \in DOMAIN n.pivots /\ S.pivots[p] = n.pivots[p]
              /\ DOMAIN came[n.pivots[p]] \subseteq DOMAIN Share(k) \cap Between(S, p)
  <2>1. p \in DOMAIN n.pivots /\ S.pivots[p] = n.pivots[p] /\ Ours(p) /\ p \in Nat /\ k <= p
    <3>1. k <= p
      BY <1>12, <1>3
    <3> QED
      BY <1>1, <1>2, <3>1
  <2>2. DOMAIN came[n.pivots[p]] \subseteq DOMAIN came[i] \cap Between(n, p)
    BY <1>1, <2>1 DEF KeysWithinPivots
  <2>3. ~is_leaf(n)
    BY <2>1 DEF is_leaf
  <2>4. C \subseteq DOMAIN n.pivots
    BY <1>1, <2>3 DEF Units
  <2>5. ASSUME NEW j \in DOMAIN came[n.pivots[p]]
        PROVE  j \in DOMAIN Share(k) /\ j \in Between(S, p)
    <3>1. /\ j \in DOMAIN came[i] /\ j \in Keys /\ j \in Nat /\ p <= j
          /\ \A q \in DOMAIN n.pivots : p < q => j < q
      BY <2>2, KeysAssumption DEF Between
    <3>2. k <= j
      BY <1>9, <2>1, <3>1
    <3>3. \A l \in C : k < l => p < l
      BY <2>1 DEF PartOf
    <3>4. \A l \in C : k < l => j < l
      BY <2>4, <3>1, <3>3
    <3>5. Ours(j)
      BY <3>1, <3>2, <3>4 DEF PartOf
    <3>6. j \in Between(S, p)
      BY <1>2, <3>1 DEF Between
    <3> QED
      BY <1>3, <3>1, <3>2, <3>5, <3>6
  <2> QED
    BY <2>1, <2>5
<1>17. ASSUME ProperLeaf(n) PROVE ProperLeaf(S)
  <2>1. SUFFICES ASSUME NEW m \in DOMAIN S.elements
                 PROVE  S.elements[m].op = INSERT /\ MessagesOf(S.elements, m[1]) = {m}
    BY DEF ProperLeaf
  <2>2. m \in DOMAIN n.elements /\ S.elements[m] = n.elements[m]
    BY <1>2
  <2>3. n.elements[m].op = INSERT /\ MessagesOf(n.elements, m[1]) = {m}
    BY <1>17, <2>2 DEF ProperLeaf
  <2>4. DOMAIN S.elements \subseteq DOMAIN n.elements
    BY <1>2
  <2>5. MessagesOf(S.elements, m[1]) \subseteq MessagesOf(n.elements, m[1]) /\ m \in MessagesOf(S.elements, m[1])
    BY <2>4 DEF MessagesOf
  <2> QED
    BY <2>2, <2>3, <2>5
<1>18. \A m \in DOMAIN S.elements : m \in DOMAIN n.elements /\ S.elements[m] = n.elements[m]
  BY <1>2
<1> QED
  BY <1>8, <1>11, <1>14, <1>15, <1>16, <1>17, <1>18 DEF IsPart, S, n

\* The ids of the parts are new.
LEMMA KidsAre ==
  ASSUME TreeInv, Finished, TooLarge
  PROVE  /\ DOMAIN Kids = Cuts(Me) /\ IsFunction(Kids)
         /\ \A k \in Cuts(Me) : Kids[k] = <<next_id, k>> /\ Kids[k] \in KidIds
         /\ \A x \in KidIds : x[2] \in Cuts(Me) /\ x = Kids[x[2]] /\ x[1] = next_id
         /\ \A k, l \in Cuts(Me) : Kids[k] = Kids[l] => k = l
         /\ KidIds \subseteq NodeIds /\ KidIds \cap DOMAIN nodes = {}
         /\ \A k \in Cuts(Me) : Kids[k][2] = k
<1>1. DOMAIN Parts = Cuts(Me) /\ Cuts(Me) \in SUBSET Nat
  BY CutsFacts
<1>2. next_id \in Nat /\ \A i \in DOMAIN nodes : i[1] < next_id /\ i \in NodeIds
  BY DEF TreeInv, HeapTyped
<1>3. Kids = [k \in Cuts(Me) |-> <<next_id, k>>]
  BY <1>1 DEF Kids
<1>4. KidIds = {<<next_id, k>> : k \in Cuts(Me)}
  BY <1>1, <1>3 DEF KidIds
<1>5. \A x \in KidIds : x \notin DOMAIN nodes
  BY <1>2, <1>4
<1> QED
  BY <1>1, <1>2, <1>3, <1>4, <1>5 DEF NodeIds, IsFunction

\* The parts are there in place of the node on top, and h above them; the other
\* nodes are as they were.
SplitUnder(h) ==
  /\ h \notin KidIds /\ h # Top.node /\ h \in NodeIds /\ h[1] < next_id'
  /\ next_id' \in Nat /\ next_id' > next_id
  /\ DOMAIN nodes' = (DOMAIN nodes \ {Top.node}) \cup KidIds \cup {h} /\ IsFunction(nodes')
  /\ \A j \in DOMAIN nodes : j # Top.node /\ j # h =>
       nodes'[j] = nodes[j] /\ \A q \in DOMAIN nodes[j].pivots : nodes[j].pivots[q] # Top.node
  /\ \A k \in Cuts(Me) : nodes'[Kids[k]] = Parts[k]
  /\ DOMAIN came' = DOMAIN nodes' /\ IsFunction(came')
  /\ \A j \in DOMAIN nodes : j # Top.node => came'[j] = came[j]
  /\ \A k \in Cuts(Me) : came'[Kids[k]] = Share(k)
  /\ root' \in DOMAIN nodes' /\ root' \notin KidIds /\ (root' = root \/ root' \notin DOMAIN nodes)

\* The node above them: its other children are the ones it had.
IsAbove(h) ==
  LET H == nodes'[h]
      c == came'[h]
  IN /\ IsRecord(H) /\ IsElements(H.elements) /\ IsFunction(H.pivots) /\ IsCame(c)
     /\ DOMAIN H.pivots \cup KeysOf(H.elements) \subseteq DOMAIN c
     /\ \A k \in KeysOf(H.elements) : ~BelowPivots(H.pivots, k)
     /\ Cuts(Me) \subseteq DOMAIN H.pivots
     /\ \A k \in Cuts(Me) : /\ H.pivots[k] = Kids[k]
                            /\ DOMAIN Share(k) \subseteq DOMAIN c \cap Between(H, k)
     /\ \A q \in DOMAIN H.pivots : q \notin Cuts(Me) =>
          /\ h \in DOMAIN nodes /\ q \in DOMAIN nodes[h].pivots
          /\ H.pivots[q] = nodes[h].pivots[q] /\ H.pivots[q] # Top.node
          /\ DOMAIN came[H.pivots[q]] \subseteq DOMAIN c \cap Between(H, q)

\* A node that is not one of the parts, and not h, is an old one.
LEMMA SplitCases ==
  ASSUME TreeInv, Finished, TooLarge, NEW h, SplitUnder(h), NEW j \in DOMAIN nodes'
  PROVE  \/ j = h
         \/ \E k \in Cuts(Me) : j = Kids[k] /\ j \in KidIds
         \/ j \in DOMAIN nodes /\ j # Top.node /\ j # h /\ j \notin KidIds
<1>1. \A x \in KidIds : x[2] \in Cuts(Me) /\ x = Kids[x[2]]
  BY KidsAre
<1>2. \A x \in KidIds : \E k \in Cuts(Me) : x = Kids[k]
  BY <1>1
<1>3. DOMAIN nodes' = (DOMAIN nodes \ {Top.node}) \cup KidIds \cup {h}
  BY DEF SplitUnder
<1> QED
  BY <1>2, <1>3

\* Every child is a part, or an old node that had the same pivot in its parent, or in
\* what its parent is a part of.
LEMMA SplitChild ==
  ASSUME TreeInv, Finished, TooLarge, NEW h, SplitUnder(h), IsAbove(h),
         NEW j \in DOMAIN nodes', NEW p \in DOMAIN nodes'[j].pivots
  PROVE  LET c == nodes'[j].pivots[p]
         IN \/ j = h /\ p \in Cuts(Me) /\ c = Kids[p] /\ c \in KidIds
            \/ /\ c \in DOMAIN nodes /\ c # Top.node /\ c \notin KidIds /\ c # root
               /\ \/ /\ j \in DOMAIN nodes /\ j # Top.node /\ j \notin KidIds
                     /\ p \in DOMAIN nodes[j].pivots /\ c = nodes[j].pivots[p]
                  \/ \E k \in Cuts(Me) :
                       /\ j = Kids[k] /\ j \in KidIds
                       /\ p \in DOMAIN Me.pivots /\ c = Me.pivots[p] /\ p \in PartOf(Cuts(Me), k)
<1> DEFINE c == nodes'[j].pivots[p]
           i == Top.node
           C == Cuts(Me)
<1>1. /\ stack # << >> /\ i \in DOMAIN nodes /\ Me = nodes[i]
  BY CutsFacts
<1>2. KidIds \cap DOMAIN nodes = {} /\ \A k \in C : Kids[k] \in KidIds
  BY KidsAre
<1>3. \A x \in DOMAIN nodes : \A q \in DOMAIN nodes[x].pivots :
        nodes[x].pivots[q] \in DOMAIN nodes /\ nodes[x].pivots[q] # root
  BY NodeFacts DEF TreeInv, IsTree
<1> HIDE DEF C
<1>4. CASE j = h
  <2>1. CASE p \in C
    BY <1>2, <1>4, <2>1 DEF IsAbove, C
  <2>2. CASE p \notin C
    <3>1. h \in DOMAIN nodes /\ p \in DOMAIN nodes[h].pivots /\ c = nodes[h].pivots[p] /\ c # i
      BY <1>4, <2>2 DEF IsAbove, C
    <3>2. h # i /\ h \notin KidIds
      BY DEF SplitUnder
    <3> QED
      BY <1>2, <1>3, <1>4, <3>1, <3>2
  <2> QED
    BY <2>1, <2>2
<1>5. ASSUME NEW k \in C, j = Kids[k] PROVE
        /\ c \in DOMAIN nodes /\ c # i /\ c \notin KidIds /\ c # root /\ j \in KidIds
        /\ p \in DOMAIN Me.pivots /\ c = Me.pivots[p] /\ p \in PartOf(C, k)
  <2>1. nodes'[j] = Parts[k]
    BY <1>5 DEF SplitUnder, C
  <2>2. p \in DOMAIN Me.pivots /\ c = Me.pivots[p] /\ p \in DOMAIN Share(k)
    BY <2>1, PartFacts DEF IsPart, C
  <2>3. p \in PartOf(C, k)
    BY <2>2, ShareIs DEF C
  <2>4. c # i
    <3>1. Len(stack) \in DOMAIN stack
      BY <1>1, TopFacts DEF TreeInv
    <3> QED
      BY <1>1, <2>2, <3>1, ChildIsNew DEF Top, TreeInv
  <2> QED
    BY <1>1, <1>2, <1>3, <1>5, <2>2, <2>3, <2>4
<1>6. CASE j \in DOMAIN nodes /\ j # i /\ j # h /\ j \notin KidIds
  <2>1. nodes'[j] = nodes[j] /\ \A q \in DOMAIN nodes[j].pivots : nodes[j].pivots[q] # i
    BY <1>6 DEF SplitUnder
  <2> QED
    BY <1>2, <1>3, <1>6, <2>1
<1> QED
  BY <1>4, <1>5, <1>6, SplitCases DEF C

LEMMA SplitIsTree ==
  ASSUME TreeInv, Finished, TooLarge, NEW h, SplitUnder(h), IsAbove(h)
  PROVE  IsTree'
<1> DEFINE Child(j, p) == nodes'[j].pivots[p]
           C == Cuts(Me)
           Old(j, p) == /\ j \in DOMAIN nodes /\ j # Top.node /\ j \notin KidIds
                        /\ p \in DOMAIN nodes[j].pivots /\ Child(j, p) = nodes[j].pivots[p]
           InPart(j, p) == \E k \in C : /\ j = Kids[k] /\ j \in KidIds
                                        /\ p \in DOMAIN Me.pivots /\ Child(j, p) = Me.pivots[p]
                                        /\ p \in PartOf(C, k)
           ToPart(j, p) == j = h /\ p \in C /\ Child(j, p) = Kids[p] /\ Child(j, p) \in KidIds
           ToOld(j, p) == /\ Child(j, p) \in DOMAIN nodes /\ Child(j, p) \notin KidIds
                          /\ Child(j, p) # root
                          /\ Old(j, p) \/ InPart(j, p)
<1>1. \A j \in DOMAIN nodes' : \A p \in DOMAIN nodes'[j].pivots : ToPart(j, p) \/ ToOld(j, p)
  BY SplitChild
<1>2. root' \notin KidIds /\ (root' = root \/ root' \notin DOMAIN nodes)
  BY DEF SplitUnder
<1>3. \A j \in DOMAIN nodes' : \A p \in DOMAIN nodes'[j].pivots : Child(j, p) # root'
  BY <1>1, <1>2
<1>4. /\ Top.node \in DOMAIN nodes /\ Me = nodes[Top.node] /\ C \in SUBSET Nat
      /\ \A k, l \in C : Kids[k] = Kids[l] => k = l
  BY CutsFacts, KidsAre
<1>5. ASSUME NEW j, NEW l, NEW p, NEW q, Child(j, p) = Child(l, q),
             ToOld(j, p), ToOld(l, q)
      PROVE  j = l /\ p = q
  <2>1. ASSUME NEW a \in DOMAIN nodes, NEW b \in DOMAIN nodes,
               p \in DOMAIN nodes[a].pivots, q \in DOMAIN nodes[b].pivots,
               nodes[a].pivots[p] = nodes[b].pivots[q]
        PROVE  a = b /\ p = q
    BY <2>1, OneWay DEF TreeInv
  <2>2. CASE Old(j, p) /\ Old(l, q)
    BY <1>5, <2>1, <2>2
  <2>3. CASE Old(j, p) /\ InPart(l, q)
    BY <1>4, <1>5, <2>1, <2>3
  <2>4. CASE InPart(j, p) /\ Old(l, q)
    BY <1>4, <1>5, <2>1, <2>4
  <2>5. CASE InPart(j, p) /\ InPart(l, q)
    <3>1. p = q
      BY <1>4, <1>5, <2>1, <2>5
    <3>2. PICK k \in C : j = Kids[k] /\ p \in PartOf(C, k)
      BY <2>5
    <3>3. PICK k2 \in C : l = Kids[k2] /\ q \in PartOf(C, k2)
      BY <2>5
    <3>4. k = k2
      BY <1>4, <3>1, <3>2, <3>3, PartsDisjoint
    <3> QED
      BY <3>1, <3>2, <3>3, <3>4
  <2> QED
    BY <1>5, <2>2, <2>3, <2>4, <2>5
<1>6. ASSUME NEW j \in DOMAIN nodes', NEW l \in DOMAIN nodes',
             NEW p \in DOMAIN nodes'[j].pivots, NEW q \in DOMAIN nodes'[l].pivots,
             Child(j, p) = Child(l, q)
      PROVE  j = l /\ p = q
  <2>1. (ToPart(j, p) \/ ToOld(j, p)) /\ (ToPart(l, q) \/ ToOld(l, q))
    BY <1>1
  <2>2. CASE ToPart(j, p) /\ ToPart(l, q)
    BY <1>4, <1>6, <2>2
  <2>3. CASE ToOld(j, p) /\ ToOld(l, q)
    BY <1>5, <1>6, <2>3
  <2>4. CASE ToPart(j, p) /\ ToOld(l, q)
    BY <1>6, <2>4
  <2>5. CASE ToOld(j, p) /\ ToPart(l, q)
    BY <1>6, <2>5
  <2> QED
    BY <2>1, <2>2, <2>3, <2>4, <2>5
<1> QED
  BY <1>3, <1>6 DEF IsTree

LEMMA SplitHeapTyped ==
  ASSUME TreeInv, Finished, TooLarge, NEW h, SplitUnder(h), IsAbove(h),
         IsSeq(stack'), \A f \in DOMAIN stack' : IsFrame(stack'[f]) /\ stack'[f].node # Top.node,
         dirty' \subseteq DOMAIN nodes'
  PROVE  HeapTyped'
<1> DEFINE i == Top.node
           C == Cuts(Me)
<1>1. /\ DOMAIN nodes' = (DOMAIN nodes \ {i}) \cup KidIds \cup {h} /\ h \in NodeIds
      /\ next_id' \in Nat /\ next_id' > next_id /\ h[1] < next_id'
      /\ root' \in DOMAIN nodes' /\ IsFunction(nodes') /\ IsFunction(came')
      /\ DOMAIN came' = DOMAIN nodes'
  BY DEF SplitUnder
<1>2. /\ KidIds \subseteq NodeIds /\ \A x \in KidIds : x[1] = next_id
      /\ \A k \in C : Kids[k] \in KidIds
  BY KidsAre
<1>3. /\ DOMAIN nodes \subseteq NodeIds /\ next_id \in Nat
      /\ \A x \in DOMAIN nodes : x[1] < next_id /\ x[1] \in Nat
      /\ \A x \in DOMAIN nodes : IsNode(nodes[x]) /\ IsCame(came[x])
  BY DEF TreeInv, HeapTyped, NodeIds
<1>4. DOMAIN nodes' \subseteq NodeIds /\ \A x \in DOMAIN nodes' : x[1] < next_id'
  BY <1>1, <1>2, <1>3
<1>5. ASSUME NEW j \in DOMAIN nodes'
      PROVE  /\ IsRecord(nodes'[j]) /\ IsElements(nodes'[j].elements)
             /\ DOMAIN nodes'[j].pivots \subseteq Keys /\ IsFunction(nodes'[j].pivots)
             /\ IsCame(came'[j])
  <2>1. CASE j = h
    BY <2>1 DEF IsAbove, IsCame
  <2>2. ASSUME NEW k \in C, j = Kids[k]
        PROVE  /\ IsNode(nodes'[j]) /\ IsCame(came'[j])
    <3>1. nodes'[j] = Parts[k] /\ came'[j] = Share(k)
      BY <2>2 DEF SplitUnder
    <3> QED
      BY <3>1, PartFacts, ShareIs DEF IsPart
  <2>3. CASE j \in DOMAIN nodes /\ j # i /\ j # h
    <3>1. nodes'[j] = nodes[j] /\ came'[j] = came[j]
      BY <2>3 DEF SplitUnder
    <3> QED
      BY <1>3, <2>3, <3>1 DEF IsNode, IsRecord, IsFunction
  <2>4. \A k \in C : j = Kids[k] => IsNode(nodes'[j]) /\ IsCame(came'[j])
    BY <2>2
  <2> HIDE DEF C
  <2> QED
    BY <2>1, <2>3, <2>4, SplitCases DEF IsNode, IsRecord, IsFunction, C
<1>6. ASSUME NEW j \in DOMAIN nodes', NEW p \in DOMAIN nodes'[j].pivots
      PROVE  nodes'[j].pivots[p] \in DOMAIN nodes'
  <2>1. nodes'[j].pivots[p] \in KidIds \/ nodes'[j].pivots[p] \in DOMAIN nodes \ {i}
    BY SplitChild
  <2> QED
    BY <1>1, <2>1
<1>7. (\A j \in DOMAIN nodes : IsNode(nodes[j]))'
  BY <1>5, <1>6 DEF IsNode, IsRecord, IsFunction
<1>8. (\A f \in DOMAIN stack : IsFrame(stack[f]))'
  BY <1>1 DEF IsFrame
<1>9. /\ nodes' \in [DOMAIN nodes' -> {nodes'[x] : x \in DOMAIN nodes'}]
      /\ came' \in [DOMAIN nodes' -> {came'[x] : x \in DOMAIN nodes'}]
  BY <1>1 DEF IsFunction
<1>10. stack' \in Seq({stack'[f] : f \in DOMAIN stack'})
  BY DEF IsSeq
<1>11. (\A j \in DOMAIN nodes : IsCame(came[j]))'
  BY <1>5
<1> QED
  BY <1>1, <1>4, <1>7, <1>8, <1>9, <1>10, <1>11 DEF HeapTyped

LEMMA SplitWithinPivots ==
  ASSUME TreeInv, Finished, TooLarge, NEW h, SplitUnder(h), IsAbove(h)
  PROVE  KeysWithinPivots' /\ LeavesHoldInserts'
<1> DEFINE i == Top.node
           C == Cuts(Me)
           Good(n, c) ==
             /\ DOMAIN n.pivots \cup KeysOf(n.elements) \subseteq DOMAIN c
             /\ ~is_leaf(n) => \A k \in KeysOf(n.elements) : ~BelowPivots(n.pivots, k)
             /\ \A p \in DOMAIN n.pivots :
                  DOMAIN came'[n.pivots[p]] \subseteq DOMAIN c \cap Between(n, p)
<1>1. C # {} /\ \A k \in C : nodes'[Kids[k]] = Parts[k] /\ came'[Kids[k]] = Share(k)
  BY CutsFacts DEF SplitUnder
<1>2. \A c \in DOMAIN nodes : c # i => came'[c] = came[c]
  BY DEF SplitUnder
<1>3. \A x \in DOMAIN nodes : \A q \in DOMAIN nodes[x].pivots : nodes[x].pivots[q] \in DOMAIN nodes
  BY NodeFacts DEF TreeInv
<1>4. Good(nodes'[h], came'[h]) /\ ~is_leaf(nodes'[h])
  <2>1. C \subseteq DOMAIN nodes'[h].pivots
    BY DEF IsAbove
  <2>2. ASSUME NEW p \in DOMAIN nodes'[h].pivots
        PROVE  DOMAIN came'[nodes'[h].pivots[p]] \subseteq DOMAIN came'[h] \cap Between(nodes'[h], p)
    <3>1. CASE p \in C
      <4>1. nodes'[h].pivots[p] = Kids[p] /\ DOMAIN Share(p) \subseteq DOMAIN came'[h] \cap Between(nodes'[h], p)
        BY <3>1 DEF IsAbove
      <4> QED
        BY <1>1, <3>1, <4>1
    <3>2. CASE p \notin C
      <4>1. /\ h \in DOMAIN nodes /\ p \in DOMAIN nodes[h].pivots
            /\ nodes'[h].pivots[p] = nodes[h].pivots[p] /\ nodes'[h].pivots[p] # i
            /\ DOMAIN came[nodes'[h].pivots[p]] \subseteq DOMAIN came'[h] \cap Between(nodes'[h], p)
        BY <3>2 DEF IsAbove
      <4>2. nodes'[h].pivots[p] \in DOMAIN nodes
        BY <1>3, <4>1
      <4> HIDE DEF C
      <4> QED
        BY <1>2, <4>1, <4>2
    <3> QED
      BY <3>1, <3>2
  <2>3. ~is_leaf(nodes'[h])
    BY <1>1, <2>1 DEF is_leaf
  <2>4. /\ DOMAIN nodes'[h].pivots \cup KeysOf(nodes'[h].elements) \subseteq DOMAIN came'[h]
        /\ \A k \in KeysOf(nodes'[h].elements) : ~BelowPivots(nodes'[h].pivots, k)
    BY DEF IsAbove
  <2> QED
    BY <2>2, <2>3, <2>4
<1>5. ASSUME NEW k \in C
      PROVE  Good(Parts[k], Share(k)) /\ (is_leaf(Parts[k]) => ProperLeaf(Parts[k]))
  <2>1. IsPart(k)
    BY PartFacts
  <2>2. /\ DOMAIN Parts[k].pivots \cup KeysOf(Parts[k].elements) \subseteq DOMAIN Share(k)
        /\ ~is_leaf(Parts[k]) => \A j \in KeysOf(Parts[k].elements) : ~BelowPivots(Parts[k].pivots, j)
        /\ is_leaf(Parts[k]) <=> is_leaf(Me)
        /\ ProperLeaf(Me) => ProperLeaf(Parts[k])
    BY <2>1 DEF IsPart
  <2>3. ASSUME NEW p \in DOMAIN Parts[k].pivots
        PROVE  DOMAIN came'[Parts[k].pivots[p]] \subseteq DOMAIN Share(k) \cap Between(Parts[k], p)
    <3>1. /\ p \in DOMAIN Me.pivots /\ Parts[k].pivots[p] = Me.pivots[p]
          /\ DOMAIN came[Me.pivots[p]] \subseteq DOMAIN Share(k) \cap Between(Parts[k], p)
      BY <2>1 DEF IsPart
    <3>2. stack # << >> /\ i \in DOMAIN nodes /\ Me = nodes[i]
      BY CutsFacts
    <3>3. Len(stack) \in DOMAIN stack
      BY <3>2, TopFacts DEF TreeInv
    <3>4. Me.pivots[p] # i
      BY <3>1, <3>2, <3>3, ChildIsNew DEF Top, TreeInv
    <3>5. came'[Me.pivots[p]] = came[Me.pivots[p]]
      BY <1>2, <1>3, <3>1, <3>2, <3>4
    <3> QED
      BY <3>1, <3>5
  <2>4. is_leaf(Me) => ProperLeaf(Me)
    BY CutsFacts DEF TreeInv, LeavesHoldInserts
  <2> QED
    BY <2>2, <2>3, <2>4
<1>6. ASSUME NEW j \in DOMAIN nodes, j # i, j # h
      PROVE  Good(nodes'[j], came'[j]) /\ (is_leaf(nodes'[j]) => ProperLeaf(nodes'[j]))
  <2>1. /\ nodes'[j] = nodes[j] /\ came'[j] = came[j]
        /\ \A q \in DOMAIN nodes[j].pivots : nodes[j].pivots[q] # i
    BY <1>6 DEF SplitUnder
  <2>2. \A q \in DOMAIN nodes[j].pivots : came'[nodes[j].pivots[q]] = came[nodes[j].pivots[q]]
    BY <1>2, <1>3, <2>1
  <2>3. KeysWithinPivots /\ LeavesHoldInserts
    BY DEF TreeInv
  <2> QED
    BY <2>1, <2>2, <2>3 DEF KeysWithinPivots, LeavesHoldInserts
<1>7. ASSUME NEW j \in DOMAIN nodes'
      PROVE  Good(nodes'[j], came'[j]) /\ (is_leaf(nodes'[j]) => ProperLeaf(nodes'[j]))
  <2>1. CASE j = h
    BY <1>4, <2>1
  <2>2. ASSUME NEW k \in C, j = Kids[k]
        PROVE  Good(nodes'[j], came'[j]) /\ (is_leaf(nodes'[j]) => ProperLeaf(nodes'[j]))
    <3>1. nodes'[j] = Parts[k] /\ came'[j] = Share(k)
      BY <1>1, <2>2
    <3> HIDE DEF Good, C
    <3> QED
      BY <1>5, <3>1
  <2>3. CASE j \in DOMAIN nodes /\ j # i /\ j # h
    BY <1>6, <2>3
  <2> HIDE DEF Good
  <2> QED
    BY <2>1, <2>2, <2>3, SplitCases
<1>8. LeavesHoldInserts'
  BY <1>7 DEF LeavesHoldInserts
<1>9. KeysWithinPivots'
  BY <1>7 DEF KeysWithinPivots
<1> QED
  BY <1>8, <1>9

LEMMA NodesSplitIs ==
  ASSUME TreeInv, Finished, TooLarge
  PROVE  /\ DOMAIN NodesSplit = (DOMAIN nodes \ {Top.node}) \cup KidIds /\ IsFunction(NodesSplit)
         /\ \A j \in DOMAIN nodes : j # Top.node => NodesSplit[j] = nodes[j]
         /\ \A k \in Cuts(Me) : NodesSplit[Kids[k]] = Parts[k]
         /\ DOMAIN CameSplit = (DOMAIN nodes \ {Top.node}) \cup KidIds /\ IsFunction(CameSplit)
         /\ \A j \in DOMAIN nodes : j # Top.node => CameSplit[j] = came[j]
         /\ \A k \in Cuts(Me) : CameSplit[Kids[k]] = Share(k)
<1>1. /\ KidIds \cap DOMAIN nodes = {}
      /\ \A k \in Cuts(Me) : Kids[k] \in KidIds /\ Kids[k][2] = k
  BY KidsAre
<1>2. DOMAIN came = DOMAIN nodes
  BY HeapSame DEF TreeInv
<1>3. /\ DOMAIN NodesSplit = (DOMAIN nodes \ {Top.node}) \cup KidIds /\ IsFunction(NodesSplit)
      /\ \A j \in DOMAIN nodes : j # Top.node => NodesSplit[j] = nodes[j]
      /\ \A k \in Cuts(Me) : NodesSplit[Kids[k]] = Parts[k]
  BY <1>1 DEF NodesSplit, IsFunction
<1>4. /\ DOMAIN CameSplit = (DOMAIN nodes \ {Top.node}) \cup KidIds /\ IsFunction(CameSplit)
      /\ \A j \in DOMAIN nodes : j # Top.node => CameSplit[j] = came[j]
      /\ \A k \in Cuts(Me) : CameSplit[Kids[k]] = Share(k)
  BY <1>1, <1>2 DEF CameSplit, IsFunction
<1> QED
  BY <1>3, <1>4

LEMMA ReturnSplitUnder ==
  ASSUME TreeInv, ReturnSplit
  PROVE  /\ stack # << >> /\ Len(stack) > 1
         /\ SplitUnder(Caller.node)
         /\ nodes'[Caller.node] = ReplaceChild(AfterBatch(nodes[Caller.node]), Caller.pivot, Kids)
         /\ came'[Caller.node] = came[Caller.node]
         /\ dirty' \subseteq DOMAIN nodes'
         /\ UNCHANGED <<root, ops, expected>>
<1> DEFINE i == Top.node
           h == Caller.node
           H == ReplaceChild(AfterBatch(nodes[h]), Caller.pivot, Kids)
<1>1. /\ Finished /\ TooLarge /\ Len(stack) > 1
      /\ nodes' = [NodesSplit EXCEPT ![h] = H] /\ came' = CameSplit /\ next_id' = next_id + 1
      /\ dirty' = Touched(KidIds) \ {i} /\ UNCHANGED <<root, ops, expected>>
  BY DEF ReturnSplit, callVars
<1> HIDE DEF H
<1>2. stack # << >>
  BY <1>1, FinishedIs DEF TreeInv
<1>3. /\ h \in DOMAIN nodes /\ h # i /\ i # root
      /\ \A j \in DOMAIN nodes : \A q \in DOMAIN nodes[j].pivots :
           nodes[j].pivots[q] = i => j = h
  BY <1>1, <1>2, OneParent DEF TreeInv
<1>4. /\ DOMAIN nodes \subseteq NodeIds /\ next_id \in Nat /\ root \in DOMAIN nodes
      /\ \A x \in DOMAIN nodes : x[1] < next_id /\ x[1] \in Nat
      /\ dirty \subseteq DOMAIN nodes
  BY DEF TreeInv, HeapTyped, NodeIds
<1>5. KidIds \cap DOMAIN nodes = {} /\ \A k \in Cuts(Me) : Kids[k] \in KidIds
  BY <1>1, KidsAre
<1>6. /\ DOMAIN NodesSplit = (DOMAIN nodes \ {i}) \cup KidIds /\ IsFunction(NodesSplit)
      /\ \A j \in DOMAIN nodes : j # i => NodesSplit[j] = nodes[j]
      /\ \A k \in Cuts(Me) : NodesSplit[Kids[k]] = Parts[k]
      /\ DOMAIN CameSplit = (DOMAIN nodes \ {i}) \cup KidIds /\ IsFunction(CameSplit)
      /\ \A j \in DOMAIN nodes : j # i => CameSplit[j] = came[j]
      /\ \A k \in Cuts(Me) : CameSplit[Kids[k]] = Share(k)
  BY <1>1, NodesSplitIs
<1>7. h \in DOMAIN NodesSplit /\ \A k \in Cuts(Me) : Kids[k] # h
  BY <1>3, <1>5, <1>6
<1>8. /\ IsFunction(nodes') /\ DOMAIN nodes' = DOMAIN NodesSplit /\ nodes'[h] = H
      /\ \A y \in DOMAIN NodesSplit : y # h => nodes'[y] = NodesSplit[y]
  BY <1>1, <1>6, <1>7, ExceptIs
<1>9. h[1] < next_id' /\ next_id' \in Nat /\ next_id' > next_id
  BY <1>1, <1>3, <1>4
<1>10. SplitUnder(h)
  <2>1. \A j \in DOMAIN nodes : j # i /\ j # h => nodes'[j] = nodes[j]
    BY <1>6, <1>8
  <2>2. \A k \in Cuts(Me) : nodes'[Kids[k]] = Parts[k]
    BY <1>5, <1>6, <1>7, <1>8
  <2>3. DOMAIN nodes' = (DOMAIN nodes \ {i}) \cup KidIds \cup {h}
    BY <1>3, <1>6, <1>8
  <2>4. h \notin KidIds /\ root' \in DOMAIN nodes' /\ root' \notin KidIds
    BY <1>1, <1>3, <1>4, <1>5, <2>3
  <2> QED
    BY <1>1, <1>3, <1>4, <1>6, <1>8, <1>9, <2>1, <2>2, <2>3, <2>4 DEF SplitUnder
<1>11. dirty' \subseteq DOMAIN nodes'
  BY <1>1, <1>4, <1>6, <1>8 DEF Touched
<1>12. came'[h] = came[h]
  BY <1>1, <1>3, <1>6
<1> QED
  BY <1>1, <1>2, <1>8, <1>10, <1>11, <1>12 DEF H

LEMMA ReturnSplitAbove ==
  ASSUME TreeInv, ReturnSplit
  PROVE  IsAbove(Caller.node)
<1> DEFINE i == Top.node
           h == Caller.node
           n == nodes[h]
           p == Caller.pivot
           a == AfterBatch(n)
           H == ReplaceChild(a, p, Kids)
           C == Cuts(Me)
           D == DOMAIN n.pivots
<1>1. /\ Finished /\ TooLarge /\ stack # << >> /\ Len(stack) > 1
      /\ nodes'[h] = H /\ came'[h] = came[h]
  BY ReturnSplitUnder DEF ReturnSplit
<1>2. /\ h \in DOMAIN nodes /\ p \in D /\ n.pivots[p] = i
      /\ \A q \in D : n.pivots[q] = i => q = p
  BY <1>1, OneParent DEF TreeInv
<1>3. /\ IsNode(a) /\ a.pivots = n.pivots
      /\ DOMAIN a.elements = DOMAIN n.elements \ ElementsFor(n, p)
      /\ ElementsFor(a, p) = {}
  BY <1>1, AfterBatchIs DEF TreeInv
<1>4. /\ C \in SUBSET Nat /\ C \subseteq DOMAIN came[i] /\ C \subseteq Keys
  BY <1>1, CutsFacts
<1>5. DOMAIN Kids = C /\ \A k \in C : Kids[k] \in KidIds
  BY <1>1, KidsAre
<1>6. /\ D \subseteq Keys /\ D \subseteq Nat /\ IsElements(n.elements) /\ IsCame(came[h])
  BY <1>2, NodeFacts DEF TreeInv
<1>7. /\ D \cup KeysOf(n.elements) \subseteq DOMAIN came[h]
      /\ \A k \in KeysOf(n.elements) : ~BelowPivots(n.pivots, k)
      /\ \A q \in D : DOMAIN came[n.pivots[q]] \subseteq DOMAIN came[h] \cap Between(n, q)
  BY <1>2 DEF TreeInv, KeysWithinPivots, is_leaf
<1> HIDE DEF a, n, H, C
<1>8. \A c \in C : c \in Between(n, p) /\ c \in DOMAIN came[h]
  BY <1>2, <1>4, <1>7
<1>9. \A c \in C : p <= c /\ \A q \in D : p < q => c < q
  BY <1>8 DEF Between
<1>10. C \cap (D \ {p}) = {}
  BY <1>2, <1>4, <1>6, <1>9
<1>11. /\ IsRecord(H) /\ H.elements = a.elements /\ IsFunction(H.pivots)
       /\ DOMAIN H.pivots = (D \ {p}) \cup C
       /\ \A k \in C : H.pivots[k] = Kids[k]
       /\ \A q \in D \ {p} : H.pivots[q] = n.pivots[q]
  <2> DEFINE P == [k \in (D \ {p}) \cup C |-> IF k \in D \ {p} THEN n.pivots[k] ELSE Kids[k]]
  <2>1. H = [a EXCEPT !.pivots = P]
    BY <1>3, <1>5 DEF ReplaceChild, H
  <2>2. /\ IsFunction(P) /\ DOMAIN P = (D \ {p}) \cup C
        /\ \A k \in C : P[k] = Kids[k]
        /\ \A q \in D \ {p} : P[q] = n.pivots[q]
    BY <1>10 DEF IsFunction
  <2> HIDE DEF P
  <2>3. H = [pivots |-> P, elements |-> a.elements]
    BY <1>3, <2>1 DEF IsNode
  <2> QED
    BY <2>2, <2>3 DEF IsRecord
<1>12. IsElements(H.elements) /\ IsCame(came'[h])
  BY <1>1, <1>3, <1>6, <1>11 DEF IsNode
<1>13. KeysOf(H.elements) \subseteq KeysOf(n.elements)
  BY <1>3, <1>11 DEF KeysOf
<1>14. DOMAIN H.pivots \cup KeysOf(H.elements) \subseteq DOMAIN came'[h]
  BY <1>1, <1>7, <1>8, <1>11, <1>13
<1>15. ASSUME NEW k \in KeysOf(H.elements) PROVE ~BelowPivots(H.pivots, k)
  <2>1. PICK m \in DOMAIN a.elements : m[1] = k
    BY <1>11 DEF KeysOf
  <2>2. k \in Nat /\ ~BelowPivots(n.pivots, k)
    BY <1>6, <1>7, <1>13, ElementFacts
  <2>3. \E q \in D \ {p} : ~(k < q)
    <3>1. PICK q \in D : ~(k < q)
      BY <2>2 DEF BelowPivots
    <3>2. CASE q # p
      BY <3>1, <3>2
    <3>3. CASE q = p
      <4>1. p <= k
        BY <1>2, <1>6, <2>2, <3>1, <3>3
      <4>2. m \notin ElementsFor(a, p)
        BY <1>3
      <4>3. \E r \in D : p < r /\ ~(m[1] < r)
        BY <1>3, <2>1, <4>1, <4>2 DEF ElementsFor
      <4> QED
        BY <1>2, <1>6, <2>1, <4>3
    <3> QED
      BY <3>2, <3>3
  <2> QED
    BY <1>11, <2>3 DEF BelowPivots
<1>16. ASSUME NEW k \in C
       PROVE  DOMAIN Share(k) \subseteq DOMAIN came'[h] \cap Between(H, k)
  <2>1. SUFFICES ASSUME NEW j \in DOMAIN Share(k) PROVE j \in DOMAIN came[h] /\ j \in Between(H, k)
    BY <1>1
  <2>2. j \in DOMAIN came[i] /\ k <= j /\ j \in PartOf(C, k)
    BY <1>1, ShareIs DEF C
  <2>3. j \in DOMAIN came[h] /\ j \in Between(n, p)
    BY <1>2, <1>7, <2>2
  <2>4. j \in Keys /\ \A q \in D : p < q => j < q
    BY <2>3 DEF Between
  <2>5. \A q \in C : k < q => j < q
    BY <2>2 DEF PartOf
  <2>6. \A q \in D \ {p} : k < q => p < q
    BY <1>2, <1>4, <1>6, <1>9
  <2> QED
    BY <1>11, <2>2, <2>3, <2>4, <2>5, <2>6 DEF Between
<1>17. ASSUME NEW q \in DOMAIN H.pivots, q \notin C
       PROVE  /\ q \in D /\ H.pivots[q] = n.pivots[q] /\ H.pivots[q] # i
              /\ DOMAIN came[H.pivots[q]] \subseteq DOMAIN came'[h] \cap Between(H, q)
  <2>1. q \in D /\ q # p /\ H.pivots[q] = n.pivots[q] /\ H.pivots[q] # i
    BY <1>2, <1>11, <1>17
  <2>2. DOMAIN came[n.pivots[q]] \subseteq DOMAIN came[h] \cap Between(n, q)
    BY <1>7, <2>1
  <2>3. ASSUME NEW j \in Between(n, q) PROVE j \in Between(H, q)
    <3>1. j \in Keys /\ j \in Nat /\ q <= j /\ \A r \in D : q < r => j < r
      BY KeysAssumption DEF Between
    <3>2. ASSUME NEW c \in C, q < c PROVE j < c
      <4>1. q \in Nat /\ p \in Nat /\ c \in Nat /\ p <= c
        BY <1>2, <1>4, <1>6, <1>9, <2>1
      <4>2. ~(p < q)
        BY <1>9, <2>1, <3>2, <4>1
      <4>3. j < p
        BY <1>2, <2>1, <3>1, <4>1, <4>2
      <4> QED
        BY <3>1, <4>1, <4>3
    <3> QED
      BY <1>11, <3>1, <3>2 DEF Between
  <2> QED
    BY <1>1, <2>1, <2>2, <2>3
<1> QED
  BY <1>1, <1>2, <1>11, <1>12, <1>14, <1>15, <1>16, <1>17 DEF IsAbove, C, n

LEMMA ReturnSplitKeeps ==
  ASSUME TreeInv, ReturnSplit
  PROVE  TreeInv'
<1> DEFINE h == Caller.node
           v == IF Caller.first = Caller.pivot THEN NULL ELSE Caller.first
           f == [Resumed EXCEPT !.first = v]
<1>1. /\ Finished /\ TooLarge /\ stack # << >> /\ Len(stack) > 1
      /\ SplitUnder(h) /\ IsAbove(h) /\ dirty' \subseteq DOMAIN nodes'
      /\ UNCHANGED <<root, ops, expected>>
  BY ReturnSplitUnder, ReturnSplitAbove DEF ReturnSplit
<1>2. /\ IsFrame(Caller) /\ Caller.first \in Nat \cup {NULL}
      /\ Caller.node # Top.node
  BY <1>1, OneParent DEF IsFrame, TreeInv
<1>3. /\ IsFrame(f) /\ f.node = h /\ f.at \in {"apply", "done"} /\ f.elts = NoElements
      /\ Resumed.first = Caller.first
  BY <1>1, <1>2, ResumedIs DEF ResumedAt, TreeInv
<1>4. stack' = Return(f)
  <2>1. stack' = Return([Resumed EXCEPT !.first = IF @ = Caller.pivot THEN NULL ELSE @])
    BY DEF ReturnSplit
  <2> QED
    BY <1>3, <2>1
<1>5. Returned(f)
  BY <1>1, <1>4, ReturnStack DEF TreeInv
<1> HIDE DEF f, v
<1>6. IsStack'
  <2>1. \A j \in DOMAIN nodes : j # Top.node /\ j # Caller.node => nodes'[j] = nodes[j]
    BY <1>1 DEF SplitUnder
  <2> QED
    BY <1>1, <1>3, <1>5, <2>1, StackReturns DEF TreeInv
<1>7. IsSeq(stack') /\ \A g \in DOMAIN stack' : IsFrame(stack'[g])
  BY <1>1, <1>3, <1>5, FramesKept DEF TreeInv
<1>8. \A g \in DOMAIN stack' : stack'[g].node # Top.node
  <2>1. /\ DOMAIN stack' = 1..(Len(stack) - 1) /\ stack'[Len(stack) - 1] = f
        /\ \A g \in 1..(Len(stack) - 1) : g # Len(stack) - 1 => stack'[g] = stack[g]
    BY <1>5 DEF Returned
  <2>2. \A l \in Nat : \A g \in 1..(l - 1) : g \in 1..l /\ g # l
    OBVIOUS
  <2>3. Len(stack) \in Nat /\ DOMAIN stack = 1..Len(stack)
    BY <1>1, TopFacts DEF TreeInv
  <2>4. \A g \in 1..(Len(stack) - 1) : stack[g].node # Top.node
    BY <1>1, <2>2, <2>3, TopFacts DEF TreeInv
  <2> QED
    BY <1>2, <1>3, <2>1, <2>4
<1>9. HeapTyped'
  BY <1>1, <1>7, <1>8, SplitHeapTyped
<1>10. IsTree' /\ KeysWithinPivots' /\ LeavesHoldInserts'
  BY <1>1, SplitIsTree, SplitWithinPivots
<1>11. PendingWithinPivots'
  <2>1. stack' # << >> /\ f = stack'[Len(stack')]
    BY <1>5 DEF Returned
  <2> QED
    BY <1>3, <1>6, <2>1, NoElementsIs, PendingKept
<1>12. CallsTyped'
  BY <1>1 DEF TreeInv, CallsTyped
<1> QED
  BY <1>6, <1>9, <1>10, <1>11, <1>12 DEF TreeInv

LEMMA SplitRootIs ==
  ASSUME TreeInv, SplitRoot
  PROVE  /\ stack # << >> /\ Top.node = root /\ Finished /\ TooLarge
         /\ stack' = << >> /\ UNCHANGED <<ops, expected>>
         /\ SplitUnder(root') /\ root' \notin DOMAIN nodes
         /\ nodes'[root'] = [pivots |-> Kids, elements |-> NoElements]
         /\ came'[root'] = came[root]
         /\ dirty' \subseteq DOMAIN nodes'
<1>1. /\ Finished /\ TooLarge /\ Len(stack) = 1 /\ root' = <<next_id + 1, 0>>
      /\ nodes' = Put(NodesSplit, root', [NewNode EXCEPT !.pivots = Kids])
      /\ came' = Put(CameSplit, root', came[root])
      /\ dirty' = Touched(KidIds \cup {root'}) \ {root} /\ next_id' = next_id + 2
      /\ stack' = << >> /\ UNCHANGED <<ops, expected>>
  BY DEF SplitRoot, callVars
<1>2. stack # << >> /\ Top.node = root
  BY <1>1, FinishedIs DEF TreeInv, IsStack, Top
<1>3. /\ DOMAIN nodes \subseteq NodeIds /\ next_id \in Nat /\ root \in DOMAIN nodes
      /\ \A x \in DOMAIN nodes : x[1] < next_id /\ x[1] \in Nat
      /\ dirty \subseteq DOMAIN nodes
  BY DEF TreeInv, HeapTyped, NodeIds
<1>4. /\ KidIds \cap DOMAIN nodes = {} /\ \A k \in Cuts(Me) : Kids[k] \in KidIds
      /\ \A x \in KidIds : x[1] = next_id
  BY <1>1, KidsAre
<1>5. /\ root' \in NodeIds /\ root'[1] = next_id + 1 /\ root'[1] < next_id'
      /\ next_id' \in Nat /\ next_id' > next_id
  BY <1>1, <1>3 DEF NodeIds
<1>6. root' \notin DOMAIN nodes /\ root' \notin KidIds
  BY <1>3, <1>4, <1>5
<1>7. /\ DOMAIN NodesSplit = (DOMAIN nodes \ {root}) \cup KidIds
      /\ \A j \in DOMAIN nodes : j # root => NodesSplit[j] = nodes[j]
      /\ \A k \in Cuts(Me) : NodesSplit[Kids[k]] = Parts[k]
      /\ DOMAIN CameSplit = (DOMAIN nodes \ {root}) \cup KidIds
      /\ \A j \in DOMAIN nodes : j # root => CameSplit[j] = came[j]
      /\ \A k \in Cuts(Me) : CameSplit[Kids[k]] = Share(k)
  BY <1>1, <1>2, NodesSplitIs
<1> DEFINE H == [NewNode EXCEPT !.pivots = Kids]
<1>8. H = [pivots |-> Kids, elements |-> NoElements]
  BY DEF NewNode
<1> HIDE DEF H
<1>9. /\ DOMAIN nodes' = DOMAIN NodesSplit \cup {root'} /\ nodes'[root'] = H /\ IsFunction(nodes')
      /\ \A y \in DOMAIN NodesSplit : y # root' => nodes'[y] = NodesSplit[y]
  <2>1. nodes' = Put(NodesSplit, root', H)
    BY <1>1 DEF H
  <2> QED
    BY <2>1 DEF Put, IsFunction
<1>10. /\ DOMAIN came' = DOMAIN CameSplit \cup {root'} /\ came'[root'] = came[root] /\ IsFunction(came')
       /\ \A y \in DOMAIN CameSplit : y # root' => came'[y] = CameSplit[y]
  BY <1>1 DEF Put, IsFunction
<1>11. SplitUnder(root')
  <2>1. \A j \in DOMAIN nodes : j # root => nodes'[j] = nodes[j] /\ came'[j] = came[j]
    BY <1>6, <1>7, <1>9, <1>10
  <2>2. \A k \in Cuts(Me) : nodes'[Kids[k]] = Parts[k] /\ came'[Kids[k]] = Share(k)
    BY <1>4, <1>6, <1>7, <1>9, <1>10
  <2>3. \A j \in DOMAIN nodes : \A q \in DOMAIN nodes[j].pivots : nodes[j].pivots[q] # root
    BY DEF TreeInv, IsTree
  <2>4. DOMAIN nodes' = (DOMAIN nodes \ {root}) \cup KidIds \cup {root'} /\ DOMAIN came' = DOMAIN nodes'
    BY <1>7, <1>9, <1>10
  <2> QED
    BY <1>2, <1>3, <1>5, <1>6, <1>9, <1>10, <2>1, <2>2, <2>3, <2>4 DEF SplitUnder
<1>12. dirty' \subseteq DOMAIN nodes'
  BY <1>1, <1>3, <1>7, <1>9 DEF Touched
<1> QED
  BY <1>1, <1>2, <1>6, <1>8, <1>9, <1>10, <1>11, <1>12

LEMMA SplitRootAbove ==
  ASSUME TreeInv, SplitRoot
  PROVE  IsAbove(root')
<1> DEFINE H == nodes'[root']
           C == Cuts(Me)
<1>1. /\ stack # << >> /\ Top.node = root /\ Finished /\ TooLarge
      /\ H = [pivots |-> Kids, elements |-> NoElements] /\ came'[root'] = came[root]
  BY SplitRootIs
<1>2. /\ C \in SUBSET Nat /\ C \subseteq DOMAIN came[root] /\ root \in DOMAIN nodes
  BY <1>1, CutsFacts
<1>3. DOMAIN Kids = C /\ IsFunction(Kids)
  BY <1>1, KidsAre
<1> HIDE DEF H, C
<1>4. /\ IsRecord(H) /\ H.pivots = Kids /\ H.elements = NoElements
  BY <1>1 DEF IsRecord
<1>5. IsElements(H.elements) /\ KeysOf(H.elements) = {} /\ IsCame(came'[root'])
  BY <1>1, <1>2, <1>4, NoElementsIs, NodeFacts DEF TreeInv
<1>6. ASSUME NEW k \in C PROVE DOMAIN Share(k) \subseteq DOMAIN came'[root'] \cap Between(H, k)
  <2>1. SUFFICES ASSUME NEW j \in DOMAIN Share(k) PROVE j \in DOMAIN came[root] /\ j \in Between(H, k)
    BY <1>1
  <2>2. j \in DOMAIN came[root] /\ k <= j /\ j \in PartOf(C, k)
    BY <1>1, ShareIs DEF C
  <2>3. \A q \in C : k < q => j < q
    BY <2>2 DEF PartOf
  <2>4. j \in Keys
    BY <1>2, <2>2, NodeFacts DEF TreeInv, IsCame
  <2> QED
    BY <1>3, <1>4, <2>2, <2>3, <2>4 DEF Between
<1> QED
  BY <1>1, <1>2, <1>3, <1>4, <1>5, <1>6 DEF IsAbove, H, C

LEMMA SplitRootKeeps ==
  ASSUME TreeInv, SplitRoot
  PROVE  TreeInv'
<1>1. /\ Finished /\ TooLarge /\ stack' = << >>
      /\ SplitUnder(root') /\ IsAbove(root') /\ dirty' \subseteq DOMAIN nodes'
      /\ UNCHANGED <<ops, expected>>
  BY SplitRootIs, SplitRootAbove
<1>2. IsStack' /\ PendingWithinPivots'
  BY <1>1, EndKeeps
<1>3. IsSeq(stack') /\ DOMAIN stack' = {}
  BY <1>1, EmptyIsSeq
<1>4. HeapTyped'
  BY <1>1, <1>3, SplitHeapTyped
<1>5. IsTree' /\ KeysWithinPivots' /\ LeavesHoldInserts'
  BY <1>1, SplitIsTree, SplitWithinPivots
<1>6. CallsTyped'
  BY <1>1 DEF TreeInv, CallsTyped
<1> QED
  BY <1>2, <1>4, <1>5, <1>6 DEF TreeInv

LEMMA FlushStepKeepsTree ==
  ASSUME TreeInv, FlushStep
  PROVE  TreeInv'
BY FlushLeafKeeps, FlushThroughKeeps, FlushToBufferKeeps, ApplyNextKeeps, FlushChildKeeps,
   ReturnWholeKeeps, ReturnWholeFailsKeeps, ReturnSplitKeeps, EndUpsertKeeps, SplitRootKeeps
   DEF FlushStep

LEMMA FlushInitTree ==
  ASSUME FlushInit
  PROVE  TreeInv
<1>1. /\ root = <<0, 0>> /\ nodes = [i \in {root} |-> NewNode] /\ next_id = 1
      /\ dirty \subseteq {root} /\ stack = << >> /\ ops = 0
      /\ expected = [k \in Keys |-> NULL] /\ came = [i \in {root} |-> << >>]
  BY DEF FlushInit
<1>2. DOMAIN stack = {} /\ stack \in Seq({stack[f] : f \in DOMAIN stack})
  BY <1>1, EmptyIsSeq DEF IsSeq
<1>3. /\ DOMAIN nodes = {root} /\ nodes[root].pivots = NoPivots /\ nodes[root].elements = NoElements
      /\ nodes[root] = [pivots |-> NoPivots, elements |-> NoElements]
      /\ DOMAIN came = {root} /\ came[root] = << >>
  BY <1>1 DEF NewNode
<1>4. DOMAIN NoPivots = {} /\ DOMAIN NoElements = {} /\ DOMAIN << >> = {}
  BY DEF NoPivots, NoElements
<1>5. IsNode(nodes[root])
  <2>1. NoPivots \in [DOMAIN NoPivots -> DOMAIN nodes]
    BY <1>4 DEF NoPivots
  <2> QED
    BY <1>3, <1>4, <2>1, NoElementsIs DEF IsNode
<1>6. IsCame(came[root])
  BY <1>3, <1>4 DEF IsCame
<1>7. HeapTyped
  <2>1. /\ nodes \in [DOMAIN nodes -> {nodes[i] : i \in DOMAIN nodes}]
        /\ came \in [DOMAIN nodes -> {came[i] : i \in DOMAIN nodes}]
    BY <1>1
  <2>2. DOMAIN nodes \subseteq NodeIds /\ next_id \in Nat /\ \A i \in DOMAIN nodes : i[1] < next_id
    BY <1>1, <1>3 DEF NodeIds
  <2> QED
    BY <1>1, <1>2, <1>3, <1>5, <1>6, <2>1, <2>2 DEF HeapTyped
<1>8. CallsTyped
  BY <1>1, MaxOpsAssumption DEF CallsTyped
<1>9. IsTree
  BY <1>3, <1>4 DEF IsTree
<1>10. IsStack /\ PendingWithinPivots
  BY <1>1, <1>2 DEF IsStack, PendingWithinPivots
<1>11. KeysWithinPivots /\ LeavesHoldInserts
  BY <1>3, <1>4 DEF KeysWithinPivots, LeavesHoldInserts, is_leaf, KeysOf, ProperLeaf
<1> QED
  BY <1>7, <1>8, <1>9, <1>10, <1>11 DEF TreeInv
=============================================================================
