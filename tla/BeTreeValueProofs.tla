-------------------------- MODULE BeTreeValueProofs --------------------------
(***************************************************************************)
(* What the messages in a tree are worth: their order on the way down,     *)
(* what they make of a key, and what a query finds.  Every step of a flush *)
(* or a query keeps it, in both trees.                                     *)
(***************************************************************************)
EXTENDS BeTreeFlushProofs

(***************************************************************************)
(* The inductive invariant, going on from TreeInv.                         *)
(***************************************************************************)

(* Timestamps.                                                             *)

\* The messages on top are newer than all that came to the node before them.
PendingAreNewer ==
  \A f \in DOMAIN stack :
    LET n == nodes[stack[f].node]
    IN \A m \in DOMAIN stack[f].elts :
         /\ m[2] <= came[stack[f].node][m[1]].ts
         /\ \A x \in MessagesOf(n.elements, m[1]) : x[2] < m[2]
         /\ \A p \in DOMAIN n.pivots :
              LET c == came[n.pivots[p]] IN m[1] \in DOMAIN c => c[m[1]].ts < m[2]

OrderInv == OlderBelow /\ PendingAreNewer

\* Without updates no order is needed.
OnlyOnce(e) == \A m \in DOMAIN e : e[m].op # UPDATE /\ MessagesOf(e, m[1]) = {m}

BlindInv ==
  /\ \A i \in DOMAIN nodes : OnlyOnce(nodes[i].elements)
  /\ \A f \in DOMAIN stack : OnlyOnce(stack[f].elts)

-----------------------------------------------------------------------------
(* Values.                                                                 *)

\* What the messages that came to node i make of k.
Known(i, k) == IF k \in DOMAIN came[i] THEN came[i][k].means ELSE NULL

\* What those that left for its children make of it.
Below(i, k) ==
  LET Has(p) == k \in DOMAIN came[nodes[i].pivots[p]]
  IN IF \E p \in DOMAIN nodes[i].pivots : Has(p)
       THEN Known(nodes[i].pivots[CHOOSE p \in DOMAIN nodes[i].pivots : Has(p)], k)
       ELSE NULL

\* The messages S for one key in e say what each call made of the value before it,
\* which was b before the first; behind the first there are only updates.
Prior(S, m) == {x \in S : x[2] < m[2]}

Linked(e, S, b) ==
  \A m \in S :
    /\ Prior(S, m) = {} => e[m].means = Meaning(b, e[m].op, e[m].val)
    /\ \A y \in Prior(S, m) :
         (\A x \in Prior(S, m) : x[2] <= y[2]) =>
           e[m].op = UPDATE /\ e[m].means = Meaning(e[y].means, UPDATE, e[m].val)

After(e, S, b) == IF S = {} THEN b ELSE e[Latest(S)].means

\* The messages for k that wait in node i, and those on their way into it.
Waiting(i, k) == MessagesOf(nodes[i].elements, k) \ Sent(i)
Pending(i)    == IF stack # << >> /\ Top.node = i THEN Top.elts ELSE NoElements

Explained(i, k) ==
  LET here == After(nodes[i].elements, Waiting(i, k), Below(i, k))
      new  == MessagesOf(Pending(i), k)
  IN /\ Linked(nodes[i].elements, Waiting(i, k), Below(i, k))
     /\ Linked(Pending(i), new, here)
     /\ Known(i, k) = After(Pending(i), new, here)

\* An insert or a delete means what it says.
Literal(e) ==
  \A m \in DOMAIN e : /\ e[m].op = INSERT => e[m].means = e[m].val
                      /\ e[m].op = DELETE => e[m].means = NULL

ValueInv ==
  /\ \A i \in DOMAIN nodes : Literal(nodes[i].elements)
  /\ \A f \in DOMAIN stack : Literal(stack[f].elts)
  /\ \A i \in DOMAIN nodes, k \in Keys : Explained(i, k)
  /\ \A k \in Keys : expected[k] = Known(root, k)

-----------------------------------------------------------------------------
(* The query in progress.                                                  *)

\* The first message for k in node i, if it has one, is an update.
UpdatesOnly(i, k) ==
  LET e == nodes[i].elements
      S == MessagesOf(e, k)
  IN S # {} => e[Earliest(S)].op = UPDATE

\* The search for k goes on from node i to node c.
LeadsTo(i, c, k) ==
  /\ \E p \in DOMAIN nodes[i].pivots : c = nodes[i].pivots[p] /\ k \in Between(nodes[i], p)
  /\ UpdatesOnly(i, k)

OnTheWay(path, k) ==
  /\ path # << >> /\ path[1] = root
  /\ \A j \in DOMAIN path : path[j] \in DOMAIN nodes
  /\ \A j \in DOMAIN path : j # Len(path) => LeadsTo(path[j], path[j + 1], k)

\* Of the messages S for a key in e those in left have still to be added to v.
Adding(e, S, left, v) ==
  /\ S # {} /\ left \subseteq S /\ v \in Value
  /\ \A x \in left, y \in S : x[2] < y[2] => y \in left
  /\ \A x \in left : e[x].op = UPDATE
  /\ left = {} => v = e[Latest(S)].means
  /\ \A m \in left :
       (\A x \in left : m[2] <= x[2]) => e[m].means = v \o e[m].val

Asks(a) ==
  LET i == a.path[Len(a.path)]
      e == nodes[i].elements
  IN /\ a = [key |-> a.key, path |-> a.path, at |-> a.at, left |-> a.left, value |-> a.value]
     /\ a.key \in Keys
     /\ a.path \in Seq({a.path[j] : j \in DOMAIN a.path})
     /\ a.at \in {"down", "up", "add", "answer"}
     /\ a.at # "answer" => OnTheWay(a.path, a.key)
     /\ a.at = "up" => /\ ~is_leaf(nodes[i]) /\ UpdatesOnly(i, a.key)
                       /\ a.value = Below(i, a.key)
     /\ a.at = "add" => Adding(e, MessagesOf(e, a.key), a.left, a.value)
     /\ a.at = "answer" => a.value = expected[a.key]

QueryInv == asked # NULL => stack = << >> /\ Asks(asked)

-----------------------------------------------------------------------------
(* Messages that are with a child.                                         *)

LEMMA SentNone ==
  ASSUME NEW i, \A f \in DOMAIN stack : stack[f].node = i => stack[f].at # "child"
  PROVE  Sent(i) = {}
BY DEF Sent

LEMMA SentSome ==
  ASSUME IsStack, NEW f \in DOMAIN stack
  PROVE  Sent(stack[f].node) =
           IF stack[f].at = "child" THEN ElementsFor(nodes[stack[f].node], stack[f].pivot) ELSE {}
<1>1. \A g \in DOMAIN stack : stack[g].node = stack[f].node => g = f
  BY DEF IsStack
<1>2. \A n, p : ElementsFor(n, p) \subseteq DOMAIN n.elements
  BY DEF ElementsFor
<1> QED
  BY <1>1, <1>2 DEF Sent

\* The frame on top sends nothing.
LEMMA SentByTop ==
  ASSUME TreeInv, stack # << >>
  PROVE  Sent(Top.node) = {}
<1>1. Len(stack) \in DOMAIN stack /\ Top.at # "child"
  BY TopFacts DEF TreeInv, IsStack
<1> QED
  BY <1>1, SentSome DEF Top, TreeInv

LEMMA SentByCaller ==
  ASSUME TreeInv, stack # << >>, Len(stack) > 1
  PROVE  Sent(Caller.node) = ElementsFor(nodes[Caller.node], Caller.pivot)
<1>1. /\ Len(stack) - 1 \in DOMAIN stack /\ Caller.at \in {"child", "through"}
      /\ Caller.at = "through" => ElementsFor(nodes[Caller.node], Caller.pivot) = {}
  BY OneParent DEF TreeInv
<1> QED
  BY <1>1, SentSome DEF Caller, TreeInv

LEMMA SentOf ==
  ASSUME IsStack', NEW i, NEW f \in DOMAIN stack', stack'[f].node = i
  PROVE  Sent(i)' = IF stack'[f].at = "child" THEN ElementsFor(nodes'[i], stack'[f].pivot) ELSE {}
<1>1. \A g \in DOMAIN stack' : stack'[g].node = i => g = f
  BY DEF IsStack
<1>2. \A n, p : ElementsFor(n, p) \subseteq DOMAIN n.elements
  BY DEF ElementsFor
<1> QED
  BY <1>1, <1>2 DEF Sent

LEMMA SentSame ==
  ASSUME NEW j, nodes'[j] = nodes[j],
         \A f \in DOMAIN stack : stack[f].node = j => \E g \in DOMAIN stack' : stack'[g] = stack[f],
         \A g \in DOMAIN stack' : stack'[g].node = j => \E f \in DOMAIN stack : stack'[g] = stack[f]
  PROVE  Sent(j)' = Sent(j)
BY DEF Sent

LEMMA SentBecame ==
  ASSUME TreeInv, IsStack', stack # << >>, NEW f, Became(f), f.node = Top.node, f.at # "child",
         OthersKept, NEW j \in DOMAIN nodes
  PROVE  Sent(j)' = IF j = Top.node THEN {} ELSE Sent(j)
<1>1. /\ DOMAIN stack' = DOMAIN stack /\ stack'[Len(stack)] = f
      /\ \A g \in DOMAIN stack : g # Len(stack) => stack'[g] = stack[g]
      /\ Len(stack) \in DOMAIN stack /\ stack[Len(stack)] = Top
  BY TopFacts DEF Became, Top, TreeInv
<1>2. CASE j = Top.node
  BY <1>1, <1>2, SentOf
<1>3. CASE j # Top.node
  BY <1>1, <1>3, SentSame DEF OthersKept
<1> QED
  BY <1>2, <1>3

LEMMA SentCalled ==
  ASSUME TreeInv, IsStack', stack # << >>, NEW f, NEW c, NEW e, Called(f, Frame(c, e)),
         f.node = Top.node, OthersKept, c # Top.node, NEW j \in DOMAIN nodes
  PROVE  Sent(j)' = IF j # Top.node THEN Sent(j)
                    ELSE IF f.at = "child" THEN ElementsFor(nodes'[j], f.pivot) ELSE {}
<1>1. /\ DOMAIN stack' = 1..(Len(stack) + 1) /\ stack'[Len(stack)] = f
      /\ stack'[Len(stack) + 1] = Frame(c, e)
      /\ \A g \in DOMAIN stack : g # Len(stack) => stack'[g] = stack[g]
      /\ Len(stack) \in DOMAIN stack /\ stack[Len(stack)] = Top
      /\ DOMAIN stack = 1..Len(stack) /\ Len(stack) \in Nat
  BY TopFacts DEF Called, Top, TreeInv
<1>2. \A g \in DOMAIN stack' : g \in DOMAIN stack \/ g = Len(stack) + 1
  BY <1>1
<1>3. Len(stack) \in DOMAIN stack' /\ Len(stack) + 1 \in DOMAIN stack'
  BY <1>1
<1>4. \A g \in DOMAIN stack : g \in DOMAIN stack'
  BY <1>1
<1>5. CASE j = Top.node
  BY <1>1, <1>3, <1>5, SentOf
<1>6. CASE j # Top.node /\ j # c
  <2>1. Frame(c, e).node # j
    BY <1>6 DEF Frame
  <2> QED
    BY <1>1, <1>2, <1>4, <1>6, <2>1, SentSame DEF OthersKept
<1>7. CASE j # Top.node /\ j = c
  <2>1. stack'[Len(stack) + 1].node = j /\ stack'[Len(stack) + 1].at = "enter"
    BY <1>1, <1>7 DEF Frame
  <2>2. Sent(j)' = {}
    BY <1>3, <2>1, SentOf
  <2>3. \A g \in DOMAIN stack : stack[g].node # j
    <3>1. \A g \in DOMAIN stack : stack[g].node = j => g = Len(stack) + 1
      <4>1. \A g \in DOMAIN stack : stack'[g].node = stack[g].node
        BY <1>1
      <4> QED
        BY <1>3, <1>4, <2>1, <4>1 DEF IsStack
    <3> QED
      BY <1>1, <3>1
  <2> QED
    BY <1>7, <2>2, <2>3, SentNone
<1> QED
  BY <1>5, <1>6, <1>7

LEMMA SentReturned ==
  ASSUME TreeInv, IsStack', stack # << >>, Len(stack) > 1, NEW f, Returned(f),
         f.node = Caller.node, f.at # "child", NEW j
  PROVE  /\ j = Caller.node => Sent(j)' = {}
         /\ j # Top.node /\ j # Caller.node /\ nodes'[j] = nodes[j] => Sent(j)' = Sent(j)
         /\ j = Top.node \/ j \notin DOMAIN nodes => Sent(j)' = {}
<1> DEFINE l == Len(stack) - 1
<1>1. /\ DOMAIN stack' = 1..l /\ stack'[l] = f
      /\ \A g \in 1..l : g # l => stack'[g] = stack[g]
      /\ l \in 1..l /\ \A g \in 1..l : g \in DOMAIN stack
      /\ \A g \in DOMAIN stack : g \in 1..l \/ g = Len(stack)
      /\ \A g \in 1..l : g # Len(stack)
      /\ stack[Len(stack)] = Top /\ stack[l] = Caller
  <2>1. Len(stack) \in Nat /\ DOMAIN stack = 1..Len(stack)
    BY TopFacts DEF TreeInv
  <2>2. \A n \in Nat : n > 1 => /\ n - 1 \in 1..(n - 1) /\ \A g \in 1..(n - 1) : g \in 1..n /\ g # n
                                /\ \A g \in 1..n : g \in 1..(n - 1) \/ g = n
    OBVIOUS
  <2> QED
    BY <2>1, <2>2 DEF Returned, Top, Caller
<1> HIDE DEF l
<1>2. ASSUME j = Caller.node PROVE Sent(j)' = {}
  BY <1>1, <1>2, SentOf
<1>3. ASSUME j # Top.node, j # Caller.node, nodes'[j] = nodes[j] PROVE Sent(j)' = Sent(j)
  BY <1>1, <1>3, SentSame
<1>4. ASSUME j = Top.node \/ j \notin DOMAIN nodes PROVE Sent(j)' = {}
  <2>1. \A g \in 1..l : stack[g].node # Top.node /\ stack[g].node \in DOMAIN nodes
    BY <1>1, TopFacts DEF IsFrame, TreeInv
  <2>2. \A g \in DOMAIN stack' : stack'[g].node # j
    BY <1>1, <1>4, <2>1
  <2> QED
    BY <2>2 DEF Sent
<1> QED
  BY <1>2, <1>3, <1>4

LEMMA SentAtEnd ==
  ASSUME NEW j
  PROVE  /\ stack = << >> => Sent(j) = {}
         /\ stack' = << >> => Sent(j)' = {}
         /\ DOMAIN stack = {1} /\ stack[1].at # "child" => Sent(j) = {}
         /\ DOMAIN stack' = {1} /\ stack'[1].at # "child" => Sent(j)' = {}
BY EmptyIsSeq DEF Sent

-----------------------------------------------------------------------------
(* Order: a node's messages and children against what came to it.          *)

LEMMA CameFacts ==
  ASSUME NEW c, IsCame(c), NEW k \in DOMAIN c
  PROVE  c[k].ts \in Nat /\ c[k].means \in Value \cup {NULL} /\ k \in Keys /\ k \in Nat
BY KeysAssumption, MaxOpsAssumption DEF IsCame, Timestamps

Ordered(n, c, S, cm) ==
  /\ \A m \in DOMAIN n.elements : m[2] <= c[m[1]].ts
  /\ \A p \in DOMAIN n.pivots :
       LET d == cm[n.pivots[p]]
       IN /\ \A k \in DOMAIN d : d[k].ts <= c[k].ts
          /\ \A m \in ElementsFor(n, p) \ S : m[1] \in DOMAIN d => d[m[1]].ts < m[2]

LEMMA OlderIs ==
  /\ OlderBelow <=> \A i \in DOMAIN nodes : Ordered(nodes[i], came[i], Sent(i), came)
  /\ OlderBelow' <=> \A i \in DOMAIN nodes' : Ordered(nodes'[i], came'[i], Sent(i)', came')
BY DEF OlderBelow, Ordered

\* Messages e are newer than what is in a node that c came to.
Newer(e, n, c, cm) ==
  \A m \in DOMAIN e :
    /\ m[2] <= c[m[1]].ts
    /\ \A x \in MessagesOf(n.elements, m[1]) : x[2] < m[2]
    /\ \A p \in DOMAIN n.pivots :
         LET d == cm[n.pivots[p]] IN m[1] \in DOMAIN d => d[m[1]].ts < m[2]

LEMMA PendingNewerIs ==
  ASSUME TreeInv
  PROVE  PendingAreNewer <=>
           (stack # << >> => Newer(Top.elts, nodes[Top.node], came[Top.node], came))
<1>1. DOMAIN NoElements = {}
  BY NoElementsIs
<1>2. PendingAreNewer <=> \A f \in DOMAIN stack :
        Newer(stack[f].elts, nodes[stack[f].node], came[stack[f].node], came)
  BY DEF PendingAreNewer, Newer
<1>3. CASE stack = << >>
  BY <1>2, <1>3, EmptyIsSeq
<1>4. CASE stack # << >>
  <2>1. /\ Len(stack) \in DOMAIN stack /\ stack[Len(stack)] = Top
        /\ \A f \in DOMAIN stack : f # Len(stack) => stack[f].elts = NoElements
    BY <1>4, TopFacts DEF TreeInv, Top
  <2>2. \A n, c, cm : Newer(NoElements, n, c, cm)
    BY <1>1 DEF Newer
  <2> QED
    BY <1>2, <1>4, <2>1, <2>2
<1> QED
  BY <1>3, <1>4

\* The same of the next state, f being the frame on top there.
LEMMA NextNewerIs ==
  ASSUME IsStack', stack' # << >>, NEW f, f = stack'[Len(stack')],
         Newer(f.elts, nodes'[f.node], came'[f.node], came')
  PROVE  PendingAreNewer'
<1>1. \A g \in DOMAIN stack' : g # Len(stack') => stack'[g].elts = NoElements
  BY DEF IsStack, Waits
<1>2. DOMAIN NoElements = {}
  BY NoElementsIs
<1> QED
  BY <1>1, <1>2 DEF PendingAreNewer, Newer

LEMMA NoneNewer == \A n, c, cm : Newer(NoElements, n, c, cm)
BY NoElementsIs DEF Newer

\* m is the last message for k.
IsLast(m, e, k) ==
  /\ m \in DOMAIN e /\ m[1] = k
  /\ \A x \in MessagesOf(e, k) : x[2] <= m[2]

LEMMA LastExists ==
  ASSUME NEW e, IsElements(e), NEW k \in KeysOf(e)
  PROVE  IsLast(Latest(MessagesOf(e, k)), e, k)
<1>1. MessagesOf(e, k) # {}
  BY DEF MessagesOf, KeysOf
<1>2. Latest(MessagesOf(e, k)) \in MessagesOf(e, k) /\ \A x \in MessagesOf(e, k) : x[2] <= Latest(MessagesOf(e, k))[2]
  BY <1>1, LatestOf
<1>3. \A m : m \in MessagesOf(e, k) => m \in DOMAIN e /\ m[1] = k
  BY DEF MessagesOf
<1> QED
  BY <1>2, <1>3 DEF IsLast

\* a is what came to a node, that old came to, after elements e have come.
Gains(a, old, e) ==
  /\ IsCame(a) /\ DOMAIN a = DOMAIN old \cup KeysOf(e)
  /\ \A k \in DOMAIN old : k \notin KeysOf(e) => a[k] = old[k]
  /\ \A k \in KeysOf(e) : \E m : IsLast(m, e, k) /\ a[k].ts = m[2] /\ a[k].means = e[m].means

LEMMA ArrivedFacts ==
  ASSUME NEW old, IsCame(old), NEW e, IsElements(e), NEW a, a = Arrived(old, e)
  PROVE  Gains(a, old, e)
<1>1. IsCame(a) /\ DOMAIN a = DOMAIN old \cup KeysOf(e)
  BY ArrivedIs
<1>2. ASSUME NEW k \in DOMAIN old, k \notin KeysOf(e) PROVE a[k] = old[k]
  BY <1>2 DEF Arrived
<1>3. ASSUME NEW k \in KeysOf(e)
      PROVE  \E m : IsLast(m, e, k) /\ a[k].ts = m[2] /\ a[k].means = e[m].means
  <2> DEFINE m == Latest(MessagesOf(e, k))
  <2>1. IsLast(m, e, k)
    BY LastExists
  <2>2. a[k] = [ts |-> m[2], means |-> e[m].means]
    BY DEF Arrived
  <2> HIDE DEF m
  <2> QED
    BY <2>1, <2>2
<1> QED
  BY <1>1, <1>2, <1>3 DEF Gains

\* Messages e are newer than all that came so far.
Fresh(e, c) == \A m \in DOMAIN e : m[1] \in DOMAIN c => c[m[1]].ts < m[2]

\* To the children of n nothing has come.
SameBelow(n, cm, cm2) == \A p \in DOMAIN n.pivots : cm2[n.pivots[p]] = cm[n.pivots[p]]

\* Newer messages come to a node: it stays in order, and so do they.
LEMMA ArrivedOrdered ==
  ASSUME TreeInv, NEW c \in DOMAIN nodes, NEW e, IsElements(e), NEW a, a = Arrived(came[c], e),
         Fresh(e, came[c])
  PROVE  /\ \A k \in DOMAIN came[c] : k \in DOMAIN a /\ came[c][k].ts <= a[k].ts
         /\ \A m \in DOMAIN e : m[1] \in DOMAIN a /\ m[2] <= a[m[1]].ts
         /\ \A k \in DOMAIN a : \/ k \in DOMAIN came[c] /\ a[k].ts = came[c][k].ts
                                \/ \E m \in DOMAIN e : m[1] = k /\ a[k].ts = m[2]
<1>1. IsCame(came[c])
  BY NodeFacts DEF TreeInv
<1>2. /\ IsCame(a) /\ DOMAIN a = DOMAIN came[c] \cup KeysOf(e)
      /\ \A k \in DOMAIN came[c] : k \notin KeysOf(e) => a[k] = came[c][k]
      /\ \A k \in KeysOf(e) : \E m : IsLast(m, e, k) /\ a[k].ts = m[2] /\ a[k].means = e[m].means
  <2>1. Gains(a, came[c], e)
    BY <1>1, ArrivedFacts
  <2> QED
    BY <2>1 DEF Gains
<1>3. ASSUME NEW k \in KeysOf(e)
      PROVE  \E m \in DOMAIN e : /\ m[1] = k /\ a[k].ts = m[2]
                                 /\ \A x \in MessagesOf(e, k) : x[2] <= m[2]
  BY <1>2 DEF IsLast
<1>4. \A m \in DOMAIN e : m[1] \in KeysOf(e) /\ m \in MessagesOf(e, m[1]) /\ m[2] \in Nat
  BY ElementFacts DEF KeysOf, MessagesOf
<1>5. ASSUME NEW k \in DOMAIN came[c] PROVE k \in DOMAIN a /\ came[c][k].ts <= a[k].ts
  <2>1. came[c][k].ts \in Nat
    BY <1>1, CameFacts
  <2>2. CASE k \in KeysOf(e)
    BY <1>2, <1>3, <1>4, <2>1, <2>2 DEF Fresh
  <2>3. CASE k \notin KeysOf(e)
    BY <1>2, <2>1, <2>3
  <2> QED
    BY <2>2, <2>3
<1>6. ASSUME NEW m \in DOMAIN e PROVE m[1] \in DOMAIN a /\ m[2] <= a[m[1]].ts
  BY <1>2, <1>3, <1>4
<1>7. ASSUME NEW k \in DOMAIN a
      PROVE  \/ k \in DOMAIN came[c] /\ a[k].ts = came[c][k].ts
             \/ \E m \in DOMAIN e : m[1] = k /\ a[k].ts = m[2]
  <2>1. CASE k \in KeysOf(e)
    BY <1>3, <2>1
  <2>2. CASE k \notin KeysOf(e)
    BY <1>2, <2>2
  <2> QED
    BY <2>1, <2>2
<1> QED
  BY <1>5, <1>6, <1>7


-----------------------------------------------------------------------------
(* Order is kept by every step of a flush.                                 *)

\* Where nothing changes, order stays.
LEMMA OrderedSame ==
  ASSUME NEW n, NEW c, NEW S, NEW cm, Ordered(n, c, S, cm), NEW S2, S \subseteq S2, NEW cm2,
         SameBelow(n, cm, cm2)
  PROVE  Ordered(n, c, S2, cm2)
BY DEF Ordered, SameBelow

LEMMA KidsApart ==
  ASSUME TreeInv, NEW j \in DOMAIN nodes, NEW p \in DOMAIN nodes[j].pivots
  PROVE  /\ nodes[j].pivots[p] \in DOMAIN nodes
         /\ DOMAIN came[nodes[j].pivots[p]] \subseteq DOMAIN came[j]
         /\ DOMAIN came[nodes[j].pivots[p]] \subseteq Between(nodes[j], p)
BY NodeFacts DEF TreeInv, KeysWithinPivots

LEMMA OwnKeys ==
  ASSUME TreeInv, NEW j \in DOMAIN nodes
  PROVE  \A m \in DOMAIN nodes[j].elements : m[1] \in DOMAIN came[j] /\ m[2] \in Nat
<1>1. KeysOf(nodes[j].elements) \subseteq DOMAIN came[j] /\ IsElements(nodes[j].elements)
  BY NodeFacts DEF TreeInv, KeysWithinPivots
<1> QED
  BY <1>1, ElementFacts DEF KeysOf

\* A node that newer messages come to stays in order, and they are newer than what it has.
LEMMA NewcomersOrdered ==
  ASSUME TreeInv, OlderBelow, NEW c \in DOMAIN nodes, NEW e, IsElements(e),
         Fresh(e, came[c]), NEW a, a = Arrived(came[c], e),
         NEW cm, SameBelow(nodes[c], came, cm)
  PROVE  /\ Ordered(nodes[c], a, Sent(c), cm)
         /\ Newer(e, nodes[c], a, cm)
<1>1. /\ \A k \in DOMAIN came[c] : k \in DOMAIN a /\ came[c][k].ts <= a[k].ts
      /\ \A m \in DOMAIN e : m[1] \in DOMAIN a /\ m[2] <= a[m[1]].ts
  BY ArrivedOrdered
<1>2. Ordered(nodes[c], came[c], Sent(c), came)
  BY OlderIs
<1>3. IsCame(came[c]) /\ IsCame(a)
  BY NodeFacts, ArrivedIs DEF TreeInv
<1>4. \A k \in DOMAIN came[c] : came[c][k].ts \in Nat /\ a[k].ts \in Nat
  BY <1>1, <1>3, CameFacts
<1>5. \A m \in DOMAIN nodes[c].elements : m[1] \in DOMAIN came[c] /\ m[2] \in Nat
  BY OwnKeys
<1>6. \A p \in DOMAIN nodes[c].pivots :
        /\ IsCame(came[nodes[c].pivots[p]])
        /\ DOMAIN came[nodes[c].pivots[p]] \subseteq DOMAIN came[c]
  BY KidsApart, NodeFacts DEF TreeInv
<1>7. \A m \in DOMAIN e : m[2] \in Nat
  BY ElementFacts
<1>8. Ordered(nodes[c], a, Sent(c), cm)
  <2>1. ASSUME NEW m \in DOMAIN nodes[c].elements PROVE m[2] <= a[m[1]].ts
    BY <1>1, <1>2, <1>4, <1>5 DEF Ordered
  <2>2. ASSUME NEW p \in DOMAIN nodes[c].pivots, NEW k \in DOMAIN came[nodes[c].pivots[p]]
        PROVE  came[nodes[c].pivots[p]][k].ts <= a[k].ts
    <3>1. k \in DOMAIN came[c] /\ came[nodes[c].pivots[p]][k].ts \in Nat
      BY <1>6, CameFacts
    <3>2. came[nodes[c].pivots[p]][k].ts <= came[c][k].ts
      BY <1>2 DEF Ordered
    <3> QED
      BY <1>1, <1>4, <3>1, <3>2
  <2> QED
    BY <1>2, <2>1, <2>2 DEF Ordered, SameBelow
<1>9. Newer(e, nodes[c], a, cm)
  <2>1. ASSUME NEW m \in DOMAIN e, NEW x \in MessagesOf(nodes[c].elements, m[1]) PROVE x[2] < m[2]
    <3>1. x \in DOMAIN nodes[c].elements /\ x[1] = m[1]
      BY DEF MessagesOf
    <3>2. x[2] <= came[c][m[1]].ts /\ m[1] \in DOMAIN came[c] /\ x[2] \in Nat
      BY <1>2, <1>5, <3>1 DEF Ordered
    <3> QED
      BY <1>4, <1>7, <3>2 DEF Fresh
  <2>2. ASSUME NEW m \in DOMAIN e, NEW p \in DOMAIN nodes[c].pivots,
               m[1] \in DOMAIN came[nodes[c].pivots[p]]
        PROVE  came[nodes[c].pivots[p]][m[1]].ts < m[2]
    <3>1. /\ m[1] \in DOMAIN came[c] /\ came[nodes[c].pivots[p]][m[1]].ts \in Nat
      BY <1>6, <2>2, CameFacts
    <3>2. came[nodes[c].pivots[p]][m[1]].ts <= came[c][m[1]].ts
      BY <1>2, <2>2 DEF Ordered
    <3> QED
      BY <1>4, <1>7, <3>1, <3>2 DEF Fresh
  <2> QED
    BY <1>1, <2>1, <2>2 DEF Newer, SameBelow
<1> QED
  BY <1>8, <1>9

LEMMA FlushLeafOrder ==
  ASSUME TreeInv, OrderInv, FlushLeaf, TreeInv'
  PROVE  OrderInv'
<1> DEFINE f == [Top EXCEPT !.at = "apply"]
<1>1. /\ stack # << >> /\ stack' = Become(f)
      /\ UNCHANGED <<nodes, came>>
  BY DEF FlushLeaf, At, treeVars, historyVars
<1>2. IsFrameRecord(Top)
  BY <1>1, TopFacts DEF TreeInv
<1>3. f.node = Top.node /\ f.at = "apply" /\ f.elts = Top.elts
  BY <1>2 DEF IsFrameRecord
<1> HIDE DEF f
<1>4. Became(f)
  BY <1>1, BecomeStack DEF TreeInv
<1>5. OthersKept
  BY <1>1 DEF OthersKept
<1>6. \A j \in DOMAIN nodes : Sent(j)' = Sent(j)
  <2>1. \A j \in DOMAIN nodes : Sent(j)' = IF j = Top.node THEN {} ELSE Sent(j)
    BY <1>1, <1>3, <1>4, <1>5, SentBecame DEF TreeInv
  <2> QED
    BY <1>1, <2>1, SentByTop
<1>7. OlderBelow'
  BY <1>1, <1>6, OlderIs DEF OrderInv
<1>8. PendingAreNewer'
  <2>1. Newer(Top.elts, nodes[Top.node], came[Top.node], came)
    BY <1>1, PendingNewerIs DEF OrderInv
  <2>2. stack' # << >> /\ stack'[Len(stack')] = f
    BY <1>4 DEF Became
  <2> QED
    BY <1>1, <1>3, <2>1, <2>2, NextNewerIs DEF TreeInv
<1> QED
  BY <1>7, <1>8 DEF OrderInv


\* The node on top loses nothing but perhaps its first pivot's key to a smaller one.
Relabeled(n) ==
  /\ n.elements = Me.elements
  /\ \A p \in DOMAIN n.pivots : \E q \in DOMAIN Me.pivots :
       /\ n.pivots[p] = Me.pivots[q] /\ ElementsFor(n, p) = ElementsFor(Me, q)
       /\ Between(Me, q) \subseteq Between(n, p)
  /\ \A q \in DOMAIN Me.pivots : \E p \in DOMAIN n.pivots : n.pivots[p] = Me.pivots[q]

\* The frame on top goes on as f, in its node.
Goes(f) ==
  /\ stack # << >> /\ Became(f) /\ f.node = Top.node /\ f.at = "apply"
  /\ Top.node \in DOMAIN nodes /\ Me = nodes[Top.node]
  /\ DOMAIN nodes' = DOMAIN nodes /\ OthersKept
  /\ stack' # << >> /\ f = stack'[Len(stack')]
  /\ UNCHANGED <<root, came, ops, expected>>

\* The frame on top goes on as f and gives e to the child c of its node.
Enters(f, c, e) ==
  /\ stack # << >> /\ Called(f, Frame(c, e)) /\ f.node = Top.node /\ f.elts = NoElements
  /\ f.at \in {"child", "through"}
  /\ Top.node \in DOMAIN nodes /\ Me = nodes[Top.node] /\ Relabeled(nodes'[Top.node])
  /\ f.pivot \in DOMAIN nodes'[Top.node].pivots /\ nodes'[Top.node].pivots[f.pivot] = c
  /\ f.at = "through" => ElementsFor(nodes'[Top.node], f.pivot) = {}
  /\ DOMAIN nodes' = DOMAIN nodes /\ OthersKept
  /\ IsElements(e) /\ c \in DOMAIN nodes /\ c # Top.node
  /\ \A g \in DOMAIN stack : stack[g].node # c
  /\ KeysOf(e) \subseteq DOMAIN came[Top.node] \cap Between(nodes'[Top.node], f.pivot)
  /\ came'[c] = Arrived(came[c], e) /\ \A j \in DOMAIN nodes : j # c => came'[j] = came[j]
  /\ stack' # << >> /\ Frame(c, e) = stack'[Len(stack')]
  /\ UNCHANGED <<root, ops, expected>>

LEMMA FlushToBufferIs ==
  ASSUME TreeInv, FlushToBuffer
  PROVE  /\ \E f : Goes(f) /\ f.elts = Top.elts
         /\ nodes'[Top.node] = Lowered /\ Relabeled(Lowered)
<1> DEFINE f == [Top EXCEPT !.at = "apply", !.first = First]
           i == Top.node
<1>1. /\ stack # << >> /\ ~is_leaf(Me) /\ stack' = Become(f)
      /\ nodes' = [nodes EXCEPT ![i] = Lowered] /\ Top.at = "enter"
      /\ UNCHANGED <<root, came, ops, expected>>
  BY DEF FlushToBuffer, At, callVars, historyVars
<1>2. /\ IsFrameRecord(Top) /\ i \in DOMAIN nodes /\ Me = nodes[i]
  BY <1>1, TopFacts DEF Me, TreeInv
<1>3. f.node = i /\ f.at = "apply" /\ f.elts = Top.elts
  BY <1>2 DEF IsFrameRecord
<1>4. Became(f)
  BY <1>1, BecomeStack DEF TreeInv
<1>5. Top.elts # NoElements
  BY <1>1 DEF IsStack, TreeInv
<1>6. Relabeled(Lowered)
  BY <1>1, <1>5, LoweredFacts DEF Relabeled
<1> HIDE DEF f
<1>7. /\ DOMAIN nodes' = DOMAIN nodes /\ nodes'[i] = Lowered
      /\ \A j \in DOMAIN nodes : j # i => nodes'[j] = nodes[j]
  BY <1>1, <1>2, HeapSame, ExceptIs DEF TreeInv
<1>8. stack' # << >> /\ f = stack'[Len(stack')]
  BY <1>4 DEF Became
<1> QED
  BY <1>1, <1>2, <1>3, <1>4, <1>6, <1>7, <1>8 DEF Goes, OthersKept

LEMMA FlushThroughIs ==
  ASSUME TreeInv, FlushThrough, ElementsFor(Lowered, First) = {}
  PROVE  /\ \E f, c : Enters(f, c, Top.elts) /\ f.at = "through"
         /\ nodes'[Top.node] = Lowered
<1> DEFINE f == [Top EXCEPT !.at = "through", !.elts = NoElements,
                            !.first = First, !.pivot = First]
           i == Top.node
           e == Top.elts
           c == Lowered.pivots[First]
<1>1. /\ stack # << >> /\ ~is_leaf(Me) /\ stack' = Append(Become(f), Frame(c, e))
      /\ nodes' = [nodes EXCEPT ![i] = Lowered]
      /\ came' = [came EXCEPT ![c] = Arrived(@, e)]
      /\ Top.at = "enter" /\ First = Last
      /\ UNCHANGED <<root, ops, expected>>
  BY DEF FlushThrough, At, callVars, Calls, OneDirtyChild
<1>2. /\ IsFrameRecord(Top) /\ i \in DOMAIN nodes /\ Me = nodes[i] /\ IsElements(e)
  BY <1>1, TopFacts DEF Me, TreeInv
<1>3. f.node = i /\ f.at = "through" /\ f.elts = NoElements /\ f.pivot = First
  BY <1>2 DEF IsFrameRecord
<1>4. Called(f, Frame(c, e))
  BY <1>1, CallStack DEF TreeInv
<1>5. e # NoElements
  BY <1>1 DEF IsStack, TreeInv
<1>6. Relabeled(Lowered)
  BY <1>1, <1>5, LoweredFacts DEF Relabeled
<1>7. First \in DOMAIN Lowered.pivots /\ KeysOf(e) \subseteq Between(Lowered, First)
  BY <1>1, <1>5, FirstIs
<1>8. \E q \in DOMAIN Me.pivots : c = Me.pivots[q]
  BY <1>6, <1>7 DEF Relabeled
<1> HIDE DEF f
<1>9. c \in DOMAIN nodes
  BY <1>2, <1>8, NodeFacts DEF TreeInv
<1>10. \A g \in DOMAIN stack : stack[g].node # c
  BY <1>1, <1>2, <1>8, ChildIsNew DEF TreeInv
<1>11. c # i
  BY <1>1, <1>10, TopFacts DEF Top, TreeInv
<1>12. /\ DOMAIN nodes' = DOMAIN nodes /\ nodes'[i] = Lowered
       /\ \A j \in DOMAIN nodes : j # i => nodes'[j] = nodes[j]
  BY <1>1, <1>2, HeapSame, ExceptIs DEF TreeInv
<1> HIDE DEF c
<1>13. came'[c] = Arrived(came[c], e) /\ \A j \in DOMAIN nodes : j # c => came'[j] = came[j]
  BY <1>1, <1>2, <1>9, CameGains DEF TreeInv
<1>14. KeysOf(e) \subseteq DOMAIN came[i]
  BY <1>1, TopFacts DEF PendingWithinPivots, Top, TreeInv
<1>15. stack' # << >> /\ Frame(c, e) = stack'[Len(stack')]
  BY <1>4 DEF Called
<1>16. Enters(f, c, e)
  <2>1. nodes'[i].pivots[f.pivot] = c /\ f.pivot \in DOMAIN nodes'[i].pivots
    BY <1>3, <1>7, <1>12 DEF c
  <2>2. OthersKept
    BY <1>12 DEF OthersKept
  <2>3. KeysOf(e) \subseteq DOMAIN came[i] \cap Between(nodes'[i], f.pivot)
    BY <1>3, <1>7, <1>12, <1>14
  <2>4. Relabeled(nodes'[i]) /\ ElementsFor(nodes'[i], f.pivot) = {}
    BY <1>3, <1>6, <1>12
  <2> QED
    BY <1>1, <1>2, <1>3, <1>4, <1>9, <1>10, <1>11, <1>12, <1>13, <1>15, <2>1, <2>2, <2>3, <2>4
       DEF Enters
<1> QED
  BY <1>3, <1>12, <1>16

LEMMA FlushChildEnters ==
  ASSUME TreeInv, FlushChild
  PROVE  LET p == Fullest(Me)
         IN /\ \E f : Enters(f, Me.pivots[p], BatchFor(p)) /\ f.at = "child" /\ f.pivot = p
            /\ nodes' = nodes /\ p \in DOMAIN Me.pivots
            /\ DOMAIN BatchFor(p) = ElementsFor(Me, p)
            /\ \A m \in DOMAIN BatchFor(p) : BatchFor(p)[m] = Me.elements[m]
<1> DEFINE p == Fullest(Me)
           i == Top.node
           e == BatchFor(p)
           c == Me.pivots[p]
           f == [Top EXCEPT !.at = "child", !.pivot = p]
<1>1. /\ stack # << >> /\ Top.at = "apply" /\ Top.elts = NoElements
      /\ i \in DOMAIN nodes /\ Me = nodes[i] /\ ~is_leaf(Me)
      /\ p \in DOMAIN Me.pivots /\ c \in DOMAIN nodes
      /\ stack' = Append(Become(f), Frame(c, e))
      /\ came' = [came EXCEPT ![c] = Arrived(@, e)]
      /\ UNCHANGED <<nodes, root, ops, expected>>
  BY FlushChildIs DEF Calls
<1>2. IsFrameRecord(Top)
  BY <1>1, TopFacts DEF TreeInv
<1>3. f.node = i /\ f.at = "child" /\ f.elts = NoElements /\ f.pivot = p
  BY <1>1, <1>2 DEF IsFrameRecord
<1>4. Called(f, Frame(c, e))
  BY <1>1, CallStack DEF TreeInv
<1> HIDE DEF f, p
<1>5. /\ IsElements(e) /\ DOMAIN e = ElementsFor(Me, p)
      /\ \A m \in DOMAIN e : e[m] = Me.elements[m]
      /\ KeysOf(e) \subseteq DOMAIN came[i] \cap Between(Me, p)
  BY <1>1, BatchIs DEF BatchFor, TreeInv
<1>6. \A g \in DOMAIN stack : stack[g].node # c
  BY <1>1, ChildIsNew DEF TreeInv
<1>7. c # i
  BY <1>1, <1>6, TopFacts DEF Top, TreeInv
<1>8. came'[c] = Arrived(came[c], e) /\ \A j \in DOMAIN nodes : j # c => came'[j] = came[j]
  <2> HIDE DEF e, c
  <2> QED
    BY <1>1, <1>5, CameGains DEF TreeInv
<1>9. stack' # << >> /\ Frame(c, e) = stack'[Len(stack')]
  BY <1>4 DEF Called
<1>10. Relabeled(nodes'[i])
  <2>1. nodes'[i] = Me
    BY <1>1
  <2> QED
    BY <2>1 DEF Relabeled
<1>11. Enters(f, c, e)
  <2>1. nodes'[i].pivots[f.pivot] = c /\ f.pivot \in DOMAIN nodes'[i].pivots /\ f.at # "through"
    BY <1>1, <1>3
  <2>2. OthersKept
    BY <1>1 DEF OthersKept
  <2>3. KeysOf(e) \subseteq DOMAIN came[i] \cap Between(nodes'[i], f.pivot)
    BY <1>1, <1>3, <1>5
  <2> HIDE DEF e, c
  <2> QED
    BY <1>1, <1>3, <1>4, <1>5, <1>6, <1>7, <1>8, <1>9, <1>10, <2>1, <2>2, <2>3 DEF Enters
<1> HIDE DEF e, c
<1>12. \E g : Enters(g, c, e) /\ g.at = "child" /\ g.pivot = p
  BY <1>3, <1>11
<1> QED
  BY <1>1, <1>5, <1>12 DEF p, e, c


LEMMA FlushToBufferOrder ==
  ASSUME TreeInv, OrderInv, FlushToBuffer, TreeInv'
  PROVE  OrderInv'
<1> DEFINE i == Top.node
<1>1. PICK f : Goes(f) /\ f.elts = Top.elts
  BY FlushToBufferIs
<1>2. nodes'[i] = Lowered /\ Relabeled(Lowered)
  BY FlushToBufferIs
<1>3. /\ stack # << >> /\ i \in DOMAIN nodes /\ Me = nodes[i] /\ came' = came
      /\ DOMAIN nodes' = DOMAIN nodes /\ f.node = i
  BY <1>1 DEF Goes
<1>4. \A j \in DOMAIN nodes : Sent(j)' = IF j = i THEN {} ELSE Sent(j)
  BY <1>1, SentBecame DEF Goes, TreeInv
<1>5. Sent(i) = {}
  BY <1>3, SentByTop
<1>6. Ordered(Me, came[i], {}, came)
  BY <1>3, <1>5, OlderIs DEF OrderInv
<1>7. Ordered(Lowered, came[i], {}, came)
  <2>1. \A m \in DOMAIN Lowered.elements : m[2] <= came[i][m[1]].ts
    BY <1>2, <1>6 DEF Ordered, Relabeled
  <2>2. ASSUME NEW p \in DOMAIN Lowered.pivots
        PROVE  LET d == came[Lowered.pivots[p]]
               IN /\ \A k \in DOMAIN d : d[k].ts <= came[i][k].ts
                  /\ \A m \in ElementsFor(Lowered, p) \ {} : m[1] \in DOMAIN d => d[m[1]].ts < m[2]
    <3>1. PICK q \in DOMAIN Me.pivots :
            Lowered.pivots[p] = Me.pivots[q] /\ ElementsFor(Lowered, p) = ElementsFor(Me, q)
      BY <1>2 DEF Relabeled
    <3> QED
      BY <1>6, <3>1 DEF Ordered
  <2> QED
    BY <2>1, <2>2 DEF Ordered
<1>8. OlderBelow'
  <2>1. ASSUME NEW j \in DOMAIN nodes PROVE Ordered(nodes'[j], came'[j], Sent(j)', came')
    <3>1. CASE j = i
      BY <1>2, <1>3, <1>4, <1>7, <3>1
    <3>2. CASE j # i
      <4>1. nodes'[j] = nodes[j] /\ Sent(j)' = Sent(j)
        BY <1>1, <1>4, <3>2 DEF Goes, OthersKept
      <4> QED
        BY <1>3, <4>1, OlderIs DEF OrderInv
    <3> QED
      BY <3>1, <3>2
  <2> QED
    BY <1>3, <2>1, OlderIs
<1>9. PendingAreNewer'
  <2>1. Newer(Top.elts, Me, came[i], came)
    BY <1>3, PendingNewerIs DEF OrderInv
  <2>2. Newer(Top.elts, Lowered, came[i], came)
    <3>1. \A p \in DOMAIN Lowered.pivots : \E q \in DOMAIN Me.pivots : Lowered.pivots[p] = Me.pivots[q]
      BY <1>2 DEF Relabeled
    <3>2. Lowered.elements = Me.elements
      BY <1>2 DEF Relabeled
    <3> QED
      BY <2>1, <3>1, <3>2 DEF Newer
  <2>3. stack' # << >> /\ f = stack'[Len(stack')]
    BY <1>1 DEF Goes
  <2> QED
    BY <1>1, <1>2, <1>3, <2>2, <2>3, NextNewerIs DEF TreeInv
<1> QED
  BY <1>8, <1>9 DEF OrderInv

\* Messages that came to the node on top, newer than all that came to the child.
LEMMA EntersOrder ==
  ASSUME TreeInv, OrderInv, TreeInv', NEW f, NEW c, NEW e, Enters(f, c, e),
         \A m \in DOMAIN e : m[2] <= came[Top.node][m[1]].ts,
         Fresh(e, came[c])
  PROVE  OrderInv'
<1> DEFINE i == Top.node
           n == nodes'[i]
           a == came'[c]
           S == IF f.at = "child" THEN ElementsFor(n, f.pivot) ELSE {}
<1>1. /\ stack # << >> /\ i \in DOMAIN nodes /\ c \in DOMAIN nodes /\ c # i /\ Me = nodes[i]
      /\ DOMAIN nodes' = DOMAIN nodes /\ IsElements(e) /\ Relabeled(n)
      /\ \A j \in DOMAIN nodes : j # i => nodes'[j] = nodes[j]
      /\ \A j \in DOMAIN nodes : j # c => came'[j] = came[j]
      /\ a = Arrived(came[c], e)
      /\ f.pivot \in DOMAIN n.pivots /\ n.pivots[f.pivot] = c /\ f.node = i
  BY DEF Enters, OthersKept
<1>2. \A j \in DOMAIN nodes : Sent(j)' = IF j # i THEN Sent(j) ELSE S
  BY SentCalled DEF Enters, TreeInv
<1>3. \A j \in DOMAIN nodes : \A p \in DOMAIN nodes'[j].pivots :
        /\ nodes'[j].pivots[p] \in DOMAIN nodes
        /\ nodes'[j].pivots[p] = c => j = i /\ p = f.pivot
  <2>1. \A j \in DOMAIN nodes' : \A p \in DOMAIN nodes'[j].pivots : nodes'[j].pivots[p] \in DOMAIN nodes'
    BY DEF TreeInv, HeapTyped, IsNode
  <2>2. \A j \in DOMAIN nodes' : \A p \in DOMAIN nodes'[j].pivots :
          nodes'[j].pivots[p] = nodes'[i].pivots[f.pivot] => j = i /\ p = f.pivot
    BY <1>1 DEF TreeInv, IsTree
  <2> QED
    BY <1>1, <2>1, <2>2
<1>4. Sent(i) = {}
  BY <1>1, SentByTop
<1>5. \A j \in DOMAIN nodes : Ordered(nodes[j], came[j], Sent(j), came)
  BY OlderIs DEF OrderInv
<1>6. Ordered(Me, came[i], {}, came)
  BY <1>1, <1>4, <1>5
<1>7. \A k \in DOMAIN a : \/ k \in DOMAIN came[c] /\ a[k].ts = came[c][k].ts
                          \/ \E m \in DOMAIN e : m[1] = k /\ a[k].ts = m[2]
  BY <1>1, ArrivedOrdered
<1> HIDE DEF n, a, S
<1>8. Ordered(n, came[i], S, came')
  <2>1. \A m \in DOMAIN n.elements : m[2] <= came[i][m[1]].ts
    BY <1>1, <1>6 DEF Ordered, Relabeled
  <2>2. ASSUME NEW p \in DOMAIN n.pivots
        PROVE  LET d == came'[n.pivots[p]]
               IN /\ \A k \in DOMAIN d : d[k].ts <= came[i][k].ts
                  /\ \A m \in ElementsFor(n, p) \ S : m[1] \in DOMAIN d => d[m[1]].ts < m[2]
    <3>1. PICK q \in DOMAIN Me.pivots :
            n.pivots[p] = Me.pivots[q] /\ ElementsFor(n, p) = ElementsFor(Me, q)
      BY <1>1 DEF Relabeled
    <3>2. CASE n.pivots[p] # c
      <4>1. n.pivots[p] \in DOMAIN nodes
        BY <1>1, <1>3 DEF n
      <4>2. came'[n.pivots[p]] = came[n.pivots[p]]
        BY <1>1, <3>2, <4>1
      <4> QED
        BY <1>6, <3>1, <4>2 DEF Ordered
    <3>3. CASE n.pivots[p] = c
      <4>1. p = f.pivot
        BY <1>1, <1>3, <3>3 DEF n
      <4>2. ElementsFor(n, p) \ S = {}
        <5>1. f.at = "child" \/ ElementsFor(n, p) = {}
          BY <4>1 DEF Enters, n
        <5> QED
          BY <4>1, <5>1 DEF S
      <4>3. \A k \in DOMAIN came[c] : came[c][k].ts <= came[i][k].ts
        BY <1>6, <3>1, <3>3 DEF Ordered
      <4>4. \A k \in DOMAIN a : a[k].ts <= came[i][k].ts
        BY <1>7, <4>3
      <4> QED
        BY <3>3, <4>2, <4>4 DEF a
    <3> QED
      BY <3>2, <3>3
  <2> QED
    BY <2>1, <2>2 DEF Ordered
<1>9. /\ Ordered(nodes[c], a, Sent(c), came')
      /\ Newer(e, nodes[c], a, came')
  <2>1. SameBelow(nodes[c], came, came')
    BY <1>1, <1>3 DEF SameBelow
  <2> QED
    BY <1>1, <2>1, NewcomersOrdered DEF OrderInv
<1>10. OlderBelow'
  <2>1. ASSUME NEW j \in DOMAIN nodes PROVE Ordered(nodes'[j], came'[j], Sent(j)', came')
    <3>1. CASE j = i
      BY <1>1, <1>2, <1>8, <3>1 DEF n
    <3>2. CASE j = c
      BY <1>1, <1>2, <1>9, <3>2 DEF a
    <3>3. CASE j # i /\ j # c
      <4>1. nodes'[j] = nodes[j] /\ came'[j] = came[j] /\ Sent(j)' = Sent(j)
        BY <1>1, <1>2, <3>3
      <4>2. SameBelow(nodes[j], came, came')
        BY <1>1, <1>3, <3>3, <4>1 DEF SameBelow
      <4> QED
        BY <1>5, <4>1, <4>2, OrderedSame
    <3> QED
      BY <3>1, <3>2, <3>3
  <2> QED
    BY <1>1, <2>1, OlderIs
<1>11. PendingAreNewer'
  <2>1. stack' # << >> /\ Frame(c, e) = stack'[Len(stack')]
    BY DEF Enters
  <2>2. Newer(e, nodes'[c], came'[c], came')
    BY <1>1, <1>9 DEF a
  <2>3. Frame(c, e).node = c /\ Frame(c, e).elts = e
    BY DEF Frame
  <2> QED
    BY <2>1, <2>2, <2>3, NextNewerIs DEF TreeInv
<1> QED
  BY <1>10, <1>11 DEF OrderInv

LEMMA FlushThroughOrder ==
  ASSUME TreeInv, OrderInv, FlushThrough, TreeInv'
  PROVE  OrderInv'
<1> DEFINE i == Top.node
           e == Top.elts
<1>1. CASE ElementsFor(Lowered, First) # {}
  <2>1. nodes' = nodes /\ stack' = stack /\ came' = came
    BY <1>1 DEF FlushThrough
  <2> QED
    BY <2>1 DEF OrderInv, OlderBelow, PendingAreNewer, Sent
<1>2. CASE ElementsFor(Lowered, First) = {}
  <2>1. PICK f, c : Enters(f, c, e) /\ f.at = "through"
    BY <1>2, FlushThroughIs
  <2>2. /\ stack # << >> /\ Me = nodes[i] /\ Relabeled(nodes'[i])
        /\ f.pivot \in DOMAIN nodes'[i].pivots /\ nodes'[i].pivots[f.pivot] = c
    BY <2>1 DEF Enters
  <2>3. Newer(e, Me, came[i], came)
    BY <2>2, PendingNewerIs DEF OrderInv
  <2>4. \E q \in DOMAIN Me.pivots : c = Me.pivots[q]
    BY <2>2 DEF Relabeled
  <2>5. Fresh(e, came[c]) /\ \A m \in DOMAIN e : m[2] <= came[i][m[1]].ts
    BY <2>3, <2>4 DEF Newer, Fresh
  <2> QED
    BY <2>1, <2>5, EntersOrder
<1> QED
  BY <1>1, <1>2

LEMMA FlushChildOrder ==
  ASSUME TreeInv, OrderInv, FlushChild, TreeInv'
  PROVE  OrderInv'
<1> DEFINE i == Top.node
           p == Fullest(Me)
           e == BatchFor(p)
           c == Me.pivots[p]
<1>1. /\ \E f : Enters(f, c, e) /\ f.at = "child" /\ f.pivot = p
      /\ nodes' = nodes /\ p \in DOMAIN Me.pivots
      /\ DOMAIN e = ElementsFor(Me, p)
      /\ \A m \in DOMAIN e : e[m] = Me.elements[m]
  BY FlushChildEnters
<1> HIDE DEF p, e, c
<1>2. PICK f : Enters(f, c, e) /\ f.at = "child" /\ f.pivot = p
  BY <1>1
<1>3. stack # << >> /\ i \in DOMAIN nodes /\ Me = nodes[i]
  BY <1>2 DEF Enters
<1>4. Ordered(Me, came[i], {}, came)
  BY <1>3, SentByTop, OlderIs DEF OrderInv
<1>5. \A m \in DOMAIN e : m \in DOMAIN Me.elements
  BY <1>1 DEF ElementsFor
<1>6. Fresh(e, came[c]) /\ \A m \in DOMAIN e : m[2] <= came[i][m[1]].ts
  BY <1>1, <1>4, <1>5 DEF Ordered, Fresh, c
<1> QED
  BY <1>2, <1>6, EntersOrder


\* Message m is applied to the node on top, which is n then, and f goes on with the rest.
Applies(m, n, f) ==
  /\ Goes(f) /\ IsElements(Top.elts) /\ m \in DOMAIN Top.elts /\ m \in MessageKeys
  /\ Top.elts[m] \in Message /\ m[1] \in DOMAIN came[Top.node]
  /\ DOMAIN f.elts = DOMAIN Top.elts \ {m}
  /\ \A b \in DOMAIN f.elts : f.elts[b] = Top.elts[b] /\ (b[1] = m[1] => m[2] < b[2])
  /\ nodes'[Top.node] = n /\ n = Apply(Me, m, Top.elts[m])
  /\ IsRecord(Me) /\ IsElements(Me.elements) /\ n.pivots = Me.pivots
  /\ DOMAIN n.elements \subseteq DOMAIN Me.elements \cup {m} /\ IsElements(n.elements)

LEMMA ApplyNextIs ==
  ASSUME TreeInv, ApplyNext
  PROVE  \E m, n, f : Applies(m, n, f)
<1> DEFINE i == Top.node
           e == Top.elts
           m == Earliest(DOMAIN e)
           n == Apply(Me, m, e[m])
           f == [Top EXCEPT !.elts = Without(@, {m})]
<1>1. /\ stack # << >> /\ Top.at = "apply" /\ e # NoElements
      /\ nodes' = [nodes EXCEPT ![i] = Apply(@, m, e[m])] /\ stack' = Become(f)
      /\ UNCHANGED <<root, came, ops, expected>>
  BY DEF ApplyNext, At, callVars, historyVars
<1>2. /\ IsFrameRecord(Top) /\ i \in DOMAIN nodes /\ IsElements(e) /\ Me = nodes[i]
  BY <1>1, TopFacts DEF Me, TreeInv
<1>3. f.node = i /\ f.at = "apply" /\ f.elts = Without(e, {m})
  BY <1>1, <1>2 DEF IsFrameRecord
<1>4. Became(f)
  BY <1>1, BecomeStack DEF TreeInv
<1>5. /\ m \in DOMAIN e /\ m \in MessageKeys /\ e[m] \in Message /\ m[1] \in KeysOf(e)
      /\ \A b \in DOMAIN e \ {m} : Before(m, b)
  <2>1. DOMAIN e \in SUBSET (Nat \X Nat) /\ DOMAIN e # {}
    BY <1>1, <1>2, ElementFacts, NothingLeft
  <2>2. m \in DOMAIN e /\ \A b \in DOMAIN e \ {m} : Before(m, b)
    BY <2>1, EarliestIs
  <2> HIDE DEF m, e
  <2> QED
    BY <1>2, <2>2 DEF IsElements, KeysOf
<1>6. nodes' = [nodes EXCEPT ![i] = n]
  BY <1>1, <1>2
<1>7. IsRecord(Me) /\ IsElements(Me.elements)
  BY <1>2, NodeFacts DEF TreeInv
<1>8. /\ n = [pivots |-> Me.pivots, elements |-> n.elements]
      /\ IsElements(n.elements) /\ DOMAIN n.elements \subseteq DOMAIN Me.elements \cup {m}
  <2> HIDE DEF m, e
  <2> QED
    BY <1>5, <1>7, ApplyTyped
<1> HIDE DEF f, n, m
<1>9. n.pivots = Me.pivots
  BY <1>8
<1>10. /\ DOMAIN nodes' = DOMAIN nodes /\ nodes'[i] = n
       /\ \A j \in DOMAIN nodes : j # i => nodes'[j] = nodes[j]
  BY <1>6, <1>2, HeapSame, ExceptIs DEF TreeInv
<1>11. KeysOf(e) \subseteq DOMAIN came[i]
  BY <1>1, TopFacts DEF PendingWithinPivots, Top, TreeInv
<1>12. /\ DOMAIN f.elts = DOMAIN e \ {m}
       /\ \A b \in DOMAIN f.elts : f.elts[b] = e[b]
  BY <1>3 DEF Without, Restrict
<1>13. \A b \in DOMAIN f.elts : b[1] = m[1] => m[2] < b[2]
  <2>1. m[1] \in Nat /\ \A b \in DOMAIN e : b[1] \in Nat
    BY <1>2, <1>5, ElementFacts
  <2> QED
    BY <1>5, <1>12, <2>1 DEF Before
<1>14. Goes(f)
  <2>1. stack' # << >> /\ f = stack'[Len(stack')]
    BY <1>4 DEF Became
  <2> QED
    BY <1>1, <1>2, <1>3, <1>4, <1>10, <2>1 DEF Goes, OthersKept
<1>15. Applies(m, n, f)
  BY <1>2, <1>5, <1>7, <1>8, <1>9, <1>10, <1>11, <1>12, <1>13, <1>14 DEF Applies, n
<1> QED
  BY <1>15

LEMMA ApplyNextOrder ==
  ASSUME TreeInv, OrderInv, ApplyNext, TreeInv'
  PROVE  OrderInv'
<1> DEFINE i == Top.node
<1>1. PICK m, n, f : Applies(m, n, f)
  BY ApplyNextIs
<1>2. /\ stack # << >> /\ i \in DOMAIN nodes /\ Me = nodes[i] /\ came' = came
      /\ DOMAIN nodes' = DOMAIN nodes /\ f.node = i /\ Goes(f)
      /\ nodes'[i] = n /\ n.pivots = Me.pivots
      /\ DOMAIN n.elements \subseteq DOMAIN Me.elements \cup {m}
      /\ m \in DOMAIN Top.elts
  BY <1>1 DEF Goes, Applies
<1>3. \A j \in DOMAIN nodes : Sent(j)' = IF j = i THEN {} ELSE Sent(j)
  BY <1>2, SentBecame DEF Goes, TreeInv
<1>4. Ordered(Me, came[i], {}, came)
  BY <1>2, SentByTop, OlderIs DEF OrderInv
<1>5. Newer(Top.elts, Me, came[i], came)
  BY <1>2, PendingNewerIs DEF OrderInv
<1>6. Ordered(n, came[i], {}, came)
  <2>1. \A x \in DOMAIN n.elements : x[2] <= came[i][x[1]].ts
    BY <1>2, <1>4, <1>5 DEF Ordered, Newer
  <2>2. ASSUME NEW p \in DOMAIN n.pivots
        PROVE  LET d == came[n.pivots[p]]
               IN /\ \A k \in DOMAIN d : d[k].ts <= came[i][k].ts
                  /\ \A x \in ElementsFor(n, p) \ {} : x[1] \in DOMAIN d => d[x[1]].ts < x[2]
    <3>1. ElementsFor(n, p) \subseteq ElementsFor(Me, p) \cup {m}
      BY <1>2 DEF ElementsFor
    <3> QED
      BY <1>2, <1>4, <1>5, <3>1 DEF Ordered, Newer
  <2> QED
    BY <2>1, <2>2 DEF Ordered
<1>7. OlderBelow'
  <2>1. ASSUME NEW j \in DOMAIN nodes PROVE Ordered(nodes'[j], came'[j], Sent(j)', came')
    <3>1. CASE j = i
      BY <1>2, <1>3, <1>6, <3>1
    <3>2. CASE j # i
      <4>1. nodes'[j] = nodes[j] /\ Sent(j)' = Sent(j)
        BY <1>2, <1>3, <3>2 DEF Goes, OthersKept
      <4> QED
        BY <1>2, <4>1, OlderIs DEF OrderInv
    <3> QED
      BY <3>1, <3>2
  <2> QED
    BY <1>2, <2>1, OlderIs
<1>8. PendingAreNewer'
  <2>1. Newer(f.elts, n, came[i], came)
    <3>1. ASSUME NEW b \in DOMAIN f.elts
          PROVE  /\ b[2] <= came[i][b[1]].ts
                 /\ \A x \in MessagesOf(n.elements, b[1]) : x[2] < b[2]
                 /\ \A p \in DOMAIN n.pivots :
                      LET d == came[n.pivots[p]] IN b[1] \in DOMAIN d => d[b[1]].ts < b[2]
      <4>1. b \in DOMAIN Top.elts /\ (b[1] = m[1] => m[2] < b[2])
        BY <1>1 DEF Applies
      <4>2. MessagesOf(n.elements, b[1]) \subseteq
              MessagesOf(Me.elements, b[1]) \cup {x \in {m} : x[1] = b[1]}
        BY <1>2 DEF MessagesOf
      <4> QED
        BY <1>2, <1>5, <4>1, <4>2 DEF Newer
    <3> QED
      BY <3>1 DEF Newer
  <2>2. stack' # << >> /\ f = stack'[Len(stack')]
    BY <1>2 DEF Goes
  <2> QED
    BY <1>2, <2>1, <2>2, NextNewerIs DEF TreeInv
<1> QED
  BY <1>7, <1>8 DEF OrderInv

-----------------------------------------------------------------------------
(* Order when a flush returns.                                             *)

\* The frame on top returns, its caller going on as f, its node being a.
Returns(a, f) ==
  /\ stack # << >> /\ Len(stack) > 1 /\ Returned(f)
  /\ f.node = Caller.node /\ f.at \in {"apply", "done"} /\ f.elts = NoElements
  /\ Caller.node \in DOMAIN nodes /\ Caller.pivot \in DOMAIN nodes[Caller.node].pivots
  /\ Top.node \in DOMAIN nodes /\ Caller.node # Top.node
  /\ nodes[Caller.node].pivots[Caller.pivot] = Top.node
  /\ IsNode(a) /\ a.pivots = nodes[Caller.node].pivots
  /\ Sent(Caller.node) = ElementsFor(nodes[Caller.node], Caller.pivot)
  /\ DOMAIN a.elements = DOMAIN nodes[Caller.node].elements \ Sent(Caller.node)
  /\ \A m \in DOMAIN a.elements : a.elements[m] = nodes[Caller.node].elements[m]
  /\ Top.elts = NoElements /\ Sent(Top.node) = {}
  /\ stack' # << >> /\ f = stack'[Len(stack')]
  /\ UNCHANGED <<ops, expected>>

LEMMA ReturnsIs ==
  ASSUME TreeInv, Finished, Len(stack) > 1, NEW v \in Nat \cup {NULL},
         NEW f, f = [Resumed EXCEPT !.first = v], stack' = Return(f), UNCHANGED <<ops, expected>>
  PROVE  Returns(AfterBatch(nodes[Caller.node]), f)
<1> DEFINE i == Caller.node
           n == nodes[i]
           a == AfterBatch(n)
<1>1. /\ stack # << >> /\ Top.node \in DOMAIN nodes /\ Top.elts = NoElements
  BY FinishedIs, TopFacts DEF TreeInv
<1>2. /\ i \in DOMAIN nodes /\ Caller.pivot \in DOMAIN n.pivots /\ i # Top.node
      /\ n.pivots[Caller.pivot] = Top.node
  BY <1>1, OneParent DEF TreeInv
<1>3. /\ IsNode(a) /\ a.pivots = n.pivots
      /\ DOMAIN a.elements = DOMAIN n.elements \ ElementsFor(n, Caller.pivot)
      /\ \A m \in DOMAIN a.elements : a.elements[m] = n.elements[m]
  BY <1>1, AfterBatchIs DEF TreeInv
<1>4. f.node = i /\ f.at \in {"apply", "done"} /\ f.elts = NoElements
  BY <1>1, ResumedIs DEF ResumedAt, TreeInv
<1>5. Returned(f)
  BY <1>1, ReturnStack DEF TreeInv
<1>6. stack' # << >> /\ f = stack'[Len(stack')]
  BY <1>5 DEF Returned
<1>7. Sent(i) = ElementsFor(n, Caller.pivot) /\ Sent(Top.node) = {}
  BY <1>1, SentByCaller, SentByTop
<1> HIDE DEF a
<1> QED
  BY <1>1, <1>2, <1>3, <1>4, <1>5, <1>6, <1>7 DEF Returns, a

LEMMA ReturnWholeIs ==
  ASSUME TreeInv, ReturnWhole
  PROVE  LET a == AfterBatch(nodes[Caller.node])
         IN /\ Returns(a, Resumed) /\ nodes'[Caller.node] = a
            /\ DOMAIN nodes' = DOMAIN nodes
            /\ \A j \in DOMAIN nodes : j # Caller.node => nodes'[j] = nodes[j]
            /\ UNCHANGED <<root, came, ops, expected>>
<1> DEFINE i == Caller.node
<1>1. /\ Finished /\ Len(stack) > 1
      /\ nodes' = [nodes EXCEPT ![i] = AfterBatch(@)]
      /\ stack' = Return(Resumed)
      /\ UNCHANGED <<root, came, ops, expected>>
  BY DEF ReturnWhole, callVars, historyVars
<1>2. stack # << >>
  BY <1>1, FinishedIs DEF TreeInv
<1>3. IsFrame(Resumed) /\ Resumed.first \in Nat \cup {NULL} /\ IsFrameRecord(Resumed)
  <2>1. NULL \in Nat \cup {NULL}
    OBVIOUS
  <2>2. IsFrame(Resumed)
    BY <1>1, <1>2, <2>1, ResumedIs DEF TreeInv
  <2> QED
    BY <2>2, FrameRecord DEF IsFrame
<1>4. Resumed = [Resumed EXCEPT !.first = Resumed.first]
  BY <1>3 DEF IsFrameRecord
<1>5. i \in DOMAIN nodes
  BY <1>1, <1>2, OneParent DEF TreeInv
<1>6. Returns(AfterBatch(nodes[i]), Resumed)
  BY <1>1, <1>3, <1>4, ReturnsIs
<1>7. /\ DOMAIN nodes' = DOMAIN nodes /\ nodes'[i] = AfterBatch(nodes[i])
      /\ \A j \in DOMAIN nodes : j # i => nodes'[j] = nodes[j]
  BY <1>1, <1>5, HeapSame, ExceptIs DEF TreeInv
<1> QED
  BY <1>1, <1>6, <1>7

LEMMA ReturnWholeOrder ==
  ASSUME TreeInv, OrderInv, ReturnWhole, TreeInv'
  PROVE  OrderInv'
<1> DEFINE i == Caller.node
           n == nodes[i]
           a == AfterBatch(n)
           f == Resumed
<1>1. /\ Returns(a, f) /\ nodes'[i] = a
      /\ DOMAIN nodes' = DOMAIN nodes
      /\ \A j \in DOMAIN nodes : j # i => nodes'[j] = nodes[j]
      /\ UNCHANGED <<root, came, ops, expected>>
  BY ReturnWholeIs
<1> HIDE DEF a, f
<1>2. /\ i \in DOMAIN nodes /\ a.pivots = n.pivots
      /\ DOMAIN a.elements = DOMAIN n.elements \ Sent(i)
      /\ stack # << >> /\ Len(stack) > 1 /\ Returned(f) /\ f.node = i /\ f.at # "child"
      /\ f.elts = NoElements /\ Sent(Top.node) = {}
      /\ stack' # << >> /\ f = stack'[Len(stack')]
  BY <1>1 DEF Returns
<1>3. \A j \in DOMAIN nodes : Sent(j)' = IF j = i THEN {} ELSE Sent(j)
  <2>1. ASSUME NEW j \in DOMAIN nodes PROVE Sent(j)' = IF j = i THEN {} ELSE Sent(j)
    <3>1. CASE j = i
      BY <1>2, <3>1, SentReturned DEF TreeInv
    <3>2. CASE j = Top.node /\ j # i
      BY <1>2, <3>2, SentReturned DEF TreeInv
    <3>3. CASE j # Top.node /\ j # i
      BY <1>1, <1>2, <3>3, SentReturned DEF TreeInv
    <3> QED
      BY <3>1, <3>2, <3>3
  <2> QED
    BY <2>1
<1>4. \A j \in DOMAIN nodes : Ordered(nodes[j], came[j], Sent(j), came)
  BY OlderIs DEF OrderInv
<1>5. Ordered(a, came[i], {}, came)
  <2>1. Ordered(n, came[i], Sent(i), came)
    BY <1>2, <1>4
  <2>2. \A p : ElementsFor(a, p) \ {} \subseteq ElementsFor(n, p) \ Sent(i)
    BY <1>2 DEF ElementsFor
  <2> QED
    BY <1>2, <2>1, <2>2 DEF Ordered
<1>6. OlderBelow'
  <2>1. ASSUME NEW j \in DOMAIN nodes PROVE Ordered(nodes'[j], came'[j], Sent(j)', came')
    BY <1>1, <1>3, <1>4, <1>5
  <2> QED
    BY <1>1, <2>1, OlderIs
<1>7. PendingAreNewer'
  BY <1>2, NoneNewer, NextNewerIs DEF TreeInv
<1> QED
  BY <1>6, <1>7 DEF OrderInv

LEMMA ReturnWholeFailsOrder ==
  ASSUME OrderInv, ReturnWholeFails
  PROVE  OrderInv'
<1>1. nodes' = nodes /\ stack' = stack /\ came' = came
  BY DEF ReturnWholeFails, treeVars
<1> QED
  BY <1>1 DEF OrderInv, OlderBelow, PendingAreNewer, Sent

LEMMA EndUpsertOrder ==
  ASSUME TreeInv, OrderInv, EndUpsert
  PROVE  OrderInv'
<1>1. /\ nodes' = nodes /\ came' = came /\ stack' = << >> /\ stack # << >> /\ Len(stack) = 1
      /\ Top.at # "child"
  BY FinishedIs DEF EndUpsert, treeVars, historyVars, TreeInv
<1>2. \A j : Sent(j)' = {} /\ Sent(j) = {}
  <2>1. DOMAIN stack = {1} /\ stack[1].at # "child"
    BY <1>1, TopFacts DEF Top, TreeInv
  <2> QED
    BY <1>1, <2>1, SentAtEnd
<1>3. OlderBelow'
  BY <1>1, <1>2, OlderIs DEF OrderInv
<1>4. PendingAreNewer'
  BY <1>1, EmptyIsSeq DEF PendingAreNewer
<1> QED
  BY <1>3, <1>4 DEF OrderInv


-----------------------------------------------------------------------------
(* Order when a node splits.                                               *)

\* A part has the messages of its keys, and for a child those the node had.
LEMMA PartMessages ==
  ASSUME TreeInv, Finished, TooLarge, NEW k \in Cuts(Me)
  PROVE  /\ \A m : m \in DOMAIN Parts[k].elements <=>
                     m \in DOMAIN Me.elements /\ m[1] \in PartOf(Cuts(Me), k)
         /\ \A p : p \in DOMAIN Parts[k].pivots <=>
                     p \in DOMAIN Me.pivots /\ p \in PartOf(Cuts(Me), k)
         /\ \A m \in DOMAIN Parts[k].elements : Parts[k].elements[m] = Me.elements[m]
         /\ \A p \in DOMAIN Parts[k].pivots : Parts[k].pivots[p] = Me.pivots[p]
BY SplitIs DEF Parts

LEMMA PartElementsFor ==
  ASSUME TreeInv, Finished, TooLarge, NEW k \in Cuts(Me), NEW p \in DOMAIN Parts[k].pivots
  PROVE  ElementsFor(Parts[k], p) = ElementsFor(Me, p)
<1> DEFINE C == Cuts(Me)
           n == Me
           S == Parts[k]
<1>1. /\ C \in SUBSET Nat /\ C \subseteq Units(n)
      /\ DOMAIN n.pivots \subseteq Nat /\ DOMAIN n.elements \subseteq Nat \X Nat
  BY CutsFacts
<1>2. /\ \A m : m \in DOMAIN S.elements <=> m \in DOMAIN n.elements /\ m[1] \in PartOf(C, k)
      /\ \A q : q \in DOMAIN S.pivots <=> q \in DOMAIN n.pivots /\ q \in PartOf(C, k)
  BY PartMessages
<1>3. p \in DOMAIN n.pivots /\ p \in PartOf(C, k) /\ p \in Nat
  BY <1>1, <1>2
<1>4. Units(n) = DOMAIN n.pivots
  BY <1>3 DEF Units, is_leaf
<1>5. k \in Nat /\ k <= p
  BY <1>1, <1>3, <1>4, PartBegins
<1> HIDE DEF n, S, C
<1>6. C \subseteq DOMAIN n.pivots
  BY <1>1, <1>4
<1>7. \A m \in DOMAIN n.elements : m[1] \in Nat
  BY <1>1
<1>8. ASSUME NEW m \in ElementsFor(S, p) PROVE m \in ElementsFor(n, p)
  <2>1. /\ m \in DOMAIN n.elements /\ m[1] \in PartOf(C, k) /\ p <= m[1] /\ m[1] \in Nat
        /\ \A q \in DOMAIN S.pivots : p < q => m[1] < q
    BY <1>2, <1>7 DEF ElementsFor
  <2>2. ASSUME NEW q \in DOMAIN n.pivots, p < q PROVE m[1] < q
    <3>1. q \in Nat
      BY <1>1 DEF n
    <3>2. SUFFICES ASSUME q <= m[1] PROVE FALSE
      BY <2>1, <3>1
    <3>3. k <= q
      BY <1>3, <1>5, <2>2, <3>1
    <3>4. \A l \in C : l \in Nat /\ (k < l => m[1] < l)
      BY <1>1, <2>1 DEF PartOf, C
    <3>5. \A l \in C : k < l => q < l
      BY <2>1, <3>1, <3>2, <3>4
    <3>6. q \in PartOf(C, k)
      BY <3>1, <3>3, <3>5 DEF PartOf
    <3>7. m[1] < q
      BY <1>2, <2>1, <2>2, <3>6
    <3> QED
      BY <2>1, <3>1, <3>2, <3>7
  <2> QED
    BY <2>1, <2>2 DEF ElementsFor
<1>9. ASSUME NEW m \in ElementsFor(n, p) PROVE m \in ElementsFor(S, p)
  <2>1. /\ m \in DOMAIN n.elements /\ p <= m[1] /\ m[1] \in Nat
        /\ \A q \in DOMAIN n.pivots : p < q => m[1] < q
    BY <1>7 DEF ElementsFor
  <2>2. k <= m[1]
    BY <1>3, <1>5, <2>1
  <2>3. \A l \in C : k < l => p < l
    BY <1>3 DEF PartOf
  <2>4. \A l \in C : k < l => m[1] < l
    BY <1>6, <2>1, <2>3
  <2>5. m[1] \in PartOf(C, k)
    BY <2>1, <2>2, <2>4 DEF PartOf
  <2> QED
    BY <1>2, <2>1, <2>5 DEF ElementsFor
<1>10. ElementsFor(S, p) = ElementsFor(n, p)
  BY <1>8, <1>9
<1> QED
  BY <1>10 DEF S, n

\* All but the node above the parts is as it was.
LEMMA SplitOlder ==
  ASSUME TreeInv, OlderBelow, Finished, TooLarge, NEW h, SplitUnder(h), IsAbove(h),
         \A j \in DOMAIN nodes : j # Top.node /\ j # h => Sent(j)' = Sent(j),
         Ordered(nodes'[h], came'[h], {}, came')
  PROVE  OlderBelow'
<1> DEFINE i == Top.node
           C == Cuts(Me)
<1>1. /\ i \in DOMAIN nodes /\ Me = nodes[i] /\ Sent(i) = {}
      /\ \A j \in DOMAIN nodes : Ordered(nodes[j], came[j], Sent(j), came)
  BY CutsFacts, SentByTop, OlderIs
<1>2. \A j \in DOMAIN nodes : j # i => came'[j] = came[j]
  BY DEF SplitUnder
<1>3. \A n, c, cm, S : Ordered(n, c, {}, cm) => Ordered(n, c, S, cm)
  BY DEF Ordered
<1>4. ASSUME NEW j \in DOMAIN nodes, j # i, j # h
      PROVE  Ordered(nodes'[j], came'[j], Sent(j)', came')
  <2>1. /\ nodes'[j] = nodes[j] /\ Sent(j)' = Sent(j)
        /\ \A q \in DOMAIN nodes[j].pivots : nodes[j].pivots[q] # i
    BY <1>4 DEF SplitUnder
  <2>2. SameBelow(nodes[j], came, came')
    BY <1>2, <2>1, KidsApart DEF SameBelow
  <2> QED
    BY <1>1, <1>2, <1>4, <2>1, <2>2, OrderedSame
<1>5. ASSUME NEW k \in C PROVE Ordered(nodes'[Kids[k]], came'[Kids[k]], {}, came')
  <2>1. /\ nodes'[Kids[k]] = Parts[k] /\ came'[Kids[k]] = Share(k)
    BY DEF SplitUnder
  <2>2. /\ KeysOf(Parts[k].elements) \subseteq DOMAIN Share(k)
        /\ \A m \in DOMAIN Parts[k].elements : m \in DOMAIN Me.elements
        /\ \A p \in DOMAIN Parts[k].pivots :
             /\ p \in DOMAIN Me.pivots /\ Parts[k].pivots[p] = Me.pivots[p]
             /\ DOMAIN came[Me.pivots[p]] \subseteq DOMAIN Share(k)
    BY PartFacts DEF IsPart
  <2>3. \A j \in DOMAIN Share(k) : Share(k)[j] = came[i][j]
    BY ShareIs
  <2>4. Ordered(Me, came[i], {}, came)
    BY <1>1
  <2>5. \A m \in DOMAIN Parts[k].elements : m[2] <= Share(k)[m[1]].ts
    BY <2>2, <2>3, <2>4 DEF Ordered, KeysOf
  <2>6. ASSUME NEW p \in DOMAIN Parts[k].pivots
        PROVE  LET d == came'[Parts[k].pivots[p]]
               IN /\ \A j \in DOMAIN d : d[j].ts <= Share(k)[j].ts
                  /\ \A m \in ElementsFor(Parts[k], p) \ {} : m[1] \in DOMAIN d => d[m[1]].ts < m[2]
    <3>1. ElementsFor(Parts[k], p) = ElementsFor(Me, p)
      BY PartElementsFor
    <3>2. p \in DOMAIN Me.pivots /\ Parts[k].pivots[p] = Me.pivots[p]
          /\ Me.pivots[p] \in DOMAIN nodes /\ Me.pivots[p] # i
      BY <1>1, <2>2, KidsApart, CutsFacts, ChildIsNew, TopFacts DEF TreeInv, Top
    <3>3. came'[Parts[k].pivots[p]] = came[Me.pivots[p]]
      BY <1>2, <3>2
    <3> QED
      BY <2>2, <2>3, <2>4, <3>1, <3>2, <3>3 DEF Ordered
  <2> QED
    BY <2>1, <2>5, <2>6 DEF Ordered
<1>6. ASSUME NEW j \in DOMAIN nodes' PROVE Ordered(nodes'[j], came'[j], Sent(j)', came')
  <2>1. \/ j = h
        \/ \E k \in C : j = Kids[k]
        \/ j \in DOMAIN nodes /\ j # i /\ j # h
    BY SplitCases
  <2> QED
    BY <1>3, <1>4, <1>5, <2>1
<1> QED
  BY <1>6, OlderIs

\* The node above has the parts where the node was, and keeps the other children.
LEMMA ReturnSplitIs ==
  ASSUME TreeInv, ReturnSplit
  PROVE  LET n == nodes[Caller.node]
             a == AfterBatch(n)
             H == nodes'[Caller.node]
             D == DOMAIN n.pivots \ {Caller.pivot}
         IN /\ \E f : Returns(a, f)
            /\ Finished /\ TooLarge /\ SplitUnder(Caller.node) /\ IsAbove(Caller.node)
            /\ came'[Caller.node] = came[Caller.node]
            /\ H.elements = a.elements /\ DOMAIN H.pivots = D \cup Cuts(Me)
            /\ \A k \in Cuts(Me) : /\ H.pivots[k] = Kids[k]
                                   /\ k \in Between(n, Caller.pivot)
            /\ \A q \in D : q \notin Cuts(Me) /\ H.pivots[q] = n.pivots[q]
            /\ UNCHANGED <<root, ops, expected>>
<1> DEFINE i == Top.node
           h == Caller.node
           n == nodes[h]
           p == Caller.pivot
           a == AfterBatch(n)
           H == ReplaceChild(a, p, Kids)
           C == Cuts(Me)
           D == DOMAIN n.pivots \ {p}
           v == IF Caller.first = Caller.pivot THEN NULL ELSE Caller.first
           f == [Resumed EXCEPT !.first = v]
<1>1. /\ Finished /\ TooLarge /\ stack # << >> /\ Len(stack) > 1
      /\ nodes'[h] = H /\ came'[h] = came[h] /\ SplitUnder(h) /\ IsAbove(h)
      /\ UNCHANGED <<root, ops, expected>>
  BY ReturnSplitUnder, ReturnSplitAbove DEF ReturnSplit
<1>2. IsFrame(Resumed) /\ Resumed.first = Caller.first /\ IsFrameRecord(Resumed)
  <2>1. NULL \in Nat \cup {NULL}
    OBVIOUS
  <2>2. IsFrame(Resumed) /\ Resumed.first = Caller.first
    BY <1>1, <2>1, ResumedIs DEF TreeInv
  <2> QED
    BY <2>2, FrameRecord DEF IsFrame
<1>3. stack' = Return(f) /\ v \in Nat \cup {NULL}
  BY <1>2 DEF ReturnSplit, IsFrame
<1>4. Returns(a, f)
  BY <1>1, <1>3, ReturnsIs
<1>5. /\ a.pivots = n.pivots /\ IsNode(a)
      /\ DOMAIN n.pivots \subseteq Nat /\ n.pivots[p] = i /\ p \in DOMAIN n.pivots /\ h \in DOMAIN nodes
  BY <1>1, <1>4, NodeFacts DEF Returns, TreeInv
<1>6. DOMAIN Kids = C /\ C \in SUBSET Nat /\ C \subseteq DOMAIN came[i]
  BY <1>1, KidsAre, CutsFacts
<1> HIDE DEF f, C, a, n, H
<1>7. \A k \in C : k \in Between(n, p)
  BY <1>5, <1>6 DEF TreeInv, KeysWithinPivots, n
<1>8. C \cap D = {}
  BY <1>5, <1>6, <1>7 DEF Between
<1>9. /\ H.elements = a.elements /\ DOMAIN H.pivots = D \cup C
      /\ \A k \in C : H.pivots[k] = Kids[k]
      /\ \A q \in D : H.pivots[q] = n.pivots[q]
  <2> DEFINE P == [k \in D \cup C |-> IF k \in D THEN n.pivots[k] ELSE Kids[k]]
  <2>1. H = [a EXCEPT !.pivots = P]
    BY <1>5, <1>6 DEF ReplaceChild, H
  <2>2. /\ DOMAIN P = D \cup C
        /\ \A k \in C : P[k] = Kids[k]
        /\ \A q \in D : P[q] = n.pivots[q]
    BY <1>8
  <2> HIDE DEF P
  <2>3. H = [pivots |-> P, elements |-> a.elements]
    BY <1>5, <2>1 DEF IsNode
  <2> QED
    BY <2>2, <2>3
<1>10. nodes'[h] = H
  BY <1>1 DEF H, a, n
<1>11. (\E g : Returns(a, g)) /\ \A q \in D : q \notin C
  BY <1>4, <1>8
<1> QED
  BY <1>1, <1>7, <1>9, <1>10, <1>11 DEF C, a, n

LEMMA ReturnSplitOrder ==
  ASSUME TreeInv, OrderInv, ReturnSplit, TreeInv'
  PROVE  OrderInv'
<1> DEFINE i == Top.node
           h == Caller.node
           n == nodes[h]
           p == Caller.pivot
           a == AfterBatch(n)
           H == nodes'[h]
           D == DOMAIN n.pivots \ {p}
           C == Cuts(Me)
<1>1. /\ \E f : Returns(a, f)
      /\ Finished /\ TooLarge /\ SplitUnder(h) /\ IsAbove(h)
      /\ came'[h] = came[h]
      /\ H.elements = a.elements /\ DOMAIN H.pivots = D \cup C
      /\ \A k \in C : H.pivots[k] = Kids[k] /\ k \in Between(n, p)
      /\ \A q \in D : q \notin C /\ H.pivots[q] = n.pivots[q]
  BY ReturnSplitIs
<1>2. PICK f : Returns(a, f)
  BY <1>1
<1> HIDE DEF a, H, C
<1>3. /\ h \in DOMAIN nodes /\ p \in DOMAIN n.pivots /\ n.pivots[p] = i /\ i \in DOMAIN nodes /\ h # i
      /\ DOMAIN a.elements = DOMAIN n.elements \ Sent(h) /\ Sent(h) = ElementsFor(n, p)
      /\ stack # << >> /\ Len(stack) > 1 /\ Returned(f) /\ f.node = h /\ f.at # "child"
      /\ f.elts = NoElements /\ stack' # << >> /\ f = stack'[Len(stack')]
  BY <1>2 DEF Returns
<1>4. \A j \in DOMAIN nodes : j # i /\ j # h => Sent(j)' = Sent(j)
  BY <1>1, <1>3, SentReturned DEF TreeInv, SplitUnder
<1>5. Ordered(n, came[h], Sent(h), came)
  BY <1>3, OlderIs DEF OrderInv
<1>6. C \in SUBSET Nat /\ C # {} /\ DOMAIN n.pivots \subseteq Nat
  BY <1>1, <1>3, CutsFacts, NodeFacts DEF TreeInv, C
<1>7. \A m \in DOMAIN n.elements : m[1] \in Nat
  BY <1>3, NodeFacts, ElementFacts DEF TreeInv
<1>8. \A k \in C : p <= k /\ \A q \in DOMAIN n.pivots : p < q => k < q
  BY <1>1 DEF Between
<1> HIDE DEF n, h
<1>9. ASSUME NEW k \in C PROVE ElementsFor(H, k) = {}
  <2>1. SUFFICES ASSUME NEW m \in ElementsFor(H, k) PROVE FALSE
    OBVIOUS
  <2>2. /\ m \in DOMAIN a.elements /\ k <= m[1] /\ \A q \in DOMAIN H.pivots : k < q => m[1] < q
    BY <1>1 DEF ElementsFor
  <2>3. m \in DOMAIN n.elements /\ m \notin ElementsFor(n, p) /\ m[1] \in Nat
    BY <1>3, <1>7, <2>2
  <2>4. p <= m[1]
    BY <1>3, <1>6, <1>8, <2>2, <2>3
  <2>5. ASSUME NEW q \in DOMAIN n.pivots, p < q PROVE m[1] < q
    <3>1. q \in D /\ k < q
      BY <1>3, <1>6, <1>8, <2>5
    <3> QED
      BY <1>1, <2>2, <3>1
  <2> QED
    BY <2>3, <2>4, <2>5 DEF ElementsFor
<1>10. ASSUME NEW q \in D PROVE ElementsFor(H, q) \subseteq ElementsFor(n, q) \ Sent(h)
  <2>1. SUFFICES ASSUME NEW m \in ElementsFor(H, q) PROVE m \in ElementsFor(n, q) /\ m \notin Sent(h)
    OBVIOUS
  <2>2. /\ m \in DOMAIN a.elements /\ q <= m[1] /\ \A r \in DOMAIN H.pivots : q < r => m[1] < r
    BY <1>1 DEF ElementsFor
  <2>3. m \in DOMAIN n.elements /\ m \notin ElementsFor(n, p) /\ m[1] \in Nat /\ m \notin Sent(h)
    BY <1>3, <1>7, <2>2
  <2>4. ASSUME NEW r \in DOMAIN n.pivots, q < r PROVE m[1] < r
    <3>1. CASE r # p
      BY <1>1, <2>2, <2>4, <3>1
    <3>2. CASE r = p
      <4>1. PICK k \in C : TRUE
        BY <1>6
      <4>2. k \in Nat /\ p \in Nat /\ q \in Nat /\ p <= k /\ q < k /\ m[1] < k
        BY <1>1, <1>3, <1>6, <1>8, <2>2, <2>4, <3>2
      <4>3. SUFFICES ASSUME p <= m[1] PROVE FALSE
        BY <2>3, <3>2, <4>2
      <4>4. ASSUME NEW s \in DOMAIN n.pivots, p < s PROVE m[1] < s
        BY <1>6, <1>8, <2>3, <4>2, <4>4
      <4> QED
        BY <2>3, <4>3, <4>4 DEF ElementsFor
    <3> QED
      BY <3>1, <3>2
  <2> QED
    BY <2>2, <2>3, <2>4 DEF ElementsFor
<1>11. Ordered(H, came[h], {}, came')
  <2>1. \A m \in DOMAIN H.elements : m[2] <= came[h][m[1]].ts
    BY <1>1, <1>3, <1>5 DEF Ordered
  <2>2. ASSUME NEW q \in DOMAIN H.pivots
        PROVE  LET d == came'[H.pivots[q]]
               IN /\ \A j \in DOMAIN d : d[j].ts <= came[h][j].ts
                  /\ \A m \in ElementsFor(H, q) \ {} : m[1] \in DOMAIN d => d[m[1]].ts < m[2]
    <3>1. CASE q \in C
      <4>1. came'[H.pivots[q]] = Share(q)
        BY <1>1, <3>1 DEF SplitUnder, C
      <4>2. \A j \in DOMAIN Share(q) : j \in DOMAIN came[i] /\ Share(q)[j] = came[i][j]
        BY <1>1, <3>1, ShareIs DEF C
      <4>3. \A j \in DOMAIN came[i] : came[i][j].ts <= came[h][j].ts
        BY <1>3, <1>5 DEF Ordered
      <4> QED
        BY <1>9, <3>1, <4>1, <4>2, <4>3
    <3>2. CASE q \in D
      <4>1. H.pivots[q] = n.pivots[q] /\ n.pivots[q] \in DOMAIN nodes /\ n.pivots[q] # i
        <5>1. n.pivots[q] # i
          BY <1>3, <3>2, OneWay DEF TreeInv, n
        <5> QED
          BY <1>1, <1>3, <3>2, <5>1, KidsApart DEF n
      <4>2. came'[H.pivots[q]] = came[n.pivots[q]]
        BY <1>1, <4>1 DEF SplitUnder
      <4> QED
        BY <1>5, <1>10, <3>2, <4>2 DEF Ordered
    <3> QED
      BY <1>1, <3>1, <3>2
  <2> QED
    BY <2>1, <2>2 DEF Ordered
<1>12. Ordered(nodes'[h], came'[h], {}, came')
  BY <1>1, <1>11 DEF H
<1>13. OlderBelow'
  BY <1>1, <1>4, <1>12, SplitOlder DEF OrderInv
<1>14. PendingAreNewer'
  BY <1>3, NoneNewer, NextNewerIs DEF TreeInv
<1> QED
  BY <1>13, <1>14 DEF OrderInv

LEMMA SplitRootOrder ==
  ASSUME TreeInv, OrderInv, SplitRoot
  PROVE  OrderInv'
<1> DEFINE i == Top.node
           H == [pivots |-> Kids, elements |-> NoElements]
<1>1. /\ i = root /\ Finished /\ TooLarge /\ stack # << >> /\ Len(stack) = 1
      /\ stack' = << >> /\ SplitUnder(root') /\ IsAbove(root') /\ root' \notin DOMAIN nodes
      /\ nodes'[root'] = H
      /\ came'[root'] = came[i] /\ root \in DOMAIN nodes
  BY SplitRootIs, SplitRootAbove DEF SplitRoot, TreeInv, HeapTyped
<1>2. \A j : Sent(j)' = {} /\ Sent(j) = {}
  <2>1. DOMAIN stack = {1} /\ stack[1].at # "child"
    BY <1>1, TopFacts, FinishedIs DEF Top, TreeInv
  <2> QED
    BY <1>1, <2>1, SentAtEnd
<1>3. Ordered(H, came[i], {}, came')
  <2>1. DOMAIN H.elements = {} /\ DOMAIN H.pivots = Cuts(Me) /\ \A k \in Cuts(Me) : H.pivots[k] = Kids[k]
    BY <1>1, KidsAre, NoElementsIs
  <2>2. \A k \in Cuts(Me) : came'[Kids[k]] = Share(k)
    BY <1>1 DEF SplitUnder
  <2>3. ASSUME NEW k \in Cuts(Me), NEW j \in DOMAIN Share(k) PROVE Share(k)[j].ts <= came[i][j].ts
    <3>1. j \in DOMAIN came[i] /\ Share(k)[j] = came[i][j] /\ IsCame(came[i])
      BY <1>1, ShareIs, NodeFacts DEF TreeInv
    <3>2. came[i][j].ts \in Nat
      BY <3>1, CameFacts
    <3> QED
      BY <3>1, <3>2
  <2>4. \A k : ElementsFor(H, k) = {}
    BY <2>1 DEF ElementsFor
  <2> HIDE DEF H
  <2> QED
    BY <2>1, <2>2, <2>3, <2>4 DEF Ordered
<1>4. OlderBelow'
  <2>1. Ordered(nodes'[root'], came'[root'], {}, came')
    BY <1>1, <1>3
  <2> QED
    BY <1>1, <1>2, <2>1, SplitOlder DEF OrderInv
<1>5. PendingAreNewer'
  BY <1>1, EmptyIsSeq DEF PendingAreNewer
<1> QED
  BY <1>4, <1>5 DEF OrderInv

LEMMA FlushStepKeepsOrder ==
  ASSUME TreeInv, OrderInv, FlushStep
  PROVE  OrderInv'
<1>1. TreeInv'
  BY FlushStepKeepsTree
<1> QED
  BY <1>1, FlushLeafOrder, FlushThroughOrder, FlushToBufferOrder, ApplyNextOrder, FlushChildOrder,
     ReturnWholeOrder, ReturnWholeFailsOrder, ReturnSplitOrder, EndUpsertOrder, SplitRootOrder
     DEF FlushStep


-----------------------------------------------------------------------------
(* Order when a call begins.                                               *)

\* What came to the root stays with the root.
LEMMA RootKeepsCame ==
  ASSUME TreeInv, FlushStep
  PROVE  came'[root'] = came[root] /\ UNCHANGED <<ops, expected, next_timestamp>>
<1>1. root \in DOMAIN nodes /\ \A j \in DOMAIN nodes : \A p \in DOMAIN nodes[j].pivots : nodes[j].pivots[p] # root
  BY DEF TreeInv, HeapTyped, IsTree
<1>2. UNCHANGED <<ops, expected, next_timestamp>>
  BY DEF FlushStep, FlushLeaf, FlushThrough, FlushToBuffer, ApplyNext, FlushChild, ReturnWhole,
         ReturnWholeFails, ReturnSplit, EndUpsert, SplitRoot, callVars
<1>3. ASSUME NEW f, NEW c, NEW e, Enters(f, c, e) PROVE came'[root'] = came[root]
  <2>1. /\ root' = root /\ Top.node \in DOMAIN nodes /\ Me = nodes[Top.node]
        /\ \A j \in DOMAIN nodes : j # c => came'[j] = came[j]
        /\ \E q \in DOMAIN Me.pivots : c = Me.pivots[q]
    BY <1>3 DEF Enters, Relabeled
  <2> QED
    BY <1>1, <2>1
<1>4. CASE FlushThrough
  <2>1. CASE ElementsFor(Lowered, First) = {}
    BY <1>2, <1>3, <1>4, <2>1, FlushThroughIs
  <2>2. CASE ElementsFor(Lowered, First) # {}
    BY <1>2, <1>4, <2>2 DEF FlushThrough
  <2> QED
    BY <2>1, <2>2
<1>5. CASE FlushChild
  BY <1>2, <1>3, <1>5, FlushChildEnters
<1>6. CASE ReturnSplit
  <2>1. SplitUnder(Caller.node) /\ root' = root /\ stack # << >> /\ Len(stack) > 1
    BY <1>6, ReturnSplitUnder
  <2>2. Top.node # root
    BY <2>1, OneParent DEF TreeInv
  <2> QED
    BY <1>1, <1>2, <2>1, <2>2 DEF SplitUnder
<1>7. CASE SplitRoot
  BY <1>2, <1>7, SplitRootIs
<1>8. CASE FlushLeaf \/ FlushToBuffer \/ ApplyNext \/ ReturnWhole \/ ReturnWholeFails \/ EndUpsert
  BY <1>2, <1>8 DEF FlushLeaf, FlushToBuffer, ApplyNext, ReturnWhole, ReturnWholeFails, EndUpsert,
              treeVars, historyVars
<1> QED
  BY <1>2, <1>4, <1>5, <1>6, <1>7, <1>8 DEF FlushStep

\* A message newer than all that came to the root.
LEMMA BeginOrder ==
  ASSUME TreeInv, OrderInv, TreeInv', NEW op \in {INSERT, DELETE, UPDATE}, NEW k \in Keys,
         NEW ts \in Timestamps, Begin(op, k, ts),
         \A j \in DOMAIN came[root] : came[root][j].ts < ts
  PROVE  OrderInv' /\ \A j \in DOMAIN came'[root'] : came'[root'][j].ts <= ts
<1>1. PICK m \in MessageKeys, msg \in Message : \E elts : Begins(op, k, ts, m, msg, elts)
  BY BeginIs
<1>2. PICK e : Begins(op, k, ts, m, msg, e)
  BY <1>1
<1>3. /\ m = <<k, ts>> /\ IsElements(e) /\ DOMAIN e = {m} /\ stack = << >>
      /\ stack' = <<Frame(root, e)>> /\ came' = [came EXCEPT ![root] = Arrived(@, e)]
      /\ nodes' = nodes /\ root' = root
  BY <1>2 DEF Begins, Sends
<1>4. root \in DOMAIN nodes /\ DOMAIN came = DOMAIN nodes
  BY HeapSame DEF TreeInv, HeapTyped
<1>5. came'[root] = Arrived(came[root], e) /\ \A j \in DOMAIN nodes : j # root => came'[j] = came[j]
  BY <1>3, <1>4, CameGains DEF TreeInv
<1>6. Fresh(e, came[root])
  BY <1>3 DEF Fresh
<1>7. \A j \in DOMAIN nodes : SameBelow(nodes[j], came, came')
  BY <1>5, KidsApart DEF TreeInv, IsTree, SameBelow
<1>8. /\ Ordered(nodes[root], came'[root], Sent(root), came')
      /\ Newer(e, nodes[root], came'[root], came')
  BY <1>3, <1>4, <1>5, <1>6, <1>7, NewcomersOrdered DEF OrderInv
<1>9. \A j : Sent(j)' = {} /\ Sent(j) = {}
  <2>1. DOMAIN stack' = {1} /\ stack'[1].at # "child"
    BY <1>3 DEF Frame
  <2> QED
    BY <1>3, <2>1, SentAtEnd
<1>10. OlderBelow'
  <2>1. ASSUME NEW j \in DOMAIN nodes PROVE Ordered(nodes[j], came'[j], {}, came')
    <3>1. Ordered(nodes[j], came[j], {}, came)
      BY <1>9, OlderIs DEF OrderInv
    <3>2. CASE j = root
      BY <1>8, <1>9, <3>2
    <3>3. CASE j # root
      BY <1>5, <1>7, <3>1, <3>3, OrderedSame
    <3> QED
      BY <3>2, <3>3
  <2> QED
    BY <1>3, <1>9, <2>1, OlderIs
<1>11. PendingAreNewer'
  <2>1. stack' # << >> /\ Frame(root, e) = stack'[Len(stack')] /\ Frame(root, e).node = root
        /\ Frame(root, e).elts = e
    BY <1>3 DEF Frame
  <2> QED
    BY <1>3, <1>8, <2>1, NextNewerIs DEF TreeInv
<1>12. \A j \in DOMAIN came'[root] : came'[root][j].ts <= ts
  <2>1. \A j \in DOMAIN came'[root] : \/ j \in DOMAIN came[root] /\ came'[root][j].ts = came[root][j].ts
                                      \/ \E x \in DOMAIN e : x[1] = j /\ came'[root][j].ts = x[2]
    <3> DEFINE a == came'[root]
    <3>1. a = Arrived(came[root], e)
      BY <1>5
    <3> HIDE DEF a
    <3>2. \A j \in DOMAIN a : \/ j \in DOMAIN came[root] /\ a[j].ts = came[root][j].ts
                              \/ \E x \in DOMAIN e : x[1] = j /\ a[j].ts = x[2]
      BY <1>3, <1>4, <1>6, <3>1, ArrivedOrdered
    <3> QED
      BY <3>2 DEF a
  <2>2. ts \in Nat /\ \A j \in DOMAIN came[root] : came[root][j].ts \in Nat
    <3>1. IsCame(came[root])
      BY <1>4, NodeFacts DEF TreeInv
    <3>2. ts \in Nat
      BY MaxOpsAssumption DEF Timestamps
    <3> QED
      BY <3>1, <3>2, CameFacts
  <2> QED
    BY <1>3, <2>1, <2>2
<1> QED
  BY <1>3, <1>10, <1>11, <1>12 DEF OrderInv

LEMMA FlushInitOrder ==
  ASSUME FlushInit
  PROVE  OrderInv /\ DOMAIN came[root] = {}
<1>1. /\ DOMAIN nodes = {root} /\ nodes[root].pivots = NoPivots /\ nodes[root].elements = NoElements
      /\ stack = << >> /\ DOMAIN came[root] = {}
  BY DEF FlushInit, NewNode
<1>2. DOMAIN NoPivots = {} /\ DOMAIN NoElements = {}
  BY NoElementsIs DEF NoPivots
<1>3. OlderBelow
  BY <1>1, <1>2 DEF OlderBelow
<1>4. PendingAreNewer
  BY <1>1, EmptyIsSeq DEF PendingAreNewer
<1> QED
  BY <1>1, <1>3, <1>4 DEF OrderInv

-----------------------------------------------------------------------------
(* Without updates: one message for a key wherever it waits.               *)

LEMMA OnlyOnceOfSome ==
  ASSUME NEW e, OnlyOnce(e), NEW d, DOMAIN d \subseteq DOMAIN e, \A m \in DOMAIN d : d[m] = e[m]
  PROVE  OnlyOnce(d)
BY DEF OnlyOnce, MessagesOf

LEMMA NoneOnlyOnce == OnlyOnce(NoElements)
BY NoElementsIs DEF OnlyOnce

LEMMA OnlyOnceReplaced ==
  ASSUME NEW e, OnlyOnce(e), NEW m, NEW msg, msg.op # UPDATE
  PROVE  OnlyOnce(Replace(e, m, msg))
<1> DEFINE r == Replace(e, m, msg)
<1>1. /\ DOMAIN r = {y \in DOMAIN e : y[1] # m[1]} \cup {m} /\ r[m] = msg
      /\ \A y \in DOMAIN e : y[1] # m[1] => r[y] = e[y]
  BY DEF Replace, Put, Without, Restrict, MessagesOf
<1> HIDE DEF r
<1>2. OnlyOnce(r)
  BY <1>1 DEF OnlyOnce, MessagesOf
<1> QED
  BY <1>2 DEF r

\* What the frames hold after a step is on top.
LEMMA FramesOnlyOnce ==
  ASSUME IsStack', stack' # << >>, NEW f, f = stack'[Len(stack')], OnlyOnce(f.elts)
  PROVE  \A g \in DOMAIN stack' : OnlyOnce(stack'[g].elts)
<1>1. \A g \in DOMAIN stack' : g # Len(stack') => stack'[g].elts = NoElements
  BY DEF IsStack, Waits
<1> QED
  BY <1>1, NoneOnlyOnce

LEMMA ApplyOnlyOnce ==
  ASSUME TreeInv, NEW m, NEW n, NEW f, Applies(m, n, f), OnlyOnce(Me.elements), OnlyOnce(Top.elts)
  PROVE  OnlyOnce(n.elements) /\ OnlyOnce(f.elts)
<1> DEFINE E == Me.elements
           A == n.elements
           msg == Top.elts[m]
<1>1. /\ IsRecord(Me) /\ msg \in Message /\ m \in DOMAIN Top.elts /\ n = Apply(Me, m, msg)
      /\ DOMAIN f.elts \subseteq DOMAIN Top.elts
      /\ \A b \in DOMAIN f.elts : f.elts[b] = Top.elts[b]
  BY DEF Applies
<1>2. msg.op \in {INSERT, DELETE, UPDATE} /\ msg.op # UPDATE
  BY <1>1 DEF Message, OnlyOnce
<1>3. A = IF msg.op = DELETE /\ is_leaf(Me) THEN Without(E, MessagesOf(E, m[1]))
          ELSE Replace(E, m, msg)
  BY <1>1, <1>2, ApplyIs DEF Merges
<1>4. OnlyOnce(A)
  <2>1. CASE msg.op = DELETE /\ is_leaf(Me)
    <3>1. A = Without(E, MessagesOf(E, m[1]))
      BY <1>3, <2>1
    <3>2. DOMAIN A \subseteq DOMAIN E /\ \A y \in DOMAIN A : A[y] = E[y]
      BY <3>1 DEF Without, Restrict
    <3> QED
      BY <3>2, OnlyOnceOfSome
  <2>2. CASE ~(msg.op = DELETE /\ is_leaf(Me))
    BY <1>2, <1>3, <2>2, OnlyOnceReplaced
  <2> QED
    BY <2>1, <2>2
<1>5. OnlyOnce(f.elts)
  BY <1>1, OnlyOnceOfSome
<1> QED
  BY <1>4, <1>5

LEMMA FlushStepKeepsBlind ==
  ASSUME TreeInv, BlindInv, FlushStep
  PROVE  BlindInv'
<1> DEFINE i == Top.node
<1>1. TreeInv'
  BY FlushStepKeepsTree
<1>2. /\ \A j \in DOMAIN nodes : OnlyOnce(nodes[j].elements)
      /\ \A g \in DOMAIN stack : OnlyOnce(stack[g].elts)
      /\ stack # << >> => OnlyOnce(Top.elts)
  BY TopFacts DEF BlindInv, Top, TreeInv
<1>3. ASSUME NEW f, Goes(f), OnlyOnce(f.elts), OnlyOnce(nodes'[i].elements) PROVE BlindInv'
  <2>1. stack' # << >> /\ f = stack'[Len(stack')]
        /\ \A j \in DOMAIN nodes' : OnlyOnce(nodes'[j].elements)
    BY <1>2, <1>3 DEF Goes, OthersKept
  <2> QED
    BY <1>1, <1>3, <2>1, FramesOnlyOnce DEF BlindInv, TreeInv
<1>4. ASSUME NEW f, NEW c, NEW e, Enters(f, c, e), OnlyOnce(e) PROVE BlindInv'
  <2>1. /\ stack' # << >> /\ Frame(c, e) = stack'[Len(stack')] /\ Frame(c, e).elts = e
        /\ i \in DOMAIN nodes /\ nodes'[i].elements = nodes[i].elements
        /\ \A j \in DOMAIN nodes : j # i => nodes'[j] = nodes[j]
        /\ DOMAIN nodes' = DOMAIN nodes
    BY <1>4 DEF Enters, OthersKept, Frame, Relabeled
  <2>2. \A j \in DOMAIN nodes' : OnlyOnce(nodes'[j].elements)
    BY <1>2, <2>1
  <2> QED
    BY <1>1, <1>4, <2>1, <2>2, FramesOnlyOnce DEF BlindInv, TreeInv
<1>5. CASE FlushLeaf
  <2>1. stack # << >> /\ stack' = Become([Top EXCEPT !.at = "apply"]) /\ nodes' = nodes
    BY <1>5 DEF FlushLeaf, At, treeVars
  <2>2. IsFrameRecord(Top)
    BY <2>1, TopFacts DEF TreeInv
  <2>3. [Top EXCEPT !.at = "apply"].elts = Top.elts
    BY <2>2 DEF IsFrameRecord
  <2>4. Became([Top EXCEPT !.at = "apply"])
    BY <2>1, BecomeStack DEF TreeInv
  <2>5. stack' # << >> /\ stack'[Len(stack')] = [Top EXCEPT !.at = "apply"]
    BY <2>4 DEF Became
  <2>6. OnlyOnce(stack'[Len(stack')].elts)
    BY <1>2, <2>1, <2>3, <2>5
  <2> QED
    BY <1>1, <1>2, <2>1, <2>5, <2>6, FramesOnlyOnce DEF BlindInv, TreeInv
<1>6. CASE FlushToBuffer
  <2>1. PICK f : Goes(f) /\ f.elts = Top.elts
    BY <1>6, FlushToBufferIs
  <2>2. nodes'[i].elements = Me.elements
    BY <1>6, FlushToBufferIs DEF Relabeled
  <2>3. stack # << >> /\ i \in DOMAIN nodes /\ Me = nodes[i]
    BY <2>1 DEF Goes
  <2> QED
    BY <1>2, <1>3, <2>1, <2>2, <2>3
<1>7. CASE FlushThrough
  <2>1. CASE ElementsFor(Lowered, First) = {}
    <3>1. PICK f, c : Enters(f, c, Top.elts)
      BY <1>7, <2>1, FlushThroughIs
    <3> QED
      BY <1>2, <1>4, <3>1 DEF Enters
  <2>2. CASE ElementsFor(Lowered, First) # {}
    <3>1. nodes' = nodes /\ stack' = stack
      BY <1>7, <2>2 DEF FlushThrough
    <3> QED
      BY <1>2, <3>1 DEF BlindInv
  <2> QED
    BY <2>1, <2>2
<1>8. CASE ApplyNext
  <2>1. PICK m, n, f : Applies(m, n, f)
    BY <1>8, ApplyNextIs
  <2>2. Goes(f) /\ nodes'[i] = n
    BY <2>1 DEF Applies
  <2>3. stack # << >> /\ i \in DOMAIN nodes /\ Me = nodes[i]
    BY <2>2 DEF Goes
  <2>4. OnlyOnce(n.elements) /\ OnlyOnce(f.elts)
    BY <1>2, <2>1, <2>3, ApplyOnlyOnce
  <2> QED
    BY <1>3, <2>2, <2>4
<1>9. CASE FlushChild
  <2> DEFINE p == Fullest(Me)
             e == BatchFor(p)
             c == Me.pivots[p]
  <2>1. /\ \E f : Enters(f, c, e)
        /\ DOMAIN e = ElementsFor(Me, p) /\ \A m \in DOMAIN e : e[m] = Me.elements[m]
    BY <1>9, FlushChildEnters
  <2> HIDE DEF e, c, p
  <2>2. PICK f : Enters(f, c, e)
    BY <2>1
  <2>3. i \in DOMAIN nodes /\ Me = nodes[i]
    BY <2>2 DEF Enters
  <2>4. DOMAIN e \subseteq DOMAIN Me.elements
    BY <2>1 DEF ElementsFor
  <2>5. OnlyOnce(e)
    BY <1>2, <2>1, <2>3, <2>4, OnlyOnceOfSome
  <2> QED
    BY <1>4, <2>2, <2>5
<1>10. ASSUME NEW a, NEW f, Returns(a, f) PROVE OnlyOnce(a.elements) /\ \A g \in DOMAIN stack' : OnlyOnce(stack'[g].elts)
  <2>1. /\ DOMAIN a.elements \subseteq DOMAIN nodes[Caller.node].elements
        /\ \A m \in DOMAIN a.elements : a.elements[m] = nodes[Caller.node].elements[m]
        /\ Caller.node \in DOMAIN nodes /\ f.elts = NoElements
        /\ stack' # << >> /\ f = stack'[Len(stack')]
    BY <1>10 DEF Returns
  <2> QED
    BY <1>1, <1>2, <2>1, OnlyOnceOfSome, NoneOnlyOnce, FramesOnlyOnce DEF TreeInv
<1>11. CASE ReturnWhole
  BY <1>2, <1>10, <1>11, ReturnWholeIs DEF BlindInv
<1>12. ASSUME Finished, TooLarge, NEW h, SplitUnder(h), IsAbove(h), OnlyOnce(nodes'[h].elements)
       PROVE  \A j \in DOMAIN nodes' : OnlyOnce(nodes'[j].elements)
  <2>1. Me = nodes[i] /\ i \in DOMAIN nodes
    BY <1>12, CutsFacts
  <2>2. ASSUME NEW k \in Cuts(Me) PROVE OnlyOnce(nodes'[Kids[k]].elements)
    <3>1. nodes'[Kids[k]] = Parts[k]
      BY <1>12 DEF SplitUnder
    <3>2. /\ DOMAIN Parts[k].elements \subseteq DOMAIN Me.elements
          /\ \A m \in DOMAIN Parts[k].elements : Parts[k].elements[m] = Me.elements[m]
      BY <1>12, PartMessages
    <3>3. OnlyOnce(Parts[k].elements)
      BY <1>2, <2>1, <3>2, OnlyOnceOfSome
    <3> QED
      BY <3>1, <3>3
  <2>3. \A j \in DOMAIN nodes : j # i /\ j # h => OnlyOnce(nodes'[j].elements)
    BY <1>2, <1>12 DEF SplitUnder
  <2> QED
    BY <1>12, <2>2, <2>3, SplitCases
<1>13. CASE ReturnSplit
  <2> DEFINE a == AfterBatch(nodes[Caller.node])
  <2>1. /\ \E f : Returns(a, f)
        /\ Finished /\ TooLarge /\ SplitUnder(Caller.node) /\ IsAbove(Caller.node)
        /\ nodes'[Caller.node].elements = a.elements
    BY <1>13, ReturnSplitIs
  <2> HIDE DEF a
  <2> QED
    BY <1>10, <1>12, <2>1 DEF BlindInv
<1>14. CASE SplitRoot
  <2>1. /\ Finished /\ TooLarge /\ SplitUnder(root') /\ IsAbove(root') /\ stack' = << >>
        /\ nodes'[root'].elements = NoElements
    BY <1>14, SplitRootIs, SplitRootAbove
  <2>2. \A j \in DOMAIN nodes' : OnlyOnce(nodes'[j].elements)
    BY <1>12, <2>1, NoneOnlyOnce
  <2> QED
    BY <2>1, <2>2, EmptyIsSeq DEF BlindInv
<1>15. CASE ReturnWholeFails \/ EndUpsert
  <2>1. nodes' = nodes /\ (stack' = stack \/ stack' = << >>)
    BY <1>15 DEF ReturnWholeFails, EndUpsert, treeVars
  <2> QED
    BY <1>2, <2>1, EmptyIsSeq DEF BlindInv
<1> QED
  BY <1>5, <1>6, <1>7, <1>8, <1>9, <1>11, <1>13, <1>14, <1>15 DEF FlushStep

LEMMA BeginBlind ==
  ASSUME TreeInv, BlindInv, NEW op \in {INSERT, DELETE, UPDATE}, NEW k \in Keys,
         NEW ts \in Timestamps, Begin(op, k, ts), op # UPDATE
  PROVE  BlindInv'
<1>1. PICK m \in MessageKeys, msg \in Message : \E elts : Begins(op, k, ts, m, msg, elts)
  BY BeginIs
<1>2. PICK e : Begins(op, k, ts, m, msg, e)
  BY <1>1
<1>3. /\ msg.op = op /\ DOMAIN e = {m} /\ e[m] = msg
      /\ stack' = <<Frame(root, e)>> /\ nodes' = nodes
  BY <1>2 DEF Begins, Sends
<1>4. OnlyOnce(e)
  BY <1>3 DEF OnlyOnce, MessagesOf
<1>5. \A g \in DOMAIN stack' : stack'[g].elts = e
  BY <1>3 DEF Frame
<1> QED
  BY <1>3, <1>4, <1>5 DEF BlindInv

LEMMA FlushInitBlind ==
  ASSUME FlushInit
  PROVE  BlindInv
<1>1. DOMAIN nodes = {root} /\ nodes[root].elements = NoElements /\ stack = << >>
  BY DEF FlushInit, NewNode
<1> QED
  BY <1>1, NoneOnlyOnce, EmptyIsSeq DEF BlindInv


-----------------------------------------------------------------------------
(* Sums of messages.                                                       *)

\* The last of some messages for a key.
LEMMA LatestWhen ==
  ASSUME NEW e, IsElements(e), NEW k, NEW S \in SUBSET MessagesOf(e, k), NEW y \in S,
         \A x \in S : x[2] <= y[2]
  PROVE  Latest(S) = y
<1>1. Latest(S) \in S /\ \A x \in S : x[2] <= Latest(S)[2]
  BY LatestOf
<1>2. \A x \in S : x \in DOMAIN e /\ x[1] = k
  BY DEF MessagesOf
<1>3. \A x \in S : x = <<x[1], x[2]>> /\ x[2] \in Nat
  BY <1>2, ElementFacts
<1>4. Latest(S)[2] = y[2]
  BY <1>1, <1>3
<1>5. Latest(S) = <<k, Latest(S)[2]>> /\ y = <<k, y[2]>>
  BY <1>1, <1>2, <1>3
<1> QED
  BY <1>4, <1>5

\* Sums depend on the messages that are summed, and on nothing else.
LEMMA SumSame ==
  ASSUME NEW e, NEW d, NEW S, NEW b, IsElements(e), NEW k, S \subseteq MessagesOf(e, k),
         \A m \in S : d[m] = e[m]
  PROVE  /\ Linked(e, S, b) => Linked(d, S, b)
         /\ After(d, S, b) = After(e, S, b)
<1>1. Linked(e, S, b) => Linked(d, S, b)
  BY DEF Linked, Prior
<1>2. S # {} => Latest(S) \in S
  BY LatestOf
<1>3. After(d, S, b) = After(e, S, b)
  BY <1>2 DEF After
<1> QED
  BY <1>1, <1>3

LEMMA SumOfNone == \A e, b : Linked(e, {}, b) /\ After(e, {}, b) = b
BY DEF Linked, After

KnownIn(c, k) == IF k \in DOMAIN c THEN c[k].means ELSE NULL

Has(n, cm, k, p) == p \in DOMAIN n.pivots /\ k \in DOMAIN cm[n.pivots[p]]

BelowIn(n, cm, k) ==
  IF \E p \in DOMAIN n.pivots : Has(n, cm, k, p)
    THEN KnownIn(cm[n.pivots[CHOOSE p \in DOMAIN n.pivots : Has(n, cm, k, p)]], k)
    ELSE NULL

\* At most one child has the key.
Apart(n, cm, k) == \A p, q : Has(n, cm, k, p) /\ Has(n, cm, k, q) => p = q

LEMMA BelowHas ==
  ASSUME NEW n, NEW cm, NEW k, Apart(n, cm, k), NEW p, Has(n, cm, k, p)
  PROVE  BelowIn(n, cm, k) = cm[n.pivots[p]][k].means
<1> DEFINE q == CHOOSE r \in DOMAIN n.pivots : Has(n, cm, k, r)
<1>1. Has(n, cm, k, q) /\ p \in DOMAIN n.pivots
  BY DEF Has
<1>2. q = p
  BY <1>1 DEF Apart
<1> HIDE DEF q
<1>3. BelowIn(n, cm, k) = KnownIn(cm[n.pivots[q]], k)
  BY <1>1 DEF BelowIn, q
<1> QED
  BY <1>1, <1>2, <1>3 DEF KnownIn, Has

LEMMA BelowHasNot ==
  ASSUME NEW n, NEW cm, NEW k, \A p : ~Has(n, cm, k, p)
  PROVE  BelowIn(n, cm, k) = NULL
BY DEF BelowIn

\* What is below a node depends on the children that have the key.
LEMMA BelowSame ==
  ASSUME NEW n, NEW cm, NEW k, Apart(n, cm, k), NEW n2, NEW cm2, Apart(n2, cm2, k),
         \A p : Has(n, cm, k, p) => \E q : /\ Has(n2, cm2, k, q)
                                           /\ cm2[n2.pivots[q]][k].means = cm[n.pivots[p]][k].means,
         \A q : Has(n2, cm2, k, q) => \E p : Has(n, cm, k, p)
  PROVE  BelowIn(n2, cm2, k) = BelowIn(n, cm, k)
<1>1. CASE \E p : Has(n, cm, k, p)
  <2>1. PICK p : Has(n, cm, k, p)
    BY <1>1
  <2>2. PICK q : Has(n2, cm2, k, q) /\ cm2[n2.pivots[q]][k].means = cm[n.pivots[p]][k].means
    BY <2>1
  <2>3. BelowIn(n, cm, k) = cm[n.pivots[p]][k].means
    BY <2>1, BelowHas
  <2>4. BelowIn(n2, cm2, k) = cm2[n2.pivots[q]][k].means
    BY <2>2, BelowHas
  <2> QED
    BY <2>2, <2>3, <2>4
<1>2. CASE \A p : ~Has(n, cm, k, p)
  BY <1>2, BelowHasNot
<1> QED
  BY <1>1, <1>2

LEMMA TreeApart ==
  TreeInv => \A j \in DOMAIN nodes : \A k : Apart(nodes[j], came, k)
<1> SUFFICES ASSUME TreeInv, NEW j \in DOMAIN nodes, NEW k,
                    NEW p, NEW q, Has(nodes[j], came, k, p), Has(nodes[j], came, k, q)
             PROVE  p = q
  BY DEF Apart
<1>1. k \in Between(nodes[j], p) /\ k \in Between(nodes[j], q)
  BY KidsApart DEF Has
<1>2. p \in Nat /\ q \in Nat /\ k \in Nat
  BY <1>1, NodeFacts, KeysAssumption DEF TreeInv, Between, Has
<1>3. ~(p < q) /\ ~(q < p)
  BY <1>1, <1>2 DEF Between, Has
<1> QED
  BY <1>2, <1>3

LEMMA NextApart ==
  ASSUME TreeInv'
  PROVE  \A j \in DOMAIN nodes' : \A k : Apart(nodes'[j], came', k)
<1>1. (TreeInv => \A j \in DOMAIN nodes : \A k : Apart(nodes[j], came, k))'
  BY TreeApart, PTL
<1> QED
  BY <1>1 DEF Apart, Has

\* A node's elements, those that are sent of them, what is below, what is on its way
\* into it, and the value of k that comes to.
Fits(n, S, b, pe, v, k) ==
  LET W == MessagesOf(n.elements, k) \ S
      P == MessagesOf(pe, k)
      here == After(n.elements, W, b)
  IN /\ Linked(n.elements, W, b)
     /\ Linked(pe, P, here)
     /\ v = After(pe, P, here)

LEMMA ExplainedIs ==
  ASSUME NEW j, NEW k
  PROVE  /\ Explained(j, k) <=>
              Fits(nodes[j], Sent(j), BelowIn(nodes[j], came, k), Pending(j), KnownIn(came[j], k), k)
         /\ Explained(j, k)' <=>
              Fits(nodes'[j], Sent(j)', BelowIn(nodes'[j], came', k), Pending(j)', KnownIn(came'[j], k), k)
<1>1. Explained(j, k) <=>
              Fits(nodes[j], Sent(j), BelowIn(nodes[j], came, k), Pending(j), KnownIn(came[j], k), k)
  <2>1. Below(j, k) = BelowIn(nodes[j], came, k)
    BY DEF Below, BelowIn, Has, Known, KnownIn
  <2> QED
    BY <2>1 DEF Explained, Fits, Waiting, Known, KnownIn
<1>2. Explained(j, k)' <=>
              Fits(nodes'[j], Sent(j)', BelowIn(nodes'[j], came', k), Pending(j)', KnownIn(came'[j], k), k)
  <2>1. Below(j, k)' = BelowIn(nodes'[j], came', k)
    BY DEF Below, BelowIn, Has, Known, KnownIn
  <2> QED
    BY <2>1 DEF Explained, Fits, Waiting, Known, KnownIn
<1> QED
  BY <1>1, <1>2

LEMMA PendingIs ==
  ASSUME NEW j
  PROVE  /\ stack # << >> => Pending(j) = IF Top.node = j THEN Top.elts ELSE NoElements
         /\ stack = << >> => Pending(j) = NoElements
         /\ stack' = << >> => Pending(j)' = NoElements
         /\ \A f : stack' # << >> /\ f = stack'[Len(stack')] =>
              Pending(j)' = IF f.node = j THEN f.elts ELSE NoElements
BY DEF Pending, Top


-----------------------------------------------------------------------------
(* The sums are kept by the steps of a flush that goes down.               *)

LEMMA FitsSame ==
  ASSUME NEW n, NEW S, NEW b, NEW pe, NEW v, NEW k, Fits(n, S, b, pe, v, k),
         IsElements(n.elements), IsElements(pe), NEW n2, NEW S2, NEW pe2,
         MessagesOf(n2.elements, k) \ S2 = MessagesOf(n.elements, k) \ S,
         \A m \in MessagesOf(n.elements, k) \ S : n2.elements[m] = n.elements[m],
         MessagesOf(pe2, k) = MessagesOf(pe, k),
         \A m \in MessagesOf(pe, k) : pe2[m] = pe[m]
  PROVE  Fits(n2, S2, b, pe2, v, k)
<1> DEFINE W == MessagesOf(n.elements, k) \ S
           P == MessagesOf(pe, k)
           here == After(n.elements, W, b)
<1>1. Linked(n.elements, W, b) /\ Linked(pe, P, here) /\ v = After(pe, P, here)
  BY DEF Fits
<1>2. MessagesOf(n2.elements, k) \ S2 = W /\ MessagesOf(pe2, k) = P
  OBVIOUS
<1>3. Linked(n2.elements, W, b) /\ After(n2.elements, W, b) = here
  BY <1>1, SumSame
<1> HIDE DEF here
<1>4. Linked(pe2, P, here) /\ After(pe2, P, here) = After(pe, P, here)
  BY <1>1, SumSame
<1> HIDE DEF W, P
<1> QED
  BY <1>1, <1>2, <1>3, <1>4 DEF Fits

LEMMA LiteralOfSome ==
  ASSUME NEW e, Literal(e), NEW d, DOMAIN d \subseteq DOMAIN e, \A m \in DOMAIN d : d[m] = e[m]
  PROVE  Literal(d)
BY DEF Literal

LEMMA NoneLiteral == Literal(NoElements)
BY NoElementsIs DEF Literal

LEMMA FramesLiteral ==
  ASSUME IsStack', stack' # << >>, NEW f, f = stack'[Len(stack')], Literal(f.elts)
  PROVE  \A g \in DOMAIN stack' : Literal(stack'[g].elts)
<1>1. \A g \in DOMAIN stack' : g # Len(stack') => stack'[g].elts = NoElements
  BY DEF IsStack, Waits
<1> QED
  BY <1>1, NoneLiteral

LEMMA ValueFacts ==
  ASSUME TreeInv, ValueInv
  PROVE  /\ \A j \in DOMAIN nodes : /\ Literal(nodes[j].elements) /\ IsElements(nodes[j].elements)
                                    /\ IsElements(Pending(j)) /\ IsCame(came[j])
         /\ stack # << >> => Literal(Top.elts)
         /\ \A j \in DOMAIN nodes, k \in Keys :
              Fits(nodes[j], Sent(j), BelowIn(nodes[j], came, k), Pending(j), KnownIn(came[j], k), k)
<1>1. \A j \in DOMAIN nodes : /\ Literal(nodes[j].elements) /\ IsElements(nodes[j].elements)
                              /\ IsElements(Pending(j)) /\ IsCame(came[j])
  BY NodeFacts, TopFacts, NoElementsIs DEF ValueInv, Pending, TreeInv
<1>2. stack # << >> => Literal(Top.elts)
  BY TopFacts DEF ValueInv, Top, TreeInv
<1>3. \A j \in DOMAIN nodes, k \in Keys : Explained(j, k)
  BY DEF ValueInv
<1> QED
  BY <1>1, <1>2, <1>3, ExplainedIs

\* What has to be shown of a step of a flush.
LEMMA ValueNext ==
  ASSUME TreeInv, ValueInv, FlushStep,
         \A j \in DOMAIN nodes' : Literal(nodes'[j].elements),
         stack' # << >> => Literal(stack'[Len(stack')].elts),
         \A j \in DOMAIN nodes', k \in Keys :
           Fits(nodes'[j], Sent(j)', BelowIn(nodes'[j], came', k), Pending(j)', KnownIn(came'[j], k), k)
  PROVE  ValueInv'
<1>1. TreeInv'
  BY FlushStepKeepsTree
<1>2. \A g \in DOMAIN stack' : Literal(stack'[g].elts)
  BY <1>1, FramesLiteral, EmptyIsSeq DEF TreeInv
<1>3. \A j \in DOMAIN nodes', k \in Keys : Explained(j, k)'
  BY ExplainedIs
<1>4. \A k \in Keys : expected'[k] = Known(root, k)'
  BY RootKeepsCame DEF ValueInv, Known
<1> QED
  BY <1>2, <1>3, <1>4 DEF ValueInv

LEMMA FlushLeafIs ==
  ASSUME TreeInv, FlushLeaf
  PROVE  /\ \E f : Goes(f) /\ f.elts = Top.elts
         /\ nodes'[Top.node] = Me /\ Relabeled(Me)
<1> DEFINE f == [Top EXCEPT !.at = "apply"]
<1>1. /\ stack # << >> /\ stack' = Become(f)
      /\ UNCHANGED <<nodes, root, came, ops, expected>>
  BY DEF FlushLeaf, At, treeVars, historyVars, callVars
<1>2. IsFrameRecord(Top) /\ Top.node \in DOMAIN nodes /\ Me = nodes[Top.node]
  BY <1>1, TopFacts DEF TreeInv, Me
<1>3. f.node = Top.node /\ f.at = "apply" /\ f.elts = Top.elts
  BY <1>2 DEF IsFrameRecord
<1> HIDE DEF f
<1>4. Became(f)
  BY <1>1, BecomeStack DEF TreeInv
<1>5. stack' # << >> /\ f = stack'[Len(stack')]
  BY <1>4 DEF Became
<1>6. Goes(f)
  BY <1>1, <1>2, <1>3, <1>4, <1>5 DEF Goes, OthersKept
<1>7. Relabeled(Me)
  BY DEF Relabeled
<1> QED
  BY <1>1, <1>2, <1>3, <1>6, <1>7

\* Nothing is applied yet.
LEMMA GoesValue ==
  ASSUME TreeInv, ValueInv, FlushStep, NEW f, Goes(f), f.elts = Top.elts, Relabeled(nodes'[Top.node])
  PROVE  ValueInv'
<1> DEFINE i == Top.node
           n == nodes'[i]
<1>1. /\ stack # << >> /\ i \in DOMAIN nodes /\ Me = nodes[i] /\ came' = came /\ f.node = i
      /\ DOMAIN nodes' = DOMAIN nodes /\ n.elements = Me.elements
      /\ \A j \in DOMAIN nodes : j # i => nodes'[j] = nodes[j]
      /\ stack' # << >> /\ f = stack'[Len(stack')]
  BY DEF Goes, OthersKept, Relabeled
<1>2. TreeInv'
  BY FlushStepKeepsTree
<1>3. \A j \in DOMAIN nodes : Sent(j)' = IF j = i THEN {} ELSE Sent(j)
  BY <1>2, SentBecame DEF Goes, TreeInv
<1>4. Sent(i) = {}
  BY <1>1, SentByTop
<1>5. \A j : Pending(j)' = Pending(j)
  BY <1>1, PendingIs
<1>6. ASSUME NEW k PROVE BelowIn(n, came', k) = BelowIn(Me, came, k)
  <2>1. Apart(Me, came, k) /\ Apart(n, came', k)
    BY <1>1, <1>2, TreeApart, NextApart
  <2>2. /\ \A p : Has(Me, came, k, p) => \E q : /\ Has(n, came', k, q)
                                                /\ came'[n.pivots[q]][k].means = came[Me.pivots[p]][k].means
        /\ \A q : Has(n, came', k, q) => \E p : Has(Me, came, k, p)
    BY <1>1 DEF Relabeled, Has
  <2> HIDE DEF n
  <2> QED
    BY <2>1, <2>2, BelowSame
<1>7. ASSUME NEW j \in DOMAIN nodes', NEW k \in Keys
      PROVE  Fits(nodes'[j], Sent(j)', BelowIn(nodes'[j], came', k), Pending(j)', KnownIn(came'[j], k), k)
  <2>1. /\ Fits(nodes[j], Sent(j), BelowIn(nodes[j], came, k), Pending(j), KnownIn(came[j], k), k)
        /\ IsElements(nodes[j].elements) /\ IsElements(Pending(j))
    BY <1>1, ValueFacts
  <2>2. /\ nodes'[j].elements = nodes[j].elements /\ Sent(j)' = Sent(j)
        /\ BelowIn(nodes'[j], came', k) = BelowIn(nodes[j], came, k)
    BY <1>1, <1>3, <1>4, <1>6
  <2>3. Fits(nodes'[j], Sent(j), BelowIn(nodes[j], came, k), Pending(j), KnownIn(came[j], k), k)
    BY <2>1, <2>2 DEF Fits
  <2> QED
    BY <1>1, <1>5, <2>2, <2>3
<1>8. \A j \in DOMAIN nodes' : Literal(nodes'[j].elements)
  BY <1>1, ValueFacts
<1>9. stack' # << >> => Literal(stack'[Len(stack')].elts)
  BY <1>1, ValueFacts
<1> QED
  BY <1>7, <1>8, <1>9, ValueNext

LEMMA NothingBelowChanged ==
  ASSUME NEW n, NEW cm, NEW cm2, SameBelow(n, cm, cm2), NEW k, Apart(n, cm, k), Apart(n, cm2, k)
  PROVE  BelowIn(n, cm2, k) = BelowIn(n, cm, k)
<1>1. \A p : Has(n, cm, k, p) => Has(n, cm2, k, p) /\ cm2[n.pivots[p]][k].means = cm[n.pivots[p]][k].means
  BY DEF SameBelow, Has
<1>2. \A p : Has(n, cm2, k, p) => Has(n, cm, k, p)
  BY DEF SameBelow, Has
<1> QED
  BY <1>1, <1>2, BelowSame

\* What e makes of a key is known where it came.
LEMMA GainsKnown ==
  ASSUME NEW a, NEW old, NEW e, IsElements(e), Gains(a, old, e), NEW k, NEW b, b = KnownIn(old, k)
  PROVE  /\ KnownIn(a, k) = After(e, MessagesOf(e, k), b)
         /\ k \in KeysOf(e) => k \in DOMAIN a /\ a[k].means = KnownIn(a, k)
<1>1. CASE k \in KeysOf(e)
  <2>1. PICK m : IsLast(m, e, k) /\ a[k].means = e[m].means
    BY <1>1 DEF Gains
  <2>2. m \in MessagesOf(e, k) /\ \A x \in MessagesOf(e, k) : x[2] <= m[2]
    BY <2>1 DEF IsLast, MessagesOf
  <2>3. Latest(MessagesOf(e, k)) = m
    BY <2>2, LatestWhen
  <2>4. k \in DOMAIN a
    BY <1>1 DEF Gains
  <2> QED
    BY <2>1, <2>2, <2>3, <2>4 DEF After, KnownIn
<1>2. CASE k \notin KeysOf(e)
  <2>1. MessagesOf(e, k) = {}
    BY <1>2 DEF KeysOf, MessagesOf
  <2>2. KnownIn(a, k) = KnownIn(old, k)
    BY <1>2 DEF Gains, KnownIn
  <2> QED
    BY <1>2, <2>1, <2>2 DEF After
<1> QED
  BY <1>1, <1>2

LEMMA FitsEmpty ==
  ASSUME NEW n, NEW S, NEW b, NEW v, NEW k, MessagesOf(n.elements, k) \ S = {}, v = b
  PROVE  Fits(n, S, b, NoElements, v, k)
<1>1. MessagesOf(NoElements, k) = {}
  BY NoElementsIs DEF MessagesOf
<1> QED
  BY <1>1, SumOfNone DEF Fits

LEMMA FitsNoPending ==
  ASSUME NEW n, NEW S, NEW b, NEW v, NEW k, Fits(n, S, b, NoElements, v, k)
  PROVE  /\ Linked(n.elements, MessagesOf(n.elements, k) \ S, b)
         /\ v = After(n.elements, MessagesOf(n.elements, k) \ S, b)
<1>1. MessagesOf(NoElements, k) = {}
  BY NoElementsIs DEF MessagesOf
<1> QED
  BY <1>1, SumOfNone DEF Fits

\* ... when none is with a child, either.
LEMMA FitsAlone ==
  ASSUME NEW n, NEW S, NEW b, NEW v, NEW k, Fits(n, {}, b, NoElements, v, k),
         S = MessagesOf(n.elements, k)
  PROVE  Linked(n.elements, S, b) /\ v = After(n.elements, S, b)
<1>1. S \ {} = S
  OBVIOUS
<1>2. /\ Linked(n.elements, MessagesOf(n.elements, k) \ {}, b)
      /\ v = After(n.elements, MessagesOf(n.elements, k) \ {}, b)
  BY FitsNoPending
<1> QED
  BY <1>1, <1>2

LEMMA EntersValue ==
  ASSUME TreeInv, ValueInv, FlushStep, NEW f, NEW c, NEW e, Enters(f, c, e), Literal(e),
         NEW S, S = IF f.at = "child" THEN ElementsFor(nodes'[Top.node], f.pivot) ELSE {},
         \A k \in KeysOf(e) :
           /\ Linked(e, MessagesOf(e, k), KnownIn(came[c], k))
           /\ KnownIn(came[Top.node], k) = After(e, MessagesOf(e, k), KnownIn(came[c], k))
           /\ MessagesOf(Me.elements, k) \ S = {},
         \A k \in Keys : k \notin KeysOf(e) =>
           /\ MessagesOf(Top.elts, k) = {}
           /\ MessagesOf(Me.elements, k) \ S = MessagesOf(Me.elements, k)
  PROVE  ValueInv'
<1> DEFINE i == Top.node
           n == nodes'[i]
<1>1. /\ stack # << >> /\ i \in DOMAIN nodes /\ Me = nodes[i] /\ f.node = i
      /\ Called(f, Frame(c, e)) /\ OthersKept
      /\ DOMAIN nodes' = DOMAIN nodes /\ n.elements = Me.elements /\ Relabeled(n)
      /\ \A j \in DOMAIN nodes : j # i => nodes'[j] = nodes[j]
      /\ \A j \in DOMAIN nodes : j # c => came'[j] = came[j]
      /\ f.pivot \in DOMAIN n.pivots /\ n.pivots[f.pivot] = c
      /\ IsElements(e) /\ c \in DOMAIN nodes /\ c # i /\ came'[c] = Arrived(came[c], e)
      /\ stack' # << >> /\ Frame(c, e) = stack'[Len(stack')]
      /\ KeysOf(e) \subseteq Between(n, f.pivot)
  BY DEF Enters, OthersKept, Relabeled
<1>2. TreeInv'
  BY FlushStepKeepsTree
<1>3. \A j \in DOMAIN nodes : Sent(j)' = IF j = i THEN S ELSE Sent(j)
  BY <1>1, <1>2, SentCalled DEF TreeInv
<1>4. Sent(i) = {}
  BY <1>1, SentByTop
<1>5. \A j : /\ Pending(j)  = IF j = i THEN Top.elts ELSE NoElements
             /\ Pending(j)' = IF j = c THEN e ELSE NoElements
  BY <1>1, PendingIs DEF Frame
<1>6. Gains(came'[c], came[c], e)
  BY <1>1, ArrivedFacts, NodeFacts DEF TreeInv
<1>7. PICK q \in DOMAIN Me.pivots : Me.pivots[q] = c
  BY <1>1 DEF Relabeled
<1>8. ASSUME NEW j \in DOMAIN nodes, j # i PROVE SameBelow(nodes[j], came, came')
  <2>1. \A p \in DOMAIN nodes[j].pivots : nodes[j].pivots[p] # c
    BY <1>1, <1>7, <1>8, OneWay DEF TreeInv
  <2>2. \A p \in DOMAIN nodes[j].pivots : nodes[j].pivots[p] \in DOMAIN nodes
    BY KidsApart
  <2> QED
    BY <1>1, <2>1, <2>2 DEF SameBelow
<1>9. ASSUME NEW j \in DOMAIN nodes, j # i, NEW k
      PROVE  BelowIn(nodes'[j], came', k) = BelowIn(nodes[j], came, k)
  <2>1. Apart(nodes[j], came, k) /\ Apart(nodes'[j], came', k) /\ nodes'[j] = nodes[j]
    BY <1>1, <1>2, <1>9, TreeApart, NextApart
  <2> QED
    BY <1>8, <1>9, <2>1, NothingBelowChanged
<1>10. ASSUME NEW j \in DOMAIN nodes, NEW k \in Keys
       PROVE  /\ Fits(nodes[j], Sent(j), BelowIn(nodes[j], came, k), Pending(j), KnownIn(came[j], k), k)
              /\ IsElements(nodes[j].elements) /\ IsElements(Pending(j))
  BY ValueFacts
<1>11. ASSUME NEW k \in Keys, k \in KeysOf(e)
       PROVE  Fits(n, S, BelowIn(n, came', k), NoElements, KnownIn(came'[i], k), k)
  <2>1. k \in DOMAIN came'[c] /\ came'[c][k].means = After(e, MessagesOf(e, k), KnownIn(came[c], k))
    BY <1>1, <1>6, <1>11, GainsKnown
  <2>2. Has(n, came', k, f.pivot) /\ Apart(n, came', k)
    BY <1>1, <1>2, <2>1, NextApart DEF Has
  <2>3. BelowIn(n, came', k) = came'[c][k].means
    BY <1>1, <2>2, BelowHas
  <2>4. KnownIn(came'[i], k) = BelowIn(n, came', k)
    BY <1>1, <1>11, <2>1, <2>3
  <2>5. MessagesOf(n.elements, k) \ S = {}
    BY <1>1, <1>11
  <2> HIDE DEF n
  <2> QED
    BY <2>4, <2>5, FitsEmpty
<1>12. ASSUME NEW k \in Keys, k \notin KeysOf(e)
       PROVE  Fits(n, S, BelowIn(n, came', k), NoElements, KnownIn(came'[i], k), k)
  <2>1. Apart(Me, came, k) /\ Apart(n, came', k)
    BY <1>1, <1>2, TreeApart, NextApart
  <2>2. \A j \in DOMAIN nodes : /\ k \in DOMAIN came'[j] <=> k \in DOMAIN came[j]
                                /\ k \in DOMAIN came[j] => came'[j][k] = came[j][k]
    BY <1>1, <1>6, <1>12 DEF Gains
  <2>3. \A p \in DOMAIN Me.pivots : Me.pivots[p] \in DOMAIN nodes
    BY <1>1, KidsApart
  <2>4. /\ \A p : Has(Me, came, k, p) => \E r : /\ Has(n, came', k, r)
                                                /\ came'[n.pivots[r]][k].means = came[Me.pivots[p]][k].means
        /\ \A r : Has(n, came', k, r) => \E p : Has(Me, came, k, p)
    BY <1>1, <2>2, <2>3 DEF Relabeled, Has
  <2>5. BelowIn(n, came', k) = BelowIn(Me, came, k)
    <3> HIDE DEF n
    <3> QED
      BY <2>1, <2>4, BelowSame
  <2>6. Fits(Me, {}, BelowIn(n, came', k), Top.elts, KnownIn(came'[i], k), k)
    <3>1. Fits(nodes[i], Sent(i), BelowIn(nodes[i], came, k), Pending(i), KnownIn(came[i], k), k)
      BY <1>1, <1>10
    <3>2. Pending(i) = Top.elts /\ came'[i] = came[i] /\ Me = nodes[i]
      BY <1>1, <1>5
    <3> HIDE DEF i, n
    <3> QED
      BY <1>4, <2>5, <3>1, <3>2
  <2>7. /\ MessagesOf(n.elements, k) \ S = MessagesOf(Me.elements, k) \ {}
        /\ MessagesOf(NoElements, k) = MessagesOf(Top.elts, k) /\ MessagesOf(Top.elts, k) = {}
    BY <1>1, <1>12, NoElementsIs DEF MessagesOf
  <2>8. IsElements(Me.elements) /\ IsElements(Top.elts) /\ n.elements = Me.elements
    BY <1>1, <1>2, ValueFacts, TopFacts DEF TreeInv
  <2> HIDE DEF n, i
  <2> QED
    BY <2>6, <2>7, <2>8, FitsSame
<1>13. ASSUME NEW k \in Keys
       PROVE  Fits(nodes[c], Sent(c), BelowIn(nodes[c], came, k), e, KnownIn(came'[c], k), k)
  <2> DEFINE W == MessagesOf(nodes[c].elements, k) \ Sent(c)
             b == BelowIn(nodes[c], came, k)
             here == After(nodes[c].elements, W, b)
  <2>1. Linked(nodes[c].elements, W, b) /\ KnownIn(came[c], k) = here
    <3>1. Fits(nodes[c], Sent(c), BelowIn(nodes[c], came, k), NoElements, KnownIn(came[c], k), k)
      BY <1>1, <1>5, <1>10
    <3>2. MessagesOf(NoElements, k) = {}
      BY NoElementsIs DEF MessagesOf
    <3>3. Linked(nodes[c].elements, W, b) /\ KnownIn(came[c], k) = After(NoElements, {}, here)
      BY <3>1, <3>2 DEF Fits
    <3> HIDE DEF here
    <3> QED
      BY <3>3, SumOfNone
  <2>2. KnownIn(came'[c], k) = After(e, MessagesOf(e, k), here)
    BY <1>1, <1>6, <2>1, GainsKnown
  <2>3. Linked(e, MessagesOf(e, k), here)
    <3>1. CASE k \in KeysOf(e)
      BY <2>1, <3>1
    <3>2. CASE k \notin KeysOf(e)
      <4>1. MessagesOf(e, k) = {}
        BY <3>2 DEF KeysOf, MessagesOf
      <4> QED
        BY <4>1, SumOfNone
    <3> QED
      BY <3>1, <3>2
  <2> HIDE DEF W, b
  <2> QED
    BY <2>1, <2>2, <2>3 DEF Fits, W, b
<1>14. ASSUME NEW j \in DOMAIN nodes', NEW k \in Keys
       PROVE  Fits(nodes'[j], Sent(j)', BelowIn(nodes'[j], came', k), Pending(j)', KnownIn(came'[j], k), k)
  <2>1. CASE j = i
    <3>1. Sent(j)' = S /\ Pending(j)' = NoElements
      BY <1>1, <1>3, <1>5, <2>1
    <3> QED
      BY <1>11, <1>12, <2>1, <3>1
  <2>2. CASE j = c
    <3>1. Sent(j)' = Sent(c) /\ Pending(j)' = e /\ nodes'[j] = nodes[c]
      BY <1>1, <1>3, <1>5, <2>2
    <3>2. BelowIn(nodes'[j], came', k) = BelowIn(nodes[c], came, k)
      BY <1>1, <1>9, <2>2
    <3> QED
      BY <1>13, <2>2, <3>1, <3>2
  <2>3. CASE j # i /\ j # c
    <3>1. /\ Sent(j)' = Sent(j) /\ Pending(j)' = Pending(j) /\ nodes'[j] = nodes[j] /\ came'[j] = came[j]
          /\ j \in DOMAIN nodes
      BY <1>1, <1>3, <1>5, <2>3
    <3>2. BelowIn(nodes'[j], came', k) = BelowIn(nodes[j], came, k)
      BY <1>9, <2>3, <3>1
    <3> QED
      BY <1>10, <3>1, <3>2
  <2> QED
    BY <2>1, <2>2, <2>3
<1>15. \A j \in DOMAIN nodes' : Literal(nodes'[j].elements)
  BY <1>1, ValueFacts
<1>16. stack' # << >> => Literal(stack'[Len(stack')].elts)
  BY <1>1 DEF Frame
<1> QED
  BY <1>14, <1>15, <1>16, ValueNext

\* Below a node, only the child that leads to a key knows it.
LEMMA BelowEntered ==
  ASSUME TreeInv, TreeInv', NEW f, NEW c, NEW e, Enters(f, c, e),
         NEW k \in Between(nodes'[Top.node], f.pivot)
  PROVE  BelowIn(Me, came, k) = KnownIn(came[c], k)
<1> DEFINE i == Top.node
           n == nodes'[i]
<1>1. /\ i \in DOMAIN nodes /\ Me = nodes[i] /\ Relabeled(n) /\ i \in DOMAIN nodes'
      /\ f.pivot \in DOMAIN n.pivots /\ n.pivots[f.pivot] = c
  BY DEF Enters
<1>2. \A p \in DOMAIN n.pivots : p \in Nat
  <2>1. DOMAIN n.pivots \subseteq Keys
    BY <1>1 DEF TreeInv, HeapTyped, IsNode
  <2> QED
    BY <2>1, KeysAssumption
<1>3. PICK q \in DOMAIN Me.pivots : Me.pivots[q] = c
  BY <1>1 DEF Relabeled
<1>4. ASSUME NEW r, Has(Me, came, k, r) PROVE Me.pivots[r] = c
  <2>1. r \in DOMAIN Me.pivots /\ k \in Between(Me, r)
    BY <1>1, <1>4, KidsApart DEF Has
  <2>2. PICK p \in DOMAIN n.pivots : n.pivots[p] = Me.pivots[r]
    BY <1>1, <2>1 DEF Relabeled
  <2>3. PICK s \in DOMAIN Me.pivots : n.pivots[p] = Me.pivots[s] /\ Between(Me, s) \subseteq Between(n, p)
    BY <1>1, <2>2 DEF Relabeled
  <2>4. Me.pivots[s] = Me.pivots[r]
    BY <2>2, <2>3
  <2>5. s = r
    BY <1>1, <2>1, <2>4, OneWay DEF TreeInv
  <2>6. k \in Between(n, p) /\ k \in Between(n, f.pivot) /\ k \in Nat
    BY <2>1, <2>3, <2>5, KeysAssumption DEF Between
  <2>7. ~(p < f.pivot) /\ ~(f.pivot < p)
    BY <1>1, <1>2, <2>2, <2>6 DEF Between
  <2>8. p = f.pivot
    BY <1>1, <1>2, <2>2, <2>7
  <2> QED
    BY <1>1, <2>2, <2>8
<1>5. CASE k \in DOMAIN came[c]
  <2>1. Has(Me, came, k, q) /\ Apart(Me, came, k)
    BY <1>1, <1>3, <1>5, TreeApart DEF Has
  <2> QED
    BY <1>3, <1>5, <2>1, BelowHas DEF KnownIn
<1>6. CASE k \notin DOMAIN came[c]
  <2>1. \A r : ~Has(Me, came, k, r)
    BY <1>4, <1>6 DEF Has
  <2> QED
    BY <1>6, <2>1, BelowHasNot DEF KnownIn
<1> QED
  BY <1>5, <1>6

LEMMA MessagesBetween ==
  ASSUME NEW n, NEW p, NEW k \in Between(n, p)
  PROVE  MessagesOf(n.elements, k) \subseteq ElementsFor(n, p)
BY DEF MessagesOf, ElementsFor, Between

LEMMA FlushThroughValue ==
  ASSUME TreeInv, ValueInv, FlushStep, FlushThrough, ElementsFor(Lowered, First) = {}
  PROVE  ValueInv'
<1> DEFINE i == Top.node
           n == nodes'[i]
           e == Top.elts
<1>1. PICK f, c : Enters(f, c, e) /\ f.at = "through"
  BY FlushThroughIs
<1>2. TreeInv'
  BY FlushStepKeepsTree
<1>3. /\ stack # << >> /\ i \in DOMAIN nodes /\ Me = nodes[i] /\ n.elements = Me.elements
      /\ KeysOf(e) \subseteq Between(n, f.pivot) /\ ElementsFor(n, f.pivot) = {} /\ IsElements(e)
  BY <1>1 DEF Enters, Relabeled
<1>4. Sent(i) = {} /\ Pending(i) = e
  BY <1>3, SentByTop, PendingIs
<1>5. ASSUME NEW k \in KeysOf(e)
      PROVE  /\ Linked(e, MessagesOf(e, k), KnownIn(came[c], k))
             /\ KnownIn(came[i], k) = After(e, MessagesOf(e, k), KnownIn(came[c], k))
             /\ MessagesOf(Me.elements, k) \ {} = {}
  <2>1. k \in Keys
    BY <1>3, <1>5, ElementFacts
  <2>2. BelowIn(Me, came, k) = KnownIn(came[c], k)
    BY <1>1, <1>2, <1>3, <1>5, BelowEntered
  <2>3. MessagesOf(Me.elements, k) = {}
    BY <1>3, <1>5, MessagesBetween
  <2>4. Fits(Me, {}, KnownIn(came[c], k), e, KnownIn(came[i], k), k)
    <3>1. Fits(nodes[i], Sent(i), BelowIn(nodes[i], came, k), Pending(i), KnownIn(came[i], k), k)
      BY <1>3, <2>1, ValueFacts
    <3> HIDE DEF e
    <3> QED
      BY <1>3, <1>4, <2>2, <3>1
  <2> HIDE DEF i, e
  <2> QED
    BY <2>3, <2>4, SumOfNone DEF Fits
<1>6. \A k : k \notin KeysOf(e) => MessagesOf(e, k) = {}
  BY DEF KeysOf, MessagesOf
<1>7. Literal(e)
  BY <1>3, ValueFacts
<1> HIDE DEF e
<1> QED
  BY <1>1, <1>5, <1>6, <1>7, EntersValue DEF e

LEMMA FlushChildValue ==
  ASSUME TreeInv, ValueInv, FlushStep, FlushChild
  PROVE  ValueInv'
<1> DEFINE i == Top.node
           p == Fullest(Me)
           e == BatchFor(p)
           c == Me.pivots[p]
<1>1. /\ \E f : Enters(f, c, e) /\ f.at = "child" /\ f.pivot = p
      /\ nodes' = nodes /\ p \in DOMAIN Me.pivots
      /\ DOMAIN e = ElementsFor(Me, p) /\ \A m \in DOMAIN e : e[m] = Me.elements[m]
      /\ Top.elts = NoElements
  BY FlushChildEnters, FlushChildIs
<1> HIDE DEF p, e, c
<1>2. PICK f : Enters(f, c, e) /\ f.at = "child" /\ f.pivot = p
  BY <1>1
<1>3. TreeInv'
  BY FlushStepKeepsTree
<1>4. /\ stack # << >> /\ i \in DOMAIN nodes /\ Me = nodes[i] /\ nodes'[Top.node] = Me
      /\ KeysOf(e) \subseteq Between(Me, p) /\ IsElements(e)
  BY <1>1, <1>2 DEF Enters
<1>5. Sent(i) = {} /\ Pending(i) = NoElements
  BY <1>1, <1>4, SentByTop, PendingIs
<1>6. IsElements(Me.elements) /\ Literal(Me.elements)
  BY <1>4, ValueFacts
<1>7. ASSUME NEW k \in KeysOf(e)
      PROVE  /\ Linked(e, MessagesOf(e, k), KnownIn(came[c], k))
             /\ KnownIn(came[i], k) = After(e, MessagesOf(e, k), KnownIn(came[c], k))
             /\ MessagesOf(Me.elements, k) \ ElementsFor(Me, p) = {}
  <2>1. k \in Keys
    BY <1>4, <1>7, ElementFacts
  <2>2. BelowIn(Me, came, k) = KnownIn(came[c], k)
    BY <1>2, <1>3, <1>4, <1>7, BelowEntered
  <2>3. MessagesOf(Me.elements, k) \subseteq ElementsFor(Me, p)
    BY <1>4, <1>7, MessagesBetween
  <2>4. MessagesOf(e, k) = MessagesOf(Me.elements, k)
    BY <1>1, <2>3 DEF MessagesOf, ElementsFor
  <2>5. Fits(Me, {}, KnownIn(came[c], k), NoElements, KnownIn(came[i], k), k)
    <3>1. Fits(nodes[i], Sent(i), BelowIn(nodes[i], came, k), Pending(i), KnownIn(came[i], k), k)
      BY <1>4, <2>1, ValueFacts
    <3> QED
      BY <1>4, <1>5, <2>2, <3>1
  <2> DEFINE M == MessagesOf(e, k)
             b == KnownIn(came[c], k)
  <2>6. Linked(Me.elements, M, b) /\ KnownIn(came[i], k) = After(Me.elements, M, b)
    <3>1. MessagesOf(NoElements, k) = {}
      BY NoElementsIs DEF MessagesOf
    <3> HIDE DEF i, b
    <3> QED
      BY <2>4, <2>5, <3>1, SumOfNone DEF Fits, b
  <2>7. \A m \in M : e[m] = Me.elements[m]
    BY <1>1 DEF MessagesOf
  <2> HIDE DEF b
  <2>8. Linked(e, M, b) /\ After(e, M, b) = After(Me.elements, M, b)
    BY <1>6, <2>4, <2>6, <2>7, SumSame
  <2> QED
    BY <2>3, <2>6, <2>8 DEF b
<1>8. \A k : k \notin KeysOf(e) => MessagesOf(Me.elements, k) \ ElementsFor(Me, p) = MessagesOf(Me.elements, k)
  BY <1>1 DEF KeysOf, MessagesOf
<1>9. \A k : MessagesOf(Top.elts, k) = {}
  BY <1>1, NoElementsIs DEF MessagesOf
<1>10. Literal(e)
  <2>1. DOMAIN e \subseteq DOMAIN Me.elements
    BY <1>1 DEF ElementsFor
  <2> QED
    BY <1>1, <1>6, <2>1, LiteralOfSome
<1>11. ElementsFor(Me, p) = IF f.at = "child" THEN ElementsFor(nodes'[Top.node], f.pivot) ELSE {}
  BY <1>2, <1>4
<1> QED
  BY <1>2, <1>7, <1>8, <1>9, <1>10, <1>11, EntersValue

-----------------------------------------------------------------------------
(* A message is applied.                                                   *)

\* Messages R that are newer than m; m that is newer than W.
Ahead(m, R)        == \A x \in R : m[2] < x[2]
Behind(a, e, W, m) == \A x \in W : x[2] < m[2] /\ a[x] = e[x]

\* The first of the messages that come is done with.
LEMMA SumRest ==
  ASSUME NEW e, IsElements(e), NEW k, NEW P, P = MessagesOf(e, k), NEW b, Linked(e, P, b),
         NEW m \in P, NEW R, R = P \ {m}, Ahead(m, R)
  PROVE  /\ e[m].means = Meaning(b, e[m].op, e[m].val)
         /\ Linked(e, R, e[m].means)
         /\ After(e, R, e[m].means) = After(e, P, b)
<1> USE DEF Ahead
<1>0. \A x \in P : x[2] \in Nat
  BY ElementFacts DEF MessagesOf
<1>1. e[m].means = Meaning(b, e[m].op, e[m].val)
  <2>1. Prior(P, m) = {}
    BY <1>0 DEF Prior
  <2> QED
    BY <2>1 DEF Linked
<1>2. ASSUME NEW z \in R, Prior(R, z) = {}
      PROVE  e[z].means = Meaning(e[m].means, e[z].op, e[z].val)
  <2>1. m \in Prior(P, z) /\ \A x \in Prior(P, z) : x = m
    BY <1>2 DEF Prior
  <2>2. \A x \in Prior(P, z) : x[2] <= m[2]
    BY <1>0, <2>1
  <2>3. e[z].op = UPDATE /\ e[z].means = Meaning(e[m].means, UPDATE, e[z].val)
    BY <2>1, <2>2 DEF Linked
  <2> QED
    BY <2>3
<1>3. ASSUME NEW z \in R, NEW y \in Prior(R, z), \A x \in Prior(R, z) : x[2] <= y[2]
      PROVE  e[z].op = UPDATE /\ e[z].means = Meaning(e[y].means, UPDATE, e[z].val)
  <2>1. y \in Prior(P, z) /\ y \in P /\ m[2] < y[2] /\ z \in P
    BY <1>3 DEF Prior
  <2>2. \A x \in Prior(P, z) : x = m \/ x \in Prior(R, z)
    BY DEF Prior
  <2>3. ASSUME NEW x \in Prior(P, z) PROVE x[2] <= y[2]
    <3>1. CASE x = m
      BY <1>0, <2>1, <3>1
    <3>2. CASE x \in Prior(R, z)
      BY <1>3, <3>2
    <3> QED
      BY <2>2, <3>1, <3>2
  <2> DEFINE Q == Prior(P, z)
  <2>4. \A q \in Q : (\A x \in Q : x[2] <= q[2]) =>
          e[z].op = UPDATE /\ e[z].means = Meaning(e[q].means, UPDATE, e[z].val)
    BY <2>1 DEF Linked
  <2>5. y \in Q /\ \A x \in Q : x[2] <= y[2]
    BY <2>1, <2>3
  <2> HIDE DEF Q
  <2> QED
    BY <2>4, <2>5
<1>4. Linked(e, R, e[m].means)
  BY <1>2, <1>3 DEF Linked
<1>5. After(e, R, e[m].means) = After(e, P, b)
  <2>1. CASE R = {}
    <3>1. \A x \in P : x[2] <= m[2]
      BY <1>0, <2>1
    <3>2. Latest(P) = m
      BY <3>1, LatestWhen
    <3> QED
      BY <2>1, <3>2 DEF After
  <2>2. CASE R # {}
    <3>1. Latest(R) \in R /\ \A x \in R : x[2] <= Latest(R)[2]
      BY <2>2, LatestOf
    <3> DEFINE l == Latest(R)
    <3>2. \A x \in P : x[2] <= l[2]
      <4>1. l \in P \ {m} /\ \A x \in P \ {m} : x[2] <= l[2]
        BY <3>1
      <4> HIDE DEF l
      <4>2. m[2] < l[2] /\ m[2] \in Nat /\ l[2] \in Nat
        BY <1>0, <4>1
      <4>3. m[2] <= l[2]
        BY <4>2
      <4> QED
        BY <4>1, <4>3
    <3>3. Latest(P) = Latest(R)
      BY <3>1, <3>2, LatestWhen
    <3>4. P # {}
      OBVIOUS
    <3> QED
      BY <2>2, <3>3, <3>4 DEF After
  <2> QED
    BY <2>1, <2>2
<1> QED
  BY <1>1, <1>4, <1>5

\* An update takes its place behind the messages that wait.
Extends(a, V, m, e, W, k) ==
  /\ IsElements(e) /\ W = MessagesOf(e, k) /\ IsElements(a) /\ V = MessagesOf(a, k)
  /\ V = W \cup {m} /\ Behind(a, e, W, m) /\ a[m].op = UPDATE

LEMMA SumMore ==
  ASSUME NEW a, NEW V, NEW m, NEW e, NEW W, NEW k, Extends(a, V, m, e, W, k),
         NEW b, Linked(e, W, b), a[m].means = Meaning(After(e, W, b), UPDATE, a[m].val)
  PROVE  Linked(a, V, b) /\ After(a, V, b) = a[m].means
<1> USE DEF Behind, Extends
<1>0. \A x \in V : x[2] \in Nat
  BY ElementFacts DEF MessagesOf
<1>1. Prior(V, m) = W
  BY <1>0 DEF Prior
<1>2. \A z \in W : Prior(V, z) = Prior(W, z)
  BY <1>0 DEF Prior
<1>3. W = {} => a[m].means = Meaning(b, UPDATE, a[m].val)
  BY DEF After
<1>4. ASSUME NEW y \in W, \A x \in W : x[2] <= y[2]
      PROVE  a[m].means = Meaning(a[y].means, UPDATE, a[m].val)
  <2>1. Latest(W) = y
    BY <1>4, LatestWhen
  <2> QED
    BY <1>4, <2>1 DEF After
<1>5. ASSUME NEW z \in W
      PROVE  /\ Prior(W, z) = {} => a[z].means = Meaning(b, a[z].op, a[z].val)
             /\ \A y \in Prior(W, z) : (\A x \in Prior(W, z) : x[2] <= y[2]) =>
                  a[z].op = UPDATE /\ a[z].means = Meaning(a[y].means, UPDATE, a[z].val)
  <2>1. a[z] = e[z] /\ \A y \in Prior(W, z) : a[y] = e[y]
    BY DEF Prior
  <2> DEFINE Q == Prior(W, z)
  <2>2. /\ Q = {} => e[z].means = Meaning(b, e[z].op, e[z].val)
        /\ \A y \in Q : (\A x \in Q : x[2] <= y[2]) =>
             e[z].op = UPDATE /\ e[z].means = Meaning(e[y].means, UPDATE, e[z].val)
    BY DEF Linked
  <2> HIDE DEF Q
  <2> QED
    BY <2>1, <2>2 DEF Q
<1> DEFINE Says(z, Q) ==
             /\ Q = {} => a[z].means = Meaning(b, a[z].op, a[z].val)
             /\ \A y \in Q : (\A x \in Q : x[2] <= y[2]) =>
                  a[z].op = UPDATE /\ a[z].means = Meaning(a[y].means, UPDATE, a[z].val)
<1>6. Linked(a, V, b)
  <2>1. Says(m, Prior(V, m))
    BY <1>1, <1>3, <1>4
  <2>2. \A z \in W : Says(z, Prior(V, z))
    BY <1>2, <1>5
  <2>3. \A z \in V : Says(z, Prior(V, z))
    <3> HIDE DEF Says
    <3> QED
      BY <2>1, <2>2
  <2> QED
    BY <2>3 DEF Linked
<1>7. Latest(V) = m
  <2>1. /\ IsElements(a) /\ V \in SUBSET MessagesOf(a, k)
        /\ m \in V /\ \A x \in V : x[2] <= m[2]
    BY <1>0
  <2> HIDE DEF Behind, Extends, Says
  <2> QED
    BY <2>1, LatestWhen
<1> QED
  BY <1>6, <1>7 DEF After

\* One message that stands for all.
LEMMA SumOfOne ==
  ASSUME NEW a, IsElements(a), NEW k, NEW m, MessagesOf(a, k) = {m}, NEW b,
         a[m].means = Meaning(b, a[m].op, a[m].val)
  PROVE  Linked(a, {m}, b) /\ After(a, {m}, b) = a[m].means
<1>1. m[2] \in Nat
  BY ElementFacts DEF MessagesOf
<1>2. Prior({m}, m) = {}
  BY <1>1 DEF Prior
<1>3. Latest({m}) = m
  BY <1>1, LatestWhen
<1> QED
  BY <1>2, <1>3 DEF Linked, After

LEMMA LiteralReplaced ==
  ASSUME NEW e, Literal(e), NEW m, NEW msg,
         msg.op = INSERT => msg.means = msg.val, msg.op = DELETE => msg.means = NULL
  PROVE  Literal(Replace(e, m, msg)) /\ Literal(Put(e, m, msg))
<1>1. /\ \A y \in DOMAIN Put(e, m, msg) : y = m \/ (y \in DOMAIN e /\ Put(e, m, msg)[y] = e[y])
      /\ Put(e, m, msg)[m] = msg
  BY DEF Put
<1>2. /\ \A y \in DOMAIN Replace(e, m, msg) :
            y = m \/ (y \in DOMAIN e /\ Replace(e, m, msg)[y] = e[y])
      /\ Replace(e, m, msg)[m] = msg
  BY DEF Replace, Put, Without, Restrict, MessagesOf
<1> QED
  BY <1>1, <1>2 DEF Literal

\* apply leaves other keys alone.
LEMMA AppliedOthers ==
  ASSUME NEW n, IsRecord(n), NEW m, NEW msg, msg.op \in {INSERT, DELETE, UPDATE},
         NEW k, k # m[1]
  PROVE  LET A == Apply(n, m, msg).elements
         IN /\ MessagesOf(A, k) = MessagesOf(n.elements, k)
            /\ \A x \in MessagesOf(A, k) : A[x] = n.elements[x]
<1> DEFINE E == n.elements
           A == Apply(n, m, msg).elements
           mine == MessagesOf(E, m[1])
           w == Merged(Into(n, m), msg)
           Same(B) == /\ MessagesOf(B, k) = MessagesOf(E, k)
                      /\ \A x \in MessagesOf(B, k) : B[x] = E[x]
<1>1. A = IF Merges(n, m, msg) THEN Replace(E, m, w)
          ELSE IF msg.op = UPDATE THEN Put(E, m, msg)
          ELSE IF msg.op = DELETE /\ is_leaf(n) THEN Without(E, mine)
          ELSE Replace(E, m, msg)
  BY ApplyIs
<1>2. \A v : Same(Put(E, m, v))
  BY DEF Put, MessagesOf
<1>3. Same(Without(E, mine))
  BY DEF Without, Restrict, MessagesOf
<1>4. \A v : Same(Replace(E, m, v))
  BY DEF Replace, Put, Without, Restrict, MessagesOf
<1>5. Same(A)
  <2> HIDE DEF Same, A, w, E, mine
  <2> QED
    BY <1>1, <1>2, <1>3, <1>4
<1> QED
  BY <1>5

\* apply makes of a node's messages for a key what the message means: as long as it
\* comes in order, or in any order if it is not an update.
LEMMA AppliedSum ==
  ASSUME NEW n, IsRecord(n), IsElements(n.elements), Literal(n.elements),
         NEW m \in MessageKeys, NEW msg \in Message,
         NEW b \in Value \cup {NULL}, is_leaf(n) => b = NULL,
         NEW W, W = MessagesOf(n.elements, m[1]), Linked(n.elements, W, b),
         msg.means = Meaning(After(n.elements, W, b), msg.op, msg.val),
         msg.op = UPDATE => \A x \in W : x[2] < m[2],
         NEW A, A = Apply(n, m, msg).elements, NEW V, V = MessagesOf(A, m[1])
  PROVE  Linked(A, V, b) /\ After(A, V, b) = msg.means /\ Literal(A)
<1> DEFINE E == n.elements
           here == After(E, W, b)
           w == Merged(Into(n, m), msg)
<1>1. /\ msg.op \in {INSERT, DELETE, UPDATE} /\ INSERT # DELETE /\ INSERT # UPDATE /\ DELETE # UPDATE
      /\ msg.val \in Value
  BY DEF Message, INSERT, DELETE, UPDATE
<1>2. A = IF Merges(n, m, msg) THEN Replace(E, m, w)
          ELSE IF msg.op = UPDATE THEN Put(E, m, msg)
          ELSE IF msg.op = DELETE /\ is_leaf(n) THEN Without(E, W)
          ELSE Replace(E, m, msg)
  BY <1>1, ApplyIs
<1>3. IsElements(A)
  BY ApplyTyped
<1>4. ASSUME NEW v, A = Replace(E, m, v), v.means = msg.means, v.op \in {INSERT, DELETE},
             v.means = Meaning(b, v.op, v.val)
      PROVE  Linked(A, V, b) /\ After(A, V, b) = msg.means /\ Literal(A)
  <2>1. V = {m} /\ A[m] = v
    BY <1>4 DEF Replace, Put, Without, Restrict, MessagesOf
  <2>2. Linked(A, {m}, b) /\ After(A, {m}, b) = A[m].means
    BY <1>3, <1>4, <2>1, SumOfOne
  <2>3. Literal(A)
    BY <1>4, LiteralReplaced DEF Meaning, INSERT, DELETE
  <2> QED
    BY <1>4, <2>1, <2>2, <2>3
<1>5. CASE Merges(n, m, msg)
  <2>1. msg.op = UPDATE /\ msg.means = Meaning(here, UPDATE, msg.val)
    BY <1>5 DEF Merges
  <2>2. Into(n, m) \in Value /\ Into(n, m) = IF here = NULL THEN default_value ELSE here
    <3>1. CASE W = {}
      <4>1. here = NULL
        BY <1>5, <3>1 DEF After, Merges
      <4>2. default_value \in Value
        BY DEF default_value, Value
      <4> QED
        BY <3>1, <4>1, <4>2 DEF Into
    <3>2. CASE W # {}
      <4> DEFINE l == Latest(W)
      <4>1. l \in W
        BY <3>2, LatestOf
      <4>2. E[l].op = INSERT /\ Into(n, m) = E[l].val /\ here = E[l].means
        BY <1>5, <3>2 DEF After, Merges, Into
      <4>3. l \in DOMAIN E
        BY <4>1 DEF MessagesOf
      <4>4. E[l].means = E[l].val /\ E[l] \in Message
        BY <4>2, <4>3, ElementFacts DEF Literal
      <4>5. E[l].val \in Value
        BY <4>4 DEF Message
      <4> QED
        BY <4>2, <4>4, <4>5, NullIsNoValue
    <3> QED
      BY <3>1, <3>2
  <2>3. w.op = INSERT /\ w.val = Into(n, m) \o msg.val /\ w.means = msg.means
    BY <2>2, MergedIs
  <2>4. Meaning(b, INSERT, w.val) = w.val
    BY DEF Meaning
  <2>5. msg.means = Into(n, m) \o msg.val
    BY <1>1, <2>1, <2>2 DEF Meaning
  <2>6. A = Replace(E, m, w)
    BY <1>2, <1>5
  <2> HIDE DEF w
  <2> QED
    BY <1>4, <2>3, <2>4, <2>5, <2>6
<1>6. CASE ~Merges(n, m, msg) /\ msg.op = UPDATE
  <2>1. A = Put(E, m, msg)
    BY <1>2, <1>6
  <2>2. /\ V = W \cup {m} /\ A[m] = msg
        /\ \A x \in W : x # m => A[x] = E[x]
    BY <2>1 DEF Put, MessagesOf
  <2>3. m \notin W
    BY <1>6 DEF MessageKeys, Timestamps
  <2>4. Behind(A, E, W, m)
    BY <1>6, <2>2, <2>3 DEF Behind
  <2>5. A[m].op = UPDATE /\ A[m].means = Meaning(After(E, W, b), UPDATE, A[m].val)
    BY <1>6, <2>2
  <2>6. Linked(A, V, b) /\ After(A, V, b) = A[m].means
    <3>1. Extends(A, V, m, E, W, m[1])
      BY <1>3, <2>2, <2>4, <2>5 DEF Extends
    <3>2. Linked(E, W, b)
      OBVIOUS
    <3> HIDE DEF E
    <3> QED
      BY <2>5, <3>1, <3>2, SumMore
  <2>7. Literal(A)
    BY <1>1, <1>6, <2>1, LiteralReplaced
  <2> QED
    BY <2>2, <2>6, <2>7
<1>7. CASE msg.op = DELETE /\ is_leaf(n)
  <2>1. A = Without(E, W)
    BY <1>1, <1>2, <1>7 DEF Merges
  <2>2. V = {} /\ DOMAIN A \subseteq DOMAIN E /\ \A y \in DOMAIN A : A[y] = E[y]
    BY <2>1 DEF Without, Restrict, MessagesOf
  <2>3. Literal(A)
    BY <2>2, LiteralOfSome
  <2>4. msg.means = NULL /\ b = NULL
    BY <1>7 DEF Meaning, DELETE, INSERT
  <2> QED
    BY <2>2, <2>3, <2>4, SumOfNone
<1>8. CASE msg.op # UPDATE /\ ~(msg.op = DELETE /\ is_leaf(n))
  <2>1. A = Replace(E, m, msg)
    BY <1>2, <1>8 DEF Merges
  <2>2. msg.op \in {INSERT, DELETE} /\ msg.means = Meaning(b, msg.op, msg.val)
    BY <1>1, <1>8 DEF Meaning
  <2> QED
    BY <1>4, <2>1, <2>2
<1> QED
  BY <1>5, <1>6, <1>7, <1>8 DEF Merges

LEMMA ApplyNextValue ==
  ASSUME TreeInv, ValueInv, OrderInv \/ BlindInv, FlushStep, ApplyNext
  PROVE  ValueInv'
<1> DEFINE i == Top.node
           e == Top.elts
<1>1. PICK m, n, f : Applies(m, n, f)
  BY ApplyNextIs
<1> DEFINE E == Me.elements
           msg == e[m]
           A == n.elements
           d == f.elts
<1>2. /\ IsElements(e) /\ m \in DOMAIN e /\ m \in MessageKeys /\ msg \in Message
      /\ DOMAIN d = DOMAIN e \ {m}
      /\ \A x \in DOMAIN d : d[x] = e[x] /\ (x[1] = m[1] => m[2] < x[2])
      /\ n = Apply(Me, m, msg) /\ nodes'[i] = n
      /\ IsRecord(Me) /\ IsElements(E) /\ n.pivots = Me.pivots /\ IsElements(A)
  BY <1>1 DEF Applies
<1>3. /\ stack # << >> /\ i \in DOMAIN nodes /\ Me = nodes[i] /\ came' = came /\ f.node = i
      /\ DOMAIN nodes' = DOMAIN nodes /\ Goes(f)
      /\ \A j \in DOMAIN nodes : j # i => nodes'[j] = nodes[j]
      /\ stack' # << >> /\ f = stack'[Len(stack')]
  BY <1>1 DEF Applies, Goes, OthersKept
<1>4. TreeInv'
  BY FlushStepKeepsTree
<1>5. \A j \in DOMAIN nodes : Sent(j)' = IF j = i THEN {} ELSE Sent(j)
  BY <1>3, <1>4, SentBecame DEF Goes, TreeInv
<1>6. Sent(i) = {}
  BY <1>3, SentByTop
<1>7. \A j : /\ Pending(j)  = IF j = i THEN e ELSE NoElements
             /\ Pending(j)' = IF j = i THEN d ELSE NoElements
  BY <1>3, PendingIs
<1>8. msg.op \in {INSERT, DELETE, UPDATE} /\ m[1] \in Keys
  BY <1>2 DEF Message, MessageKeys
<1>9. msg.op = UPDATE => \A x \in MessagesOf(E, m[1]) : x[2] < m[2]
  <2>1. CASE OrderInv
    <3>1. Newer(e, nodes[i], came[i], came)
      BY <1>3, <2>1, PendingNewerIs DEF OrderInv
    <3> QED
      BY <1>2, <1>3, <3>1 DEF Newer
  <2>2. CASE BlindInv
    <3>1. OnlyOnce(e)
      BY <1>3, <2>2, TopFacts DEF BlindInv, TreeInv, Top
    <3> QED
      BY <1>2, <3>1 DEF OnlyOnce
  <2> QED
    BY <2>1, <2>2
<1>10. Literal(E) /\ Literal(e)
  BY <1>3, ValueFacts
<1>11. ASSUME NEW k \in Keys
       PROVE  /\ Fits(Me, {}, BelowIn(Me, came, k), e, KnownIn(came[i], k), k)
              /\ BelowIn(Me, came, k) = BelowIn(n, came', k)
  <2>1. Fits(nodes[i], Sent(i), BelowIn(nodes[i], came, k), Pending(i), KnownIn(came[i], k), k)
    BY <1>3, ValueFacts
  <2>2. Fits(Me, {}, BelowIn(Me, came, k), e, KnownIn(came[i], k), k)
    <3> HIDE DEF e
    <3> QED
      BY <1>3, <1>6, <1>7, <2>1
  <2>3. BelowIn(Me, came, k) = BelowIn(n, came', k)
    BY <1>2, <1>3 DEF BelowIn, Has
  <2> QED
    BY <2>2, <2>3
<1>12. ASSUME NEW k \in Keys, k # m[1]
       PROVE  Fits(n, {}, BelowIn(n, came', k), d, KnownIn(came'[i], k), k)
  <2>1. MessagesOf(A, k) = MessagesOf(E, k) /\ \A x \in MessagesOf(A, k) : A[x] = E[x]
    BY <1>2, <1>8, <1>12, AppliedOthers
  <2>2. MessagesOf(d, k) = MessagesOf(e, k) /\ \A x \in MessagesOf(e, k) : d[x] = e[x]
    BY <1>2, <1>12 DEF MessagesOf
  <2>3. Fits(Me, {}, BelowIn(n, came', k), e, KnownIn(came'[i], k), k)
    <3>1. BelowIn(n, came', k) = BelowIn(Me, came, k) /\ came'[i] = came[i]
      BY <1>3, <1>11
    <3> HIDE DEF e
    <3> QED
      BY <1>11, <3>1
  <2>4. MessagesOf(A, k) \ {} = MessagesOf(E, k) \ {} /\ \A x \in MessagesOf(E, k) \ {} : A[x] = E[x]
    BY <2>1
  <2>5. IsElements(E) /\ IsElements(e)
    BY <1>2
  <2> HIDE DEF i, e, d
  <2> QED
    BY <2>2, <2>3, <2>4, <2>5, FitsSame
<1>13. /\ Fits(n, {}, BelowIn(n, came', m[1]), d, KnownIn(came'[i], m[1]), m[1])
       /\ Literal(A)
  <2> DEFINE k == m[1]
             b == BelowIn(Me, came, k)
             W == MessagesOf(E, k)
             P == MessagesOf(e, k)
             here == After(E, W, b)
             V == MessagesOf(A, k)
  <2>1. Linked(E, W, b) /\ Linked(e, P, here) /\ KnownIn(came[i], k) = After(e, P, here)
    <3>1. W \ {} = W
      OBVIOUS
    <3> HIDE DEF b, W
    <3> QED
      BY <1>8, <1>11, <3>1 DEF Fits, b, W
  <2>2. b \in Value \cup {NULL} /\ (is_leaf(Me) => b = NULL)
    <3>1. is_leaf(Me) => b = NULL
      BY DEF BelowIn, is_leaf
    <3>2. CASE \E p : Has(Me, came, k, p)
      <4>1. PICK p : Has(Me, came, k, p)
        BY <3>2
      <4>2. Apart(Me, came, k) /\ b = came[Me.pivots[p]][k].means
        BY <1>3, <4>1, TreeApart, BelowHas
      <4>3. IsCame(came[Me.pivots[p]])
        BY <1>3, <4>1, KidsApart, NodeFacts DEF TreeInv, Has
      <4> QED
        BY <3>1, <4>1, <4>2, <4>3, CameFacts DEF Has
    <3>3. CASE \A p : ~Has(Me, came, k, p)
      BY <3>3, BelowHasNot
    <3> QED
      BY <3>1, <3>2, <3>3
  <2> DEFINE R == P \ {m}
  <2>3. P = MessagesOf(e, k) /\ m \in P /\ R = P \ {m} /\ Ahead(m, R)
    BY <1>2 DEF MessagesOf, Ahead
  <2>4. /\ msg.means = Meaning(here, msg.op, msg.val)
        /\ Linked(e, R, msg.means)
        /\ After(e, R, msg.means) = After(e, P, here)
    <3>1. IsElements(e)
      BY <1>2
    <3> HIDE DEF here, P, e, k, R
    <3> QED
      BY <2>1, <2>3, <3>1, SumRest
  <2>5. Linked(A, V, b) /\ After(A, V, b) = msg.means /\ Literal(A)
    <3> HIDE DEF b, W, E, i, e
    <3> QED
      BY <1>2, <1>9, <1>10, <2>1, <2>2, <2>4, AppliedSum DEF E, W
  <2>6. MessagesOf(d, k) = R /\ R \subseteq MessagesOf(e, k) /\ \A x \in R : d[x] = e[x]
    BY <1>2 DEF MessagesOf
  <2>7. Linked(d, R, msg.means) /\ After(d, R, msg.means) = After(e, R, msg.means)
    <3> HIDE DEF R, e, d
    <3> QED
      BY <1>2, <2>4, <2>6, SumSame
  <2>8. V \ {} = V /\ BelowIn(n, came', k) = b /\ came'[i] = came[i]
    BY <1>3, <1>8, <1>11
  <2> HIDE DEF b, V, P, R, e, d, i, here
  <2>9. KnownIn(came'[i], k) = After(d, MessagesOf(d, k), msg.means)
    BY <2>1, <2>4, <2>6, <2>7, <2>8
  <2>10. Fits(n, {}, b, d, KnownIn(came'[i], k), k)
    BY <2>5, <2>6, <2>7, <2>8, <2>9 DEF Fits, V
  <2> QED
    BY <2>5, <2>8, <2>10
<1>14. ASSUME NEW j \in DOMAIN nodes', NEW k \in Keys
       PROVE  Fits(nodes'[j], Sent(j)', BelowIn(nodes'[j], came', k), Pending(j)', KnownIn(came'[j], k), k)
  <2>1. CASE j = i
    <3>1. Sent(j)' = {} /\ Pending(j)' = d /\ nodes'[j] = n
      BY <1>2, <1>3, <1>5, <1>7, <2>1
    <3> QED
      BY <1>12, <1>13, <2>1, <3>1
  <2>2. CASE j # i
    <3>1. Sent(j)' = Sent(j) /\ Pending(j)' = Pending(j) /\ nodes'[j] = nodes[j] /\ j \in DOMAIN nodes
      BY <1>3, <1>5, <1>7, <2>2
    <3> QED
      BY <1>3, <3>1, ValueFacts
  <2> QED
    BY <2>1, <2>2
<1>15. \A j \in DOMAIN nodes' : Literal(nodes'[j].elements)
  BY <1>2, <1>3, <1>13, ValueFacts
<1>16. stack' # << >> => Literal(stack'[Len(stack')].elts)
  <2>1. DOMAIN d \subseteq DOMAIN e /\ \A x \in DOMAIN d : d[x] = e[x]
    BY <1>2
  <2> QED
    BY <1>3, <1>10, <2>1, LiteralOfSome
<1> QED
  BY <1>14, <1>15, <1>16, ValueNext

-----------------------------------------------------------------------------
(* Splitting and returning.                                                *)

\* What becomes of a key that no part has: nothing was known of it.
LEMMA LostIsNull ==
  ASSUME TreeInv, ValueInv, Finished, TooLarge, NEW k \in Keys,
         \A l \in Cuts(Me) : k \notin DOMAIN Share(l)
  PROVE  KnownIn(came[Top.node], k) = NULL
<1> DEFINE i == Top.node
<1>1. /\ stack # << >> /\ i \in DOMAIN nodes /\ Me = nodes[i] /\ Top.elts = NoElements
      /\ Cuts(Me) # {} /\ Cuts(Me) \in SUBSET Nat /\ k \in Nat
      /\ DOMAIN Me.pivots \subseteq Nat /\ DOMAIN Me.elements \subseteq Nat \X Nat
  BY CutsFacts, FinishedIs, KeysAssumption DEF TreeInv
<1>2. CASE k \notin DOMAIN came[i]
  BY <1>2 DEF KnownIn
<1>3. CASE k \in DOMAIN came[i]
  <2>1. PICK l \in Cuts(Me) : k \in PartOf(Cuts(Me), l)
    BY <1>1, PartsCover
  <2>2. ~(l <= k)
    BY <1>3, <2>1, ShareIs
  <2>3. \A u \in Units(Me) : ~(u <= k)
    BY <1>1, <2>1, <2>2, PartBegins
  <2>4. ASSUME NEW p \in DOMAIN Me.pivots PROVE ~(p <= k)
    <3>1. p \in Units(Me)
      BY <2>4 DEF Units, is_leaf
    <3> QED
      BY <2>3, <3>1
  <2>5. MessagesOf(Me.elements, k) = {}
    <3>1. k \notin KeysOf(Me.elements)
      <4>1. CASE is_leaf(Me)
        BY <1>1, <2>3, <4>1 DEF Units
      <4>2. CASE ~is_leaf(Me)
        <5>1. BelowPivots(Me.pivots, k)
          BY <1>1, <2>4 DEF BelowPivots
        <5> QED
          BY <1>1, <4>2, <5>1 DEF TreeInv, KeysWithinPivots
      <4> QED
        BY <4>1, <4>2
    <3> QED
      BY <3>1 DEF KeysOf, MessagesOf
  <2>6. \A p : ~Has(Me, came, k, p)
    BY <1>1, <2>4, KidsApart DEF Has, Between
  <2>7. Fits(Me, {}, NULL, NoElements, KnownIn(came[i], k), k)
    <3>1. Fits(nodes[i], Sent(i), BelowIn(nodes[i], came, k), Pending(i), KnownIn(came[i], k), k)
      BY <1>1, ValueFacts
    <3>2. BelowIn(nodes[i], came, k) = NULL
      BY <1>1, <2>6, BelowHasNot
    <3>3. Sent(i) = {} /\ Pending(i) = NoElements
      BY <1>1, SentByTop, PendingIs
    <3> HIDE DEF i
    <3> QED
      BY <1>1, <3>1, <3>2, <3>3
  <2>8. MessagesOf(NoElements, k) = {}
    BY NoElementsIs DEF MessagesOf
  <2> HIDE DEF i
  <2>9. KnownIn(came[i], k) = NULL
    BY <2>5, <2>7, <2>8, SumOfNone DEF Fits
  <2> QED
    BY <2>9 DEF i
<1> QED
  BY <1>2, <1>3

\* A part knows of its keys what the node knew.
LEMMA PartFits ==
  ASSUME TreeInv, ValueInv, FlushStep, Finished, TooLarge, NEW h, SplitUnder(h), IsAbove(h),
         NEW l \in Cuts(Me), NEW k \in Keys
  PROVE  Fits(Parts[l], {}, BelowIn(Parts[l], came', k), NoElements, KnownIn(Share(l), k), k)
<1> DEFINE i == Top.node
           n == Parts[l]
<1>1. /\ stack # << >> /\ i \in DOMAIN nodes /\ Me = nodes[i] /\ Top.elts = NoElements
      /\ Cuts(Me) # {} /\ Cuts(Me) \in SUBSET Nat /\ DOMAIN Me.pivots \subseteq Nat
  BY CutsFacts, FinishedIs DEF TreeInv
<1>2. /\ \A p \in DOMAIN n.pivots : p \in DOMAIN Me.pivots /\ n.pivots[p] = Me.pivots[p]
      /\ \A m \in DOMAIN n.elements : n.elements[m] = Me.elements[m]
      /\ KeysOf(n.elements) \subseteq DOMAIN Share(l)
      /\ \A p \in DOMAIN n.pivots : DOMAIN came[Me.pivots[p]] \subseteq DOMAIN Share(l)
  BY PartFacts DEF IsPart
<1>3. \A p \in DOMAIN Me.pivots : came'[Me.pivots[p]] = came[Me.pivots[p]]
  <2>1. \A p \in DOMAIN Me.pivots : Me.pivots[p] \in DOMAIN nodes /\ Me.pivots[p] # i
    BY <1>1, KidsApart, TopFacts, ChildIsNew DEF TreeInv, Top
  <2> QED
    BY <2>1 DEF SplitUnder
<1>4. CASE k \in DOMAIN Share(l)
  <2>1. KnownIn(Share(l), k) = KnownIn(came[i], k) /\ k \in PartOf(Cuts(Me), l)
    BY <1>4, ShareIs DEF KnownIn
  <2>2. MessagesOf(n.elements, k) = MessagesOf(Me.elements, k)
    BY <2>1, PartMessages DEF MessagesOf
  <2>3. BelowIn(n, came', k) = BelowIn(Me, came, k)
    <3>1. ASSUME NEW p, Has(Me, came, k, p) PROVE Has(n, came', k, p) /\ n.pivots[p] = Me.pivots[p]
      <4>1. p \in DOMAIN Me.pivots /\ p \in Nat /\ k \in DOMAIN came[Me.pivots[p]]
        BY <1>1, <3>1 DEF Has
      <4>2. PICK l2 \in Cuts(Me) : p \in PartOf(Cuts(Me), l2)
        BY <1>1, <4>1, PartsCover
      <4>3. p \in DOMAIN Parts[l2].pivots
        BY <4>1, <4>2, PartMessages
      <4>4. k \in DOMAIN Share(l2)
        BY <4>1, <4>3, PartFacts DEF IsPart
      <4>5. k \in PartOf(Cuts(Me), l2)
        BY <4>4, ShareIs
      <4>6. l2 = l
        BY <1>1, <2>1, <4>5, PartsDisjoint
      <4> QED
        BY <1>2, <1>3, <4>1, <4>3, <4>6 DEF Has
    <3>2. ASSUME NEW p, Has(n, came', k, p) PROVE Has(Me, came, k, p)
      BY <1>2, <1>3, <3>2 DEF Has
    <3>3. Apart(Me, came, k)
      BY <1>1, TreeApart
    <3>4. Apart(n, came', k)
      BY <3>1, <3>2, <3>3 DEF Apart
    <3>5. \A p : Has(Me, came, k, p) => \E q : /\ Has(n, came', k, q)
                                               /\ came'[n.pivots[q]][k].means = came[Me.pivots[p]][k].means
      BY <1>3, <3>1 DEF Has
    <3>6. \A q : Has(n, came', k, q) => \E p : Has(Me, came, k, p)
      BY <3>2
    <3> HIDE DEF n
    <3> QED
      BY <3>3, <3>4, <3>5, <3>6, BelowSame
  <2>4. Fits(Me, {}, BelowIn(n, came', k), NoElements, KnownIn(Share(l), k), k)
    <3>1. Fits(nodes[i], Sent(i), BelowIn(nodes[i], came, k), Pending(i), KnownIn(came[i], k), k)
      BY <1>1, ValueFacts
    <3>2. Sent(i) = {} /\ Pending(i) = NoElements
      BY <1>1, SentByTop, PendingIs
    <3> HIDE DEF i, n
    <3> QED
      BY <1>1, <2>1, <2>3, <3>1, <3>2 DEF i
  <2>5. /\ MessagesOf(n.elements, k) \ {} = MessagesOf(Me.elements, k) \ {}
        /\ \A m \in MessagesOf(Me.elements, k) \ {} : n.elements[m] = Me.elements[m]
    BY <1>2, <2>2 DEF MessagesOf
  <2>6. IsElements(Me.elements) /\ IsElements(NoElements)
    BY <1>1, ValueFacts, NoElementsIs
  <2> QED
    BY <2>4, <2>5, <2>6, FitsSame
<1>5. CASE k \notin DOMAIN Share(l)
  <2>1. MessagesOf(n.elements, k) \ {} = {}
    BY <1>2, <1>5 DEF KeysOf, MessagesOf
  <2>2. \A p : ~Has(n, came', k, p)
    BY <1>2, <1>3, <1>5 DEF Has
  <2>3. BelowIn(n, came', k) = NULL /\ KnownIn(Share(l), k) = NULL
    BY <1>5, <2>2, BelowHasNot DEF KnownIn
  <2> QED
    BY <2>1, <2>3, FitsEmpty
<1> QED
  BY <1>4, <1>5

\* The parts and the other nodes are as the node above them has it.
LEMMA SplitValue ==
  ASSUME TreeInv, ValueInv, FlushStep, Finished, TooLarge, NEW h, SplitUnder(h), IsAbove(h),
         \A j : Pending(j)' = NoElements,
         \A j : j \notin DOMAIN nodes => Sent(j)' = {},
         \A j \in DOMAIN nodes : j # Top.node /\ j # h => Sent(j)' = Sent(j),
         stack' # << >> => stack'[Len(stack')].elts = NoElements,
         Literal(nodes'[h].elements),
         \A k \in Keys : Fits(nodes'[h], Sent(h)', BelowIn(nodes'[h], came', k), NoElements,
                              KnownIn(came'[h], k), k)
  PROVE  ValueInv'
<1> DEFINE i == Top.node
<1>1. stack # << >> /\ i \in DOMAIN nodes /\ Me = nodes[i] /\ Top.elts = NoElements
  BY CutsFacts, FinishedIs DEF TreeInv
<1>2. TreeInv'
  BY FlushStepKeepsTree
<1>3. ASSUME NEW l \in Cuts(Me)
      PROVE  nodes'[Kids[l]] = Parts[l] /\ came'[Kids[l]] = Share(l) /\ Kids[l] \notin DOMAIN nodes
  BY KidsAre DEF SplitUnder
<1>4. ASSUME NEW j \in DOMAIN nodes', NEW k \in Keys
      PROVE  Fits(nodes'[j], Sent(j)', BelowIn(nodes'[j], came', k), Pending(j)', KnownIn(came'[j], k), k)
  <2>1. CASE j = h
    <3>1. Pending(j)' = NoElements
      OBVIOUS
    <3> QED
      BY <2>1, <3>1
  <2>2. CASE \E l \in Cuts(Me) : j = Kids[l]
    <3>1. PICK l \in Cuts(Me) : j = Kids[l]
      BY <2>2
    <3>2. Sent(j)' = {} /\ Pending(j)' = NoElements /\ nodes'[j] = Parts[l] /\ came'[j] = Share(l)
      BY <1>3, <3>1
    <3>3. Fits(Parts[l], {}, BelowIn(Parts[l], came', k), NoElements, KnownIn(Share(l), k), k)
      BY PartFits
    <3> QED
      BY <3>2, <3>3
  <2>3. CASE j \in DOMAIN nodes /\ j # i /\ j # h
    <3>1. Sent(j)' = Sent(j) /\ nodes'[j] = nodes[j] /\ came'[j] = came[j]
      BY <2>3 DEF SplitUnder
    <3>2. Pending(j)' = NoElements /\ Pending(j) = NoElements
      BY <1>1, <2>3, PendingIs
    <3>3. SameBelow(nodes[j], came, came')
      <4>1. \A q \in DOMAIN nodes[j].pivots : nodes[j].pivots[q] \in DOMAIN nodes /\ nodes[j].pivots[q] # i
        BY <2>3, KidsApart DEF SplitUnder
      <4> QED
        BY <4>1 DEF SplitUnder, SameBelow
    <3>4. Apart(nodes[j], came, k) /\ Apart(nodes[j], came', k)
      BY <1>2, <2>3, <3>1, TreeApart, NextApart
    <3>5. BelowIn(nodes[j], came', k) = BelowIn(nodes[j], came, k)
      BY <3>3, <3>4, NothingBelowChanged
    <3>6. Fits(nodes[j], Sent(j), BelowIn(nodes[j], came, k), Pending(j), KnownIn(came[j], k), k)
      BY <2>3, ValueFacts
    <3> QED
      BY <3>1, <3>2, <3>5, <3>6
  <2> QED
    BY <2>1, <2>2, <2>3, SplitCases
<1>5. ASSUME NEW j \in DOMAIN nodes' PROVE Literal(nodes'[j].elements)
  <2>1. CASE j = h
    BY <2>1
  <2>2. CASE \E l \in Cuts(Me) : j = Kids[l]
    <3>1. PICK l \in Cuts(Me) : j = Kids[l]
      BY <2>2
    <3>2. nodes'[j] = Parts[l]
      BY <1>3, <3>1
    <3>3. /\ DOMAIN Parts[l].elements \subseteq DOMAIN Me.elements
          /\ \A m \in DOMAIN Parts[l].elements : Parts[l].elements[m] = Me.elements[m]
      BY PartMessages
    <3>4. Literal(Me.elements)
      BY <1>1, ValueFacts
    <3> QED
      BY <3>2, <3>3, <3>4, LiteralOfSome
  <2>3. CASE j \in DOMAIN nodes /\ j # i /\ j # h
    BY <2>3, ValueFacts DEF SplitUnder
  <2> QED
    BY <2>1, <2>2, <2>3, SplitCases
<1> QED
  BY <1>4, <1>5, NoneLiteral, ValueNext

\* What a caller knows when the flush it waited for has returned.
LEMMA CallerFits ==
  ASSUME TreeInv, ValueInv, NEW a, NEW f, Returns(a, f), NEW k \in Keys
  PROVE  /\ Fits(a, {}, BelowIn(nodes[Caller.node], came, k), NoElements,
                 KnownIn(came[Caller.node], k), k)
         /\ Literal(a.elements)
<1> DEFINE h == Caller.node
           n == nodes[h]
           b == BelowIn(n, came, k)
<1>1. /\ stack # << >> /\ h \in DOMAIN nodes /\ h # Top.node
      /\ DOMAIN a.elements = DOMAIN n.elements \ Sent(h)
      /\ \A m \in DOMAIN a.elements : a.elements[m] = n.elements[m]
  BY DEF Returns
<1>2. Literal(n.elements) /\ IsElements(n.elements) /\ IsElements(NoElements)
  BY <1>1, ValueFacts, NoElementsIs
<1>3. Fits(n, Sent(h), b, NoElements, KnownIn(came[h], k), k)
  <2>1. Fits(n, Sent(h), b, Pending(h), KnownIn(came[h], k), k)
    BY <1>1, ValueFacts
  <2>2. Pending(h) = NoElements
    BY <1>1, PendingIs
  <2> HIDE DEF h, n, b
  <2> QED
    BY <2>1, <2>2
<1>4. /\ MessagesOf(a.elements, k) \ {} = MessagesOf(n.elements, k) \ Sent(h)
      /\ \A m \in MessagesOf(n.elements, k) \ Sent(h) : a.elements[m] = n.elements[m]
  BY <1>1 DEF MessagesOf
<1>5. Literal(a.elements)
  BY <1>1, <1>2, LiteralOfSome
<1> HIDE DEF b, n, h
<1>6. Fits(a, {}, b, NoElements, KnownIn(came[h], k), k)
  BY <1>2, <1>3, <1>4, FitsSame
<1> QED
  BY <1>5, <1>6 DEF b, n, h

LEMMA FitsElements ==
  ASSUME NEW n, NEW S, NEW b, NEW pe, NEW v, NEW k, Fits(n, S, b, pe, v, k),
         NEW n2, n2.elements = n.elements
  PROVE  Fits(n2, S, b, pe, v, k)
BY DEF Fits

LEMMA ReturnWholeValue ==
  ASSUME TreeInv, ValueInv, FlushStep, ReturnWhole
  PROVE  ValueInv'
<1>0. PICK h : h = Caller.node
  OBVIOUS
<1> DEFINE i == Top.node
           a == AfterBatch(nodes[h])
<1>1. /\ Returns(a, Resumed) /\ nodes'[h] = a /\ DOMAIN nodes' = DOMAIN nodes
      /\ \A j \in DOMAIN nodes : j # h => nodes'[j] = nodes[j]
      /\ came' = came
  BY <1>0, ReturnWholeIs
<1> HIDE DEF a
<1>2. /\ stack # << >> /\ Len(stack) > 1 /\ Returned(Resumed) /\ Resumed.node = h
      /\ Resumed.at # "child" /\ Resumed.elts = NoElements /\ a.pivots = nodes[h].pivots
      /\ h \in DOMAIN nodes /\ h # i /\ i \in DOMAIN nodes /\ Top.elts = NoElements /\ Sent(i) = {}
      /\ stack' # << >> /\ Resumed = stack'[Len(stack')]
  BY <1>0, <1>1 DEF Returns
<1>3. TreeInv'
  BY FlushStepKeepsTree
<1>4. \A j \in DOMAIN nodes : Sent(j)' = IF j = h THEN {} ELSE Sent(j)
  BY <1>0, <1>1, <1>2, <1>3, SentReturned DEF TreeInv
<1>5. \A j : Pending(j) = NoElements /\ Pending(j)' = NoElements
  BY <1>2, PendingIs
<1>6. ASSUME NEW j \in DOMAIN nodes', NEW k \in Keys
      PROVE  Fits(nodes'[j], Sent(j)', BelowIn(nodes'[j], came', k), Pending(j)', KnownIn(came'[j], k), k)
  <2>1. Pending(j)' = NoElements /\ Pending(j) = NoElements
    BY <1>5
  <2>2. CASE j = h
    <3>1. Fits(a, {}, BelowIn(nodes[h], came, k), NoElements, KnownIn(came[h], k), k)
      BY <1>0, <1>1, CallerFits
    <3>2. BelowIn(a, came', k) = BelowIn(nodes[h], came, k)
      BY <1>1, <1>2 DEF BelowIn, Has
    <3>3. Sent(j)' = {} /\ nodes'[j] = a /\ came'[j] = came[h]
      BY <1>1, <1>2, <1>4, <2>2
    <3> QED
      BY <2>1, <3>1, <3>2, <3>3
  <2>3. CASE j # h
    <3>1. Sent(j)' = Sent(j) /\ nodes'[j] = nodes[j] /\ came' = came /\ j \in DOMAIN nodes
      BY <1>1, <1>4, <2>3
    <3> QED
      BY <2>1, <3>1, ValueFacts
  <2> QED
    BY <2>2, <2>3
<1>7. Literal(a.elements)
  <2>1. CASE Keys = {}
    BY <1>0, <1>1, <1>2, ValueFacts, LiteralOfSome DEF Returns
  <2>2. CASE Keys # {}
    BY <1>0, <1>1, <2>2, CallerFits
  <2> QED
    BY <2>1, <2>2
<1>8. \A j \in DOMAIN nodes' : Literal(nodes'[j].elements)
  BY <1>1, <1>7, ValueFacts
<1>9. stack' # << >> => Literal(stack'[Len(stack')].elts)
  BY <1>2, NoneLiteral
<1> QED
  BY <1>6, <1>8, <1>9, ValueNext

LEMMA ReturnSplitValue ==
  ASSUME TreeInv, ValueInv, FlushStep, ReturnSplit
  PROVE  ValueInv'
<1>0. PICK h : h = Caller.node
  OBVIOUS
<1> DEFINE i == Top.node
           n == nodes[h]
           p == Caller.pivot
           a == AfterBatch(n)
           H == nodes'[h]
           D == DOMAIN n.pivots \ {p}
           C == Cuts(Me)
<1>1. /\ \E f : Returns(a, f)
      /\ Finished /\ TooLarge /\ SplitUnder(h) /\ IsAbove(h)
      /\ came'[h] = came[h]
      /\ H.elements = a.elements /\ DOMAIN H.pivots = D \cup C
      /\ \A k \in C : H.pivots[k] = Kids[k]
      /\ \A q \in D : q \notin C /\ H.pivots[q] = n.pivots[q]
  BY <1>0, ReturnSplitIs
<1>2. PICK f : Returns(a, f)
  BY <1>1
<1> HIDE DEF a, C
<1>3. /\ h \in DOMAIN nodes /\ p \in DOMAIN n.pivots /\ n.pivots[p] = i /\ i \in DOMAIN nodes /\ h # i
      /\ stack # << >> /\ Len(stack) > 1 /\ Returned(f) /\ f.node = h /\ f.at # "child"
      /\ f.elts = NoElements /\ stack' # << >> /\ f = stack'[Len(stack')] /\ Top.elts = NoElements
      /\ DOMAIN a.elements \subseteq DOMAIN n.elements
      /\ \A m \in DOMAIN a.elements : a.elements[m] = n.elements[m]
  BY <1>0, <1>2 DEF Returns
<1>4. TreeInv'
  BY FlushStepKeepsTree
<1>5. /\ \A j \in DOMAIN nodes : j # i /\ j # h => Sent(j)' = Sent(j)
      /\ \A j : j \notin DOMAIN nodes => Sent(j)' = {}
      /\ Sent(h)' = {}
  BY <1>0, <1>1, <1>3, <1>4, SentReturned DEF TreeInv, SplitUnder
<1>6. \A j : Pending(j)' = NoElements
  BY <1>3, PendingIs
<1>7. ASSUME NEW q \in D PROVE n.pivots[q] \in DOMAIN nodes /\ n.pivots[q] # i
  <2>1. n.pivots[q] \in DOMAIN nodes
    BY <1>3, KidsApart
  <2>2. IsTree /\ q # p /\ q \in DOMAIN nodes[h].pivots /\ p \in DOMAIN nodes[h].pivots
    BY <1>3 DEF TreeInv
  <2>3. nodes[h].pivots[q] # nodes[h].pivots[p]
    BY <1>3, <2>2, OneWay
  <2> QED
    BY <1>3, <2>1, <2>3
<1>8. \A q \in D : came'[n.pivots[q]] = came[n.pivots[q]] /\ H.pivots[q] = n.pivots[q]
  BY <1>1, <1>7 DEF SplitUnder
<1>9. \A l \in C : H.pivots[l] = Kids[l] /\ came'[Kids[l]] = Share(l) /\ l \in DOMAIN H.pivots
  BY <1>1 DEF SplitUnder, C
<1>10. h \in DOMAIN nodes'
  BY <1>1 DEF SplitUnder
<1>11. ASSUME NEW k \in Keys PROVE BelowIn(H, came', k) = BelowIn(n, came, k)
  <2>1. Apart(n, came, k) /\ Apart(H, came', k)
    BY <1>3, <1>4, <1>10, TreeApart, NextApart
  <2>2. \A q : Has(n, came, k, q) <=> \/ q \in D /\ k \in DOMAIN came[n.pivots[q]]
                                      \/ q = p /\ k \in DOMAIN came[i]
    BY <1>3 DEF Has
  <2>3. \A q : Has(H, came', k, q) <=> \/ q \in D /\ k \in DOMAIN came[n.pivots[q]]
                                       \/ q \in C /\ k \in DOMAIN Share(q)
    BY <1>1, <1>8, <1>9 DEF Has
  <2>4. ASSUME NEW l \in C, k \in DOMAIN Share(l)
        PROVE  k \in DOMAIN came[i] /\ Share(l)[k] = came[i][k]
    BY <1>1, <2>4, ShareIs DEF C
  <2>5. ASSUME NEW q, Has(H, came', k, q) PROVE \E r : Has(n, came, k, r)
    BY <2>2, <2>3, <2>4, <2>5
  <2>6. CASE k \in DOMAIN came[i] => \E l \in C : k \in DOMAIN Share(l)
    <3>1. ASSUME NEW q, Has(n, came, k, q)
          PROVE  \E r : /\ Has(H, came', k, r)
                        /\ came'[H.pivots[r]][k].means = came[n.pivots[q]][k].means
      <4>1. CASE q \in D /\ k \in DOMAIN came[n.pivots[q]]
        <5>1. Has(H, came', k, q)
          BY <2>3, <4>1
        <5>2. came'[H.pivots[q]] = came[n.pivots[q]]
          BY <1>8, <4>1
        <5> QED
          BY <5>1, <5>2
      <4>2. CASE q = p /\ k \in DOMAIN came[i]
        <5>1. PICK l \in C : k \in DOMAIN Share(l)
          BY <2>6, <4>2
        <5>2. Has(H, came', k, l)
          BY <2>3, <5>1
        <5>3. came'[H.pivots[l]] = Share(l)
          BY <1>9
        <5>4. came[n.pivots[q]] = came[i]
          BY <1>3, <4>2
        <5> HIDE DEF H, n, i
        <5> QED
          BY <2>4, <5>1, <5>2, <5>3, <5>4
      <4> QED
        BY <2>2, <3>1, <4>1, <4>2
    <3> HIDE DEF H, n
    <3> QED
      BY <2>1, <2>5, <3>1, BelowSame
  <2>7. CASE k \in DOMAIN came[i] /\ \A l \in C : k \notin DOMAIN Share(l)
    <3>1. KnownIn(came[i], k) = NULL
      BY <1>1, <2>7, LostIsNull DEF C
    <3>2. Has(n, came, k, p)
      BY <2>2, <2>7
    <3>3. BelowIn(n, came, k) = came[i][k].means
      BY <1>3, <2>1, <3>2, BelowHas
    <3>4. \A q : ~Has(H, came', k, q)
      <4>1. ASSUME NEW q \in D, k \in DOMAIN came[n.pivots[q]] PROVE FALSE
        <5>1. Has(n, came, k, q)
          BY <2>2, <4>1
        <5>2. q = p
          BY <2>1, <3>2, <5>1 DEF Apart
        <5> QED
          BY <4>1, <5>2
      <4> QED
        BY <2>3, <2>7, <4>1
    <3>5. BelowIn(H, came', k) = NULL
      <4> HIDE DEF H
      <4> QED
        BY <3>4, BelowHasNot
    <3> QED
      BY <2>7, <3>1, <3>3, <3>5 DEF KnownIn
  <2> QED
    BY <2>6, <2>7
<1>12. ASSUME NEW k \in Keys
       PROVE  Fits(H, Sent(h)', BelowIn(H, came', k), NoElements, KnownIn(came'[h], k), k)
  <2>1. Fits(a, {}, BelowIn(n, came, k), NoElements, KnownIn(came[h], k), k)
    BY <1>0, <1>2, CallerFits
  <2>2. H.elements = a.elements /\ came'[h] = came[h] /\ Sent(h)' = {}
    BY <1>1, <1>5
  <2>3. Fits(H, {}, BelowIn(n, came, k), NoElements, KnownIn(came[h], k), k)
    <3> HIDE DEF H, n
    <3> QED
      BY <2>1, <2>2, FitsElements
  <2> QED
    BY <1>11, <2>2, <2>3
<1>13. Literal(H.elements)
  <2>1. Literal(n.elements)
    BY <1>3, ValueFacts
  <2>2. Literal(a.elements)
    BY <1>3, <2>1, LiteralOfSome
  <2> QED
    BY <1>1, <2>2
<1>14. stack' # << >> => stack'[Len(stack')].elts = NoElements
  BY <1>3
<1> QED
  BY <1>1, <1>5, <1>6, <1>12, <1>13, <1>14, SplitValue

LEMMA SplitRootValue ==
  ASSUME TreeInv, ValueInv, FlushStep, SplitRoot
  PROVE  ValueInv'
<1>0. PICK h : h = root'
  OBVIOUS
<1> DEFINE i == Top.node
           H == nodes'[h]
           C == Cuts(Me)
<1>1. /\ Finished /\ TooLarge /\ SplitUnder(h) /\ IsAbove(h) /\ stack' = << >>
      /\ Top.node = root /\ H = [pivots |-> Kids, elements |-> NoElements] /\ came'[h] = came[root]
  BY <1>0, SplitRootIs, SplitRootAbove
<1>2. \A j : Pending(j)' = NoElements /\ Sent(j)' = {}
  BY <1>1, PendingIs, SentAtEnd
<1>3. \A j \in DOMAIN nodes : Sent(j) = {}
  <2>1. stack # << >> /\ Len(stack) = 1
    BY <1>1, FinishedIs DEF SplitRoot, TreeInv
  <2>2. Top.at # "child" /\ DOMAIN stack = {1} /\ stack[1] = Top
    BY <1>1, <2>1, FinishedIs, TopFacts DEF TreeInv, Top
  <2> QED
    BY <2>2, SentAtEnd
<1>4. TreeInv' /\ h \in DOMAIN nodes'
  BY <1>1, FlushStepKeepsTree DEF SplitUnder
<1> HIDE DEF C
<1>5. /\ DOMAIN H.pivots = C /\ \A l \in C : H.pivots[l] = Kids[l] /\ came'[Kids[l]] = Share(l)
      /\ H.elements = NoElements
  BY <1>1, KidsAre DEF SplitUnder, C
<1>6. ASSUME NEW k \in Keys PROVE BelowIn(H, came', k) = KnownIn(came'[h], k)
  <2>1. Apart(H, came', k)
    BY <1>4, NextApart
  <2>2. \A q : Has(H, came', k, q) <=> q \in C /\ k \in DOMAIN Share(q)
    BY <1>5 DEF Has
  <2>3. CASE \E l \in C : k \in DOMAIN Share(l)
    <3>1. PICK l \in C : k \in DOMAIN Share(l)
      BY <2>3
    <3>2. k \in DOMAIN came[root] /\ Share(l)[k] = came[root][k]
      BY <1>1, <3>1, ShareIs DEF C
    <3>3. Has(H, came', k, l) /\ came'[H.pivots[l]] = Share(l)
      BY <1>5, <2>2, <3>1
    <3>4. BelowIn(H, came', k) = Share(l)[k].means
      <4> HIDE DEF H
      <4> QED
        BY <2>1, <3>3, BelowHas
    <3> QED
      BY <1>1, <3>2, <3>4 DEF KnownIn
  <2>4. CASE \A l \in C : k \notin DOMAIN Share(l)
    <3>1. KnownIn(came[i], k) = NULL
      BY <1>1, <2>4, LostIsNull DEF C
    <3>2. \A q : ~Has(H, came', k, q)
      BY <2>2, <2>4
    <3>3. BelowIn(H, came', k) = NULL
      <4> HIDE DEF H
      <4> QED
        BY <3>2, BelowHasNot
    <3> QED
      BY <1>1, <3>1, <3>3
  <2> QED
    BY <2>3, <2>4
<1>7. ASSUME NEW k \in Keys
      PROVE  Fits(H, Sent(h)', BelowIn(H, came', k), NoElements, KnownIn(came'[h], k), k)
  <2>1. MessagesOf(H.elements, k) \ {} = {}
    BY <1>5, NoElementsIs DEF MessagesOf
  <2>2. Sent(h)' = {}
    BY <1>2
  <2>3. Fits(H, {}, BelowIn(H, came', k), NoElements, KnownIn(came'[h], k), k)
    BY <1>6, <2>1, FitsEmpty
  <2> QED
    BY <2>2, <2>3
<1>8. Literal(H.elements)
  BY <1>5, NoneLiteral
<1> QED
  BY <1>1, <1>2, <1>3, <1>7, <1>8, SplitValue

LEMMA UnchangedValue ==
  ASSUME ValueInv, UNCHANGED <<nodes, root, stack, came, expected>>
  PROVE  ValueInv'
<1>1. UNCHANGED nodes /\ UNCHANGED root /\ UNCHANGED stack /\ UNCHANGED came /\ UNCHANGED expected
  OBVIOUS
<1>2. \A j : Sent(j)' = Sent(j) /\ Pending(j)' = Pending(j)
  BY <1>1 DEF Sent, Pending, Top
<1>3. \A j, k : Explained(j, k)' <=> Explained(j, k)
  BY <1>1, <1>2, ExplainedIs
<1>4. \A k : Known(root, k)' = Known(root, k)
  BY <1>1 DEF Known
<1> QED
  BY <1>1, <1>3, <1>4 DEF ValueInv

LEMMA FlushStepKeepsValue ==
  ASSUME TreeInv, ValueInv, OrderInv \/ BlindInv, FlushStep
  PROVE  ValueInv'
<1>1. CASE FlushLeaf
  <2>1. PICK f : Goes(f) /\ f.elts = Top.elts
    BY <1>1, FlushLeafIs
  <2>2. Relabeled(nodes'[Top.node])
    BY <1>1, FlushLeafIs
  <2> QED
    BY <2>1, <2>2, GoesValue
<1>2. CASE FlushToBuffer
  <2>1. PICK f : Goes(f) /\ f.elts = Top.elts
    BY <1>2, FlushToBufferIs
  <2>2. Relabeled(nodes'[Top.node])
    BY <1>2, FlushToBufferIs
  <2> QED
    BY <2>1, <2>2, GoesValue
<1>4. CASE FlushThrough
  <2>1. CASE ElementsFor(Lowered, First) = {}
    BY <1>4, <2>1, FlushThroughValue
  <2>2. CASE ElementsFor(Lowered, First) # {}
    <3>1. UNCHANGED <<nodes, root, stack, came, expected>>
      BY <1>4, <2>2 DEF FlushThrough, callVars
    <3> QED
      BY <3>1, UnchangedValue
  <2> QED
    BY <2>1, <2>2
<1>5. CASE ReturnWholeFails
  <2>1. UNCHANGED <<nodes, root, stack, came, expected>>
    BY <1>5 DEF ReturnWholeFails, callVars, treeVars
  <2> QED
    BY <2>1, UnchangedValue
<1>6. CASE EndUpsert
  <2>1. /\ UNCHANGED <<nodes, root, came, expected>> /\ stack' = << >> /\ stack # << >>
        /\ Len(stack) = 1 /\ Top.elts = NoElements /\ Top.at # "child"
    BY <1>6, FinishedIs DEF EndUpsert, callVars, treeVars, historyVars, TreeInv
  <2>2. DOMAIN stack = {1} /\ stack[1] = Top
    BY <2>1, TopFacts DEF TreeInv, Top
  <2>3. \A j : Sent(j) = {} /\ Sent(j)' = {}
    BY <2>1, <2>2, SentAtEnd
  <2>4. \A j : Pending(j) = NoElements /\ Pending(j)' = NoElements
    BY <2>1, PendingIs
  <2>5. ASSUME NEW j \in DOMAIN nodes', NEW k \in Keys
        PROVE  Fits(nodes'[j], Sent(j)', BelowIn(nodes'[j], came', k), Pending(j)', KnownIn(came'[j], k), k)
    <3>1. /\ Sent(j)' = Sent(j) /\ Pending(j)' = Pending(j) /\ nodes' = nodes /\ came' = came
          /\ j \in DOMAIN nodes
      BY <2>1, <2>3, <2>4
    <3> QED
      BY <3>1, ValueFacts
  <2>6. \A j \in DOMAIN nodes' : Literal(nodes'[j].elements)
    BY <2>1, ValueFacts
  <2> QED
    BY <2>1, <2>5, <2>6, ValueNext
<1> QED
  BY <1>1, <1>2, <1>4, <1>5, <1>6, ApplyNextValue, FlushChildValue, ReturnWholeValue,
     ReturnSplitValue, SplitRootValue DEF FlushStep

-----------------------------------------------------------------------------
(* Calls.                                                                  *)

LEMMA BeginValue ==
  ASSUME TreeInv, ValueInv, NEW op \in {INSERT, DELETE, UPDATE}, NEW k \in Keys,
         NEW ts \in Timestamps, Begin(op, k, ts)
  PROVE  ValueInv'
<1>1. PICK m \in MessageKeys, msg \in Message : \E elts : Begins(op, k, ts, m, msg, elts)
  BY BeginIs
<1>2. PICK e : Begins(op, k, ts, m, msg, e)
  BY <1>1
<1>3. /\ m = <<k, ts>> /\ IsElements(e) /\ DOMAIN e = {m} /\ e[m] = msg /\ KeysOf(e) = {k}
      /\ stack = << >> /\ msg.op = op /\ msg.means = Meaning(expected[k], op, msg.val)
      /\ stack' = <<Frame(root, e)>> /\ came' = [came EXCEPT ![root] = Arrived(@, e)]
      /\ expected' = [expected EXCEPT ![k] = msg.means]
      /\ nodes' = nodes /\ root' = root
  BY <1>2 DEF Begins, Sends
<1>4. root \in DOMAIN nodes /\ DOMAIN came = DOMAIN nodes /\ DOMAIN expected = Keys
  BY HeapSame DEF TreeInv, HeapTyped, CallsTyped
<1>5. came'[root] = Arrived(came[root], e) /\ \A j \in DOMAIN nodes : j # root => came'[j] = came[j]
  BY <1>3, <1>4, CameGains DEF TreeInv
<1>6. Gains(came'[root], came[root], e)
  BY <1>3, <1>4, <1>5, ArrivedFacts, NodeFacts DEF TreeInv
<1>7. \A j : Sent(j)' = {} /\ Sent(j) = {}
  <2>1. DOMAIN stack' = {1} /\ stack'[1].at # "child"
    BY <1>3 DEF Frame
  <2> QED
    BY <1>3, <2>1, SentAtEnd
<1>8. \A j : Pending(j) = NoElements /\ Pending(j)' = IF root = j THEN e ELSE NoElements
  <2>1. stack' # << >> /\ Frame(root, e) = stack'[Len(stack')]
    BY <1>3
  <2> QED
    BY <1>3, <2>1, PendingIs DEF Frame
<1>9. ASSUME NEW j \in DOMAIN nodes, NEW l PROVE BelowIn(nodes[j], came', l) = BelowIn(nodes[j], came, l)
  <2>1. SameBelow(nodes[j], came, came')
    BY <1>5, KidsApart DEF TreeInv, IsTree, SameBelow
  <2>2. Apart(nodes[j], came, l)
    BY TreeApart
  <2>3. Apart(nodes[j], came', l)
    BY <2>1, <2>2 DEF Apart, Has, SameBelow
  <2> QED
    BY <2>1, <2>2, <2>3, NothingBelowChanged
<1>10. ASSUME NEW l \in Keys
       PROVE  /\ expected[l] = KnownIn(came[root], l)
              /\ MessagesOf(e, l) = IF l = k THEN {m} ELSE {}
              /\ After(e, MessagesOf(e, l), KnownIn(came[root], l)) = expected'[l]
              /\ Linked(e, MessagesOf(e, l), KnownIn(came[root], l))
  <2>1. expected[l] = KnownIn(came[root], l)
    BY DEF ValueInv, Known, KnownIn
  <2>2. MessagesOf(e, l) = IF l = k THEN {m} ELSE {}
    BY <1>3 DEF MessagesOf
  <2>3. CASE l = k
    <3>1. MessagesOf(e, k) = {m} /\ e[m].means = Meaning(KnownIn(came[root], k), e[m].op, e[m].val)
      BY <1>3, <2>1, <2>2, <2>3
    <3>2. expected'[k] = e[m].means
      BY <1>3, <1>4
    <3>3. Linked(e, {m}, KnownIn(came[root], k)) /\ After(e, {m}, KnownIn(came[root], k)) = e[m].means
      BY <1>3, <3>1, SumOfOne
    <3> QED
      BY <2>1, <2>2, <2>3, <3>1, <3>2, <3>3
  <2>4. CASE l # k
    <3>1. expected'[l] = expected[l]
      BY <1>3, <1>4, <2>4
    <3> QED
      BY <2>1, <2>2, <2>4, <3>1, SumOfNone
  <2> QED
    BY <2>3, <2>4
<1>11. \A l \in Keys : KnownIn(came'[root], l) = After(e, MessagesOf(e, l), KnownIn(came[root], l))
  BY <1>3, <1>6, GainsKnown
<1>12. ASSUME NEW l \in Keys
       PROVE  Fits(nodes[root], {}, BelowIn(nodes[root], came, l), e, KnownIn(came'[root], l), l)
  <2> DEFINE W == MessagesOf(nodes[root].elements, l) \ {}
             b == BelowIn(nodes[root], came, l)
             here == After(nodes[root].elements, W, b)
  <2>1. Fits(nodes[root], {}, b, NoElements, KnownIn(came[root], l), l)
    <3>1. Fits(nodes[root], Sent(root), b, Pending(root), KnownIn(came[root], l), l)
      BY <1>4, ValueFacts
    <3> HIDE DEF b
    <3> QED
      BY <1>7, <1>8, <3>1
  <2>2. Linked(nodes[root].elements, W, b) /\ KnownIn(came[root], l) = here
    <3>1. MessagesOf(NoElements, l) = {}
      BY NoElementsIs DEF MessagesOf
    <3>2. Linked(nodes[root].elements, W, b) /\ KnownIn(came[root], l) = After(NoElements, {}, here)
      <4> HIDE DEF b
      <4> QED
        BY <2>1, <3>1 DEF Fits
    <3> HIDE DEF here, W, b
    <3> QED
      BY <3>2, SumOfNone
  <2> HIDE DEF W, b
  <2> QED
    BY <1>10, <1>11, <2>2 DEF Fits, W, b
<1>13. ASSUME NEW j \in DOMAIN nodes, NEW l \in Keys PROVE Explained(j, l)'
  <2>1. CASE j = root
    <3>1. /\ nodes'[j] = nodes[root] /\ Sent(j)' = {} /\ Pending(j)' = e /\ came'[j] = came'[root]
          /\ BelowIn(nodes'[j], came', l) = BelowIn(nodes[root], came, l)
      BY <1>3, <1>4, <1>7, <1>8, <1>9, <2>1
    <3>2. Fits(nodes'[j], Sent(j)', BelowIn(nodes'[j], came', l), Pending(j)', KnownIn(came'[j], l), l)
      BY <1>12, <3>1
    <3> QED
      BY <3>2, ExplainedIs
  <2>2. CASE j # root
    <3>1. /\ nodes'[j] = nodes[j] /\ Sent(j)' = Sent(j) /\ Pending(j)' = Pending(j) /\ came'[j] = came[j]
          /\ BelowIn(nodes'[j], came', l) = BelowIn(nodes[j], came, l)
      BY <1>3, <1>5, <1>7, <1>8, <1>9, <2>2
    <3>2. Fits(nodes'[j], Sent(j)', BelowIn(nodes'[j], came', l), Pending(j)', KnownIn(came'[j], l), l)
      BY <3>1, ValueFacts
    <3> QED
      BY <3>2, ExplainedIs
  <2> QED
    BY <2>1, <2>2
<1>14. \A l \in Keys : expected'[l] = Known(root, l)'
  <2>1. \A l : Known(root, l)' = KnownIn(came'[root], l)
    BY <1>3 DEF Known, KnownIn
  <2> QED
    BY <1>10, <1>11, <2>1
<1>15. \A f \in DOMAIN stack' : Literal(stack'[f].elts)
  <2>1. Literal(e)
    BY <1>3 DEF Literal, Meaning, INSERT, DELETE
  <2> QED
    BY <1>3, <2>1 DEF Frame
<1>16. \A j \in DOMAIN nodes' : Literal(nodes'[j].elements)
  BY <1>3, ValueFacts
<1> QED
  BY <1>3, <1>13, <1>14, <1>15, <1>16 DEF ValueInv

LEMMA FlushInitValue ==
  ASSUME FlushInit
  PROVE  ValueInv
<1>1. /\ DOMAIN nodes = {root} /\ nodes[root].elements = NoElements /\ nodes[root].pivots = NoPivots
      /\ stack = << >> /\ came[root] = << >> /\ \A k \in Keys : expected[k] = NULL
  BY DEF FlushInit, NewNode
<1>2. \A k : Known(root, k) = NULL /\ Below(root, k) = NULL
  BY <1>1 DEF Known, Below, NoPivots
<1>3. \A k : Waiting(root, k) = {} /\ MessagesOf(Pending(root), k) = {}
  BY <1>1, NoElementsIs DEF Waiting, Pending, MessagesOf
<1>4. \A k : Explained(root, k)
  BY <1>2, <1>3, SumOfNone DEF Explained
<1> QED
  BY <1>1, <1>2, <1>4, NoneLiteral, EmptyIsSeq DEF ValueInv

-----------------------------------------------------------------------------
(* The query in progress finds what the sums say.                          *)

LEMMA EarliestAhead ==
  ASSUME NEW e, IsElements(e), NEW k, NEW S \in SUBSET MessagesOf(e, k), S # {}
  PROVE  Earliest(S) \in S /\ Ahead(Earliest(S), S \ {Earliest(S)})
<1>1. \A x \in S : x \in DOMAIN e /\ x[1] = k
  BY DEF MessagesOf
<1>2. S \in SUBSET (Nat \X Nat)
  BY <1>1, ElementFacts
<1>3. Earliest(S) \in S /\ \A b \in S \ {Earliest(S)} : Before(Earliest(S), b)
  BY <1>2, EarliestIs
<1>4. \A b \in S \ {Earliest(S)} : Earliest(S)[2] < b[2]
  <2>1. k \in Nat
    BY <1>1, <1>2
  <2> QED
    BY <1>1, <1>3, <2>1 DEF Before
<1> QED
  BY <1>3, <1>4 DEF Ahead

\* Whatever is not the first message for its key is an update.
LEMMA UpdatesBehind ==
  ASSUME NEW e, IsElements(e), NEW k, NEW S, S = MessagesOf(e, k), NEW b, Linked(e, S, b),
         NEW x \in S, NEW z \in S, z[2] < x[2]
  PROVE  e[x].op = UPDATE
<1> DEFINE Q == Prior(S, x)
<1>1. z \in Q /\ Q \in SUBSET MessagesOf(e, k)
  BY DEF Prior
<1>2. \A q \in Q : (\A y \in Q : y[2] <= q[2]) => e[x].op = UPDATE
  BY DEF Linked
<1> HIDE DEF Q
<1>3. Latest(Q) \in Q /\ \A y \in Q : y[2] <= Latest(Q)[2]
  BY <1>1, LatestOf
<1> QED
  BY <1>2, <1>3

\* The first message, or the value below, is what the rest are added to.
LEMMA AddingBegins ==
  ASSUME NEW e, IsElements(e), NEW k, NEW S, S = MessagesOf(e, k), NEW b, Linked(e, S, b),
         NEW m \in S, NEW R, R = S \ {m}, Ahead(m, R),
         NEW v \in Value, v = IF e[m].means = NULL THEN default_value ELSE e[m].means,
         R = {} => e[m].means # NULL
  PROVE  Adding(e, S, R, v)
<1>0. \A x \in S : x[2] \in Nat
  BY ElementFacts DEF MessagesOf
<1>1. \A x \in R : m[2] < x[2] /\ x \in S
  BY DEF Ahead
<1>2. ASSUME NEW x \in R, NEW y \in S, x[2] < y[2] PROVE y \in R
  <2>1. y # m
    BY <1>0, <1>1, <1>2
  <2> QED
    BY <2>1
<1>3. ASSUME NEW x \in R PROVE e[x].op = UPDATE
  BY <1>1, UpdatesBehind
<1>4. ASSUME R = {} PROVE v = e[Latest(S)].means
  <2>1. \A x \in S : x[2] <= m[2]
    BY <1>0, <1>4
  <2>2. Latest(S) = m
    BY <2>1, LatestWhen
  <2> QED
    BY <1>4, <2>2
<1>5. ASSUME NEW z \in R, \A x \in R : z[2] <= x[2] PROVE e[z].means = v \o e[z].val
  <2>1. Linked(e, R, e[m].means)
    BY SumRest
  <2>2. Prior(R, z) = {}
    BY <1>0, <1>1, <1>5 DEF Prior
  <2>3. e[z].means = Meaning(e[m].means, e[z].op, e[z].val)
    BY <2>1, <2>2 DEF Linked
  <2>4. e[z].op = UPDATE
    BY <1>3
  <2> QED
    BY <2>3, <2>4 DEF Meaning, UPDATE, INSERT, DELETE
<1> QED
  BY <1>2, <1>3, <1>4, <1>5 DEF Adding

LEMMA AddingAll ==
  ASSUME NEW e, IsElements(e), NEW k, NEW S, S = MessagesOf(e, k), S # {},
         NEW b \in Value \cup {NULL}, Linked(e, S, b), e[Earliest(S)].op = UPDATE,
         NEW v, v = IF b = NULL THEN default_value ELSE b
  PROVE  Adding(e, S, S, v)
<1> DEFINE m == Earliest(S)
<1>0. \A x \in S : x[2] \in Nat
  BY ElementFacts DEF MessagesOf
<1>1. m \in S /\ \A x \in S : x # m => m[2] < x[2]
  BY EarliestAhead DEF Ahead
<1> HIDE DEF m
<1>2. ASSUME NEW x \in S PROVE e[x].op = UPDATE
  <2>1. CASE x = m
    BY <2>1 DEF m
  <2>2. CASE x # m
    BY <1>1, <2>2, UpdatesBehind
  <2> QED
    BY <2>1, <2>2
<1>3. ASSUME NEW z \in S, \A x \in S : z[2] <= x[2] PROVE e[z].means = v \o e[z].val
  <2>1. Prior(S, z) = {}
    BY <1>0, <1>3 DEF Prior
  <2>2. e[z].means = Meaning(b, e[z].op, e[z].val)
    BY <2>1 DEF Linked
  <2>3. e[z].op = UPDATE
    BY <1>2
  <2> QED
    BY <2>2, <2>3 DEF Meaning, UPDATE, INSERT, DELETE
<1>4. v \in Value
  <2>1. default_value \in Value
    BY DEF Value, default_value
  <2> QED
    BY <2>1
<1> QED
  BY <1>2, <1>3, <1>4 DEF Adding

\* One more update is added.
LEMMA AddingNext ==
  ASSUME NEW e, IsElements(e), NEW k, NEW S, S = MessagesOf(e, k), NEW b, Linked(e, S, b),
         NEW left, NEW v, Adding(e, S, left, v), left # {},
         NEW m, m = Earliest(left), NEW R, R = left \ {m}
  PROVE  e[m].op = UPDATE /\ Adding(e, S, R, v \o e[m].val)
<1>0. \A x \in S : x[2] \in Nat /\ x \in DOMAIN e
  BY ElementFacts DEF MessagesOf
<1>1. /\ left \subseteq S /\ v \in Value
      /\ \A x \in left, y \in S : x[2] < y[2] => y \in left
      /\ \A x \in left : e[x].op = UPDATE
      /\ \A z \in left : (\A x \in left : z[2] <= x[2]) => e[z].means = v \o e[z].val
  BY DEF Adding
<1>2. m \in left /\ \A x \in R : m[2] < x[2]
  BY <1>1, EarliestAhead DEF Ahead
<1>3. \A x \in left : m[2] <= x[2]
  BY <1>0, <1>1, <1>2
<1>4. e[m].means = v \o e[m].val
  BY <1>1, <1>2, <1>3
<1>5. e[m].val \in Value
  BY <1>0, <1>1, <1>2 DEF IsElements, Message
<1>6. v \o e[m].val \in Value
  BY <1>1, <1>5 DEF Value
<1>7. ASSUME NEW x \in R, NEW y \in S, x[2] < y[2] PROVE y \in R
  BY <1>0, <1>1, <1>2, <1>7
<1>8. ASSUME R = {} PROVE v \o e[m].val = e[Latest(S)].means
  <2>1. \A y \in S : y[2] <= m[2]
    <3> SUFFICES ASSUME NEW y \in S, m[2] < y[2] PROVE FALSE
      BY <1>0, <1>1, <1>2
    <3>1. y \in left /\ y # m
      BY <1>0, <1>1, <1>2
    <3> QED
      BY <1>8, <3>1
  <2>2. m \in S
    BY <1>1, <1>2
  <2>3. Latest(S) = m
    BY <2>1, <2>2, LatestWhen
  <2> QED
    BY <1>4, <2>3
<1>9. ASSUME NEW z \in R, \A x \in R : z[2] <= x[2]
      PROVE  e[z].means = (v \o e[m].val) \o e[z].val
  <2> DEFINE Q == Prior(S, z)
  <2>1. m \in Q
    BY <1>1, <1>2 DEF Prior
  <2>2. ASSUME NEW x \in Q PROVE x[2] <= m[2]
    <3>1. x \in S /\ x[2] < z[2] /\ z[2] \in Nat /\ m[2] \in Nat /\ x[2] \in Nat
      BY <1>0, <1>1, <1>2 DEF Prior
    <3>2. m[2] < x[2] => x \in left /\ x # m
      BY <1>1, <1>2, <3>1
    <3>3. ~(x \in R)
      BY <1>9, <3>1
    <3> QED
      BY <3>1, <3>2, <3>3
  <2>3. \A q \in Q : (\A y \in Q : y[2] <= q[2]) =>
          e[z].op = UPDATE /\ e[z].means = Meaning(e[q].means, UPDATE, e[z].val)
    BY <1>1 DEF Linked
  <2> HIDE DEF Q
  <2>4. e[z].means = Meaning(e[m].means, UPDATE, e[z].val)
    BY <2>1, <2>2, <2>3
  <2>5. e[m].means # NULL
    BY <1>4, <1>6, NullIsNoValue
  <2>6. UPDATE # INSERT /\ UPDATE # DELETE
    BY DEF UPDATE, INSERT, DELETE
  <2>7. e[z].means = e[m].means \o e[z].val
    BY <2>4, <2>5, <2>6 DEF Meaning
  <2> QED
    BY <1>4, <2>7
<1>10. Adding(e, S, R, v \o e[m].val)
  <2>1. S # {} /\ R \subseteq S
    BY <1>1, <1>2
  <2>2. \A x \in R : e[x].op = UPDATE
    BY <1>1
  <2> HIDE DEF Value
  <2> QED
    BY <1>6, <1>7, <1>8, <1>9, <2>1, <2>2 DEF Adding
<1> QED
  BY <1>1, <1>2, <1>10

-----------------------------------------------------------------------------
(* The steps of a query.                                                   *)

\* With no flush in progress every message in a buffer waits for its child.
LEMMA WaitingSums ==
  ASSUME TreeInv, ValueInv, stack = << >>, NEW i \in DOMAIN nodes, NEW k \in Keys,
         NEW e, e = nodes[i].elements, NEW S, S = MessagesOf(e, k)
  PROVE  /\ IsElements(e) /\ Literal(e)
         /\ Below(i, k) \in Value \cup {NULL}
         /\ Linked(e, S, Below(i, k))
         /\ Known(i, k) = After(e, S, Below(i, k))
<1> DEFINE b == BelowIn(nodes[i], came, k)
<1>1. IsElements(e) /\ Literal(e)
      /\ Fits(nodes[i], Sent(i), b, Pending(i), KnownIn(came[i], k), k)
  BY ValueFacts
<1>2. Pending(i) = NoElements
  BY PendingIs
<1>3. Sent(i) = {}
  BY DEF Sent
<1>4. Fits(nodes[i], {}, b, NoElements, KnownIn(came[i], k), k)
  BY <1>1, <1>2, <1>3
<1>6. Linked(e, S, b) /\ KnownIn(came[i], k) = After(e, S, b)
  <2> HIDE DEF b
  <2> QED
    BY <1>4, FitsAlone
<1>7. Below(i, k) = b /\ Known(i, k) = KnownIn(came[i], k)
  BY DEF Below, BelowIn, Has, Known, KnownIn
<1>8. b \in Value \cup {NULL}
  <2>1. CASE \A p : ~Has(nodes[i], came, k, p)
    BY <2>1, BelowHasNot
  <2>2. CASE \E p : Has(nodes[i], came, k, p)
    <3>1. PICK p : Has(nodes[i], came, k, p)
      BY <2>2
    <3>2. b = came[nodes[i].pivots[p]][k].means
      BY <3>1, TreeApart, BelowHas
    <3>3. nodes[i].pivots[p] \in DOMAIN nodes
      BY <3>1, KidsApart DEF Has
    <3>4. IsCame(came[nodes[i].pivots[p]])
      BY <3>3, NodeFacts DEF TreeInv
    <3> QED
      BY <3>1, <3>2, <3>4 DEF IsCame, Has
  <2> QED
    BY <2>1, <2>2
<1> HIDE DEF b
<1> QED
  BY <1>1, <1>6, <1>7, <1>8

\* What the searched child knows is all that is below.
LEMMA BelowLeads ==
  ASSUME TreeInv, NEW i \in DOMAIN nodes, NEW p \in DOMAIN nodes[i].pivots, NEW k \in Keys,
         k \in Between(nodes[i], p)
  PROVE  Below(i, k) = Known(nodes[i].pivots[p], k)
<1> DEFINE n == nodes[i]
<1>1. Below(i, k) = BelowIn(n, came, k)
      /\ Known(n.pivots[p], k) = KnownIn(came[n.pivots[p]], k)
  BY DEF Below, BelowIn, Has, Known, KnownIn
<1>2. ASSUME NEW q, Has(n, came, k, q) PROVE q = p
  <2>1. k \in Between(n, q) /\ q \in DOMAIN n.pivots
    BY <1>2, KidsApart DEF Has
  <2>2. q \in Nat /\ p \in Nat /\ k \in Nat
    BY <2>1, NodeFacts, KeysAssumption DEF TreeInv
  <2>3. ~(p < q) /\ ~(q < p)
    BY <2>1, <2>2 DEF Between
  <2> QED
    BY <2>2, <2>3
<1>3. CASE Has(n, came, k, p)
  <2>1. BelowIn(n, came, k) = came[n.pivots[p]][k].means
    BY <1>3, TreeApart, BelowHas
  <2> QED
    BY <1>1, <1>3, <2>1 DEF KnownIn, Has
<1>4. CASE ~Has(n, came, k, p)
  <2>1. BelowIn(n, came, k) = NULL
    BY <1>2, <1>4, BelowHasNot
  <2> QED
    BY <1>1, <1>4, <2>1 DEF KnownIn, Has
<1> QED
  BY <1>3, <1>4

LEMMA NothingBelow ==
  ASSUME TreeInv, NEW i \in DOMAIN nodes, NEW k \in Keys, BelowPivots(nodes[i].pivots, k)
  PROVE  Below(i, k) = NULL
<1>1. ASSUME NEW q, Has(nodes[i], came, k, q) PROVE FALSE
  <2>1. k \in Between(nodes[i], q) /\ q \in DOMAIN nodes[i].pivots
    BY <1>1, KidsApart DEF Has
  <2>2. q \in Nat /\ k \in Nat
    BY <2>1, NodeFacts, KeysAssumption DEF TreeInv
  <2> QED
    BY <2>1, <2>2 DEF Between, BelowPivots
<1>2. Below(i, k) = BelowIn(nodes[i], came, k)
  BY DEF Below, BelowIn, Has, Known, KnownIn
<1> QED
  BY <1>1, <1>2, BelowHasNot

\* A query changes nothing but its own state.
LEMMA QueryNext ==
  ASSUME UNCHANGED <<nodes, root, stack, came, expected>>,
         asked' # NULL => stack = << >> /\ Asks(asked')
  PROVE  QueryInv'
<1>1. nodes' = nodes /\ root' = root /\ stack' = stack /\ came' = came /\ expected' = expected
  OBVIOUS
<1>2. \A i, k : Below(i, k) = BelowIn(nodes[i], came, k)
  BY DEF Below, BelowIn, Has, Known, KnownIn
<1>3. ASSUME NEW i, NEW k PROVE Below(i, k)' = BelowIn(nodes'[i], came', k)
  BY DEF Below, BelowIn, Has, Known, KnownIn
<1>4. \A i, k : Below(i, k)' = Below(i, k)
  BY <1>1, <1>2, <1>3
<1>5. \A i, k : UpdatesOnly(i, k)' <=> UpdatesOnly(i, k)
  BY <1>1 DEF UpdatesOnly
<1>6. \A i, c, k : LeadsTo(i, c, k)' <=> LeadsTo(i, c, k)
  BY <1>1, <1>5 DEF LeadsTo
<1>7. \A path, k : OnTheWay(path, k)' <=> OnTheWay(path, k)
  BY <1>1, <1>6 DEF OnTheWay
<1> QED
  BY <1>1, <1>4, <1>5, <1>7 DEF QueryInv, Asks

LEMMA AskedFacts ==
  ASSUME TreeInv, QueryInv, asked # NULL, asked.at # "answer",
         NEW path, path = asked.path, NEW i, i = path[Len(path)]
  PROVE  /\ stack = << >> /\ Asks(asked) /\ asked.key \in Keys
         /\ path \in Seq(DOMAIN nodes) /\ Len(path) \in Nat /\ Len(path) > 0
         /\ i \in DOMAIN nodes /\ OnTheWay(path, asked.key)
         /\ Here = nodes[i] /\ Mine = MessagesOf(nodes[i].elements, asked.key)
         /\ IsRecord(nodes[i])
<1>1. stack = << >> /\ Asks(asked)
  BY DEF QueryInv
<1>2. asked.key \in Keys /\ OnTheWay(path, asked.key) /\ path \in Seq({path[j] : j \in DOMAIN path})
  BY <1>1 DEF Asks
<1>3. path # << >> /\ \A j \in DOMAIN path : path[j] \in DOMAIN nodes
  BY <1>2 DEF OnTheWay
<1>4. Len(path) \in Nat /\ Len(path) > 0 /\ DOMAIN path = 1..Len(path)
  BY <1>2, <1>3
<1>5. path \in Seq(DOMAIN nodes)
  BY <1>2, <1>3, <1>4
<1>6. i \in DOMAIN nodes
  BY <1>3, <1>4
<1>7. Here = nodes[i] /\ Mine = MessagesOf(nodes[i].elements, asked.key)
  BY DEF Here, Mine
<1>8. IsRecord(nodes[i])
  BY <1>6, NodeFacts DEF TreeInv
<1> QED
  BY <1>1, <1>2, <1>4, <1>5, <1>6, <1>7, <1>8

\* A path without its last node.
IsButLast(c, s, L) ==
  /\ L \in Nat /\ Len(c) = L - 1 /\ DOMAIN c = 1..L - 1
  /\ \A j \in 1..L - 1 : c[j] = s[j]
  /\ IsSeq(c)
  /\ L # 1 => L - 1 \in 1..L /\ c # << >> /\ c[Len(c)] = s[L - 1]

LEMMA ButLast ==
  ASSUME NEW T, NEW s \in Seq(T), NEW L, L = Len(s), L > 0,
         NEW c, c = SubSeq(s, 1, L - 1)
  PROVE  IsButLast(c, s, L)
<1>1. L \in Nat /\ Len(c) = L - 1 /\ c \in Seq(T)
  OBVIOUS
<1>2. DOMAIN c = 1..L - 1
  BY <1>1
<1>3. \A j \in 1..L - 1 : c[j] = s[j]
  BY <1>1
<1>4. PICK n \in Nat : n = L - 1
  BY <1>1
<1>5. c = [j \in 1..n |-> c[j]]
  BY <1>1, <1>2, <1>4
<1>6. IsSeq(c)
  BY <1>5, FunctionIsSeq, Zenon
<1>7. L # 1 => Len(c) > 0 /\ L - 1 \in 1..L - 1 /\ L - 1 \in 1..L
  BY <1>1
<1>8. L # 1 => c # << >>
  BY <1>6, <1>7, IsSeqFacts
<1> QED
  BY <1>1, <1>2, <1>3, <1>6, <1>7, <1>8 DEF IsButLast

\* The call on top answers what its node knows.
LEMMA Answered ==
  ASSUME TreeInv, ValueInv, QueryInv, asked # NULL, asked.at # "answer",
         NEW v, v = Known(asked.path[Len(asked.path)], asked.key), Answers(v)
  PROVE  Asks(asked')
<1> DEFINE path == asked.path
           k == asked.key
           L == Len(path)
           callers == SubSeq(path, 1, L - 1)
           a == [key |-> k, path |-> callers, at |-> IF callers = << >> THEN "answer" ELSE "up",
                 left |-> {}, value |-> v]
<1>1. /\ stack = << >> /\ Asks(asked) /\ k \in Keys
      /\ path \in Seq(DOMAIN nodes) /\ L \in Nat /\ L > 0
      /\ path[L] \in DOMAIN nodes /\ OnTheWay(path, k)
  BY AskedFacts
<1>2. asked = [key |-> asked.key, path |-> asked.path, at |-> asked.at, left |-> asked.left,
               value |-> asked.value]
  BY <1>1 DEF Asks
<1>3. asked' = a
  BY <1>2 DEF Answers
<1>4. /\ Len(callers) = L - 1 /\ DOMAIN callers = 1..L - 1 /\ IsSeq(callers)
      /\ \A j \in 1..L - 1 : callers[j] = path[j]
      /\ L # 1 => L - 1 \in 1..L /\ callers # << >> /\ callers[Len(callers)] = path[L - 1]
  <2>1. path \in Seq(DOMAIN nodes) /\ L = Len(path) /\ L > 0 /\ callers = SubSeq(path, 1, L - 1)
    BY <1>1
  <2> HIDE DEF path, L, callers, k, a
  <2>2. IsButLast(callers, path, L)
    BY <2>1, ButLast
  <2> QED
    BY <2>2 DEF IsButLast
<1>5. /\ path[1] = root
      /\ \A j \in 1..L : path[j] \in DOMAIN nodes
      /\ \A j \in 1..L : j # L => LeadsTo(path[j], path[j + 1], k)
  BY <1>1 DEF OnTheWay
<1>6. callers \in Seq({callers[j] : j \in DOMAIN callers})
  <2> HIDE DEF callers
  <2> QED
    BY <1>4 DEF IsSeq
<1>7. CASE L = 1
  <2>1. callers = << >>
    BY <1>4, <1>7
  <2>2. v = expected[k]
    BY <1>1, <1>5, <1>7 DEF ValueInv
  <2> HIDE DEF k, callers, path
  <2> QED
    BY <1>1, <1>3, <1>6, <2>1, <2>2 DEF Asks
<1>8. CASE L # 1
  <2> DEFINE i == path[L - 1]
  <2>1. /\ L - 1 \in 1..L /\ L - 1 # L /\ (L - 1) + 1 = L
        /\ callers # << >> /\ callers[Len(callers)] = i /\ DOMAIN callers = 1..L - 1
    <3>1. L \in Nat
      BY <1>1
    <3> HIDE DEF path, callers, L
    <3> QED
      BY <1>4, <1>8, <3>1
  <2>2. i \in DOMAIN nodes /\ LeadsTo(i, path[L], k)
    BY <1>5, <2>1
  <2>3. PICK p \in DOMAIN nodes[i].pivots : path[L] = nodes[i].pivots[p] /\ k \in Between(nodes[i], p)
    BY <2>2 DEF LeadsTo
  <2>4. Below(i, k) = v
    BY <1>1, <2>2, <2>3, BelowLeads
  <2>5. ~is_leaf(nodes[i])
    BY <2>3 DEF is_leaf
  <2>6. UpdatesOnly(i, k)
    BY <2>2 DEF LeadsTo
  <2>7. OnTheWay(callers, k)
    <3>1. callers[1] = root
      BY <1>4, <1>5, <2>1, <1>1, <1>8
    <3>2. \A j \in DOMAIN callers : callers[j] \in DOMAIN nodes
      BY <1>4, <1>5, <2>1, <1>1
    <3>3. ASSUME NEW j \in DOMAIN callers, j # Len(callers)
          PROVE  LeadsTo(callers[j], callers[j + 1], k)
      <4>1. j \in 1..L /\ j # L /\ j \in 1..L - 1 /\ j + 1 \in 1..L - 1
        BY <1>1, <1>4, <2>1, <3>3
      <4> QED
        BY <1>4, <1>5, <4>1
    <3> HIDE DEF k, callers
    <3> QED
      BY <2>1, <3>1, <3>2, <3>3 DEF OnTheWay
  <2> HIDE DEF k, callers, path, i
  <2> QED
    BY <1>1, <1>3, <1>6, <2>1, <2>4, <2>5, <2>6, <2>7 DEF Asks
<1> QED
  BY <1>7, <1>8

LEMMA AskLeafIs ==
  ASSUME TreeInv, ValueInv, QueryInv, AskLeaf
  PROVE  Asks(asked')
<1> DEFINE k == asked.key
           i == asked.path[Len(asked.path)]
           e == nodes[i].elements
           S == MessagesOf(e, k)
<1>0. asked # NULL /\ asked.at = "down"
  BY DEF AskLeaf, Asking
<1>1. /\ stack = << >> /\ k \in Keys /\ i \in DOMAIN nodes
      /\ Here = nodes[i] /\ Mine = S
  BY <1>0, AskedFacts
<1>2. /\ IsElements(e) /\ Literal(e)
      /\ Known(i, k) = After(e, S, Below(i, k))
  BY <1>1, WaitingSums
<1>3. CASE Mine = {}
  <2>1. BelowPivots(nodes[i].pivots, k)
    BY <1>1 DEF AskLeaf, is_leaf, BelowPivots
  <2>2. Known(i, k) = NULL
    BY <1>1, <1>2, <1>3, <2>1, NothingBelow, SumOfNone
  <2>3. Answers(NULL)
    BY <1>3 DEF AskLeaf
  <2> QED
    BY <1>0, <2>2, <2>3, Answered
<1>4. CASE Mine # {}
  <2> DEFINE m == Earliest(Mine)
  <2>1. m \in S
    BY <1>1, <1>2, <1>4, EarliestAhead
  <2>2. m \in DOMAIN e /\ m[1] = k
    BY <2>1 DEF MessagesOf
  <2>3. ProperLeaf(nodes[i])
    BY <1>1 DEF AskLeaf, TreeInv, LeavesHoldInserts
  <2>4. e[m].op = INSERT /\ S = {m}
    BY <2>2, <2>3 DEF ProperLeaf
  <2>5. Latest(S) = m
    <3>1. \A x \in S : x[2] <= m[2]
      BY <1>2, <2>2, <2>4, ElementFacts
    <3> HIDE DEF m, k
    <3> QED
      BY <1>2, <2>1, <3>1, LatestWhen
  <2>6. Known(i, k) = e[m].val
    <3>1. e[m].means = e[m].val
      BY <1>2, <2>2, <2>4 DEF Literal
    <3> QED
      BY <1>2, <2>4, <2>5, <3>1 DEF After
  <2>7. Op(m) = INSERT /\ Val(m) = e[m].val
    BY <1>1, <2>4 DEF Op, Val
  <2>8. Answers(Val(m))
    BY <1>4, <2>7 DEF AskLeaf
  <2> QED
    BY <1>0, <2>6, <2>7, <2>8, Answered
<1> QED
  BY <1>3, <1>4

LEMMA SearchDownIs ==
  ASSUME TreeInv, QueryInv, SearchDown, NEW i, i = asked.path[Len(asked.path)]
  PROVE  /\ asked # NULL /\ asked.at = "down" /\ i \in DOMAIN nodes /\ ~is_leaf(nodes[i])
         /\ UpdatesOnly(i, asked.key)
<1>1. asked # NULL /\ asked.at = "down"
  BY DEF SearchDown, Asking
<1>2. i \in DOMAIN nodes /\ Here = nodes[i] /\ Mine = MessagesOf(nodes[i].elements, asked.key)
  BY <1>1, AskedFacts
<1> QED
  BY <1>1, <1>2 DEF SearchDown, UpdatesOnly, Op

LEMMA AskChildIs ==
  ASSUME TreeInv, QueryInv, AskChild
  PROVE  Asks(asked')
<1> DEFINE path == asked.path
           k == asked.key
           L == Len(path)
           i == path[L]
           p == get_pivot(nodes[i].pivots, k)
           c == nodes[i].pivots[p]
           longer == Append(path, c)
<1>0. SearchDown /\ asked # NULL /\ asked.at = "down"
  BY DEF AskChild, SearchDown, Asking
<1>1. /\ Asks(asked) /\ k \in Keys /\ i \in DOMAIN nodes /\ Here = nodes[i]
      /\ path \in Seq(DOMAIN nodes) /\ L \in Nat /\ L > 0 /\ OnTheWay(path, k)
  BY <1>0, AskedFacts
<1>2. UpdatesOnly(i, k)
  BY <1>0, SearchDownIs
<1>3. DOMAIN nodes[i].pivots \subseteq Nat /\ k \in Nat
  BY <1>1, NodeFacts, KeysAssumption DEF TreeInv
<1>4. ~BelowPivots(nodes[i].pivots, k)
  BY <1>1 DEF AskChild
<1>5. p \in DOMAIN nodes[i].pivots /\ k \in Between(nodes[i], p)
  BY <1>1, <1>3, <1>4, PivotIs DEF Between
<1>6. c \in DOMAIN nodes
  BY <1>1, <1>5, NodeFacts DEF TreeInv
<1>7. LeadsTo(i, c, k)
  BY <1>2, <1>5 DEF LeadsTo
<1>8. asked' = [key |-> k, path |-> longer, at |-> "down", left |-> asked.left,
                value |-> asked.value]
  <2>1. asked = [key |-> asked.key, path |-> asked.path, at |-> asked.at, left |-> asked.left,
                 value |-> asked.value]
    BY <1>1 DEF Asks
  <2>2. asked' = [asked EXCEPT !.path = longer]
    BY <1>1 DEF AskChild
  <2> HIDE DEF longer
  <2> QED
    BY <1>0, <2>1, <2>2
<1>9. /\ longer \in Seq(DOMAIN nodes) /\ Len(longer) = L + 1
      /\ longer[L + 1] = c /\ \A j \in 1..L : longer[j] = path[j]
  <2> HIDE DEF c
  <2> QED
    BY <1>1, <1>6
<1> HIDE DEF longer, c
<1>10. longer \in Seq({longer[j] : j \in DOMAIN longer})
  BY <1>9
<1>11. OnTheWay(longer, k)
  <2>1. /\ path[1] = root
        /\ \A j \in 1..L : path[j] \in DOMAIN nodes
        /\ \A j \in 1..L : j # L => LeadsTo(path[j], path[j + 1], k)
    BY <1>1 DEF OnTheWay
  <2>2. DOMAIN longer = 1..L + 1 /\ longer # << >> /\ 1 \in 1..L
    BY <1>1, <1>9
  <2>3. ASSUME NEW j \in 1..L + 1, j # L + 1 PROVE LeadsTo(longer[j], longer[j + 1], k)
    <3>1. CASE j = L
      BY <1>1, <1>7, <1>9, <3>1
    <3>2. CASE j # L
      <4>1. j \in 1..L /\ j + 1 \in 1..L
        BY <1>1, <2>3, <3>2
      <4> QED
        BY <1>9, <2>1, <3>2, <4>1
    <3> QED
      BY <3>1, <3>2
  <2>4. \A j \in 1..L + 1 : longer[j] \in DOMAIN nodes
    BY <1>9, <2>2
  <2>5. longer[1] = root
    BY <1>9, <2>1, <2>2
  <2> HIDE DEF k
  <2> QED
    BY <1>9, <2>2, <2>3, <2>4, <2>5 DEF OnTheWay
<1> HIDE DEF k
<1> QED
  BY <1>1, <1>8, <1>10, <1>11 DEF Asks

\* The call on top stays on top.
LEMMA StaysOnTop ==
  ASSUME TreeInv, QueryInv, asked # NULL, asked.at # "answer",
         NEW at \in {"up", "add"}, NEW left, NEW v,
         asked' = [asked EXCEPT !.at = at, !.left = left, !.value = v],
         NEW i, i = asked.path[Len(asked.path)], NEW e, e = nodes[i].elements,
         at = "up" => ~is_leaf(nodes[i]) /\ UpdatesOnly(i, asked.key) /\ v = Below(i, asked.key),
         at = "add" => Adding(e, MessagesOf(e, asked.key), left, v)
  PROVE  Asks(asked')
<1>1. Asks(asked) /\ OnTheWay(asked.path, asked.key)
  BY AskedFacts
<1>2. /\ asked = [key |-> asked.key, path |-> asked.path, at |-> asked.at, left |-> asked.left,
                  value |-> asked.value]
      /\ asked.key \in Keys /\ asked.path \in Seq({asked.path[j] : j \in DOMAIN asked.path})
  BY <1>1 DEF Asks
<1> DEFINE k == asked.key
           path == asked.path
<1>3. asked' = [key |-> k, path |-> path, at |-> at, left |-> left, value |-> v]
  BY <1>2
<1>4. path[Len(path)] = i
  OBVIOUS
<1>5. /\ k \in Keys /\ path \in Seq({path[j] : j \in DOMAIN path}) /\ OnTheWay(path, k)
      /\ at = "up" => ~is_leaf(nodes[i]) /\ UpdatesOnly(i, k) /\ v = Below(i, k)
      /\ at = "add" => Adding(e, MessagesOf(e, k), left, v)
  BY <1>1, <1>2
<1> HIDE DEF k, path
<1> DEFINE a == [key |-> k, path |-> path, at |-> at, left |-> left, value |-> v]
<1>6. /\ a.key = k /\ a.path = path /\ a.at = at /\ a.left = left /\ a.value = v
      /\ a = [key |-> a.key, path |-> a.path, at |-> a.at, left |-> a.left, value |-> a.value]
  OBVIOUS
<1>7. asked' = a
  BY <1>3
<1> HIDE DEF a
<1>8. nodes[a.path[Len(a.path)]].elements = e /\ a.path[Len(a.path)] = i
  BY <1>4, <1>6
<1>9. a.at \in {"down", "up", "add", "answer"} /\ a.at # "answer"
  BY <1>6
<1>10. Asks(a)
  BY <1>5, <1>6, <1>8, <1>9 DEF Asks
<1> QED
  BY <1>7, <1>10

LEMMA NoChildIs ==
  ASSUME TreeInv, QueryInv, NoChild
  PROVE  Asks(asked')
<1> DEFINE k == asked.key
           i == asked.path[Len(asked.path)]
<1>1. SearchDown /\ BelowPivots(Here.pivots, k)
  BY DEF NoChild
<1>2. /\ asked # NULL /\ asked.at = "down" /\ i \in DOMAIN nodes /\ ~is_leaf(nodes[i])
      /\ UpdatesOnly(i, k)
  BY <1>1, SearchDownIs
<1>3. k \in Keys /\ Here = nodes[i] /\ Asks(asked)
  BY <1>2, AskedFacts
<1>4. Below(i, k) = NULL
  BY <1>1, <1>2, <1>3, NothingBelow
<1>5. asked' = [asked EXCEPT !.at = "up", !.left = asked.left, !.value = NULL]
  <2>1. asked = [key |-> asked.key, path |-> asked.path, at |-> asked.at, left |-> asked.left,
                 value |-> asked.value]
    BY <1>3 DEF Asks
  <2>2. asked' = [asked EXCEPT !.at = "up", !.value = NULL]
    BY DEF NoChild
  <2> QED
    BY <2>1, <2>2
<1> HIDE DEF k, i
<1>6. i = asked.path[Len(asked.path)] /\ UpdatesOnly(i, asked.key) /\ NULL = Below(i, asked.key)
  BY <1>2, <1>4 DEF i, k
<1> QED
  BY <1>2, <1>5, <1>6, StaysOnTop

LEMMA FoundHereIs ==
  ASSUME TreeInv, ValueInv, QueryInv, FoundHere
  PROVE  Asks(asked')
<1> DEFINE k == asked.key
           i == asked.path[Len(asked.path)]
           e == nodes[i].elements
           S == MessagesOf(e, k)
           b == Below(i, k)
           m == Earliest(Mine)
           R == S \ {m}
           v == IF Op(m) = DELETE THEN default_value ELSE Val(m)
<1>0. asked # NULL /\ asked.at = "down"
  BY DEF FoundHere, Asking
<1>1. /\ stack = << >> /\ k \in Keys /\ i \in DOMAIN nodes
      /\ Here = nodes[i] /\ Mine = S
  BY <1>0, AskedFacts
<1>2. /\ IsElements(e) /\ Literal(e) /\ Linked(e, S, b)
      /\ Known(i, k) = After(e, S, b)
  BY <1>1, WaitingSums
<1>3. Mine # {} /\ Op(m) # UPDATE
  BY DEF FoundHere
<1>4. m \in S /\ Ahead(m, R)
  BY <1>1, <1>2, <1>3, EarliestAhead
<1>5. m \in DOMAIN e /\ Op(m) = e[m].op /\ Val(m) = e[m].val /\ e[m] \in Message
  <2>1. m \in DOMAIN e
    BY <1>4 DEF MessagesOf
  <2>2. Op(m) = e[m].op /\ Val(m) = e[m].val
    BY <1>1 DEF Op, Val
  <2> QED
    BY <1>2, <2>1, <2>2, ElementFacts
<1> HIDE DEF k, i, e, S, b, m
<1>6. /\ Op(m) = DELETE => e[m].means = NULL
      /\ Op(m) # DELETE => e[m].means = Val(m) /\ Val(m) \in Value
  <2>1. e[m].op \in {INSERT, DELETE, UPDATE} /\ e[m].val \in Value
    BY <1>5 DEF Message
  <2> QED
    BY <1>2, <1>3, <1>5, <2>1 DEF Literal
<1>7. CASE Op(m) = DELETE /\ Mine = {m}
  <2>1. Answers(NULL)
    BY <1>7 DEF FoundHere, m
  <2>2. Latest(S) = m
    <3>1. \A x \in S : x[2] <= m[2]
      BY <1>1, <1>2, <1>5, <1>7, ElementFacts
    <3> QED
      BY <1>2, <1>4, <3>1, LatestWhen DEF S
  <2>3. Known(i, k) = NULL
    BY <1>2, <1>4, <1>6, <1>7, <2>2 DEF After
  <2> QED
    BY <1>0, <2>1, <2>3, Answered DEF i, k
<1>8. CASE ~(Op(m) = DELETE /\ Mine = {m})
  <2>1. asked' = [asked EXCEPT !.at = "add", !.left = R, !.value = v]
    BY <1>1, <1>8 DEF FoundHere, m
  <2>2. v = (IF e[m].means = NULL THEN default_value ELSE e[m].means) /\ v \in Value
    <3>1. default_value \in Value
      BY DEF Value, default_value
    <3> QED
      BY <1>6, <3>1, NullIsNoValue
  <2>3. R = {} => e[m].means # NULL
    <3> SUFFICES ASSUME R = {} PROVE e[m].means # NULL
      OBVIOUS
    <3>1. Mine = {m}
      BY <1>1, <1>4
    <3> QED
      BY <1>6, <1>8, <3>1, NullIsNoValue
  <2> HIDE DEF R, v
  <2>4. S = MessagesOf(e, k) /\ R = S \ {m}
    BY DEF S, R
  <2>5. Adding(e, S, R, v)
    BY <1>2, <1>4, <2>2, <2>3, <2>4, AddingBegins
  <2>6. i = asked.path[Len(asked.path)] /\ e = nodes[i].elements
        /\ Adding(e, MessagesOf(e, asked.key), R, v)
    BY <2>5 DEF i, e, S, k
  <2> QED
    BY <1>0, <2>1, <2>6, StaysOnTop
<1> QED
  BY <1>7, <1>8

LEMMA ChildAnsweredIs ==
  ASSUME TreeInv, ValueInv, QueryInv, ChildAnswered
  PROVE  Asks(asked')
<1> DEFINE k == asked.key
           i == asked.path[Len(asked.path)]
           e == nodes[i].elements
           S == MessagesOf(e, k)
           b == Below(i, k)
           v == IF b = NULL THEN default_value ELSE b
<1>0. asked # NULL /\ asked.at = "up"
  BY DEF ChildAnswered, Asking
<1>1. /\ stack = << >> /\ k \in Keys /\ i \in DOMAIN nodes /\ Asks(asked)
      /\ Here = nodes[i] /\ Mine = S
  BY <1>0, AskedFacts
<1>2. /\ IsElements(e) /\ Linked(e, S, b) /\ b \in Value \cup {NULL}
      /\ Known(i, k) = After(e, S, b)
  BY <1>1, WaitingSums
<1>3. asked.value = b /\ UpdatesOnly(i, k)
  BY <1>0, <1>1 DEF Asks
<1>4. CASE Mine = {}
  <2>1. Answers(asked.value)
    BY <1>4 DEF ChildAnswered
  <2>2. asked.value = Known(i, k)
    BY <1>1, <1>2, <1>3, <1>4, SumOfNone
  <2> QED
    BY <1>0, <2>1, <2>2, Answered
<1>5. CASE Mine # {}
  <2>1. e[Earliest(S)].op = UPDATE
    BY <1>1, <1>3, <1>5 DEF UpdatesOnly
  <2>2. asked' = [asked EXCEPT !.at = "add", !.left = S, !.value = v]
    <3>1. asked' = [asked EXCEPT !.at = "add", !.left = Mine,
                                 !.value = IF @ = NULL THEN default_value ELSE @]
      BY <1>5 DEF ChildAnswered
    <3>2. asked = [key |-> asked.key, path |-> asked.path, at |-> asked.at, left |-> asked.left,
                   value |-> asked.value]
      BY <1>1 DEF Asks
    <3> HIDE DEF b, S
    <3> QED
      BY <1>1, <1>3, <3>1, <3>2
  <2> HIDE DEF i, k, e, S, b, v
  <2>3. S = MessagesOf(e, k) /\ v = IF b = NULL THEN default_value ELSE b
    BY DEF S, v
  <2>4. Adding(e, S, S, v)
    BY <1>1, <1>2, <1>5, <2>1, <2>3, AddingAll
  <2>5. i = asked.path[Len(asked.path)] /\ e = nodes[i].elements
        /\ Adding(e, MessagesOf(e, asked.key), S, v)
    BY <2>4 DEF i, e, S, k
  <2> QED
    BY <1>0, <2>2, <2>5, StaysOnTop
<1> QED
  BY <1>4, <1>5

LEMMA AddUpdateIs ==
  ASSUME TreeInv, ValueInv, QueryInv, AddUpdate
  PROVE  Asks(asked')
<1> DEFINE k == asked.key
           i == asked.path[Len(asked.path)]
           e == nodes[i].elements
           S == MessagesOf(e, k)
           b == Below(i, k)
           left == asked.left
           v == asked.value
<1>0. asked # NULL /\ asked.at = "add"
  BY DEF AddUpdate, Asking
<1>1. /\ stack = << >> /\ k \in Keys /\ i \in DOMAIN nodes /\ Asks(asked)
      /\ Here = nodes[i] /\ Mine = S
  BY <1>0, AskedFacts
<1>2. /\ IsElements(e) /\ Linked(e, S, b)
      /\ Known(i, k) = After(e, S, b)
  BY <1>1, WaitingSums
<1>3. Adding(e, S, left, v)
  BY <1>0, <1>1 DEF Asks
<1>4. CASE left = {}
  <2>1. Answers(v)
    BY <1>4 DEF AddUpdate
  <2>2. v = Known(i, k)
    BY <1>2, <1>3, <1>4 DEF Adding, After
  <2> QED
    BY <1>0, <2>1, <2>2, Answered
<1>5. CASE left # {}
  <2> DEFINE m == Earliest(left)
             R == left \ {m}
             w == v \o e[m].val
  <2>1. e[m].op = UPDATE /\ Adding(e, S, R, w)
    BY <1>2, <1>3, <1>5, AddingNext
  <2>2. Op(m) = e[m].op /\ Val(m) = e[m].val
    BY <1>1 DEF Op, Val
  <2>3. asked' = [asked EXCEPT !.left = @ \ {m}, !.value = @ \o Val(m)]
    BY <1>5, <2>1, <2>2 DEF AddUpdate
  <2>4. asked' = [asked EXCEPT !.at = "add", !.left = R, !.value = w]
    <3>1. asked = [key |-> asked.key, path |-> asked.path, at |-> asked.at, left |-> asked.left,
                   value |-> asked.value]
      BY <1>1 DEF Asks
    <3> HIDE DEF m, e
    <3> QED
      BY <1>0, <2>2, <2>3, <3>1
  <2> HIDE DEF i, k, e, S, b, R, w
  <2>5. i = asked.path[Len(asked.path)] /\ e = nodes[i].elements
        /\ Adding(e, MessagesOf(e, asked.key), R, w)
    BY <2>1 DEF i, e, S, k
  <2> QED
    BY <1>0, <2>4, <2>5, StaysOnTop
<1> QED
  BY <1>4, <1>5

LEMMA StartQueryIs ==
  ASSUME TreeInv, NEW k \in Keys, StartQuery(k)
  PROVE  Asks(asked')
<1> DEFINE path == <<root>>
<1>1. asked' = [key |-> k, path |-> path, at |-> "down", left |-> {}, value |-> NULL]
  BY DEF StartQuery
<1>2. root \in DOMAIN nodes
  BY DEF TreeInv, HeapTyped
<1>3. /\ path \in Seq({path[j] : j \in DOMAIN path}) /\ path # << >> /\ path[1] = root
      /\ Len(path) = 1 /\ DOMAIN path = {1}
  OBVIOUS
<1>4. OnTheWay(path, k)
  BY <1>2, <1>3 DEF OnTheWay
<1> HIDE DEF path
<1> QED
  BY <1>1, <1>3, <1>4 DEF Asks

\* The steps of a query keep the invariant of the query.
LEMMA QueryStepKeepsQuery ==
  ASSUME TreeInv, ValueInv, QueryInv, QueryStep
  PROVE  QueryInv'
<1>1. asked # NULL /\ stack = << >>
  BY DEF QueryStep, AskLeaf, AskChild, NoChild, SearchDown, FoundHere, ChildAnswered, AddUpdate,
         EndQuery, Asking, QueryInv
<1>2. UNCHANGED <<nodes, root, stack, came, expected>>
  BY DEF QueryStep, AskLeaf, AskChild, NoChild, FoundHere, ChildAnswered, AddUpdate,
         EndQuery, flushVars, treeVars, callVars, historyVars
<1>3. asked' # NULL => Asks(asked')
  <2>1. CASE EndQuery
    BY <2>1 DEF EndQuery
  <2> QED
    BY <2>1, AskLeafIs, AskChildIs, NoChildIs, FoundHereIs, ChildAnsweredIs, AddUpdateIs
       DEF QueryStep
<1> QED
  BY <1>1, <1>2, <1>3, QueryNext

LEMMA StartQueryKeepsQuery ==
  ASSUME TreeInv, NEW k \in Keys, StartQuery(k)
  PROVE  QueryInv'
<1>1. stack = << >> /\ UNCHANGED <<nodes, root, stack, came, expected>>
  BY DEF StartQuery, Idle, flushVars, treeVars, callVars, historyVars
<1>2. Asks(asked')
  BY StartQueryIs
<1> QED
  BY <1>1, <1>2, QueryNext

\* No flush begins while a query is in progress, and none is in progress when it does.
LEMMA FlushStepKeepsQuery ==
  ASSUME QueryInv, FlushStep, asked' = asked
  PROVE  QueryInv'
<1>1. stack # << >>
  BY DEF FlushStep, FlushLeaf, FlushThrough, FlushToBuffer, ApplyNext, FlushChild, ReturnWhole,
         ReturnWholeFails, ReturnSplit, EndUpsert, SplitRoot, Finished, At
<1> QED
  BY <1>1 DEF QueryInv

LEMMA UnchangedQuery ==
  ASSUME QueryInv, UNCHANGED <<nodes, root, stack, came, expected, asked>>
  PROVE  QueryInv'
<1>1. UNCHANGED <<nodes, root, stack, came, expected>> /\ asked' = asked
  OBVIOUS
<1> QED
  BY <1>1, QueryNext DEF QueryInv

\* What the query in progress answers is what the calls made of the key.
LEMMA AnswerFollows ==
  QueryInv => AnswerIsExpected
BY DEF QueryInv, Asks, AnswerIsExpected, Asking

\* Steps that leave the tree alone leave the timestamps alone.
LEMMA UnchangedSent ==
  ASSUME UNCHANGED <<nodes, root, stack, came, expected>>
  PROVE  (OrderInv => OrderInv') /\ (BlindInv => BlindInv')
<1>1. nodes' = nodes /\ stack' = stack /\ came' = came
  OBVIOUS
<1>2. \A j : Sent(j)' = Sent(j)
  BY <1>1 DEF Sent
<1>3. OlderBelow => OlderBelow'
  BY <1>1, <1>2 DEF OlderBelow
<1>4. PendingAreNewer => PendingAreNewer'
  BY <1>1 DEF PendingAreNewer
<1> QED
  BY <1>1, <1>3, <1>4 DEF OrderInv, BlindInv
=============================================================================
