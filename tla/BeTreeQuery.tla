---------------------------- MODULE BeTreeQuery ----------------------------
(***************************************************************************)
(* query of project3/betree.hpp, the same in CS6530-P2: down to the first  *)
(* node that knows an insert or a delete, back up through the updates that *)
(* wait on the way.  Each action is one step of the call on top.           *)
(***************************************************************************)
EXTENDS BeTreeFlush

CONSTANT Abort       \* what a query gives when an assertion of it fails

ASSUME AbortIsNoValue == Abort \notin Value \cup {NULL}

VARIABLE asked
  \* The query in progress, NULL if there is none: its key, the nodes of its calls,
  \* how far the last one is, the messages it has still to add, and the value so far
  \* or the answer (NULL for "Key does not exist").

Idle == faults = {} /\ stack = << >> /\ asked = NULL

-----------------------------------------------------------------------------
Asking(l) == asked # NULL /\ asked.at = l
Here == nodes[asked.path[Len(asked.path)]]
Mine == MessagesOf(Here.elements, asked.key)
Op(m) == Here.elements[m].op
Val(m) == Here.elements[m].val

StartQuery(k) ==
  /\ Idle
  /\ asked' = [key |-> k, path |-> <<root>>, at |-> "down", left |-> {}, value |-> NULL]
  /\ UNCHANGED flushVars

\* The last call answers v.
Answers(v) ==
  LET callers == SubSeq(asked.path, 1, Len(asked.path) - 1)
  IN asked' = [asked EXCEPT !.path = callers, !.value = v, !.left = {},
                            !.at = IF callers = << >> THEN "answer" ELSE "up"]
Fails == asked' = [asked EXCEPT !.path = << >>, !.value = Abort, !.left = {}, !.at = "answer"]

AskLeaf ==
  /\ Asking("down") /\ is_leaf(Here)
  /\ IF Mine = {} THEN Answers(NULL)
     ELSE IF Op(Earliest(Mine)) # INSERT THEN Fails
     ELSE Answers(Val(Earliest(Mine)))
  /\ UNCHANGED flushVars

SearchDown == Asking("down") /\ ~is_leaf(Here) /\ (Mine # {} => Op(Earliest(Mine)) = UPDATE)

AskChild ==
  /\ SearchDown /\ ~BelowPivots(Here.pivots, asked.key)
  /\ asked' = [asked EXCEPT !.path = Append(@, Here.pivots[get_pivot(Here.pivots, asked.key)])]
  /\ UNCHANGED flushVars

\* get_pivot throws what a query that finds nothing does.
NoChild ==
  /\ SearchDown /\ BelowPivots(Here.pivots, asked.key)
  /\ asked' = [asked EXCEPT !.at = "up", !.value = NULL]
  /\ UNCHANGED flushVars

\* An insert or a delete, and what came after it.
FoundHere ==
  /\ Asking("down") /\ ~is_leaf(Here) /\ Mine # {} /\ Op(Earliest(Mine)) # UPDATE
  /\ LET first == Earliest(Mine)
     IN IF Op(first) = DELETE /\ Mine = {first} THEN Answers(NULL)
        ELSE asked' = [asked EXCEPT !.at = "add", !.left = Mine \ {first},
                                    !.value = IF Op(first) = DELETE THEN default_value
                                              ELSE Val(first)]
  /\ UNCHANGED flushVars

\* Mutant: the updates that wait for the key are forgotten.
ChildAnsweredAlone ==
  /\ Asking("up")
  /\ Answers(asked.value)
  /\ UNCHANGED flushVars

\* The child has answered.
ChildAnswered ==
  /\ Asking("up")
  /\ IF Mine = {} THEN Answers(asked.value)
     ELSE asked' = [asked EXCEPT !.at = "add", !.left = Mine,
                                 !.value = IF @ = NULL THEN default_value ELSE @]
  /\ UNCHANGED flushVars

\* A round of the loop that applies the updates, or its end.
AddUpdate ==
  /\ Asking("add")
  /\ IF asked.left = {} THEN Answers(asked.value)
     ELSE LET m == Earliest(asked.left)
          IN IF Op(m) # UPDATE THEN Fails
             ELSE asked' = [asked EXCEPT !.left = @ \ {m}, !.value = @ \o Val(m)]
  /\ UNCHANGED flushVars

EndQuery ==
  /\ Asking("answer")
  /\ asked' = NULL
  /\ UNCHANGED flushVars

QueryStep ==
  AskLeaf \/ AskChild \/ NoChild \/ FoundHere \/ ChildAnswered \/ AddUpdate \/ EndQuery

-----------------------------------------------------------------------------
\* A query answers what the calls made of the key, wherever their messages wait.
AnswerIsExpected == Asking("answer") => asked.value = expected[asked.key]
=============================================================================
