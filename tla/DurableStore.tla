---------------------------- MODULE DurableStore ----------------------------
(***************************************************************************)
(* What a store with a log and checkpoints promises its clients, without   *)
(* log, map or checkpoint.  Calls are numbered.  The store holds a set of  *)
(* them; a crash takes some of the youngest, never one that has become     *)
(* stable, never an older one while a younger one stays, and never more    *)
(* than a window.                                                          *)
(***************************************************************************)
EXTENDS Naturals, FiniteSets

CONSTANTS Calls,        \* numbers of calls, a set of naturals
          Window        \* how many calls may be unstable at a time, a natural

VARIABLES contents,     \* the calls whose effect the store holds
          stable,       \* those no crash can take any more
          up            \* clients can call

storeVars == <<contents, stable, up>>

StoreTypeOk ==
  /\ contents \subseteq Calls
  /\ stable \subseteq contents
  /\ up \in BOOLEAN

\* S keeps every call of contents that is older than one it keeps.
KeepsOlder(S) == \A x \in S, y \in contents : y < x => y \in S

Init == contents = {} /\ stable = {} /\ up = FALSE

Start == ~up /\ up' = TRUE /\ UNCHANGED <<contents, stable>>

Issue(c) ==
  /\ up
  /\ \A d \in contents : d < c
  /\ Cardinality(contents \ stable) < Window
  /\ contents' = contents \cup {c}
  /\ UNCHANGED <<stable, up>>

\* Later calls become stable, oldest first.
Stabilize ==
  /\ up
  /\ stable \subseteq stable'
  /\ stable' \in SUBSET contents
  /\ KeepsOlder(stable')
  /\ UNCHANGED <<contents, up>>

\* The process ends, by a crash or an exit: what is left is stable.
Stop ==
  /\ up' = FALSE
  /\ contents' \in SUBSET contents
  /\ stable \subseteq contents'
  /\ KeepsOlder(contents')
  /\ stable' = contents'

Next ==
  \/ Start
  \/ \E c \in Calls : Issue(c)
  \/ Stabilize
  \/ Stop

Spec == Init /\ [][Next]_storeVars
=============================================================================
