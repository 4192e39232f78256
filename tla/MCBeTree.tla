------------------------------ MODULE MCBeTree ------------------------------
\* Small instances of BeTree, from an empty tree (Spec), or after a few inserts (GrownSpec).
EXTENDS BeTree, BeTreeScan

CONSTANTS
  FirstKeys,           \* the keys inserted first, in this order
  LaterOps, LaterKeys  \* the calls that follow, and the keys queried

GrownNext ==
  \/ ops < Len(FirstKeys) /\ Upsert(INSERT, FirstKeys[ops + 1])
  \/ /\ ops >= Len(FirstKeys)
     /\ \/ \E op \in LaterOps, k \in LaterKeys : Upsert(op, k) \/ Replay(op, k)
        \/ \E k \in LaterKeys : StartQuery(k) /\ UNCHANGED <<blind, steps, restarts>>
        \/ WriteBack \/ Checkpoint \/ Restart
  \/ FlushStep /\ UNCHANGED <<asked, blind, steps, restarts>>
  \/ QueryStep /\ UNCHANGED <<blind, steps, restarts>>

GrownSpec == Init /\ [][GrownNext]_vars

\* A scan shows what the calls made of the keys, wherever messages wait
\* (get_next_message 590-628, iterator 766-851, lower_bound, upper_bound 857-865).
ScansAreExpected == restarts = 0 => ScansAgree

Few   == <<3, 4, 5>>
Climb == [i \in 1..14 |-> i + 1]
=============================================================================
