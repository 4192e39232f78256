--------------------------- MODULE MCLegacyBeTree ---------------------------
\* A small instance of LegacyBeTree: some inserts first, then any calls for some keys.
EXTENDS LegacyBeTree, BeTreeScan

CONSTANTS
  FirstKeys,   \* the keys inserted first, in this order
  LaterKeys    \* the keys of the calls after them

GrownNext ==
  \/ ops < Len(FirstKeys) /\ Upsert(INSERT, FirstKeys[ops + 1])
  \/ /\ ops >= Len(FirstKeys)
     /\ \/ \E op \in {INSERT, DELETE, UPDATE}, k \in LaterKeys : Upsert(op, k)
        \/ \E k \in Keys : StartQuery(k)
  \/ FlushStep /\ UNCHANGED asked
  \/ QueryStep

GrownSpec == Init /\ [][GrownNext]_vars

Climb == <<2, 4, 6, 8, 10, 12, 14>>
=============================================================================
