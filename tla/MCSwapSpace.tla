---------------------------- MODULE MCSwapSpace -----------------------------
\* Small instances of SwapSpace.
EXTENDS SwapSpaceInv

\* Access times only order the queue: states that agree up to the order of the
\* times in it are one.  The clock itself is left out for the same reason.
AccessRank(i) ==
  IF i \in lru_pqueue
    THEN Cardinality({j \in lru_pqueue : objects[j].last_access < objects[i].last_access})
    ELSE 0
UpToAccessTimes ==
  <<[i \in DOMAIN objects |-> [objects[i] EXCEPT !.last_access = AccessRank(i)]],
    lru_pqueue, current_in_memory_objects, objects_to_versions, next_id, root_id,
    clientVars, diskVars, crashes>>
=============================================================================
