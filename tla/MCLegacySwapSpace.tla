------------------------- MODULE MCLegacySwapSpace --------------------------
\* Small instances of LegacySwapSpace.
EXTENDS LegacySwapSpace

\* Times only order the objects, and the file of an object in memory is not read
\* again before it is replaced: states that agree up to that are one.
AccessRank(i) ==
  Cardinality({ptrMap[j].last_access :
                 j \in {k \in DOMAIN ptrMap : ptrMap[k].last_access < ptrMap[i].last_access}})
UpToTimesAndOldFiles ==
  <<[i \in DOMAIN ptrMap |-> [ptrMap[i] EXCEPT !.last_access = AccessRank(i)]],
    memory_store, next_id, handles, pins,
    [f \in DOMAIN files |-> IF f[1] \in memory_store THEN NULL ELSE files[f]]>>
=============================================================================
