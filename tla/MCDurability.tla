---------------------------- MODULE MCDurability ----------------------------
\* Small instances of Durability: the granularities of the successive runs.
EXTENDS DurabilityInv

SameGranularity      == <<3>>
GrowingGranularity   == <<2, 3>>
ShrinkingGranularity == <<4, 2>>
=============================================================================
