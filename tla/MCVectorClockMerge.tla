------------------------- MODULE MCVectorClockMerge -------------------------
\* Instance of VectorClockMerge for TLC.
EXTENDS VectorClockMerge, TLC

CONSTANTS a, b, c

Trio == {a, b, c}
=============================================================================
