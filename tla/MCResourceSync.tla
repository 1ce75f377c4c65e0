--------------------------- MODULE MCResourceSync ---------------------------
\* Instances of ResourceSync for TLC.
EXTENDS ResourceSync, TLC

CONSTANTS a, b, c

Pair == {a, b}
Trio == {a, b, c}

\* One connection from a to b; the same used twice; and connections that
\* both sides opened at the same moment.
OneConnection == {<<a, b, 1>>}
TwiceOnOne == {<<a, b, 1>>, <<a, b, 2>>}
BothDialed == {<<a, b, 1>>, <<b, a, 1>>}

\* b in the middle, as the initiator to one side and responder to the other.
Chain == {<<a, b, 1>>, <<b, c, 1>>}
Ring == {<<a, b, 1>>, <<b, c, 1>>, <<c, a, 1>>}
=============================================================================
