----------------------------- MODULE MCLiveEdit -----------------------------
\* Instances of LiveEdit for TLC.
EXTENDS LiveEdit

CONSTANTS a, b, n1, n2

Devices == {a, b}
Notes == {n1, n2}
Everything == Devices \X Notes
OneGoesElsewhere == {<<a, n1>>, <<a, n2>>, <<b, n1>>}
=============================================================================
