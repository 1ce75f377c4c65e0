------------------------------- MODULE MCChat -------------------------------
\* Instances of Chat for TLC.
EXTENDS Chat

CONSTANTS a, b, c1, c2

Devices == {a, b}
Chats == {c1, c2}
OneChat == {c1}
TheChat == Devices \X OneChat
Before == {[chat |-> c1, by |-> a, n |-> 1]}
Everything == Devices \X Chats
OneGoesElsewhere == {<<a, c1>>, <<a, c2>>, <<b, c1>>}
=============================================================================
