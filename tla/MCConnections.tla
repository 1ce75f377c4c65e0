--------------------------- MODULE MCConnections ---------------------------
(* Two devices for TLC.                                                    *)
EXTENDS Connections
CONSTANTS a, b

Pair == {a, b}
EditorAndSyncer == {<<a, "live">>, <<b, "sync">>}
Syncers == {<<a, "sync">>, <<b, "sync">>}
=============================================================================
