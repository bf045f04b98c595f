--------------------------- MODULE MCRemoteObject ---------------------------
EXTENDS RemoteObject, TLC

\* Version 3 holds again what version 1 held, under other keys.
MCPayload == <<"x", "y", "x">>
MCMapKeys == <<{"a"}, {"a", "b"}, {"b"}>>

\* Provider calls are interchangeable.
Symmetry == Permutations(Worker)
=============================================================================
