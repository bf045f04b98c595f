--------------------------- MODULE MCAssociations ---------------------------
EXTENDS Associations, TLC

\* Two associations that want one name, on two paths of one destination, and
\* a third that writes an object per key, under the name of the key.
MCPathOf  == [a |-> "p", b |-> "q", k |-> "r"]
MCDestOf  == [a |-> "d", b |-> "d", k |-> "d"]
MCOwnName == [a |-> "n", b |-> "n", k |-> "pattern"]
MCKeyName == [k |-> [n |-> "n", m |-> "m"]]

\* Requests in progress are interchangeable.
Symmetry == Permutations(Client)
=============================================================================
