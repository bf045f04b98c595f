--------------------------- MODULE MCOutboxIndex ---------------------------
EXTENDS OutboxIndex

\* Two operation ids, in the order of their strings.
MCOp == 1..2
=============================================================================
