--------------------------- MODULE MCEventDispatch ---------------------------
EXTENDS EventDispatch

\* Two operations and one goroutine, or one operation and a goroutine that is
\* replaced.
MCBounds == {[ops |-> {1, 2}, starts |-> 1, faults |-> 1],
             [ops |-> {1}, starts |-> 2, faults |-> 2]}
=============================================================================
