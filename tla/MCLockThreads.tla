--------------------------- MODULE MCLockThreads ---------------------------
(***************************************************************************)
(* LockThreads for TLC: threads that take turns and read or write, and     *)
(* threads that race to read.                                              *)
(***************************************************************************)
EXTENDS LockThreads

CONSTANTS r, w

TakingTurns ==
  [serialised |-> TRUE, usages |-> {{r}, {r, w}}, held |-> 2, calls |-> 4]
Racing(n) == [serialised |-> FALSE, usages |-> {{r}}, held |-> 1, calls |-> n]

Both == {TakingTurns, Racing(3)}
Racers == {Racing(4)}

=============================================================================
