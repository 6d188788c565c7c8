---------------------------- MODULE MC_PosixShm ----------------------------
(* Two or three processes.                                                 *)
EXTENDS PosixShm
CONSTANTS p1, p2, p3

Anything == [p \in Procs |-> {"attach", "read", "write", "close"}]
OneCloses == [p \in Procs |-> IF p = p3 THEN {"attach", "close"}
                                       ELSE {"attach", "write"}]
Few == [p \in Procs |-> IF p = p1 THEN 3 ELSE 2]
Two == [p \in Procs |-> 2]
=============================================================================
