---------------------------- MODULE MC_JailProcs ----------------------------
(* Three jails: one that starts, one that stops, one without limits.       *)
EXTENDS JailProcs
CONSTANTS a, b, c

Scripts == [j \in Jails |-> IF j = a THEN <<"limited">>
                            ELSE IF j = b THEN <<"run", "term">> ELSE <<"run", "limited">>]
Daemons == [j \in Jails |-> IF j = b THEN {1, 2} ELSE {}]
=============================================================================
