----------------------------- MODULE JailOrder -----------------------------
(***************************************************************************)
(* What "jail -c" promises, without queues, counts, commands or slots: the *)
(* jails asked for and those they depend on are created in the order of    *)
(* their dependencies or fail, a failure has a reason, only what failed is *)
(* taken down, and the exit status tells.                                  *)
(***************************************************************************)
CONSTANTS
  Jails, Edges,  \* the dependencies: records of from, to and light
  Inside,        \* <<k, j>>: jail k lives inside jail j
  BadJails       \* those that have failed before

VARIABLES
  chosen,  \* the jails of the command line
  before,  \* the jails that run before
  asked,   \* the jails to be started
  status,  \* "waiting", "made", "through" or "failed"
  running, \* the jails that run
  ended    \* "no", "good" or "bad"

ovars == <<chosen, before, asked, status, running, ended>>

DependsOn(j) == {e.to : e \in {d \in Edges : d.from = j}}

In(s) == {j \in Jails : status[j] = s}

OInit ==
  /\ asked = {}
  /\ status = [j \in Jails |-> IF j \in BadJails THEN "failed" ELSE "waiting"]
  /\ chosen \in SUBSET Jails
  /\ before \in SUBSET Jails
  /\ running = before
  /\ ended = "no"

(* The command line is read, or a jail draws in what it depends on.        *)
Ask(S) ==
  /\ S = chosen \/ \E j \in asked : S \subseteq DependsOn(j)
  /\ asked' = asked \cup S
  /\ UNCHANGED <<running, ended>>

(* A jail may fail on its own, or with one that it depends on.             *)
Fail(F) ==
  /\ \/ \E j \in Jails : F = {j}
     \/ \E d \in In("failed") : \A j \in F : d \in DependsOn(j)
  /\ status' = [j \in Jails |-> IF j \in F THEN "failed" ELSE status[j]]
  /\ UNCHANGED <<running, ended>>

(* A jail that runs already is left alone.                                 *)
Find(j) ==
  /\ j \in running
  /\ status[j] = "waiting"
  /\ status' = [status EXCEPT ![j] = "through"]
  /\ UNCHANGED <<asked, running, ended>>

(* The jails around a new jail need only run, the others must be through.  *)
Create(j) ==
  /\ j \in asked \ running
  /\ status[j] = "waiting"
  /\ \A e \in Edges : e.from = j =>
       /\ e.to \in running
       /\ ~e.light => status[e.to] = "through"
  /\ running' = running \cup {j}
  /\ status' = [status EXCEPT ![j] = "made"]
  /\ UNCHANGED <<asked, ended>>

GoThrough(j) ==
  /\ status[j] = "made"
  /\ status' = [status EXCEPT ![j] = "through"]
  /\ UNCHANGED <<asked, running, ended>>

(* A failed jail is taken down, and what lives inside it goes with it.     *)
TakeDown(j) ==
  /\ j \in In("failed") \ before
  /\ running' = running \ ({j} \cup {k \in Jails : <<k, j>> \in Inside})
  /\ UNCHANGED <<asked, status, ended>>

End ==
  /\ ended = "no"
  /\ \A j \in asked : status[j] \in {"through", "failed"}
  /\ ended' = IF asked \cap In("failed") = {} THEN "good" ELSE "bad"
  /\ UNCHANGED <<asked, status, running>>

(* A jail that draws in one dependency may fail for another.               *)
OStep ==
  \/ \E S \in SUBSET Jails : Ask(S) /\ UNCHANGED status
  \/ \E F \in SUBSET Jails : Fail(F) /\ UNCHANGED asked
  \/ \E S, F \in SUBSET Jails : Ask(S) /\ Fail(F)
  \/ \E j \in Jails : Find(j) \/ Create(j) \/ GoThrough(j) \/ TakeDown(j)
  \/ End

ONext == OStep /\ UNCHANGED <<chosen, before>>

OSpec == OInit /\ [][ONext]_ovars
=============================================================================
