----------------------------- MODULE JailStart -----------------------------
(* JailSched keeps the promises of JailOrder when it is asked to start.    *)
EXTENDS JailSched

(* A jail that runs, as far as the program knows, and has not failed.      *)
Good(j) == "FAILED" \notin flags[j] /\ jid[j] > 0

StatusOf(j) ==
  CASE "FAILED" \in flags[j]   -> "failed"
    [] Good(j) /\ Through(j)   -> "through"
    [] Good(j) /\ ~Through(j)  -> "made"
    [] OTHER                   -> "waiting"

(* The other operations have promises of their own: seen through this      *)
(* mapping they ask for nothing and do nothing.                            *)
Starts == Op = {"START"}

OfTheLine == IF Target = "all" THEN Jails ELSE Named
ToStart   == IF Starts THEN {j \in Jails : "START" \in flags[j]} ELSE {}
StatusNow ==
  [j \in Jails |-> IF Starts THEN StatusOf(j)
                  ELSE IF j \in BadConf THEN "failed" ELSE "waiting"]
UpNow     == IF Starts THEN up ELSE Running
EndedNow  ==
  IF pc # "exit" \/ ~Starts THEN "no" ELSE IF error THEN "bad" ELSE "good"

Order == INSTANCE JailOrder WITH
  Edges    <- {Deps[e] : e \in Edge},
  Inside   <- Under,
  BadJails <- BadConf,
  chosen   <- OfTheLine,
  before   <- Running,
  asked    <- ToStart,
  status   <- StatusNow,
  running  <- UpNow,
  ended    <- EndedNow

(* Every step of the program is a step of the promise, or changes nothing  *)
(* that it speaks of: jails are created in the order of their              *)
(* dependencies, drawn in only by a jail that needs them, failed only for  *)
(* a reason, taken down only when they failed, and the exit status says    *)
(* whether one did.                                                        *)
InOrder == Order!OSpec
=============================================================================
