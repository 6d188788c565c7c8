----------------------------- MODULE JailSched -----------------------------
(***************************************************************************)
(* The scheduler of lua-jail's jail_main(): the jail queues and dependency *)
(* edges of state.c, the main loop of jail.c and the command queues and    *)
(* the parallel-command limit of command.c.                                *)
(*                                                                         *)
(* The program is single-threaded: what happens around it is the end of    *)
(* the commands it forked, and what the kernel answers to jail_set(2) and  *)
(* jail_remove(2).  pc says where in the main loop the program is; every   *)
(* variable but up (the kernel's jails) is a field of struct cfjail or a   *)
(* static of those three files.                                            *)
(***************************************************************************)
EXTENDS Integers, FiniteSets, Sequences

CONSTANTS
  Jails,     \* the jails of the configuration file
  NoJail,    \* no current jail
  Conf,      \* the jails in the order of the configuration file
  Deps,      \* the dependency edges, in the order dep_add() makes them
  Under,     \* <<k, j>>: by its name, jail k lives inside jail j
  BadConf,   \* jails load_config() or an undefined "depend" has failed
  Commands,  \* Commands[j]: the parameters of jail j that hold a command
  ParaLimit, \* -p, -1 when it is not given
  Given      \* the command lines, and what the program finds when it starts

OpFlag  == {"START", "SET", "STOP"}
Flag    == OpFlag \cup {"DEPEND", "WILD", "FAILED", "PARAMS",
                        "TIMEOUT", "SLEEPQ", "FROM_RUNQ"}
Queue   == {"cfjails", "ready", "depend", "sleeping", "runnable"}
Edge    == 1 .. Len(Deps)
Command == {"MOUNT", "PRESTART", "START", "STOP", "POSTSTOP"}
Fault   == {"params", "command", "timeout", "create", "remove", "update",
            "early", "nowait"}

(* op: -c, -m, -r, a set of START, SET and STOP.  target: "all" for none or *)
(* "*", "match" for a wildcard, "named".  named: the jails it names or      *)
(* matches.  running: the jails that run before the program starts.  rdtun: *)
(* those whose create-only parameters differ from the kernel's.  faults:    *)
(* what may fail.                                                           *)
GivenType ==
  [op : SUBSET OpFlag \ {{}}, target : {"all", "match", "named"},
   named : SUBSET Jails, running : SUBSET Jails, rdtun : SUBSET Jails,
   faults : SUBSET Fault]

(* startcommands and stopcommands.  MOUNT stands for the address and mount *)
(* parameters, which are undone in the reverse order, START for what runs  *)
(* after the jail is created and STOP for what runs before it is removed.  *)
StartCommands == <<"NULL", "MOUNT", "PRESTART", "OP", "START", "NULL">>
StopCommands  == <<"NULL", "STOP", "STOP_TIMEOUT", "OP", "POSTSTOP", "MOUNT",
                   "NULL">>
CommandList == [start |-> StartCommands, stop |-> StopCommands]

ASSUME JailsAssumption ==
  /\ IsFiniteSet(Jails)
  /\ NoJail \notin Jails
ASSUME ConfAssumption ==
  /\ Conf \in Seq(Jails)
  /\ \A j \in Jails : \E i \in 1 .. Len(Conf) : Conf[i] = j
  /\ \A i, k \in 1 .. Len(Conf) : Conf[i] = Conf[k] => i = k
ASSUME DepsAssumption ==
  /\ Deps \in Seq([from : Jails, to : Jails, light : BOOLEAN])
  /\ Under \in SUBSET (Jails \X Jails)
  /\ \A e \in Edge : Deps[e].light => <<Deps[e].from, Deps[e].to>> \in Under
ASSUME CommandLineAssumption ==
  /\ Given \subseteq GivenType
  /\ ParaLimit \in Int
  /\ ParaLimit # 0
ASSUME EnvironmentAssumption ==
  /\ BadConf \in SUBSET Jails
  /\ Commands \in [Jails -> SUBSET Command]

VARIABLES
  flags,     \* j->flags
  ndeps,     \* j->ndeps
  seen,      \* the edges with DF_SEEN
  queue,     \* j->queue
  ahead,     \* <<a, b>>: a is in the queue of b and ahead of b
  list,      \* which command list j->comparam points into
  pos,       \* where in it
  jid,       \* j->jid: 0 not looked up, -1 not running, 1 running
  pstatus,   \* j->pstatus is not 0
  paralimit, \* paralimit
  error,     \* the exit status
  up,        \* the kernel's jails
  pc,        \* where the program is
  cur,       \* the jail the main loop holds
  given      \* the command line; no step changes it

sched == <<flags, ndeps, seen, queue, ahead>>
coms  == <<list, pos>>
vars  == <<flags, ndeps, seen, queue, ahead, list, pos, jid, pstatus,
           paralimit, error, up, pc, cur, given>>

(* What the program was started with.                                      *)
Op      == given.op
Target  == given.target
Named   == given.named
Running == given.running
Rdtun   == given.rdtun
Faults  == given.faults

-----------------------------------------------------------------------------
(* The functions of state.c change several jails at once and are called    *)
(* one after the other: each is an operator from the scheduler's state, a  *)
(* record of the five variables, to the state it leaves.                   *)

Sched == [flags |-> flags, ndeps |-> ndeps, seen |-> seen,
          queue |-> queue, ahead |-> ahead]

Become(s) ==
  /\ flags' = s.flags
  /\ ndeps' = s.ndeps
  /\ seen' = s.seen
  /\ queue' = s.queue
  /\ ahead' = s.ahead

Ops(f) == f \cap OpFlag

DoStop(f) == "STOP" \in f /\ "SET" \notin f

InQueue(s, q) == {j \in Jails : s.queue[j] = q}

(* requeue() of the jails S, in the order R, to the tail of q.             *)
Requeue(s, S, q, R) ==
  LET M == {j \in S : s.queue[j] # q}
  IN  [s EXCEPT
        !.queue = [j \in Jails |-> IF j \in M THEN q ELSE s.queue[j]],
        !.ahead = {p \in s.ahead : p[1] \notin M /\ p[2] \notin M}
                    \cup (InQueue(s, q) \X M)
                    \cup {p \in M \X M : p \in R}]

RequeueHead(s, j, q) ==
  [s EXCEPT
    !.queue = [s.queue EXCEPT ![j] = q],
    !.ahead = {p \in s.ahead : p[1] # j /\ p[2] # j}
                \cup ({j} \X (InQueue(s, q) \ {j}))]

Failed(s, j) ==
  RequeueHead([s EXCEPT !.flags = [s.flags EXCEPT ![j] = @ \cup {"FAILED"}]],
              j, "ready")

IsFirst(s, j) == \A k \in Jails : <<k, j>> \notin s.ahead

(* A mutant of Waits: JF_DO_STOP is not looked at.                         *)
WaitsUp(f, j) == {e \in Edge : j = Deps[e].from}

(* The edges a jail with flags f waits for, and those that wait for it.    *)
Waits(f, j) ==
  {e \in Edge : j = IF DoStop(f) THEN Deps[e].to ELSE Deps[e].from}
Frees(f, j) ==
  {e \in Edge : j = IF DoStop(f) THEN Deps[e].from ELSE Deps[e].to}
Far(e, j) == IF Deps[e].from = j THEN Deps[e].to ELSE Deps[e].from

(* A mutant of DepReset: counts the edges in the other direction.          *)
DepResetOther(s, S) ==
  [s EXCEPT !.ndeps = [j \in Jails |->
     IF j \in S THEN Cardinality(Frees(s.flags[j], j)) ELSE s.ndeps[j]]]

DepReset(s, S) ==
  [s EXCEPT !.ndeps = [j \in Jails |->
     IF j \in S THEN Cardinality(Waits(s.flags[j], j)) ELSE s.ndeps[j]]]

(* A mutant of Resolved: DF_LIGHT is not looked at.                        *)
ResolvedAll(s, j, light) == Frees(s.flags[j], j) \ s.seen

(* Another: only dep_done() of a created or removed jail resolves them.    *)
ResolvedExactly(s, j, light) ==
  {e \in Frees(s.flags[j], j) \ s.seen : light <=> Deps[e].light}

(* dep_done(): flags DF_LIGHT and DF_NOFAIL are light and nofail.  A       *)
(* waiting jail is woken at the edge that takes its count to 0.            *)
Resolved(s, j, light) ==
  {e \in Frees(s.flags[j], j) \ s.seen : light => Deps[e].light}

(* A mutant of Spreads: the comparison is inverted.                        *)
SpreadsSet(f) ==
  /\ "FAILED" \in f
  /\ f \cap (OpFlag \cup {"DEPEND"}) = {"SET", "DEPEND"}

Spreads(f) ==
  /\ "FAILED" \in f
  /\ f \cap (OpFlag \cup {"DEPEND"}) # {"SET", "DEPEND"}

DepDone(s, j, light, nofail) ==
  LET E == Resolved(s, j, light)
      To(k) == {e \in E : Far(e, j) = k}
      woken == {k \in InQueue(s, "depend") :
                  s.ndeps[k] \in 1 .. Cardinality(To(k))}
      WokenBy(k) == CHOOSE e \in To(k) :
                      Cardinality({x \in To(k) : x <= e}) = s.ndeps[k]
      done == [s EXCEPT
                !.seen = s.seen \cup E,
                !.ndeps = [k \in Jails |-> s.ndeps[k] - Cardinality(To(k))],
                !.flags = [k \in Jails |->
                  IF To(k) # {} /\ ~nofail /\ Spreads(s.flags[j])
                    THEN s.flags[k] \cup {"FAILED"}
                    ELSE s.flags[k]]]
  IN  Requeue(done, woken, "ready",
              {p \in woken \X woken : WokenBy(p[1]) < WokenBy(p[2])})

(* dep_check(): the edges j still waits for, which of them hold it back,   *)
(* and what it makes of the jails at their other end.                      *)
Pending(s, j) ==
  IF s.ndeps[j] = 0 THEN {} ELSE Waits(s.flags[j], j) \ s.seen

LightlyMet(f, d) == IF DoStop(f) THEN jid[d] < 0 ELSE jid[d] > 0

Blocked(s, j) ==
  \E e \in Pending(s, j) :
    /\ "FAILED" \notin s.flags[Far(e, j)]
    /\ ~(Deps[e].light /\ LightlyMet(s.flags[j], Far(e, j)))

Drawn(f, d) ==
  IF "STOP" \in f
    THEN IF "SET" \in d THEN (d \ {"SET"}) \cup {"START", "STOP"}
                        ELSE d \cup {"STOP"}
  ELSE IF "START" \in f \/ "STOP" \in d THEN d \cup {"START"}
  ELSE IF Ops(d) = {} THEN d \cup {"SET"}
  ELSE d

DepCheck(s, j) ==
  LET E == Pending(s, j)
      lost  == \E e \in E : "FAILED" \in s.flags[Far(e, j)]
      drawn == {k \in {Far(e, j) : e \in E} :
                  /\ "FAILED" \notin s.flags[k]
                  /\ Cardinality(Ops(s.flags[k])) <= 1}
      idle  == {k \in drawn : Ops(s.flags[k]) = {}}
      reset == idle \cup {k \in drawn : "STOP" \in s.flags[j]
                                          /\ "STOP" \notin s.flags[k]}
      New(k) == (IF k \in drawn THEN Drawn(s.flags[j], s.flags[k])
                                ELSE s.flags[k])
                  \cup (IF k \in idle THEN {"DEPEND"} ELSE {})
                  \cup (IF k = j /\ lost THEN {"FAILED"} ELSE {})
      order == {p \in idle \X idle :
                  \E e \in E : /\ Far(e, j) = p[1]
                               /\ \A x \in E : Far(x, j) = p[2] => e < x}
      set   == [s EXCEPT !.flags = [k \in Jails |-> New(k)]]
      seek  == DepReset(Requeue(set, idle, "ready", order), reset)
  IN  IF Blocked(s, j) THEN Requeue(seek, {j}, "depend", {}) ELSE seek

-----------------------------------------------------------------------------
(* dep_setup() and start_state(), before the main loop.                    *)

Init ==
  /\ flags = [j \in Jails |-> IF j \in BadConf THEN {"FAILED"} ELSE {}]
  /\ ndeps = [j \in Jails |-> 0]
  /\ seen = {}
  /\ queue = [j \in Jails |-> "cfjails"]
  /\ ahead = {p \in Jails \X Jails :
               \E i, k \in 1 .. Len(Conf) : i < k /\ p = <<Conf[i], Conf[k]>>}
  /\ list = [j \in Jails |-> "NULL"]
  /\ pos = [j \in Jails |-> 1]
  /\ jid = [j \in Jails |-> 0]
  /\ pstatus = [j \in Jails |-> FALSE]
  /\ paralimit = ParaLimit
  /\ error = FALSE
  /\ given \in Given
  /\ up = Running
  /\ pc = "setup"
  /\ cur = NoJail

(* start_state(): the jails S get the operation; with "all" those that     *)
(* have dependencies wait.  They leave cfjails in the order they have.     *)
StartState(s, S, ops, all) ==
  LET marked == [j \in Jails |->
                  IF j \in S THEN (s.flags[j] \cap {"FAILED"}) \cup ops
                             ELSE s.flags[j]]
      counted == DepReset([s EXCEPT !.flags = marked], S)
      to == [j \in Jails |-> IF j \notin S THEN s.queue[j]
                             ELSE IF all /\ counted.ndeps[j] # 0 THEN "depend"
                             ELSE "ready"]
  IN  [counted EXCEPT !.queue = to,
                      !.ahead = {p \in s.ahead : to[p[1]] = to[p[2]]}]

(* "deps && (deps > 1 || ldeps)"                                           *)
LooksForLoops ==
  /\ \E e \in Edge : ~Deps[e].light
  /\ Len(Deps) > 1

DepSetup ==
  /\ pc = "setup"
  /\ LooksForLoops
  /\ Become(StartState(Sched, Jails, {}, TRUE))
  /\ pc' = "loops"
  /\ UNCHANGED <<coms, jid, pstatus, paralimit, error, up, cur, given>>

(* The loop check settles the jails that are ready and, when none is, the  *)
(* first that still waits, which it fails.                                 *)
LoopCheck(j) ==
  /\ pc = "loops"
  /\ IsFirst(Sched, j)
  /\ \/ queue[j] = "ready"
     \/ queue[j] = "depend" /\ InQueue(Sched, "ready") = {}
  /\ LET loop == IF queue[j] = "depend" THEN {"FAILED"} ELSE {}
         s == [Sched EXCEPT !.flags = [flags EXCEPT ![j] = @ \cup loop]]
     IN  Become(DepDone(Requeue(s, {j}, "cfjails", {}), j, FALSE, TRUE))
  /\ UNCHANGED <<coms, jid, pstatus, paralimit, error, up, pc, cur, given>>

JailMain ==
  /\ \/ pc = "setup" /\ ~LooksForLoops
     \/ pc = "loops" /\ \A j \in Jails : queue[j] = "cfjails"
  /\ LET S == IF Target = "all" THEN Jails ELSE Named
         wild == IF Target = "named" THEN {} ELSE {"WILD"}
     IN  Become(StartState([Sched EXCEPT !.seen = {}], S, Op \cup wild,
                           Target = "all"))
  /\ pc' = "next"
  /\ UNCHANGED <<coms, jid, pstatus, paralimit, error, up, cur, given>>

-----------------------------------------------------------------------------
(* next_jail(): the main loop takes the jail whose command has ended, or   *)
(* the first that is ready, or the last of those that stop.                *)

At(j) == CommandList[list[j]][pos[j]]

InJail(j) == At(j) \in {"START", "STOP"}

Take(j, fl) ==
  /\ Become(Requeue([Sched EXCEPT !.flags = fl], {j}, "cfjails", {}))
  /\ cur' = j
  /\ pc' = "begin"

(* next_proc(): the last process of a jail has exited, or its time is up.  *)
(* A command in a jail that is removed meanwhile may have been killed.     *)
CommandExits(j, bad) ==
  /\ pc = "next"
  /\ queue[j] = "sleeping"
  /\ IF At(j) = "STOP_TIMEOUT" THEN bad = FALSE
     ELSE bad => "command" \in Faults \/ (InJail(j) /\ j \notin up)
  /\ pstatus' = [pstatus EXCEPT ![j] = bad]
  /\ Take(j, flags)
  /\ UNCHANGED <<coms, jid, paralimit, error, up, given>>

CommandTimesOut(j) ==
  /\ pc = "next"
  /\ queue[j] = "sleeping"
  /\ "timeout" \in Faults
  /\ Take(j, [flags EXCEPT ![j] = @ \cup {"TIMEOUT"}])
  /\ UNCHANGED <<coms, jid, pstatus, paralimit, error, up, given>>

Stopping(S) == {j \in S : DoStop(flags[j])}

NextReady(j) ==
  /\ pc = "next"
  /\ queue[j] = "ready"
  /\ LET R == InQueue(Sched, "ready")
     IN  \/ /\ IsFirst(Sched, j)
            /\ ~DoStop(flags[j])
         \/ /\ DoStop(flags[j])
            /\ \E k \in Stopping(R) : IsFirst(Sched, k)
            /\ \A k \in Stopping(R) : <<j, k>> \notin ahead
  /\ Take(j, flags)
  /\ UNCHANGED <<coms, jid, pstatus, paralimit, error, up, given>>

Exit ==
  /\ pc = "next"
  /\ \A j \in Jails : queue[j] \notin {"ready", "sleeping"}
  /\ pc' = "exit"
  /\ UNCHANGED <<sched, coms, jid, pstatus, paralimit, error, up, cur, given>>

-----------------------------------------------------------------------------
(* The head of the main loop: failed jails, parameters, finish_command().  *)

Continue ==
  /\ pc' = "next"
  /\ cur' = NoJail

(* A mutant of SkipFailed: the exit status is forgotten.                   *)
SkipQuietly ==
  /\ pc = "begin"
  /\ "FAILED" \in flags[cur]
  /\ list[cur] = "NULL"
  /\ Become(DepDone(Sched, cur, FALSE, FALSE))
  /\ Continue
  /\ UNCHANGED <<coms, jid, pstatus, paralimit, error, up, given>>

(* Another: what waits for the failed jail is not told.                    *)
SkipAlone ==
  /\ pc = "begin"
  /\ "FAILED" \in flags[cur]
  /\ list[cur] = "NULL"
  /\ error' = TRUE
  /\ Continue
  /\ UNCHANGED <<sched, coms, jid, pstatus, paralimit, up, given>>

SkipFailed ==
  /\ pc = "begin"
  /\ "FAILED" \in flags[cur]
  /\ list[cur] = "NULL"
  /\ error' = TRUE
  /\ Become(DepDone(Sched, cur, FALSE, FALSE))
  /\ Continue
  /\ UNCHANGED <<coms, jid, pstatus, paralimit, up, given>>

WithParams == [flags EXCEPT ![cur] = @ \cup {"PARAMS"}]

(* check_intparams() or import_params() refuses the jail.                  *)
BadParams ==
  /\ pc = "begin"
  /\ "PARAMS" \notin flags[cur]
  /\ "FAILED" \in flags[cur] => list[cur] # "NULL"
  /\ "params" \in Faults
  /\ error' = (error \/ "FAILED" \in flags[cur])
  /\ Become(Failed([Sched EXCEPT !.flags = WithParams], cur))
  /\ Continue
  /\ UNCHANGED <<coms, jid, pstatus, paralimit, up, given>>

(* A mutant of RunningJid: a failed jail that runs no command goes on.     *)
RunningJidFailed ==
  /\ pc = "begin"
  /\ error' = (error \/ "FAILED" \in flags[cur])
  /\ flags' = WithParams
  /\ jid' = [jid EXCEPT ![cur] = IF @ # 0 THEN @
                                 ELSE IF cur \in up THEN 1 ELSE -1]
  /\ pc' = "finish"
  /\ UNCHANGED <<ndeps, seen, queue, ahead, coms, pstatus, paralimit, up, cur,
                 given>>

(* Another: only jails that run no command set the exit status.            *)
RunningJidQuiet ==
  /\ pc = "begin"
  /\ "FAILED" \in flags[cur] => list[cur] # "NULL"
  /\ flags' = WithParams
  /\ jid' = [jid EXCEPT ![cur] = IF @ # 0 THEN @
                                 ELSE IF cur \in up THEN 1 ELSE -1]
  /\ pc' = "finish"
  /\ UNCHANGED <<ndeps, seen, queue, ahead, coms, pstatus, paralimit,
                 error, up, cur, given>>

RunningJid ==
  /\ pc = "begin"
  /\ "FAILED" \in flags[cur] => list[cur] # "NULL"
  /\ error' = (error \/ "FAILED" \in flags[cur])
  /\ flags' = WithParams
  /\ jid' = [jid EXCEPT ![cur] = IF @ # 0 THEN @
                                 ELSE IF cur \in up THEN 1 ELSE -1]
  /\ pc' = "finish"
  /\ UNCHANGED <<ndeps, seen, queue, ahead, coms, pstatus, paralimit, up, cur,
                 given>>

(* Mutants of Awake: one bit is left, one too many is cleared.             *)
AwakeInQueue == [flags EXCEPT ![cur] = @ \ {"TIMEOUT"}]
AwakeForgets == [flags EXCEPT ![cur] = @ \ {"SLEEPQ", "TIMEOUT", "FAILED"}]

Awake == [flags EXCEPT ![cur] = @ \ {"SLEEPQ", "TIMEOUT"}]

(* finish_command(), for a jail that waited for no process, and for one    *)
(* that waited for those it sent SIGTERM to.                               *)
FinishNothing ==
  /\ pc = "finish"
  /\ \/ /\ "SLEEPQ" \notin flags[cur]
        /\ UNCHANGED <<flags, pstatus>>
     \/ /\ "SLEEPQ" \in flags[cur]
        /\ At(cur) = "STOP_TIMEOUT"
        /\ flags' = Awake
        /\ pstatus' = [pstatus EXCEPT ![cur] = FALSE]
  /\ pc' = "op"
  /\ UNCHANGED <<ndeps, seen, queue, ahead, coms, jid, paralimit, error, up,
                 cur, given>>

(* A mutant of WakeRunnable: the slot is kept.                             *)
WakeNone(s) == s

(* The slot of a finished command goes to the first runnable jail.         *)
WakeRunnable(s) ==
  LET first == {k \in InQueue(s, "runnable") : IsFirst(s, k)}
  IN  Requeue([s EXCEPT !.flags = [k \in Jails |->
                 s.flags[k] \cup (IF k \in first THEN {"FROM_RUNQ"} ELSE {})]],
              first, "ready", {})

FinishCommand ==
  /\ pc = "finish"
  /\ "SLEEPQ" \in flags[cur]
  /\ At(cur) # "STOP_TIMEOUT"
  /\ paralimit' = paralimit + 1
  /\ LET woken == WakeRunnable([Sched EXCEPT !.flags = Awake])
     IN  \/ /\ "TIMEOUT" \in flags[cur] \/ pstatus[cur]
            /\ Become(Failed(woken, cur))
            /\ Continue
         \/ /\ "TIMEOUT" \notin flags[cur] /\ ~pstatus[cur]
            /\ Become(woken)
            /\ pc' = "op"
            /\ UNCHANGED cur
  /\ pstatus' = [pstatus EXCEPT ![cur] = @ /\ "TIMEOUT" \in flags[cur]]
  /\ UNCHANGED <<coms, jid, error, up, given>>

-----------------------------------------------------------------------------
(* The operation of the jail the main loop holds.                          *)

Refuse ==
  /\ Become(Failed(Sched, cur))
  /\ Continue
  /\ UNCHANGED <<coms, jid, pstatus, paralimit, error, up, given>>

(* -cm, -mr, -cmr turn into one operation; every other flag is dropped.    *)
TurnInto(f) ==
  LET s == [Sched EXCEPT !.flags = [flags EXCEPT ![cur] = f]]
  IN  /\ Become(IF "STOP" \in f THEN DepReset(s, {cur}) ELSE s)
      /\ UNCHANGED <<coms, jid, pstatus, paralimit, error, up, pc, cur, given>>

RdtunParams(j) == j \in Rdtun

(* A mutant of NewOp: rdtun_params() is not asked.                         *)
NewOpRestart(f) ==
  IF jid[cur] < 0 THEN {"START"}
  ELSE IF "STOP" \in f THEN {"START", "STOP"}
  ELSE {"SET"}

NewOp(f) ==
  IF jid[cur] < 0 THEN {"START"}
  ELSE IF "STOP" \in f /\ RdtunParams(cur) THEN {"START", "STOP"}
  ELSE {"SET"}

Turn ==
  /\ pc = "op"
  /\ {"START", "SET"} \subseteq flags[cur]
  /\ TurnInto(NewOp(flags[cur]))

TurnRestart ==
  /\ pc = "op"
  /\ Ops(flags[cur]) = {"SET", "STOP"}
  /\ IF jid[cur] < 0 THEN Refuse ELSE TurnInto(NewOp(flags[cur]))

Single(op) ==
  /\ pc = "op"
  /\ CASE op = "START" -> Ops(flags[cur]) = {"START"}
       [] op = "SET"   -> Ops(flags[cur]) = {"SET"}
       [] op = "STOP"  -> DoStop(flags[cur])

Unasked == flags[cur] \cap {"DEPEND", "WILD"} # {}

Exists ==
  /\ Single("START")
  /\ list[cur] = "NULL"
  /\ jid[cur] > 0
  /\ ~Unasked
  /\ Refuse

NotFound ==
  /\ Single("SET")
  /\ jid[cur] < 0
  /\ "DEPEND" \notin flags[cur]
  /\ Refuse

(* dep_check() finds something to wait for.                                *)
MayCheck ==
  \/ Single("START") /\ list[cur] = "NULL" /\ (jid[cur] > 0 => Unasked)
  \/ Single("SET") /\ (jid[cur] < 0 => "DEPEND" \in flags[cur])
  \/ Single("STOP") /\ list[cur] = "NULL"

WaitForOthers ==
  /\ MayCheck
  /\ Blocked(Sched, cur)
  /\ Become(DepCheck(Sched, cur))
  /\ Continue
  /\ UNCHANGED <<coms, jid, pstatus, paralimit, error, up, given>>

Unblocked == MayCheck /\ ~Blocked(Sched, cur)

(* A mutant of Begin: the cursor stays where the last list ended.          *)
BeginThere(l) ==
  /\ Become(DepCheck(Sched, cur))
  /\ list' = [list EXCEPT ![cur] = l]
  /\ pc' = "next_command"
  /\ UNCHANGED <<pos, jid, pstatus, paralimit, error, up, cur, given>>

(* Start from the first element of a command list.                         *)
Begin(l) ==
  /\ Become(DepCheck(Sched, cur))
  /\ list' = [list EXCEPT ![cur] = l]
  /\ pos' = [pos EXCEPT ![cur] = 1]
  /\ pc' = "next_command"
  /\ UNCHANGED <<jid, pstatus, paralimit, error, up, cur, given>>

BeginStart == Single("START") /\ Unblocked /\ jid[cur] < 0 /\ Begin("start")

BeginStop == Single("STOP") /\ Unblocked /\ jid[cur] > 0 /\ Begin("stop")

(* A jail that runs already needs no start, one that does not no stop.     *)
AlreadyRuns ==
  /\ Single("START")
  /\ Unblocked
  /\ jid[cur] > 0
  /\ Become(DepCheck(Sched, cur))
  /\ pc' = "done"
  /\ UNCHANGED <<coms, jid, pstatus, paralimit, error, up, cur, given>>

NotRunning ==
  /\ Single("STOP")
  /\ Unblocked
  /\ jid[cur] < 0
  /\ LET s == DepCheck(Sched, cur)
     IN  Become(IF s.flags[cur] \cap {"DEPEND", "WILD"} = {}
                  THEN Failed(s, cur) ELSE s)
  /\ pc' = "done"
  /\ UNCHANGED <<coms, jid, pstatus, paralimit, error, up, cur, given>>

(* A jail that failed before it was removed is left as it is.              *)
AbandonStop ==
  /\ Single("STOP")
  /\ list[cur] # "NULL"
  /\ "FAILED" \in flags[cur]
  /\ jid[cur] > 0
  /\ pc' = "done"
  /\ UNCHANGED <<sched, coms, jid, pstatus, paralimit, error, up, cur, given>>

Resume ==
  /\ \/ Single("START")
     \/ Single("STOP") /\ ~("FAILED" \in flags[cur] /\ jid[cur] > 0)
  /\ list[cur] # "NULL"
  /\ pc' = "next_command"
  /\ UNCHANGED <<sched, coms, jid, pstatus, paralimit, error, up, cur, given>>

(* rdtun_params() and update_jail(), for a jail set on request.            *)
Update ==
  /\ Single("SET")
  /\ Unblocked
  /\ LET s == DepCheck(Sched, cur)
     IN  \/ /\ "DEPEND" \notin flags[cur]
            /\ RdtunParams(cur) \/ "update" \in Faults
            /\ Become(Failed(s, cur))
            /\ Continue
         \/ /\ "DEPEND" \in flags[cur] \/ ~RdtunParams(cur)
            /\ Become(s)
            /\ pc' = "done"
            /\ UNCHANGED cur
  /\ UNCHANGED <<coms, jid, pstatus, paralimit, error, up, given>>

(* jail_create_done, jail_remove_done and the end of a set: a jail to be   *)
(* restarted now starts.                                                   *)
Done ==
  /\ pc = "done"
  /\ LET s == DepDone(Sched, cur, FALSE, FALSE)
         restart == {"START", "STOP"} \subseteq s.flags[cur]
                      /\ "FAILED" \notin s.flags[cur]
         started == DepReset([s EXCEPT !.flags = [s.flags EXCEPT
                                                   ![cur] = @ \ {"STOP"}]],
                             {cur})
         to == IF started.ndeps[cur] # 0 THEN "depend" ELSE "ready"
     IN  IF restart
           THEN /\ Become(Requeue(started, {cur}, to, {}))
                /\ list' = [list EXCEPT ![cur] = "NULL"]
           ELSE /\ Become(s)
                /\ UNCHANGED list
  /\ Continue
  /\ UNCHANGED <<pos, jid, pstatus, paralimit, error, up, given>>

-----------------------------------------------------------------------------
(* next_command() and run_command().                                       *)

(* No slot is free: wait for one, at the head of the queue when this jail  *)
(* has been in it already.                                                 *)
WaitForSlot ==
  /\ pc = "next_command"
  /\ paralimit = 0
  /\ Become(IF "FROM_RUNQ" \in flags[cur]
              THEN RequeueHead(Sched, cur, "runnable")
              ELSE Requeue(Sched, {cur}, "runnable", {}))
  /\ Continue
  /\ UNCHANGED <<coms, jid, pstatus, paralimit, error, up, given>>

EnterCommands ==
  /\ pc = "next_command"
  /\ paralimit # 0
  /\ flags' = [flags EXCEPT ![cur] = @ \ {"FROM_RUNQ"}]
  /\ pc' = "command"
  /\ UNCHANGED <<ndeps, seen, queue, ahead, coms, jid, pstatus, paralimit,
                 error, up, cur, given>>

(* A mutant of Undoing: the wrong jails go backwards.                      *)
UndoingStops == "FAILED" \in flags[cur] /\ "STOP" \in flags[cur]

(* A jail that failed to start undoes its commands, last one first.        *)
Undoing == "FAILED" \in flags[cur] /\ "STOP" \notin flags[cur]

(* A mutant of Next1: a jail that undoes its commands does not move.       *)
NextNowhere == pos[cur] + (IF Undoing THEN 0 ELSE 1)

Next1 == pos[cur] + (IF Undoing THEN -1 ELSE 1)

Advance == pos' = [pos EXCEPT ![cur] = Next1] /\ UNCHANGED list

InList == Next1 \in 1 .. Len(CommandList[list[cur]])

Upcoming(c) == pc = "command" /\ InList /\ CommandList[list[cur]][Next1] = c

Wanted(c) ==
  /\ c \in Commands[cur]
  /\ ~(Undoing /\ c \in {"PRESTART", "START"})

CommandsEnd ==
  /\ Upcoming("NULL")
  /\ Advance
  /\ pc' = "done"
  /\ UNCHANGED <<sched, jid, pstatus, paralimit, error, up, cur, given>>

(* The word before the array is read as a command: the build may take it   *)
(* for the end of the list or crash on it.                                 *)
LeaveList ==
  /\ pc = "command"
  /\ ~InList
  /\ Advance
  /\ pc' \in {"done", "crashed"}
  /\ UNCHANGED <<sched, jid, pstatus, paralimit, error, up, cur, given>>

(* No such command, or one that is not waited for.                         *)
PassCommand ==
  /\ \E c \in Command : Upcoming(c) /\ (Wanted(c) => "nowait" \in Faults)
  /\ Advance
  /\ UNCHANGED <<sched, jid, pstatus, paralimit, error, up, pc, cur, given>>

RunCommand ==
  /\ \E c \in Command : Upcoming(c) /\ Wanted(c)
  /\ Advance
  /\ \/ /\ Become(Requeue([Sched EXCEPT !.flags = [flags EXCEPT
                             ![cur] = @ \cup {"SLEEPQ"}]],
                          {cur}, "sleeping", {}))
        /\ paralimit' = paralimit - 1
     \/ /\ "early" \in Faults
        /\ Become(Failed(Sched, cur))
        /\ UNCHANGED paralimit
  /\ Continue
  /\ UNCHANGED <<jid, pstatus, error, up, given>>

(* term_procs()                                                            *)
TermProcs ==
  /\ Upcoming("STOP_TIMEOUT")
  /\ Advance
  /\ \/ /\ cur \in up
        /\ Become(Requeue([Sched EXCEPT !.flags = [flags EXCEPT
                             ![cur] = @ \cup {"SLEEPQ"}]],
                          {cur}, "sleeping", {}))
        /\ Continue
     \/ UNCHANGED <<sched, pc, cur>>
  /\ UNCHANGED <<jid, pstatus, paralimit, error, up, given>>

Outside(j) == {k \in Jails : <<j, k>> \in Under} \subseteq up

(* IP__OP: create_jail(), or jail_remove(2), which takes the jails inside  *)
(* along.  What depends lightly on the jail need not wait any longer.      *)
CreateJail ==
  /\ Upcoming("OP")
  /\ flags[cur] \cap {"STOP", "FAILED"} = {}
  /\ Advance
  /\ \/ /\ cur \notin up
        /\ Outside(cur)
        /\ up' = up \cup {cur}
        /\ jid' = [jid EXCEPT ![cur] = 1]
        /\ Become(DepDone(Sched, cur, TRUE, FALSE))
        /\ UNCHANGED <<pc, cur>>
     \/ /\ cur \in up \/ ~Outside(cur) \/ "create" \in Faults
        /\ jid' = [jid EXCEPT ![cur] = -1]
        /\ Become(Failed(Sched, cur))
        /\ Continue
        /\ UNCHANGED up
  /\ UNCHANGED <<pstatus, paralimit, error, given>>

RemoveJail ==
  /\ Upcoming("OP")
  /\ flags[cur] \cap {"STOP", "FAILED"} # {}
  /\ Advance
  /\ \/ /\ up' = up \ ({cur} \cup {k \in Jails : <<k, cur>> \in Under})
        /\ jid' = [jid EXCEPT ![cur] = -1]
        /\ Become(IF "STOP" \in flags[cur]
                    THEN DepDone(Sched, cur, TRUE, FALSE) ELSE Sched)
        /\ UNCHANGED <<pc, cur>>
     \/ /\ "remove" \in Faults
        /\ cur \in up
        /\ Become(Failed(Sched, cur))
        /\ Continue
        /\ UNCHANGED <<jid, up>>
  /\ UNCHANGED <<pstatus, paralimit, error, given>>

-----------------------------------------------------------------------------
MainLoop ==
  \/ SkipFailed \/ BadParams \/ RunningJid
  \/ FinishNothing \/ FinishCommand
  \/ Turn \/ TurnRestart
  \/ Exists \/ NotFound \/ WaitForOthers
  \/ BeginStart \/ BeginStop \/ AlreadyRuns \/ NotRunning
  \/ AbandonStop \/ Resume \/ Update \/ Done
  \/ WaitForSlot \/ EnterCommands
  \/ CommandsEnd \/ LeaveList \/ PassCommand
  \/ RunCommand \/ TermProcs \/ CreateJail \/ RemoveJail

Next ==
  \/ DepSetup
  \/ \E j \in Jails : LoopCheck(j)
  \/ JailMain
  \/ \E j \in Jails, bad \in BOOLEAN : CommandExits(j, bad)
  \/ \E j \in Jails : CommandTimesOut(j)
  \/ \E j \in Jails : NextReady(j)
  \/ Exit
  \/ MainLoop

Spec == Init /\ [][Next]_vars

(* The program runs on, and every command it waits for ends or times out.  *)
FairSpec == Spec /\ WF_vars(Next)

-----------------------------------------------------------------------------
(* Properties.                                                             *)

(* Every field of struct cfjail and every static of the scheduler keeps to *)
(* the values state.c, jail.c and command.c give it; j->comparam goes no   *)
(* further out of its array than to the word before it.                    *)
TypeOK ==
  /\ flags \in [Jails -> SUBSET Flag]
  /\ ndeps \in [Jails -> Int]
  /\ seen \in SUBSET Edge
  /\ queue \in [Jails -> Queue]
  /\ ahead \in SUBSET (Jails \X Jails)
  /\ list \in [Jails -> {"NULL", "start", "stop"}]
  /\ pos \in [Jails -> 0 .. Len(StopCommands)]
  /\ jid \in [Jails -> {-1, 0, 1}]
  /\ pstatus \in [Jails -> BOOLEAN]
  /\ paralimit \in Int
  /\ error \in BOOLEAN
  /\ up \in SUBSET Jails
  /\ pc \in {"setup", "loops", "next", "begin", "finish", "op",
             "next_command", "command", "done", "exit", "crashed"}
  /\ cur \in Jails \cup {NoJail}

Holding(j) == "SLEEPQ" \in flags[j] /\ At(j) # "STOP_TIMEOUT"

(* Each command that runs holds one of the slots of -p and no more than    *)
(* that many run: run_command() takes a slot, finish_command() gives back  *)
(* exactly one whatever way the command ended.                             *)
SlotsBalance ==
  /\ paralimit + Cardinality({j \in Jails : Holding(j)}) = ParaLimit
  /\ ParaLimit > 0 => paralimit >= 0

(* The count of a jail that waits in depend is the number of its edges     *)
(* that are still unseen, which is what dep_reset()'s comment says.        *)
CountsUnseen ==
  \A j \in Jails : queue[j] = "depend" =>
    ndeps[j] = Cardinality(Waits(flags[j], j) \ seen)

Through(j) == list[j] = "NULL" \/ pos[j] = Len(CommandList[list[j]])

(* A jail is created only when every jail it depends on runs and has gone  *)
(* through all its start commands, and after the jail around it.           *)
CreatedInOrder ==
  [][\A j \in up' \ up : \A e \in Edge : Deps[e].from = j =>
       /\ Deps[e].to \in up
       /\ ~Deps[e].light => Through(Deps[e].to)]_vars

(* Jail d may have been taken down with a failed jail it is inside of.     *)
Taken(d) == \E k \in Jails : <<d, k>> \in Under /\ "FAILED" \in flags[k]

(* With -c a jail is created only when every jail it depends on has gone   *)
(* through all its start commands and runs, unless it was taken down again *)
(* with a failed jail around it, and when the jails it is inside of run.   *)
StartedInOrder ==
  [][\A j \in up' \ up, e \in Edge : Op = {"START"} /\ Deps[e].from = j =>
       LET d == Deps[e].to
       IN  IF Deps[e].light THEN d \in up
           ELSE Through(d) /\ (d \in up \/ Taken(d))]_vars

(* A jail is stopped only when no jail that depends on it, and no jail     *)
(* inside it, runs any more.                                               *)
RemovedInOrder ==
  [][\A j \in up \ up' : j = cur /\ "STOP" \in flags[j] =>
       \A e \in Edge : Deps[e].to = j => Deps[e].from \notin up]_vars

(* When the program exits no jail is left waiting for another, for a slot  *)
(* or for a command.                                                       *)
Settled == pc = "exit" => \A j \in Jails : queue[j] = "cfjails"

(* Exit status 0 means that every jail asked for is in the state asked for *)
(* (libjail_start() and libjail_stop() return true on it).                 *)
StatusTellsFailure ==
  pc = "exit" /\ ~error =>
    \A j \in Jails :
      /\ "START" \in flags[j] => j \in up
      /\ Ops(flags[j]) = {"STOP"} => j \notin up
      /\ Ops(flags[j]) = {"SET"} /\ "DEPEND" \notin flags[j]
           => j \in up \ Rdtun

(* What depends on a jail that failed to start is not created.             *)
FailureSpreads ==
  pc = "exit" =>
    \A e \in Edge :
      LET j == Deps[e].from
          d == Deps[e].to
      IN  /\ {"START", "FAILED"} \subseteq flags[d]
          /\ "START" \in flags[j]
          /\ ~Deps[e].light
          => "FAILED" \in flags[j] /\ (j \in up => j \in Running)

(* A jail whose start failed has been taken down again, unless the kernel  *)
(* refused to remove it.                                                   *)
RolledBack ==
  pc = "exit" =>
    \A j \in Jails \ Running :
      {"START", "FAILED"} \subseteq flags[j] /\ "remove" \notin Faults
        => j \notin up

(* The start commands of a jail that fails among them are undone before    *)
(* the loop is done with it, and a jail that is up at the exit has gone    *)
(* through all of them: none is left half started.                         *)
NoneHalfStarted ==
  "remove" \notin Faults =>
    \A j \in up : list[j] = "start" /\ "STOP" \notin flags[j] =>
      /\ pc = "done" /\ cur = j => "FAILED" \notin flags[j]
      /\ pc = "exit" /\ queue[j] = "cfjails" => Through(j)

(* A jail reported as skipped runs no command.                             *)
SkippedRunsNothing ==
  [][\A j \in Jails :
       list[j] = "NULL" /\ list'[j] # "NULL" => "FAILED" \notin flags'[j]]_vars

(* A jail that has failed stays failed, through rollback, restart and the  *)
(* change of its operation: what depends on it is told, and so is the exit *)
(* status.                                                                 *)
FailedIsFinal ==
  [][\A j \in Jails : "FAILED" \in flags[j] => "FAILED" \in flags'[j]]_vars

(* What the jails T take down with them: a jail that depends on one of     *)
(* them, and a jail inside one of them, is one of them too.                *)
TakesAlong(T) ==
  /\ \A e \in Edge : Deps[e].to \in T => Deps[e].from \in T
  /\ \A u \in Under : u[2] \in T => u[1] \in T

Tuned == {j \in Jails : \A T \in SUBSET Jails :
                          Rdtun \subseteq T /\ TakesAlong(T) => j \in T}

(* With -m nothing is taken down but a jail that fails, with what is       *)
(* inside it, and with -r as well the jails whose create-only parameters   *)
(* have to change, with what depends on them or is inside them.            *)
OnlyTunedStop ==
  [][\A j \in up \ up' : "SET" \in Op =>
       \/ \E k \in Jails : /\ k = j \/ <<j, k>> \in Under
                           /\ "FAILED" \in flags[k]
       \/ "STOP" \in Op /\ j \in Tuned]_vars

(* The program ends.                                                       *)
Terminates == <>(pc \in {"exit", "crashed"})
=============================================================================
