-------------------------- MODULE JailSched_order --------------------------
(***************************************************************************)
(* Theorems about what JailSched takes down and in which order it creates, *)
(* for every configuration file, command line and environment.             *)
(*                                                                         *)
(* With -m only what failed and what has to be restarted is taken down     *)
(* (TunedStop), and no jail is left half started (StartsUndone): both rest *)
(* on which steps change the operation of a jail: dep_check() that draws   *)
(* jails in, the change of operation, and the restart.                     *)
(*                                                                         *)
(* With -c a jail comes after what it depends on (CreatedAfter): its count *)
(* never falls below the number of edges it has still to see, so a jail    *)
(* that goes on has seen those it depends on, and what it has seen is an   *)
(* edge to a jail that is through, unless it failed.                       *)
(*                                                                         *)
(* With -r a jail goes before what it depends on (RemovedAfter): the edges *)
(* to a jail on its way down come from jails that are gone, unless it was  *)
(* marked failed because one of them could not be stopped.                 *)
(***************************************************************************)
EXTENDS JailSched_proofs

-----------------------------------------------------------------------------
(* What the functions of state.c do to the operations of the jails.        *)

(* From s to t no jail changes its operation and none enters cfjails.      *)
Alike(s, t) ==
  \A k \in Jails :
    /\ Ops(t.flags[k]) = Ops(s.flags[k])
    /\ t.queue[k] = "cfjails" => s.queue[k] = "cfjails"

(* Jail k gets the operation that dep_check() of j draws it into.          *)
DrawnBy(s, t, j, k) ==
  /\ Ops(t.flags[k]) = Ops(Drawn(s.flags[j], s.flags[k]))
  /\ \E e \in Waits(s.flags[j], j) : Far(e, j) = k

(* From s to t dep_check() of j draws jails in.                            *)
Draws(s, t, j) ==
  \A k \in Jails :
    /\ Ops(t.flags[k]) = Ops(s.flags[k]) \/ DrawnBy(s, t, j, k)
    /\ t.queue[k] = "cfjails" => s.queue[k] = "cfjails"

(* The mark of failure is no operation,                                    *)
LEMMA FailedNoOp ==
  ASSUME NEW f, NEW g, g = f \/ g = f \cup {"FAILED"}
  PROVE  Ops(g) = Ops(f)
BY DEF Ops, OpFlag

(* and an operation flag is one.                                           *)
LEMMA InOps ==
  ASSUME NEW f, NEW x \in OpFlag
  PROVE  x \in Ops(f) <=> x \in f
BY DEF Ops

(* Two changes that are alike are alike,                                   *)
LEMMA AlikeTrans ==
  ASSUME NEW s, NEW t, NEW u, Alike(s, t), Alike(t, u)
  PROVE  Alike(s, u)
BY DEF Alike

(* and a draw that is followed by one is still a draw.                     *)
LEMMA DrawsTrans ==
  ASSUME NEW s, NEW t, NEW u, NEW j, Draws(s, t, j), Alike(t, u)
  PROVE  Draws(s, u, j)
BY DEF Alike, Draws, DrawnBy

(* failed() changes no operation.                                          *)
LEMMA FailedAlike ==
  ASSUME NEW s \in SchedType, NEW j \in Jails
  PROVE  /\ Failed(s, j) \in SchedType /\ Alike(s, Failed(s, j))
         /\ Failed(s, j).queue[j] = "ready"
<1> DEFINE t == Failed(s, j)
<1>1. /\ t \in SchedType
      /\ t.flags = [s.flags EXCEPT ![j] = @ \cup {"FAILED"}]
      /\ \A k \in Jails : t.queue[k] = IF k = j THEN "ready" ELSE s.queue[k]
  BY FailedFacts
<1> HIDE DEF t
<1>2. ASSUME NEW k \in Jails
      PROVE  Ops(t.flags[k]) = Ops(s.flags[k])
  <2>1. t.flags[k] = s.flags[k] \/ t.flags[k] = s.flags[k] \cup {"FAILED"}
    BY <1>1 DEF SchedType
  <2> QED
    BY <2>1, FailedNoOp
<1>3. Alike(s, t)
  BY <1>1, <1>2 DEF Alike
<1> QED
  BY <1>1, <1>3 DEF t

(* requeue() of one jail to another queue than cfjails changes none.       *)
LEMMA RequeueAlike ==
  ASSUME NEW s \in SchedType, NEW j \in Jails, NEW q \in Queue \ {"cfjails"}
  PROVE  LET t == Requeue(s, {j}, q, {})
         IN  t \in SchedType /\ Alike(s, t) /\ t.queue[j] = q
<1> DEFINE t == Requeue(s, {j}, q, {})
<1>1. /\ t \in SchedType /\ t.flags = s.flags
      /\ \A k \in Jails : t.queue[k] = IF k = j THEN q ELSE s.queue[k]
  <2>1. Moved(s, t, {j}, q)
    BY RequeueOne
  <2> HIDE DEF t
  <2> QED
    BY <2>1 DEF Moved
<1> HIDE DEF t
<1>2. Alike(s, t)
  BY <1>1 DEF Alike
<1> QED
  BY <1>1, <1>2 DEF t

(* requeue_head() changes none either.                                     *)
LEMMA RequeueHeadAlike ==
  ASSUME NEW s \in SchedType, NEW j \in Jails, NEW q \in Queue \ {"cfjails"}
  PROVE  LET t == RequeueHead(s, j, q)
         IN  t \in SchedType /\ Alike(s, t) /\ t.queue[j] = q
<1> DEFINE t == RequeueHead(s, j, q)
<1>1. /\ t \in SchedType /\ t.flags = s.flags
      /\ \A k \in Jails : t.queue[k] = IF k = j THEN q ELSE s.queue[k]
  <2>1. Moved(s, t, {j}, q)
    BY RequeueHeadFacts
  <2> HIDE DEF t
  <2> QED
    BY <2>1 DEF Moved
<1> HIDE DEF t
<1>2. Alike(s, t)
  BY <1>1 DEF Alike
<1> QED
  BY <1>1, <1>2 DEF t

(* dep_done() wakes waiting jails and fails jails; a jail that has not     *)
(* failed fails none.                                                      *)
LEMMA DepDoneAlike ==
  ASSUME NEW s \in SchedType, NEW j \in Jails,
         NEW light \in BOOLEAN, NEW nofail \in BOOLEAN
  PROVE  LET t == DepDone(s, j, light, nofail)
         IN  /\ t \in SchedType /\ Alike(s, t)
             /\ "FAILED" \notin s.flags[j] => t.flags = s.flags
<1> DEFINE t == DepDone(s, j, light, nofail)
<1>1. Announced(s, t, j, light, nofail)
  BY DepDoneWhole
<1> HIDE DEF t
<1>2. t \in SchedType
  BY <1>1 DEF Announced
<1>3. ASSUME NEW k \in Jails
      PROVE  /\ \/ t.flags[k] = s.flags[k]
                \/ t.flags[k] = s.flags[k] \cup {"FAILED"}
             /\ "FAILED" \notin s.flags[j] => t.flags[k] = s.flags[k]
             /\ t.queue[k] = "cfjails" => s.queue[k] = "cfjails"
  BY <1>1 DEF Announced, Spreads
<1>4. Alike(s, t)
  BY <1>3, FailedNoOp DEF Alike
<1>5. "FAILED" \notin s.flags[j] => t.flags = s.flags
  BY <1>2, <1>3 DEF SchedType
<1> QED
  BY <1>2, <1>4, <1>5 DEF t

(* finish_command() gives the slot away and changes no operation.          *)
LEMMA WakeRunnableAlike ==
  ASSUME NEW s \in SchedType
  PROVE  WakeRunnable(s) \in SchedType /\ Alike(s, WakeRunnable(s))
<1> DEFINE t == WakeRunnable(s)
<1>1. Woke(s, t)
  BY WakeRunnableWhole
<1> HIDE DEF t
<1>2. ASSUME NEW k \in Jails
      PROVE  /\ Ops(t.flags[k]) = Ops(s.flags[k])
             /\ t.queue[k] = "cfjails" => s.queue[k] = "cfjails"
  BY <1>1 DEF Woke, Ops, OpFlag
<1> QED
  BY <1>1, <1>2 DEF t, Alike, Woke

(* What dep_check() draws in is at the other end of an edge that its jail  *)
(* waits for.                                                              *)
LEMMA DepCheckDraws ==
  ASSUME NEW s \in SchedType, NEW j \in Jails
  PROVE  LET t == DepCheck(s, j)
         IN  /\ t \in SchedType /\ Draws(s, t, j)
             /\ Blocked(s, j) => t.queue[j] = "depend"
<1> DEFINE t == DepCheck(s, j)
<1>1. Drew(s, t, j)
  BY DepCheckWhole
<1> HIDE DEF t
<1>2. ASSUME NEW k \in Jails
      PROVE  /\ t.flags[k] = NewFlags(s, j, k)
             /\ t.queue[k] = "cfjails" => s.queue[k] = "cfjails"
  BY <1>1 DEF Drew
<1>3. ASSUME NEW k \in Jails
      PROVE  \/ Ops(t.flags[k]) = Ops(s.flags[k])
             \/ /\ Ops(t.flags[k]) = Ops(Drawn(s.flags[j], s.flags[k]))
                /\ \E e \in Waits(s.flags[j], j) : Far(e, j) = k
  BY <1>2, NewFlagsFacts, CalledJails
<1>4. Draws(s, t, j)
  BY <1>2, <1>3 DEF Draws, DrawnBy
<1> QED
  BY <1>1, <1>4 DEF t, Drew

(* No jail loses the order to stop by being drawn in.                      *)
LEMMA DrawnStops ==
  ASSUME NEW f, NEW d, "STOP" \in d
  PROVE  "STOP" \in Drawn(f, d)
BY DEF Drawn

-----------------------------------------------------------------------------
(* The inductive invariant.                                                *)

(* Whom a -m takes down has to be taken down.                              *)
Asked ==
  "SET" \in Op =>
    \A k \in Jails : "STOP" \in flags[k] =>
      "STOP" \in Op /\ ("SET" \in flags[k] \/ k \in Tuned)

(* A jail on its way through its start commands.                           *)
Going(j) == list[j] = "start" /\ "STOP" \notin flags[j]

(* It runs only from the creation on, and a failed one must not stay up    *)
(* behind it; outside the loop it is before or behind them all.            *)
Half(j) ==
  /\ list[j] = "stop" => "STOP" \in flags[j]
  /\ list[j] = "start" => pos[j] <= 6
  /\ Going(j) /\ ~Active(j) => pos[j] \notin {4, 5}
  /\ "remove" \notin Faults =>
       /\ jid[j] = -1 => j \notin up
       /\ Going(j) /\ pos[j] <= 3 => j \notin up
       /\ Going(j) /\ pos[j] = 4 /\ j \in up =>
            pc = "command" /\ cur = j /\ "FAILED" \notin flags[j]
       /\ Going(j) /\ pc = "done" /\ cur = j /\ "FAILED" \in flags[j] =>
            j \notin up

SInv == Asked /\ \A j \in Jails : Half(j)

-----------------------------------------------------------------------------
(* Steps and the operations of the jails.                                  *)

(* A step that changes no operation keeps Asked.                           *)
LEMMA AskedSame ==
  ASSUME Asked, given' = given,
         \A k \in Jails : Ops(flags'[k]) = Ops(flags[k])
  PROVE  Asked'
<1>1. \A k \in Jails : /\ "STOP" \in flags'[k] <=> "STOP" \in flags[k]
                       /\ "SET" \in flags'[k] <=> "SET" \in flags[k]
  BY InOps DEF OpFlag
<1>2. Op' = Op /\ Tuned' = Tuned
  BY DEF Op, Tuned, Rdtun
<1> QED
  BY <1>1, <1>2 DEF Asked

(* What depends on a jail that is taken along is taken along.              *)
LEMMA TunedEdge ==
  ASSUME NEW e \in Edge, Deps[e].to \in Tuned
  PROVE  Deps[e].from \in Tuned
<1>1. Deps[e].from \in Jails
  BY EdgeEnds
<1>2. ASSUME NEW T \in SUBSET Jails, Rdtun \subseteq T, TakesAlong(T)
      PROVE  Deps[e].from \in T
  <2>1. Deps[e].to \in T
    BY <1>2 DEF Tuned
  <2> QED
    BY <1>2, <2>1 DEF TakesAlong
<1> QED
  BY <1>1, <1>2 DEF Tuned

(* So is what is inside of it,                                             *)
LEMMA TunedInside ==
  ASSUME NEW j \in Tuned, NEW k \in Jails, <<k, j>> \in Under
  PROVE  k \in Tuned
<1>1. ASSUME NEW T \in SUBSET Jails, Rdtun \subseteq T, TakesAlong(T)
      PROVE  k \in T
  <2>1. j \in T
    BY <1>1 DEF Tuned
  <2>2. \A u \in Under : u[2] \in T => u[1] \in T
    BY <1>1 DEF TakesAlong
  <2> QED
    BY <2>1, <2>2
<1> QED
  BY <1>1 DEF Tuned

(* and a jail whose parameters differ.                                     *)
LEMMA TunedRdtun ==
  ASSUME NEW j \in Jails, j \in Rdtun
  PROVE  j \in Tuned
BY DEF Tuned

(* dep_check() of a jail that stops draws in what depends on it, that of   *)
(* another makes nobody stop.                                              *)
LEMMA AskedDraws ==
  ASSUME TypeOK, Asked, given' = given, NEW c \in Jails,
         ~({"SET", "STOP"} \subseteq flags[c]),
         \A k \in Jails :
           \/ Ops(flags'[k]) = Ops(flags[k])
           \/ /\ Ops(flags'[k]) = Ops(Drawn(flags[c], flags[k]))
              /\ \E e \in Waits(flags[c], c) : Far(e, c) = k
  PROVE  Asked'
<1>1. Op' = Op /\ Tuned' = Tuned
  BY DEF Op, Tuned, Rdtun
<1>2. ASSUME "SET" \in Op, NEW k \in Jails, "STOP" \in flags'[k]
      PROVE  "STOP" \in Op /\ ("SET" \in flags'[k] \/ k \in Tuned)
  <2>1. CASE Ops(flags'[k]) = Ops(flags[k])
    <3>1. /\ "STOP" \in flags[k]
          /\ "SET" \in flags'[k] <=> "SET" \in flags[k]
      BY <1>2, <2>1, InOps DEF OpFlag
    <3> QED
      BY <1>2, <3>1 DEF Asked
  <2>2. CASE /\ Ops(flags'[k]) = Ops(Drawn(flags[c], flags[k]))
             /\ \E e \in Waits(flags[c], c) : Far(e, c) = k
    <3> DEFINE r == Drawn(flags[c], flags[k])
    <3>1. /\ "STOP" \in r
          /\ "SET" \in flags'[k] <=> "SET" \in r
      BY <1>2, <2>2, InOps DEF OpFlag
    <3>2. CASE "STOP" \in flags[c]
      <4>1. DoStop(flags[c])
        BY <3>2 DEF DoStop
      <4>2. "STOP" \in Op /\ c \in Tuned
        BY <1>2, <3>2, <4>1 DEF Asked, DoStop
      <4>3. PICK e \in Waits(flags[c], c) : Far(e, c) = k
        BY <2>2
      <4>4. e \in Edge /\ c = Deps[e].to
        BY <4>1 DEF Waits
      <4>5. k = Deps[e].from
        BY <4>3, <4>4 DEF Far
      <4>6. k \in Tuned
        BY <4>2, <4>4, <4>5, TunedEdge
      <4> QED
        BY <4>2, <4>6
    <3>3. CASE "STOP" \notin flags[c]
      <4>1. /\ "STOP" \in flags[k]
            /\ "SET" \in flags[k] => "SET" \in r
        BY <3>1, <3>3 DEF Drawn
      <4> QED
        BY <1>2, <3>1, <4>1 DEF Asked
    <3> QED
      BY <3>2, <3>3
  <2> QED
    BY <2>1, <2>2
<1> QED
  BY <1>1, <1>2 DEF Asked

(* What a step does to a jail that the loop does not hold.                 *)
Undisturbed(k) ==
  /\ list'[k] = list[k] /\ pos'[k] = pos[k] /\ jid'[k] = jid[k]
  /\ k \in up' => k \in up
  /\ "STOP" \in flags[k] => "STOP" \in flags'[k]
  /\ queue'[k] = "cfjails" => queue[k] = "cfjails"

(* It keeps Half of the jail.                                              *)
LEMMA HalfOther ==
  ASSUME NEW k \in Jails, Half(k), Undisturbed(k), given' = given,
         pc \in InLoop => k # cur, pc' \in InLoop => k # cur'
  PROVE  Half(k)'
<1>1. Faults' = Faults
  BY DEF Faults
<1>2. Going(k)' => Going(k)
  BY DEF Going, Undisturbed
<1>3. ~Active(k)' => ~Active(k)
  BY DEF Active, Undisturbed
<1>4. pc \in {"command", "done"} => k # cur
  BY DEF InLoop
<1>5. pc' \in {"command", "done"} => k # cur'
  BY DEF InLoop
<1> QED
  BY <1>1, <1>2, <1>3, <1>4, <1>5 DEF Half, Undisturbed

(* A draw takes the order to stop from nobody and puts none on cfjails.    *)
LEMMA DrawsOthers ==
  ASSUME TypeOK, NEW c \in Jails, NEW t \in SchedType, Become(t),
         Alike(Sched, t) \/ Draws(Sched, t, c)
  PROVE  \A k \in Jails :
           /\ "STOP" \in flags[k] => "STOP" \in flags'[k]
           /\ queue'[k] = "cfjails" => queue[k] = "cfjails"
<1>1. Sched.flags = flags /\ Sched.queue = queue
  BY SchedIn
<1>2. flags' = t.flags /\ queue' = t.queue
  BY BecomeType
<1> SUFFICES ASSUME NEW k \in Jails
             PROVE  /\ "STOP" \in flags[k] => "STOP" \in flags'[k]
                    /\ queue'[k] = "cfjails" => queue[k] = "cfjails"
  OBVIOUS
<1>3. queue'[k] = "cfjails" => queue[k] = "cfjails"
  BY <1>1, <1>2 DEF Alike, Draws
<1>4. \/ Ops(flags'[k]) = Ops(flags[k])
      \/ Ops(flags'[k]) = Ops(Drawn(flags[c], flags[k]))
  BY <1>1, <1>2 DEF Alike, Draws, DrawnBy
<1>5. "STOP" \in flags[k] => "STOP" \in flags'[k]
  BY <1>4, InOps, DrawnStops DEF OpFlag
<1> QED
  BY <1>3, <1>5

(* A step that draws jails in, or changes no operation, keeps Asked.       *)
LEMMA AskedMoves ==
  ASSUME TypeOK, Asked, given' = given, NEW c \in Jails,
         NEW t \in SchedType, Become(t),
         \/ Alike(Sched, t)
         \/ Draws(Sched, t, c) /\ ~({"SET", "STOP"} \subseteq flags[c])
  PROVE  Asked'
<1>1. Sched.flags = flags
  BY SchedIn
<1>2. flags' = t.flags
  BY BecomeType
<1>3. CASE Alike(Sched, t)
  BY <1>1, <1>2, <1>3, AskedSame DEF Alike
<1>4. CASE Draws(Sched, t, c) /\ ~({"SET", "STOP"} \subseteq flags[c])
  BY <1>1, <1>2, <1>4, AskedDraws DEF Draws, DrawnBy
<1> QED
  BY <1>3, <1>4

(* What the loop does for one jail disturbs no other.                      *)
LEMMA OthersStep ==
  ASSUME IInv, SInv, NEW c \in Jails, c = cur,
         NEW t \in SchedType, Become(t),
         \/ Alike(Sched, t)
         \/ Draws(Sched, t, c) /\ ~({"SET", "STOP"} \subseteq flags[c]),
         given' = given, cur' = cur \/ cur' = NoJail,
         \A k \in Jails \ {c} : /\ list'[k] = list[k] /\ pos'[k] = pos[k]
                                /\ jid'[k] = jid[k]
                                /\ k \in up' => k \in up
  PROVE  /\ Asked'
         /\ \A k \in Jails \ {c} : Half(k)'
         /\ "STOP" \in flags[c] => "STOP" \in flags'[c]
<1>1. TypeOK
  BY DEF IInv
<1>2. Asked'
  BY <1>1, AskedMoves DEF SInv
<1>3. \A k \in Jails : /\ "STOP" \in flags[k] => "STOP" \in flags'[k]
                       /\ queue'[k] = "cfjails" => queue[k] = "cfjails"
  BY <1>1, DrawsOthers
<1>4. ASSUME NEW k \in Jails \ {c}
      PROVE  Half(k)'
  <2>1. Undisturbed(k)
    BY <1>3 DEF Undisturbed
  <2>2. k # cur /\ k # cur' /\ Half(k)
    BY JailsAssumption DEF SInv
  <2> QED
    BY <2>1, <2>2, HalfOther
<1> QED
  BY <1>2, <1>3, <1>4

(* Where the loop may leave the jail it holds without a command.           *)
Settles(c) ==
  \/ list[c] = "NULL"
  \/ "STOP" \in flags'[c]
  \/ cur' = cur /\ pc' \in InLoop \ {"done"}
  \/ queue'[c] # "cfjails" /\ pc' # "done"

(* Steps of the loop that move no command cursor.                          *)
LEMMA CalmStep ==
  ASSUME IInv, SInv, NEW c \in Jails, c = cur,
         pc \in InLoop \ {"command", "done"},
         NEW t \in SchedType, Become(t),
         \/ Alike(Sched, t)
         \/ Draws(Sched, t, c) /\ ~({"SET", "STOP"} \subseteq flags[c]),
         given' = given, list' = list, pos' = pos, up' = up,
         \A k \in Jails \ {c} : jid'[k] = jid[k],
         jid'[c] = -1 => jid[c] = -1 \/ c \notin up,
         cur' = cur \/ cur' = NoJail,
         Settles(c)
  PROVE  SInv'
<1>1. /\ Asked'
      /\ \A k \in Jails \ {c} : Half(k)'
      /\ "STOP" \in flags[c] => "STOP" \in flags'[c]
  BY OthersStep
<1>2. Half(c)'
  <2>1. Half(c) /\ Faults' = Faults
    BY DEF SInv, Faults
  <2>2. Going(c)' => Going(c)
    BY <1>1 DEF Going
  <2>3. Going(c)' => Active(c)' /\ pc' # "done"
    BY DEF Going, Settles, Active, InLoop
  <2>4. pc # "command"
    OBVIOUS
  <2> QED
    BY <1>1, <2>1, <2>2, <2>3, <2>4 DEF Half
<1> QED
  BY <1>1, <1>2 DEF SInv

-----------------------------------------------------------------------------
(* The head of the main loop.                                              *)

(* A failed jail that ran nothing is done.                                 *)
LEMMA SkipFailedStops ==
  ASSUME IInv, SInv, NEW c \in Jails, c = cur, SkipFailed
  PROVE  SInv'
<1> DEFINE t == DepDone(Sched, cur, FALSE, FALSE)
<1>1. t \in SchedType /\ Alike(Sched, t)
  BY SchedIn, DepDoneAlike DEF IInv
<1>2. /\ Become(t) /\ Continue /\ pc = "begin" /\ list[c] = "NULL"
      /\ UNCHANGED <<list, pos, jid, up, given>>
  BY DEF SkipFailed, coms
<1> HIDE DEF t
<1>3. Settles(c) /\ cur' = NoJail
  BY <1>2 DEF Settles, Continue
<1> QED
  BY <1>1, <1>2, <1>3, CalmStep DEF InLoop

(* A change of the flags of the jail in hand that leaves its operation.    *)
LEMMA FlagsAlike ==
  ASSUME TypeOK, NEW c \in Jails, NEW f \in [Jails -> SUBSET Flag],
         \A k \in Jails : Ops(f[k]) = Ops(flags[k])
  PROVE  LET t == [Sched EXCEPT !.flags = f]
         IN  t \in SchedType /\ Alike(Sched, t) /\ t.flags = f /\ t.queue = queue
<1> DEFINE t == [Sched EXCEPT !.flags = f]
<1>1. t \in SchedType /\ t.flags = f /\ t.queue = queue
  BY SchedFlags
<1>2. Sched.flags = flags /\ Sched.queue = queue
  BY SchedIn
<1> HIDE DEF t
<1>3. Alike(Sched, t)
  BY <1>1, <1>2 DEF Alike
<1> QED
  BY <1>1, <1>3 DEF t

(* JF_PARAMS is no operation.                                              *)
LEMMA WithParamsAlike ==
  ASSUME IInv, NEW c \in Jails, c = cur
  PROVE  LET t == [Sched EXCEPT !.flags = WithParams]
         IN  t \in SchedType /\ Alike(Sched, t) /\ t.queue = queue
<1>1. TypeOK /\ WithParams \in [Jails -> SUBSET Flag]
  BY WithParamsFacts DEF IInv
<1>2. \A k \in Jails : WithParams[k] = flags[k]
                         \/ WithParams[k] = flags[k] \cup {"PARAMS"}
  BY <1>1 DEF TypeOK, WithParams
<1> HIDE DEF WithParams
<1>3. \A k \in Jails : Ops(WithParams[k]) = Ops(flags[k])
  BY <1>2 DEF Ops, OpFlag
<1> QED
  BY <1>1, <1>3, FlagsAlike

(* A jail that fails leaves the loop ready.                                *)
LEMMA FailedStops ==
  ASSUME IInv, SInv, NEW c \in Jails, c = cur,
         pc \in InLoop \ {"command", "done"},
         NEW u \in SchedType,
         \/ Alike(Sched, u)
         \/ Draws(Sched, u, c) /\ ~({"SET", "STOP"} \subseteq flags[c]),
         Become(Failed(u, c)), Continue,
         UNCHANGED <<list, pos, jid, up, given>>
  PROVE  SInv'
<1> DEFINE t == Failed(u, c)
<1>1. t \in SchedType /\ Alike(u, t) /\ t.queue[c] = "ready"
  BY FailedAlike
<1> HIDE DEF t
<1>2. Become(t) /\ queue'[c] = "ready"
  BY <1>1, BecomeType DEF t
<1>3. \/ Alike(Sched, t)
      \/ Draws(Sched, t, c) /\ ~({"SET", "STOP"} \subseteq flags[c])
  BY <1>1, AlikeTrans, DrawsTrans
<1>4. Settles(c) /\ cur' = NoJail
  BY <1>2 DEF Settles, Continue
<1> QED
  BY <1>1, <1>2, <1>3, <1>4, CalmStep

(* A jail with bad parameters fails.                                       *)
LEMMA BadParamsStops ==
  ASSUME IInv, SInv, NEW c \in Jails, c = cur, BadParams
  PROVE  SInv'
<1> DEFINE u == [Sched EXCEPT !.flags = WithParams]
<1>1. u \in SchedType /\ Alike(Sched, u)
  BY WithParamsAlike
<1>2. /\ Become(Failed(u, c)) /\ Continue /\ pc = "begin"
      /\ UNCHANGED <<list, pos, jid, up, given>>
  BY DEF BadParams, coms
<1> HIDE DEF u
<1> QED
  BY <1>1, <1>2, FailedStops DEF InLoop

(* running_jid() finds out whether the jail runs.                          *)
LEMMA RunningJidStops ==
  ASSUME IInv, SInv, NEW c \in Jails, c = cur, RunningJid
  PROVE  SInv'
<1> DEFINE t == [Sched EXCEPT !.flags = WithParams]
<1>1. t \in SchedType /\ Alike(Sched, t)
  BY WithParamsAlike
<1>2. /\ pc = "begin" /\ pc' = "finish" /\ flags' = WithParams
      /\ jid' = [jid EXCEPT ![cur] = IF @ # 0 THEN @
                                     ELSE IF cur \in up THEN 1 ELSE -1]
      /\ UNCHANGED <<ndeps, seen, queue, ahead, list, pos, up, cur, given>>
  BY DEF RunningJid, coms
<1>3. Become(t)
  BY <1>2 DEF Become, Sched
<1>4. /\ \A k \in Jails \ {c} : jid'[k] = jid[k]
      /\ jid'[c] = -1 => jid[c] = -1 \/ c \notin up
  BY <1>2 DEF IInv, TypeOK
<1> HIDE DEF t
<1>5. Settles(c)
  BY <1>2 DEF Settles, InLoop
<1> QED
  BY <1>1, <1>2, <1>3, <1>4, <1>5, CalmStep DEF InLoop

(* SLEEPQ and TIMEOUT are no operations.                                   *)
LEMMA AwakeAlike ==
  ASSUME IInv, NEW c \in Jails, c = cur
  PROVE  LET t == [Sched EXCEPT !.flags = Awake]
         IN  t \in SchedType /\ Alike(Sched, t) /\ t.queue = queue
<1>1. TypeOK
  BY DEF IInv
<1>2. /\ Awake \in [Jails -> SUBSET Flag]
      /\ \A k \in Jails : \/ Awake[k] = flags[k]
                          \/ Awake[k] = flags[k] \ {"SLEEPQ", "TIMEOUT"}
  BY <1>1 DEF TypeOK, Awake
<1> HIDE DEF Awake
<1>3. \A k \in Jails : Ops(Awake[k]) = Ops(flags[k])
  BY <1>2 DEF Ops, OpFlag
<1> QED
  BY <1>1, <1>2, <1>3, FlagsAlike

(* finish_command() without a slot to return.                              *)
LEMMA FinishNothingStops ==
  ASSUME IInv, SInv, NEW c \in Jails, c = cur, FinishNothing
  PROVE  SInv'
<1>1. /\ pc = "finish" /\ pc' = "op"
      /\ UNCHANGED <<ndeps, seen, queue, ahead, list, pos, jid, up, cur, given>>
      /\ flags' = flags \/ flags' = Awake
  BY DEF FinishNothing, coms
<1>2. \E t \in SchedType : Become(t) /\ Alike(Sched, t)
  <2>1. CASE flags' = flags
    <3>1. Sched \in SchedType /\ Become(Sched)
      BY <1>1, <2>1, SchedIn DEF IInv, Become, Sched
    <3> QED
      BY <3>1 DEF Alike
  <2>2. CASE flags' = Awake
    <3> DEFINE t == [Sched EXCEPT !.flags = Awake]
    <3>1. t \in SchedType /\ Alike(Sched, t)
      BY AwakeAlike
    <3>2. Become(t)
      BY <1>1, <2>2 DEF Become, Sched
    <3> QED
      BY <3>1, <3>2
  <2> QED
    BY <1>1, <2>1, <2>2
<1>3. Settles(c)
  BY <1>1 DEF Settles, InLoop
<1> QED
  BY <1>1, <1>2, <1>3, CalmStep DEF InLoop

(* finish_command() returns the slot the command held.                     *)
LEMMA FinishCommandStops ==
  ASSUME IInv, SInv, NEW c \in Jails, c = cur, FinishCommand
  PROVE  SInv'
<1> DEFINE u == [Sched EXCEPT !.flags = Awake]
           w == WakeRunnable(u)
<1>1. /\ pc = "finish"
      /\ UNCHANGED <<list, pos, jid, up, given>>
      /\ \/ Become(Failed(w, c)) /\ Continue
         \/ Become(w) /\ pc' = "op" /\ cur' = cur
  BY DEF FinishCommand, coms
<1>2. u \in SchedType /\ Alike(Sched, u)
  BY AwakeAlike
<1> HIDE DEF u
<1>3. w \in SchedType /\ Alike(Sched, w)
  BY <1>2, WakeRunnableAlike, AlikeTrans
<1> HIDE DEF w
<1>4. CASE Become(Failed(w, c)) /\ Continue
  BY <1>1, <1>3, <1>4, FailedStops DEF InLoop
<1>5. CASE Become(w) /\ pc' = "op" /\ cur' = cur
  <2>1. Settles(c)
    BY <1>5 DEF Settles, InLoop
  <2> QED
    BY <1>1, <1>3, <1>5, <2>1, CalmStep DEF InLoop
<1> QED
  BY <1>1, <1>4, <1>5

-----------------------------------------------------------------------------
(* The operation of the jail the loop holds.                               *)

(* A jail that is refused leaves the loop.                                 *)
LEMMA RefuseStops ==
  ASSUME IInv, SInv, NEW c \in Jails, c = cur, pc = "op", Refuse
  PROVE  SInv'
<1>1. Sched \in SchedType /\ Alike(Sched, Sched)
  BY SchedIn DEF IInv, Alike
<1>2. /\ Become(Failed(Sched, c)) /\ Continue
      /\ UNCHANGED <<list, pos, jid, up, given>>
  BY DEF Refuse, coms
<1> QED
  BY <1>1, <1>2, FailedStops DEF InLoop

(* A jail turns into a restart only when its parameters differ.            *)
LEMMA TurnIntoStops ==
  ASSUME IInv, SInv, NEW c \in Jails, c = cur, pc = "op", "SET" \in flags[c],
         NEW F, F = NewOp(flags[c]), TurnInto(F)
  PROVE  SInv'
<1> DEFINE f == [flags EXCEPT ![c] = F]
           u == [Sched EXCEPT !.flags = f]
           t == IF "STOP" \in F THEN DepReset(u, {c}) ELSE u
<1>1. TypeOK /\ list[c] = "NULL"
  BY DEF IInv, ListHasOp
<1>2. /\ F \in SUBSET Flag
      /\ "STOP" \in F => "STOP" \in flags[c] /\ c \in Rdtun
  BY DEF NewOp, RdtunParams, Flag, OpFlag
<1>3. f \in [Jails -> SUBSET Flag] /\ \A k \in Jails : f[k] = IF k = c THEN F ELSE flags[k]
  BY <1>1, <1>2 DEF TypeOK
<1> HIDE DEF f
<1>4. u \in SchedType /\ u.flags = f /\ u.queue = queue
  BY <1>1, <1>3, SchedFlags
<1>5. /\ Become(t) /\ pc' = pc /\ cur' = cur
      /\ UNCHANGED <<list, pos, jid, up, given>>
  BY DEF TurnInto, coms, f
<1> HIDE DEF u
<1>6. t \in SchedType /\ t.flags = f /\ t.queue = queue
  BY <1>4, DepResetOne
<1> HIDE DEF t
<1>7. flags' = f /\ queue' = queue
  BY <1>5, <1>6, BecomeType
<1>8. Op' = Op /\ Tuned' = Tuned /\ Faults' = Faults
  BY <1>5 DEF Op, Tuned, Rdtun, Faults
<1>9. Asked'
  <2>1. ASSUME "SET" \in Op, NEW k \in Jails, "STOP" \in f[k]
        PROVE  "STOP" \in Op /\ ("SET" \in f[k] \/ k \in Tuned)
    <3>1. CASE k = c
      <4>1. "STOP" \in flags[c] /\ c \in Rdtun
        BY <1>2, <1>3, <2>1, <3>1
      <4>2. "STOP" \in Op
        BY <2>1, <4>1 DEF SInv, Asked
      <4> QED
        BY <3>1, <4>1, <4>2, TunedRdtun
    <3>2. CASE k # c
      BY <1>3, <2>1, <3>2 DEF SInv, Asked
    <3> QED
      BY <3>1, <3>2
  <2> QED
    BY <1>7, <1>8, <2>1 DEF Asked
<1>10. ASSUME NEW k \in Jails, k # c
       PROVE  Half(k)'
  <2>1. Undisturbed(k)
    BY <1>3, <1>5, <1>7, <1>10 DEF Undisturbed
  <2>2. k # cur /\ k # cur' /\ Half(k)
    BY <1>5, <1>10 DEF SInv
  <2> QED
    BY <1>5, <2>1, <2>2, HalfOther
<1>11. Half(c)'
  BY <1>1, <1>5, <1>8 DEF SInv, Half, Going
<1> QED
  BY <1>9, <1>10, <1>11 DEF SInv

(* -cm and -cmr turn into one operation, and so does -mr.                  *)
LEMMA TurnStops ==
  ASSUME IInv, SInv, NEW c \in Jails, c = cur, Turn \/ TurnRestart
  PROVE  SInv'
<1>1. pc = "op" /\ "SET" \in flags[c]
  BY DEF Turn, TurnRestart, Ops
<1>2. Refuse \/ TurnInto(NewOp(flags[c]))
  BY DEF Turn, TurnRestart
<1> QED
  BY <1>1, <1>2, RefuseStops, TurnIntoStops

(* dep_check() of the jail the loop holds.                                 *)
LEMMA CheckStops ==
  ASSUME IInv, NEW c \in Jails, c = cur, MayCheck
  PROVE  LET t == DepCheck(Sched, cur)
         IN  /\ pc = "op" /\ list[c] = "NULL"
             /\ t \in SchedType
             /\ Draws(Sched, t, c) /\ ~({"SET", "STOP"} \subseteq flags[c])
<1>1. ~({"SET", "STOP"} \subseteq flags[c])
  BY DEF MayCheck, Single, Ops, OpFlag, DoStop
<1> QED
  BY <1>1, MayCheckFacts, SchedIn, DepCheckDraws DEF IInv

(* The jail goes to wait in depend.                                        *)
LEMMA WaitForOthersStops ==
  ASSUME IInv, SInv, NEW c \in Jails, c = cur, WaitForOthers
  PROVE  SInv'
<1> DEFINE t == DepCheck(Sched, cur)
<1>1. /\ pc = "op" /\ list[c] = "NULL" /\ t \in SchedType
      /\ Draws(Sched, t, c) /\ ~({"SET", "STOP"} \subseteq flags[c])
  BY CheckStops DEF WaitForOthers
<1>2. Become(t) /\ cur' = NoJail /\ UNCHANGED <<list, pos, jid, up, given>>
  BY DEF WaitForOthers, coms, Continue
<1> HIDE DEF t
<1>3. Settles(c)
  BY <1>1 DEF Settles
<1> QED
  BY <1>1, <1>2, <1>3, CalmStep DEF InLoop

(* A jail that is not there begins its start commands.                     *)
LEMMA BeginStartStops ==
  ASSUME IInv, SInv, NEW c \in Jails, c = cur, BeginStart
  PROVE  SInv'
<1> DEFINE t == DepCheck(Sched, cur)
<1>1. /\ list[c] = "NULL" /\ t \in SchedType
      /\ Draws(Sched, t, c) /\ ~({"SET", "STOP"} \subseteq flags[c])
  BY CheckStops DEF BeginStart, Unblocked
<1>2. /\ Become(t) /\ cur' = cur /\ pc' = "next_command" /\ jid[c] < 0
      /\ list' = [list EXCEPT ![cur] = "start"]
      /\ pos' = [pos EXCEPT ![cur] = 1]
      /\ UNCHANGED <<jid, up, given>>
  BY DEF BeginStart, Begin
<1> HIDE DEF t
<1>3. /\ list'[c] = "start" /\ pos'[c] = 1
      /\ \A k \in Jails \ {c} : list'[k] = list[k] /\ pos'[k] = pos[k]
  BY <1>2 DEF IInv, TypeOK
<1>4. Asked' /\ \A k \in Jails \ {c} : Half(k)'
  BY <1>1, <1>2, <1>3, OthersStep
<1>5. Half(c)'
  <2>1. "remove" \notin Faults' => c \notin up'
    <3>1. jid[c] = -1
      <4>1. jid[c] \in {-1, 0, 1}
        BY DEF IInv, TypeOK
      <4>2. jid[c] < 0
        BY <1>2
      <4> QED
        BY <4>1, <4>2
    <3>2. Half(c) /\ Faults' = Faults /\ up' = up
      BY <1>2 DEF SInv, Faults
    <3> QED
      BY <3>1, <3>2 DEF Half
  <2>2. pc' # "done"
    BY <1>2
  <2> QED
    BY <1>3, <2>1, <2>2 DEF Half
<1> QED
  BY <1>4, <1>5 DEF SInv

(* One that is there begins its stop commands.                             *)
LEMMA BeginStopStops ==
  ASSUME IInv, SInv, NEW c \in Jails, c = cur, BeginStop
  PROVE  SInv'
<1> DEFINE t == DepCheck(Sched, cur)
<1>1. /\ list[c] = "NULL" /\ t \in SchedType
      /\ Draws(Sched, t, c) /\ ~({"SET", "STOP"} \subseteq flags[c])
  BY CheckStops DEF BeginStop, Unblocked
<1>2. /\ Become(t) /\ cur' = cur /\ pc' = "next_command"
      /\ "STOP" \in flags[c]
      /\ list' = [list EXCEPT ![cur] = "stop"]
      /\ pos' = [pos EXCEPT ![cur] = 1]
      /\ UNCHANGED <<jid, up, given>>
  BY DEF BeginStop, Begin, Single, DoStop
<1> HIDE DEF t
<1>3. /\ list'[c] = "stop" /\ pos'[c] = 1
      /\ \A k \in Jails \ {c} : list'[k] = list[k] /\ pos'[k] = pos[k]
  BY <1>2 DEF IInv, TypeOK
<1>4. /\ Asked' /\ \A k \in Jails \ {c} : Half(k)'
      /\ "STOP" \in flags'[c]
  BY <1>1, <1>2, <1>3, OthersStep
<1>5. Half(c)'
  <2>1. jid' = jid /\ up' = up /\ Faults' = Faults
    BY <1>2 DEF Faults
  <2> QED
    BY <1>3, <1>4, <2>1 DEF SInv, Half, Going
<1> QED
  BY <1>4, <1>5 DEF SInv

(* There is nothing to do for the jail.                                    *)
LEMMA NothingStops ==
  ASSUME IInv, SInv, NEW c \in Jails, c = cur, MayCheck,
         NEW t \in SchedType, Draws(Sched, t, c), Become(t),
         UNCHANGED <<coms, jid, up, cur, given>>
  PROVE  SInv'
<1>1. /\ pc = "op" /\ list[c] = "NULL"
      /\ ~({"SET", "STOP"} \subseteq flags[c])
  BY CheckStops
<1>2. Settles(c)
  BY <1>1 DEF Settles
<1>3. list' = list /\ pos' = pos /\ jid' = jid /\ up' = up /\ given' = given
      /\ cur' = cur
  BY DEF coms
<1> QED
  BY <1>1, <1>2, <1>3, CalmStep DEF InLoop

(* A jail that runs needs no start,                                        *)
LEMMA AlreadyRunsStops ==
  ASSUME IInv, SInv, NEW c \in Jails, c = cur, AlreadyRuns
  PROVE  SInv'
BY CheckStops, NothingStops DEF AlreadyRuns, Unblocked

(* and one that does not no stop.                                          *)
LEMMA NotRunningStops ==
  ASSUME IInv, SInv, NEW c \in Jails, c = cur, NotRunning
  PROVE  SInv'
<1> DEFINE s == DepCheck(Sched, cur)
           t == IF s.flags[cur] \cap {"DEPEND", "WILD"} = {}
                  THEN Failed(s, cur) ELSE s
<1>1. Become(t) /\ MayCheck /\ UNCHANGED <<coms, jid, up, cur, given>>
  BY DEF NotRunning, Unblocked
<1>2. s \in SchedType /\ Draws(Sched, s, c)
  BY <1>1, CheckStops
<1> HIDE DEF s
<1>3. Failed(s, c) \in SchedType /\ Alike(s, Failed(s, c))
  BY <1>2, FailedAlike
<1>4. t \in SchedType /\ Draws(Sched, t, c)
  BY <1>2, <1>3, DrawsTrans
<1> HIDE DEF t
<1> QED
  BY <1>1, <1>4, NothingStops

(* update_jail() and rdtun_params().                                       *)
LEMMA UpdateStops ==
  ASSUME IInv, SInv, NEW c \in Jails, c = cur, Update
  PROVE  SInv'
<1> DEFINE s == DepCheck(Sched, cur)
<1>1. /\ MayCheck
      /\ \/ Become(Failed(s, c)) /\ Continue
         \/ Become(s) /\ cur' = cur
      /\ UNCHANGED <<coms, jid, up, given>>
  BY DEF Update, Unblocked
<1>2. /\ pc = "op" /\ s \in SchedType
      /\ Draws(Sched, s, c) /\ ~({"SET", "STOP"} \subseteq flags[c])
  BY <1>1, CheckStops
<1> HIDE DEF s
<1>3. CASE Become(Failed(s, c)) /\ Continue
  BY <1>1, <1>2, <1>3, FailedStops DEF InLoop, coms
<1>4. CASE Become(s) /\ cur' = cur
  BY <1>1, <1>2, <1>4, NothingStops
<1> QED
  BY <1>1, <1>3, <1>4

(* A stop that failed is left, and a list that was begun goes on.          *)
LEMMA ResumeStops ==
  ASSUME IInv, SInv, NEW c \in Jails, c = cur, AbandonStop \/ Resume
  PROVE  SInv'
<1>1. /\ pc = "op" /\ cur' = cur
      /\ pc' = "next_command" \/ "STOP" \in flags[c]
      /\ UNCHANGED <<flags, ndeps, seen, queue, ahead, list, pos, jid, up, given>>
  BY DEF AbandonStop, Resume, Single, DoStop, sched, coms
<1>2. Sched \in SchedType /\ Become(Sched) /\ Alike(Sched, Sched)
  BY <1>1, SchedIn DEF IInv, Become, Sched, Alike
<1>3. Settles(c)
  BY <1>1 DEF Settles, InLoop
<1> QED
  BY <1>1, <1>2, <1>3, CalmStep DEF InLoop

(* A jail to be restarted has stopped, any other goes.                     *)
LEMMA DoneStops ==
  ASSUME IInv, SInv, NEW c \in Jails, c = cur, Done
  PROVE  SInv'
<1> DEFINE s == DepDone(Sched, cur, FALSE, FALSE)
           restart == {"START", "STOP"} \subseteq s.flags[cur]
                        /\ "FAILED" \notin s.flags[cur]
           f == [s.flags EXCEPT ![cur] = @ \ {"STOP"}]
           v == [s EXCEPT !.flags = f]
           started == DepReset(v, {cur})
           to == IF started.ndeps[cur] # 0 THEN "depend" ELSE "ready"
           moved == Requeue(started, {cur}, to, {})
<1>1. /\ pc = "done" /\ pc' = "next" /\ cur' = NoJail
      /\ UNCHANGED <<pos, jid, up, given>>
      /\ \/ Become(moved) /\ list' = [list EXCEPT ![cur] = "NULL"]
         \/ Become(s) /\ list' = list
  BY DEF Done, Continue
<1>2. TypeOK /\ Sched \in SchedType /\ Sched.flags = flags /\ Sched.queue = queue
  BY SchedIn DEF IInv
<1>3. s \in SchedType /\ Alike(Sched, s)
  BY <1>2, DepDoneAlike
<1> HIDE DEF s
<1>4. /\ moved \in SchedType
      /\ \A k \in Jails \ {c} : moved.flags[k] = s.flags[k]
      /\ "STOP" \notin moved.flags[c]
      /\ \A k \in Jails : moved.queue[k] = "cfjails" => s.queue[k] = "cfjails"
  <2>1. f \in [Jails -> SUBSET Flag]
    BY <1>3 DEF SchedType
  <2>2. \A k \in Jails : f[k] = IF k = c THEN s.flags[c] \ {"STOP"} ELSE s.flags[k]
    BY <1>3 DEF SchedType
  <2> HIDE DEF f
  <2>3. v \in SchedType /\ v.flags = f /\ v.queue = s.queue
    BY <1>3, <2>1, SetFlags
  <2> HIDE DEF v
  <2>4. started \in SchedType /\ started.flags = f /\ started.queue = s.queue
    BY <2>3, DepResetOne
  <2> HIDE DEF started
  <2>5. to \in Queue \ {"cfjails"}
    BY DEF Queue
  <2> HIDE DEF to
  <2>6. /\ moved \in SchedType /\ moved.flags = f
        /\ \A k \in Jails : moved.queue[k] = IF k = c THEN to ELSE s.queue[k]
    <3>1. Moved(started, moved, {c}, to)
      BY <2>4, <2>5, RequeueOne
    <3> HIDE DEF moved
    <3> QED
      BY <2>4, <3>1 DEF Moved
  <2> HIDE DEF moved
  <2> QED
    BY <2>2, <2>5, <2>6
<1>5. CASE Become(s) /\ list' = list
  <2>1. Asked' /\ \A k \in Jails \ {c} : Half(k)'
    BY <1>1, <1>3, <1>5, OthersStep
  <2>2. Ops(flags'[c]) = Ops(flags[c])
    BY <1>2, <1>3, <1>5, BecomeType DEF Alike
  <2>3. Going(c)' <=> Going(c)
    BY <1>5, <2>2, InOps DEF Going, OpFlag
  <2>4. Going(c) => ~Active(c)
    BY <1>1 DEF IInv, Owner, InLoop, Going, Active
  <2>5. Half(c) /\ Faults' = Faults /\ pc' # "done"
    BY <1>1 DEF SInv, Faults
  <2>6. list[c] = "stop" => "STOP" \in flags'[c]
    BY <2>2, <2>5, InOps DEF Half, OpFlag
  <2>7. list' = list /\ pos' = pos /\ jid' = jid /\ up' = up
    BY <1>1, <1>5
  <2>8. Half(c)'
    BY <2>3, <2>4, <2>5, <2>6, <2>7 DEF Half
  <2> QED
    BY <2>1, <2>8 DEF SInv
<1>6. CASE Become(moved) /\ list' = [list EXCEPT ![cur] = "NULL"]
  <2> HIDE DEF moved
  <2>1. flags' = moved.flags /\ queue' = moved.queue
    BY <1>4, <1>6, BecomeType
  <2>2. /\ list'[c] = "NULL"
        /\ \A k \in Jails \ {c} : list'[k] = list[k]
    BY <1>2, <1>6 DEF TypeOK
  <2>3. \A k \in Jails \ {c} : Ops(flags'[k]) = Ops(flags[k])
    BY <1>2, <1>3, <1>4, <2>1 DEF Alike
  <2>4. \A k \in Jails : queue'[k] = "cfjails" => queue[k] = "cfjails"
    BY <1>2, <1>3, <1>4, <2>1 DEF Alike
  <2>5. Op' = Op /\ Tuned' = Tuned /\ Faults' = Faults
    BY <1>1 DEF Op, Tuned, Rdtun, Faults
  <2>6. ASSUME NEW k \in Jails \ {c}
        PROVE  /\ "STOP" \in flags'[k] <=> "STOP" \in flags[k]
               /\ "SET" \in flags'[k] <=> "SET" \in flags[k]
    BY <2>3, InOps DEF OpFlag
  <2>7. Asked'
    <3>1. "STOP" \notin flags'[c]
      BY <1>4, <2>1
    <3> QED
      BY <2>5, <2>6, <3>1 DEF SInv, Asked
  <2>8. ASSUME NEW k \in Jails \ {c}
        PROVE  Half(k)'
    <3>1. Undisturbed(k)
      BY <1>1, <2>2, <2>4, <2>6 DEF Undisturbed
    <3>2. k # cur /\ k # cur' /\ Half(k)
      BY <1>1, JailsAssumption DEF SInv
    <3> QED
      BY <1>1, <3>1, <3>2, HalfOther
  <2>9. Half(c)'
    <3>1. Half(c) /\ jid' = jid /\ up' = up
      BY <1>1 DEF SInv
    <3> QED
      BY <2>2, <2>5, <3>1 DEF Half, Going
  <2> QED
    BY <2>7, <2>8, <2>9 DEF SInv
<1> QED
  BY <1>1, <1>5, <1>6

-----------------------------------------------------------------------------
(* next_command() and run_command().                                       *)

(* Without a slot the jail waits in runnable.                              *)
LEMMA WaitForSlotStops ==
  ASSUME IInv, SInv, NEW c \in Jails, c = cur, WaitForSlot
  PROVE  SInv'
<1> DEFINE t == IF "FROM_RUNQ" \in flags[cur]
                  THEN RequeueHead(Sched, cur, "runnable")
                  ELSE Requeue(Sched, {cur}, "runnable", {})
<1>1. /\ pc = "next_command" /\ pc' = "next" /\ cur' = NoJail /\ Become(t)
      /\ UNCHANGED <<list, pos, jid, up, given>>
  BY DEF WaitForSlot, coms, Continue
<1>2. Sched \in SchedType /\ "runnable" \in Queue \ {"cfjails"}
  BY SchedIn DEF IInv, Queue
<1>3. t \in SchedType /\ Alike(Sched, t) /\ t.queue[c] = "runnable"
  BY <1>2, RequeueHeadAlike, RequeueAlike
<1> HIDE DEF t
<1>4. queue'[c] = "runnable"
  BY <1>1, <1>3, BecomeType
<1>5. Settles(c)
  BY <1>1, <1>4 DEF Settles
<1> QED
  BY <1>1, <1>3, <1>5, CalmStep DEF InLoop

(* With one it goes on.                                                    *)
LEMMA EnterCommandsStops ==
  ASSUME IInv, SInv, NEW c \in Jails, c = cur, EnterCommands
  PROVE  SInv'
<1> DEFINE f == [flags EXCEPT ![c] = @ \ {"FROM_RUNQ"}]
           t == [Sched EXCEPT !.flags = f]
<1>1. /\ pc = "next_command" /\ pc' = "command" /\ flags' = f
      /\ UNCHANGED <<ndeps, seen, queue, ahead, list, pos, jid, up, cur, given>>
  BY DEF EnterCommands, coms
<1>2. /\ TypeOK /\ f \in [Jails -> SUBSET Flag]
      /\ \A k \in Jails : f[k] = flags[k] \/ f[k] = flags[k] \ {"FROM_RUNQ"}
  BY DEF IInv, TypeOK
<1>3. Become(t)
  BY <1>1 DEF Become, Sched
<1> HIDE DEF f
<1>4. \A k \in Jails : Ops(f[k]) = Ops(flags[k])
  BY <1>2 DEF Ops, OpFlag
<1>5. t \in SchedType /\ Alike(Sched, t)
  BY <1>2, <1>4, FlagsAlike
<1> HIDE DEF t
<1>6. Settles(c)
  BY <1>1 DEF Settles, InLoop
<1> QED
  BY <1>1, <1>3, <1>5, <1>6, CalmStep DEF InLoop

(* startcommands has six elements; the fourth is the creation.             *)
LEMMA StartList ==
  /\ Len(CommandList["start"]) = 6
  /\ \A i \in 1 .. 6 :
       /\ CommandList["start"][i] = "OP" <=> i = 4
       /\ CommandList["start"][i] = "NULL" <=> i \in {1, 6}
       /\ CommandList["start"][i] # "STOP_TIMEOUT"
BY DEF CommandList, StartCommands

(* Where the next step takes the cursor of a start list.                   *)
LEMMA NextStart ==
  ASSUME IInv, SInv, NEW c \in Jails, c = cur, pc = "command",
         list[c] = "start"
  PROVE  /\ Next1 \in 0 .. 6
         /\ Going(c) => /\ "FAILED" \in flags[c] => Next1 < 5
                        /\ "FAILED" \notin flags[c] => Next1 > 1
                        /\ "remove" \notin Faults =>
                             /\ Next1 <= 3 => c \notin up
                             /\ Next1 = 4 /\ "FAILED" \notin flags[c] =>
                                  c \notin up
<1>1. Active(c) /\ pos[c] \in Int /\ Half(c)
  BY DEF Active, InLoop, IInv, TypeOK, SInv
<1>2. 1 <= pos[c] /\ pos[c] < 6
  BY <1>1, StartList DEF IInv, CursorInside, CursorOK
<1>3. Next1 = pos[c] + 1 \/ Next1 = pos[c] - 1
  BY <1>1 DEF Next1
<1>4. Next1 \in 0 .. 6
  BY <1>1, <1>2, <1>3
<1>5. Going(c) => Next1 = IF "FAILED" \in flags[c] THEN pos[c] - 1
                                                   ELSE pos[c] + 1
  BY <1>1 DEF Going, Next1, Undoing
<1>6. "remove" \notin Faults /\ Going(c) =>
        /\ pos[c] <= 3 => c \notin up
        /\ pos[c] = 4 /\ "FAILED" \in flags[c] => c \notin up
  BY <1>1 DEF Half
<1> HIDE DEF Next1
<1> QED
  BY <1>1, <1>2, <1>4, <1>5, <1>6

(* Steps of a jail through its commands.                                   *)
LEMMA CommandStop ==
  ASSUME IInv, SInv, NEW c \in Jails, c = cur, pc = "command", Advance,
         NEW t \in SchedType, Become(t), Alike(Sched, t),
         given' = given, cur' = cur \/ cur' = NoJail,
         \A k \in Jails \ {c} : jid'[k] = jid[k] /\ (k \in up' => k \in up),
         "remove" \notin Faults /\ jid'[c] = -1 => c \notin up',
         c \in up' => c \in up \/ (list[c] = "start" /\ Next1 = 4),
         Going(c) /\ Next1 \in {4, 5} => Active(c)',
         Going(c) /\ Next1 = 4 /\ c \in up' /\ "remove" \notin Faults =>
           pc' = "command" /\ cur' = c /\ "FAILED" \notin flags'[c],
         Going(c) /\ pc' = "done" /\ "FAILED" \in flags'[c]
           /\ "remove" \notin Faults => c \notin up'
  PROVE  SInv'
<1>1. /\ list' = list /\ list[c] \in {"start", "stop"} /\ pos'[c] = Next1
      /\ \A k \in Jails \ {c} : pos'[k] = pos[k]
  BY CursorMoves
<1>2. /\ Asked' /\ \A k \in Jails \ {c} : Half(k)'
      /\ "STOP" \in flags[c] => "STOP" \in flags'[c]
  BY <1>1, OthersStep
<1>3. Half(c)'
  <2>1. Half(c) /\ Faults' = Faults
    BY DEF SInv, Faults
  <2>2. Going(c)' => Going(c) /\ list[c] = "start"
    BY <1>1, <1>2 DEF Going
  <2>3. list[c] = "start" => Next1 \in 0 .. 6
    BY NextStart
  <2>4. "remove" \notin Faults /\ Going(c)' /\ Next1 <= 3 => c \notin up'
    <3>1. ASSUME "remove" \notin Faults, Going(c)', Next1 <= 3
          PROVE  c \notin up'
      <4>1. c \notin up
        BY <2>2, <3>1, NextStart
      <4>2. Next1 # 4
        BY <2>2, <2>3, <3>1
      <4> QED
        BY <4>1, <4>2
    <3> QED
      BY <3>1
  <2>5. list'[c] = "stop" => "STOP" \in flags'[c]
    BY <1>1, <1>2, <2>1 DEF Half
  <2>6. list'[c] = "start" => pos'[c] <= 6
    BY <1>1, <2>3
  <2>7. Going(c)' /\ ~Active(c)' => pos'[c] \notin {4, 5}
    BY <1>1, <2>2
  <2> HIDE DEF Next1
  <2> QED
    BY <1>1, <2>1, <2>2, <2>4, <2>5, <2>6, <2>7 DEF Half
<1> QED
  BY <1>2, <1>3 DEF SInv

(* Steps that take nothing up or down.                                     *)
LEMMA QuietCommand ==
  ASSUME IInv, SInv, NEW c \in Jails, c = cur, pc = "command", Advance,
         NEW t \in SchedType, Become(t), Alike(Sched, t),
         UNCHANGED <<jid, up, given>>, cur' = cur \/ cur' = NoJail,
         list[c] = "start" => Next1 # 4,
         list[c] = "start" /\ Next1 = 5 =>
           (cur' = cur /\ pc' = "command") \/ queue'[c] # "cfjails",
         Going(c) /\ pc' = "done" /\ "FAILED" \in flags'[c] =>
           "FAILED" \in flags[c] /\ Next1 <= 3
  PROVE  SInv'
<1>1. Half(c) /\ list[c] \in {"start", "stop"}
  BY CursorMoves DEF SInv
<1>2. "remove" \notin Faults /\ jid'[c] = -1 => c \notin up'
  BY <1>1 DEF Half
<1>3. Going(c) => list[c] = "start"
  BY DEF Going
<1>4. Going(c) /\ Next1 \in {4, 5} => Active(c)'
  BY <1>3 DEF Active, InLoop
<1>5. Going(c) /\ pc' = "done" /\ "FAILED" \in flags'[c]
        /\ "remove" \notin Faults => c \notin up'
  BY <1>3, NextStart
<1> QED
  BY <1>2, <1>3, <1>4, <1>5, CommandStop

(* The end of a list: a failed jail gets there backwards.                  *)
LEMMA CommandsEndStops ==
  ASSUME IInv, SInv, NEW c \in Jails, c = cur, CommandsEnd \/ LeaveList
  PROVE  SInv'
<1>1. /\ pc = "command" /\ Advance /\ pc' \in {"done", "crashed"}
      /\ UNCHANGED <<flags, ndeps, seen, queue, ahead, jid, up, cur, given>>
      /\ ~InList \/ CommandList[list[c]][Next1] = "NULL"
  BY DEF CommandsEnd, LeaveList, Upcoming, sched
<1>2. Sched \in SchedType /\ Become(Sched) /\ Alike(Sched, Sched)
  BY <1>1, AtCommand DEF Become, Sched, Alike
<1>3. list[c] = "start" => Next1 \in {0, 1, 6}
  <2>1. ASSUME list[c] = "start"
        PROVE  Next1 \in 0 .. 6 /\ (Next1 \in 1 .. 6 => Next1 \in {1, 6})
    <3>1. Next1 \in 0 .. 6
      BY <1>1, <2>1, NextStart
    <3>2. InList <=> Next1 \in 1 .. 6
      BY <2>1, StartList DEF InList
    <3> HIDE DEF Next1
    <3>3. Next1 \in 1 .. 6 => CommandList["start"][Next1] = "NULL"
      BY <1>1, <2>1, <3>2
    <3> QED
      BY <3>1, <3>3, StartList
  <2> HIDE DEF Next1
  <2> QED
    BY <2>1
<1>4. Going(c) /\ "FAILED" \in flags[c] => Next1 <= 3
  <2>1. Going(c) /\ "FAILED" \in flags[c] => list[c] = "start" /\ Next1 < 5
    BY <1>1, NextStart DEF Going
  <2> HIDE DEF Next1
  <2> QED
    BY <1>3, <2>1
<1>5. list[c] = "start" => Next1 # 4 /\ Next1 # 5
  <2> HIDE DEF Next1
  <2> QED
    BY <1>3
<1> QED
  BY <1>1, <1>2, <1>4, <1>5, QuietCommand

(* The creation is no command that is forked.                              *)
LEMMA NotCreation ==
  ASSUME IInv, NEW c \in Jails, c = cur, list[c] = "start",
         NEW x \in Command \cup {"STOP_TIMEOUT"}, Upcoming(x)
  PROVE  Next1 # 4 /\ x # "STOP_TIMEOUT"
<1>1. InList /\ CommandList["start"][Next1] = x /\ x # "OP"
  BY DEF Upcoming, Command
<1>2. Next1 \in 1 .. 6
  BY <1>1, StartList DEF InList
<1> HIDE DEF Next1
<1> QED
  BY <1>1, <1>2, StartList

(* A parameter without a command is passed over.                           *)
LEMMA PassCommandStops ==
  ASSUME IInv, SInv, NEW c \in Jails, c = cur, PassCommand
  PROVE  SInv'
<1>1. /\ pc = "command" /\ pc' = "command" /\ Advance
      /\ UNCHANGED <<flags, ndeps, seen, queue, ahead, jid, up, cur, given>>
  BY DEF PassCommand, Upcoming, sched
<1>2. Sched \in SchedType /\ Become(Sched) /\ Alike(Sched, Sched)
  BY <1>1, AtCommand DEF Become, Sched, Alike
<1>3. list[c] = "start" => Next1 # 4
  BY NotCreation DEF PassCommand
<1> QED
  BY <1>1, <1>2, <1>3, QuietCommand

(* A jail that is put to sleep keeps its operation.                        *)
LEMMA SleepAlike ==
  ASSUME IInv, NEW c \in Jails, c = cur
  PROVE  LET t == Requeue([Sched EXCEPT !.flags = [flags EXCEPT
                             ![cur] = @ \cup {"SLEEPQ"}]],
                          {cur}, "sleeping", {})
         IN  t \in SchedType /\ Alike(Sched, t) /\ t.queue[c] = "sleeping"
<1> DEFINE f == [flags EXCEPT ![cur] = @ \cup {"SLEEPQ"}]
           u == [Sched EXCEPT !.flags = f]
           t == Requeue(u, {cur}, "sleeping", {})
<1>1. /\ TypeOK /\ f \in [Jails -> SUBSET Flag]
      /\ \A k \in Jails : f[k] = flags[k] \/ f[k] = flags[k] \cup {"SLEEPQ"}
  BY DEF IInv, TypeOK, Flag
<1> HIDE DEF f
<1>2. \A k \in Jails : Ops(f[k]) = Ops(flags[k])
  BY <1>1 DEF Ops, OpFlag
<1>3. u \in SchedType /\ Alike(Sched, u)
  BY <1>1, <1>2, FlagsAlike
<1> HIDE DEF u
<1>4. "sleeping" \in Queue \ {"cfjails"}
  BY DEF Queue
<1>5. t \in SchedType /\ Alike(u, t) /\ t.queue[c] = "sleeping"
  BY <1>3, <1>4, RequeueAlike
<1> HIDE DEF t
<1>6. Alike(Sched, t)
  BY <1>3, <1>5, AlikeTrans
<1> QED
  BY <1>5, <1>6 DEF t, u, f

(* A command takes a slot, or fails before it is forked.                   *)
LEMMA RunCommandStops ==
  ASSUME IInv, SInv, NEW c \in Jails, c = cur, RunCommand
  PROVE  SInv'
<1>1. /\ pc = "command" /\ Advance /\ pc' = "next" /\ cur' = NoJail
      /\ UNCHANGED <<jid, up, given>>
  BY DEF RunCommand, Upcoming, Continue
<1>2. list[c] = "start" => Next1 # 4
  BY NotCreation DEF RunCommand
<1>3. \E t \in SchedType : /\ Become(t) /\ Alike(Sched, t)
                           /\ t.queue[c] \in {"sleeping", "ready"}
  <2>1. Sched \in SchedType
    BY <1>1, AtCommand
  <2>2. /\ Failed(Sched, cur) \in SchedType /\ Alike(Sched, Failed(Sched, cur))
        /\ Failed(Sched, cur).queue[c] = "ready"
    BY <2>1, FailedAlike
  <2>3. \/ Become(Requeue([Sched EXCEPT !.flags = [flags EXCEPT
                             ![cur] = @ \cup {"SLEEPQ"}]],
                          {cur}, "sleeping", {}))
        \/ Become(Failed(Sched, cur))
    BY DEF RunCommand
  <2> QED
    BY <2>2, <2>3, SleepAlike
<1>4. PICK t \in SchedType : /\ Become(t) /\ Alike(Sched, t)
                             /\ t.queue[c] \in {"sleeping", "ready"}
  BY <1>3
<1>5. queue'[c] # "cfjails"
  BY <1>4, BecomeType
<1> QED
  BY <1>1, <1>2, <1>4, <1>5, QuietCommand

(* Only a jail that stops has processes to wait for.                       *)
LEMMA TermProcsStops ==
  ASSUME IInv, SInv, NEW c \in Jails, c = cur, TermProcs
  PROVE  SInv'
<1>1. /\ pc = "command" /\ Advance /\ pc' \in {"command", "next"}
      /\ cur' = cur \/ cur' = NoJail
      /\ UNCHANGED <<jid, up, given>>
  BY DEF TermProcs, Upcoming, Continue
<1>2. list[c] # "start"
  BY NotCreation DEF TermProcs
<1>3. \E t \in SchedType : Become(t) /\ Alike(Sched, t)
  <2>1. Sched \in SchedType /\ Alike(Sched, Sched)
    BY <1>1, AtCommand DEF Alike
  <2>2. \/ Become(Requeue([Sched EXCEPT !.flags = [flags EXCEPT
                             ![cur] = @ \cup {"SLEEPQ"}]],
                          {cur}, "sleeping", {}))
        \/ Become(Sched)
    BY DEF TermProcs, sched, Become, Sched
  <2> QED
    BY <2>1, <2>2, SleepAlike
<1>4. PICK t \in SchedType : Become(t) /\ Alike(Sched, t)
  BY <1>3
<1> QED
  BY <1>1, <1>2, <1>4, QuietCommand

(* create_jail() of a jail that has not failed: nothing has put it up yet. *)
LEMMA CreateJailStops ==
  ASSUME IInv, SInv, NEW c \in Jails, c = cur, CreateJail
  PROVE  SInv'
<1>1. /\ pc = "command" /\ Advance /\ InList
      /\ CommandList[list[c]][Next1] = "OP" /\ given' = given
      /\ "STOP" \notin flags[c] /\ "FAILED" \notin flags[c]
  BY DEF CreateJail, Upcoming
<1>2. Going(c) /\ list[c] = "start"
  BY <1>1, CursorMoves DEF SInv, Half, Going
<1>3. Next1 = 4
  <2>1. Next1 \in 1 .. 6
    BY <1>1, <1>2, StartList DEF InList
  <2> HIDE DEF Next1
  <2> QED
    BY <1>1, <1>2, <2>1, StartList
<1>4. "remove" \notin Faults => c \notin up
  BY <1>1, <1>2, <1>3, NextStart
<1>5. /\ Sched \in SchedType /\ Sched.flags = flags
      /\ TRUE \in BOOLEAN /\ FALSE \in BOOLEAN /\ jid \in [Jails -> {-1, 0, 1}]
  BY <1>1, AtCommand DEF TypeOK
<1> HIDE DEF Next1
<1>6. CASE /\ up' = up \cup {c} /\ jid' = [jid EXCEPT ![c] = 1]
           /\ Become(DepDone(Sched, c, TRUE, FALSE))
           /\ pc' = pc /\ cur' = cur
  <2> DEFINE t == DepDone(Sched, c, TRUE, FALSE)
  <2>1. t \in SchedType /\ Alike(Sched, t) /\ t.flags = flags
    BY <1>1, <1>5, DepDoneAlike
  <2>2. Become(t)
    BY <1>6
  <2> HIDE DEF t
  <2>3. flags' = flags
    BY <2>1, <2>2, BecomeType
  <2>4. Active(c)'
    BY <1>1, <1>6 DEF Active, InLoop
  <2>5. /\ jid'[c] = 1
        /\ \A k \in Jails \ {c} : jid'[k] = jid[k] /\ (k \in up' => k \in up)
    BY <1>5, <1>6
  <2> QED
    BY <1>1, <1>2, <1>3, <1>6, <2>1, <2>2, <2>3, <2>4, <2>5, CommandStop
<1>7. CASE /\ jid' = [jid EXCEPT ![c] = -1] /\ up' = up
           /\ Become(Failed(Sched, c)) /\ Continue
  <2> DEFINE t == Failed(Sched, c)
  <2>1. t \in SchedType /\ Alike(Sched, t) /\ t.queue[c] = "ready"
    BY <1>5, FailedAlike
  <2>2. Become(t) /\ pc' = "next" /\ cur' = NoJail
    BY <1>7 DEF Continue
  <2> HIDE DEF t
  <2>3. Active(c)'
    BY <2>1, <2>2, BecomeType DEF Active
  <2>4. \A k \in Jails \ {c} : jid'[k] = jid[k] /\ (k \in up' => k \in up)
    BY <1>5, <1>7
  <2> QED
    BY <1>1, <1>2, <1>3, <1>4, <1>7, <2>1, <2>2, <2>3, <2>4, CommandStop
<1> QED
  BY <1>6, <1>7 DEF CreateJail

(* jail_remove(2): the jail is down behind it, or the kernel refused.      *)
LEMMA RemoveJailStops ==
  ASSUME IInv, SInv, NEW c \in Jails, c = cur, RemoveJail
  PROVE  SInv'
<1> DEFINE s == DepDone(Sched, c, TRUE, FALSE)
<1>1. pc = "command" /\ Advance /\ given' = given
  BY DEF RemoveJail, Upcoming
<1>2. /\ Sched \in SchedType /\ TRUE \in BOOLEAN /\ FALSE \in BOOLEAN
      /\ jid \in [Jails -> {-1, 0, 1}]
  BY <1>1, AtCommand DEF TypeOK
<1>3. CASE /\ up' = up \ ({c} \cup {k \in Jails : <<k, c>> \in Under})
           /\ jid' = [jid EXCEPT ![c] = -1]
           /\ Become(IF "STOP" \in flags[c] THEN s ELSE Sched)
           /\ pc' = pc /\ cur' = cur
  <2> DEFINE t == IF "STOP" \in flags[c] THEN s ELSE Sched
  <2>1. s \in SchedType /\ Alike(Sched, s) /\ Alike(Sched, Sched)
    BY <1>2, DepDoneAlike DEF Alike
  <2> HIDE DEF s
  <2>2. t \in SchedType /\ Alike(Sched, t) /\ Become(t)
    BY <1>2, <1>3, <2>1
  <2> HIDE DEF t
  <2>3. Active(c)'
    BY <1>1, <1>3 DEF Active, InLoop
  <2>4. /\ c \notin up'
        /\ \A k \in Jails \ {c} : jid'[k] = jid[k] /\ (k \in up' => k \in up)
    BY <1>2, <1>3
  <2> QED
    BY <1>1, <1>3, <2>2, <2>3, <2>4, CommandStop
<1>4. CASE /\ "remove" \in Faults /\ Become(Failed(Sched, c)) /\ Continue
           /\ jid' = jid /\ up' = up
  <2> DEFINE t == Failed(Sched, c)
  <2>1. t \in SchedType /\ Alike(Sched, t) /\ t.queue[c] = "ready"
    BY <1>2, FailedAlike
  <2>2. Become(t) /\ pc' = "next" /\ cur' = NoJail
    BY <1>4 DEF Continue
  <2> HIDE DEF t
  <2>3. Active(c)'
    BY <2>1, <2>2, BecomeType DEF Active
  <2> QED
    BY <1>1, <1>4, <2>1, <2>2, <2>3, CommandStop
<1> QED
  BY <1>3, <1>4 DEF RemoveJail

(* Every step of the main loop keeps the invariant.                        *)
LEMMA MainLoopStops ==
  ASSUME IInv, SInv, MainLoop
  PROVE  SInv'
<1>1. pc \in InLoop
  BY DEF MainLoop, SkipFailed, BadParams, RunningJid, FinishNothing,
     FinishCommand, Turn, TurnRestart, Exists, NotFound, WaitForOthers,
     BeginStart, BeginStop, AlreadyRuns, NotRunning, AbandonStop, Resume,
     Update, Done, WaitForSlot, EnterCommands, CommandsEnd, LeaveList,
     PassCommand, RunCommand, TermProcs, CreateJail, RemoveJail,
     Unblocked, MayCheck, Single, Upcoming, InLoop
<1>2. PICK c \in Jails : c = cur
  BY <1>1 DEF IInv, Owner
<1>3. CASE SkipFailed \/ BadParams \/ RunningJid \/ FinishNothing
             \/ FinishCommand
  BY <1>2, <1>3, SkipFailedStops, BadParamsStops, RunningJidStops,
     FinishNothingStops, FinishCommandStops
<1>4. CASE Turn \/ TurnRestart \/ Exists \/ NotFound \/ WaitForOthers
  <2>1. CASE Exists \/ NotFound
    BY <1>2, <2>1, RefuseStops DEF Exists, NotFound, Single
  <2> QED
    BY <1>2, <1>4, <2>1, TurnStops, WaitForOthersStops
<1>5. CASE BeginStart \/ BeginStop \/ AlreadyRuns \/ NotRunning \/ AbandonStop
             \/ Resume \/ Update \/ Done
  BY <1>2, <1>5, BeginStartStops, BeginStopStops, AlreadyRunsStops,
     NotRunningStops, ResumeStops, UpdateStops, DoneStops
<1>6. CASE WaitForSlot \/ EnterCommands \/ CommandsEnd \/ LeaveList
             \/ PassCommand \/ RunCommand \/ TermProcs \/ CreateJail
             \/ RemoveJail
  BY <1>2, <1>6, WaitForSlotStops, EnterCommandsStops, CommandsEndStops,
     PassCommandStops, RunCommandStops, TermProcsStops, CreateJailStops,
     RemoveJailStops
<1> QED
  BY <1>3, <1>4, <1>5, <1>6 DEF MainLoop

-----------------------------------------------------------------------------
(* next_jail(), the end and the steps before the main loop.                *)

(* The jail the main loop takes up is as it was left.                      *)
LEMMA TakeStops ==
  ASSUME IInv, SInv, NEW c \in Jails, queue[c] # "cfjails", pc = "next",
         NEW F \in {flags[c], flags[c] \cup {"TIMEOUT"}},
         Take(c, [flags EXCEPT ![c] = F]),
         UNCHANGED <<list, pos, jid, up, given>>
  PROVE  SInv'
<1> DEFINE t == Requeue([Sched EXCEPT !.flags = [flags EXCEPT ![c] = F]],
                        {c}, "cfjails", {})
           u == [Sched EXCEPT !.flags = [flags EXCEPT ![c] = F]]
<1>1. TypeOK
  BY DEF IInv
<1>2. /\ F \in SUBSET Flag
      /\ "FAILED" \in flags[c] => "FAILED" \in F
      /\ "SLEEPQ" \in flags[c] <=> "SLEEPQ" \in F
      /\ Ops(F) = Ops(flags[c])
      /\ "SET" \in F => "SET" \in flags[c]
  BY <1>1 DEF TypeOK, Flag, Ops, OpFlag
<1>3. /\ t \in SchedType
      /\ \A k \in Jails : t.queue[k] = IF k = c THEN "cfjails" ELSE queue[k]
  BY <1>1, <1>2, TakeFacts
<1>4. t.flags = [flags EXCEPT ![c] = F]
  <2>1. [flags EXCEPT ![c] = F] \in [Jails -> SUBSET Flag]
    BY <1>1, <1>2 DEF TypeOK
  <2>2. u \in SchedType /\ u.flags = [flags EXCEPT ![c] = F]
    BY <1>1, <2>1, SchedFlags
  <2> HIDE DEF u
  <2>3. "cfjails" \in Queue
    BY DEF Queue
  <2>4. Requeue(u, {c}, "cfjails", {}).flags = u.flags
    <3>1. Moved(u, Requeue(u, {c}, "cfjails", {}), {c}, "cfjails")
      BY <2>2, <2>3, RequeueOne
    <3> QED
      BY <3>1 DEF Moved
  <2> QED
    BY <2>2, <2>4 DEF u
<1>5. Become(t) /\ cur' = c /\ pc' = "begin"
  BY DEF Take
<1> HIDE DEF t
<1>6. flags' = [flags EXCEPT ![c] = F] /\ queue' = t.queue
  BY <1>3, <1>4, <1>5, BecomeType
<1>7. \A k \in Jails : Ops(flags'[k]) = Ops(flags[k])
  BY <1>1, <1>2, <1>6 DEF TypeOK
<1>8. \A k \in Jails : "STOP" \in flags'[k] <=> "STOP" \in flags[k]
  BY <1>7, InOps DEF OpFlag
<1>9. Asked'
  BY <1>7, AskedSame DEF SInv
<1>10. ASSUME NEW k \in Jails \ {c}
       PROVE  Half(k)'
  <2>1. Undisturbed(k)
    BY <1>3, <1>6, <1>8 DEF Undisturbed
  <2>2. pc \notin InLoop /\ k # cur' /\ Half(k)
    BY <1>5 DEF SInv, InLoop
  <2> QED
    BY <2>1, <2>2, HalfOther
<1>11. Half(c)'
  <2>1. Half(c) /\ Faults' = Faults
    BY DEF SInv, Faults
  <2>2. Going(c)' <=> Going(c)
    BY <1>8 DEF Going
  <2>3. Active(c)' /\ pc' # "done"
    BY <1>5 DEF Active, InLoop
  <2>4. pc # "command"
    OBVIOUS
  <2> QED
    BY <1>8, <2>1, <2>2, <2>3, <2>4 DEF Half
<1> QED
  BY <1>9, <1>10, <1>11 DEF SInv

(* next_jail() and next_proc() keep the invariant.                         *)
LEMMA NextJailStops ==
  ASSUME IInv, SInv, NEW j \in Jails,
         \/ \E bad \in BOOLEAN : CommandExits(j, bad)
         \/ CommandTimesOut(j)
         \/ NextReady(j)
  PROVE  SInv'
<1>1. /\ queue[j] # "cfjails" /\ pc = "next"
      /\ UNCHANGED <<list, pos, jid, up, given>>
  BY DEF CommandExits, CommandTimesOut, NextReady, coms
<1>2. flags = [flags EXCEPT ![j] = flags[j]]
  BY DEF IInv, TypeOK
<1>3. \/ Take(j, flags)
      \/ Take(j, [flags EXCEPT ![j] = flags[j] \cup {"TIMEOUT"}])
  BY DEF CommandExits, CommandTimesOut, NextReady
<1>4. CASE Take(j, flags)
  <2>1. Take(j, [flags EXCEPT ![j] = flags[j]])
    BY <1>2, <1>4
  <2> QED
    BY <1>1, <2>1, TakeStops
<1>5. CASE Take(j, [flags EXCEPT ![j] = flags[j] \cup {"TIMEOUT"}])
  BY <1>1, <1>5, TakeStops
<1> QED
  BY <1>3, <1>4, <1>5

(* A step outside the loop that leaves the jails alone does too.           *)
LEMMA QuietStops ==
  ASSUME SInv, UNCHANGED <<flags, queue, list, pos, jid, up, cur, given>>,
         pc' = pc \/ (pc = "next" /\ pc' = "exit")
  PROVE  SInv'
<1>1. Asked'
  BY AskedSame DEF SInv
<1>2. ASSUME NEW k \in Jails
      PROVE  Half(k)'
  <2>1. CASE pc' = pc
    BY <2>1 DEF SInv, Half, Going, Active, Faults
  <2>2. CASE pc = "next" /\ pc' = "exit"
    <3>1. Undisturbed(k) /\ pc \notin InLoop /\ pc' \notin InLoop /\ Half(k)
      BY <2>2 DEF Undisturbed, InLoop, SInv
    <3> QED
      BY <3>1, HalfOther
  <2> QED
    BY <2>1, <2>2
<1> QED
  BY <1>1, <1>2 DEF SInv

(* Before the main loop no jail has a command list: only Asked matters.    *)
LEMMA BeforeLoopStops ==
  ASSUME IInv, SInv, pc \in {"setup", "loops"}, pc' \in {"loops", "next"},
         UNCHANGED <<list, jid, up, given>>, Asked'
  PROVE  SInv'
<1>1. ASSUME NEW k \in Jails
      PROVE  Half(k)'
  <2>1. list[k] = "NULL" /\ Half(k)
    BY DEF IInv, Fresh, SInv
  <2>2. ~Going(k)' /\ list'[k] = "NULL"
    BY <2>1 DEF Going
  <2> QED
    BY <2>1, <2>2 DEF Half, Faults
<1> QED
  BY <1>1 DEF SInv

(* start_state() gives the jails of the command line the whole operation.  *)
LEMMA StartStateMarks ==
  ASSUME NEW s \in SchedType, NEW S \in Group,
         NEW ops \in SUBSET Flag, NEW all
  PROVE  \A k \in Jails :
           LET f == StartState(s, S, ops, all).flags[k]
           IN  f = s.flags[k] \/ f = (s.flags[k] \cap {"FAILED"}) \cup ops
<1> DEFINE t == StartState(s, S, ops, all)
<1>1. Launched(s, t, S, ops, all)
  BY StartStateWhole
<1> HIDE DEF t
<1>2. ASSUME NEW k \in Jails
      PROVE  t.flags[k] = s.flags[k] \/ t.flags[k] = (s.flags[k] \cap {"FAILED"}) \cup ops
  BY <1>1 DEF Launched
<1> QED
  BY <1>2 DEF t

(* dep_setup(), the loop check and start_state() keep the invariant.       *)
LEMMA SetupStops ==
  ASSUME IInv, SInv, given \in Given,
         DepSetup \/ (\E j \in Jails : LoopCheck(j)) \/ JailMain
  PROVE  SInv'
<1>1. /\ pc \in {"setup", "loops"} /\ pc' \in {"loops", "next"}
      /\ UNCHANGED <<list, jid, up, given>>
  BY DEF DepSetup, LoopCheck, JailMain, coms
<1>2. Op' = Op
  BY <1>1 DEF Op
<1>3. CASE DepSetup \/ \E j \in Jails : LoopCheck(j)
  <2>1. IInv' /\ pc' = "loops"
    BY <1>3, DepSetupStep, LoopCheckStep DEF DepSetup, LoopCheck
  <2>2. \A k \in Jails : "STOP" \notin flags'[k]
    BY <2>1 DEF IInv, Fresh
  <2>3. Asked'
    BY <2>2 DEF Asked
  <2> QED
    BY <1>1, <2>3, BeforeLoopStops
<1>4. CASE JailMain
  <2> DEFINE S == IF Target = "all" THEN Jails ELSE Named
             ops == Op \cup (IF Target = "named" THEN {} ELSE {"WILD"})
             all == (Target = "all")
             s == [Sched EXCEPT !.seen = {}]
             t == StartState(s, S, ops, all)
  <2>1. Become(t)
    BY <1>4 DEF JailMain
  <2>2. given \in GivenType
    BY CommandLineAssumption
  <2>3. S \in Group
    BY <2>2 DEF Named, GivenType, Group
  <2>4. /\ ops \in SUBSET Flag
        /\ "STOP" \in ops <=> "STOP" \in Op
        /\ "SET" \in Op => "SET" \in ops
    BY <2>2 DEF Op, GivenType, Flag, OpFlag
  <2>5. Sched \in SchedType /\ Sched.flags = flags
    BY SchedIn DEF IInv
  <2>6. s \in SchedType /\ s.flags = flags /\ all \in BOOLEAN
    BY <2>5 DEF SchedType
  <2> HIDE DEF s, S, ops, all
  <2>7. t \in SchedType
    BY <2>3, <2>4, <2>6, StartStateFacts
  <2>8. \A k \in Jails : \/ t.flags[k] = flags[k]
                         \/ t.flags[k] = (flags[k] \cap {"FAILED"}) \cup ops
    BY <2>3, <2>4, <2>6, StartStateMarks
  <2> HIDE DEF t
  <2>9. flags' = t.flags
    BY <2>1, <2>7, BecomeType
  <2>10. \A k \in Jails : flags[k] \in SUBSET {"FAILED"}
    BY <1>1 DEF IInv, Fresh
  <2>11. ASSUME "SET" \in Op, NEW k \in Jails, "STOP" \in flags'[k]
         PROVE  "STOP" \in Op /\ "SET" \in flags'[k]
    BY <2>4, <2>8, <2>9, <2>10, <2>11
  <2>12. Asked'
    BY <1>2, <2>11 DEF Asked
  <2> QED
    BY <1>1, <2>12, BeforeLoopStops
<1> QED
  BY <1>3, <1>4

-----------------------------------------------------------------------------
(* The theorems.                                                           *)

(* The invariant holds initially                                           *)
LEMMA InitSInv == Init => SInv
<1> SUFFICES ASSUME Init
             PROVE  SInv
  OBVIOUS
<1>1. \A k \in Jails : /\ flags[k] \in SUBSET {"FAILED"}
                       /\ list[k] = "NULL" /\ jid[k] = 0
  BY DEF Init
<1>2. \A k \in Jails : "STOP" \notin flags[k] /\ ~Going(k)
  BY <1>1 DEF Going
<1> QED
  BY <1>1, <1>2 DEF SInv, Asked, Half

(* and every step keeps it.                                                *)
LEMMA NextSInv == IInv /\ SInv /\ given \in Given /\ [Next]_vars => SInv'
<1> SUFFICES ASSUME IInv, SInv, given \in Given, [Next]_vars
             PROVE  SInv'
  OBVIOUS
<1>1. CASE DepSetup \/ (\E j \in Jails : LoopCheck(j)) \/ JailMain
  BY <1>1, SetupStops
<1>2. CASE \/ \E j \in Jails, bad \in BOOLEAN : CommandExits(j, bad)
           \/ \E j \in Jails : CommandTimesOut(j)
           \/ \E j \in Jails : NextReady(j)
  <2>1. PICK j \in Jails : \/ \E bad \in BOOLEAN : CommandExits(j, bad)
                           \/ CommandTimesOut(j)
                           \/ NextReady(j)
    BY <1>2
  <2> QED
    BY <2>1, NextJailStops
<1>3. CASE Exit \/ UNCHANGED vars
  BY <1>3, QuietStops DEF Exit, vars, sched, coms
<1>4. CASE MainLoop
  BY <1>4, MainLoopStops
<1> QED
  BY <1>1, <1>2, <1>3, <1>4 DEF Next

(* Whom a -m takes down has to be taken down, and no start is left half    *)
(* done, in every state.                                                   *)
THEOREM StopsInvariance == Spec => []SInv
<1>1. IInv /\ SInv /\ given \in Given /\ [Next]_vars => SInv'
  BY NextSInv
<1> QED
  BY InitSInv, Invariance, Rigid, <1>1, PTL DEF Spec

(* jail_remove(2) is the only step that takes a jail down.                 *)
LEMMA OnlyRemoveStops ==
  ASSUME [Next]_vars, NEW j \in up \ up'
  PROVE  RemoveJail
BY DEF Next, DepSetup, LoopCheck, JailMain, CommandExits, CommandTimesOut,
   NextReady, Exit, MainLoop, SkipFailed, BadParams, RunningJid,
   FinishNothing, FinishCommand, Turn, TurnRestart, TurnInto, Refuse, Exists,
   NotFound, WaitForOthers, BeginStart, BeginStop, Begin, AlreadyRuns,
   NotRunning, AbandonStop, Resume, Update, Done, WaitForSlot, EnterCommands,
   CommandsEnd, LeaveList, PassCommand, RunCommand, TermProcs, CreateJail,
   vars

(* A jail that -m takes down failed or is inside one that did, or -r was   *)
(* given too and a jail it depends on, is inside of or is has create-only  *)
(* parameters to change: jail_main() asks rdtun_params() before it makes a *)
(* restart of a set, and dep_check() draws in nobody else.                 *)
THEOREM TunedStop == Spec => OnlyTunedStop
<1>1. ASSUME IInv, SInv, [Next]_vars, NEW j \in up \ up', "SET" \in Op
      PROVE  \/ \E k \in Jails : /\ k = j \/ <<j, k>> \in Under
                                 /\ "FAILED" \in flags[k]
             \/ "STOP" \in Op /\ j \in Tuned
  <2>1. RemoveJail
    BY <1>1, OnlyRemoveStops
  <2>2. /\ pc = "command" /\ flags[cur] \cap {"STOP", "FAILED"} # {}
        /\ up' = up \ ({cur} \cup {k \in Jails : <<k, cur>> \in Under})
    BY <1>1, <2>1 DEF RemoveJail, Upcoming
  <2>3. j \in Jails /\ cur \in Jails
    BY <1>1, <2>2 DEF IInv, TypeOK, Owner, InLoop
  <2>4. j = cur \/ <<j, cur>> \in Under
    BY <1>1, <2>2
  <2>5. CASE "FAILED" \in flags[cur]
    BY <2>3, <2>4, <2>5
  <2>6. CASE "STOP" \in flags[cur]
    <3>1. "SET" \notin flags[cur]
      BY <2>2, <2>3, AtCommand, <1>1
    <3>2. "STOP" \in Op /\ cur \in Tuned
      BY <1>1, <2>3, <2>6, <3>1 DEF SInv, Asked
    <3>3. j \in Tuned
      BY <2>3, <2>4, <3>2, TunedInside
    <3> QED
      BY <3>2, <3>3
  <2> QED
    BY <2>2, <2>5, <2>6
<1>2. IInv /\ SInv /\ [Next]_vars =>
        [\A j \in up \ up' : "SET" \in Op =>
           \/ \E k \in Jails : /\ k = j \/ <<j, k>> \in Under
                               /\ "FAILED" \in flags[k]
           \/ "STOP" \in Op /\ j \in Tuned]_vars
  BY <1>1
<1> QED
  BY <1>2, Invariance, StopsInvariance, PTL DEF Spec, OnlyTunedStop

(* A jail whose start fails has undone its commands when the loop is done  *)
(* with it, and one that is up at the exit has gone through all of them:   *)
(* next_command() takes a failed jail backwards from wherever it is.       *)
THEOREM StartsUndone == Spec => []NoneHalfStarted
<1>1. ASSUME IInv, SInv, "remove" \notin Faults, NEW j \in up,
             list[j] = "start", "STOP" \notin flags[j]
      PROVE  /\ pc = "done" /\ cur = j => "FAILED" \notin flags[j]
             /\ pc = "exit" /\ queue[j] = "cfjails" => Through(j)
  <2>1. /\ j \in Jails /\ pos[j] \in 0 .. Len(StopCommands) /\ Half(j)
        /\ Going(j)
    BY <1>1 DEF IInv, TypeOK, SInv, Going
  <2>2. pos[j] \in Int /\ ~(pos[j] <= 3) /\ pos[j] <= 6
    BY <1>1, <2>1, StopLength DEF Half
  <2>3. pc = "done" /\ cur = j => "FAILED" \notin flags[j]
    BY <1>1, <2>1 DEF Half
  <2>4. ASSUME pc = "exit", queue[j] = "cfjails"
        PROVE  Through(j)
    <3>1. ~Active(j)
      BY <2>4 DEF Active, InLoop
    <3>2. pos[j] # 4 /\ pos[j] # 5
      BY <2>1, <3>1 DEF Half
    <3>3. pos[j] = 6
      BY <2>2, <3>2
    <3> QED
      BY <1>1, <3>3, StartList DEF Through
  <2> QED
    BY <2>3, <2>4
<1>2. IInv /\ SInv => NoneHalfStarted
  BY <1>1 DEF NoneHalfStarted
<1> QED
  BY <1>2, Invariance, StopsInvariance, PTL

-----------------------------------------------------------------------------
(* The inductive invariant.                                                *)

(* The edges of the jails that j depends on.                               *)
Needs(j) == {e \in Edge : Deps[e].from = j}

(* Jails are only started, and the count of one that is asked to start is  *)
(* no less than the number of its edges that are not seen.                 *)
Ordered(s) ==
  \A k \in Jails :
    /\ Ops(s.flags[k]) \in SUBSET {"START"}
    /\ "START" \in s.flags[k] => s.ndeps[k] >= Cardinality(Needs(k) \ s.seen)

(* A jail that is not done with.                                           *)
Held(j) == queue[j] # "cfjails" \/ (j = cur /\ pc \in InLoop)

Begun == pc \notin {"setup", "loops"}

(* A jail whose start has come to its end and has not failed.              *)
Served(d) == "START" \in flags[d] /\ ~Held(d) /\ jid[d] = 1 /\ Through(d)

(* Why an edge is seen.                                                    *)
Known(e) ==
  Deps[e].light \/ "FAILED" \in flags[Deps[e].from] \/ Served(Deps[e].to)

(* All that j depends on, but for the jails it is inside of, is seen.      *)
Met(j) == \A e \in Needs(j) : Deps[e].light \/ e \in seen

(* A jail on its way has what it depends on, and is looked up behind its   *)
(* creation; one that is looked up is there, or was taken down.            *)
Fit(j) ==
  /\ list[j] # "stop"
  /\ list[j] # "NULL" /\ "FAILED" \notin flags[j] =>
       Met(j) /\ (pos[j] >= 4 => jid[j] = 1)
  /\ jid[j] = 1 => j \in up \/ Taken(j)

(* The jail in hand is on cfjails, and comes to its end with its commands. *)
InHand ==
  /\ pc \in InLoop => queue[cur] = "cfjails"
  /\ pc = "done" /\ "FAILED" \notin flags[cur] => Through(cur) /\ jid[cur] = 1

OInv ==
  /\ Ordered(Sched)
  /\ Begun => \A j \in Jails : Held(j) => "START" \in flags[j]
  /\ Begun => \A e \in seen : Known(e)
  /\ \A j \in Jails : Fit(j)
  /\ InHand
  /\ pc = "setup" => \A j \in Jails : queue[j] = "cfjails"

-----------------------------------------------------------------------------
(* What the functions of state.c do to the order.                          *)

(* From s to t no edge is forgotten, no order to start and no failure, and *)
(* no jail but c that is done with is taken up again.                      *)
Grows(s, t, c) ==
  /\ \A e \in s.seen : e \in t.seen
  /\ \A k \in Jails :
       /\ "START" \in s.flags[k] => "START" \in t.flags[k]
       /\ "FAILED" \in s.flags[k] => "FAILED" \in t.flags[k]
       /\ k # c /\ t.queue[k] # "cfjails" =>
            \/ s.queue[k] # "cfjails"
            \/ "START" \notin s.flags[k] /\ "START" \in t.flags[k]

(* The edges of a jail are counted.                                        *)
LEMMA NeedsCount ==
  ASSUME NEW j, NEW S
  PROVE  IsFiniteSet(Needs(j) \ S) /\ Cardinality(Needs(j) \ S) \in Nat
<1>1. Needs(j) \ S \in SUBSET Edge
  BY DEF Needs
<1> QED
  BY <1>1, EdgesFinite, FS_Subset, FS_CardinalityType

(* A jail that can only start waits for what it depends on, and what       *)
(* depends on it waits for it.                                             *)
LEMMA StartsWaits ==
  ASSUME NEW f, Ops(f) \in SUBSET {"START"}, NEW j
  PROVE  /\ "SET" \notin f /\ "STOP" \notin f /\ ~DoStop(f)
         /\ Waits(f, j) = Needs(j)
         /\ Frees(f, j) = {e \in Edge : Deps[e].to = j}
<1>1. "SET" \notin f /\ "STOP" \notin f
  BY DEF Ops, OpFlag
<1>2. ~DoStop(f)
  BY <1>1 DEF DoStop
<1>3. Waits(f, j) = {e \in Edge : j = Deps[e].from}
  BY <1>2 DEF Waits
<1>4. Frees(f, j) = {e \in Edge : j = Deps[e].to}
  BY <1>2 DEF Frees
<1> QED
  BY <1>1, <1>2, <1>3, <1>4 DEF Needs

(* What changes no operation and no count, and takes up no other jail.     *)
LEMMA SameOrder ==
  ASSUME NEW s \in SchedType, NEW t \in SchedType, NEW c, Ordered(s),
         t.ndeps = s.ndeps, t.seen = s.seen,
         \A k \in Jails :
           /\ Ops(t.flags[k]) = Ops(s.flags[k])
           /\ "FAILED" \in s.flags[k] => "FAILED" \in t.flags[k]
           /\ k # c /\ t.queue[k] # "cfjails" => s.queue[k] # "cfjails"
  PROVE  Ordered(t) /\ Grows(s, t, c)
<1>1. \A k \in Jails : "START" \in t.flags[k] <=> "START" \in s.flags[k]
  BY InOps DEF OpFlag
<1> QED
  BY <1>1 DEF Ordered, Grows

(* Two changes that keep the order keep it.                                *)
LEMMA GrowsTrans ==
  ASSUME NEW s, NEW t, NEW u, NEW c, Grows(s, t, c), Grows(t, u, c)
  PROVE  Grows(s, u, c)
BY DEF Grows

(* failed() keeps the order.                                               *)
LEMMA FailedOrder ==
  ASSUME NEW s \in SchedType, NEW c \in Jails, Ordered(s)
  PROVE  LET t == Failed(s, c)
         IN  /\ t \in SchedType /\ Ordered(t) /\ Grows(s, t, c)
             /\ "FAILED" \in t.flags[c] /\ t.seen = s.seen
<1> DEFINE t == Failed(s, c)
<1>1. /\ t \in SchedType
      /\ t.flags = [s.flags EXCEPT ![c] = @ \cup {"FAILED"}]
      /\ t.ndeps = s.ndeps /\ t.seen = s.seen
      /\ \A k \in Jails :
           t.queue[k] = IF k = c THEN "ready" ELSE s.queue[k]
  BY FailedFacts
<1> HIDE DEF t
<1>2. s.flags \in [Jails -> SUBSET Flag]
  BY DEF SchedType
<1>3. \A k \in Jails : \/ t.flags[k] = s.flags[k]
                       \/ t.flags[k] = s.flags[k] \cup {"FAILED"}
  BY <1>1, <1>2
<1>4. \A k \in Jails : Ops(t.flags[k]) = Ops(s.flags[k])
  BY <1>3, FailedNoOp
<1>5. Ordered(t) /\ Grows(s, t, c)
  BY <1>1, <1>3, <1>4, SameOrder
<1>6. "FAILED" \in t.flags[c]
  BY <1>1, <1>2
<1> QED
  BY <1>1, <1>5, <1>6 DEF t

(* From s to t the edges to c are seen, and of a failure those who wait    *)
(* for it are told.                                                        *)
Tells(s, t, c, light) ==
  /\ t \in SchedType /\ Ordered(t) /\ Grows(s, t, c)
  /\ s.queue[c] = "cfjails" => t.queue[c] = "cfjails"
  /\ "FAILED" \notin s.flags[c] => t.flags = s.flags
  /\ \A e \in t.seen \ s.seen :
       /\ e \in Edge /\ Deps[e].to = c
       /\ light => Deps[e].light
       /\ "FAILED" \in s.flags[c] => "FAILED" \in t.flags[Deps[e].from]

(* dep_done() counts down the jails that it tells of an edge; those it     *)
(* does not tell of a success it fails.                                    *)
LEMMA DepDoneOrder ==
  ASSUME NEW s \in SchedType, NEW c \in Jails, NEW light \in BOOLEAN,
         Ordered(s)
  PROVE  Tells(s, DepDone(s, c, light, FALSE), c, light)
<1> DEFINE t == DepDone(s, c, light, FALSE)
           new == Resolved(s, c, light)
<1>1. Announced(s, t, c, light, FALSE)
  BY DepDoneWhole
<1>2. Alike(s, t) /\ ("FAILED" \notin s.flags[c] => t.flags = s.flags)
  BY DepDoneAlike
<1> HIDE DEF t
<1>3. t \in SchedType /\ t.seen = s.seen \cup new
  BY <1>1 DEF Announced
<1>4. Ops(s.flags[c]) \in SUBSET {"START"}
  BY DEF Ordered
<1>5. \A e \in new : /\ e \in Edge /\ Deps[e].to = c /\ e \notin s.seen
                     /\ light => Deps[e].light
  BY <1>4, StartsWaits DEF Resolved
<1>6. \A k \in Jails : Told(s, c, light, k) = {e \in new : Deps[e].from = k}
  BY <1>5 DEF Told, Far
<1>7. "FAILED" \in s.flags[c] => Spreads(s.flags[c])
  <2>1. "SET" \notin s.flags[c]
    BY <1>4, StartsWaits
  <2> QED
    BY <2>1 DEF Spreads
<1>8. ASSUME NEW k \in Jails
      PROVE  /\ t.ndeps[k] = s.ndeps[k] - Cardinality(Told(s, c, light, k))
             /\ \/ t.flags[k] = s.flags[k]
                \/ t.flags[k] = s.flags[k] \cup {"FAILED"}
             /\ Told(s, c, light, k) # {} /\ "FAILED" \in s.flags[c] =>
                  "FAILED" \in t.flags[k]
             /\ t.queue[k] # "cfjails" => s.queue[k] # "cfjails"
  BY <1>1, <1>7 DEF Announced
<1> HIDE DEF new
<1>9. ASSUME NEW e \in t.seen \ s.seen
      PROVE  /\ e \in Edge /\ Deps[e].to = c
             /\ light => Deps[e].light
             /\ "FAILED" \in s.flags[c] => "FAILED" \in t.flags[Deps[e].from]
  <2>1. e \in new /\ e \in Edge /\ Deps[e].from \in Jails
    BY <1>3, <1>5, EdgeEnds
  <2>2. Told(s, c, light, Deps[e].from) # {}
    BY <1>6, <2>1
  <2> QED
    BY <1>5, <1>8, <2>1, <2>2
<1>10. Grows(s, t, c)
  BY <1>3, <1>8 DEF Grows
<1>11. ASSUME NEW k \in Jails
       PROVE  /\ Ops(t.flags[k]) = Ops(s.flags[k])
              /\ "START" \in t.flags[k] <=> "START" \in s.flags[k]
  BY <1>2, InOps DEF Alike, OpFlag
<1>12. ASSUME NEW k \in Jails, "START" \in t.flags[k]
       PROVE  t.ndeps[k] >= Cardinality(Needs(k) \ t.seen)
  <2> DEFINE left == Needs(k) \ s.seen
             told == Told(s, c, light, k)
  <2>1. left \cap told = told /\ Needs(k) \ t.seen = left \ told
    BY <1>3, <1>5, <1>6 DEF Needs
  <2>2. told \in SUBSET Edge
    BY <1>5, <1>6
  <2>3. IsFiniteSet(left) /\ Cardinality(left) \in Nat
    BY NeedsCount
  <2>4. Cardinality(told) \in Nat
    BY <2>2, EdgeCount
  <2>5. s.ndeps[k] \in Int /\ s.ndeps[k] >= Cardinality(left)
    BY <1>11, <1>12 DEF Ordered, SchedType
  <2> HIDE DEF left, told
  <2>6. Cardinality(left \ told) = Cardinality(left) - Cardinality(left \cap told)
    BY <2>3, FS_Difference
  <2>7. t.ndeps[k] = s.ndeps[k] - Cardinality(told)
    BY <1>8 DEF told
  <2> QED
    BY <2>1, <2>3, <2>4, <2>5, <2>6, <2>7
<1>13. Ordered(t)
  BY <1>11, <1>12 DEF Ordered
<1> QED
  BY <1>2, <1>3, <1>8, <1>9, <1>10, <1>13 DEF t, Tells

(* From s to t what c waits for is asked to start; when nothing holds c    *)
(* back and none of them has failed, it has seen all its edges but the     *)
(* light ones.                                                             *)
Asks(s, t, c) ==
  /\ t \in SchedType /\ Ordered(t) /\ Grows(s, t, c)
  /\ t.seen = s.seen
  /\ ~Blocked(s, c) => t.queue[c] = s.queue[c]
  /\ ~Blocked(s, c) /\ "FAILED" \notin t.flags[c] =>
       \A e \in Needs(c) : Deps[e].light \/ e \in s.seen

(* dep_check() of a jail that starts asks those it waits for to start, and *)
(* counts the edges of each that had nothing to do.                        *)
LEMMA DepCheckOrder ==
  ASSUME NEW s \in SchedType, NEW c \in Jails, Ordered(s),
         "START" \in s.flags[c]
  PROVE  Asks(s, DepCheck(s, c), c)
<1> DEFINE t == DepCheck(s, c)
<1>1. Drew(s, t, c)
  BY DepCheckWhole
<1> HIDE DEF t
<1>2. t \in SchedType /\ t.seen = s.seen
  BY <1>1 DEF Drew
<1>3. "STOP" \notin s.flags[c] /\ Waits(s.flags[c], c) = Needs(c)
  BY StartsWaits DEF Ordered
<1>4. ASSUME NEW k \in Jails
      PROVE  /\ Ops(NewFlags(s, c, k)) \in SUBSET {"START"}
             /\ "START" \in s.flags[k] => "START" \in NewFlags(s, c, k)
             /\ "FAILED" \in s.flags[k] => "FAILED" \in NewFlags(s, c, k)
             /\ k \in Idlers(s, c) <=>
                  "START" \notin s.flags[k] /\ "START" \in NewFlags(s, c, k)
  <2>1. "START" \in s.flags[k] => Ops(s.flags[k]) # {}
    BY DEF Ops, OpFlag
  <2>2. Ops(s.flags[k]) \in SUBSET {"START"}
    BY DEF Ordered
  <2>3. Drawn(s.flags[c], s.flags[k]) = s.flags[k] \cup {"START"}
    BY <1>3 DEF Drawn
  <2>4. Ops(NewFlags(s, c, k)) = Ops(IF k \in Called(s, c)
                                       THEN s.flags[k] \cup {"START"}
                                       ELSE s.flags[k])
    BY <2>3, NewFlagsFacts
  <2>5. Ops(s.flags[k] \cup {"START"}) = {"START"}
    BY <2>2 DEF Ops, OpFlag
  <2>6. "START" \in NewFlags(s, c, k) <=> "START" \in Ops(NewFlags(s, c, k))
    BY InOps DEF OpFlag
  <2>7. "START" \in s.flags[k] <=> "START" \in Ops(s.flags[k])
    BY InOps DEF OpFlag
  <2>8. Ops(s.flags[k]) = {} <=> "START" \notin s.flags[k]
    BY <2>1, <2>2, <2>7
  <2>9. k \in Idlers(s, c) <=> k \in Called(s, c) /\ Ops(s.flags[k]) = {}
    BY DEF Idlers
  <2>10. "FAILED" \in s.flags[k] => "FAILED" \in NewFlags(s, c, k)
    BY NewFlagsFacts
  <2> QED
    BY <2>2, <2>4, <2>5, <2>6, <2>7, <2>8, <2>9, <2>10
<1>5. Recounted(s, c) = Idlers(s, c)
  BY <1>3 DEF Recounted
<1>6. ASSUME NEW k \in Jails
      PROVE  /\ t.flags[k] = NewFlags(s, c, k)
             /\ t.ndeps[k] = IF k \in Idlers(s, c)
                               THEN Cardinality(Waits(t.flags[k], k))
                               ELSE s.ndeps[k]
             /\ t.queue[k] = IF k = c /\ Blocked(s, c) THEN "depend"
                             ELSE IF k \in Idlers(s, c) THEN "ready"
                             ELSE s.queue[k]
  BY <1>1, <1>5 DEF Drew
<1>7. Grows(s, t, c)
  BY <1>2, <1>4, <1>6 DEF Grows
<1>8. ASSUME NEW k \in Jails, "START" \in t.flags[k]
      PROVE  t.ndeps[k] >= Cardinality(Needs(k) \ t.seen)
  <2>1. CASE k \in Idlers(s, c)
    <3>1. Waits(t.flags[k], k) = Needs(k)
      BY <1>4, <1>6, StartsWaits
    <3>2. t.ndeps[k] = Cardinality(Needs(k))
      BY <1>6, <2>1, <3>1
    <3>3. Needs(k) \in SUBSET Edge /\ Needs(k) \ {} = Needs(k)
      BY DEF Needs
    <3>4. IsFiniteSet(Needs(k)) /\ Cardinality(Needs(k)) \in Nat
      BY <3>3, NeedsCount
    <3>5. Cardinality(Needs(k) \ t.seen) <= Cardinality(Needs(k))
      BY <3>4, FS_Subset
    <3>6. Cardinality(Needs(k) \ t.seen) \in Nat
      BY NeedsCount
    <3> QED
      BY <3>2, <3>4, <3>5, <3>6
  <2>2. CASE k \notin Idlers(s, c)
    BY <1>2, <1>4, <1>6, <1>8, <2>2 DEF Ordered
  <2> QED
    BY <2>1, <2>2
<1>9. Ordered(t)
  BY <1>4, <1>6, <1>8 DEF Ordered
<1>10. c \notin Idlers(s, c)
  BY <1>4
<1>11. ASSUME ~Blocked(s, c), "FAILED" \notin t.flags[c],
              NEW e \in Needs(c), ~Deps[e].light
       PROVE  e \in s.seen
  <2>1. ~Lost(s, c)
    BY <1>6, <1>11 DEF NewFlags
  <2>2. e \notin Pending(s, c)
    BY <1>11, <2>1 DEF Blocked, Lost
  <2>3. CASE s.ndeps[c] # 0
    BY <1>3, <1>11, <2>2, <2>3 DEF Pending
  <2>4. CASE s.ndeps[c] = 0
    <3>1. IsFiniteSet(Needs(c) \ s.seen) /\ Cardinality(Needs(c) \ s.seen) \in Nat
      BY NeedsCount
    <3>2. 0 >= Cardinality(Needs(c) \ s.seen)
      BY <2>4 DEF Ordered
    <3>3. Cardinality(Needs(c) \ s.seen) = 0
      BY <3>1, <3>2
    <3>4. Needs(c) \ s.seen = {}
      BY <3>1, <3>3, FS_EmptySet
    <3> QED
      BY <1>11, <3>4
  <2> QED
    BY <2>3, <2>4
<1> QED
  BY <1>2, <1>6, <1>7, <1>9, <1>10, <1>11 DEF t, Asks

-----------------------------------------------------------------------------
(* One step of the main loop.                                              *)

(* What is in order is in order as the scheduler's state.                  *)
LEMMA BecomeOrder ==
  ASSUME NEW t, Become(t), Ordered(t)
  PROVE  Ordered(Sched)'
BY DEF Become, Ordered, Sched

(* What a step that grows does to the variables.                           *)
LEMMA BecomeGrows ==
  ASSUME NEW t, NEW c, Become(t), Grows(Sched, t, c)
  PROVE  /\ \A e \in seen : e \in seen'
         /\ \A k \in Jails :
              /\ "START" \in flags[k] => "START" \in flags'[k]
              /\ "FAILED" \in flags[k] => "FAILED" \in flags'[k]
              /\ k # c /\ queue'[k] # "cfjails" =>
                   \/ queue[k] # "cfjails"
                   \/ "START" \notin flags[k] /\ "START" \in flags'[k]
BY DEF Become, Grows, Sched

(* It is enough to look at the jail the loop holds, or takes up, and at    *)
(* the edges that it sees.                                                 *)
LEMMA OrderStep ==
  ASSUME IInv, OInv, Begun, Begun', NEW c \in Jails, Held(c),
         NEW t \in SchedType, Become(t), Ordered(t), Grows(Sched, t, c),
         pc \in InLoop => c = cur,
         cur' = c \/ pc' \notin InLoop,
         \A k \in Jails \ {c} : /\ list'[k] = list[k] /\ pos'[k] = pos[k]
                                /\ jid'[k] = jid[k]
                                /\ k \in up => k \in up' \/ Taken(k)',
         \A e \in t.seen \ seen : Known(e)',
         Fit(c)',
         pc' \in InLoop => queue'[c] = "cfjails",
         pc' = "done" /\ "FAILED" \notin flags'[c] =>
           Through(c)' /\ jid'[c] = 1
  PROVE  OInv'
<1>1. /\ \A e \in seen : e \in seen'
      /\ \A k \in Jails :
           /\ "START" \in flags[k] => "START" \in flags'[k]
           /\ "FAILED" \in flags[k] => "FAILED" \in flags'[k]
           /\ k # c /\ queue'[k] # "cfjails" =>
                \/ queue[k] # "cfjails"
                \/ "START" \notin flags[k] /\ "START" \in flags'[k]
  BY BecomeGrows
<1>2. Ordered(Sched)'
  BY BecomeOrder
<1>3. \A k \in Jails : Held(k) => "START" \in flags[k]
  BY DEF OInv
<1>4. ASSUME NEW k \in Jails, Held(k)'
      PROVE  "START" \in flags'[k]
  <2>1. CASE k = c
    BY <1>1, <1>3, <2>1
  <2>2. CASE k # c
    <3>1. queue'[k] # "cfjails"
      BY <1>4, <2>2 DEF Held
    <3> QED
      BY <1>1, <1>3, <2>2, <3>1 DEF Held
  <2> QED
    BY <2>1, <2>2
<1>5. ASSUME NEW d \in Jails, Served(d)
      PROVE  Served(d)'
  <2>1. d # c /\ queue[d] = "cfjails" /\ "START" \in flags[d]
    BY <1>5 DEF Served, Held
  <2>2. queue'[d] = "cfjails" /\ "START" \in flags'[d]
    BY <1>1, <2>1
  <2>3. ~Held(d)'
    BY <2>1, <2>2 DEF Held
  <2>4. jid'[d] = 1 /\ Through(d)'
    BY <1>5, <2>1 DEF Served, Through
  <2> QED
    BY <2>2, <2>3, <2>4 DEF Served
<1>6. ASSUME NEW e \in seen'
      PROVE  Known(e)'
  <2>1. CASE e \in seen
    <3>1. e \in Edge
      BY <2>1 DEF IInv, TypeOK
    <3>2. Known(e)
      BY <2>1 DEF OInv
    <3>3. Deps[e].from \in Jails /\ Deps[e].to \in Jails
      BY <3>1, EdgeEnds
    <3> QED
      BY <1>1, <1>5, <3>2, <3>3 DEF Known
  <2>2. CASE e \notin seen
    BY <1>6, <2>2 DEF Become
  <2> QED
    BY <2>1, <2>2
<1>7. ASSUME NEW k \in Jails
      PROVE  Fit(k)'
  <2>1. CASE k = c
    BY <2>1
  <2>2. CASE k # c
    <3>1. Fit(k)
      BY DEF OInv
    <3>2. Met(k) => Met(k)'
      BY <1>1 DEF Met
    <3>3. Taken(k) => Taken(k)'
      BY <1>1 DEF Taken
    <3>4. jid'[k] = 1 => k \in up' \/ Taken(k)'
      BY <2>2, <3>1, <3>3 DEF Fit
    <3>5. /\ list'[k] # "stop"
          /\ list'[k] # "NULL" /\ "FAILED" \notin flags'[k] =>
               Met(k)' /\ (pos'[k] >= 4 => jid'[k] = 1)
      BY <1>1, <2>2, <3>1, <3>2 DEF Fit
    <3> QED
      BY <3>4, <3>5 DEF Fit
  <2> QED
    BY <2>1, <2>2
<1>8. InHand'
  <2>1. pc' \in InLoop => cur' = c
    OBVIOUS
  <2>2. pc' = "done" => pc' \in InLoop
    BY DEF InLoop
  <2> QED
    BY <2>1, <2>2 DEF InHand
<1> QED
  BY <1>2, <1>4, <1>6, <1>7, <1>8 DEF OInv, Begun

(* The jail the loop holds is to be started, and nothing else.             *)
LEMMA InHandFacts ==
  ASSUME IInv, OInv, NEW c \in Jails, c = cur, pc \in InLoop
  PROVE  /\ Begun /\ Held(c) /\ TypeOK
         /\ Sched \in SchedType /\ Ordered(Sched)
         /\ Sched.flags = flags /\ Sched.queue = queue /\ Sched.seen = seen
         /\ queue[c] = "cfjails" /\ "START" \in flags[c]
         /\ "SET" \notin flags[c] /\ "STOP" \notin flags[c]
         /\ ~DoStop(flags[c])
<1>1. Begun /\ Held(c)
  BY DEF Begun, Held, InLoop
<1>2. TypeOK
  BY DEF IInv
<1>3. /\ Sched \in SchedType /\ Sched.flags = flags
      /\ Sched.queue = queue /\ Sched.seen = seen
  BY <1>2, SchedIn DEF Sched
<1>4. Ordered(Sched) /\ queue[c] = "cfjails" /\ "START" \in flags[c]
  BY <1>1 DEF OInv, InHand
<1>5. Ops(flags[c]) \in SUBSET {"START"}
  BY <1>3, <1>4 DEF Ordered
<1> QED
  BY <1>1, <1>2, <1>3, <1>4, <1>5, StartsWaits

(* Steps that move no command cursor, look nothing up and see no edge.     *)
LEMMA CalmOrder ==
  ASSUME IInv, OInv, NEW c \in Jails, c = cur, pc \in InLoop, Begun',
         NEW t \in SchedType, Become(t), Ordered(t), Grows(Sched, t, c),
         t.seen = seen,
         UNCHANGED <<coms, jid, up>>,
         cur' = cur \/ pc' \notin InLoop,
         pc' \in InLoop => queue'[c] = "cfjails",
         pc' = "done" => list[c] = "NULL" /\ jid[c] = 1
  PROVE  OInv'
<1>1. Begun /\ Held(c)
  BY InHandFacts
<1>2. list' = list /\ pos' = pos
  BY DEF coms
<1>3. /\ \A e \in seen : e \in seen'
      /\ \A k \in Jails : "FAILED" \in flags[k] => "FAILED" \in flags'[k]
  BY BecomeGrows
<1>4. Fit(c)'
  <2>1. Fit(c)
    BY DEF OInv
  <2>2. Met(c) => Met(c)'
    BY <1>3 DEF Met
  <2>3. Taken(c) => Taken(c)'
    BY <1>3 DEF Taken
  <2> QED
    BY <1>2, <1>3, <2>1, <2>2, <2>3 DEF Fit
<1>5. pc' = "done" => Through(c)' /\ jid'[c] = 1
  BY <1>2 DEF Through
<1>6. \A e \in t.seen \ seen : Known(e)'
  OBVIOUS
<1> QED
  BY <1>1, <1>2, <1>4, <1>5, <1>6, OrderStep

(* A jail that fails leaves the loop.                                      *)
LEMMA FailedLeavesOrder ==
  ASSUME IInv, OInv, NEW c \in Jails, c = cur, pc \in InLoop,
         NEW u \in SchedType, Ordered(u), Grows(Sched, u, c), u.seen = seen,
         Become(Failed(u, c)), Continue, UNCHANGED <<coms, jid, up>>
  PROVE  OInv'
<1> DEFINE t == Failed(u, c)
<1>1. /\ t \in SchedType /\ Ordered(t) /\ Grows(u, t, c)
      /\ t.seen = u.seen /\ Become(t)
  BY FailedOrder
<1> HIDE DEF t
<1>2. Grows(Sched, t, c)
  BY <1>1, GrowsTrans
<1>3. pc' \notin InLoop /\ pc' # "done" /\ Begun'
  BY DEF Continue, InLoop, Begun
<1> QED
  BY <1>1, <1>2, <1>3, CalmOrder

(* A change of the flags of jails that leaves their operations.            *)
LEMMA FlagsOrder ==
  ASSUME IInv, OInv, NEW c \in Jails, NEW f \in [Jails -> SUBSET Flag],
         \A k \in Jails : /\ Ops(f[k]) = Ops(flags[k])
                          /\ "FAILED" \in flags[k] => "FAILED" \in f[k]
  PROVE  LET t == [Sched EXCEPT !.flags = f]
         IN  /\ t \in SchedType /\ Ordered(t) /\ Grows(Sched, t, c)
             /\ t.seen = seen /\ t.flags = f /\ t.queue = queue
<1> DEFINE t == [Sched EXCEPT !.flags = f]
<1>1. TypeOK /\ Ordered(Sched)
  BY DEF IInv, OInv
<1>2. Sched \in SchedType /\ Sched.flags = flags /\ Sched.queue = queue
  BY <1>1, SchedIn
<1>3. Sched.seen = seen
  BY DEF Sched
<1>4. /\ t \in SchedType /\ t.flags = f /\ t.queue = Sched.queue
      /\ t.ndeps = Sched.ndeps /\ t.seen = Sched.seen
  BY <1>2, SetFlags
<1> HIDE DEF t
<1>5. Ordered(t) /\ Grows(Sched, t, c)
  BY <1>1, <1>2, <1>4, SameOrder
<1> QED
  BY <1>2, <1>3, <1>4, <1>5 DEF t
-----------------------------------------------------------------------------
(* The head of the main loop.                                              *)

(* What waits for a failed jail is told, and fails.                        *)
LEMMA SkipFailedOrder ==
  ASSUME IInv, OInv, NEW c \in Jails, c = cur, SkipFailed
  PROVE  OInv'
<1> DEFINE t == DepDone(Sched, c, FALSE, FALSE)
<1>1. pc \in InLoop /\ "FAILED" \in flags[c] /\ Become(t) /\ Continue
  BY DEF SkipFailed, InLoop
<1>2. /\ Begun /\ Held(c) /\ Sched \in SchedType /\ Ordered(Sched)
      /\ Sched.flags = flags /\ Sched.seen = seen
  BY <1>1, InHandFacts
<1>3. /\ t \in SchedType /\ Ordered(t) /\ Grows(Sched, t, c)
      /\ \A e \in t.seen \ seen : "FAILED" \in t.flags[Deps[e].from]
  <2>1. Tells(Sched, t, c, FALSE)
    BY <1>2, DepDoneOrder
  <2> HIDE DEF t
  <2> QED
    BY <1>1, <1>2, <2>1 DEF Tells
<1> HIDE DEF t
<1>4. /\ \A e \in seen : e \in seen'
      /\ \A k \in Jails : "FAILED" \in flags[k] => "FAILED" \in flags'[k]
  BY <1>1, <1>3, BecomeGrows
<1>5. list' = list /\ pos' = pos /\ jid' = jid /\ up' = up
  BY DEF SkipFailed, coms
<1>6. Fit(c)'
  <2>1. Fit(c) /\ "FAILED" \in flags'[c]
    BY <1>1, <1>4 DEF OInv
  <2>2. Taken(c) => Taken(c)'
    BY <1>4 DEF Taken
  <2> QED
    BY <1>5, <2>1, <2>2 DEF Fit
<1>7. pc' \notin InLoop /\ pc' # "done" /\ Begun'
  BY <1>1 DEF Continue, InLoop, Begun
<1>8. \A e \in t.seen \ seen : Known(e)'
  BY <1>1, <1>3 DEF Known, Become
<1> QED
  BY <1>1, <1>2, <1>3, <1>5, <1>6, <1>7, <1>8, OrderStep

(* JF_PARAMS is no operation.                                              *)
LEMMA WithParamsOrder ==
  ASSUME IInv, OInv, NEW c \in Jails, c = cur
  PROVE  LET t == [Sched EXCEPT !.flags = WithParams]
         IN  /\ t \in SchedType /\ Ordered(t) /\ Grows(Sched, t, c)
             /\ t.seen = seen /\ t.flags = WithParams /\ t.queue = queue
<1>1. flags \in [Jails -> SUBSET Flag]
  BY DEF IInv, TypeOK
<1>2. WithParams \in [Jails -> SUBSET Flag]
  BY WithParamsFacts
<1>3. \A k \in Jails : WithParams[k] = IF k = c THEN flags[k] \cup {"PARAMS"}
                                               ELSE flags[k]
  BY <1>1 DEF WithParams
<1>4. \A k \in Jails : /\ Ops(WithParams[k]) = Ops(flags[k])
                       /\ "FAILED" \in flags[k] => "FAILED" \in WithParams[k]
  BY <1>3 DEF Ops, OpFlag
<1> QED
  BY <1>2, <1>4, FlagsOrder

(* A jail with bad parameters fails.                                       *)
LEMMA BadParamsOrder ==
  ASSUME IInv, OInv, NEW c \in Jails, c = cur, BadParams
  PROVE  OInv'
<1> DEFINE u == [Sched EXCEPT !.flags = WithParams]
<1>1. u \in SchedType /\ Ordered(u) /\ Grows(Sched, u, c) /\ u.seen = seen
  BY WithParamsOrder
<1>2. /\ pc \in InLoop /\ Become(Failed(u, c)) /\ Continue
      /\ UNCHANGED <<coms, jid, up>>
  BY DEF BadParams, InLoop
<1> HIDE DEF u
<1> QED
  BY <1>1, <1>2, FailedLeavesOrder

(* running_jid() finds a jail that is there.                               *)
LEMMA RunningJidOrder ==
  ASSUME IInv, OInv, NEW c \in Jails, c = cur, RunningJid
  PROVE  OInv'
<1> DEFINE t == [Sched EXCEPT !.flags = WithParams]
<1>1. /\ t \in SchedType /\ Ordered(t) /\ Grows(Sched, t, c)
      /\ t.seen = seen /\ t.flags = WithParams
  BY WithParamsOrder
<1>2. Become(t)
  BY DEF Become, Sched, RunningJid
<1> HIDE DEF t
<1>3. pc \in InLoop /\ pc' = "finish" /\ cur' = c
  BY DEF RunningJid, InLoop
<1>4. Begun /\ Held(c) /\ queue[c] = "cfjails"
  BY <1>3, InHandFacts
<1>5. /\ \A e \in seen : e \in seen'
      /\ \A k \in Jails : "FAILED" \in flags[k] => "FAILED" \in flags'[k]
  BY <1>1, <1>2, BecomeGrows
<1>6. /\ list' = list /\ pos' = pos /\ up' = up /\ queue' = queue
      /\ \A k \in Jails \ {c} : jid'[k] = jid[k]
      /\ jid[c] = 1 => jid'[c] = 1
      /\ jid'[c] = 1 => jid[c] = 1 \/ c \in up
  BY DEF RunningJid, coms, IInv, TypeOK
<1>7. Fit(c)'
  <2>1. Fit(c)
    BY DEF OInv
  <2>2. Met(c) => Met(c)'
    BY <1>5 DEF Met
  <2>3. Taken(c) => Taken(c)'
    BY <1>5 DEF Taken
  <2> QED
    BY <1>5, <1>6, <2>1, <2>2, <2>3 DEF Fit
<1>8. Begun' /\ pc' # "done"
  BY <1>3 DEF Begun
<1>9. \A e \in t.seen \ seen : Known(e)'
  BY <1>1
<1> QED
  BY <1>1, <1>2, <1>3, <1>4, <1>6, <1>7, <1>8, <1>9, OrderStep

(* SLEEPQ and TIMEOUT are no operations.                                   *)
LEMMA AwakeOrder ==
  ASSUME IInv, OInv, NEW c \in Jails, c = cur
  PROVE  LET t == [Sched EXCEPT !.flags = Awake]
         IN  /\ t \in SchedType /\ Ordered(t) /\ Grows(Sched, t, c)
             /\ t.seen = seen /\ t.flags = Awake /\ t.queue = queue
<1>1. /\ \A k \in Jails \ {c} : Awake[k] = flags[k]
      /\ "FAILED" \in Awake[c] <=> "FAILED" \in flags[c]
      /\ Ops(Awake[c]) = Ops(flags[c])
  BY AwakeFacts
<1>2. flags \in [Jails -> SUBSET Flag]
  BY DEF IInv, TypeOK
<1>3. Awake \in [Jails -> SUBSET Flag]
  BY <1>2 DEF Awake
<1>4. \A k \in Jails : /\ Ops(Awake[k]) = Ops(flags[k])
                       /\ "FAILED" \in flags[k] => "FAILED" \in Awake[k]
  BY <1>1
<1> HIDE DEF Awake
<1> QED
  BY <1>3, <1>4, FlagsOrder

(* finish_command() without a slot to return.                              *)
LEMMA FinishNothingOrder ==
  ASSUME IInv, OInv, NEW c \in Jails, c = cur, FinishNothing
  PROVE  OInv'
<1> DEFINE t == [Sched EXCEPT !.flags = IF flags' = Awake THEN Awake ELSE flags]
<1>1. /\ pc \in InLoop /\ pc' = "op" /\ cur' = c
      /\ UNCHANGED <<coms, jid, up>> /\ queue' = queue
      /\ flags' = Awake \/ flags' = flags
  BY DEF FinishNothing, InLoop
<1>2. flags \in [Jails -> SUBSET Flag]
  BY DEF IInv, TypeOK
<1>3. /\ t \in SchedType /\ Ordered(t) /\ Grows(Sched, t, c)
      /\ t.seen = seen /\ t.flags = flags'
  <2>1. CASE flags' = Awake
    BY <2>1, AwakeOrder
  <2>2. CASE flags' # Awake
    <3>1. t = [Sched EXCEPT !.flags = flags]
      BY <2>2
    <3> HIDE DEF t
    <3> QED
      BY <1>1, <1>2, <2>2, <3>1, FlagsOrder
  <2> QED
    BY <2>1, <2>2
<1>4. Become(t)
  BY <1>1 DEF Become, Sched, FinishNothing
<1> HIDE DEF t
<1>5. Begun' /\ queue'[c] = "cfjails" /\ pc' # "done"
  BY <1>1, InHandFacts DEF Begun
<1> QED
  BY <1>1, <1>3, <1>4, <1>5, CalmOrder

(* finish_command() gives the slot to a jail that waits for one.           *)
LEMMA FinishCommandOrder ==
  ASSUME IInv, OInv, NEW c \in Jails, c = cur, FinishCommand
  PROVE  OInv'
<1> DEFINE s == [Sched EXCEPT !.flags = Awake]
           u == WakeRunnable(s)
<1>1. pc \in InLoop /\ UNCHANGED <<coms, jid, up>>
  BY DEF FinishCommand, InLoop
<1>2. /\ s \in SchedType /\ Ordered(s) /\ Grows(Sched, s, c)
      /\ s.seen = seen /\ s.queue = queue
  BY AwakeOrder
<1>3. \/ Become(Failed(u, c)) /\ Continue
      \/ Become(u) /\ pc' = "op" /\ cur' = c
  BY DEF FinishCommand
<1> HIDE DEF s
<1>4. Woke(s, u)
  BY <1>2, WakeRunnableWhole
<1>5. Alike(s, u)
  BY <1>2, WakeRunnableAlike
<1> HIDE DEF u
<1>6. u \in SchedType /\ u.ndeps = s.ndeps /\ u.seen = s.seen
  BY <1>4 DEF Woke
<1>7. \A k \in Jails :
        /\ Ops(u.flags[k]) = Ops(s.flags[k])
        /\ "FAILED" \in s.flags[k] => "FAILED" \in u.flags[k]
        /\ s.queue[k] = "cfjails" => u.queue[k] = "cfjails"
        /\ u.queue[k] # "cfjails" => s.queue[k] # "cfjails"
  BY <1>4, <1>5 DEF Woke, Alike
<1>8. Ordered(u) /\ Grows(s, u, c)
  BY <1>2, <1>6, <1>7, SameOrder
<1>9. Grows(Sched, u, c) /\ u.seen = seen
  BY <1>2, <1>6, <1>8, GrowsTrans
<1>10. CASE Become(Failed(u, c)) /\ Continue
  BY <1>1, <1>6, <1>8, <1>9, <1>10, FailedLeavesOrder
<1>11. CASE Become(u) /\ pc' = "op" /\ cur' = c
  <2>1. queue[c] = "cfjails"
    BY <1>1, InHandFacts
  <2>2. queue'[c] = "cfjails" /\ Begun' /\ pc' # "done"
    BY <1>2, <1>7, <1>11, <2>1 DEF Become, Begun
  <2> QED
    BY <1>1, <1>6, <1>8, <1>9, <1>11, <2>2, CalmOrder
<1> QED
  BY <1>3, <1>10, <1>11
-----------------------------------------------------------------------------
(* The operation of the jail the loop holds.                               *)

(* A jail that is only to be started does not turn, is not set and does    *)
(* not stop.                                                               *)
LEMMA OnlyStart ==
  ASSUME IInv, OInv, NEW c \in Jails, c = cur, pc = "op"
  PROVE  /\ Ops(flags[c]) = {"START"}
         /\ ~Single("SET") /\ ~Single("STOP")
         /\ ~Turn /\ ~TurnRestart /\ ~NotFound /\ ~BeginStop /\ ~NotRunning
         /\ ~AbandonStop /\ ~Update
<1>1. pc \in InLoop
  BY DEF InLoop
<1>2. /\ "START" \in flags[c] /\ "SET" \notin flags[c]
      /\ "STOP" \notin flags[c] /\ ~DoStop(flags[c])
  BY <1>1, InHandFacts
<1>3. Ops(flags[c]) = {"START"}
  BY <1>2 DEF Ops, OpFlag
<1>4. ~Single("SET") /\ ~Single("STOP")
  BY <1>2, <1>3 DEF Single
<1> QED
  BY <1>2, <1>3, <1>4 DEF Turn, TurnRestart, NotFound, BeginStop, NotRunning,
     AbandonStop, Update

(* A jail that runs already and was asked for fails.                       *)
LEMMA ExistsOrder ==
  ASSUME IInv, OInv, NEW c \in Jails, c = cur, Exists
  PROVE  OInv'
<1>1. /\ pc \in InLoop /\ Become(Failed(Sched, c)) /\ Continue
      /\ UNCHANGED <<coms, jid, up>>
  BY DEF Exists, Single, Refuse, InLoop
<1>2. Sched \in SchedType /\ Ordered(Sched) /\ Sched.seen = seen
  BY <1>1, InHandFacts
<1>3. Grows(Sched, Sched, c)
  BY DEF Grows
<1> QED
  BY <1>1, <1>2, <1>3, FailedLeavesOrder

(* dep_check() of the jail the loop holds.                                 *)
LEMMA CheckOrder ==
  ASSUME IInv, OInv, NEW c \in Jails, c = cur, MayCheck
  PROVE  LET t == DepCheck(Sched, cur)
         IN  /\ pc = "op" /\ list[c] = "NULL" /\ Begun /\ Held(c)
             /\ t \in SchedType /\ Ordered(t) /\ Grows(Sched, t, c)
             /\ t.seen = seen
             /\ ~Blocked(Sched, cur) => t.queue[c] = "cfjails"
             /\ ~Blocked(Sched, cur) /\ "FAILED" \notin t.flags[c] => Met(c)
<1>1. pc = "op" /\ list[c] = "NULL"
  BY MayCheckFacts
<1>2. pc \in InLoop
  BY <1>1 DEF InLoop
<1>3. /\ Begun /\ Held(c) /\ Sched \in SchedType /\ Ordered(Sched)
      /\ Sched.flags = flags /\ Sched.queue = queue /\ Sched.seen = seen
      /\ queue[c] = "cfjails" /\ "START" \in flags[c]
  BY <1>2, InHandFacts
<1> DEFINE t == DepCheck(Sched, c)
<1>4. Asks(Sched, t, c)
  BY <1>3, DepCheckOrder
<1> HIDE DEF t
<1>5. ~Blocked(Sched, c) /\ "FAILED" \notin t.flags[c] => Met(c)
  BY <1>3, <1>4 DEF Asks, Met
<1> QED
  BY <1>1, <1>3, <1>4, <1>5 DEF t, Asks

(* The jail goes to wait in depend.                                        *)
LEMMA WaitForOthersOrder ==
  ASSUME IInv, OInv, NEW c \in Jails, c = cur, WaitForOthers
  PROVE  OInv'
<1> DEFINE t == DepCheck(Sched, cur)
<1>1. MayCheck /\ Become(t) /\ Continue /\ UNCHANGED <<coms, jid, up>>
  BY DEF WaitForOthers
<1>2. /\ pc = "op" /\ t \in SchedType /\ Ordered(t) /\ Grows(Sched, t, c)
      /\ t.seen = seen
  BY <1>1, CheckOrder
<1> HIDE DEF t
<1>3. pc \in InLoop /\ pc' \notin InLoop /\ pc' # "done" /\ Begun'
  BY <1>1, <1>2 DEF Continue, InLoop, Begun
<1> QED
  BY <1>1, <1>2, <1>3, CalmOrder

(* A jail that begins its commands has what it depends on.                 *)
LEMMA BeginStartOrder ==
  ASSUME IInv, OInv, NEW c \in Jails, c = cur, BeginStart
  PROVE  OInv'
<1> DEFINE t == DepCheck(Sched, cur)
<1>1. /\ MayCheck /\ ~Blocked(Sched, cur) /\ Become(t)
      /\ list' = [list EXCEPT ![c] = "start"] /\ pos' = [pos EXCEPT ![c] = 1]
      /\ pc' = "next_command" /\ cur' = c /\ UNCHANGED <<jid, up>>
  BY DEF BeginStart, Unblocked, Begin
<1>2. /\ pc = "op" /\ list[c] = "NULL" /\ Begun /\ Held(c)
      /\ t \in SchedType /\ Ordered(t) /\ Grows(Sched, t, c)
      /\ t.seen = seen /\ t.queue[c] = "cfjails"
      /\ "FAILED" \notin t.flags[c] => Met(c)
  BY <1>1, CheckOrder
<1> HIDE DEF t
<1>3. flags' = t.flags /\ seen' = seen /\ queue' = t.queue
  BY <1>1, <1>2 DEF Become
<1>4. \A k \in Jails : "FAILED" \in flags[k] => "FAILED" \in flags'[k]
  BY <1>1, <1>2, BecomeGrows
<1>5. /\ list'[c] = "start" /\ pos'[c] = 1
      /\ \A k \in Jails \ {c} : list'[k] = list[k] /\ pos'[k] = pos[k]
  BY <1>1 DEF IInv, TypeOK
<1>6. Fit(c)'
  <2>1. Fit(c)
    BY DEF OInv
  <2>2. "FAILED" \notin flags'[c] => Met(c)'
    BY <1>2, <1>3 DEF Met
  <2>3. Taken(c) => Taken(c)'
    BY <1>4 DEF Taken
  <2>4. jid' = jid /\ up' = up
    BY <1>1
  <2>5. ~(pos'[c] >= 4)
    BY <1>5
  <2> QED
    BY <1>5, <2>1, <2>2, <2>3, <2>4, <2>5 DEF Fit
<1>7. Begun' /\ pc' # "done"
  BY <1>1 DEF Begun
<1>8. \A e \in t.seen \ seen : Known(e)'
  BY <1>2
<1>9. pc \in InLoop => c = cur
  OBVIOUS
<1> QED
  BY <1>1, <1>2, <1>3, <1>5, <1>6, <1>7, <1>8, OrderStep

(* A jail that runs already is through.                                    *)
LEMMA AlreadyRunsOrder ==
  ASSUME IInv, OInv, NEW c \in Jails, c = cur, AlreadyRuns
  PROVE  OInv'
<1> DEFINE t == DepCheck(Sched, cur)
<1>1. /\ MayCheck /\ ~Blocked(Sched, cur) /\ Become(t) /\ jid[c] > 0
      /\ pc' = "done" /\ cur' = c /\ UNCHANGED <<coms, jid, up>>
  BY DEF AlreadyRuns, Unblocked
<1>2. /\ pc = "op" /\ list[c] = "NULL"
      /\ t \in SchedType /\ Ordered(t) /\ Grows(Sched, t, c)
      /\ t.seen = seen /\ t.queue[c] = "cfjails"
  BY <1>1, CheckOrder
<1> HIDE DEF t
<1>3. queue'[c] = "cfjails" /\ pc \in InLoop /\ Begun'
  BY <1>1, <1>2 DEF Become, InLoop, Begun
<1>4. jid \in [Jails -> {-1, 0, 1}]
  BY DEF IInv, TypeOK
<1>5. jid[c] = 1
  BY <1>1, <1>4
<1> QED
  BY <1>1, <1>2, <1>3, <1>5, CalmOrder

(* A list that was begun goes on.                                          *)
LEMMA ResumeOrder ==
  ASSUME IInv, OInv, NEW c \in Jails, c = cur, Resume
  PROVE  OInv'
<1>1. /\ pc \in InLoop /\ pc' = "next_command" /\ cur' = c
      /\ UNCHANGED <<sched, coms, jid, up>>
  BY DEF Resume, Single, InLoop
<1>2. /\ Sched \in SchedType /\ Ordered(Sched) /\ Sched.seen = seen
      /\ queue[c] = "cfjails"
  BY <1>1, InHandFacts
<1>3. Grows(Sched, Sched, c)
  BY DEF Grows
<1>4. Become(Sched)
  BY <1>1 DEF Become, Sched, sched
<1>5. queue'[c] = "cfjails" /\ Begun' /\ pc' # "done"
  BY <1>1, <1>2 DEF sched, Begun
<1> QED
  BY <1>1, <1>2, <1>3, <1>4, <1>5, CalmOrder

(* A jail that is through, or failed, tells those that wait for it.        *)
LEMMA DoneOrder ==
  ASSUME IInv, OInv, NEW c \in Jails, c = cur, Done
  PROVE  OInv'
<1> DEFINE t == DepDone(Sched, c, FALSE, FALSE)
<1>1. pc = "done" /\ pc \in InLoop
  BY DEF Done, InLoop
<1>2. /\ Begun /\ Held(c) /\ Sched \in SchedType /\ Ordered(Sched)
      /\ Sched.flags = flags /\ Sched.seen = seen /\ Sched.queue = queue
      /\ queue[c] = "cfjails" /\ "START" \in flags[c]
  BY <1>1, InHandFacts
<1>3. /\ t \in SchedType /\ Ordered(t) /\ Grows(Sched, t, c)
      /\ t.queue[c] = "cfjails"
      /\ \A e \in t.seen \ seen :
           /\ Deps[e].to = c
           /\ "FAILED" \in flags[c] => "FAILED" \in t.flags[Deps[e].from]
  <2>1. Tells(Sched, t, c, FALSE)
    BY <1>2, DepDoneOrder
  <2> HIDE DEF t
  <2> QED
    BY <1>2, <2>1 DEF Tells
<1>4. "STOP" \notin t.flags[c]
  BY <1>3, StartsWaits DEF Ordered
<1>5. /\ Become(t) /\ Continue /\ list' = list
      /\ UNCHANGED <<pos, jid, up>>
  BY <1>4 DEF Done
<1> HIDE DEF t
<1>6. flags' = t.flags /\ seen' = t.seen /\ queue' = t.queue
  BY <1>5 DEF Become
<1>7. /\ \A e \in seen : e \in seen'
      /\ \A k \in Jails : "FAILED" \in flags[k] => "FAILED" \in flags'[k]
      /\ "START" \in flags'[c]
  BY <1>2, <1>3, <1>5, BecomeGrows
<1>8. Fit(c)'
  <2>1. Fit(c)
    BY DEF OInv
  <2>2. Met(c) => Met(c)'
    BY <1>7 DEF Met
  <2>3. Taken(c) => Taken(c)'
    BY <1>7 DEF Taken
  <2> QED
    BY <1>5, <1>7, <2>1, <2>2, <2>3 DEF Fit
<1>9. pc' \notin InLoop /\ pc' # "done" /\ Begun'
  BY <1>5 DEF Continue, InLoop, Begun
<1>10. "FAILED" \notin flags[c] => Served(c)'
  <2>1. ~Held(c)'
    BY <1>3, <1>6, <1>9 DEF Held
  <2>2. "FAILED" \notin flags[c] => Through(c) /\ jid[c] = 1
    BY <1>1 DEF OInv, InHand
  <2> QED
    BY <1>5, <1>7, <2>1, <2>2 DEF Served, Through
<1>11. \A e \in t.seen \ seen : Known(e)'
  BY <1>3, <1>6, <1>10 DEF Known
<1>12. \A k \in Jails \ {c} : /\ list'[k] = list[k] /\ pos'[k] = pos[k]
                             /\ jid'[k] = jid[k]
                             /\ k \in up => k \in up'
  BY <1>5
<1> QED
  BY <1>2, <1>3, <1>5, <1>8, <1>9, <1>11, <1>12, OrderStep
-----------------------------------------------------------------------------
(* next_command() and run_command().                                       *)

(* Without a slot the jail waits in runnable.                              *)
LEMMA WaitForSlotOrder ==
  ASSUME IInv, OInv, NEW c \in Jails, c = cur, WaitForSlot
  PROVE  OInv'
<1>1. /\ pc \in InLoop /\ Continue /\ UNCHANGED <<coms, jid, up>>
      /\ \/ Become(RequeueHead(Sched, c, "runnable"))
         \/ Become(Requeue(Sched, {c}, "runnable", {}))
  BY DEF WaitForSlot, InLoop
<1>2. Sched \in SchedType /\ Ordered(Sched) /\ Sched.seen = seen
  BY <1>1, InHandFacts
<1>3. "runnable" \in Queue
  BY DEF Queue
<1>4. PICK t : Moved(Sched, t, {c}, "runnable") /\ Become(t)
  BY <1>1, <1>2, <1>3, RequeueOne, RequeueHeadFacts
<1>5. /\ t \in SchedType /\ t.flags = Sched.flags
      /\ t.ndeps = Sched.ndeps /\ t.seen = Sched.seen
      /\ \A k \in Jails : k # c => t.queue[k] = Sched.queue[k]
  BY <1>4 DEF Moved
<1>6. Ordered(t) /\ Grows(Sched, t, c)
  BY <1>2, <1>5, SameOrder
<1>7. pc' \notin InLoop /\ pc' # "done" /\ Begun'
  BY <1>1 DEF Continue, InLoop, Begun
<1> QED
  BY <1>1, <1>2, <1>4, <1>5, <1>6, <1>7, CalmOrder

(* With one it goes on.                                                    *)
LEMMA EnterCommandsOrder ==
  ASSUME IInv, OInv, NEW c \in Jails, c = cur, EnterCommands
  PROVE  OInv'
<1> DEFINE t == [Sched EXCEPT !.flags = flags']
<1>1. /\ pc \in InLoop /\ pc' = "command" /\ cur' = c
      /\ UNCHANGED <<coms, jid, up>> /\ queue' = queue
      /\ flags' = [flags EXCEPT ![c] = @ \ {"FROM_RUNQ"}]
  BY DEF EnterCommands, InLoop
<1>2. flags \in [Jails -> SUBSET Flag]
  BY DEF IInv, TypeOK
<1>3. flags' \in [Jails -> SUBSET Flag]
  BY <1>1, <1>2
<1>4. \A k \in Jails : flags'[k] = IF k = c THEN flags[k] \ {"FROM_RUNQ"}
                                            ELSE flags[k]
  BY <1>1, <1>2
<1>5. \A k \in Jails : /\ Ops(flags'[k]) = Ops(flags[k])
                       /\ "FAILED" \in flags[k] => "FAILED" \in flags'[k]
  BY <1>4 DEF Ops, OpFlag
<1>6. /\ t \in SchedType /\ Ordered(t) /\ Grows(Sched, t, c)
      /\ t.seen = seen
  BY <1>3, <1>5, FlagsOrder
<1>7. Become(t)
  BY DEF Become, Sched, EnterCommands
<1> HIDE DEF t
<1>8. queue'[c] = "cfjails" /\ Begun' /\ pc' # "done"
  BY <1>1, InHandFacts DEF Begun
<1> QED
  BY <1>1, <1>6, <1>7, <1>8, CalmOrder

(* Where the next step takes the cursor.                                   *)
LEMMA StartNext ==
  ASSUME IInv, OInv, NEW c \in Jails, c = cur, pc = "command"
  PROVE  /\ pc \in InLoop /\ list[c] = "start" /\ Next1 \in 0 .. 6
         /\ "FAILED" \notin flags[c] => Next1 = pos[c] + 1 /\ Next1 > 1
<1>1. pc \in InLoop
  BY DEF InLoop
<1>2. list[c] = "start"
  BY AtCommand DEF OInv, Fit, IInv, TypeOK
<1>3. Active(c) /\ pos[c] \in Int
  BY DEF Active, InLoop, IInv, TypeOK
<1>4. 1 <= pos[c] /\ pos[c] < 6
  BY <1>2, <1>3, StartList DEF IInv, CursorInside, CursorOK
<1>5. Next1 = pos[c] + 1 \/ Next1 = pos[c] - 1
  BY DEF Next1
<1>6. "FAILED" \notin flags[c] => Next1 = pos[c] + 1
  BY DEF Next1, Undoing
<1> HIDE DEF Next1
<1> QED
  BY <1>1, <1>2, <1>3, <1>4, <1>5, <1>6

(* The cursor moves, over no creation, to the end only behind the last.    *)
LEMMA AdvanceOrder ==
  ASSUME IInv, OInv, NEW c \in Jails, c = cur, pc = "command", Advance,
         NEW t \in SchedType, Become(t), Ordered(t), Grows(Sched, t, c),
         t.seen = seen, UNCHANGED <<jid, up>>,
         cur' = cur \/ pc' \notin InLoop, Begun',
         pc' \in InLoop => queue'[c] = "cfjails",
         "FAILED" \notin flags'[c] => Next1 # 4,
         "FAILED" \notin flags'[c] /\ pc' = "done" => Next1 = 6
  PROVE  OInv'
<1>1. /\ pc \in InLoop /\ list[c] = "start" /\ Next1 \in 0 .. 6
      /\ "FAILED" \notin flags[c] => Next1 = pos[c] + 1 /\ Next1 > 1
  BY StartNext
<1>2. Begun /\ Held(c)
  BY <1>1, InHandFacts
<1>3. list' = list /\ pos'[c] = Next1 /\ \A k \in Jails \ {c} : pos'[k] = pos[k]
  BY CursorMoves
<1>4. /\ \A e \in seen : e \in seen'
      /\ \A k \in Jails : "FAILED" \in flags[k] => "FAILED" \in flags'[k]
  BY BecomeGrows
<1>5. Fit(c)
  BY DEF OInv
<1>6. "FAILED" \notin flags'[c] /\ Next1 >= 4 => jid[c] = 1
  <2>1. pos[c] \in Int
    BY DEF IInv, TypeOK
  <2>2. "FAILED" \notin flags'[c] /\ Next1 >= 4 => pos[c] >= 4
    <3> HIDE DEF Next1
    <3> QED
      BY <1>1, <1>4, <2>1
  <2> HIDE DEF Next1
  <2> QED
    BY <1>1, <1>4, <1>5, <2>2 DEF Fit
<1> HIDE DEF Next1
<1>7. Fit(c)'
  <2>1. Met(c) => Met(c)'
    BY <1>4 DEF Met
  <2>2. Taken(c) => Taken(c)'
    BY <1>4 DEF Taken
  <2> QED
    BY <1>1, <1>3, <1>4, <1>5, <1>6, <2>1, <2>2 DEF Fit
<1>8. pc' = "done" /\ "FAILED" \notin flags'[c] => Through(c)' /\ jid'[c] = 1
  <2> SUFFICES ASSUME pc' = "done", "FAILED" \notin flags'[c]
               PROVE  Through(c)' /\ jid'[c] = 1
    OBVIOUS
  <2>1. Next1 = 6
    OBVIOUS
  <2>2. pos'[c] = 6 /\ list'[c] = "start"
    BY <1>1, <1>3, <2>1
  <2>3. Through(c)'
    BY <2>2, StartList DEF Through
  <2>4. jid[c] = 1
    BY <1>6, <2>1
  <2> QED
    BY <2>3, <2>4
<1>9. \A e \in t.seen \ seen : Known(e)'
  OBVIOUS
<1> QED
  BY <1>1, <1>2, <1>3, <1>7, <1>8, <1>9, OrderStep

(* A jail that has not failed gets to the end of its list forwards.        *)
LEMMA CommandsEndOrder ==
  ASSUME IInv, OInv, NEW c \in Jails, c = cur, CommandsEnd \/ LeaveList
  PROVE  OInv'
<1>1. /\ pc = "command" /\ Advance /\ pc' \in {"done", "crashed"} /\ cur' = c
      /\ UNCHANGED <<sched, jid, up>>
      /\ Upcoming("NULL") \/ ~InList
  BY DEF CommandsEnd, LeaveList, Upcoming
<1>2. /\ pc \in InLoop /\ list[c] = "start" /\ Next1 \in 0 .. 6
      /\ "FAILED" \notin flags[c] => Next1 > 1
  BY <1>1, StartNext
<1>3. /\ Sched \in SchedType /\ Ordered(Sched) /\ Sched.seen = seen
      /\ queue[c] = "cfjails"
  BY <1>2, InHandFacts
<1>4. Become(Sched) /\ Grows(Sched, Sched, c)
  BY <1>1 DEF Become, Sched, sched, Grows
<1>5. "FAILED" \notin flags[c] => Next1 = 6
  <2> SUFFICES ASSUME "FAILED" \notin flags[c]
               PROVE  Next1 = 6
    OBVIOUS
  <2>1. CommandList[list[c]][Next1] = "NULL" \/ ~InList
    BY <1>1 DEF Upcoming
  <2>2. InList <=> Next1 \in 1 .. 6
    BY <1>2, StartList DEF InList
  <2> HIDE DEF Next1
  <2> QED
    BY <1>2, <2>1, <2>2, StartList
<1>6. flags' = flags /\ queue'[c] = "cfjails" /\ Begun'
  BY <1>1, <1>3 DEF sched, Begun
<1>7. Next1 = 6 => Next1 # 4
  OBVIOUS
<1> HIDE DEF Next1
<1> QED
  BY <1>1, <1>3, <1>4, <1>5, <1>6, <1>7, AdvanceOrder

(* A parameter without a command is passed over.                           *)
LEMMA PassCommandOrder ==
  ASSUME IInv, OInv, NEW c \in Jails, c = cur, PassCommand
  PROVE  OInv'
<1>1. PICK x \in Command : Upcoming(x)
  BY DEF PassCommand
<1>2. /\ pc = "command" /\ Advance /\ pc' = pc /\ cur' = c
      /\ UNCHANGED <<sched, jid, up>>
  BY <1>1 DEF PassCommand, Upcoming
<1>3. pc \in InLoop /\ list[c] = "start"
  BY <1>2, StartNext
<1>4. /\ Sched \in SchedType /\ Ordered(Sched) /\ Sched.seen = seen
      /\ queue[c] = "cfjails"
  BY <1>3, InHandFacts
<1>5. Become(Sched) /\ Grows(Sched, Sched, c)
  BY <1>2 DEF Become, Sched, sched, Grows
<1>6. Next1 # 4
  BY <1>1, <1>3, NotCreation
<1>7. queue'[c] = "cfjails" /\ Begun' /\ pc' # "done"
  BY <1>2, <1>4 DEF sched, Begun
<1> HIDE DEF Next1
<1> QED
  BY <1>2, <1>4, <1>5, <1>6, <1>7, AdvanceOrder

(* A jail that is put to sleep keeps its operation.                        *)
LEMMA SleepOrder ==
  ASSUME IInv, OInv, NEW c \in Jails, c = cur
  PROVE  LET t == Requeue([Sched EXCEPT !.flags = [flags EXCEPT
                             ![cur] = @ \cup {"SLEEPQ"}]],
                          {cur}, "sleeping", {})
         IN  /\ t \in SchedType /\ Ordered(t) /\ Grows(Sched, t, c)
             /\ t.seen = seen
<1> DEFINE f == [flags EXCEPT ![c] = @ \cup {"SLEEPQ"}]
           s == [Sched EXCEPT !.flags = f]
           t == Requeue(s, {c}, "sleeping", {})
<1>1. flags \in [Jails -> SUBSET Flag]
  BY DEF IInv, TypeOK
<1>2. f \in [Jails -> SUBSET Flag]
  BY <1>1 DEF Flag
<1>3. \A k \in Jails : f[k] = IF k = c THEN flags[k] \cup {"SLEEPQ"} ELSE flags[k]
  BY <1>1
<1>4. \A k \in Jails : /\ Ops(f[k]) = Ops(flags[k])
                       /\ "FAILED" \in flags[k] => "FAILED" \in f[k]
  BY <1>3 DEF Ops, OpFlag
<1> HIDE DEF f
<1>5. /\ s \in SchedType /\ Ordered(s) /\ Grows(Sched, s, c) /\ s.seen = seen
  BY <1>2, <1>4, FlagsOrder
<1> HIDE DEF s
<1>6. "sleeping" \in Queue
  BY DEF Queue
<1>7. Moved(s, t, {c}, "sleeping")
  BY <1>5, <1>6, RequeueOne
<1> HIDE DEF t
<1>8. /\ t \in SchedType /\ t.flags = s.flags /\ t.ndeps = s.ndeps
      /\ t.seen = s.seen
      /\ \A k \in Jails : k # c => t.queue[k] = s.queue[k]
  BY <1>7 DEF Moved
<1>9. Ordered(t) /\ Grows(s, t, c)
  BY <1>5, <1>8, SameOrder
<1>10. Grows(Sched, t, c)
  BY <1>5, <1>9, GrowsTrans
<1> QED
  BY <1>5, <1>8, <1>9, <1>10 DEF t, s, f

(* A command takes a slot, or fails before it is forked.                   *)
LEMMA RunCommandOrder ==
  ASSUME IInv, OInv, NEW c \in Jails, c = cur, RunCommand
  PROVE  OInv'
<1> DEFINE t == Requeue([Sched EXCEPT !.flags = [flags EXCEPT
                           ![cur] = @ \cup {"SLEEPQ"}]],
                        {cur}, "sleeping", {})
           u == Failed(Sched, c)
<1>1. PICK x \in Command : Upcoming(x)
  BY DEF RunCommand
<1>2. /\ pc = "command" /\ Advance /\ Continue /\ UNCHANGED <<jid, up>>
      /\ Become(t) \/ Become(u)
  BY <1>1 DEF RunCommand, Upcoming
<1>3. pc \in InLoop /\ list[c] = "start"
  BY <1>2, StartNext
<1>4. Sched \in SchedType /\ Ordered(Sched) /\ Sched.seen = seen
  BY <1>3, InHandFacts
<1>5. /\ t \in SchedType /\ Ordered(t) /\ Grows(Sched, t, c)
      /\ t.seen = seen
  BY SleepOrder
<1>6. /\ u \in SchedType /\ Ordered(u) /\ Grows(Sched, u, c)
      /\ u.seen = seen
  BY <1>4, FailedOrder
<1>7. Next1 # 4
  BY <1>1, <1>3, NotCreation
<1>8. pc' \notin InLoop /\ pc' # "done" /\ Begun'
  BY <1>2 DEF Continue, InLoop, Begun
<1> HIDE DEF t, u, Next1
<1> QED
  BY <1>2, <1>5, <1>6, <1>7, <1>8, AdvanceOrder

(* term_procs() belongs to a stop.                                         *)
LEMMA NoTermProcs ==
  ASSUME IInv, OInv, NEW c \in Jails, c = cur
  PROVE  ~TermProcs
<1> SUFFICES ASSUME TermProcs
             PROVE  FALSE
  OBVIOUS
<1>1. Upcoming("STOP_TIMEOUT") /\ pc = "command"
  BY DEF TermProcs, Upcoming
<1>2. list[c] = "start"
  BY <1>1, StartNext
<1> QED
  BY <1>1, <1>2, NotCreation

(* A failed jail moves on: it is looked up as gone, or not at all.         *)
LEMMA FailedMoves ==
  ASSUME IInv, OInv, NEW c \in Jails, c = cur, pc = "command", Advance,
         NEW t \in SchedType, Become(t), Ordered(t), Grows(Sched, t, c),
         t.seen = seen, "FAILED" \in flags'[c],
         cur' = cur \/ pc' \notin InLoop, Begun',
         pc' \in InLoop => queue'[c] = "cfjails",
         jid' = [jid EXCEPT ![c] = -1] \/ UNCHANGED <<jid, up>>,
         \A k \in Jails \ {c} : k \in up => k \in up' \/ Taken(k)'
  PROVE  OInv'
<1>1. pc \in InLoop /\ list[c] = "start"
  BY StartNext
<1>2. Begun /\ Held(c)
  BY <1>1, InHandFacts
<1>3. list' = list /\ \A k \in Jails \ {c} : pos'[k] = pos[k]
  BY CursorMoves
<1>4. jid \in [Jails -> {-1, 0, 1}]
  BY DEF IInv, TypeOK
<1>5. /\ \A k \in Jails \ {c} : jid'[k] = jid[k]
      /\ jid'[c] = 1 => jid[c] = 1 /\ up' = up
  BY <1>4
<1>6. \A k \in Jails : "FAILED" \in flags[k] => "FAILED" \in flags'[k]
  BY BecomeGrows
<1>7. Fit(c)'
  <2>1. Fit(c)
    BY DEF OInv
  <2>2. Taken(c) => Taken(c)'
    BY <1>6 DEF Taken
  <2> QED
    BY <1>1, <1>3, <1>5, <2>1, <2>2 DEF Fit
<1>8. \A e \in t.seen \ seen : Known(e)'
  OBVIOUS
<1> QED
  BY <1>1, <1>2, <1>3, <1>5, <1>7, <1>8, OrderStep

(* create_jail(): the jail runs, and what is inside of it may start.       *)
LEMMA CreateJailOrder ==
  ASSUME IInv, OInv, NEW c \in Jails, c = cur, CreateJail
  PROVE  OInv'
<1> DEFINE t == DepDone(Sched, c, TRUE, FALSE)
           u == Failed(Sched, c)
<1>1. pc = "command" /\ Advance /\ "FAILED" \notin flags[c]
  BY DEF CreateJail, Upcoming
<1>2. \/ /\ up' = up \cup {c} /\ jid' = [jid EXCEPT ![c] = 1]
         /\ Become(t) /\ pc' = pc /\ cur' = c
      \/ /\ jid' = [jid EXCEPT ![c] = -1] /\ Become(u)
         /\ Continue /\ up' = up
  BY DEF CreateJail
<1>3. pc \in InLoop /\ list[c] = "start"
  BY <1>1, StartNext
<1>4. /\ Begun /\ Held(c) /\ Sched \in SchedType /\ Ordered(Sched)
      /\ Sched.flags = flags /\ Sched.seen = seen /\ Sched.queue = queue
      /\ queue[c] = "cfjails"
  BY <1>3, InHandFacts
<1>5. CASE Become(u)
  <2>1. /\ u \in SchedType /\ Ordered(u) /\ Grows(Sched, u, c)
        /\ u.seen = seen /\ "FAILED" \in u.flags[c]
    BY <1>4, FailedOrder
  <2> HIDE DEF u
  <2>2. "FAILED" \in flags'[c]
    BY <1>5, <2>1 DEF Become
  <2>3. CASE jid' = [jid EXCEPT ![c] = -1] /\ Continue /\ up' = up
    <3>1. pc' \notin InLoop /\ Begun'
      BY <2>3 DEF Continue, InLoop, Begun
    <3> QED
      BY <1>1, <1>5, <2>1, <2>2, <2>3, <3>1, FailedMoves
  <2>4. CASE Become(t) /\ up' = up \cup {c} /\ jid' = [jid EXCEPT ![c] = 1]
               /\ pc' = pc /\ cur' = c
    <3>1. flags' = t.flags
      BY <2>4 DEF Become
    <3>2. t.flags = Sched.flags
      BY <1>1, <1>4, DepDoneAlike
    <3> QED
      BY <1>1, <1>4, <2>2, <3>1, <3>2
  <2> QED
    BY <1>2, <2>3, <2>4
<1>6. CASE Become(t) /\ up' = up \cup {c} /\ jid' = [jid EXCEPT ![c] = 1]
             /\ pc' = pc /\ cur' = c
  <2>1. Tells(Sched, t, c, TRUE)
    BY <1>4, DepDoneOrder
  <2> HIDE DEF t, u
  <2>2. /\ t \in SchedType /\ Ordered(t) /\ Grows(Sched, t, c)
        /\ t.queue[c] = "cfjails"
        /\ \A e \in t.seen \ seen : Deps[e].light
    BY <1>4, <2>1 DEF Tells
  <2>3. \A e \in seen : e \in seen'
    BY <1>6, <2>2, BecomeGrows
  <2>4. list' = list /\ \A k \in Jails \ {c} : pos'[k] = pos[k]
    BY <1>1, CursorMoves
  <2>5. /\ jid'[c] = 1
        /\ \A k \in Jails \ {c} : jid'[k] = jid[k]
    BY <1>6 DEF IInv, TypeOK
  <2>6. Fit(c)'
    <3>1. Met(c)
      BY <1>1, <1>3 DEF OInv, Fit
    <3>2. Met(c)'
      BY <2>3, <3>1 DEF Met
    <3> QED
      BY <1>3, <1>6, <2>4, <2>5, <3>2 DEF Fit
  <2>7. queue'[c] = "cfjails" /\ Begun' /\ pc' # "done"
    BY <1>1, <1>6, <2>2 DEF Become, Begun
  <2>8. \A e \in t.seen \ seen : Known(e)'
    BY <2>2 DEF Known
  <2>9. \A k \in Jails \ {c} : k \in up => k \in up'
    BY <1>6
  <2> QED
    BY <1>3, <1>4, <1>6, <2>2, <2>4, <2>5, <2>6, <2>7, <2>8, <2>9, OrderStep
<1> QED
  BY <1>2, <1>5, <1>6

(* jail_remove(2) takes a failed jail down, with what is inside of it.     *)
LEMMA RemoveJailOrder ==
  ASSUME IInv, OInv, NEW c \in Jails, c = cur, RemoveJail
  PROVE  OInv'
<1> DEFINE u == Failed(Sched, c)
<1>1. pc = "command" /\ Advance
  BY DEF RemoveJail, Upcoming
<1>2. pc \in InLoop
  BY <1>1, StartNext
<1>3. /\ Sched \in SchedType /\ Ordered(Sched) /\ Sched.flags = flags
      /\ Sched.seen = seen /\ queue[c] = "cfjails" /\ "STOP" \notin flags[c]
  BY <1>2, InHandFacts
<1>4. "FAILED" \in flags[c]
  BY <1>3 DEF RemoveJail
<1>5. \/ /\ up' = up \ ({c} \cup {k \in Jails : <<k, c>> \in Under})
         /\ jid' = [jid EXCEPT ![c] = -1]
         /\ Become(Sched) /\ pc' = pc /\ cur' = c
      \/ Become(u) /\ Continue /\ UNCHANGED <<jid, up>>
  BY <1>3 DEF RemoveJail
<1>6. CASE Become(u) /\ Continue /\ UNCHANGED <<jid, up>>
  <2>1. /\ u \in SchedType /\ Ordered(u) /\ Grows(Sched, u, c)
        /\ u.seen = seen /\ "FAILED" \in u.flags[c]
    BY <1>3, FailedOrder
  <2> HIDE DEF u
  <2>2. "FAILED" \in flags'[c]
    BY <1>6, <2>1 DEF Become
  <2>3. pc' \notin InLoop /\ Begun'
    BY <1>6 DEF Continue, InLoop, Begun
  <2> QED
    BY <1>1, <1>6, <2>1, <2>2, <2>3, FailedMoves
<1>7. CASE /\ up' = up \ ({c} \cup {k \in Jails : <<k, c>> \in Under})
           /\ jid' = [jid EXCEPT ![c] = -1]
           /\ Become(Sched) /\ pc' = pc /\ cur' = c
  <2>1. flags' = flags /\ queue' = queue
    BY <1>7 DEF Become, Sched
  <2>2. Grows(Sched, Sched, c)
    BY DEF Grows
  <2>3. \A k \in Jails \ {c} : k \in up => k \in up' \/ Taken(k)'
    BY <1>4, <1>7, <2>1 DEF Taken
  <2>4. "FAILED" \in flags'[c] /\ queue'[c] = "cfjails" /\ Begun'
    BY <1>1, <1>3, <1>4, <1>7, <2>1 DEF Begun
  <2> QED
    BY <1>1, <1>3, <1>7, <2>2, <2>3, <2>4, FailedMoves
<1> QED
  BY <1>5, <1>6, <1>7

(* Every step of the main loop keeps the order.                            *)
LEMMA MainLoopOrder ==
  ASSUME IInv, OInv, MainLoop
  PROVE  OInv'
<1>1. pc \in InLoop
  BY DEF MainLoop, SkipFailed, BadParams, RunningJid, FinishNothing,
     FinishCommand, Turn, TurnRestart, Exists, NotFound, WaitForOthers,
     BeginStart, BeginStop, AlreadyRuns, NotRunning, AbandonStop, Resume,
     Update, Done, WaitForSlot, EnterCommands, CommandsEnd, LeaveList,
     PassCommand, RunCommand, TermProcs, CreateJail, RemoveJail,
     Unblocked, MayCheck, Single, Upcoming, InLoop
<1>2. PICK c \in Jails : c = cur
  BY <1>1 DEF IInv, Owner
<1>3. CASE SkipFailed \/ BadParams \/ RunningJid \/ FinishNothing
             \/ FinishCommand
  BY <1>2, <1>3, SkipFailedOrder, BadParamsOrder, RunningJidOrder,
     FinishNothingOrder, FinishCommandOrder
<1>4. CASE Turn \/ TurnRestart \/ NotFound \/ BeginStop \/ NotRunning
             \/ AbandonStop \/ Update
  <2>1. pc = "op"
    BY <1>4 DEF Turn, TurnRestart, NotFound, BeginStop, NotRunning,
       AbandonStop, Update, Single
  <2> QED
    BY <1>2, <1>4, <2>1, OnlyStart
<1>5. CASE Exists \/ WaitForOthers \/ BeginStart \/ AlreadyRuns \/ Resume
             \/ Done
  BY <1>2, <1>5, ExistsOrder, WaitForOthersOrder, BeginStartOrder,
     AlreadyRunsOrder, ResumeOrder, DoneOrder
<1>6. CASE WaitForSlot \/ EnterCommands \/ CommandsEnd \/ LeaveList
             \/ PassCommand \/ RunCommand \/ TermProcs \/ CreateJail
             \/ RemoveJail
  BY <1>2, <1>6, WaitForSlotOrder, EnterCommandsOrder, CommandsEndOrder,
     PassCommandOrder, RunCommandOrder, NoTermProcs, CreateJailOrder,
     RemoveJailOrder
<1> QED
  BY <1>3, <1>4, <1>5, <1>6 DEF MainLoop

-----------------------------------------------------------------------------
(* next_jail(), the end and the steps before the main loop.                *)

(* The jail the main loop takes up is as it was left.                      *)
LEMMA TakeOrder ==
  ASSUME IInv, OInv, NEW c \in Jails, queue[c] # "cfjails", pc = "next",
         NEW F \in {flags[c], flags[c] \cup {"TIMEOUT"}},
         Take(c, [flags EXCEPT ![c] = F]),
         UNCHANGED <<list, pos, jid, up>>
  PROVE  OInv'
<1> DEFINE f == [flags EXCEPT ![c] = F]
           s == [Sched EXCEPT !.flags = f]
           t == Requeue(s, {c}, "cfjails", {})
<1>1. flags \in [Jails -> SUBSET Flag]
  BY DEF IInv, TypeOK
<1>2. f \in [Jails -> SUBSET Flag]
  BY <1>1 DEF Flag
<1>3. \A k \in Jails : f[k] = IF k = c THEN F ELSE flags[k]
  BY <1>1
<1>4. \A k \in Jails : /\ Ops(f[k]) = Ops(flags[k])
                       /\ "FAILED" \in flags[k] => "FAILED" \in f[k]
  BY <1>3 DEF Ops, OpFlag
<1>5. Become(t) /\ cur' = c /\ pc' = "begin"
  BY DEF Take
<1> HIDE DEF f
<1>6. /\ s \in SchedType /\ Ordered(s) /\ Grows(Sched, s, c) /\ s.seen = seen
  BY <1>2, <1>4, FlagsOrder
<1> HIDE DEF s
<1>7. "cfjails" \in Queue
  BY DEF Queue
<1>8. Moved(s, t, {c}, "cfjails")
  BY <1>6, <1>7, RequeueOne
<1> HIDE DEF t
<1>9. /\ t \in SchedType /\ t.flags = s.flags /\ t.ndeps = s.ndeps
      /\ t.seen = s.seen /\ t.queue[c] = "cfjails"
      /\ \A k \in Jails : k # c => t.queue[k] = s.queue[k]
  BY <1>8 DEF Moved
<1>10. Ordered(t) /\ Grows(s, t, c)
  BY <1>6, <1>9, SameOrder
<1>11. Grows(Sched, t, c)
  BY <1>6, <1>10, GrowsTrans
<1>12. /\ \A e \in seen : e \in seen'
       /\ \A k \in Jails : "FAILED" \in flags[k] => "FAILED" \in flags'[k]
  BY <1>5, <1>11, BecomeGrows
<1>13. Fit(c)'
  <2>1. Fit(c)
    BY DEF OInv
  <2>2. Met(c) => Met(c)'
    BY <1>12 DEF Met
  <2>3. Taken(c) => Taken(c)'
    BY <1>12 DEF Taken
  <2> QED
    BY <1>12, <2>1, <2>2, <2>3 DEF Fit
<1>14. Held(c) /\ Begun /\ Begun' /\ pc \notin InLoop /\ pc' # "done"
  BY <1>5 DEF Held, Begun, InLoop
<1>15. queue'[c] = "cfjails"
  BY <1>5, <1>9 DEF Become
<1>16. \A e \in t.seen \ seen : Known(e)'
  BY <1>6, <1>9
<1> QED
  BY <1>5, <1>9, <1>10, <1>11, <1>13, <1>14, <1>15, <1>16, OrderStep

(* next_jail() and next_proc() keep the order.                             *)
LEMMA NextJailOrder ==
  ASSUME IInv, OInv, NEW j \in Jails,
         \/ \E bad \in BOOLEAN : CommandExits(j, bad)
         \/ CommandTimesOut(j)
         \/ NextReady(j)
  PROVE  OInv'
<1>1. /\ queue[j] # "cfjails" /\ pc = "next"
      /\ UNCHANGED <<list, pos, jid, up>>
  BY DEF CommandExits, CommandTimesOut, NextReady, coms
<1>2. flags = [flags EXCEPT ![j] = flags[j]]
  BY DEF IInv, TypeOK
<1>3. \/ Take(j, flags)
      \/ Take(j, [flags EXCEPT ![j] = flags[j] \cup {"TIMEOUT"}])
  BY DEF CommandExits, CommandTimesOut, NextReady
<1>4. CASE Take(j, flags)
  <2>1. Take(j, [flags EXCEPT ![j] = flags[j]])
    BY <1>2, <1>4
  <2> QED
    BY <1>1, <2>1, TakeOrder
<1>5. CASE Take(j, [flags EXCEPT ![j] = flags[j] \cup {"TIMEOUT"}])
  BY <1>1, <1>5, TakeOrder
<1> QED
  BY <1>3, <1>4, <1>5

(* A step that leaves the jails alone does too.                            *)
LEMMA QuietOrder ==
  ASSUME OInv,
         UNCHANGED <<flags, ndeps, seen, queue, ahead, list, pos, jid, up, cur>>,
         pc' = pc \/ (pc = "next" /\ pc' = "exit")
  PROVE  OInv'
<1>1. /\ pc' \in InLoop <=> pc \in InLoop
      /\ pc' = "done" <=> pc = "done"
      /\ Begun' <=> Begun
      /\ pc' = "setup" <=> pc = "setup"
  BY DEF InLoop, Begun
<1>2. Ordered(Sched)'
  BY DEF OInv, Ordered, Sched
<1>3. \A j \in Jails : (Held(j)' <=> Held(j)) /\ (Served(j)' <=> Served(j))
  BY <1>1 DEF Held, Served, Through
<1>4. \A e \in seen : Known(e) => Known(e)'
  BY <1>1 DEF Known, Served, Held, Through
<1>5. \A j \in Jails : Fit(j)'
  BY DEF OInv, Fit, Met, Taken
<1>6. InHand'
  BY <1>1 DEF OInv, InHand, Through
<1> QED
  BY <1>1, <1>2, <1>3, <1>4, <1>5, <1>6 DEF OInv

(* Before the main loop nothing is asked of a jail.                        *)
LEMMA BeforeLoopOrder ==
  ASSUME OInv, IInv', Kept, pc' = "loops", UNCHANGED <<list, jid, up>>
  PROVE  OInv'
<1>1. /\ \A k \in Jails : flags'[k] \in SUBSET {"FAILED"}
      /\ \A k \in Jails : list'[k] = "NULL"
  BY DEF IInv, Fresh
<1>2. Ordered(Sched)'
  BY <1>1 DEF Ordered, Sched, Ops, OpFlag
<1>3. ASSUME NEW k \in Jails
      PROVE  Fit(k)'
  <2>1. Taken(k) => Taken(k)'
    BY DEF Taken, Kept
  <2>2. Fit(k)
    BY DEF OInv
  <2> QED
    BY <1>1, <2>1, <2>2 DEF Fit
<1>4. InHand' /\ ~Begun' /\ pc' # "setup"
  BY DEF InHand, InLoop, Begun
<1> QED
  BY <1>2, <1>3, <1>4 DEF OInv

(* start_state() counts what the jails of the command line depend on, and  *)
(* forgets what the loop check has seen.                                   *)
LEMMA JailMainOrder ==
  ASSUME IInv, OInv, given \in Given, Op = {"START"}, JailMain
  PROVE  OInv'
<1> DEFINE S == IF Target = "all" THEN Jails ELSE Named
           ops == Op \cup (IF Target = "named" THEN {} ELSE {"WILD"})
           all == (Target = "all")
           s == [Sched EXCEPT !.seen = {}]
           t == StartState(s, S, ops, all)
<1>1. /\ pc \in {"setup", "loops"} /\ pc' = "next" /\ Become(t)
      /\ UNCHANGED <<list, jid, up>>
  BY DEF JailMain, coms
<1>2. given \in GivenType
  BY CommandLineAssumption
<1>3. S \in Group
  BY <1>2 DEF Named, GivenType, Group
<1>4. /\ ops \in SUBSET Flag /\ "START" \in ops
      /\ ops \cap {"SET", "STOP"} = {}
  BY DEF Flag, OpFlag
<1>5. Sched \in SchedType /\ Sched.flags = flags /\ Sched.queue = queue
  BY SchedIn DEF IInv
<1>6. /\ s \in SchedType /\ s.flags = flags /\ s.queue = queue
      /\ s.seen = {}
  BY <1>5 DEF SchedType
<1>7. \A k \in Jails : queue[k] = "cfjails"
  BY DEF JailMain, OInv
<1> HIDE DEF s, S, ops, all
<1>8. Launched(s, t, S, ops, all)
  BY <1>3, <1>4, <1>6, StartStateWhole
<1> HIDE DEF t
<1>9. \A k \in Jails : flags[k] \in SUBSET {"FAILED"} /\ list[k] = "NULL"
  BY <1>1 DEF IInv, Fresh
<1>10. t \in SchedType /\ t.seen = {}
  BY <1>6, <1>8 DEF Launched
<1>11. ASSUME NEW k \in Jails
       PROVE  /\ Ops(t.flags[k]) \in SUBSET {"START"}
              /\ "START" \in t.flags[k] <=> k \in S
              /\ "FAILED" \in flags[k] => "FAILED" \in t.flags[k]
              /\ k \in S => t.ndeps[k] = Cardinality(Waits(t.flags[k], k))
              /\ k \notin S => t.queue[k] = "cfjails"
  <2>1. t.flags[k] = IF k \in S THEN (flags[k] \cap {"FAILED"}) \cup ops
                                ELSE flags[k]
    BY <1>6, <1>8 DEF Launched
  <2>2. Ops(t.flags[k]) \in SUBSET {"START"}
    BY <1>4, <1>9, <2>1 DEF Ops, OpFlag
  <2>3. /\ "START" \in t.flags[k] <=> k \in S
        /\ "FAILED" \in flags[k] => "FAILED" \in t.flags[k]
    BY <1>4, <1>9, <2>1
  <2>4. /\ k \in S => t.ndeps[k] = Cardinality(Waits(t.flags[k], k))
        /\ k \notin S => t.queue[k] = "cfjails"
    BY <1>6, <1>7, <1>8 DEF Launched
  <2> QED
    BY <2>2, <2>3, <2>4
<1>12. ASSUME NEW k \in Jails, "START" \in t.flags[k]
       PROVE  t.ndeps[k] >= Cardinality(Needs(k) \ t.seen)
  <2>1. Waits(t.flags[k], k) = Needs(k)
    BY <1>11, StartsWaits
  <2>2. Needs(k) \ t.seen = Needs(k)
    BY <1>10
  <2>3. Cardinality(Needs(k) \ {}) \in Nat
    BY NeedsCount
  <2>4. t.ndeps[k] = Cardinality(Needs(k))
    BY <1>11, <1>12, <2>1
  <2>5. Needs(k) \ {} = Needs(k)
    OBVIOUS
  <2> QED
    BY <2>2, <2>3, <2>4, <2>5
<1>13. Ordered(t)
  BY <1>11, <1>12 DEF Ordered
<1>14. Ordered(Sched)'
  BY <1>1, <1>10, <1>13, BecomeOrder
<1>15. flags' = t.flags /\ queue' = t.queue /\ seen' = {}
  BY <1>1, <1>10 DEF Become
<1>16. pc' \notin InLoop /\ pc' # "done" /\ pc' # "setup"
  BY <1>1 DEF InLoop
<1>17. ASSUME NEW k \in Jails, Held(k)'
       PROVE  "START" \in flags'[k]
  BY <1>11, <1>15, <1>16, <1>17 DEF Held
<1>18. ASSUME NEW k \in Jails
       PROVE  Fit(k)'
  <2>1. Taken(k) => Taken(k)'
    BY <1>11, <1>15 DEF Taken
  <2>2. Fit(k)
    BY DEF OInv
  <2> QED
    BY <1>1, <1>9, <2>1, <2>2 DEF Fit
<1> QED
  BY <1>14, <1>15, <1>16, <1>17, <1>18 DEF OInv, InHand

-----------------------------------------------------------------------------
(* The theorems.                                                           *)

(* No step changes what is asked of the program.                           *)
LEMMA OpStays ==
  ASSUME [Next]_vars
  PROVE  Op' = Op
<1>1. given' = given
  BY DEF Next, DepSetup, LoopCheck, JailMain, CommandExits, CommandTimesOut,
     NextReady, Exit, MainLoop, SkipFailed, BadParams, RunningJid,
     FinishNothing, FinishCommand, Turn, TurnRestart, TurnInto, Refuse, Exists,
     NotFound, WaitForOthers, BeginStart, BeginStop, Begin, AlreadyRuns,
     NotRunning, AbandonStop, Resume, Update, Done, WaitForSlot, EnterCommands,
     CommandsEnd, LeaveList, PassCommand, RunCommand, TermProcs, CreateJail,
     RemoveJail, vars
<1> QED
  BY <1>1 DEF Op

(* The invariant holds initially                                           *)
LEMMA InitOInv == Init => OInv
<1> SUFFICES ASSUME Init
             PROVE  OInv
  OBVIOUS
<1>1. /\ pc = "setup" /\ seen = {}
      /\ \A k \in Jails : /\ flags[k] \in SUBSET {"FAILED"}
                          /\ list[k] = "NULL" /\ jid[k] = 0
                          /\ queue[k] = "cfjails"
  BY DEF Init
<1>2. Ordered(Sched)
  BY <1>1 DEF Ordered, Sched, Ops, OpFlag
<1>3. \A k \in Jails : Fit(k)
  BY <1>1 DEF Fit
<1> QED
  BY <1>1, <1>2, <1>3 DEF OInv, Begun, InHand, InLoop

(* and every step of a program that is asked to start jails keeps it.      *)
LEMMA NextOInv ==
  ASSUME IInv, OInv, given \in Given, Op = {"START"}, [Next]_vars
  PROVE  OInv'
<1>1. CASE DepSetup \/ \E j \in Jails : LoopCheck(j)
  <2>1. IInv' /\ Kept
    BY <1>1, DepSetupStep, LoopCheckStep
  <2>2. pc' = "loops" /\ UNCHANGED <<list, jid, up>>
    BY <1>1 DEF DepSetup, LoopCheck, coms
  <2> QED
    BY <2>1, <2>2, BeforeLoopOrder
<1>2. CASE JailMain
  BY <1>2, JailMainOrder
<1>3. CASE \/ \E j \in Jails, bad \in BOOLEAN : CommandExits(j, bad)
           \/ \E j \in Jails : CommandTimesOut(j)
           \/ \E j \in Jails : NextReady(j)
  <2>1. PICK j \in Jails : \/ \E bad \in BOOLEAN : CommandExits(j, bad)
                           \/ CommandTimesOut(j)
                           \/ NextReady(j)
    BY <1>3
  <2> QED
    BY <2>1, NextJailOrder
<1>4. CASE Exit \/ UNCHANGED vars
  BY <1>4, QuietOrder DEF Exit, vars, sched, coms
<1>5. CASE MainLoop
  BY <1>5, MainLoopOrder
<1> QED
  BY <1>1, <1>2, <1>3, <1>4, <1>5 DEF Next

(* With -c every jail that goes on has seen the jails it depends on come   *)
(* to the end of their start commands, in every state.                     *)
THEOREM OrderInvariance == Spec => [](Op = {"START"} => OInv)
<1>1. IInv /\ (Op = {"START"} => OInv) /\ given \in Given /\ [Next]_vars
        => (Op = {"START"} => OInv)'
  BY NextOInv, OpStays
<1>2. Init => (Op = {"START"} => OInv)
  BY InitOInv
<1> QED
  BY <1>1, <1>2, Invariance, Rigid, PTL DEF Spec

(* jail_set(2) is the only step that brings a jail up.                     *)
LEMMA OnlyCreateStarts ==
  ASSUME [Next]_vars, NEW j \in up' \ up
  PROVE  CreateJail
BY DEF Next, DepSetup, LoopCheck, JailMain, CommandExits, CommandTimesOut,
   NextReady, Exit, MainLoop, SkipFailed, BadParams, RunningJid,
   FinishNothing, FinishCommand, Turn, TurnRestart, TurnInto, Refuse, Exists,
   NotFound, WaitForOthers, BeginStart, BeginStop, Begin, AlreadyRuns,
   NotRunning, AbandonStop, Resume, Update, Done, WaitForSlot, EnterCommands,
   CommandsEnd, LeaveList, PassCommand, RunCommand, TermProcs, RemoveJail,
   vars

(* With -c a jail is created only behind what it depends on: those jails   *)
(* have gone through their start commands and still run, unless a failed   *)
(* jail around one took it down, and the jails around it run.  jail_main() *)
(* calls dep_check() before it begins a start, and dep_done() of a jail    *)
(* that goes on only behind its last command.                              *)
THEOREM CreatedAfter == Spec => StartedInOrder
<1>1. ASSUME IInv, Op = {"START"} => OInv, [Next]_vars,
             NEW j \in up' \ up, NEW e \in Edge,
             Op = {"START"}, Deps[e].from = j
      PROVE  IF Deps[e].light THEN Deps[e].to \in up
             ELSE Through(Deps[e].to) /\ (Deps[e].to \in up \/ Taken(Deps[e].to))
  <2> DEFINE d == Deps[e].to
  <2>1. CreateJail
    BY <1>1, OnlyCreateStarts
  <2>2. /\ pc = "command" /\ "FAILED" \notin flags[cur]
        /\ up' = up \cup {cur} \/ up' = up
        /\ up' # up => Outside(cur)
    BY <2>1 DEF CreateJail, Upcoming
  <2>3. j = cur /\ Outside(j)
    BY <1>1, <2>2
  <2>4. j \in Jails /\ d \in Jails
    BY <1>1, EdgeEnds
  <2>5. CASE Deps[e].light
    <3>1. <<j, d>> \in Under
      BY <1>1, <2>5, DepsAssumption
    <3> QED
      BY <2>3, <2>4, <2>5, <3>1 DEF Outside
  <2>6. CASE ~Deps[e].light
    <3>1. OInv
      BY <1>1
    <3>2. list[j] = "start"
      BY <1>1, <2>2, <2>3, <2>4, <3>1, StartNext
    <3>3. Met(j)
      BY <2>2, <2>3, <2>4, <3>1, <3>2 DEF OInv, Fit
    <3>4. e \in seen /\ Begun
      BY <1>1, <2>2, <2>6, <3>3 DEF Met, Needs, Begun
    <3>5. Served(d)
      BY <1>1, <2>2, <2>3, <2>6, <3>1, <3>4 DEF OInv, Known
    <3>6. Through(d) /\ jid[d] = 1
      BY <3>5 DEF Served
    <3>7. d \in up \/ Taken(d)
      BY <2>4, <3>1, <3>6 DEF OInv, Fit
    <3> QED
      BY <2>6, <3>6, <3>7
  <2> QED
    BY <2>5, <2>6
<1>2. IInv /\ (Op = {"START"} => OInv) /\ [Next]_vars =>
        [\A j \in up' \ up, e \in Edge : Op = {"START"} /\ Deps[e].from = j =>
           LET d == Deps[e].to
           IN  IF Deps[e].light THEN d \in up
               ELSE Through(d) /\ (d \in up \/ Taken(d))]_vars
  BY <1>1
<1> QED
  BY <1>2, Invariance, OrderInvariance, PTL DEF Spec, StartedInOrder

-----------------------------------------------------------------------------
(* The inductive invariant of a program that only stops jails.             *)

(* The edges of the jails that depend on j.                                *)
Inward(j) == {e \in Edge : Deps[e].to = j}

(* Jails are only stopped, and the count of one that is asked to stop is   *)
(* no less than the number of edges to it that are not seen.               *)
Lowered(s) ==
  \A k \in Jails :
    /\ Ops(s.flags[k]) \in SUBSET {"STOP"}
    /\ "STOP" \in s.flags[k] => s.ndeps[k] >= Cardinality(Inward(k) \ s.seen)

(* No jail that depends on j runs, nor one inside of it.                   *)
Alone(j) == \A e \in Inward(j) : Deps[e].from \notin up

(* Why an edge is seen.                                                    *)
Gone(e) == "FAILED" \in flags[Deps[e].to] \/ Deps[e].from \notin up

(* A jail on its way down is alone, and is looked up behind its removal;   *)
(* one that is not found is not there.                                     *)
Sinks(j) ==
  /\ jid[j] = -1 => j \notin up
  /\ list[j] # "start"
  /\ list[j] = "stop" /\ "FAILED" \notin flags[j] =>
       Alone(j) /\ (pos[j] >= 4 => jid[j] = -1)

DInv ==
  /\ Lowered(Sched)
  /\ Begun => \A j \in Jails : Held(j) => "STOP" \in flags[j]
  /\ Begun => \A e \in seen : Gone(e)
  /\ \A j \in Jails : Sinks(j)
  /\ pc = "done" => "FAILED" \in flags[cur] \/ cur \notin up
  /\ pc = "setup" => \A j \in Jails : queue[j] = "cfjails"

-----------------------------------------------------------------------------
(* What the functions of state.c do to the order of removal.               *)

(* From s to t no edge is forgotten, no order to stop and no failure, and  *)
(* no jail but c that is done with is taken up again.                      *)
Falls(s, t, c) ==
  /\ \A e \in s.seen : e \in t.seen
  /\ \A k \in Jails :
       /\ "STOP" \in s.flags[k] => "STOP" \in t.flags[k]
       /\ "FAILED" \in s.flags[k] => "FAILED" \in t.flags[k]
       /\ k # c /\ t.queue[k] # "cfjails" =>
            s.queue[k] # "cfjails" \/ "STOP" \in t.flags[k]

(* The edges to a jail are counted.                                        *)
LEMMA InwardCount ==
  ASSUME NEW j, NEW S
  PROVE  IsFiniteSet(Inward(j) \ S) /\ Cardinality(Inward(j) \ S) \in Nat
<1>1. Inward(j) \ S \in SUBSET Edge
  BY DEF Inward
<1> QED
  BY <1>1, EdgesFinite, FS_Subset, FS_CardinalityType

(* A jail that stops waits for what depends on it, and what it depends on  *)
(* waits for it.                                                           *)
LEMMA StopsWaits ==
  ASSUME NEW f, Ops(f) \in SUBSET {"STOP"}, NEW j
  PROVE  /\ "SET" \notin f /\ "START" \notin f
         /\ "STOP" \in f => /\ DoStop(f)
                            /\ Waits(f, j) = Inward(j)
                            /\ Frees(f, j) = {e \in Edge : Deps[e].from = j}
<1>1. "SET" \notin f /\ "START" \notin f
  BY DEF Ops, OpFlag
<1> SUFFICES ASSUME "STOP" \in f
             PROVE  /\ DoStop(f)
                    /\ Waits(f, j) = Inward(j)
                    /\ Frees(f, j) = {e \in Edge : Deps[e].from = j}
  BY <1>1
<1>2. DoStop(f)
  BY <1>1 DEF DoStop
<1>3. Waits(f, j) = {e \in Edge : j = Deps[e].to}
  BY <1>2 DEF Waits
<1>4. Frees(f, j) = {e \in Edge : j = Deps[e].from}
  BY <1>2 DEF Frees
<1> QED
  BY <1>2, <1>3, <1>4 DEF Inward

(* What changes no operation and no count, and takes up no other jail.     *)
LEMMA SameDown ==
  ASSUME NEW s \in SchedType, NEW t \in SchedType, NEW c, Lowered(s),
         t.ndeps = s.ndeps, t.seen = s.seen,
         \A k \in Jails :
           /\ Ops(t.flags[k]) = Ops(s.flags[k])
           /\ "FAILED" \in s.flags[k] => "FAILED" \in t.flags[k]
           /\ k # c /\ t.queue[k] # "cfjails" => s.queue[k] # "cfjails"
  PROVE  Lowered(t) /\ Falls(s, t, c)
<1>1. \A k \in Jails : "STOP" \in t.flags[k] <=> "STOP" \in s.flags[k]
  BY InOps DEF OpFlag
<1> QED
  BY <1>1 DEF Lowered, Falls

(* Two changes that keep the order keep it.                                *)
LEMMA FallsTrans ==
  ASSUME NEW s, NEW t, NEW u, NEW c, Falls(s, t, c), Falls(t, u, c)
  PROVE  Falls(s, u, c)
BY DEF Falls

(* failed() keeps the order.                                               *)
LEMMA FailedDown ==
  ASSUME NEW s \in SchedType, NEW c \in Jails, Lowered(s)
  PROVE  LET t == Failed(s, c)
         IN  /\ t \in SchedType /\ Lowered(t) /\ Falls(s, t, c)
             /\ "FAILED" \in t.flags[c] /\ t.seen = s.seen
<1> DEFINE t == Failed(s, c)
<1>1. /\ t \in SchedType
      /\ t.flags = [s.flags EXCEPT ![c] = @ \cup {"FAILED"}]
      /\ t.ndeps = s.ndeps /\ t.seen = s.seen
      /\ \A k \in Jails :
           t.queue[k] = IF k = c THEN "ready" ELSE s.queue[k]
  BY FailedFacts
<1> HIDE DEF t
<1>2. s.flags \in [Jails -> SUBSET Flag]
  BY DEF SchedType
<1>3. \A k \in Jails : \/ t.flags[k] = s.flags[k]
                       \/ t.flags[k] = s.flags[k] \cup {"FAILED"}
  BY <1>1, <1>2
<1>4. \A k \in Jails : Ops(t.flags[k]) = Ops(s.flags[k])
  BY <1>3, FailedNoOp
<1>5. Lowered(t) /\ Falls(s, t, c)
  BY <1>1, <1>3, <1>4, SameDown
<1>6. "FAILED" \in t.flags[c]
  BY <1>1, <1>2
<1> QED
  BY <1>1, <1>5, <1>6 DEF t

(* From s to t edges of c are seen, and of a failure those it depends on   *)
(* are told.                                                               *)
Warns(s, t, c) ==
  /\ t \in SchedType /\ Lowered(t) /\ Falls(s, t, c)
  /\ \A e \in t.seen \ s.seen :
       /\ e \in Edge /\ Deps[e].from = c
       /\ "FAILED" \in s.flags[c] => "FAILED" \in t.flags[Deps[e].to]

(* dep_done() of a jail that stops counts down those it depends on.        *)
LEMMA DepDoneDown ==
  ASSUME NEW s \in SchedType, NEW c \in Jails, NEW light \in BOOLEAN,
         Lowered(s), "STOP" \in s.flags[c]
  PROVE  Warns(s, DepDone(s, c, light, FALSE), c)
<1> DEFINE t == DepDone(s, c, light, FALSE)
           new == Resolved(s, c, light)
<1>1. Announced(s, t, c, light, FALSE)
  BY DepDoneWhole
<1>2. Alike(s, t)
  BY DepDoneAlike
<1> HIDE DEF t
<1>3. t \in SchedType /\ t.seen = s.seen \cup new
  BY <1>1 DEF Announced
<1>4. Ops(s.flags[c]) \in SUBSET {"STOP"}
  BY DEF Lowered
<1>5. \A e \in new : e \in Edge /\ Deps[e].from = c /\ e \notin s.seen
  BY <1>4, StopsWaits DEF Resolved
<1>6. \A k \in Jails : Told(s, c, light, k) = {e \in new : Deps[e].to = k}
  BY <1>5 DEF Told, Far
<1>7. "FAILED" \in s.flags[c] => Spreads(s.flags[c])
  <2>1. "SET" \notin s.flags[c]
    BY <1>4, StopsWaits
  <2> QED
    BY <2>1 DEF Spreads
<1>8. ASSUME NEW k \in Jails
      PROVE  /\ t.ndeps[k] = s.ndeps[k] - Cardinality(Told(s, c, light, k))
             /\ \/ t.flags[k] = s.flags[k]
                \/ t.flags[k] = s.flags[k] \cup {"FAILED"}
             /\ Told(s, c, light, k) # {} /\ "FAILED" \in s.flags[c] =>
                  "FAILED" \in t.flags[k]
             /\ t.queue[k] # "cfjails" => s.queue[k] # "cfjails"
  BY <1>1, <1>7 DEF Announced
<1> HIDE DEF new
<1>9. ASSUME NEW e \in t.seen \ s.seen
      PROVE  /\ e \in Edge /\ Deps[e].from = c
             /\ "FAILED" \in s.flags[c] => "FAILED" \in t.flags[Deps[e].to]
  <2>1. e \in new /\ e \in Edge /\ Deps[e].to \in Jails
    BY <1>3, <1>5, EdgeEnds
  <2>2. Told(s, c, light, Deps[e].to) # {}
    BY <1>6, <2>1
  <2> QED
    BY <1>5, <1>8, <2>1, <2>2
<1>10. Falls(s, t, c)
  BY <1>3, <1>8 DEF Falls
<1>11. ASSUME NEW k \in Jails
       PROVE  /\ Ops(t.flags[k]) = Ops(s.flags[k])
              /\ "STOP" \in t.flags[k] <=> "STOP" \in s.flags[k]
  BY <1>2, InOps DEF Alike, OpFlag
<1>12. ASSUME NEW k \in Jails, "STOP" \in t.flags[k]
       PROVE  t.ndeps[k] >= Cardinality(Inward(k) \ t.seen)
  <2> DEFINE left == Inward(k) \ s.seen
             told == Told(s, c, light, k)
  <2>1. left \cap told = told /\ Inward(k) \ t.seen = left \ told
    BY <1>3, <1>5, <1>6 DEF Inward
  <2>2. told \in SUBSET Edge
    BY <1>5, <1>6
  <2>3. IsFiniteSet(left) /\ Cardinality(left) \in Nat
    BY InwardCount
  <2>4. Cardinality(told) \in Nat
    BY <2>2, EdgeCount
  <2>5. s.ndeps[k] \in Int /\ s.ndeps[k] >= Cardinality(left)
    BY <1>11, <1>12 DEF Lowered, SchedType
  <2> HIDE DEF left, told
  <2>6. Cardinality(left \ told) = Cardinality(left) - Cardinality(left \cap told)
    BY <2>3, FS_Difference
  <2>7. t.ndeps[k] = s.ndeps[k] - Cardinality(told)
    BY <1>8 DEF told
  <2>8. Cardinality(Inward(k) \ t.seen) = Cardinality(left) - Cardinality(told)
    BY <2>1, <2>6
  <2> QED
    BY <2>3, <2>4, <2>5, <2>7, <2>8
<1>13. Lowered(t)
  BY <1>11, <1>12 DEF Lowered
<1> QED
  BY <1>3, <1>9, <1>10, <1>13 DEF t, Warns

(* From s to t what c waits for is asked to stop; when nothing holds c     *)
(* back and none of them has failed, it has seen all its edges but the     *)
(* light ones from jails that are not there.                               *)
Clears(s, t, c) ==
  /\ t \in SchedType /\ Lowered(t) /\ Falls(s, t, c)
  /\ t.seen = s.seen
  /\ ~Blocked(s, c) /\ "FAILED" \notin t.flags[c] =>
       \A e \in Inward(c) : jid[Deps[e].from] < 0 \/ e \in s.seen

(* dep_check() of a jail that stops asks those it waits for to stop, and   *)
(* counts the edges of each that had nothing to do.                        *)
LEMMA DepCheckDown ==
  ASSUME NEW s \in SchedType, NEW c \in Jails, Lowered(s),
         "STOP" \in s.flags[c]
  PROVE  Clears(s, DepCheck(s, c), c)
<1> DEFINE t == DepCheck(s, c)
<1>1. Drew(s, t, c)
  BY DepCheckWhole
<1> HIDE DEF t
<1>2. t \in SchedType /\ t.seen = s.seen
  BY <1>1 DEF Drew
<1>3. DoStop(s.flags[c]) /\ Waits(s.flags[c], c) = Inward(c)
  BY StopsWaits DEF Lowered
<1>4. ASSUME NEW k \in Jails
      PROVE  /\ Ops(NewFlags(s, c, k)) \in SUBSET {"STOP"}
             /\ "STOP" \in s.flags[k] => "STOP" \in NewFlags(s, c, k)
             /\ "FAILED" \in s.flags[k] => "FAILED" \in NewFlags(s, c, k)
             /\ k \in Idlers(s, c) <=>
                  "STOP" \notin s.flags[k] /\ "STOP" \in NewFlags(s, c, k)
             /\ k \in Recounted(s, c) <=> k \in Idlers(s, c)
  <2>1. "STOP" \in s.flags[k] => Ops(s.flags[k]) # {}
    BY DEF Ops, OpFlag
  <2>2. Ops(s.flags[k]) \in SUBSET {"STOP"} /\ "SET" \notin s.flags[k]
    BY StopsWaits DEF Lowered
  <2>3. Drawn(s.flags[c], s.flags[k]) = s.flags[k] \cup {"STOP"}
    BY <2>2 DEF Drawn
  <2>4. Ops(NewFlags(s, c, k)) = Ops(IF k \in Called(s, c)
                                       THEN s.flags[k] \cup {"STOP"}
                                       ELSE s.flags[k])
    BY <2>3, NewFlagsFacts
  <2>5. Ops(s.flags[k] \cup {"STOP"}) = {"STOP"}
    BY <2>2 DEF Ops, OpFlag
  <2>6. "STOP" \in NewFlags(s, c, k) <=> "STOP" \in Ops(NewFlags(s, c, k))
    BY InOps DEF OpFlag
  <2>7. "STOP" \in s.flags[k] <=> "STOP" \in Ops(s.flags[k])
    BY InOps DEF OpFlag
  <2>8. Ops(s.flags[k]) = {} <=> "STOP" \notin s.flags[k]
    BY <2>1, <2>2, <2>7
  <2>9. k \in Idlers(s, c) <=> k \in Called(s, c) /\ Ops(s.flags[k]) = {}
    BY DEF Idlers
  <2>10. "FAILED" \in s.flags[k] => "FAILED" \in NewFlags(s, c, k)
    BY NewFlagsFacts
  <2>11. k \in Recounted(s, c) <=> k \in Idlers(s, c)
    BY <2>8, <2>9 DEF Recounted
  <2> QED
    BY <2>2, <2>4, <2>5, <2>6, <2>7, <2>8, <2>9, <2>10, <2>11
<1>5. ASSUME NEW k \in Jails
      PROVE  /\ t.flags[k] = NewFlags(s, c, k)
             /\ t.ndeps[k] = IF k \in Idlers(s, c)
                               THEN Cardinality(Waits(t.flags[k], k))
                               ELSE s.ndeps[k]
             /\ t.queue[k] = IF k = c /\ Blocked(s, c) THEN "depend"
                             ELSE IF k \in Idlers(s, c) THEN "ready"
                             ELSE s.queue[k]
  BY <1>1, <1>4 DEF Drew
<1>6. Falls(s, t, c)
  BY <1>2, <1>4, <1>5 DEF Falls
<1>7. ASSUME NEW k \in Jails, "STOP" \in t.flags[k]
      PROVE  t.ndeps[k] >= Cardinality(Inward(k) \ t.seen)
  <2>1. CASE k \in Idlers(s, c)
    <3>1. t.ndeps[k] = Cardinality(Inward(k))
      BY <1>4, <1>5, <1>7, <2>1, StopsWaits
    <3>2. Inward(k) \ {} = Inward(k)
      OBVIOUS
    <3>3. IsFiniteSet(Inward(k)) /\ Cardinality(Inward(k)) \in Nat
      BY <3>2, InwardCount
    <3>4. Cardinality(Inward(k) \ t.seen) <= Cardinality(Inward(k))
      BY <3>3, FS_Subset
    <3>5. Cardinality(Inward(k) \ t.seen) \in Nat
      BY InwardCount
    <3> QED
      BY <3>1, <3>3, <3>4, <3>5
  <2>2. CASE k \notin Idlers(s, c)
    BY <1>2, <1>4, <1>5, <1>7, <2>2 DEF Lowered
  <2> QED
    BY <2>1, <2>2
<1>8. Lowered(t)
  BY <1>4, <1>5, <1>7 DEF Lowered
<1>9. ASSUME ~Blocked(s, c), "FAILED" \notin t.flags[c],
             NEW e \in Inward(c), e \notin s.seen
      PROVE  jid[Deps[e].from] < 0
  <2>1. s.ndeps[c] # 0
    <3>1. IsFiniteSet(Inward(c) \ s.seen) /\ Cardinality(Inward(c) \ s.seen) \in Nat
      BY InwardCount
    <3>2. Cardinality(Inward(c) \ s.seen) # 0
      BY <1>9, <3>1, FS_EmptySet
    <3> QED
      BY <3>1, <3>2 DEF Lowered
  <2>2. e \in Pending(s, c)
    BY <1>3, <1>9, <2>1 DEF Pending
  <2>3. ~Lost(s, c)
    BY <1>5, <1>9 DEF NewFlags
  <2>4. Far(e, c) = Deps[e].from \/ Deps[e].from = c
    BY DEF Far
  <2>5. LightlyMet(s.flags[c], Far(e, c))
    BY <1>9, <2>2, <2>3 DEF Blocked, Lost
  <2>6. jid[Far(e, c)] < 0
    BY <1>3, <2>5 DEF LightlyMet
  <2>7. Deps[e].from = c => Far(e, c) = c
    BY <1>9 DEF Far, Inward
  <2> QED
    BY <2>4, <2>6, <2>7
<1> QED
  BY <1>2, <1>6, <1>8, <1>9 DEF t, Clears

-----------------------------------------------------------------------------
(* One step of a main loop that only stops jails.                          *)

(* It is enough to look at the jail the loop holds, or takes up, and at    *)
(* the edges that it sees.                                                 *)
LEMMA DownStep ==
  ASSUME IInv, DInv, Begun, Begun', NEW c \in Jails, Held(c),
         NEW t \in SchedType, Become(t), Lowered(t), Falls(Sched, t, c),
         pc \in InLoop => c = cur,
         cur' = c \/ pc' \notin InLoop,
         \A k \in Jails \ {c} : /\ list'[k] = list[k] /\ pos'[k] = pos[k]
                                /\ jid'[k] = jid[k],
         up' \in SUBSET up,
         \A e \in t.seen \ seen : Gone(e)',
         Sinks(c)',
         pc' = "done" => "FAILED" \in flags'[c] \/ c \notin up'
  PROVE  DInv'
<1>1. /\ \A e \in seen : e \in seen'
      /\ \A k \in Jails :
           /\ "STOP" \in flags[k] => "STOP" \in flags'[k]
           /\ "FAILED" \in flags[k] => "FAILED" \in flags'[k]
           /\ k # c /\ queue'[k] # "cfjails" =>
                queue[k] # "cfjails" \/ "STOP" \in flags'[k]
  BY DEF Become, Falls, Sched
<1>2. Lowered(Sched)'
  BY DEF Become, Lowered, Sched
<1>3. \A k \in Jails : Held(k) => "STOP" \in flags[k]
  BY DEF DInv
<1>4. ASSUME NEW k \in Jails, Held(k)'
      PROVE  "STOP" \in flags'[k]
  <2>1. CASE k = c
    BY <1>1, <1>3, <2>1
  <2>2. CASE k # c
    <3>1. queue'[k] # "cfjails"
      BY <1>4, <2>2 DEF Held
    <3> QED
      BY <1>1, <1>3, <2>2, <3>1 DEF Held
  <2> QED
    BY <2>1, <2>2
<1>5. ASSUME NEW e \in seen'
      PROVE  Gone(e)'
  <2>1. CASE e \in seen
    <3>1. e \in Edge
      BY <2>1 DEF IInv, TypeOK
    <3>2. Gone(e)
      BY <2>1 DEF DInv
    <3>3. Deps[e].to \in Jails
      BY <3>1, EdgeEnds
    <3> QED
      BY <1>1, <3>2, <3>3 DEF Gone
  <2>2. CASE e \notin seen
    BY <1>5, <2>2 DEF Become
  <2> QED
    BY <2>1, <2>2
<1>6. ASSUME NEW k \in Jails
      PROVE  Sinks(k)'
  <2>1. CASE k # c
    <3>1. Sinks(k)
      BY DEF DInv
    <3>2. Alone(k) => Alone(k)'
      BY DEF Alone
    <3>3. jid'[k] = -1 => k \notin up'
      BY <2>1, <3>1 DEF Sinks
    <3>4. /\ list'[k] # "start"
          /\ list'[k] = "stop" /\ "FAILED" \notin flags'[k] =>
               Alone(k)' /\ (pos'[k] >= 4 => jid'[k] = -1)
      BY <1>1, <2>1, <3>1, <3>2 DEF Sinks
    <3> QED
      BY <3>3, <3>4 DEF Sinks
  <2> QED
    BY <2>1
<1>7. pc' = "done" => "FAILED" \in flags'[cur'] \/ cur' \notin up'
  BY DEF InLoop
<1> QED
  BY <1>2, <1>4, <1>5, <1>6, <1>7 DEF DInv, Begun

(* The jail the loop holds is to be stopped, and nothing else.             *)
LEMMA StopInHand ==
  ASSUME IInv, DInv, NEW c \in Jails, c = cur, pc \in InLoop
  PROVE  /\ Begun /\ Held(c) /\ TypeOK
         /\ Sched \in SchedType /\ Lowered(Sched)
         /\ Sched.flags = flags /\ Sched.queue = queue /\ Sched.seen = seen
         /\ "STOP" \in flags[c] /\ DoStop(flags[c])
         /\ "SET" \notin flags[c] /\ "START" \notin flags[c]
<1>1. Begun /\ Held(c)
  BY DEF Begun, Held, InLoop
<1>2. TypeOK
  BY DEF IInv
<1>3. /\ Sched \in SchedType /\ Sched.flags = flags
      /\ Sched.queue = queue /\ Sched.seen = seen
  BY <1>2, SchedIn DEF Sched
<1>4. Lowered(Sched) /\ "STOP" \in flags[c]
  BY <1>1 DEF DInv
<1>5. Ops(flags[c]) \in SUBSET {"STOP"}
  BY <1>3, <1>4 DEF Lowered
<1> QED
  BY <1>1, <1>2, <1>3, <1>4, <1>5, StopsWaits

(* Steps that move no command cursor, look nothing up and take nothing     *)
(* down.                                                                   *)
LEMMA CalmDown ==
  ASSUME IInv, DInv, NEW c \in Jails, c = cur, pc \in InLoop, Begun',
         NEW t \in SchedType, Become(t), Lowered(t), Falls(Sched, t, c),
         \A e \in t.seen \ seen : Gone(e)',
         UNCHANGED <<coms, jid, up>>,
         cur' = cur \/ pc' \notin InLoop,
         pc' = "done" => "FAILED" \in flags'[c] \/ c \notin up
  PROVE  DInv'
<1>1. Begun /\ Held(c)
  BY StopInHand
<1>2. list' = list /\ pos' = pos /\ jid' = jid /\ up' = up
  BY DEF coms
<1>3. "FAILED" \in flags[c] => "FAILED" \in flags'[c]
  BY DEF Become, Falls, Sched
<1>4. Sinks(c)'
  <2>1. Sinks(c)
    BY DEF DInv
  <2>2. Alone(c) => Alone(c)'
    BY <1>2 DEF Alone
  <2> QED
    BY <1>2, <1>3, <2>1, <2>2 DEF Sinks
<1> QED
  BY <1>1, <1>2, <1>4, DownStep

(* A jail that fails leaves the loop.                                      *)
LEMMA FailedLeavesDown ==
  ASSUME IInv, DInv, NEW c \in Jails, c = cur, pc \in InLoop,
         NEW u \in SchedType, Lowered(u), Falls(Sched, u, c), u.seen = seen,
         Become(Failed(u, c)), Continue, UNCHANGED <<coms, jid, up>>
  PROVE  DInv'
<1> DEFINE t == Failed(u, c)
<1>1. /\ t \in SchedType /\ Lowered(t) /\ Falls(u, t, c)
      /\ t.seen = u.seen /\ Become(t)
  BY FailedDown
<1> HIDE DEF t
<1>2. Falls(Sched, t, c)
  BY <1>1, FallsTrans
<1>3. pc' \notin InLoop /\ pc' # "done" /\ Begun'
  BY DEF Continue, InLoop, Begun
<1> QED
  BY <1>1, <1>2, <1>3, CalmDown

(* A change of the flags of jails that leaves their operations.            *)
LEMMA FlagsDown ==
  ASSUME IInv, DInv, NEW c \in Jails, NEW f \in [Jails -> SUBSET Flag],
         \A k \in Jails : /\ Ops(f[k]) = Ops(flags[k])
                          /\ "FAILED" \in flags[k] => "FAILED" \in f[k]
  PROVE  LET t == [Sched EXCEPT !.flags = f]
         IN  /\ t \in SchedType /\ Lowered(t) /\ Falls(Sched, t, c)
             /\ t.seen = seen /\ t.flags = f /\ t.queue = queue
<1> DEFINE t == [Sched EXCEPT !.flags = f]
<1>1. TypeOK /\ Lowered(Sched)
  BY DEF IInv, DInv
<1>2. Sched \in SchedType /\ Sched.flags = flags /\ Sched.queue = queue
  BY <1>1, SchedIn
<1>3. Sched.seen = seen
  BY DEF Sched
<1>4. /\ t \in SchedType /\ t.flags = f /\ t.queue = Sched.queue
      /\ t.ndeps = Sched.ndeps /\ t.seen = Sched.seen
  BY <1>2, SetFlags
<1> HIDE DEF t
<1>5. Lowered(t) /\ Falls(Sched, t, c)
  BY <1>1, <1>2, <1>4, SameDown
<1> QED
  BY <1>2, <1>3, <1>4, <1>5 DEF t

(* The head of the main loop.                                              *)
LEMMA HeadDown ==
  ASSUME IInv, DInv, NEW c \in Jails, c = cur,
         SkipFailed \/ BadParams \/ RunningJid
  PROVE  DInv'
<1>1. pc = "begin" /\ pc \in InLoop
  BY DEF SkipFailed, BadParams, RunningJid, InLoop
<1>2. /\ Begun /\ Held(c) /\ TypeOK /\ Sched \in SchedType /\ Lowered(Sched)
      /\ Sched.flags = flags /\ Sched.seen = seen /\ "STOP" \in flags[c]
  BY <1>1, StopInHand
<1> DEFINE u == [Sched EXCEPT !.flags = WithParams]
<1>3. /\ u \in SchedType /\ Lowered(u) /\ Falls(Sched, u, c)
      /\ u.seen = seen /\ u.flags = WithParams
  <2>1. WithParams \in [Jails -> SUBSET Flag]
    BY <1>2, WithParamsFacts
  <2>2. flags \in [Jails -> SUBSET Flag]
    BY <1>2 DEF TypeOK
  <2>3. \A k \in Jails : WithParams[k] = IF k = c THEN flags[k] \cup {"PARAMS"}
                                                 ELSE flags[k]
    BY <2>2 DEF WithParams
  <2>4. \A k \in Jails : /\ Ops(WithParams[k]) = Ops(flags[k])
                         /\ "FAILED" \in flags[k] => "FAILED" \in WithParams[k]
    BY <2>3 DEF Ops, OpFlag
  <2> QED
    BY <2>1, <2>4, FlagsDown
<1>4. CASE SkipFailed
  <2> DEFINE t == DepDone(Sched, c, FALSE, FALSE)
  <2>1. /\ "FAILED" \in flags[c] /\ Become(t) /\ Continue
        /\ UNCHANGED <<coms, jid, up>>
    BY <1>4 DEF SkipFailed
  <2>2. Warns(Sched, t, c)
    BY <1>2, DepDoneDown
  <2> HIDE DEF t
  <2>3. /\ t \in SchedType /\ Lowered(t) /\ Falls(Sched, t, c)
        /\ \A e \in t.seen \ seen : "FAILED" \in t.flags[Deps[e].to]
    BY <1>2, <2>1, <2>2 DEF Warns
  <2>4. \A e \in t.seen \ seen : Gone(e)'
    BY <2>1, <2>3 DEF Gone, Become
  <2>5. pc' \notin InLoop /\ pc' # "done" /\ Begun'
    BY <2>1 DEF Continue, InLoop, Begun
  <2> QED
    BY <1>1, <2>1, <2>3, <2>4, <2>5, CalmDown
<1>5. CASE BadParams
  <2>1. Become(Failed(u, c)) /\ Continue /\ UNCHANGED <<coms, jid, up>>
    BY <1>5 DEF BadParams
  <2> HIDE DEF u
  <2> QED
    BY <1>1, <1>3, <2>1, FailedLeavesDown
<1>6. CASE RunningJid
  <2>1. Become(u)
    BY <1>6 DEF Become, Sched, RunningJid
  <2> HIDE DEF u
  <2>2. /\ pc' = "finish" /\ cur' = c /\ list' = list /\ pos' = pos /\ up' = up
        /\ \A k \in Jails \ {c} : jid'[k] = jid[k]
        /\ jid[c] = -1 => jid'[c] = -1
        /\ jid'[c] = -1 => jid[c] = -1 \/ c \notin up
    BY <1>2, <1>6 DEF RunningJid, coms, TypeOK
  <2>3. "FAILED" \in flags[c] => "FAILED" \in flags'[c]
    BY <1>3, <2>1 DEF Become, Falls, Sched
  <2>4. Sinks(c)'
    <3>1. Sinks(c)
      BY DEF DInv
    <3>2. Alone(c) => Alone(c)'
      BY <2>2 DEF Alone
    <3> QED
      BY <2>2, <2>3, <3>1, <3>2 DEF Sinks
  <2>5. Begun' /\ pc' # "done"
    BY <2>2 DEF Begun
  <2>6. \A e \in u.seen \ seen : Gone(e)'
    BY <1>3
  <2> QED
    BY <1>2, <1>3, <2>1, <2>2, <2>4, <2>5, <2>6, DownStep
<1> QED
  BY <1>4, <1>5, <1>6

(* finish_command().                                                       *)
LEMMA FinishDown ==
  ASSUME IInv, DInv, NEW c \in Jails, c = cur, FinishNothing \/ FinishCommand
  PROVE  DInv'
<1>1. pc = "finish" /\ pc \in InLoop /\ UNCHANGED <<coms, jid, up>>
  BY DEF FinishNothing, FinishCommand, InLoop
<1> DEFINE s == [Sched EXCEPT !.flags = Awake]
           u == WakeRunnable(s)
<1>2. flags \in [Jails -> SUBSET Flag]
  BY DEF IInv, TypeOK
<1>3. /\ s \in SchedType /\ Lowered(s) /\ Falls(Sched, s, c)
      /\ s.seen = seen /\ s.flags = Awake /\ s.queue = queue
  <2>1. /\ \A k \in Jails \ {c} : Awake[k] = flags[k]
        /\ "FAILED" \in Awake[c] <=> "FAILED" \in flags[c]
        /\ Ops(Awake[c]) = Ops(flags[c])
    BY AwakeFacts
  <2>2. Awake \in [Jails -> SUBSET Flag]
    BY <1>2 DEF Awake
  <2>3. \A k \in Jails : /\ Ops(Awake[k]) = Ops(flags[k])
                         /\ "FAILED" \in flags[k] => "FAILED" \in Awake[k]
    BY <2>1
  <2> HIDE DEF Awake
  <2> QED
    BY <2>2, <2>3, FlagsDown
<1>4. CASE FinishNothing
  <2>1. flags' = Awake \/ flags' = flags
    BY <1>4 DEF FinishNothing
  <2>2. /\ pc' = "op" /\ cur' = c
        /\ UNCHANGED <<ndeps, seen, queue, ahead>>
    BY <1>4 DEF FinishNothing
  <2>3. Begun' /\ pc' # "done"
    BY <2>2 DEF Begun
  <2>4. CASE flags' = Awake
    <3>1. Become(s)
      BY <2>2, <2>4 DEF Become, Sched
    <3> HIDE DEF s
    <3> QED
      BY <1>1, <1>3, <2>2, <2>3, <3>1, CalmDown
  <2>5. CASE flags' = flags
    <3>1. Become(Sched) /\ Falls(Sched, Sched, c)
      BY <2>2, <2>5 DEF Become, Sched, Falls
    <3>2. Sched \in SchedType /\ Lowered(Sched) /\ Sched.seen = seen
      BY <1>1, StopInHand
    <3> QED
      BY <1>1, <2>2, <2>3, <3>1, <3>2, CalmDown
  <2> QED
    BY <2>1, <2>4, <2>5
<1>5. CASE FinishCommand
  <2>1. \/ Become(Failed(u, c)) /\ Continue
        \/ Become(u) /\ pc' = "op" /\ cur' = c
    BY <1>5 DEF FinishCommand
  <2> HIDE DEF s
  <2>2. Woke(s, u) /\ Alike(s, u)
    BY <1>3, WakeRunnableWhole, WakeRunnableAlike
  <2> HIDE DEF u
  <2>3. u \in SchedType /\ u.ndeps = s.ndeps /\ u.seen = s.seen
    BY <2>2 DEF Woke
  <2>4. \A k \in Jails :
          /\ Ops(u.flags[k]) = Ops(s.flags[k])
          /\ "FAILED" \in s.flags[k] => "FAILED" \in u.flags[k]
          /\ u.queue[k] # "cfjails" => s.queue[k] # "cfjails"
    BY <2>2 DEF Woke, Alike
  <2>5. Lowered(u) /\ Falls(s, u, c)
    BY <1>3, <2>3, <2>4, SameDown
  <2>6. Falls(Sched, u, c) /\ u.seen = seen
    BY <1>3, <2>3, <2>5, FallsTrans
  <2>7. CASE Become(Failed(u, c)) /\ Continue
    BY <1>1, <2>3, <2>5, <2>6, <2>7, FailedLeavesDown
  <2>8. CASE Become(u) /\ pc' = "op" /\ cur' = c
    <3>1. Begun' /\ pc' # "done"
      BY <2>8 DEF Begun
    <3> QED
      BY <1>1, <2>3, <2>5, <2>6, <2>8, <3>1, CalmDown
  <2> QED
    BY <2>1, <2>7, <2>8
<1> QED
  BY <1>4, <1>5

(* The operation of a jail that is to be stopped.                          *)
LEMMA OperationDown ==
  ASSUME IInv, DInv, NEW c \in Jails, c = cur,
         Turn \/ TurnRestart \/ Exists \/ NotFound \/ WaitForOthers
           \/ BeginStart \/ BeginStop \/ AlreadyRuns \/ NotRunning
           \/ AbandonStop \/ Resume \/ Update
  PROVE  DInv'
<1>1. pc = "op" /\ pc \in InLoop
  BY DEF Turn, TurnRestart, Exists, NotFound, WaitForOthers, BeginStart,
     BeginStop, AlreadyRuns, NotRunning, AbandonStop, Resume, Update,
     Unblocked, MayCheck, Single, InLoop
<1>2. /\ Begun /\ Held(c) /\ TypeOK /\ Sched \in SchedType /\ Lowered(Sched)
      /\ Sched.flags = flags /\ Sched.seen = seen /\ "STOP" \in flags[c]
      /\ "SET" \notin flags[c] /\ "START" \notin flags[c]
  BY <1>1, StopInHand
<1>3. ~Single("START") /\ ~Single("SET")
  BY <1>2 DEF Single, Ops, OpFlag
<1>4. ~(Turn \/ TurnRestart \/ Exists \/ NotFound \/ BeginStart
          \/ AlreadyRuns \/ Update)
  BY <1>2, <1>3 DEF Turn, TurnRestart, Exists, NotFound, BeginStart,
     AlreadyRuns, Update, Ops, OpFlag
<1> DEFINE t == DepCheck(Sched, c)
<1>5. Clears(Sched, t, c)
  BY <1>2, DepCheckDown
<1> HIDE DEF t
<1>6. /\ t \in SchedType /\ Lowered(t) /\ Falls(Sched, t, c) /\ t.seen = seen
      /\ ~Blocked(Sched, c) /\ "FAILED" \notin t.flags[c] =>
           \A e \in Inward(c) : jid[Deps[e].from] < 0 \/ e \in seen
  BY <1>2, <1>5 DEF Clears
<1>7. ASSUME NEW j \in Jails, jid[j] < 0
      PROVE  j \notin up
  <2>1. jid[j] \in {-1, 0, 1}
    BY <1>2 DEF TypeOK
  <2>2. Sinks(j)
    BY DEF DInv
  <2> QED
    BY <1>7, <2>1, <2>2 DEF Sinks
<1>8. CASE WaitForOthers
  <2>1. Become(t) /\ Continue /\ UNCHANGED <<coms, jid, up>>
    BY <1>8 DEF WaitForOthers, t
  <2>2. pc' \notin InLoop /\ pc' # "done" /\ Begun'
    BY <2>1 DEF Continue, InLoop, Begun
  <2> QED
    BY <1>1, <1>6, <2>1, <2>2, CalmDown
<1>9. CASE BeginStop
  <2>1. /\ ~Blocked(Sched, c) /\ Become(t)
        /\ list' = [list EXCEPT ![c] = "stop"] /\ pos' = [pos EXCEPT ![c] = 1]
        /\ pc' = "next_command" /\ cur' = c /\ jid' = jid /\ up' = up
    BY <1>9 DEF BeginStop, Unblocked, Begin, t
  <2>2. /\ list'[c] = "stop" /\ pos'[c] = 1
        /\ \A k \in Jails \ {c} : list'[k] = list[k] /\ pos'[k] = pos[k]
    BY <1>2, <2>1 DEF TypeOK
  <2>3. ASSUME "FAILED" \notin flags'[c], NEW e \in Inward(c)
        PROVE  Deps[e].from \notin up
    <3>1. "FAILED" \notin t.flags[c] /\ e \in Edge /\ Deps[e].to = c
      BY <2>1, <2>3 DEF Become, Inward
    <3>2. Deps[e].from \in Jails
      BY <3>1, EdgeEnds
    <3>3. CASE jid[Deps[e].from] < 0
      BY <1>7, <3>2, <3>3
    <3>4. CASE e \in seen
      <4>1. "FAILED" \notin flags[c]
        BY <1>2, <1>6, <3>1 DEF Falls
      <4>2. Gone(e)
        BY <1>2, <3>4 DEF DInv
      <4> QED
        BY <3>1, <4>1, <4>2 DEF Gone
    <3> QED
      BY <1>6, <2>1, <2>3, <3>1, <3>3, <3>4
  <2>4. Sinks(c)'
    <3>1. Sinks(c)
      BY DEF DInv
    <3>2. "FAILED" \notin flags'[c] => Alone(c)'
      BY <2>1, <2>3 DEF Alone
    <3> QED
      BY <2>1, <2>2, <3>1, <3>2 DEF Sinks
  <2>5. Begun' /\ pc' # "done"
    BY <2>1 DEF Begun
  <2>6. \A e \in t.seen \ seen : Gone(e)'
    BY <1>6
  <2> QED
    BY <1>2, <1>6, <2>1, <2>2, <2>4, <2>5, <2>6, DownStep
<1>10. CASE NotRunning
  <2> DEFINE u == Failed(t, c)
  <2>1. /\ jid[c] < 0 /\ pc' = "done" /\ cur' = c
        /\ UNCHANGED <<coms, jid, up>>
        /\ Become(t) \/ Become(u)
    BY <1>10 DEF NotRunning, t
  <2>2. c \notin up /\ Begun'
    BY <1>7, <2>1 DEF Begun
  <2>3. /\ u \in SchedType /\ Lowered(u) /\ Falls(t, u, c)
        /\ u.seen = t.seen
    BY <1>6, FailedDown
  <2> HIDE DEF u
  <2>4. Falls(Sched, u, c)
    BY <1>6, <2>3, FallsTrans
  <2> QED
    BY <1>1, <1>6, <2>1, <2>2, <2>3, <2>4, CalmDown
<1>11. CASE AbandonStop \/ Resume
  <2>1. /\ UNCHANGED <<sched, coms, jid, up>> /\ cur' = c
        /\ \/ pc' = "done" /\ "FAILED" \in flags[c]
           \/ pc' = "next_command"
    BY <1>11 DEF AbandonStop, Resume
  <2>2. Become(Sched) /\ Falls(Sched, Sched, c) /\ flags' = flags
    BY <2>1 DEF Become, Sched, sched, Falls
  <2>3. Begun'
    BY <2>1 DEF Begun
  <2> QED
    BY <1>1, <1>2, <2>1, <2>2, <2>3, CalmDown
<1> QED
  BY <1>4, <1>8, <1>9, <1>10, <1>11

(* A jail that is gone, or failed, tells those that it depends on.         *)
LEMMA DoneDown ==
  ASSUME IInv, DInv, NEW c \in Jails, c = cur, Done
  PROVE  DInv'
<1> DEFINE t == DepDone(Sched, c, FALSE, FALSE)
<1>1. pc = "done" /\ pc \in InLoop
  BY DEF Done, InLoop
<1>2. /\ Sched \in SchedType /\ Lowered(Sched)
      /\ Sched.flags = flags /\ Sched.seen = seen /\ "STOP" \in flags[c]
  BY <1>1, StopInHand
<1>3. Warns(Sched, t, c)
  BY <1>2, DepDoneDown
<1> HIDE DEF t
<1>4. /\ t \in SchedType /\ Lowered(t) /\ Falls(Sched, t, c)
      /\ \A e \in t.seen \ seen :
           /\ Deps[e].from = c
           /\ "FAILED" \in flags[c] => "FAILED" \in t.flags[Deps[e].to]
  BY <1>2, <1>3 DEF Warns
<1>5. "START" \notin t.flags[c]
  BY <1>4, StopsWaits DEF Lowered
<1>6. /\ Become(t) /\ Continue /\ UNCHANGED <<coms, jid, up>>
  BY <1>5 DEF Done, t, coms
<1>7. "FAILED" \in flags[c] \/ c \notin up
  BY <1>1 DEF DInv
<1>8. \A e \in t.seen \ seen : Gone(e)'
  BY <1>4, <1>6, <1>7 DEF Gone, Become
<1>9. pc' \notin InLoop /\ pc' # "done" /\ Begun'
  BY <1>6 DEF Continue, InLoop, Begun
<1> QED
  BY <1>1, <1>4, <1>6, <1>8, <1>9, CalmDown

(* A jail that stops runs its commands forwards.                           *)
LEMMA StopForward ==
  ASSUME IInv, DInv, NEW c \in Jails, c = cur,
         pc \in {"next_command", "command"}
  PROVE  /\ list[c] = "stop" /\ "STOP" \in flags[c] /\ pc \in InLoop
         /\ pos[c] \in 1 .. 6 /\ Next1 = pos[c] + 1 /\ InList
         /\ CommandList[list[c]][Next1] = StopCommands[pos[c] + 1]
<1>1. pc \in InLoop /\ list[c] # "NULL" /\ TypeOK
  BY DEF InLoop, IInv, HasCommands
<1>2. list[c] # "start"
  BY DEF DInv, Sinks
<1>3. list[c] = "stop"
  BY <1>1, <1>2 DEF TypeOK
<1>4. "STOP" \in flags[c]
  BY <1>1, StopInHand
<1>5. Len(CommandList[list[c]]) = 7 /\ CommandList[list[c]] = StopCommands
  BY <1>3, StopLength DEF CommandList
<1>6. pos[c] \in Int /\ 1 <= pos[c] /\ pos[c] < 7
  <2>1. CursorOK(c)
    BY DEF IInv, CursorInside
  <2>2. Active(c)
    BY DEF Active, InLoop
  <2>3. 1 <= pos[c] /\ pos[c] < Len(CommandList[list[c]])
    BY <1>1, <2>1, <2>2 DEF CursorOK
  <2> QED
    BY <1>1, <1>5, <2>3 DEF TypeOK
<1>7. Next1 = pos[c] + 1
  BY <1>4 DEF Next1, Undoing
<1> HIDE DEF Next1
<1>8. InList
  BY <1>5, <1>6, <1>7 DEF InList
<1> QED
  BY <1>1, <1>3, <1>4, <1>5, <1>6, <1>7, <1>8

(* The cursor moves, over no removal.                                      *)
LEMMA AdvanceDown ==
  ASSUME IInv, DInv, NEW c \in Jails, c = cur, pc = "command", Advance,
         StopCommands[pos[c] + 1] # "OP",
         NEW t \in SchedType, Become(t), Lowered(t), Falls(Sched, t, c),
         t.seen = seen, UNCHANGED <<jid, up>>,
         cur' = cur \/ pc' \notin InLoop, Begun',
         pc' = "done" => pos[c] = 6
  PROVE  DInv'
<1>1. list[c] = "stop" /\ pos[c] \in 1 .. 6 /\ Next1 = pos[c] + 1 /\ pc \in InLoop
  BY StopForward
<1>2. Begun /\ Held(c)
  BY <1>1, StopInHand
<1>3. list' = list /\ pos'[c] = Next1 /\ \A k \in Jails \ {c} : pos'[k] = pos[k]
  BY CursorMoves
<1> HIDE DEF Next1
<1>4. StopCommands[4] = "OP"
  BY DEF StopCommands
<1>5. pos'[c] >= 4 => pos[c] >= 4
  BY <1>1, <1>3, <1>4
<1>6. "FAILED" \in flags[c] => "FAILED" \in flags'[c]
  BY DEF Become, Falls, Sched
<1>7. Sinks(c)
  BY DEF DInv
<1>8. Sinks(c)'
  <2>1. Alone(c) => Alone(c)'
    BY DEF Alone
  <2> QED
    BY <1>3, <1>5, <1>6, <1>7, <2>1 DEF Sinks
<1>9. pos[c] = 6 => "FAILED" \in flags'[c] \/ c \notin up
  BY <1>1, <1>6, <1>7 DEF Sinks
<1>10. \A e \in t.seen \ seen : Gone(e)'
  OBVIOUS
<1> QED
  BY <1>2, <1>3, <1>8, <1>9, <1>10, DownStep

(* jail_remove(2) takes the jail down, with what is inside of it.          *)
LEMMA RemoveJailDown ==
  ASSUME IInv, DInv, NEW c \in Jails, c = cur, RemoveJail
  PROVE  DInv'
<1>1. pc = "command" /\ Advance
  BY DEF RemoveJail, Upcoming
<1>2. list[c] = "stop" /\ pc \in InLoop /\ "STOP" \in flags[c]
  BY <1>1, StopForward
<1>3. /\ Begun /\ Held(c) /\ TypeOK /\ Sched \in SchedType /\ Lowered(Sched)
      /\ Sched.flags = flags /\ Sched.seen = seen
  BY <1>2, StopInHand
<1>4. list' = list /\ \A k \in Jails \ {c} : pos'[k] = pos[k]
  BY <1>1, CursorMoves
<1>5. Sinks(c)
  BY DEF DInv
<1> DEFINE t == DepDone(Sched, c, TRUE, FALSE)
           u == Failed(Sched, c)
<1>6. \/ /\ up' = up \ ({c} \cup {k \in Jails : <<k, c>> \in Under})
         /\ jid' = [jid EXCEPT ![c] = -1]
         /\ Become(t) /\ pc' = pc /\ cur' = c
      \/ Become(u) /\ Continue /\ UNCHANGED <<jid, up>>
  BY <1>2 DEF RemoveJail
<1>7. CASE /\ up' = up \ ({c} \cup {k \in Jails : <<k, c>> \in Under})
           /\ jid' = [jid EXCEPT ![c] = -1]
           /\ Become(t) /\ pc' = pc /\ cur' = c
  <2>1. Warns(Sched, t, c)
    BY <1>2, <1>3, DepDoneDown
  <2> HIDE DEF t
  <2>2. /\ t \in SchedType /\ Lowered(t) /\ Falls(Sched, t, c)
        /\ \A e \in t.seen \ seen : Deps[e].from = c
    BY <1>3, <2>1 DEF Warns
  <2>3. c \notin up' /\ up' \in SUBSET up
    BY <1>7
  <2>4. jid'[c] = -1 /\ \A k \in Jails \ {c} : jid'[k] = jid[k]
    BY <1>3, <1>7 DEF TypeOK
  <2>5. "FAILED" \in flags[c] => "FAILED" \in flags'[c]
    BY <1>7, <2>2 DEF Become, Falls, Sched
  <2>6. Sinks(c)'
    <3>1. Alone(c) => Alone(c)'
      BY <2>3 DEF Alone
    <3> QED
      BY <1>2, <1>4, <1>5, <2>3, <2>4, <2>5, <3>1 DEF Sinks
  <2>7. \A e \in t.seen \ seen : Gone(e)'
    BY <2>2, <2>3 DEF Gone
  <2>8. Begun' /\ pc' # "done"
    BY <1>1, <1>7 DEF Begun
  <2> QED
    BY <1>3, <1>4, <1>7, <2>2, <2>3, <2>4, <2>6, <2>7, <2>8, DownStep
<1>8. CASE Become(u) /\ Continue /\ UNCHANGED <<jid, up>>
  <2>1. /\ u \in SchedType /\ Lowered(u) /\ Falls(Sched, u, c)
        /\ u.seen = seen /\ "FAILED" \in u.flags[c]
    BY <1>3, FailedDown
  <2> HIDE DEF u
  <2>2. "FAILED" \in flags'[c]
    BY <1>8, <2>1 DEF Become
  <2>3. Sinks(c)'
    BY <1>2, <1>4, <1>5, <1>8, <2>2 DEF Sinks
  <2>4. pc' \notin InLoop /\ pc' # "done" /\ Begun'
    BY <1>8 DEF Continue, InLoop, Begun
  <2>5. \A e \in u.seen \ seen : Gone(e)'
    BY <2>1
  <2> QED
    BY <1>3, <1>4, <1>8, <2>1, <2>3, <2>4, <2>5, DownStep
<1> QED
  BY <1>6, <1>7, <1>8

(* The commands of a jail that is stopped.                                 *)
LEMMA CommandDown ==
  ASSUME IInv, DInv, NEW c \in Jails, c = cur,
         WaitForSlot \/ EnterCommands \/ CommandsEnd \/ LeaveList
           \/ PassCommand \/ RunCommand \/ TermProcs \/ CreateJail
           \/ RemoveJail
  PROVE  DInv'
<1>1. pc \in {"next_command", "command"}
  BY DEF WaitForSlot, EnterCommands, CommandsEnd, LeaveList, PassCommand,
     RunCommand, TermProcs, CreateJail, RemoveJail, Upcoming
<1>2. /\ list[c] = "stop" /\ "STOP" \in flags[c] /\ pc \in InLoop
      /\ pos[c] \in 1 .. 6 /\ InList
      /\ CommandList[list[c]][Next1] = StopCommands[pos[c] + 1]
  BY <1>1, StopForward
<1>3. /\ Sched \in SchedType /\ Lowered(Sched) /\ TypeOK
      /\ Sched.flags = flags /\ Sched.seen = seen /\ Sched.queue = queue
  BY <1>2, StopInHand
<1>4. Falls(Sched, Sched, c)
  BY DEF Falls
<1>5. UNCHANGED sched => Become(Sched)
  BY DEF Become, Sched, sched
<1>6. Continue => pc' \notin InLoop /\ pc' # "done" /\ Begun'
  BY DEF Continue, InLoop, Begun
<1>7. CASE WaitForSlot
  <2>1. /\ Continue /\ UNCHANGED <<coms, jid, up>>
        /\ \/ Become(RequeueHead(Sched, c, "runnable"))
           \/ Become(Requeue(Sched, {c}, "runnable", {}))
    BY <1>7 DEF WaitForSlot
  <2>2. "runnable" \in Queue
    BY DEF Queue
  <2>3. PICK t : Moved(Sched, t, {c}, "runnable") /\ Become(t)
    BY <1>3, <2>1, <2>2, RequeueOne, RequeueHeadFacts
  <2>4. /\ t \in SchedType /\ t.flags = Sched.flags
        /\ t.ndeps = Sched.ndeps /\ t.seen = Sched.seen
        /\ \A k \in Jails : k # c => t.queue[k] = Sched.queue[k]
    BY <2>3 DEF Moved
  <2>5. Lowered(t) /\ Falls(Sched, t, c)
    BY <1>3, <2>4, SameDown
  <2> QED
    BY <1>2, <1>3, <1>6, <2>1, <2>3, <2>4, <2>5, CalmDown
<1>8. CASE EnterCommands
  <2> DEFINE f == [flags EXCEPT ![c] = @ \ {"FROM_RUNQ"}]
             t == [Sched EXCEPT !.flags = f]
  <2>1. /\ pc' = "command" /\ cur' = c /\ UNCHANGED <<coms, jid, up>>
        /\ Become(t)
    BY <1>8 DEF EnterCommands, Become, Sched
  <2>2. f \in [Jails -> SUBSET Flag]
    BY <1>3 DEF TypeOK
  <2>3. \A k \in Jails : f[k] = IF k = c THEN flags[k] \ {"FROM_RUNQ"}
                                         ELSE flags[k]
    BY <1>3 DEF TypeOK
  <2>4. \A k \in Jails : /\ Ops(f[k]) = Ops(flags[k])
                         /\ "FAILED" \in flags[k] => "FAILED" \in f[k]
    BY <2>3 DEF Ops, OpFlag
  <2> HIDE DEF f
  <2>5. /\ t \in SchedType /\ Lowered(t) /\ Falls(Sched, t, c) /\ t.seen = seen
    BY <2>2, <2>4, FlagsDown
  <2> HIDE DEF t
  <2>6. Begun' /\ pc' # "done"
    BY <2>1 DEF Begun
  <2> QED
    BY <1>2, <2>1, <2>5, <2>6, CalmDown
<1> HIDE DEF Next1
<1>9. ASSUME NEW x, Upcoming(x)
      PROVE  pc = "command" /\ StopCommands[pos[c] + 1] = x
  BY <1>2, <1>9 DEF Upcoming
<1>10. /\ StopCommands[2] = "STOP" /\ StopCommands[3] = "STOP_TIMEOUT"
       /\ StopCommands[4] = "OP" /\ StopCommands[5] = "POSTSTOP"
       /\ StopCommands[6] = "MOUNT" /\ StopCommands[7] = "NULL"
  BY DEF StopCommands
<1>11. CASE CommandsEnd
  <2>1. /\ pc = "command" /\ StopCommands[pos[c] + 1] = "NULL" /\ Advance
        /\ pc' = "done" /\ cur' = c /\ UNCHANGED <<sched, jid, up>>
    BY <1>9, <1>11 DEF CommandsEnd
  <2>2. pos[c] = 6 /\ Begun'
    BY <1>2, <1>10, <2>1 DEF Begun
  <2> QED
    BY <1>3, <1>4, <1>5, <2>1, <2>2, AdvanceDown
<1>12. CASE PassCommand
  <2>1. PICK x \in Command : Upcoming(x)
    BY <1>12 DEF PassCommand
  <2>2. /\ pc = "command" /\ StopCommands[pos[c] + 1] # "OP" /\ Advance
        /\ pc' = pc /\ cur' = c /\ UNCHANGED <<sched, jid, up>>
    BY <1>9, <1>12, <2>1 DEF PassCommand, Command
  <2>3. Begun' /\ pc' # "done"
    BY <2>2 DEF Begun
  <2> QED
    BY <1>3, <1>4, <1>5, <2>2, <2>3, AdvanceDown
<1> DEFINE f == [flags EXCEPT ![c] = @ \cup {"SLEEPQ"}]
           s == [Sched EXCEPT !.flags = f]
           t == Requeue(s, {c}, "sleeping", {})
           u == Failed(Sched, c)
<1>13. /\ t \in SchedType /\ Lowered(t) /\ Falls(Sched, t, c) /\ t.seen = seen
  <2>1. f \in [Jails -> SUBSET Flag]
    BY <1>3 DEF TypeOK, Flag
  <2>2. \A k \in Jails : f[k] = IF k = c THEN flags[k] \cup {"SLEEPQ"} ELSE flags[k]
    BY <1>3 DEF TypeOK
  <2>3. \A k \in Jails : /\ Ops(f[k]) = Ops(flags[k])
                         /\ "FAILED" \in flags[k] => "FAILED" \in f[k]
    BY <2>2 DEF Ops, OpFlag
  <2> HIDE DEF f
  <2>4. s \in SchedType /\ Lowered(s) /\ Falls(Sched, s, c) /\ s.seen = seen
    BY <2>1, <2>3, FlagsDown
  <2> HIDE DEF s
  <2>5. "sleeping" \in Queue
    BY DEF Queue
  <2>6. Moved(s, t, {c}, "sleeping")
    BY <2>4, <2>5, RequeueOne
  <2> HIDE DEF t
  <2>7. /\ t \in SchedType /\ t.flags = s.flags /\ t.ndeps = s.ndeps
        /\ t.seen = s.seen
        /\ \A k \in Jails : k # c => t.queue[k] = s.queue[k]
    BY <2>6 DEF Moved
  <2>8. Lowered(t) /\ Falls(s, t, c)
    BY <2>4, <2>7, SameDown
  <2>9. Falls(Sched, t, c)
    BY <2>4, <2>8, FallsTrans
  <2> QED
    BY <2>4, <2>7, <2>8, <2>9
<1>14. u \in SchedType /\ Lowered(u) /\ Falls(Sched, u, c) /\ u.seen = seen
  BY <1>3, FailedDown
<1>15. CASE RunCommand
  <2>1. PICK x \in Command : Upcoming(x)
    BY <1>15 DEF RunCommand
  <2>2. /\ pc = "command" /\ StopCommands[pos[c] + 1] # "OP" /\ Advance
        /\ Continue /\ UNCHANGED <<jid, up>>
        /\ Become(t) \/ Become(u)
    BY <1>9, <1>15, <2>1 DEF RunCommand, Command
  <2> HIDE DEF t, u
  <2> QED
    BY <1>6, <1>13, <1>14, <2>2, AdvanceDown
<1>16. CASE TermProcs
  <2>1. /\ pc = "command" /\ StopCommands[pos[c] + 1] # "OP" /\ Advance
        /\ UNCHANGED <<jid, up>>
        /\ \/ Become(t) /\ Continue
           \/ UNCHANGED <<sched, pc, cur>>
    BY <1>9, <1>16 DEF TermProcs
  <2> HIDE DEF t
  <2>2. CASE Become(t) /\ Continue
    BY <1>6, <1>13, <2>1, <2>2, AdvanceDown
  <2>3. CASE UNCHANGED <<sched, pc, cur>>
    <3>1. Begun' /\ pc' # "done"
      BY <2>1, <2>3 DEF Begun
    <3> QED
      BY <1>3, <1>4, <1>5, <2>1, <2>3, <3>1, AdvanceDown
  <2> QED
    BY <2>1, <2>2, <2>3
<1>17. CASE RemoveJail
  BY <1>17, RemoveJailDown
<1>18. ~LeaveList /\ ~CreateJail
  BY <1>2 DEF LeaveList, CreateJail
<1> QED
  BY <1>7, <1>8, <1>11, <1>12, <1>15, <1>16, <1>17, <1>18

(* Every step of the main loop keeps the order of removal.                 *)
LEMMA MainLoopDown ==
  ASSUME IInv, DInv, MainLoop
  PROVE  DInv'
<1>1. pc \in InLoop
  BY DEF MainLoop, SkipFailed, BadParams, RunningJid, FinishNothing,
     FinishCommand, Turn, TurnRestart, Exists, NotFound, WaitForOthers,
     BeginStart, BeginStop, AlreadyRuns, NotRunning, AbandonStop, Resume,
     Update, Done, WaitForSlot, EnterCommands, CommandsEnd, LeaveList,
     PassCommand, RunCommand, TermProcs, CreateJail, RemoveJail,
     Unblocked, MayCheck, Single, Upcoming, InLoop
<1>2. PICK c \in Jails : c = cur
  BY <1>1 DEF IInv, Owner
<1>3. CASE SkipFailed \/ BadParams \/ RunningJid
  BY <1>2, <1>3, HeadDown
<1>4. CASE FinishNothing \/ FinishCommand
  BY <1>2, <1>4, FinishDown
<1>5. CASE \/ Turn \/ TurnRestart \/ Exists \/ NotFound \/ WaitForOthers
           \/ BeginStart \/ BeginStop \/ AlreadyRuns \/ NotRunning
           \/ AbandonStop \/ Resume \/ Update
  BY <1>2, <1>5, OperationDown
<1>6. CASE Done
  BY <1>2, <1>6, DoneDown
<1>7. CASE \/ WaitForSlot \/ EnterCommands \/ CommandsEnd \/ LeaveList
           \/ PassCommand \/ RunCommand \/ TermProcs \/ CreateJail
           \/ RemoveJail
  BY <1>2, <1>7, CommandDown
<1> QED
  BY <1>3, <1>4, <1>5, <1>6, <1>7 DEF MainLoop

-----------------------------------------------------------------------------
(* next_jail(), the end and the steps before the main loop of a program    *)
(* that only stops jails.                                                  *)

(* The jail the main loop takes up is as it was left.                      *)
LEMMA TakeDown ==
  ASSUME IInv, DInv, NEW c \in Jails, queue[c] # "cfjails", pc = "next",
         NEW F \in {flags[c], flags[c] \cup {"TIMEOUT"}},
         Take(c, [flags EXCEPT ![c] = F]),
         UNCHANGED <<list, pos, jid, up>>
  PROVE  DInv'
<1> DEFINE f == [flags EXCEPT ![c] = F]
           s == [Sched EXCEPT !.flags = f]
           t == Requeue(s, {c}, "cfjails", {})
<1>1. flags \in [Jails -> SUBSET Flag]
  BY DEF IInv, TypeOK
<1>2. f \in [Jails -> SUBSET Flag]
  BY <1>1 DEF Flag
<1>3. \A k \in Jails : f[k] = IF k = c THEN F ELSE flags[k]
  BY <1>1
<1>4. \A k \in Jails : /\ Ops(f[k]) = Ops(flags[k])
                       /\ "FAILED" \in flags[k] => "FAILED" \in f[k]
  BY <1>3 DEF Ops, OpFlag
<1>5. Become(t) /\ cur' = c /\ pc' = "begin"
  BY DEF Take
<1> HIDE DEF f
<1>6. /\ s \in SchedType /\ Lowered(s) /\ Falls(Sched, s, c) /\ s.seen = seen
  BY <1>2, <1>4, FlagsDown
<1> HIDE DEF s
<1>7. "cfjails" \in Queue
  BY DEF Queue
<1>8. Moved(s, t, {c}, "cfjails")
  BY <1>6, <1>7, RequeueOne
<1> HIDE DEF t
<1>9. /\ t \in SchedType /\ t.flags = s.flags /\ t.ndeps = s.ndeps
      /\ t.seen = s.seen
      /\ \A k \in Jails : k # c => t.queue[k] = s.queue[k]
  BY <1>8 DEF Moved
<1>10. Lowered(t) /\ Falls(s, t, c)
  BY <1>6, <1>9, SameDown
<1>11. Falls(Sched, t, c)
  BY <1>6, <1>10, FallsTrans
<1>12. "FAILED" \in flags[c] => "FAILED" \in flags'[c]
  BY <1>5, <1>11 DEF Become, Falls, Sched
<1>13. Sinks(c)'
  <2>1. Sinks(c)
    BY DEF DInv
  <2>2. Alone(c) => Alone(c)'
    BY DEF Alone
  <2> QED
    BY <1>12, <2>1, <2>2 DEF Sinks
<1>14. Held(c) /\ Begun /\ Begun' /\ pc \notin InLoop /\ pc' # "done"
  BY <1>5 DEF Held, Begun, InLoop
<1>15. \A e \in t.seen \ seen : Gone(e)'
  BY <1>6, <1>9
<1> QED
  BY <1>5, <1>9, <1>10, <1>11, <1>13, <1>14, <1>15, DownStep

(* next_jail() and next_proc() keep the order of removal.                  *)
LEMMA NextJailDown ==
  ASSUME IInv, DInv, NEW j \in Jails,
         \/ \E bad \in BOOLEAN : CommandExits(j, bad)
         \/ CommandTimesOut(j)
         \/ NextReady(j)
  PROVE  DInv'
<1>1. /\ queue[j] # "cfjails" /\ pc = "next"
      /\ UNCHANGED <<list, pos, jid, up>>
  BY DEF CommandExits, CommandTimesOut, NextReady, coms
<1>2. flags = [flags EXCEPT ![j] = flags[j]]
  BY DEF IInv, TypeOK
<1>3. \/ Take(j, flags)
      \/ Take(j, [flags EXCEPT ![j] = flags[j] \cup {"TIMEOUT"}])
  BY DEF CommandExits, CommandTimesOut, NextReady
<1>4. CASE Take(j, flags)
  <2>1. Take(j, [flags EXCEPT ![j] = flags[j]])
    BY <1>2, <1>4
  <2> QED
    BY <1>1, <2>1, TakeDown
<1>5. CASE Take(j, [flags EXCEPT ![j] = flags[j] \cup {"TIMEOUT"}])
  BY <1>1, <1>5, TakeDown
<1> QED
  BY <1>3, <1>4, <1>5

(* A step that leaves the jails alone does too.                            *)
LEMMA QuietDown ==
  ASSUME DInv,
         UNCHANGED <<flags, ndeps, seen, queue, ahead, list, pos, jid, up, cur>>,
         pc' = pc \/ (pc = "next" /\ pc' = "exit")
  PROVE  DInv'
<1>1. /\ pc' \in InLoop <=> pc \in InLoop
      /\ pc' = "done" <=> pc = "done"
      /\ Begun' <=> Begun
      /\ pc' = "setup" <=> pc = "setup"
  BY DEF InLoop, Begun
<1>2. Lowered(Sched)'
  BY DEF DInv, Lowered, Sched
<1>3. \A j \in Jails : Held(j)' <=> Held(j)
  BY <1>1 DEF Held
<1>4. \A e \in seen : Gone(e) => Gone(e)'
  BY DEF Gone
<1>5. \A j \in Jails : Sinks(j)'
  BY DEF DInv, Sinks, Alone
<1> QED
  BY <1>1, <1>2, <1>3, <1>4, <1>5 DEF DInv

(* Before the main loop nothing is asked of a jail.                        *)
LEMMA BeforeLoopDown ==
  ASSUME DInv, IInv', pc' = "loops", UNCHANGED <<list, jid, up>>
  PROVE  DInv'
<1>1. /\ \A k \in Jails : flags'[k] \in SUBSET {"FAILED"}
      /\ \A k \in Jails : list'[k] = "NULL"
  BY DEF IInv, Fresh
<1>2. Lowered(Sched)'
  BY <1>1 DEF Lowered, Sched, Ops, OpFlag
<1>3. \A k \in Jails : Sinks(k)'
  BY <1>1 DEF DInv, Sinks
<1>4. ~Begun' /\ pc' # "setup" /\ pc' # "done"
  BY DEF Begun
<1> QED
  BY <1>2, <1>3, <1>4 DEF DInv

(* start_state() counts what depends on the jails of the command line, and *)
(* forgets what the loop check has seen.                                   *)
LEMMA JailMainDown ==
  ASSUME IInv, DInv, given \in Given, Op = {"STOP"}, JailMain
  PROVE  DInv'
<1> DEFINE S == IF Target = "all" THEN Jails ELSE Named
           ops == Op \cup (IF Target = "named" THEN {} ELSE {"WILD"})
           all == (Target = "all")
           s == [Sched EXCEPT !.seen = {}]
           t == StartState(s, S, ops, all)
<1>1. /\ pc \in {"setup", "loops"} /\ pc' = "next" /\ Become(t)
      /\ UNCHANGED <<list, jid, up>>
  BY DEF JailMain, coms
<1>2. given \in GivenType
  BY CommandLineAssumption
<1>3. S \in Group
  BY <1>2 DEF Named, GivenType, Group
<1>4. /\ ops \in SUBSET Flag /\ "STOP" \in ops
      /\ ops \cap {"SET", "START"} = {}
  BY DEF Flag, OpFlag
<1>5. Sched \in SchedType /\ Sched.flags = flags /\ Sched.queue = queue
  BY SchedIn DEF IInv
<1>6. /\ s \in SchedType /\ s.flags = flags /\ s.queue = queue
      /\ s.seen = {}
  BY <1>5 DEF SchedType
<1>7. \A k \in Jails : queue[k] = "cfjails"
  BY DEF JailMain, DInv
<1> HIDE DEF s, S, ops, all
<1>8. Launched(s, t, S, ops, all)
  BY <1>3, <1>4, <1>6, StartStateWhole
<1> HIDE DEF t
<1>9. \A k \in Jails : flags[k] \in SUBSET {"FAILED"} /\ list[k] = "NULL"
  BY <1>1 DEF IInv, Fresh
<1>10. t \in SchedType /\ t.seen = {}
  BY <1>6, <1>8 DEF Launched
<1>11. ASSUME NEW k \in Jails
       PROVE  /\ Ops(t.flags[k]) \in SUBSET {"STOP"}
              /\ "STOP" \in t.flags[k] <=> k \in S
              /\ k \in S => t.ndeps[k] = Cardinality(Waits(t.flags[k], k))
              /\ k \notin S => t.queue[k] = "cfjails"
  <2>1. t.flags[k] = IF k \in S THEN (flags[k] \cap {"FAILED"}) \cup ops
                                ELSE flags[k]
    BY <1>6, <1>8 DEF Launched
  <2>2. Ops(t.flags[k]) \in SUBSET {"STOP"}
    BY <1>4, <1>9, <2>1 DEF Ops, OpFlag
  <2>3. "STOP" \in t.flags[k] <=> k \in S
    BY <1>4, <1>9, <2>1
  <2>4. /\ k \in S => t.ndeps[k] = Cardinality(Waits(t.flags[k], k))
        /\ k \notin S => t.queue[k] = "cfjails"
    BY <1>6, <1>7, <1>8 DEF Launched
  <2> QED
    BY <2>2, <2>3, <2>4
<1>12. ASSUME NEW k \in Jails, "STOP" \in t.flags[k]
       PROVE  t.ndeps[k] >= Cardinality(Inward(k) \ t.seen)
  <2>1. Waits(t.flags[k], k) = Inward(k)
    BY <1>11, <1>12, StopsWaits
  <2>2. Inward(k) \ t.seen = Inward(k) /\ Inward(k) \ {} = Inward(k)
    BY <1>10
  <2>3. Cardinality(Inward(k) \ {}) \in Nat
    BY InwardCount
  <2>4. t.ndeps[k] = Cardinality(Inward(k))
    BY <1>11, <1>12, <2>1
  <2> QED
    BY <2>2, <2>3, <2>4
<1>13. Lowered(Sched)'
  BY <1>1, <1>11, <1>12 DEF Lowered, Become, Sched
<1>14. flags' = t.flags /\ queue' = t.queue /\ seen' = {}
  BY <1>1, <1>10 DEF Become
<1>15. pc' \notin InLoop /\ pc' # "done" /\ pc' # "setup"
  BY <1>1 DEF InLoop
<1>16. ASSUME NEW k \in Jails, Held(k)'
       PROVE  "STOP" \in flags'[k]
  BY <1>11, <1>14, <1>15, <1>16 DEF Held
<1>17. \A k \in Jails : Sinks(k)'
  BY <1>1, <1>9 DEF DInv, Sinks
<1> QED
  BY <1>13, <1>14, <1>15, <1>16, <1>17 DEF DInv

(* The invariant holds initially                                           *)
LEMMA InitDInv == Init => DInv
<1> SUFFICES ASSUME Init
             PROVE  DInv
  OBVIOUS
<1>1. /\ pc = "setup" /\ seen = {}
      /\ \A k \in Jails : /\ flags[k] \in SUBSET {"FAILED"}
                          /\ list[k] = "NULL" /\ jid[k] = 0
                          /\ queue[k] = "cfjails"
  BY DEF Init
<1>2. Lowered(Sched)
  BY <1>1 DEF Lowered, Sched, Ops, OpFlag
<1>3. \A k \in Jails : Sinks(k)
  BY <1>1 DEF Sinks
<1> QED
  BY <1>1, <1>2, <1>3 DEF DInv, Begun

(* and every step of a program that is asked to stop jails keeps it.       *)
LEMMA NextDInv ==
  ASSUME IInv, DInv, given \in Given, Op = {"STOP"}, [Next]_vars
  PROVE  DInv'
<1>1. CASE DepSetup \/ \E j \in Jails : LoopCheck(j)
  <2>1. IInv'
    BY <1>1, DepSetupStep, LoopCheckStep
  <2>2. pc' = "loops" /\ UNCHANGED <<list, jid, up>>
    BY <1>1 DEF DepSetup, LoopCheck, coms
  <2> QED
    BY <2>1, <2>2, BeforeLoopDown
<1>2. CASE JailMain
  BY <1>2, JailMainDown
<1>3. CASE \/ \E j \in Jails, bad \in BOOLEAN : CommandExits(j, bad)
           \/ \E j \in Jails : CommandTimesOut(j)
           \/ \E j \in Jails : NextReady(j)
  <2>1. PICK j \in Jails : \/ \E bad \in BOOLEAN : CommandExits(j, bad)
                           \/ CommandTimesOut(j)
                           \/ NextReady(j)
    BY <1>3
  <2> QED
    BY <2>1, NextJailDown
<1>4. CASE Exit \/ UNCHANGED vars
  BY <1>4, QuietDown DEF Exit, vars, sched, coms
<1>5. CASE MainLoop
  BY <1>5, MainLoopDown
<1> QED
  BY <1>1, <1>2, <1>3, <1>4, <1>5 DEF Next

(* With -r a jail that runs its stop commands and has not failed is alone: *)
(* nothing that depends on it runs, for any command line with -r alone.    *)
THEOREM DownInvariance == Spec => [](Op = {"STOP"} => DInv)
<1>1. IInv /\ (Op = {"STOP"} => DInv) /\ given \in Given /\ [Next]_vars
        => (Op = {"STOP"} => DInv)'
  BY NextDInv, OpStays
<1>2. Init => (Op = {"STOP"} => DInv)
  BY InitDInv
<1> QED
  BY <1>1, <1>2, Invariance, Rigid, PTL DEF Spec

(* No jail that has failed comes to its commands.  dep_check() marks a     *)
(* jail failed when one that depends on it could not be stopped, and       *)
(* jail_main() goes on with its stop commands all the same.                *)
NoneLost == pc = "command" => "FAILED" \notin flags[cur]

(* With -r, as long as no failed jail comes to its commands, a jail is     *)
(* removed only when no jail that depends on it, and no jail inside of it, *)
(* runs any more.  jail_main() calls dep_check() before it begins a stop,  *)
(* and dep_done() of a jail that goes on only behind its last command.     *)
THEOREM RemovedAfter ==
  Spec /\ [](Op = {"STOP"} /\ NoneLost) => RemovedInOrder
<1>1. ASSUME IInv, Op = {"STOP"} => DInv, Op = {"STOP"}, NoneLost, [Next]_vars,
             NEW j \in up \ up', j = cur, "STOP" \in flags[j],
             NEW e \in Edge, Deps[e].to = j
      PROVE  Deps[e].from \notin up
  <2>1. RemoveJail
    BY <1>1, OnlyRemoveStops
  <2>2. pc = "command" /\ j \in Jails /\ DInv
    BY <1>1, <2>1, EdgeEnds DEF RemoveJail, Upcoming
  <2>3. list[j] = "stop" /\ "FAILED" \notin flags[j]
    BY <1>1, <2>2, StopForward DEF NoneLost
  <2>4. Alone(j)
    BY <2>2, <2>3 DEF DInv, Sinks
  <2> QED
    BY <1>1, <2>4 DEF Alone, Inward
<1>2. ASSUME IInv, Op = {"STOP"} => DInv, Op = {"STOP"}, NoneLost, [Next]_vars
      PROVE  \A j \in up \ up' : j = cur /\ "STOP" \in flags[j] =>
               \A e \in Edge : Deps[e].to = j => Deps[e].from \notin up
  <2> SUFFICES ASSUME NEW j \in up \ up', j = cur, "STOP" \in flags[j],
                      NEW e \in Edge, Deps[e].to = j
               PROVE  Deps[e].from \notin up
    OBVIOUS
  <2> QED
    BY <1>1, <1>2
<1>3. IInv /\ (Op = {"STOP"} => DInv) /\ Op = {"STOP"} /\ NoneLost
        /\ [Next]_vars =>
        [\A j \in up \ up' : j = cur /\ "STOP" \in flags[j] =>
           \A e \in Edge : Deps[e].to = j => Deps[e].from \notin up]_vars
  BY <1>2
<1> QED
  BY <1>3, Invariance, DownInvariance, PTL DEF Spec, RemovedInOrder
=============================================================================
