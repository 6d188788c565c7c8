--------------------------- MODULE JailSched_ends ---------------------------
(***************************************************************************)
(* Theorems about the end of the main loop of JailSched.                   *)
(*                                                                         *)
(* With one operation for all jails the counts are those of the unseen     *)
(* edges (CountsUnseen), so that no jail is left waiting when the          *)
(* dependencies make no loop and the slots no limit (Settled).             *)
(*                                                                         *)
(* With -c, when nobody is left waiting, a jail whose start failed is down *)
(* (RolledBack) and so is what depends on it (FailureSpreads); and for one *)
(* operation of all jails exit status 0 means that each is in the state    *)
(* asked for (StatusTellsFailure).                                         *)
(*                                                                         *)
(* And "jail -c" of all jails implements JailOrder (InOrder) when no jail  *)
(* is inside of another one.                                               *)
(***************************************************************************)
EXTENDS JailSched_order, JailStart

-----------------------------------------------------------------------------
(* The main loop holds a jail.                                             *)
LEMMA CurInJails ==
  ASSUME IInv, MainLoop
  PROVE  pc \in InLoop /\ cur \in Jails
<1>1. CASE \/ SkipFailed \/ BadParams \/ RunningJid \/ FinishNothing
           \/ FinishCommand \/ Turn \/ TurnRestart \/ Exists \/ NotFound
           \/ WaitForOthers \/ BeginStart \/ BeginStop \/ AlreadyRuns
           \/ NotRunning \/ AbandonStop \/ Resume \/ Update
  <2>1. pc \in {"begin", "finish", "op"}
    BY <1>1 DEF SkipFailed, BadParams, RunningJid, FinishNothing,
       FinishCommand, Turn, TurnRestart, Exists, NotFound, WaitForOthers,
       BeginStart, BeginStop, AlreadyRuns, NotRunning, AbandonStop, Resume,
       Update, Unblocked, MayCheck, Single
  <2> QED
    BY <2>1 DEF InLoop, IInv, Owner
<1>2. CASE \/ Done \/ WaitForSlot \/ EnterCommands \/ CommandsEnd \/ LeaveList
           \/ PassCommand \/ RunCommand \/ TermProcs \/ CreateJail \/ RemoveJail
  <2>1. pc \in {"done", "next_command", "command"}
    BY <1>2 DEF Done, WaitForSlot, EnterCommands, CommandsEnd, LeaveList,
       PassCommand, RunCommand, TermProcs, CreateJail, RemoveJail, Upcoming
  <2> QED
    BY <2>1 DEF InLoop, IInv, Owner
<1> QED
  BY <1>1, <1>2 DEF MainLoop

-----------------------------------------------------------------------------
(* One operation for all jails.                                            *)

Single1 == {{"START"}, {"STOP"}, {"SET"}}

(* "jail -c", "jail -r" or "jail -m" of the whole file.                    *)
Whole == Target = "all" /\ Op \in Single1

(* Every jail has the operations ops and counts the edges it has not seen, *)
(* and none waits that has seen them all.                                  *)
Counted(s, ops) ==
  \A k \in Jails :
    /\ Ops(s.flags[k]) = ops
    /\ s.ndeps[k] = Cardinality(Waits(s.flags[k], k) \ s.seen)
    /\ s.queue[k] = "depend" => s.ndeps[k] # 0

(* Who waited for a jail that is done with has been told.                  *)
Telling == \A k \in Jails : ~Held(k) => \A e \in Frees(flags[k], k) : e \in seen

WInv ==
  /\ pc = "setup" => seen = {} /\ \A k \in Jails : queue[k] = "cfjails"
  /\ pc # "setup" => Counted(Sched, IF Begun THEN Op ELSE {})
  /\ pc \notin {"setup", "crashed"} => Telling
  /\ ParaLimit < 0 => \A k \in Jails : queue[k] # "runnable"

(* From s to t the counts stay right, and no jail but c is taken up or     *)
(* done with.                                                              *)
Follows(s, t, ops, c) ==
  /\ t \in SchedType /\ Counted(t, ops)
  /\ \A e \in s.seen : e \in t.seen
  /\ \A k \in Jails : k # c =>
       /\ t.queue[k] = "cfjails" => s.queue[k] = "cfjails"
       /\ t.queue[k] = "runnable" => s.queue[k] = "runnable"

(* No jail but c is taken up or done with by this step.                    *)
Others(c) ==
  \A k \in Jails \ {c} : queue'[k] = "cfjails" => queue[k] = "cfjails"

(* dep_done() of the jail c has told the jails that wait for it.           *)
ToldAll(s, t, ops, c, light) ==
  /\ Follows(s, t, ops, c)
  /\ s.queue[c] # "runnable" => t.queue[c] # "runnable"
  /\ ~light => \A e \in Frees(s.flags[c], c) : e \in t.seen
  /\ \A k \in Jails : \/ t.flags[k] = s.flags[k]
                      \/ t.flags[k] = s.flags[k] \cup {"FAILED"}

-----------------------------------------------------------------------------
(* What the functions of state.c do to the counts.                         *)

(* Jails with the same operations wait for, and free, the same edges.      *)
LEMMA SameWaits ==
  ASSUME NEW f, NEW g, Ops(f) = Ops(g), NEW j
  PROVE  /\ DoStop(f) <=> DoStop(g)
         /\ Waits(f, j) = Waits(g, j)
         /\ Frees(f, j) = Frees(g, j)
<1>1. DoStop(f) <=> DoStop(g)
  <2>1. "STOP" \in f <=> "STOP" \in g
    BY InOps DEF OpFlag
  <2>2. "SET" \in f <=> "SET" \in g
    BY InOps DEF OpFlag
  <2> QED
    BY <2>1, <2>2 DEF DoStop
<1>2. Waits(f, j) = Waits(g, j)
  BY <1>1 DEF Waits
<1>3. Frees(f, j) = Frees(g, j)
  BY <1>1 DEF Frees
<1> QED
  BY <1>1, <1>2, <1>3

(* What changes no operation, no count and no edge, and sends no jail to   *)
(* depend that has none to see, keeps the counts.                          *)
LEMMA SameCounts ==
  ASSUME NEW s, NEW t \in SchedType, NEW c, NEW ops, Counted(s, ops),
         t.ndeps = s.ndeps, t.seen = s.seen,
         \A k \in Jails :
           /\ Ops(t.flags[k]) = Ops(s.flags[k])
           /\ t.queue[k] = "depend" => s.queue[k] = "depend" \/ s.ndeps[k] # 0
           /\ k # c /\ t.queue[k] = "cfjails" => s.queue[k] = "cfjails"
           /\ k # c /\ t.queue[k] = "runnable" => s.queue[k] = "runnable"
  PROVE  Follows(s, t, ops, c)
<1>1. ASSUME NEW k \in Jails
      PROVE  Waits(t.flags[k], k) = Waits(s.flags[k], k)
  BY SameWaits
<1>2. Counted(t, ops)
  BY <1>1 DEF Counted
<1> QED
  BY <1>2 DEF Follows

(* Two changes that keep the counts keep them.                             *)
LEMMA FollowsTrans ==
  ASSUME NEW s, NEW t, NEW u, NEW c, NEW ops,
         Follows(s, t, ops, c), Follows(t, u, ops, c)
  PROVE  Follows(s, u, ops, c)
BY DEF Follows

(* failed() keeps the counts.                                              *)
LEMMA FailedCounts ==
  ASSUME NEW s \in SchedType, NEW c \in Jails, NEW ops, Counted(s, ops)
  PROVE  Follows(s, Failed(s, c), ops, c) /\ Failed(s, c).queue[c] = "ready"
<1> DEFINE t == Failed(s, c)
<1>1. /\ t \in SchedType
      /\ t.flags = [s.flags EXCEPT ![c] = @ \cup {"FAILED"}]
      /\ t.ndeps = s.ndeps /\ t.seen = s.seen
      /\ \A k \in Jails : t.queue[k] = IF k = c THEN "ready" ELSE s.queue[k]
  BY FailedFacts
<1> HIDE DEF t
<1>2. s.flags \in [Jails -> SUBSET Flag]
  BY DEF SchedType
<1>3. \A k \in Jails : \/ t.flags[k] = s.flags[k]
                       \/ t.flags[k] = s.flags[k] \cup {"FAILED"}
  BY <1>1, <1>2
<1>4. \A k \in Jails : Ops(t.flags[k]) = Ops(s.flags[k])
  BY <1>3, FailedNoOp
<1>5. Follows(s, t, ops, c)
  BY <1>1, <1>4, SameCounts
<1> QED
  BY <1>1, <1>5 DEF t

(* A jail that is requeued keeps the counts, unless it has no edge to see  *)
(* and goes to depend.                                                     *)
LEMMA MovedCounts ==
  ASSUME NEW s, NEW c \in Jails, NEW q, NEW ops, Counted(s, ops), q # "depend",
         NEW t, Moved(s, t, {c}, q)
  PROVE  Follows(s, t, ops, c) /\ t.queue[c] = q
<1>1. /\ t \in SchedType
      /\ t.flags = s.flags /\ t.ndeps = s.ndeps /\ t.seen = s.seen
      /\ \A k \in Jails : t.queue[k] = IF k = c THEN q ELSE s.queue[k]
  BY DEF Moved
<1>2. \A k \in Jails : t.queue[k] = "depend" => s.queue[k] = "depend"
  BY <1>1
<1>3. Follows(s, t, ops, c)
  BY <1>1, <1>2, SameCounts
<1> QED
  BY <1>1, <1>3

(* dep_done() of a jail with the operation of all others counts down each  *)
(* jail for the edges that it waits for and is told of.                    *)
LEMMA DepDoneCounts ==
  ASSUME NEW s \in SchedType, NEW c \in Jails,
         NEW light \in BOOLEAN, NEW nofail \in BOOLEAN,
         NEW ops, Counted(s, ops)
  PROVE  ToldAll(s, DepDone(s, c, light, nofail), ops, c, light)
<1> DEFINE t == DepDone(s, c, light, nofail)
           new == Resolved(s, c, light)
<1>1. Announced(s, t, c, light, nofail)
  BY DepDoneWhole
<1> HIDE DEF t
<1>2. ASSUME NEW k \in Jails, t.queue[k] = "depend"
      PROVE  /\ s.queue[k] = "depend"
             /\ s.ndeps[k] \notin 1 .. Cardinality(Told(s, c, light, k))
  BY <1>1, <1>2 DEF Announced
<1>3. t \in SchedType /\ t.seen = s.seen \cup new
  BY <1>1 DEF Announced
<1>4. ASSUME NEW k \in Jails
      PROVE  /\ t.ndeps[k] = s.ndeps[k] - Cardinality(Told(s, c, light, k))
             /\ \/ t.flags[k] = s.flags[k]
                \/ t.flags[k] = s.flags[k] \cup {"FAILED"}
             /\ t.queue[k] = "cfjails" => s.queue[k] = "cfjails"
             /\ t.queue[k] = "runnable" => s.queue[k] = "runnable"
  BY <1>1 DEF Announced
<1>5. ASSUME NEW k \in Jails
      PROVE  Ops(t.flags[k]) = ops /\ Waits(t.flags[k], k) = Waits(s.flags[k], k)
  <2>1. Ops(t.flags[k]) = Ops(s.flags[k])
    BY <1>4, FailedNoOp
  <2>2. Waits(t.flags[k], k) = Waits(s.flags[k], k)
    BY <2>1, SameWaits
  <2>3. Ops(s.flags[k]) = ops
    BY DEF Counted
  <2> QED
    BY <2>1, <2>2, <2>3
<1>6. ASSUME NEW k \in Jails
      PROVE  Told(s, c, light, k) = new \cap Waits(s.flags[k], k)
  <2>0. Ops(s.flags[k]) = Ops(s.flags[c])
    BY DEF Counted
  <2>1. DoStop(s.flags[k]) <=> DoStop(s.flags[c])
    BY <2>0, SameWaits
  <2>2. ASSUME NEW e \in new
        PROVE  e \in Edge /\ (Far(e, c) = k <=> e \in Waits(s.flags[k], k))
    BY <2>1 DEF Resolved, Frees, Waits, Far
  <2> HIDE DEF new
  <2>3. Told(s, c, light, k) = {e \in new : Far(e, c) = k}
    BY DEF Told, new
  <2> QED
    BY <2>2, <2>3
<1>7. ASSUME NEW k \in Jails
      PROVE  /\ t.ndeps[k] = Cardinality(Waits(t.flags[k], k) \ t.seen)
             /\ t.queue[k] = "depend" => t.ndeps[k] # 0
  <2> DEFINE left == Waits(s.flags[k], k) \ s.seen
             told == Told(s, c, light, k)
             n == Cardinality(told)
             m == Cardinality(left)
  <2>1. \A e \in new : e \notin s.seen
    BY DEF Resolved
  <2>2. left \cap told = told /\ Waits(t.flags[k], k) \ t.seen = left \ told
    BY <1>3, <1>5, <1>6, <2>1
  <2>3. left \in SUBSET Edge /\ told \in SUBSET Edge
    BY <1>6, WaitsCount
  <2>4. IsFiniteSet(left) /\ m \in Nat /\ n \in Nat
    BY <2>3, EdgesFinite, FS_Subset, EdgeCount
  <2>5. s.ndeps[k] = m /\ (s.queue[k] = "depend" => m # 0)
    BY DEF Counted
  <2> HIDE DEF left, told
  <2>6. Cardinality(left \ told) = m - n
    BY <2>2, <2>4, FS_Difference
  <2>7. Cardinality(left \ told) \in Nat
    BY <2>4, FS_Subset, FS_CardinalityType
  <2>8. t.ndeps[k] = m - n
    BY <1>4, <2>5 DEF told
  <2>9. t.queue[k] = "depend" => m # 0 /\ m \notin 1 .. n
    BY <1>2, <2>5 DEF told
  <2> HIDE DEF m, n
  <2>10. t.queue[k] = "depend" => t.ndeps[k] # 0
    BY <2>4, <2>6, <2>7, <2>8, <2>9
  <2> QED
    BY <2>2, <2>6, <2>8, <2>10
<1>8. Counted(t, ops)
  BY <1>5, <1>7 DEF Counted
<1>9. Follows(s, t, ops, c)
  BY <1>3, <1>4, <1>8 DEF Follows
<1>10. ~light => \A e \in Frees(s.flags[c], c) : e \in t.seen
  BY <1>3 DEF Resolved
<1> QED
  BY <1>4, <1>9, <1>10 DEF ToldAll, t

(* dep_check() of a jail with the operation of all others draws none in.   *)
LEMMA DepCheckCounts ==
  ASSUME NEW s \in SchedType, NEW c \in Jails,
         NEW ops \in Single1, Counted(s, ops)
  PROVE  LET t == DepCheck(s, c)
         IN  /\ Follows(s, t, ops, c)
             /\ t.queue[c] = IF Blocked(s, c) THEN "depend" ELSE s.queue[c]
<1> DEFINE t == DepCheck(s, c)
<1>1. Drew(s, t, c)
  BY DepCheckWhole
<1> HIDE DEF t
<1>2. t \in SchedType /\ t.seen = s.seen
  BY <1>1 DEF Drew
<1>3. ASSUME NEW k \in Jails
      PROVE  Ops(s.flags[k]) = ops /\ Ops(s.flags[k]) # {}
  BY DEF Counted, Single1
<1>4. Idlers(s, c) = {}
  <2>1. \A k \in Idlers(s, c) : k \in Jails /\ Ops(s.flags[k]) = {}
    BY CalledJails DEF Idlers
  <2> QED
    BY <1>3, <2>1
<1>5. Recounted(s, c) = {}
  <2>1. ASSUME NEW k \in Jails
        PROVE  "STOP" \in s.flags[c] <=> "STOP" \in s.flags[k]
    BY <1>3, InOps DEF OpFlag
  <2>2. \A k \in Called(s, c) : k \in Jails
    BY CalledJails
  <2> QED
    BY <1>4, <2>1, <2>2 DEF Recounted
<1>6. ASSUME NEW k \in Jails
      PROVE  Ops(Drawn(s.flags[c], s.flags[k])) = ops
  <2>1. /\ "START" \in s.flags[c] <=> "START" \in ops
        /\ "STOP" \in s.flags[c] <=> "STOP" \in ops
        /\ "START" \in s.flags[k] <=> "START" \in ops
        /\ "STOP" \in s.flags[k] <=> "STOP" \in ops
        /\ "SET" \in s.flags[k] <=> "SET" \in ops
    BY <1>3, InOps DEF OpFlag
  <2>2. ops = {"START"} \/ ops = {"STOP"} \/ ops = {"SET"}
    BY DEF Single1
  <2>3. Drawn(s.flags[c], s.flags[k]) = s.flags[k]
    <3>1. CASE ops = {"START"}
      BY <2>1, <3>1 DEF Drawn
    <3>2. CASE ops = {"STOP"}
      BY <2>1, <3>2 DEF Drawn
    <3>3. CASE ops = {"SET"}
      BY <1>3, <2>1, <3>3 DEF Drawn
    <3> QED
      BY <2>2, <3>1, <3>2, <3>3
  <2> QED
    BY <1>3, <2>3
<1>7. ASSUME NEW k \in Jails
      PROVE  /\ Ops(t.flags[k]) = Ops(s.flags[k])
             /\ t.ndeps[k] = s.ndeps[k]
             /\ t.queue[k] = IF k = c /\ Blocked(s, c) THEN "depend"
                             ELSE s.queue[k]
  <2>1. t.flags[k] = NewFlags(s, c, k)
    BY <1>1 DEF Drew
  <2>2. Ops(t.flags[k]) = Ops(s.flags[k])
    BY <1>3, <1>6, <2>1, NewFlagsFacts
  <2>3. /\ t.ndeps[k] = s.ndeps[k]
        /\ t.queue[k] = IF k = c /\ Blocked(s, c) THEN "depend"
                        ELSE s.queue[k]
    BY <1>1, <1>4, <1>5 DEF Drew
  <2> QED
    BY <2>2, <2>3
<1>8. t.ndeps = s.ndeps
  <2>1. t.ndeps \in [Jails -> Int] /\ s.ndeps \in [Jails -> Int]
    BY <1>2 DEF SchedType
  <2> QED
    BY <1>7, <2>1
<1>9. Blocked(s, c) => s.ndeps[c] # 0
  BY DEF Blocked, Pending
<1>10. Follows(s, t, ops, c)
  BY <1>2, <1>7, <1>8, <1>9, SameCounts
<1> QED
  BY <1>7, <1>10 DEF t

-----------------------------------------------------------------------------
(* One step of the main loop.                                              *)

(* It is enough to look at the jail the loop holds, or takes up.           *)
LEMMA WholeStep ==
  ASSUME WInv, Op' = Op, Begun, Begun', pc # "crashed",
         NEW c \in Jails, Held(c),
         NEW t, Become(t), Follows(Sched, t, Op, c),
         pc \in InLoop => c = cur,
         cur' = c \/ pc' \notin InLoop,
         ParaLimit < 0 => t.queue[c] # "runnable",
         \/ Held(c)'
         \/ pc' = "crashed"
         \/ \A e \in Frees(t.flags[c], c) : e \in t.seen
  PROVE  WInv' /\ Others(c)
<1>1. flags' = t.flags /\ seen' = t.seen /\ queue' = t.queue
  BY DEF Become
<1>2. Counted(t, Op) /\ Counted(Sched, Op)
  BY DEF Follows, WInv, Begun
<1>3. Counted(Sched', Op)
  BY <1>2 DEF Counted, Become, Sched
<1>4. ASSUME NEW k \in Jails, k # c, ~Held(k)', NEW e \in Frees(flags'[k], k)
      PROVE  e \in seen'
  <2>1. queue'[k] = "cfjails"
    BY <1>4 DEF Held
  <2>2. queue[k] = "cfjails"
    BY <1>1, <1>4, <2>1 DEF Follows, Sched
  <2>3. ~Held(k)
    BY <1>4, <2>2 DEF Held
  <2>4. Ops(flags'[k]) = Ops(flags[k])
    BY <1>1, <1>2 DEF Counted, Sched
  <2>5. e \in Frees(flags[k], k)
    BY <1>4, <2>4, SameWaits
  <2>6. e \in seen
    BY <2>3, <2>5 DEF WInv, Telling, Begun
  <2> QED
    BY <1>1, <2>6 DEF Follows, Sched
<1>5. pc' # "crashed" => Telling'
  BY <1>1, <1>4 DEF Telling
<1>6. ParaLimit < 0 => \A k \in Jails : queue'[k] # "runnable"
  BY <1>1 DEF Follows, WInv, Sched
<1>7. Others(c)
  BY <1>1 DEF Follows, Others, Sched
<1> QED
  BY <1>3, <1>5, <1>6, <1>7 DEF WInv, Begun

(* The jail the loop holds has the operation of the command line.          *)
LEMMA WholeFacts ==
  ASSUME IInv, WInv, Whole, NEW c \in Jails, c = cur, pc \in InLoop
  PROVE  /\ Begun /\ Held(c) /\ pc # "crashed" /\ TypeOK
         /\ Sched \in SchedType /\ Counted(Sched, Op)
         /\ Sched.flags = flags /\ Sched.queue = queue
         /\ Sched.ndeps = ndeps /\ Sched.seen = seen
         /\ Ops(flags[c]) = Op /\ Op \in Single1
         /\ ParaLimit < 0 => queue[c] # "runnable"
<1>1. Begun /\ Held(c) /\ pc # "crashed"
  BY DEF Begun, Held, InLoop
<1>2. TypeOK
  BY DEF IInv
<1>3. /\ Sched \in SchedType /\ Sched.flags = flags
      /\ Sched.queue = queue /\ Sched.ndeps = ndeps /\ Sched.seen = seen
  BY <1>2, SchedIn DEF Sched
<1>4. Counted(Sched, Op) /\ (ParaLimit < 0 => queue[c] # "runnable")
  BY <1>1 DEF WInv, Begun
<1>5. Ops(flags[c]) = Op
  BY <1>3, <1>4 DEF Counted
<1> QED
  BY <1>1, <1>2, <1>3, <1>4, <1>5 DEF Whole

(* The loop goes on with the jail, or the program has crashed.             *)
LEMMA WholeGoesOn ==
  ASSUME IInv, WInv, Whole, NEW c \in Jails, c = cur, pc \in InLoop,
         Op' = Op, cur' = c, pc' \in InLoop \cup {"crashed"},
         NEW t, Become(t), Follows(Sched, t, Op, c),
         t.queue[c] \in {queue[c], "ready"} \/ t.queue[c] # "runnable"
  PROVE  WInv' /\ Others(c)
<1>1. Begun /\ Held(c) /\ pc # "crashed" /\ (ParaLimit < 0 => queue[c] # "runnable")
  BY WholeFacts
<1>2. Begun' /\ (Held(c)' \/ pc' = "crashed")
  BY DEF Begun, Held, InLoop
<1>3. ParaLimit < 0 => t.queue[c] # "runnable"
  BY <1>1
<1> QED
  BY <1>1, <1>2, <1>3, WholeStep

(* The jail leaves the loop for another queue, or all it frees is seen.    *)
LEMMA WholeLeaves ==
  ASSUME IInv, WInv, Whole, NEW c \in Jails, c = cur, pc \in InLoop,
         Op' = Op, Continue,
         NEW t, Become(t), Follows(Sched, t, Op, c),
         ParaLimit < 0 => t.queue[c] # "runnable",
         \/ t.queue[c] # "cfjails"
         \/ \A e \in Frees(t.flags[c], c) : e \in t.seen
  PROVE  WInv' /\ Others(c)
<1>1. Begun /\ Held(c) /\ pc # "crashed"
  BY WholeFacts
<1>2. Begun' /\ pc' \notin InLoop
  BY DEF Continue, Begun, InLoop
<1>3. t.queue[c] # "cfjails" => Held(c)'
  BY DEF Become, Held
<1> QED
  BY <1>1, <1>2, <1>3, WholeStep

(* A change of the flags of jails that leaves their operations.            *)
LEMMA FlagsCounts ==
  ASSUME TypeOK, NEW ops, Counted(Sched, ops), NEW c,
         NEW f \in [Jails -> SUBSET Flag],
         \A k \in Jails : Ops(f[k]) = Ops(flags[k])
  PROVE  LET t == [Sched EXCEPT !.flags = f]
         IN  /\ t \in SchedType /\ Follows(Sched, t, ops, c)
             /\ t.queue = queue /\ t.flags = f
<1> DEFINE t == [Sched EXCEPT !.flags = f]
<1>1. Sched \in SchedType /\ Sched.flags = flags /\ Sched.queue = queue
  BY SchedIn
<1>2. /\ t \in SchedType /\ t.flags = f /\ t.queue = Sched.queue
      /\ t.ndeps = Sched.ndeps /\ t.seen = Sched.seen
  BY <1>1, SetFlags
<1> HIDE DEF t
<1>3. Follows(Sched, t, ops, c)
  BY <1>1, <1>2, SameCounts
<1> QED
  BY <1>1, <1>2, <1>3 DEF t

(* What changes nothing follows.                                           *)
LEMMA FollowsSelf ==
  ASSUME NEW s \in SchedType, NEW ops, Counted(s, ops), NEW c
  PROVE  Follows(s, s, ops, c)
BY DEF Follows

(* A jail that fails leaves the loop.                                      *)
LEMMA WholeFails ==
  ASSUME IInv, WInv, Whole, NEW c \in Jails, c = cur, pc \in InLoop,
         Op' = Op, Continue,
         NEW u \in SchedType, Follows(Sched, u, Op, c), Become(Failed(u, c))
  PROVE  WInv' /\ Others(c)
<1> DEFINE t == Failed(u, c)
<1>1. Follows(u, t, Op, c) /\ t.queue[c] = "ready"
  BY FailedCounts DEF Follows
<1> HIDE DEF t
<1>2. Follows(Sched, t, Op, c)
  BY <1>1, FollowsTrans
<1>3. t.queue[c] # "runnable" /\ t.queue[c] # "cfjails" /\ Become(t)
  BY <1>1 DEF t
<1> QED
  BY <1>2, <1>3, WholeLeaves

(* What the steps of the loop do not change.                               *)
LEMMA OpOfStep ==
  ASSUME MainLoop
  PROVE  Op' = Op
BY OpStays DEF Next

(* The head of the main loop keeps the counts.                             *)
LEMMA HeadCounts ==
  ASSUME IInv, WInv, Whole, NEW c \in Jails, c = cur, Op' = Op,
         SkipFailed \/ BadParams \/ RunningJid \/ FinishNothing
           \/ FinishCommand
  PROVE  WInv' /\ Others(c)
<1>1. pc \in InLoop
  BY DEF SkipFailed, BadParams, RunningJid, FinishNothing, FinishCommand,
     InLoop
<1>2. /\ TypeOK /\ Sched \in SchedType /\ Counted(Sched, Op)
      /\ Sched.flags = flags /\ Sched.queue = queue
      /\ ParaLimit < 0 => queue[c] # "runnable"
  BY <1>1, WholeFacts
<1>3. flags \in [Jails -> SUBSET Flag]
  BY <1>2 DEF TypeOK
<1>4. CASE SkipFailed
  <2> DEFINE t == DepDone(Sched, c, FALSE, FALSE)
  <2>0. ToldAll(Sched, t, Op, c, FALSE)
    BY <1>2, DepDoneCounts
  <2>1. /\ Follows(Sched, t, Op, c)
        /\ queue[c] # "runnable" => t.queue[c] # "runnable"
        /\ \A e \in Frees(flags[c], c) : e \in t.seen
        /\ t.flags[c] = flags[c] \/ t.flags[c] = flags[c] \cup {"FAILED"}
    <3> HIDE DEF t
    <3> QED
      BY <1>2, <2>0 DEF ToldAll
  <2>2. Become(t) /\ Continue
    BY <1>4 DEF SkipFailed
  <2> HIDE DEF t
  <2>3. Ops(t.flags[c]) = Ops(flags[c])
    BY <2>1, FailedNoOp
  <2>4. Frees(t.flags[c], c) = Frees(flags[c], c)
    BY <2>3, SameWaits
  <2> QED
    BY <1>1, <1>2, <2>1, <2>2, <2>4, WholeLeaves
<1>5. ASSUME BadParams \/ RunningJid
      PROVE  LET u == [Sched EXCEPT !.flags = WithParams]
             IN  u \in SchedType /\ Follows(Sched, u, Op, c) /\ u.queue = queue
                   /\ u.flags = WithParams
  <2>1. WithParams \in [Jails -> SUBSET Flag]
    BY WithParamsFacts
  <2>2. \A k \in Jails : WithParams[k] = IF k = c THEN flags[k] \cup {"PARAMS"}
                                                 ELSE flags[k]
    BY <1>3 DEF WithParams
  <2>3. \A k \in Jails : Ops(WithParams[k]) = Ops(flags[k])
    BY <2>2 DEF Ops, OpFlag
  <2> HIDE DEF WithParams
  <2> QED
    BY <1>2, <2>1, <2>3, FlagsCounts
<1>6. CASE BadParams
  <2> DEFINE u == [Sched EXCEPT !.flags = WithParams]
  <2>1. u \in SchedType /\ Follows(Sched, u, Op, c)
    BY <1>5, <1>6
  <2>2. Become(Failed(u, c)) /\ Continue
    BY <1>6 DEF BadParams
  <2> HIDE DEF u
  <2> QED
    BY <1>1, <2>1, <2>2, WholeFails
<1>7. CASE RunningJid
  <2> DEFINE u == [Sched EXCEPT !.flags = WithParams]
  <2>1. u \in SchedType /\ Follows(Sched, u, Op, c) /\ u.queue = queue
    BY <1>5, <1>7
  <2>2. Become(u)
    BY <1>7 DEF Become, Sched, RunningJid
  <2> HIDE DEF u
  <2>3. cur' = c /\ pc' \in InLoop
    BY <1>7 DEF RunningJid, InLoop
  <2> QED
    BY <1>1, <2>1, <2>2, <2>3, WholeGoesOn
<1>8. /\ Awake \in [Jails -> SUBSET Flag]
      /\ \A k \in Jails : Ops(Awake[k]) = Ops(flags[k])
  <2>1. Awake \in [Jails -> SUBSET Flag]
    BY <1>3 DEF Awake
  <2>2. /\ \A k \in Jails \ {c} : Awake[k] = flags[k]
        /\ Ops(Awake[c]) = Ops(flags[c])
    BY AwakeFacts
  <2> HIDE DEF Awake
  <2> QED
    BY <2>1, <2>2
<1>9. CASE FinishNothing
  <2> DEFINE f == IF flags' = Awake THEN Awake ELSE flags
             u == [Sched EXCEPT !.flags = f]
  <2>1. f \in [Jails -> SUBSET Flag] /\ \A k \in Jails : Ops(f[k]) = Ops(flags[k])
    <3> HIDE DEF Awake
    <3> QED
      BY <1>3, <1>8
  <2>2. f = flags' /\ cur' = c /\ pc' \in InLoop
    BY <1>9 DEF FinishNothing, InLoop
  <2> HIDE DEF f
  <2>3. Follows(Sched, u, Op, c) /\ u.queue = queue /\ u.flags = f
    BY <1>2, <2>1, FlagsCounts
  <2>4. Become(u)
    BY <1>9, <2>2 DEF Become, Sched, FinishNothing
  <2> HIDE DEF u
  <2> QED
    BY <1>1, <2>2, <2>3, <2>4, WholeGoesOn
<1>10. CASE FinishCommand
  <2> DEFINE s == [Sched EXCEPT !.flags = Awake]
             u == WakeRunnable(s)
  <2>1. s \in SchedType /\ Follows(Sched, s, Op, c) /\ s.queue = queue
    <3> HIDE DEF Awake
    <3> QED
      BY <1>2, <1>8, FlagsCounts
  <2>2. \/ Become(Failed(u, c)) /\ Continue
        \/ Become(u) /\ pc' = "op" /\ cur' = c
    BY <1>10 DEF FinishCommand
  <2> HIDE DEF s
  <2>3. Woke(s, u)
    BY <2>1, WakeRunnableWhole
  <2>4. Alike(s, u)
    BY <2>1, WakeRunnableAlike
  <2> HIDE DEF u
  <2>5. /\ u \in SchedType /\ u.ndeps = s.ndeps /\ u.seen = s.seen
        /\ \A k \in Jails : \/ u.queue[k] = s.queue[k]
                            \/ s.queue[k] = "runnable" /\ u.queue[k] = "ready"
    BY <2>3 DEF Woke
  <2>6. \A k \in Jails : Ops(u.flags[k]) = Ops(s.flags[k])
    BY <2>4 DEF Alike
  <2>7. Counted(s, Op)
    BY <2>1 DEF Follows
  <2>8. Follows(s, u, Op, c)
    BY <2>5, <2>6, <2>7, SameCounts
  <2>9. Follows(Sched, u, Op, c)
    BY <2>1, <2>8, FollowsTrans
  <2>10. u.queue[c] \in {queue[c], "ready"}
    BY <2>1, <2>5
  <2>11. pc' = "op" => pc' \in InLoop
    BY DEF InLoop
  <2> QED
    BY <1>1, <2>2, <2>5, <2>9, <2>10, <2>11, WholeFails, WholeGoesOn
<1> QED
  BY <1>4, <1>6, <1>7, <1>9, <1>10

(* So does what the loop makes of the operation of the jail.               *)
LEMMA OperationCounts ==
  ASSUME IInv, WInv, Whole, NEW c \in Jails, c = cur, Op' = Op,
         Turn \/ TurnRestart \/ Exists \/ NotFound \/ WaitForOthers
           \/ BeginStart \/ BeginStop \/ AlreadyRuns \/ NotRunning
           \/ AbandonStop \/ Resume \/ Update
  PROVE  WInv' /\ Others(c)
<1>1. pc = "op" /\ pc \in InLoop
  BY DEF Turn, TurnRestart, Exists, NotFound, WaitForOthers, BeginStart,
     BeginStop, AlreadyRuns, NotRunning, AbandonStop, Resume, Update,
     Unblocked, MayCheck, Single, InLoop
<1>2. /\ TypeOK /\ Sched \in SchedType /\ Counted(Sched, Op)
      /\ Sched.flags = flags /\ Sched.queue = queue
      /\ Ops(flags[c]) = Op /\ Op \in Single1
      /\ ParaLimit < 0 => queue[c] # "runnable"
  BY <1>1, WholeFacts
<1>3. ~Turn /\ ~TurnRestart
  <2>1. /\ "START" \in flags[c] <=> "START" \in Op
        /\ "SET" \in flags[c] <=> "SET" \in Op
    BY <1>2, InOps DEF OpFlag
  <2>2. ~({"START", "SET"} \subseteq flags[c]) /\ Ops(flags[c]) # {"SET", "STOP"}
    BY <1>2, <2>1 DEF Single1
  <2> QED
    BY <2>2 DEF Turn, TurnRestart
<1>4. Follows(Sched, Sched, Op, c)
  BY <1>2, FollowsSelf
<1>5. CASE Exists \/ NotFound
  <2>1. Become(Failed(Sched, c)) /\ Continue
    BY <1>5 DEF Exists, NotFound, Refuse
  <2> QED
    BY <1>1, <1>2, <1>4, <2>1, WholeFails
<1>6. CASE AbandonStop \/ Resume
  <2>1. cur' = c /\ pc' \in InLoop /\ Become(Sched)
    BY <1>6 DEF AbandonStop, Resume, InLoop, Become, Sched, sched
  <2> QED
    BY <1>1, <1>2, <1>4, <2>1, WholeGoesOn
<1> DEFINE t == DepCheck(Sched, cur)
<1>7. /\ Follows(Sched, t, Op, c)
      /\ t.queue[c] = IF Blocked(Sched, cur) THEN "depend" ELSE queue[c]
  BY <1>2, DepCheckCounts
<1>8. CASE WaitForOthers
  <2>1. Become(t) /\ Continue /\ Blocked(Sched, cur)
    BY <1>8 DEF WaitForOthers
  <2> HIDE DEF t
  <2> QED
    BY <1>1, <1>7, <2>1, WholeLeaves
<1>9. CASE BeginStart \/ BeginStop \/ AlreadyRuns
  <2>1. Become(t) /\ cur' = c /\ pc' \in InLoop
    BY <1>9 DEF BeginStart, BeginStop, Begin, AlreadyRuns, InLoop
  <2> HIDE DEF t
  <2>2. t.queue[c] \in {queue[c], "ready"} \/ t.queue[c] # "runnable"
    BY <1>7
  <2> QED
    BY <1>1, <1>7, <2>1, <2>2, WholeGoesOn
<1>10. t \in SchedType
  BY <1>7 DEF Follows
<1>11. /\ Follows(Sched, Failed(t, c), Op, c)
       /\ Failed(t, c).queue[c] = "ready"
  <2>1. Counted(t, Op)
    BY <1>7 DEF Follows
  <2> HIDE DEF t
  <2>2. Follows(t, Failed(t, c), Op, c) /\ Failed(t, c).queue[c] = "ready"
    BY <1>10, <2>1, FailedCounts
  <2> QED
    BY <1>7, <2>2, FollowsTrans
<1>12. CASE NotRunning
  <2>1. /\ Become(t) \/ Become(Failed(t, c))
        /\ cur' = c /\ pc' \in InLoop
    BY <1>12 DEF NotRunning, InLoop
  <2> HIDE DEF t
  <2>2. t.queue[c] \in {queue[c], "ready"} \/ t.queue[c] # "runnable"
    BY <1>7
  <2>3. CASE Become(t)
    BY <1>1, <1>7, <2>1, <2>2, <2>3, WholeGoesOn
  <2>4. CASE Become(Failed(t, c))
    BY <1>1, <1>11, <2>1, <2>4, WholeGoesOn
  <2> QED
    BY <2>1, <2>3, <2>4
<1>13. CASE Update
  <2>1. \/ Become(Failed(t, c)) /\ Continue
        \/ Become(t) /\ cur' = c /\ pc' \in InLoop
    BY <1>13 DEF Update, InLoop
  <2> HIDE DEF t
  <2>2. t.queue[c] \in {queue[c], "ready"} \/ t.queue[c] # "runnable"
    BY <1>7
  <2>3. CASE Become(t) /\ cur' = c /\ pc' \in InLoop
    BY <1>1, <1>7, <2>2, <2>3, WholeGoesOn
  <2>4. CASE Become(Failed(t, c)) /\ Continue
    BY <1>1, <1>7, <1>10, <2>4, WholeFails
  <2> QED
    BY <2>1, <2>3, <2>4
<1> QED
  BY <1>3, <1>5, <1>6, <1>8, <1>9, <1>12, <1>13

(* A jail that is done with tells all that wait for it.                    *)
LEMMA DoneCounts ==
  ASSUME IInv, WInv, Whole, NEW c \in Jails, c = cur, Op' = Op, Done
  PROVE  /\ WInv' /\ Others(c)
         /\ queue[c] # "cfjails" => queue'[c] # "cfjails"
<1> DEFINE t == DepDone(Sched, c, FALSE, FALSE)
<1>1. pc \in InLoop
  BY DEF Done, InLoop
<1>2. /\ Sched \in SchedType /\ Counted(Sched, Op)
      /\ Sched.flags = flags /\ Sched.queue = queue
      /\ Ops(flags[c]) = Op /\ Op \in Single1
      /\ ParaLimit < 0 => queue[c] # "runnable"
  BY <1>1, WholeFacts
<1>0. ToldAll(Sched, t, Op, c, FALSE)
  BY <1>2, DepDoneCounts
<1>3. /\ Follows(Sched, t, Op, c)
      /\ queue[c] # "runnable" => t.queue[c] # "runnable"
      /\ \A e \in Frees(flags[c], c) : e \in t.seen
      /\ t.flags[c] = flags[c] \/ t.flags[c] = flags[c] \cup {"FAILED"}
  <2> HIDE DEF t
  <2> QED
    BY <1>0, <1>2 DEF ToldAll
<1>4. Ops(t.flags[c]) = Op /\ Frees(t.flags[c], c) = Frees(flags[c], c)
  <2> HIDE DEF t
  <2>1. Ops(t.flags[c]) = Ops(flags[c])
    BY <1>3, FailedNoOp
  <2>2. Frees(t.flags[c], c) = Frees(flags[c], c)
    BY <2>1, SameWaits
  <2> QED
    BY <1>2, <2>1, <2>2
<1>5. ~({"START", "STOP"} \subseteq t.flags[c])
  <2> HIDE DEF t
  <2>1. /\ "START" \in t.flags[c] <=> "START" \in Op
        /\ "STOP" \in t.flags[c] <=> "STOP" \in Op
    BY <1>4, InOps DEF OpFlag
  <2> QED
    BY <1>2, <2>1 DEF Single1
<1>6. Become(t) /\ Continue
  BY <1>5 DEF Done
<1>7. queue[c] # "cfjails" => t.queue[c] # "cfjails"
  <2>1. Announced(Sched, t, c, FALSE, FALSE)
    BY <1>2, DepDoneWhole
  <2> HIDE DEF t
  <2> QED
    BY <1>2, <2>1 DEF Announced
<1>8. queue' = t.queue
  BY <1>6 DEF Become
<1> HIDE DEF t
<1>9. WInv' /\ Others(c)
  BY <1>1, <1>2, <1>3, <1>4, <1>6, WholeLeaves
<1> QED
  BY <1>7, <1>8, <1>9

(* A jail that is put to sleep keeps the counts.                           *)
LEMMA SleepCounts ==
  ASSUME TypeOK, NEW ops, Counted(Sched, ops), NEW c \in Jails, c = cur
  PROVE  LET t == Requeue([Sched EXCEPT !.flags = [flags EXCEPT
                             ![cur] = @ \cup {"SLEEPQ"}]],
                          {cur}, "sleeping", {})
         IN  Follows(Sched, t, ops, c) /\ t.queue[c] = "sleeping"
<1> DEFINE f == [flags EXCEPT ![c] = @ \cup {"SLEEPQ"}]
           s == [Sched EXCEPT !.flags = f]
           t == Requeue(s, {c}, "sleeping", {})
<1>1. flags \in [Jails -> SUBSET Flag]
  BY DEF TypeOK
<1>2. f \in [Jails -> SUBSET Flag]
  BY <1>1 DEF Flag
<1>3. \A k \in Jails : f[k] = IF k = c THEN flags[k] \cup {"SLEEPQ"} ELSE flags[k]
  BY <1>1
<1>4. \A k \in Jails : Ops(f[k]) = Ops(flags[k])
  BY <1>3 DEF Ops, OpFlag
<1> HIDE DEF f
<1>5. s \in SchedType /\ Follows(Sched, s, ops, c)
  BY <1>2, <1>4, FlagsCounts
<1> HIDE DEF s
<1>6. "sleeping" \in Queue
  BY DEF Queue
<1>7. Moved(s, t, {c}, "sleeping")
  BY <1>5, <1>6, RequeueOne
<1> HIDE DEF t
<1>8. Counted(s, ops)
  BY <1>5 DEF Follows
<1>9. Follows(s, t, ops, c) /\ t.queue[c] = "sleeping"
  BY <1>7, <1>8, MovedCounts
<1>10. Follows(Sched, t, ops, c)
  BY <1>5, <1>9, FollowsTrans
<1> QED
  BY <1>9, <1>10 DEF t, s, f

(* No jail waits for a slot when there is no limit.                        *)
LEMMA SlotsWithoutLimit ==
  ASSUME IInv, ParaLimit < 0
  PROVE  paralimit # 0
<1>1. paralimit + Cardinality(Holders) = ParaLimit
  BY SlotsBalanceHolders DEF IInv
<1>2. paralimit \in Int /\ Cardinality(Holders) \in Nat /\ ParaLimit \in Int
  BY HoldersFinite, CommandLineAssumption DEF IInv, TypeOK
<1> QED
  BY <1>1, <1>2

(* The commands keep the counts.                                           *)
LEMMA CommandCounts ==
  ASSUME IInv, WInv, Whole, NEW c \in Jails, c = cur, Op' = Op,
         WaitForSlot \/ EnterCommands \/ CommandsEnd \/ LeaveList
           \/ PassCommand \/ RunCommand \/ TermProcs \/ CreateJail
           \/ RemoveJail
  PROVE  WInv' /\ Others(c)
<1>1. pc \in InLoop
  BY DEF WaitForSlot, EnterCommands, CommandsEnd, LeaveList, PassCommand,
     RunCommand, TermProcs, CreateJail, RemoveJail, Upcoming, InLoop
<1>2. /\ TypeOK /\ Sched \in SchedType /\ Counted(Sched, Op)
      /\ Sched.flags = flags /\ Sched.queue = queue
      /\ ParaLimit < 0 => queue[c] # "runnable"
  BY <1>1, WholeFacts
<1>3. Follows(Sched, Sched, Op, c)
  BY <1>2, FollowsSelf
<1>4. CASE WaitForSlot
  <2>1. /\ Continue /\ ~(ParaLimit < 0)
        /\ \/ Become(RequeueHead(Sched, c, "runnable"))
           \/ Become(Requeue(Sched, {c}, "runnable", {}))
    BY <1>4, SlotsWithoutLimit DEF WaitForSlot
  <2>2. "runnable" \in Queue
    BY DEF Queue
  <2>3. PICK t : Moved(Sched, t, {c}, "runnable") /\ Become(t)
    BY <1>2, <2>1, <2>2, RequeueOne, RequeueHeadFacts
  <2>4. Follows(Sched, t, Op, c) /\ t.queue[c] = "runnable"
    BY <1>2, <2>3, MovedCounts
  <2> QED
    BY <1>1, <2>1, <2>3, <2>4, WholeLeaves
<1>5. CASE EnterCommands
  <2> DEFINE u == [Sched EXCEPT !.flags = flags']
  <2>1. cur' = c /\ pc' \in InLoop /\ flags' = [flags EXCEPT ![c] = @ \ {"FROM_RUNQ"}]
    BY <1>5 DEF EnterCommands, InLoop
  <2>2. flags \in [Jails -> SUBSET Flag]
    BY <1>2 DEF TypeOK
  <2>3. flags' \in [Jails -> SUBSET Flag]
    BY <2>1, <2>2
  <2>4. \A k \in Jails : flags'[k] = IF k = c THEN flags[k] \ {"FROM_RUNQ"}
                                              ELSE flags[k]
    BY <2>1, <2>2
  <2>5. \A k \in Jails : Ops(flags'[k]) = Ops(flags[k])
    BY <2>4 DEF Ops, OpFlag
  <2>6. Follows(Sched, u, Op, c) /\ u.queue = queue
    BY <1>2, <2>3, <2>5, FlagsCounts
  <2>7. Become(u)
    BY <1>5 DEF Become, Sched, EnterCommands
  <2> HIDE DEF u
  <2> QED
    BY <1>1, <2>1, <2>6, <2>7, WholeGoesOn
<1>6. CASE CommandsEnd \/ LeaveList \/ PassCommand
  <2>1. cur' = c /\ pc' \in {"done", "crashed", "command"} /\ Become(Sched)
    BY <1>6 DEF CommandsEnd, LeaveList, PassCommand, Upcoming, Become, Sched,
       sched
  <2>2. pc' \in InLoop \cup {"crashed"}
    BY <2>1 DEF InLoop
  <2> QED
    BY <1>1, <1>2, <1>3, <2>1, <2>2, WholeGoesOn
<1> DEFINE t == Requeue([Sched EXCEPT !.flags = [flags EXCEPT
                           ![cur] = @ \cup {"SLEEPQ"}]],
                        {cur}, "sleeping", {})
<1>7. Follows(Sched, t, Op, c) /\ t.queue[c] = "sleeping"
  BY <1>2, SleepCounts
<1>8. CASE RunCommand
  <2>1. /\ Continue
        /\ Become(t) \/ Become(Failed(Sched, c))
    BY <1>8 DEF RunCommand
  <2> HIDE DEF t
  <2> QED
    BY <1>1, <1>2, <1>3, <1>7, <2>1, WholeLeaves, WholeFails
<1>9. CASE TermProcs
  <2>1. \/ Become(t) /\ Continue
        \/ UNCHANGED <<sched, pc, cur>>
    BY <1>9 DEF TermProcs
  <2> HIDE DEF t
  <2>2. CASE Become(t) /\ Continue
    BY <1>1, <1>7, <2>2, WholeLeaves
  <2>3. CASE UNCHANGED <<sched, pc, cur>>
    <3>1. Become(Sched) /\ cur' = c /\ pc' \in InLoop
      BY <1>1, <2>3 DEF Become, Sched, sched
    <3> QED
      BY <1>1, <1>2, <1>3, <3>1, WholeGoesOn
  <2> QED
    BY <2>1, <2>2, <2>3
<1>10. CASE CreateJail \/ RemoveJail
  <2> DEFINE u == DepDone(Sched, c, TRUE, FALSE)
  <2>0. ToldAll(Sched, u, Op, c, TRUE)
    BY <1>2, DepDoneCounts
  <2>1. /\ Follows(Sched, u, Op, c)
        /\ queue[c] # "runnable" => u.queue[c] # "runnable"
    <3> HIDE DEF u
    <3> QED
      BY <1>2, <2>0 DEF ToldAll
  <2>2. \/ Become(u) /\ pc' = pc /\ cur' = c
        \/ Become(Sched) /\ pc' = pc /\ cur' = c
        \/ Become(Failed(Sched, c)) /\ Continue
    BY <1>10 DEF CreateJail, RemoveJail
  <2> HIDE DEF u
  <2>3. queue[c] = "cfjails"
    BY <1>1, <1>10 DEF IInv, Owner, CreateJail, RemoveJail, Upcoming
  <2> QED
    BY <1>1, <1>2, <1>3, <2>1, <2>2, <2>3, WholeGoesOn, WholeFails
<1> QED
  BY <1>4, <1>5, <1>6, <1>8, <1>9, <1>10

(* So does every step of the main loop.                                    *)
LEMMA MainLoopCounts ==
  ASSUME IInv, WInv, Whole, MainLoop
  PROVE  /\ WInv' /\ Others(cur)
         /\ pc = "done" /\ queue[cur] # "cfjails" => queue'[cur] # "cfjails"
<1>1. pc \in InLoop
  BY CurInJails
<1>2. PICK c \in Jails : c = cur
  BY <1>1 DEF IInv, Owner
<1>3. Op' = Op
  BY OpOfStep
<1>4. ASSUME SkipFailed \/ BadParams \/ RunningJid \/ FinishNothing
            \/ FinishCommand
      PROVE  WInv' /\ Others(c)
  BY <1>2, <1>3, <1>4, HeadCounts
<1>5. ASSUME Turn \/ TurnRestart \/ Exists \/ NotFound \/ WaitForOthers
            \/ BeginStart \/ BeginStop \/ AlreadyRuns \/ NotRunning
            \/ AbandonStop \/ Resume \/ Update
      PROVE  WInv' /\ Others(c)
  BY <1>2, <1>3, <1>5, OperationCounts
<1>6. ASSUME Done
      PROVE  WInv' /\ Others(c)
  BY <1>2, <1>3, <1>6, DoneCounts
<1>7. ASSUME WaitForSlot \/ EnterCommands \/ CommandsEnd \/ LeaveList
            \/ PassCommand \/ RunCommand \/ TermProcs \/ CreateJail
            \/ RemoveJail
      PROVE  WInv' /\ Others(c)
  BY <1>2, <1>3, <1>7, CommandCounts
<1>8. WInv' /\ Others(cur)
  BY <1>2, <1>4, <1>5, <1>6, <1>7 DEF MainLoop
<1>9. pc = "done" => Done
  BY DEF MainLoop, SkipFailed, BadParams, RunningJid, FinishNothing,
     FinishCommand, Turn, TurnRestart, Exists, NotFound, WaitForOthers,
     BeginStart, BeginStop, AlreadyRuns, NotRunning, AbandonStop, Resume,
     Update, WaitForSlot, EnterCommands, CommandsEnd, LeaveList,
     PassCommand, RunCommand, TermProcs, CreateJail, RemoveJail,
     Unblocked, MayCheck, Single, Upcoming
<1> QED
  BY <1>2, <1>3, <1>8, <1>9, DoneCounts

-----------------------------------------------------------------------------
(* next_jail(), the end and the steps before the main loop.                *)

(* The jail the main loop takes up is as it was left.                      *)
LEMMA TakeCounts ==
  ASSUME IInv, WInv, Op' = Op, NEW c \in Jails, queue[c] # "cfjails",
         pc = "next",
         NEW F \in {flags[c], flags[c] \cup {"TIMEOUT"}},
         Take(c, [flags EXCEPT ![c] = F])
  PROVE  WInv'
<1> DEFINE f == [flags EXCEPT ![c] = F]
           s == [Sched EXCEPT !.flags = f]
           t == Requeue(s, {c}, "cfjails", {})
<1>1. flags \in [Jails -> SUBSET Flag] /\ TypeOK
  BY DEF IInv, TypeOK
<1>2. f \in [Jails -> SUBSET Flag]
  BY <1>1 DEF Flag
<1>3. \A k \in Jails : f[k] = IF k = c THEN F ELSE flags[k]
  BY <1>1
<1>4. \A k \in Jails : Ops(f[k]) = Ops(flags[k])
  BY <1>3 DEF Ops, OpFlag
<1>5. Become(t) /\ cur' = c /\ pc' = "begin"
  BY DEF Take
<1>6. Counted(Sched, Op)
  BY DEF WInv, Begun
<1> HIDE DEF f
<1>7. s \in SchedType /\ Follows(Sched, s, Op, c)
  BY <1>1, <1>2, <1>4, <1>6, FlagsCounts
<1> HIDE DEF s
<1>8. "cfjails" \in Queue
  BY DEF Queue
<1>9. Moved(s, t, {c}, "cfjails")
  BY <1>7, <1>8, RequeueOne
<1> HIDE DEF t
<1>10. Counted(s, Op)
  BY <1>7 DEF Follows
<1>11. Follows(s, t, Op, c) /\ t.queue[c] = "cfjails"
  BY <1>9, <1>10, MovedCounts
<1>12. Follows(Sched, t, Op, c)
  BY <1>7, <1>11, FollowsTrans
<1>13. /\ Held(c) /\ Begun /\ Begun' /\ pc \notin InLoop /\ pc # "crashed"
       /\ Held(c)'
  BY <1>5 DEF Held, Begun, InLoop
<1> QED
  BY <1>5, <1>11, <1>12, <1>13, WholeStep

(* next_jail() and next_proc() keep the counts.                            *)
LEMMA NextJailCounts ==
  ASSUME IInv, WInv, Op' = Op, NEW j \in Jails,
         \/ \E bad \in BOOLEAN : CommandExits(j, bad)
         \/ CommandTimesOut(j)
         \/ NextReady(j)
  PROVE  WInv'
<1>1. queue[j] # "cfjails" /\ pc = "next"
  BY DEF CommandExits, CommandTimesOut, NextReady
<1>2. flags = [flags EXCEPT ![j] = flags[j]]
  BY DEF IInv, TypeOK
<1>3. \/ Take(j, flags)
      \/ Take(j, [flags EXCEPT ![j] = flags[j] \cup {"TIMEOUT"}])
  BY DEF CommandExits, CommandTimesOut, NextReady
<1>4. CASE Take(j, flags)
  <2>1. Take(j, [flags EXCEPT ![j] = flags[j]])
    BY <1>2, <1>4
  <2> QED
    BY <1>1, <2>1, TakeCounts
<1>5. CASE Take(j, [flags EXCEPT ![j] = flags[j] \cup {"TIMEOUT"}])
  BY <1>1, <1>5, TakeCounts
<1> QED
  BY <1>3, <1>4, <1>5

(* A step that leaves the jails alone does too.                            *)
LEMMA QuietCounts ==
  ASSUME WInv, Op' = Op,
         UNCHANGED <<flags, ndeps, seen, queue, ahead, cur>>,
         pc' = pc \/ (pc = "next" /\ pc' = "exit")
  PROVE  WInv'
<1>1. /\ pc' \in InLoop <=> pc \in InLoop
      /\ Begun' <=> Begun
      /\ pc' = "setup" <=> pc = "setup"
      /\ pc' = "crashed" => pc = "crashed"
      /\ pc = "crashed" => pc' = "crashed"
  BY DEF InLoop, Begun
<1>2. Sched' = Sched
  BY DEF Sched
<1>3. \A j \in Jails : Held(j)' <=> Held(j)
  BY <1>1 DEF Held
<1>4. Telling => Telling'
  BY <1>3 DEF Telling
<1>5. pc # "setup" => Counted(Sched', IF Begun' THEN Op' ELSE {})
  BY <1>1, <1>2 DEF WInv
<1> QED
  BY <1>1, <1>4, <1>5 DEF WInv

(* start_state() of all jails counts the edges of each.                    *)
LEMMA LaunchedCounts ==
  ASSUME NEW s, NEW t, NEW ops, Launched(s, t, Jails, ops, TRUE), s.seen = {}
  PROVE  /\ Counted(t, Ops(ops))
         /\ \A k \in Jails : t.queue[k] \in {"depend", "ready"}
<1>1. ASSUME NEW k \in Jails
      PROVE  /\ t.flags[k] = (s.flags[k] \cap {"FAILED"}) \cup ops
             /\ t.ndeps[k] = Cardinality(Waits(t.flags[k], k))
             /\ t.queue[k] = IF t.ndeps[k] # 0 THEN "depend" ELSE "ready"
             /\ t.seen = {}
  BY DEF Launched
<1>2. ASSUME NEW k \in Jails
      PROVE  Ops(t.flags[k]) = Ops(ops)
  BY <1>1 DEF Ops, OpFlag
<1>3. ASSUME NEW k \in Jails
      PROVE  Waits(t.flags[k], k) \ t.seen = Waits(t.flags[k], k)
  BY <1>1
<1> QED
  BY <1>1, <1>2, <1>3 DEF Counted

(* When all jails wait in a queue none has to tell another.                *)
LEMMA AllWait ==
  ASSUME NEW t, Become(t),
         \A k \in Jails : t.queue[k] \in {"depend", "ready"}
  PROVE  Telling' /\ \A k \in Jails : queue'[k] # "runnable"
<1>1. \A k \in Jails : queue'[k] \in {"depend", "ready"}
  BY DEF Become
<1>2. \A k \in Jails : Held(k)'
  BY <1>1 DEF Held
<1> QED
  BY <1>1, <1>2 DEF Telling

(* The counts are right when dep_setup() is done,                          *)
LEMMA DepSetupCounts ==
  ASSUME IInv, WInv, DepSetup
  PROVE  WInv'
<1> DEFINE t == StartState(Sched, Jails, {}, TRUE)
<1>1. pc = "setup" /\ pc' = "loops" /\ Become(t)
  BY DEF DepSetup
<1>2. Sched \in SchedType /\ Sched.seen = {}
  BY <1>1, SchedIn DEF IInv, WInv, Sched
<1>3. {} \in SUBSET Flag /\ Jails \in Group
  BY DEF Group
<1>4. Launched(Sched, t, Jails, {}, TRUE)
  BY <1>2, <1>3, StartStateWhole
<1> HIDE DEF t
<1>5. /\ Counted(t, Ops({}))
      /\ \A k \in Jails : t.queue[k] \in {"depend", "ready"}
  BY <1>2, <1>4, LaunchedCounts
<1>6. Telling' /\ \A k \in Jails : queue'[k] # "runnable"
  BY <1>1, <1>5, AllWait
<1>7. Ops({}) = {}
  BY DEF Ops
<1>8. Counted(Sched', {})
  BY <1>1, <1>5, <1>7 DEF Counted, Become, Sched
<1> QED
  BY <1>1, <1>6, <1>8 DEF WInv, Begun

(* the loop check keeps them,                                              *)
LEMMA LoopCheckCounts ==
  ASSUME IInv, WInv, NEW j \in Jails, LoopCheck(j)
  PROVE  WInv'
<1> DEFINE loop == IF queue[j] = "depend" THEN {"FAILED"} ELSE {}
           f == [flags EXCEPT ![j] = @ \cup loop]
           s == [Sched EXCEPT !.flags = f]
           u == Requeue(s, {j}, "cfjails", {})
           t == DepDone(u, j, FALSE, TRUE)
<1>1. pc = "loops" /\ pc' = "loops" /\ Become(t)
  BY DEF LoopCheck
<1>2. TypeOK /\ Counted(Sched, {}) /\ Telling
  BY <1>1 DEF IInv, WInv, Begun
<1>3. /\ f \in [Jails -> SUBSET Flag]
      /\ \A k \in Jails : \/ f[k] = flags[k]
                          \/ f[k] = flags[k] \cup {"FAILED"}
  BY <1>2 DEF TypeOK, Flag
<1>4. \A k \in Jails : Ops(f[k]) = Ops(flags[k])
  <2> HIDE DEF f
  <2> QED
    BY <1>3, FailedNoOp
<1> HIDE DEF f
<1>5. s \in SchedType /\ Follows(Sched, s, {}, j)
  BY <1>2, <1>3, <1>4, FlagsCounts
<1> HIDE DEF s
<1>6. "cfjails" \in Queue
  BY DEF Queue
<1>7. Moved(s, u, {j}, "cfjails")
  BY <1>5, <1>6, RequeueOne
<1> HIDE DEF u
<1>8. Counted(s, {})
  BY <1>5 DEF Follows
<1>9. Follows(s, u, {}, j) /\ u.queue[j] = "cfjails"
  BY <1>7, <1>8, MovedCounts
<1>10. u \in SchedType /\ Counted(u, {})
  BY <1>9 DEF Follows
<1>11. ToldAll(u, t, {}, j, FALSE)
  BY <1>10, DepDoneCounts
<1> HIDE DEF t
<1>12. /\ Follows(u, t, {}, j) /\ t.queue[j] # "runnable"
       /\ \A e \in Frees(u.flags[j], j) : e \in t.seen
  BY <1>9, <1>11 DEF ToldAll
<1>13. Follows(Sched, t, {}, j)
  BY <1>5, <1>9, <1>12, FollowsTrans
<1>14. Counted(t, {})
  BY <1>13 DEF Follows
<1>15. flags' = t.flags /\ queue' = t.queue /\ seen' = t.seen
  BY <1>1 DEF Become
<1>16. ASSUME NEW k \in Jails, ~Held(k)', NEW e \in Frees(flags'[k], k)
       PROVE  e \in seen'
  <2>1. queue'[k] = "cfjails"
    BY <1>16 DEF Held
  <2>2. Ops(flags'[k]) = {} /\ Ops(u.flags[k]) = {} /\ Ops(flags[k]) = {}
    BY <1>2, <1>10, <1>14, <1>15 DEF Counted, Sched
  <2>3. CASE k = j
    <3>1. Frees(u.flags[k], k) = Frees(flags'[k], k)
      BY <2>2, SameWaits
    <3> QED
      BY <1>12, <1>15, <1>16, <2>3, <3>1
  <2>4. CASE k # j
    <3>1. queue[k] = "cfjails"
      BY <1>13, <1>15, <2>1, <2>4 DEF Follows, Sched
    <3>2. ~Held(k)
      BY <1>1, <3>1 DEF Held, InLoop
    <3>3. Frees(flags[k], k) = Frees(flags'[k], k)
      BY <2>2, SameWaits
    <3>4. e \in seen
      BY <1>2, <1>16, <3>2, <3>3 DEF Telling
    <3> QED
      BY <1>13, <1>15, <3>4 DEF Follows, Sched
  <2> QED
    BY <2>3, <2>4
<1>17. Telling'
  BY <1>16 DEF Telling
<1>18. Counted(Sched', {})
  BY <1>1, <1>14 DEF Counted, Become, Sched
<1>19. ASSUME ParaLimit < 0, NEW k \in Jails
       PROVE  queue'[k] # "runnable"
  BY <1>12, <1>13, <1>15, <1>19 DEF Follows, WInv, Sched
<1> QED
  BY <1>1, <1>17, <1>18, <1>19 DEF WInv, Begun

(* and they are right again when the main loop begins.                     *)
LEMMA JailMainCounts ==
  ASSUME IInv, WInv, Whole, Op' = Op, JailMain
  PROVE  WInv'
<1> DEFINE S == IF Target = "all" THEN Jails ELSE Named
           ops == Op \cup (IF Target = "named" THEN {} ELSE {"WILD"})
           s == [Sched EXCEPT !.seen = {}]
           t == StartState(s, S, ops, Target = "all")
<1>1. pc' = "next" /\ Become(t)
  BY DEF JailMain
<1>2. S = Jails /\ ops = Op \cup {"WILD"} /\ (Target = "all") = TRUE
  BY DEF Whole
<1>3. ops \in SUBSET Flag /\ Ops(ops) = Op
  BY <1>2 DEF Whole, Single1, Ops, OpFlag, Flag
<1>4. Sched \in SchedType
  BY SchedIn DEF IInv
<1>5. s \in SchedType /\ s.seen = {}
  BY <1>4 DEF SchedType
<1>6. Jails \in Group
  BY DEF Group
<1> HIDE DEF s, S, ops
<1>7. t = StartState(s, Jails, ops, TRUE)
  BY <1>2
<1> HIDE DEF t
<1>8. Launched(s, t, Jails, ops, TRUE)
  BY <1>3, <1>5, <1>6, <1>7, StartStateWhole
<1>9. /\ Counted(t, Op)
      /\ \A k \in Jails : t.queue[k] \in {"depend", "ready"}
  BY <1>3, <1>5, <1>8, LaunchedCounts
<1>10. Telling' /\ \A k \in Jails : queue'[k] # "runnable"
  BY <1>1, <1>9, AllWait
<1>11. Counted(Sched', Op)
  BY <1>1, <1>9 DEF Counted, Become, Sched
<1> QED
  BY <1>1, <1>10, <1>11 DEF WInv, Begun

-----------------------------------------------------------------------------
(* The counts.                                                             *)

(* The invariant holds initially                                           *)
LEMMA InitWInv == Init => WInv
<1> SUFFICES ASSUME Init
             PROVE  WInv
  OBVIOUS
<1>1. pc = "setup" /\ seen = {} /\ \A k \in Jails : queue[k] = "cfjails"
  BY DEF Init
<1> QED
  BY <1>1 DEF WInv

(* No step changes which jails are meant.                                  *)
LEMMA GivenStays ==
  ASSUME [Next]_vars
  PROVE  given' = given
BY DEF Next, DepSetup, LoopCheck, JailMain, CommandExits, CommandTimesOut,
   NextReady, Exit, MainLoop, SkipFailed, BadParams, RunningJid,
   FinishNothing, FinishCommand, Turn, TurnRestart, TurnInto, Refuse, Exists,
   NotFound, WaitForOthers, BeginStart, BeginStop, Begin, AlreadyRuns,
   NotRunning, AbandonStop, Resume, Update, Done, WaitForSlot, EnterCommands,
   CommandsEnd, LeaveList, PassCommand, RunCommand, TermProcs, CreateJail,
   RemoveJail, vars

(* and every step of a program that has one operation for all jails keeps  *)
(* it.                                                                     *)
LEMMA NextWInv ==
  ASSUME IInv, WInv, Whole, [Next]_vars
  PROVE  WInv'
<1>0. Op' = Op
  BY OpStays
<1>1. CASE DepSetup
  BY <1>1, DepSetupCounts
<1>2. CASE \E j \in Jails : LoopCheck(j)
  BY <1>2, LoopCheckCounts
<1>3. CASE JailMain
  BY <1>0, <1>3, JailMainCounts
<1>4. CASE \/ \E j \in Jails, bad \in BOOLEAN : CommandExits(j, bad)
           \/ \E j \in Jails : CommandTimesOut(j)
           \/ \E j \in Jails : NextReady(j)
  <2>1. PICK j \in Jails : \/ \E bad \in BOOLEAN : CommandExits(j, bad)
                           \/ CommandTimesOut(j)
                           \/ NextReady(j)
    BY <1>4
  <2> QED
    BY <1>0, <2>1, NextJailCounts
<1>5. CASE Exit \/ UNCHANGED vars
  BY <1>0, <1>5, QuietCounts DEF Exit, vars, sched, coms
<1>6. CASE MainLoop
  BY <1>6, MainLoopCounts
<1> QED
  BY <1>1, <1>2, <1>3, <1>4, <1>5, <1>6 DEF Next

(* With one operation for the whole file the counts of dep_setup(),        *)
(* dep_done() and dep_reset() agree with the edges, in every state.        *)
THEOREM CountsInvariance == Spec => [](Whole => WInv)
<1>1. Init => (Whole => WInv)
  BY InitWInv
<1>2. IInv /\ (Whole => WInv) /\ [Next]_vars => (Whole => WInv)'
  <2>1. ASSUME [Next]_vars
        PROVE  Whole' <=> Whole
    BY <2>1, GivenStays DEF Whole, Target, Op
  <2> QED
    BY <2>1, NextWInv
<1> QED
  BY <1>1, <1>2, Invariance, PTL DEF Spec

(* Then the count of a jail that waits in depend is the number of its      *)
(* edges that dep_done() has not marked DF_SEEN.                           *)
THEOREM CountsRight == Spec => [](Whole => CountsUnseen)
<1>1. IInv /\ (Whole => WInv) => (Whole => CountsUnseen)
  <2> SUFFICES ASSUME IInv, Whole, WInv
               PROVE  CountsUnseen
    OBVIOUS
  <2>1. ASSUME NEW j \in Jails, queue[j] = "depend"
        PROVE  ndeps[j] = Cardinality(Waits(flags[j], j) \ seen)
    <3>1. pc # "setup"
      BY <2>1 DEF WInv
    <3> QED
      BY <3>1 DEF WInv, Counted, Sched
  <2> QED
    BY <2>1 DEF CountsUnseen
<1> QED
  BY <1>1, Invariance, CountsInvariance, PTL

-----------------------------------------------------------------------------
(* The exit.                                                               *)

(* The dependencies make no loop: in any set of jails one depends on none  *)
(* of them, and on one none of them depends.                               *)
NoLoop ==
  \A S \in SUBSET Jails : S # {} =>
    /\ \E j \in S : \A e \in Edge : Deps[e].from = j => Deps[e].to \notin S
    /\ \E j \in S : \A e \in Edge : Deps[e].to = j => Deps[e].from \notin S

(* The program exits when no jail is ready and no command runs.            *)
Idle == pc = "exit" => \A j \in Jails : queue[j] \notin {"ready", "sleeping"}

(* It does so in every state.                                              *)
LEMMA ExitsIdle == Spec => []Idle
<1>1. Init => Idle
  BY DEF Init, Idle
<1>2. ASSUME IInv, Idle, [Next]_vars
      PROVE  Idle'
  <2>1. CASE Exit
    BY <2>1 DEF Exit, Idle, sched
  <2>2. CASE UNCHANGED vars
    <3>1. pc' = pc /\ queue' = queue
      BY <2>2 DEF vars
    <3> QED
      BY <1>2, <3>1 DEF Idle
  <2>3. CASE DepSetup \/ (\E j \in Jails : LoopCheck(j)) \/ JailMain
    <3>1. pc' \in {"loops", "next"}
      <4>1. CASE DepSetup \/ JailMain
        BY <4>1 DEF DepSetup, JailMain
      <4>2. CASE \E j \in Jails : LoopCheck(j)
        BY <4>2 DEF LoopCheck
      <4> QED
        BY <2>3, <4>1, <4>2
    <3> QED
      BY <3>1 DEF Idle
  <2>4. CASE \/ \E j \in Jails, bad \in BOOLEAN : CommandExits(j, bad)
             \/ \E j \in Jails : CommandTimesOut(j)
             \/ \E j \in Jails : NextReady(j)
    BY <2>4 DEF CommandExits, CommandTimesOut, NextReady, Take, Idle
  <2>5. CASE MainLoop
    <3>1. pc' # "exit"
      BY <2>5 DEF MainLoop, SkipFailed, BadParams, RunningJid, FinishNothing,
         FinishCommand, Turn, TurnRestart, TurnInto, Refuse, Exists, NotFound,
         WaitForOthers, BeginStart, BeginStop, Begin, AlreadyRuns, NotRunning,
         AbandonStop, Resume, Update, Done, WaitForSlot, EnterCommands,
         CommandsEnd, LeaveList, PassCommand, RunCommand, TermProcs,
         CreateJail, RemoveJail, Continue, Upcoming, Single, Unblocked, MayCheck
    <3> QED
      BY <3>1 DEF Idle
  <2> QED
    BY <1>2, <2>1, <2>2, <2>3, <2>4, <2>5 DEF Next
<1> QED
  BY <1>1, <1>2, Invariance, PTL DEF Spec

(* A jail that waits in depend waits for one that is not done with.        *)
LEMMA WaitsForHeld ==
  ASSUME WInv, Whole, pc \notin {"setup", "loops", "crashed"},
         NEW j \in Jails, queue[j] = "depend"
  PROVE  \E e \in Waits(flags[j], j) : Held(Far(e, j))
<1>1. Counted(Sched, Op) /\ Telling
  BY DEF WInv, Begun
<1>2. ndeps[j] = Cardinality(Waits(flags[j], j) \ seen) /\ ndeps[j] # 0
  BY <1>1 DEF Counted, Sched
<1>3. Waits(flags[j], j) \ seen # {}
  BY <1>2, FS_EmptySet
<1>4. PICK e \in Waits(flags[j], j) : e \notin seen
  BY <1>3
<1>5. e \in Edge /\ Far(e, j) \in Jails
  BY <1>4, FarJail DEF Waits
<1>6. Ops(flags[Far(e, j)]) = Ops(flags[j])
  BY <1>1, <1>5 DEF Counted, Sched
<1>7. DoStop(flags[Far(e, j)]) <=> DoStop(flags[j])
  BY <1>6, SameWaits
<1>8. e \in Frees(flags[Far(e, j)], Far(e, j))
  BY <1>4, <1>5, <1>7 DEF Waits, Frees, Far
<1>9. Held(Far(e, j))
  BY <1>1, <1>4, <1>5, <1>8 DEF Telling
<1> QED
  BY <1>4, <1>9

(* When the dependencies make no loop and there is no limit of parallel    *)
(* commands, the program that has one operation for the whole file leaves  *)
(* no jail behind: next_jail() finds none left only when none waits.       *)
THEOREM NoneLeft == Spec => [](Whole /\ NoLoop /\ ParaLimit < 0 => Settled)
<1>1. ASSUME TypeOK, WInv, Idle, Whole, NoLoop, ParaLimit < 0
      PROVE  Settled
  <2> SUFFICES ASSUME pc = "exit"
               PROVE  \A j \in Jails : queue[j] = "cfjails"
    BY DEF Settled
  <2> DEFINE D == {j \in Jails : queue[j] = "depend"}
  <2>1. \A j \in Jails : queue[j] \in {"cfjails", "depend"}
    BY <1>1 DEF TypeOK, Queue, Idle, WInv
  <2>2. \A j \in Jails : Held(j) => j \in D
    BY <2>1 DEF Held, InLoop
  <2>3. Op \in Single1
    BY <1>1 DEF Whole
  <2>4. ASSUME NEW j \in D
        PROVE  \E e \in Waits(flags[j], j) : Far(e, j) \in D
    <3>1. PICK e \in Waits(flags[j], j) : Held(Far(e, j))
      BY <1>1, WaitsForHeld
    <3>2. Far(e, j) \in Jails
      BY <3>1, FarJail DEF Waits
    <3> QED
      BY <2>2, <3>1, <3>2
  <2>5. \A j \in D : DoStop(flags[j]) <=> Op = {"STOP"}
    <3>1. ASSUME NEW j \in D
          PROVE  Ops(flags[j]) = Op
      BY <1>1 DEF WInv, Begun, Counted, Sched
    <3>2. ASSUME NEW j \in D
          PROVE  /\ "STOP" \in flags[j] <=> "STOP" \in Op
                 /\ "SET" \in flags[j] <=> "SET" \in Op
      BY <3>1, InOps DEF OpFlag
    <3> QED
      BY <2>3, <3>2 DEF DoStop, Single1
  <2>6. D = {}
    <3> SUFFICES ASSUME D # {}
                 PROVE  FALSE
      OBVIOUS
    <3>1. CASE Op = {"STOP"}
      <4>1. PICK j \in D : \A e \in Edge : Deps[e].to = j => Deps[e].from \notin D
        BY <1>1 DEF NoLoop
      <4>2. PICK e \in Waits(flags[j], j) : Far(e, j) \in D
        BY <2>4
      <4>3. e \in Edge /\ Deps[e].to = j
        BY <2>5, <3>1, <4>2 DEF Waits
      <4>4. Deps[e].from \notin D
        BY <4>1, <4>3
      <4> QED
        BY <4>2, <4>3, <4>4 DEF Far
    <3>2. CASE Op # {"STOP"}
      <4>1. PICK j \in D : \A e \in Edge : Deps[e].from = j => Deps[e].to \notin D
        BY <1>1 DEF NoLoop
      <4>2. PICK e \in Waits(flags[j], j) : Far(e, j) \in D
        BY <2>4
      <4>3. e \in Edge /\ Deps[e].from = j
        BY <2>5, <3>2, <4>2 DEF Waits
      <4> QED
        BY <4>1, <4>2, <4>3 DEF Far
    <3> QED
      BY <3>1, <3>2
  <2> QED
    BY <2>1, <2>6
<1>2. TypeOK /\ (Whole => WInv) /\ Idle
        => (Whole /\ NoLoop /\ ParaLimit < 0 => Settled)
  BY <1>1
<1> QED
  BY <1>2, TypeCorrect, CountsInvariance, ExitsIdle, PTL

-----------------------------------------------------------------------------
(* The end of a start.                                                     *)

(* No dependency comes from the name of a jail.                            *)
NoLight == \A e \in Edge : ~Deps[e].light

(* A start that has come to its end has failed, or what the jail depends   *)
(* on did before it, and it runs; all that depend on it have been told.    *)
Finished(k) ==
  /\ "FAILED" \notin flags[k] => jid[k] = 1 /\ Through(k) /\ Met(k)
  /\ \A e \in Edge : Deps[e].to = k => e \in seen

(* A jail that is not to be created again does not run.                    *)
Placed(k) ==
  /\ jid[k] = -1 => k \notin up
  /\ list[k] = "start" /\ "FAILED" \notin flags[k] /\ pos[k] <= 3 => jid[k] = -1
  /\ list[k] = "NULL" /\ k \in up => k \in Running

(* A jail that began had what it depends on, or failed as it did.          *)
Sound(k) ==
  \A e \in Needs(k) : e \in seen /\ "FAILED" \notin flags[Deps[e].to]
Refused(k) == "FAILED" \in flags[k] /\ pos[k] <= 1 /\ jid[k] = -1

(* What a failed jail leaves behind.                                       *)
Clear(k) ==
  list[k] # "NULL" =>
    /\ Sound(k) \/ Refused(k)
    /\ ~Held(k) /\ "FAILED" \in flags[k] /\ "remove" \notin Faults => k \notin up

Spread ==
  /\ \A e \in seen : "FAILED" \in flags[Deps[e].to] =>
                     "FAILED" \in flags[Deps[e].from]
  /\ \A k \in Jails : Clear(k)

EInv ==
  /\ \A k \in Jails : Placed(k)
  /\ Begun /\ pc # "crashed" =>
       /\ \A k \in Jails : "START" \in flags[k] /\ ~Held(k) => Finished(k)
       /\ \A e \in seen : \/ Deps[e].light
                          \/ /\ "START" \in flags[Deps[e].to]
                             /\ ~Held(Deps[e].to)
       /\ pc = "done" /\ "FAILED" \notin flags[cur] => Met(cur)
       /\ NoLight => Spread

(* From s to t the edges to c are seen and those who wait for a failed c   *)
(* fail, nobody else does, and no jail is taken up or done with but those  *)
(* that are now asked to start.                                            *)
Reports(s, t, c) ==
  /\ \A e \in s.seen : e \in t.seen
  /\ \A e \in t.seen \ s.seen :
       /\ Deps[e].to = c
       /\ "FAILED" \in s.flags[c] => "FAILED" \in t.flags[Deps[e].from]
  /\ \A k \in Jails :
       /\ "START" \in s.flags[k] => "START" \in t.flags[k]
       /\ "FAILED" \in s.flags[k] => "FAILED" \in t.flags[k]
  /\ \A k \in Jails \ {c} :
       /\ "FAILED" \in t.flags[k] /\ "FAILED" \notin s.flags[k] =>
            \E e \in t.seen \ s.seen : Deps[e].from = k
       /\ "START" \in t.flags[k] /\ "START" \notin s.flags[k] =>
            t.queue[k] # "cfjails"
       /\ t.queue[k] = "cfjails" => s.queue[k] = "cfjails"
       /\ t.queue[k] # "cfjails" =>
            \/ s.queue[k] # "cfjails"
            \/ "START" \notin s.flags[k] /\ "START" \in t.flags[k]

(* What sees no edge and lets nobody fail but c reports nothing.           *)
LEMMA SameReports ==
  ASSUME NEW s, NEW t, NEW c, t.seen = s.seen,
         \A k \in Jails :
           /\ Ops(t.flags[k]) = Ops(s.flags[k])
           /\ "FAILED" \in s.flags[k] => "FAILED" \in t.flags[k]
           /\ k # c =>
                /\ "FAILED" \in t.flags[k] => "FAILED" \in s.flags[k]
                /\ t.queue[k] = "cfjails" <=> s.queue[k] = "cfjails"
  PROVE  Reports(s, t, c)
<1>1. \A k \in Jails : "START" \in t.flags[k] <=> "START" \in s.flags[k]
  BY InOps DEF OpFlag
<1>2. \A e \in s.seen : e \in t.seen
  OBVIOUS
<1>3. t.seen \ s.seen = {}
  OBVIOUS
<1> QED
  BY <1>1, <1>2, <1>3 DEF Reports

(* Two reports are one.                                                    *)
LEMMA ReportsTrans ==
  ASSUME NEW s \in SchedType, NEW t \in SchedType, NEW u \in SchedType,
         NEW c \in Jails, Reports(s, t, c), Reports(t, u, c)
  PROVE  Reports(s, u, c)
<1>1. \A e \in s.seen : e \in u.seen
  BY DEF Reports
<1>2. ASSUME NEW e \in u.seen \ s.seen
      PROVE  /\ Deps[e].to = c
             /\ "FAILED" \in s.flags[c] => "FAILED" \in u.flags[Deps[e].from]
  <2>1. e \in Edge /\ Deps[e].from \in Jails
    BY EdgeEnds DEF SchedType
  <2>2. CASE e \in t.seen
    BY <1>2, <2>1, <2>2 DEF Reports
  <2>3. CASE e \notin t.seen
    BY <1>2, <2>1, <2>3 DEF Reports
  <2> QED
    BY <2>2, <2>3
<1>3. \A k \in Jails :
        /\ "START" \in s.flags[k] => "START" \in u.flags[k]
        /\ "FAILED" \in s.flags[k] => "FAILED" \in u.flags[k]
  BY DEF Reports
<1>4. ASSUME NEW k \in Jails \ {c}, "FAILED" \in u.flags[k],
             "FAILED" \notin s.flags[k]
      PROVE  \E e \in u.seen \ s.seen : Deps[e].from = k
  <2>1. CASE "FAILED" \in t.flags[k]
    <3>1. PICK e \in t.seen \ s.seen : Deps[e].from = k
      BY <1>4, <2>1 DEF Reports
    <3>2. e \in u.seen
      BY <3>1 DEF Reports
    <3> QED
      BY <3>1, <3>2
  <2>2. CASE "FAILED" \notin t.flags[k]
    <3>1. PICK e \in u.seen \ t.seen : Deps[e].from = k
      BY <1>4, <2>2 DEF Reports
    <3>2. e \notin s.seen
      BY <3>1 DEF Reports
    <3> QED
      BY <3>1, <3>2
  <2> QED
    BY <2>1, <2>2
<1>5. ASSUME NEW k \in Jails \ {c}
      PROVE  /\ "START" \in u.flags[k] /\ "START" \notin s.flags[k] =>
                  u.queue[k] # "cfjails"
             /\ u.queue[k] = "cfjails" => s.queue[k] = "cfjails"
             /\ u.queue[k] # "cfjails" =>
                  \/ s.queue[k] # "cfjails"
                  \/ "START" \notin s.flags[k] /\ "START" \in u.flags[k]
  BY DEF Reports
<1> QED
  BY <1>1, <1>2, <1>3, <1>4, <1>5 DEF Reports

(* failed() reports nothing.                                               *)
LEMMA FailedReports ==
  ASSUME NEW s \in SchedType, NEW c \in Jails
  PROVE  LET t == Failed(s, c)
         IN  /\ t \in SchedType /\ Reports(s, t, c)
             /\ t.queue[c] = "ready" /\ t.seen = s.seen
<1> DEFINE t == Failed(s, c)
<1>1. /\ t \in SchedType
      /\ t.flags = [s.flags EXCEPT ![c] = @ \cup {"FAILED"}]
      /\ t.seen = s.seen
      /\ \A k \in Jails : t.queue[k] = IF k = c THEN "ready" ELSE s.queue[k]
  BY FailedFacts
<1> HIDE DEF t
<1>2. s.flags \in [Jails -> SUBSET Flag]
  BY DEF SchedType
<1>3. \A k \in Jails :
        /\ \/ t.flags[k] = s.flags[k]
           \/ t.flags[k] = s.flags[k] \cup {"FAILED"}
        /\ k # c => t.flags[k] = s.flags[k]
  BY <1>1, <1>2
<1>4. \A k \in Jails : Ops(t.flags[k]) = Ops(s.flags[k])
  BY <1>3, FailedNoOp
<1>5. Reports(s, t, c)
  BY <1>1, <1>3, <1>4, SameReports
<1> QED
  BY <1>1, <1>5 DEF t

(* dep_done() reports the failure of a jail that could only start.         *)
LEMMA DepDoneReports ==
  ASSUME NEW s \in SchedType, NEW c \in Jails, NEW light \in BOOLEAN,
         Ordered(s)
  PROVE  Reports(s, DepDone(s, c, light, FALSE), c)
<1> DEFINE t == DepDone(s, c, light, FALSE)
           new == Resolved(s, c, light)
<1>1. Tells(s, t, c, light)
  BY DepDoneOrder
<1>2. Announced(s, t, c, light, FALSE)
  BY DepDoneWhole
<1>3. Alike(s, t)
  BY DepDoneAlike
<1> HIDE DEF t
<1>4. /\ Grows(s, t, c)
      /\ \A e \in t.seen \ s.seen :
           /\ Deps[e].to = c
           /\ "FAILED" \in s.flags[c] => "FAILED" \in t.flags[Deps[e].from]
  BY <1>1 DEF Tells
<1>5. \A k \in Jails : "START" \in t.flags[k] <=> "START" \in s.flags[k]
  BY <1>3, InOps DEF Alike, OpFlag
<1>6. t.seen = s.seen \cup new
  BY <1>2 DEF Announced
<1>7. \A e \in new : e \notin s.seen /\ Deps[e].to = c
  BY <1>4, <1>6 DEF Resolved
<1>8. ASSUME NEW k \in Jails, "FAILED" \in t.flags[k], "FAILED" \notin s.flags[k]
      PROVE  \E e \in t.seen \ s.seen : Deps[e].from = k
  <2>1. Told(s, c, light, k) # {}
    BY <1>2, <1>8 DEF Announced
  <2>2. PICK e \in new : Far(e, c) = k
    BY <2>1 DEF Told
  <2>3. e \in t.seen \ s.seen /\ Deps[e].to = c
    BY <1>6, <1>7, <2>2
  <2>4. Deps[e].from = k
    BY <2>2, <2>3 DEF Far
  <2> QED
    BY <2>3, <2>4
<1>9. \A k \in Jails : t.queue[k] = "cfjails" => s.queue[k] = "cfjails"
  BY <1>2 DEF Announced
<1> QED
  BY <1>4, <1>5, <1>8, <1>9 DEF Reports, Grows, t

(* dep_check() of a jail that starts lets nobody fail but the jail itself. *)
LEMMA DepCheckReports ==
  ASSUME NEW s \in SchedType, NEW c \in Jails, Ordered(s),
         "START" \in s.flags[c]
  PROVE  Reports(s, DepCheck(s, c), c)
<1> DEFINE t == DepCheck(s, c)
<1>1. Drew(s, t, c)
  BY DepCheckWhole
<1>2. Asks(s, t, c)
  BY DepCheckOrder
<1> HIDE DEF t
<1>3. Grows(s, t, c) /\ t.seen = s.seen
  BY <1>2 DEF Asks
<1>4. ASSUME NEW k \in Jails \ {c}
      PROVE  /\ "FAILED" \in t.flags[k] => "FAILED" \in s.flags[k]
             /\ "START" \in t.flags[k] /\ "START" \notin s.flags[k] =>
                  t.queue[k] # "cfjails"
             /\ t.queue[k] = "cfjails" => s.queue[k] = "cfjails"
  <2>1. /\ t.flags[k] = NewFlags(s, c, k)
        /\ t.queue[k] = IF k \in Idlers(s, c) THEN "ready" ELSE s.queue[k]
    BY <1>1, <1>4 DEF Drew
  <2>2. "FAILED" \in t.flags[k] => "FAILED" \in s.flags[k]
    BY <1>4, <2>1 DEF NewFlags, Drawn
  <2>3. "START" \in t.flags[k] /\ "START" \notin s.flags[k] => k \in Idlers(s, c)
    <3> SUFFICES ASSUME "START" \in t.flags[k], "START" \notin s.flags[k]
                 PROVE  k \in Idlers(s, c)
      OBVIOUS
    <3>1. k \in Called(s, c)
      BY <1>4, <2>1 DEF NewFlags
    <3>2. Ops(s.flags[k]) = {}
      BY DEF Ordered, Ops, OpFlag
    <3> QED
      BY <3>1, <3>2 DEF Idlers
  <2> QED
    BY <2>1, <2>2, <2>3
<1>5. t.seen \ s.seen = {}
  BY <1>3
<1> QED
  BY <1>3, <1>4, <1>5 DEF Reports, Grows, t

(* A change of the flags of jails that leaves operations and failures.     *)
LEMMA FlagsReports ==
  ASSUME IInv, NEW c \in Jails, NEW f \in [Jails -> SUBSET Flag],
         \A k \in Jails : /\ Ops(f[k]) = Ops(flags[k])
                          /\ "FAILED" \in flags[k] <=> "FAILED" \in f[k]
  PROVE  LET t == [Sched EXCEPT !.flags = f]
         IN  /\ t \in SchedType /\ Reports(Sched, t, c)
             /\ t.seen = seen /\ t.flags = f /\ t.queue = queue
<1> DEFINE t == [Sched EXCEPT !.flags = f]
<1>1. Sched \in SchedType /\ Sched.flags = flags /\ Sched.queue = queue
  BY SchedIn DEF IInv
<1>2. Sched.seen = seen
  BY DEF Sched
<1>3. /\ t \in SchedType /\ t.flags = f /\ t.queue = Sched.queue
      /\ t.seen = Sched.seen
  BY <1>1, SetFlags
<1> HIDE DEF t
<1>4. Reports(Sched, t, c)
  BY <1>1, <1>3, SameReports
<1> QED
  BY <1>1, <1>2, <1>3, <1>4 DEF t

(* A jail that is requeued reports nothing.                                *)
LEMMA MovedReports ==
  ASSUME NEW s, NEW t, NEW c \in Jails, NEW q, Moved(s, t, {c}, q)
  PROVE  t \in SchedType /\ Reports(s, t, c) /\ t.seen = s.seen
<1>1. /\ t \in SchedType /\ t.flags = s.flags /\ t.seen = s.seen
      /\ \A k \in Jails : t.queue[k] = IF k = c THEN q ELSE s.queue[k]
  BY DEF Moved
<1>2. Reports(s, t, c)
  BY <1>1, SameReports
<1> QED
  BY <1>1, <1>2

-----------------------------------------------------------------------------
(* One step of a start.                                                    *)

(* What a step that reports does to the variables.                         *)
LEMMA ReportsStep ==
  ASSUME NEW t, NEW c, Become(t), Reports(Sched, t, c)
  PROVE  Reports(Sched, Sched', c)
BY DEF Become, Reports, Sched

(* A jail that has what it depends on does not fail with another.          *)
LEMMA MetStaysWell ==
  ASSUME NoLight, NEW c, Reports(Sched, Sched', c),
         seen' \in SUBSET Edge,
         NEW k \in Jails \ {c}, "FAILED" \notin flags[k], Met(k)
  PROVE  "FAILED" \notin flags'[k]
<1> SUFFICES ASSUME "FAILED" \in flags'[k]
             PROVE  FALSE
  OBVIOUS
<1>1. PICK e \in seen' \ seen : Deps[e].from = k
  BY DEF Reports, Sched
<1>2. e \in Needs(k)
  BY <1>1 DEF Needs
<1>3. e \in seen
  BY <1>1, <1>2 DEF Met, NoLight
<1> QED
  BY <1>1, <1>3

(* The jail c is not done with, or is as it should be then.                *)
EndsWell(c) ==
  /\ Held(c) \/ pc = "crashed" \/ Finished(c)
  /\ Placed(c)
  /\ ~Held(c) /\ pc # "crashed" /\ list[c] # "NULL" /\ "FAILED" \in flags[c]
       /\ "remove" \notin Faults => c \notin up
  /\ pc = "done" /\ list[c] = "NULL" /\ "FAILED" \notin flags[c] => Met(c)

(* It is enough to look at the jail the loop holds, or takes up.           *)
LEMMA EndStep ==
  ASSUME IInv, IInv', OInv, OInv', EInv, given' = given, Begun, Begun',
         pc # "crashed", NEW c \in Jails, Held(c),
         Reports(Sched, Sched', c),
         pc \in InLoop => c = cur,
         cur' = c \/ pc' \notin InLoop,
         \A k \in Jails \ {c} : /\ list'[k] = list[k] /\ pos'[k] = pos[k]
                                /\ jid'[k] = jid[k]
                                /\ k \in up' => k \in up,
         \A e \in seen' \ seen :
           \/ Deps[e].light
           \/ ~Held(c)' /\ ("FAILED" \in flags'[c] => "FAILED" \in flags[c]),
         EndsWell(c)',
         \/ list'[c] = "NULL"
         \/ "FAILED" \notin flags'[c]
         \/ Refused(c)'
         \/ list'[c] = list[c] /\ (Refused(c) => Refused(c)')
  PROVE  EInv'
<1>1. /\ \A e \in seen : e \in seen'
      /\ \A e \in seen' \ seen :
           /\ Deps[e].to = c
           /\ "FAILED" \in flags[c] => "FAILED" \in flags'[Deps[e].from]
      /\ \A k \in Jails :
           /\ "START" \in flags[k] => "START" \in flags'[k]
           /\ "FAILED" \in flags[k] => "FAILED" \in flags'[k]
      /\ \A k \in Jails \ {c} :
           /\ "START" \in flags'[k] /\ "START" \notin flags[k] =>
                queue'[k] # "cfjails"
           /\ queue'[k] = "cfjails" => queue[k] = "cfjails"
           /\ queue'[k] # "cfjails" =>
                \/ queue[k] # "cfjails"
                \/ "START" \notin flags[k] /\ "START" \in flags'[k]
  BY DEF Reports, Sched
<1>2. seen \in SUBSET Edge /\ seen' \in SUBSET Edge
  BY DEF IInv, TypeOK
<1>3. ASSUME NEW k \in Jails
      PROVE  Placed(k)'
  <2>1. CASE k = c
    BY <2>1 DEF EndsWell
  <2>2. CASE k # c
    BY <1>1, <2>2 DEF EInv, Placed, Running
  <2> QED
    BY <2>1, <2>2
<1>4. ASSUME NEW k \in Jails \ {c}, ~Held(k)'
      PROVE  ~Held(k) /\ ("START" \in flags'[k] => "START" \in flags[k])
  <2>1. queue'[k] = "cfjails"
    BY <1>4 DEF Held
  <2> QED
    BY <1>1, <2>1 DEF Held
<1>5. ASSUME NEW k \in Jails \ {c}, ~Held(k), "START" \in flags[k]
      PROVE  ~Held(k)' /\ "START" \in flags'[k]
  <2>1. queue'[k] = "cfjails"
    BY <1>1, <1>5 DEF Held
  <2> QED
    BY <1>1, <1>5, <2>1 DEF Held
<1>6. \A k \in Jails : Met(k) => Met(k)'
  BY <1>1 DEF Met
<1>7. ASSUME NEW k \in Jails, "START" \in flags'[k], ~Held(k)', pc' # "crashed"
      PROVE  Finished(k)'
  <2>1. CASE k = c
    BY <1>7, <2>1 DEF EndsWell
  <2>2. CASE k # c
    <3>1. Finished(k)
      BY <1>4, <1>7, <2>2 DEF EInv
    <3>2. "FAILED" \notin flags'[k] => jid'[k] = 1 /\ Through(k)' /\ Met(k)'
      BY <1>1, <1>6, <2>2, <3>1 DEF Finished, Through
    <3> QED
      BY <1>1, <3>1, <3>2 DEF Finished
  <2> QED
    BY <2>1, <2>2
<1>8. ASSUME NEW e \in seen, ~Deps[e].light
      PROVE  /\ Deps[e].to \in Jails \ {c}
             /\ "START" \in flags[Deps[e].to] /\ ~Held(Deps[e].to)
  <2>1. Deps[e].to \in Jails
    BY <1>2, EdgeEnds
  <2> QED
    BY <1>8, <2>1 DEF EInv
<1>9. ASSUME NEW e \in seen', ~Deps[e].light
      PROVE  "START" \in flags'[Deps[e].to] /\ ~Held(Deps[e].to)'
  <2>1. CASE e \in seen
    BY <1>5, <1>8, <1>9, <2>1
  <2>2. CASE e \notin seen
    <3>1. Deps[e].to = c /\ ~Held(c)'
      BY <1>1, <1>9, <2>2
    <3>2. "START" \in flags[c]
      BY DEF OInv
    <3> QED
      BY <1>1, <3>1, <3>2
  <2> QED
    BY <2>1, <2>2
<1>10. ASSUME pc' = "done", "FAILED" \notin flags'[cur']
       PROVE  Met(cur)'
  <2>1. cur' = c
    BY <1>10 DEF InLoop
  <2>2. Met(c)'
    <3>1. CASE list'[c] = "NULL"
      BY <1>10, <2>1, <3>1 DEF EndsWell
    <3>2. CASE list'[c] # "NULL"
      BY <1>10, <2>1, <3>2 DEF OInv, Fit
    <3> QED
      BY <3>1, <3>2
  <2> QED
    BY <2>1, <2>2 DEF Met, Needs
<1>11. ASSUME NoLight, pc' # "crashed"
       PROVE  Spread'
  <2>1. \A e \in Edge : ~Deps[e].light
    BY <1>11 DEF NoLight
  <2>2. Spread
    BY <1>11 DEF EInv
  <2>3. ASSUME NEW e \in seen, "FAILED" \notin flags[Deps[e].to]
        PROVE  "FAILED" \notin flags'[Deps[e].to]
    <3>1. /\ Deps[e].to \in Jails \ {c}
          /\ "START" \in flags[Deps[e].to] /\ ~Held(Deps[e].to)
      BY <1>2, <1>8, <2>1
    <3>2. Met(Deps[e].to)
      BY <2>3, <3>1 DEF EInv, Finished
    <3> QED
      BY <1>2, <1>11, <2>3, <3>1, <3>2, MetStaysWell
  <2>4. ASSUME NEW e \in seen', "FAILED" \in flags'[Deps[e].to]
        PROVE  "FAILED" \in flags'[Deps[e].from]
    <3>1. e \in Edge /\ Deps[e].from \in Jails
      BY <1>2, EdgeEnds
    <3>2. CASE e \in seen
      <4>1. "FAILED" \in flags[Deps[e].to]
        BY <2>3, <2>4, <3>2
      <4>2. "FAILED" \in flags[Deps[e].from]
        BY <2>2, <3>2, <4>1 DEF Spread
      <4> QED
        BY <1>1, <3>1, <4>2
    <3>3. CASE e \notin seen
      <4>1. Deps[e].to = c
        BY <1>1, <3>3
      <4>2. "FAILED" \in flags[c]
        BY <2>1, <2>4, <3>1, <3>3, <4>1
      <4> QED
        BY <1>1, <3>3, <4>2
    <3> QED
      BY <3>2, <3>3
  <2>5. ASSUME NEW k \in Jails, Sound(k)
        PROVE  Sound(k)'
    <3>1. ASSUME NEW e \in Needs(k)
          PROVE  e \in seen' /\ "FAILED" \notin flags'[Deps[e].to]
      BY <1>1, <2>3, <2>5 DEF Sound
    <3> QED
      BY <3>1 DEF Sound, Needs
  <2>6. ASSUME NEW k \in Jails, list'[k] # "NULL", "FAILED" \notin flags'[k]
        PROVE  Sound(k)'
    <3>1. Met(k)'
      BY <2>6 DEF OInv, Fit
    <3>2. ASSUME NEW e \in Needs(k)
          PROVE  e \in seen' /\ "FAILED" \notin flags'[Deps[e].to]
      <4>1. e \in Edge /\ Deps[e].from = k
        BY DEF Needs
      <4>2. e \in seen'
        BY <2>1, <3>1, <4>1 DEF Met, Needs
      <4> QED
        BY <2>4, <2>6, <4>1, <4>2
    <3> QED
      BY <3>2 DEF Sound, Needs
  <2>7. ASSUME NEW k \in Jails \ {c}, list[k] # "NULL", "FAILED" \notin flags[k]
        PROVE  "FAILED" \notin flags'[k]
    <3>1. Met(k)
      BY <2>7 DEF OInv, Fit
    <3> QED
      BY <1>2, <1>11, <2>7, <3>1, MetStaysWell
  <2>8. ASSUME NEW k \in Jails, list'[k] # "NULL"
        PROVE  Sound(k)' \/ Refused(k)'
    <3>1. CASE "FAILED" \notin flags'[k]
      BY <2>6, <2>8, <3>1
    <3>2. CASE "FAILED" \in flags'[k] /\ list'[k] = list[k]
                 /\ (Refused(k) => Refused(k)')
      <4>1. Sound(k) \/ Refused(k)
        BY <2>2, <2>8, <3>2 DEF Spread, Clear
      <4> QED
        BY <2>5, <3>2, <4>1
    <3>3. k # c => list'[k] = list[k] /\ (Refused(k) => Refused(k)')
      BY <1>1 DEF Refused
    <3> QED
      BY <2>8, <3>1, <3>2, <3>3
  <2>9. ASSUME NEW k \in Jails, list'[k] # "NULL", ~Held(k)',
               "FAILED" \in flags'[k], "remove" \notin Faults'
        PROVE  k \notin up'
    <3>1. CASE k = c
      BY <1>11, <2>9, <3>1 DEF EndsWell
    <3>2. CASE k # c
      <4>1. list[k] # "NULL" /\ ~Held(k) /\ (k \in up' => k \in up)
        BY <1>4, <2>9, <3>2
      <4>2. "FAILED" \in flags[k]
        BY <2>7, <2>9, <3>2, <4>1
      <4>3. k \notin up
        BY <2>2, <2>9, <4>1, <4>2 DEF Spread, Clear, Faults
      <4> QED
        BY <4>1, <4>3
    <3> QED
      BY <3>1, <3>2
  <2> QED
    BY <2>4, <2>8, <2>9 DEF Spread, Clear
<1> QED
  BY <1>3, <1>7, <1>9, <1>10, <1>11 DEF EInv

(* Steps that see no edge and keep the jail in the loop or in a queue.     *)
LEMMA HeldEnds ==
  ASSUME IInv, IInv', OInv, OInv', EInv, given' = given, Begun', pc # "crashed",
         Begun, NEW c \in Jails, Held(c),
         pc \in InLoop => c = cur,
         cur' = c \/ pc' \notin InLoop,
         pc' \in InLoop \cup {"crashed"} \/ queue'[c] # "cfjails",
         NEW t, Become(t), Reports(Sched, t, c), t.seen = seen,
         list' = list, up' = up,
         \A k \in Jails \ {c} : pos'[k] = pos[k] /\ jid'[k] = jid[k],
         Placed(c)', Refused(c) => Refused(c)',
         pc' = "done" /\ list[c] = "NULL" /\ "FAILED" \notin flags'[c] =>
           Met(c)
  PROVE  EInv'
<1>1. Reports(Sched, Sched', c) /\ seen' = seen
  BY ReportsStep DEF Become
<1>2. Held(c)' \/ pc' = "crashed"
  BY DEF Held
<1>3. Met(c) => Met(c)'
  BY <1>1 DEF Met
<1>4. EndsWell(c)'
  BY <1>2, <1>3 DEF EndsWell, Held, InLoop
<1> QED
  BY <1>1, <1>4, EndStep

(* The jail that is placed stays so when only its flags change.            *)
LEMMA StaysPlaced ==
  ASSUME EInv, NEW c \in Jails, given' = given,
         list' = list, pos' = pos, jid' = jid, up' = up,
         "FAILED" \in flags[c] => "FAILED" \in flags'[c]
  PROVE  Placed(c)' /\ (Refused(c) => Refused(c)')
BY DEF EInv, Placed, Refused, Running

(* Steps that move no command cursor and look nothing up either.           *)
LEMMA CalmEnds ==
  ASSUME IInv, IInv', OInv, OInv', EInv, given' = given, Begun',
         NEW c \in Jails, c = cur, pc \in InLoop,
         cur' = cur \/ pc' \notin InLoop,
         pc' \in InLoop \cup {"crashed"} \/ queue'[c] # "cfjails",
         NEW t, Become(t), Reports(Sched, t, c), t.seen = seen,
         UNCHANGED <<coms, jid, up>>,
         pc' = "done" /\ "FAILED" \notin flags'[c] => Met(c)
  PROVE  EInv'
<1>1. Begun /\ Held(c) /\ pc # "crashed"
  BY InHandFacts DEF InLoop
<1>2. list' = list /\ pos' = pos
  BY DEF coms
<1>3. "FAILED" \in flags[c] => "FAILED" \in flags'[c]
  BY DEF Become, Reports, Sched
<1>4. Placed(c)' /\ (Refused(c) => Refused(c)')
  BY <1>2, <1>3, StaysPlaced
<1> QED
  BY <1>1, <1>2, <1>4, HeldEnds

(* A jail that fails leaves the loop.                                      *)
LEMMA FailedLeavesEnds ==
  ASSUME IInv, IInv', OInv, OInv', EInv, given' = given,
         NEW c \in Jails, c = cur, pc \in InLoop,
         NEW u \in SchedType, Reports(Sched, u, c), u.seen = seen,
         Become(Failed(u, c)), Continue, UNCHANGED <<coms, jid, up>>
  PROVE  EInv'
<1> DEFINE t == Failed(u, c)
<1>1. /\ t \in SchedType /\ Reports(u, t, c) /\ t.queue[c] = "ready"
      /\ t.seen = u.seen /\ Become(t)
  BY FailedReports
<1> HIDE DEF t
<1>2. Sched \in SchedType
  BY SchedIn DEF IInv
<1>3. Reports(Sched, t, c)
  BY <1>1, <1>2, ReportsTrans
<1>4. pc' \notin InLoop /\ pc' # "done" /\ Begun' /\ queue'[c] # "cfjails"
  BY <1>1 DEF Continue, InLoop, Begun, Become
<1> QED
  BY <1>1, <1>3, <1>4, CalmEnds
-----------------------------------------------------------------------------
(* The head of the main loop.                                              *)

(* What a jail that only starts frees are the edges to it, and dep_done()  *)
(* of it sees them all.                                                    *)
LEMMA DoneSees ==
  ASSUME NEW s \in SchedType, NEW c \in Jails, Ordered(s)
  PROVE  \A e \in Edge : Deps[e].to = c => e \in DepDone(s, c, FALSE, FALSE).seen
<1> DEFINE t == DepDone(s, c, FALSE, FALSE)
<1>1. Announced(s, t, c, FALSE, FALSE)
  BY DepDoneWhole
<1> HIDE DEF t
<1>2. t.seen = s.seen \cup Resolved(s, c, FALSE)
  BY <1>1 DEF Announced
<1>3. Frees(s.flags[c], c) = {e \in Edge : Deps[e].to = c}
  BY StartsWaits DEF Ordered
<1>4. ASSUME NEW e \in Edge, Deps[e].to = c
      PROVE  e \in t.seen
  BY <1>2, <1>3, <1>4 DEF Resolved
<1> QED
  BY <1>4 DEF t

(* A jail that failed before it began is done with.                        *)
LEMMA SkipFailedEnds ==
  ASSUME IInv, IInv', OInv, OInv', EInv, given' = given,
         NEW c \in Jails, c = cur, SkipFailed
  PROVE  EInv'
<1> DEFINE t == DepDone(Sched, c, FALSE, FALSE)
<1>1. /\ pc \in InLoop /\ "FAILED" \in flags[c] /\ list[c] = "NULL"
      /\ Become(t) /\ Continue
      /\ list' = list /\ pos' = pos /\ jid' = jid /\ up' = up
  BY DEF SkipFailed, InLoop, coms
<1>2. /\ Begun /\ Held(c) /\ pc # "crashed" /\ Sched \in SchedType
      /\ Ordered(Sched) /\ Sched.queue = queue
      /\ queue[c] = "cfjails"
  BY <1>1, InHandFacts DEF InLoop
<1>3. Reports(Sched, t, c)
  BY <1>2, DepDoneReports
<1>4. \A e \in Edge : Deps[e].to = c => e \in t.seen
  BY <1>2, DoneSees
<1>5. t.queue[c] = "cfjails"
  <2>1. Tells(Sched, t, c, FALSE)
    BY <1>2, DepDoneOrder
  <2> HIDE DEF t
  <2> QED
    BY <1>2, <2>1 DEF Tells
<1> HIDE DEF t
<1>6. Reports(Sched, Sched', c) /\ seen' = t.seen /\ queue' = t.queue
  BY <1>1, <1>3, ReportsStep DEF Become
<1>7. pc' \notin InLoop /\ pc' # "done" /\ Begun' /\ ~Held(c)'
  BY <1>1, <1>5, <1>6 DEF Continue, InLoop, Begun, Held
<1>8. "FAILED" \in flags'[c]
  BY <1>1, <1>6 DEF Reports, Sched
<1>9. Placed(c)'
  BY <1>1, <1>8, StaysPlaced
<1>10. Finished(c)'
  BY <1>4, <1>6, <1>8 DEF Finished
<1>11. EndsWell(c)'
  BY <1>1, <1>7, <1>9, <1>10 DEF EndsWell
<1> QED
  BY <1>1, <1>2, <1>6, <1>7, <1>11, EndStep

(* JF_PARAMS is neither an operation nor a failure.                        *)
LEMMA WithParamsReports ==
  ASSUME IInv, NEW c \in Jails, c = cur
  PROVE  LET t == [Sched EXCEPT !.flags = WithParams]
         IN  /\ t \in SchedType /\ Reports(Sched, t, c)
             /\ t.seen = seen /\ t.flags = WithParams /\ t.queue = queue
<1>1. flags \in [Jails -> SUBSET Flag]
  BY DEF IInv, TypeOK
<1>2. WithParams \in [Jails -> SUBSET Flag]
  BY WithParamsFacts
<1>3. \A k \in Jails : WithParams[k] = flags[k]
                         \/ WithParams[k] = flags[k] \cup {"PARAMS"}
  BY <1>1, <1>2 DEF WithParams
<1> HIDE DEF WithParams
<1>4. \A k \in Jails : Ops(WithParams[k]) = Ops(flags[k])
  BY <1>3 DEF Ops, OpFlag
<1>5. \A k \in Jails : "FAILED" \in flags[k] <=> "FAILED" \in WithParams[k]
  BY <1>3
<1> QED
  BY <1>2, <1>4, <1>5, FlagsReports

(* A jail with bad parameters fails.                                       *)
LEMMA BadParamsEnds ==
  ASSUME IInv, IInv', OInv, OInv', EInv, given' = given,
         NEW c \in Jails, c = cur, BadParams
  PROVE  EInv'
<1> DEFINE u == [Sched EXCEPT !.flags = WithParams]
<1>1. u \in SchedType /\ Reports(Sched, u, c) /\ u.seen = seen
  BY WithParamsReports
<1>2. /\ pc \in InLoop /\ Become(Failed(u, c)) /\ Continue
      /\ UNCHANGED <<coms, jid, up>>
  BY DEF BadParams, InLoop
<1> HIDE DEF u
<1> QED
  BY <1>1, <1>2, FailedLeavesEnds

(* running_jid() says that a jail is not there only when it is not.        *)
LEMMA RunningJidEnds ==
  ASSUME IInv, IInv', OInv, OInv', EInv, given' = given,
         NEW c \in Jails, c = cur, RunningJid
  PROVE  EInv'
<1> DEFINE t == [Sched EXCEPT !.flags = WithParams]
<1>1. Reports(Sched, t, c) /\ t.seen = seen
  BY WithParamsReports
<1>2. Become(t)
  BY DEF Become, Sched, RunningJid
<1> HIDE DEF t
<1>3. pc \in InLoop /\ pc' = "finish" /\ cur' = c
  BY DEF RunningJid, InLoop
<1>4. Begun /\ Held(c) /\ pc # "crashed"
  BY <1>3, InHandFacts DEF InLoop
<1>5. /\ list' = list /\ pos' = pos /\ up' = up
      /\ \A k \in Jails \ {c} : jid'[k] = jid[k]
      /\ jid[c] = -1 => jid'[c] = -1
      /\ jid'[c] = -1 => jid[c] = -1 \/ c \notin up
  BY DEF RunningJid, coms, IInv, TypeOK
<1>6. "FAILED" \in flags[c] => "FAILED" \in flags'[c]
  BY <1>1, <1>2 DEF Become, Reports, Sched
<1>7. Placed(c)
  BY DEF EInv
<1>8. Placed(c)'
  BY <1>5, <1>6, <1>7 DEF Placed, Running
<1>9. Refused(c) => Refused(c)'
  BY <1>5, <1>6 DEF Refused
<1>10. Begun' /\ pc' \in InLoop /\ pc' # "done"
  BY <1>3 DEF Begun, InLoop
<1> QED
  BY <1>1, <1>2, <1>3, <1>4, <1>5, <1>8, <1>9, <1>10, HeldEnds

(* SLEEPQ and TIMEOUT are neither.                                         *)
LEMMA AwakeReports ==
  ASSUME IInv, NEW c \in Jails, c = cur
  PROVE  LET t == [Sched EXCEPT !.flags = Awake]
         IN  /\ t \in SchedType /\ Reports(Sched, t, c)
             /\ t.seen = seen /\ t.flags = Awake /\ t.queue = queue
<1>1. /\ \A k \in Jails \ {c} : Awake[k] = flags[k]
      /\ "FAILED" \in Awake[c] <=> "FAILED" \in flags[c]
      /\ Ops(Awake[c]) = Ops(flags[c])
  BY AwakeFacts
<1>2. flags \in [Jails -> SUBSET Flag]
  BY DEF IInv, TypeOK
<1>3. Awake \in [Jails -> SUBSET Flag]
  BY <1>2 DEF Awake
<1> HIDE DEF Awake
<1>4. \A k \in Jails : /\ Ops(Awake[k]) = Ops(flags[k])
                       /\ "FAILED" \in flags[k] <=> "FAILED" \in Awake[k]
  BY <1>1
<1> QED
  BY <1>3, <1>4, FlagsReports

(* finish_command() without a slot to return.                              *)
LEMMA FinishNothingEnds ==
  ASSUME IInv, IInv', OInv, OInv', EInv, given' = given,
         NEW c \in Jails, c = cur, FinishNothing
  PROVE  EInv'
<1> DEFINE t == [Sched EXCEPT !.flags = flags']
<1>1. /\ pc \in InLoop /\ pc' = "op" /\ cur' = c
      /\ UNCHANGED <<coms, jid, up>> /\ queue' = queue
      /\ flags' = Awake \/ flags' = flags
  BY DEF FinishNothing, InLoop
<1>2. flags \in [Jails -> SUBSET Flag]
  BY DEF IInv, TypeOK
<1>3. Reports(Sched, t, c) /\ t.seen = seen
  <2>1. CASE flags' = Awake
    BY <2>1, AwakeReports
  <2>2. CASE flags' = flags
    <3>1. \A k \in Jails :
            /\ Ops(flags'[k]) = Ops(flags[k])
            /\ "FAILED" \in flags[k] <=> "FAILED" \in flags'[k]
      BY <2>2
    <3> QED
      BY <1>2, <2>2, <3>1, FlagsReports
  <2> QED
    BY <1>1, <2>1, <2>2
<1>4. Become(t)
  BY <1>1 DEF Become, Sched, FinishNothing
<1> HIDE DEF t
<1>5. Begun' /\ pc' \in InLoop /\ pc' # "done"
  BY <1>1 DEF Begun, InLoop
<1> QED
  BY <1>1, <1>3, <1>4, <1>5, CalmEnds

(* finish_command() gives the slot to a jail that waits for one.           *)
LEMMA FinishCommandEnds ==
  ASSUME IInv, IInv', OInv, OInv', EInv, given' = given,
         NEW c \in Jails, c = cur, FinishCommand
  PROVE  EInv'
<1> DEFINE s == [Sched EXCEPT !.flags = Awake]
           u == WakeRunnable(s)
<1>1. pc \in InLoop /\ UNCHANGED <<coms, jid, up>>
  BY DEF FinishCommand, InLoop
<1>2. s \in SchedType /\ Reports(Sched, s, c) /\ s.seen = seen
  BY AwakeReports
<1>3. \/ Become(Failed(u, c)) /\ Continue
      \/ Become(u) /\ pc' = "op" /\ cur' = c
  BY DEF FinishCommand
<1> HIDE DEF s
<1>4. Woke(s, u)
  BY <1>2, WakeRunnableWhole
<1>5. Alike(s, u)
  BY <1>2, WakeRunnableAlike
<1> HIDE DEF u
<1>6. u \in SchedType /\ u.seen = s.seen
  BY <1>4 DEF Woke
<1>7. \A k \in Jails :
        /\ Ops(u.flags[k]) = Ops(s.flags[k])
        /\ "FAILED" \in s.flags[k] <=> "FAILED" \in u.flags[k]
        /\ s.queue[k] = "cfjails" <=> u.queue[k] = "cfjails"
  BY <1>4, <1>5 DEF Woke, Alike
<1>8. Reports(s, u, c)
  BY <1>6, <1>7, SameReports
<1>9. Reports(Sched, u, c) /\ u.seen = seen
  <2>1. Sched \in SchedType
    BY SchedIn DEF IInv
  <2> QED
    BY <1>2, <1>6, <1>8, <2>1, ReportsTrans
<1>10. CASE Become(Failed(u, c)) /\ Continue
  BY <1>1, <1>6, <1>9, <1>10, FailedLeavesEnds
<1>11. CASE Become(u) /\ pc' = "op" /\ cur' = c
  <2>1. Begun' /\ pc' \in InLoop /\ pc' # "done"
    BY <1>11 DEF Begun, InLoop
  <2> QED
    BY <1>1, <1>9, <1>11, <2>1, CalmEnds
<1> QED
  BY <1>3, <1>10, <1>11
-----------------------------------------------------------------------------
(* The operation of the jail the loop holds.                               *)

(* A jail that runs already and was asked for fails.                       *)
LEMMA ExistsEnds ==
  ASSUME IInv, IInv', OInv, OInv', EInv, given' = given,
         NEW c \in Jails, c = cur, Exists
  PROVE  EInv'
<1>1. /\ pc \in InLoop /\ Become(Failed(Sched, c)) /\ Continue
      /\ UNCHANGED <<coms, jid, up>>
  BY DEF Exists, Single, Refuse, InLoop
<1>2. Sched \in SchedType /\ Sched.seen = seen
  BY <1>1, InHandFacts
<1>3. Reports(Sched, Sched, c)
  BY SameReports
<1> QED
  BY <1>1, <1>2, <1>3, FailedLeavesEnds

(* dep_check() of the jail the loop holds.                                 *)
LEMMA CheckReports ==
  ASSUME IInv, OInv, NEW c \in Jails, c = cur, MayCheck
  PROVE  Reports(Sched, DepCheck(Sched, cur), c)
<1>1. pc \in InLoop
  BY MayCheckFacts DEF InLoop
<1>2. /\ Sched \in SchedType /\ Ordered(Sched) /\ Sched.flags = flags
      /\ "START" \in flags[c]
  BY <1>1, InHandFacts
<1> QED
  BY <1>2, DepCheckReports

(* The jail goes to wait in depend.                                        *)
LEMMA WaitForOthersEnds ==
  ASSUME IInv, IInv', OInv, OInv', EInv, given' = given,
         NEW c \in Jails, c = cur, WaitForOthers
  PROVE  EInv'
<1> DEFINE t == DepCheck(Sched, cur)
<1>1. /\ MayCheck /\ Blocked(Sched, cur) /\ Become(t) /\ Continue
      /\ UNCHANGED <<coms, jid, up>>
  BY DEF WaitForOthers
<1>2. pc = "op" /\ t.seen = seen /\ Reports(Sched, t, c)
  BY <1>1, CheckOrder, CheckReports
<1>3. t.queue[c] # "cfjails"
  <2>1. Sched \in SchedType
    BY SchedIn DEF IInv
  <2>2. Drew(Sched, t, c)
    BY <2>1, DepCheckWhole
  <2> HIDE DEF t
  <2> QED
    BY <1>1, <2>2 DEF Drew
<1> HIDE DEF t
<1>4. pc \in InLoop /\ pc' \notin InLoop /\ pc' # "done" /\ Begun'
  BY <1>1, <1>2 DEF Continue, InLoop, Begun
<1>5. queue'[c] # "cfjails"
  BY <1>1, <1>3 DEF Become
<1> QED
  BY <1>1, <1>2, <1>4, <1>5, CalmEnds

(* A jail that begins its commands is not there, as was looked up.         *)
LEMMA BeginStartEnds ==
  ASSUME IInv, IInv', OInv, OInv', EInv, given' = given,
         NEW c \in Jails, c = cur, BeginStart
  PROVE  EInv'
<1> DEFINE t == DepCheck(Sched, cur)
<1>1. /\ MayCheck /\ Become(t) /\ jid[c] < 0
      /\ list' = [list EXCEPT ![c] = "start"] /\ pos' = [pos EXCEPT ![c] = 1]
      /\ pc' = "next_command" /\ cur' = c /\ UNCHANGED <<jid, up>>
  BY DEF BeginStart, Unblocked, Begin
<1>2. /\ pc = "op" /\ Begun /\ Held(c) /\ t.seen = seen
      /\ Reports(Sched, t, c)
  BY <1>1, CheckOrder, CheckReports
<1> HIDE DEF t
<1>3. Reports(Sched, Sched', c) /\ seen' = seen
  BY <1>1, <1>2, ReportsStep DEF Become
<1>4. /\ list'[c] = "start" /\ pos'[c] = 1
      /\ \A k \in Jails \ {c} : list'[k] = list[k] /\ pos'[k] = pos[k]
  BY <1>1 DEF IInv, TypeOK
<1>5. jid[c] = -1
  <2>1. jid[c] \in {-1, 0, 1}
    BY DEF IInv, TypeOK
  <2> QED
    BY <1>1, <2>1
<1>6. Placed(c)'
  <2>1. Placed(c)
    BY DEF EInv
  <2> QED
    BY <1>1, <1>4, <1>5, <2>1 DEF Placed
<1>7. Held(c)' /\ pc' # "done" /\ Begun' /\ pc # "crashed"
  BY <1>1, <1>2 DEF Held, Begun, InLoop
<1>8. EndsWell(c)'
  BY <1>6, <1>7 DEF EndsWell
<1>9. "FAILED" \notin flags'[c] \/ Refused(c)'
  BY <1>1, <1>4, <1>5 DEF Refused
<1> QED
  BY <1>1, <1>2, <1>3, <1>4, <1>7, <1>8, <1>9, EndStep

(* A jail that runs already has what it depends on all the same.           *)
LEMMA AlreadyRunsEnds ==
  ASSUME IInv, IInv', OInv, OInv', EInv, given' = given,
         NEW c \in Jails, c = cur, AlreadyRuns
  PROVE  EInv'
<1> DEFINE t == DepCheck(Sched, cur)
<1>1. /\ MayCheck /\ ~Blocked(Sched, cur) /\ Become(t)
      /\ pc' = "done" /\ cur' = c /\ UNCHANGED <<coms, jid, up>>
  BY DEF AlreadyRuns, Unblocked
<1>2. /\ pc = "op" /\ t.seen = seen /\ Reports(Sched, t, c)
      /\ "FAILED" \notin t.flags[c] => Met(c)
  BY <1>1, CheckOrder, CheckReports
<1> HIDE DEF t
<1>3. flags' = t.flags /\ pc \in InLoop /\ pc' \in InLoop /\ Begun'
  BY <1>1, <1>2 DEF Become, InLoop, Begun
<1> QED
  BY <1>1, <1>2, <1>3, CalmEnds

(* A list that was begun goes on.                                          *)
LEMMA ResumeEnds ==
  ASSUME IInv, IInv', OInv, OInv', EInv, given' = given,
         NEW c \in Jails, c = cur, Resume
  PROVE  EInv'
<1>1. /\ pc \in InLoop /\ pc' = "next_command" /\ cur' = c
      /\ UNCHANGED <<sched, coms, jid, up>>
  BY DEF Resume, Single, InLoop
<1>2. Sched.seen = seen /\ Become(Sched)
  BY <1>1 DEF Become, Sched, sched
<1>3. Reports(Sched, Sched, c)
  BY SameReports
<1>4. Begun' /\ pc' \in InLoop /\ pc' # "done"
  BY <1>1 DEF Begun, InLoop
<1> QED
  BY <1>1, <1>2, <1>3, <1>4, CalmEnds

(* A jail that comes to its end tells all that wait for it.                *)
LEMMA DoneEnds ==
  ASSUME IInv, IInv', OInv, OInv', SInv, EInv, given' = given,
         NEW c \in Jails, c = cur, Done
  PROVE  EInv'
<1> DEFINE t == DepDone(Sched, c, FALSE, FALSE)
<1>1. pc = "done" /\ pc \in InLoop
  BY DEF Done, InLoop
<1>2. /\ Begun /\ Held(c) /\ pc # "crashed" /\ Sched \in SchedType
      /\ Ordered(Sched) /\ Sched.flags = flags /\ Sched.queue = queue
      /\ queue[c] = "cfjails" /\ "STOP" \notin flags[c]
  BY <1>1, InHandFacts
<1>3. /\ Ordered(t) /\ t.queue[c] = "cfjails"
      /\ "FAILED" \notin flags[c] => t.flags = flags
  <2>1. Tells(Sched, t, c, FALSE)
    BY <1>2, DepDoneOrder
  <2> HIDE DEF t
  <2> QED
    BY <1>2, <2>1 DEF Tells
<1>4. Reports(Sched, t, c)
  BY <1>2, DepDoneReports
<1>5. \A e \in Edge : Deps[e].to = c => e \in t.seen
  BY <1>2, DoneSees
<1>6. "STOP" \notin t.flags[c]
  BY <1>3, StartsWaits DEF Ordered
<1>7. /\ Become(t) /\ Continue
      /\ list' = list /\ pos' = pos /\ jid' = jid /\ up' = up
  BY <1>6 DEF Done
<1> HIDE DEF t
<1>8. /\ Reports(Sched, Sched', c) /\ seen' = t.seen /\ queue' = t.queue
      /\ "FAILED" \in flags'[c] <=> "FAILED" \in flags[c]
  <2>1. Reports(Sched, Sched', c) /\ seen' = t.seen /\ queue' = t.queue
    BY <1>4, <1>7, ReportsStep DEF Become
  <2>2. "FAILED" \in flags[c] => "FAILED" \in flags'[c]
    BY <2>1 DEF Reports, Sched
  <2>3. flags' = t.flags
    BY <1>7 DEF Become
  <2> QED
    BY <1>3, <2>1, <2>2, <2>3
<1>9. pc' \notin InLoop /\ pc' # "done" /\ Begun' /\ ~Held(c)'
  BY <1>3, <1>7, <1>8 DEF Continue, InLoop, Begun, Held
<1>10. Placed(c)' /\ (Refused(c) => Refused(c)')
  BY <1>7, <1>8, StaysPlaced
<1>11. Finished(c)'
  <2>1. "FAILED" \notin flags[c] => Through(c) /\ jid[c] = 1
    BY <1>1 DEF OInv, InHand
  <2>2. "FAILED" \notin flags[c] => Met(c)
    BY <1>1 DEF EInv, Begun
  <2>3. Met(c) => Met(c)'
    BY <1>8 DEF Reports, Sched, Met
  <2>4. Through(c) => Through(c)'
    BY <1>7 DEF Through
  <2> QED
    BY <1>5, <1>7, <1>8, <2>1, <2>2, <2>3, <2>4 DEF Finished
<1>12. list[c] # "NULL" /\ "FAILED" \in flags[c] /\ "remove" \notin Faults
         => c \notin up
  <2>1. list[c] # "NULL" => list[c] = "start"
    BY DEF OInv, Fit, IInv, TypeOK
  <2> QED
    BY <1>1, <1>2, <2>1 DEF SInv, Half, Going
<1>13. EndsWell(c)'
  BY <1>7, <1>8, <1>9, <1>10, <1>11, <1>12 DEF EndsWell, Faults
<1> QED
  BY <1>2, <1>7, <1>8, <1>9, <1>10, <1>13, EndStep
-----------------------------------------------------------------------------
(* next_command() and run_command().                                       *)

(* Without a slot the jail waits in runnable.                              *)
LEMMA WaitForSlotEnds ==
  ASSUME IInv, IInv', OInv, OInv', EInv, given' = given,
         NEW c \in Jails, c = cur, WaitForSlot
  PROVE  EInv'
<1>1. /\ pc \in InLoop /\ Continue /\ UNCHANGED <<coms, jid, up>>
      /\ \/ Become(RequeueHead(Sched, c, "runnable"))
         \/ Become(Requeue(Sched, {c}, "runnable", {}))
  BY DEF WaitForSlot, InLoop
<1>2. Sched \in SchedType /\ Sched.seen = seen
  BY <1>1, InHandFacts
<1>3. "runnable" \in Queue
  BY DEF Queue
<1>4. PICK t : Moved(Sched, t, {c}, "runnable") /\ Become(t)
  BY <1>1, <1>2, <1>3, RequeueOne, RequeueHeadFacts
<1>5. Reports(Sched, t, c) /\ t.seen = seen
  BY <1>2, <1>4, MovedReports
<1>6. t.queue[c] = "runnable"
  BY <1>4 DEF Moved
<1>7. /\ pc' \notin InLoop /\ pc' # "done" /\ Begun'
      /\ queue'[c] # "cfjails"
  BY <1>1, <1>4, <1>6 DEF Continue, InLoop, Begun, Become
<1> QED
  BY <1>1, <1>4, <1>5, <1>7, CalmEnds

(* With one it goes on.                                                    *)
LEMMA EnterCommandsEnds ==
  ASSUME IInv, IInv', OInv, OInv', EInv, given' = given,
         NEW c \in Jails, c = cur, EnterCommands
  PROVE  EInv'
<1> DEFINE t == [Sched EXCEPT !.flags = flags']
<1>1. /\ pc \in InLoop /\ pc' = "command" /\ cur' = c
      /\ UNCHANGED <<coms, jid, up>>
      /\ flags' = [flags EXCEPT ![c] = @ \ {"FROM_RUNQ"}]
  BY DEF EnterCommands, InLoop
<1>2. flags \in [Jails -> SUBSET Flag]
  BY DEF IInv, TypeOK
<1>3. flags' \in [Jails -> SUBSET Flag]
  BY <1>1, <1>2
<1>4. \A k \in Jails : \/ flags'[k] = flags[k]
                       \/ flags'[k] = flags[k] \ {"FROM_RUNQ"}
  BY <1>1, <1>2
<1>5. \A k \in Jails : Ops(flags'[k]) = Ops(flags[k])
  BY <1>4 DEF Ops, OpFlag
<1>6. \A k \in Jails : "FAILED" \in flags[k] <=> "FAILED" \in flags'[k]
  BY <1>4
<1>7. Reports(Sched, t, c) /\ t.seen = seen
  BY <1>3, <1>5, <1>6, FlagsReports
<1>8. Become(t)
  BY DEF Become, Sched, EnterCommands
<1> HIDE DEF t
<1>9. Begun' /\ pc' \in InLoop /\ pc' # "done"
  BY <1>1 DEF Begun, InLoop
<1> QED
  BY <1>1, <1>7, <1>8, <1>9, CalmEnds

(* The cursor moves, with nothing created.                                 *)
LEMMA AdvanceEnds ==
  ASSUME IInv, IInv', OInv, OInv', EInv, given' = given,
         NEW c \in Jails, c = cur, pc = "command", Advance,
         NEW t, Become(t), Reports(Sched, t, c), t.seen = seen,
         cur' = cur \/ pc' \notin InLoop, Begun',
         pc' \in InLoop \cup {"crashed"} \/ queue'[c] # "cfjails",
         \/ jid' = jid
         \/ jid' = [jid EXCEPT ![c] = -1] /\ c \notin up',
         \A k \in Jails : k \in up' => k \in up
  PROVE  EInv'
<1>1. /\ pc \in InLoop /\ list[c] = "start" /\ Next1 \in 0 .. 6
      /\ "FAILED" \notin flags[c] => Next1 = pos[c] + 1
  BY StartNext
<1>2. Begun /\ Held(c) /\ "STOP" \notin flags[c]
  BY <1>1, InHandFacts
<1>3. list' = list /\ pos'[c] = Next1 /\ \A k \in Jails \ {c} : pos'[k] = pos[k]
  BY CursorMoves
<1>4. Reports(Sched, Sched', c) /\ seen' = seen
  BY ReportsStep DEF Become
<1>5. "FAILED" \in flags[c] => "FAILED" \in flags'[c]
  BY <1>4 DEF Reports, Sched
<1>6. /\ pos[c] \in Int /\ jid \in [Jails -> {-1, 0, 1}]
      /\ jid[c] = -1 => jid'[c] = -1
      /\ jid'[c] = -1 => jid[c] = -1 \/ c \notin up'
      /\ \A k \in Jails \ {c} : jid'[k] = jid[k]
  BY DEF IInv, TypeOK
<1>7. "FAILED" \in flags[c] => Next1 = pos[c] - 1
  BY <1>2, <1>6 DEF Next1, Undoing
<1> HIDE DEF Next1
<1>8. Placed(c)
  BY DEF EInv
<1>9. "FAILED" \notin flags'[c] /\ pos'[c] <= 3 => pos[c] <= 3
  BY <1>1, <1>3, <1>5, <1>6
<1>10. Placed(c)'
  BY <1>1, <1>3, <1>5, <1>6, <1>8, <1>9 DEF Placed
<1>11. Refused(c) => Refused(c)'
  <2> SUFFICES ASSUME Refused(c)
               PROVE  Refused(c)'
    OBVIOUS
  <2>1. pos[c] <= 1 /\ jid[c] = -1 /\ "FAILED" \in flags[c]
    BY DEF Refused
  <2>2. pos'[c] <= 1
    BY <1>3, <1>6, <1>7, <2>1
  <2> QED
    BY <1>5, <1>6, <2>1, <2>2 DEF Refused
<1>12. Held(c)' \/ pc' = "crashed"
  BY DEF Held
<1>13. EndsWell(c)'
  BY <1>1, <1>3, <1>10, <1>12 DEF EndsWell
<1> QED
  BY <1>1, <1>2, <1>3, <1>4, <1>6, <1>11, <1>13, EndStep

(* The end of the list, and the parameters that hold no command.           *)
LEMMA CommandsEndEnds ==
  ASSUME IInv, IInv', OInv, OInv', EInv, given' = given,
         NEW c \in Jails, c = cur, CommandsEnd \/ LeaveList \/ PassCommand
  PROVE  EInv'
<1>1. /\ pc = "command" /\ Advance /\ pc' \in {"done", "crashed", "command"}
      /\ cur' = c /\ UNCHANGED <<sched, jid, up>>
  BY DEF CommandsEnd, LeaveList, PassCommand, Upcoming
<1>2. Become(Sched) /\ Sched.seen = seen
  BY <1>1 DEF Become, Sched, sched
<1>3. Reports(Sched, Sched, c)
  BY SameReports
<1>4. pc' \in InLoop \cup {"crashed"} /\ Begun'
  BY <1>1 DEF InLoop, Begun
<1> QED
  BY <1>1, <1>2, <1>3, <1>4, AdvanceEnds

(* A jail that is put to sleep reports nothing.                            *)
LEMMA SleepReports ==
  ASSUME IInv, NEW c \in Jails, c = cur
  PROVE  LET t == Requeue([Sched EXCEPT !.flags = [flags EXCEPT
                             ![cur] = @ \cup {"SLEEPQ"}]],
                          {cur}, "sleeping", {})
         IN  /\ t \in SchedType /\ Reports(Sched, t, c)
             /\ t.seen = seen /\ t.queue[c] = "sleeping"
<1> DEFINE f == [flags EXCEPT ![c] = @ \cup {"SLEEPQ"}]
           s == [Sched EXCEPT !.flags = f]
           t == Requeue(s, {c}, "sleeping", {})
<1>1. flags \in [Jails -> SUBSET Flag]
  BY DEF IInv, TypeOK
<1>2. f \in [Jails -> SUBSET Flag]
  BY <1>1 DEF Flag
<1>3. \A k \in Jails : f[k] = flags[k] \/ f[k] = flags[k] \cup {"SLEEPQ"}
  BY <1>1
<1> HIDE DEF f
<1>4. \A k \in Jails : Ops(f[k]) = Ops(flags[k])
  BY <1>3 DEF Ops, OpFlag
<1>5. \A k \in Jails : "FAILED" \in flags[k] <=> "FAILED" \in f[k]
  BY <1>3
<1>6. s \in SchedType /\ Reports(Sched, s, c) /\ s.seen = seen
  BY <1>2, <1>4, <1>5, FlagsReports
<1> HIDE DEF s
<1>7. "sleeping" \in Queue
  BY DEF Queue
<1>8. Moved(s, t, {c}, "sleeping")
  BY <1>6, <1>7, RequeueOne
<1> HIDE DEF t
<1>9. t \in SchedType /\ Reports(s, t, c) /\ t.seen = s.seen
  BY <1>8, MovedReports
<1>10. t.queue[c] = "sleeping"
  BY <1>8 DEF Moved
<1>11. Sched \in SchedType
  BY SchedIn DEF IInv
<1>12. Reports(Sched, t, c)
  BY <1>6, <1>9, <1>11, ReportsTrans
<1> QED
  BY <1>6, <1>9, <1>10, <1>12 DEF t, s, f

(* A command takes a slot, or fails before it is forked.                   *)
LEMMA RunCommandEnds ==
  ASSUME IInv, IInv', OInv, OInv', EInv, given' = given,
         NEW c \in Jails, c = cur, RunCommand
  PROVE  EInv'
<1> DEFINE t == Requeue([Sched EXCEPT !.flags = [flags EXCEPT
                           ![cur] = @ \cup {"SLEEPQ"}]],
                        {cur}, "sleeping", {})
           u == Failed(Sched, c)
<1>1. /\ pc = "command" /\ Advance /\ Continue /\ UNCHANGED <<jid, up>>
      /\ Become(t) \/ Become(u)
  BY DEF RunCommand, Upcoming
<1>2. Sched \in SchedType /\ Sched.seen = seen
  BY SchedIn DEF IInv, Sched
<1>3. Reports(Sched, t, c) /\ t.seen = seen /\ t.queue[c] = "sleeping"
  BY SleepReports
<1>4. Reports(Sched, u, c) /\ u.seen = seen /\ u.queue[c] = "ready"
  BY <1>2, FailedReports
<1> HIDE DEF t, u
<1>5. pc' \notin InLoop /\ Begun' /\ queue'[c] # "cfjails"
  BY <1>1, <1>3, <1>4 DEF Continue, InLoop, Begun, Become
<1> QED
  BY <1>1, <1>3, <1>4, <1>5, AdvanceEnds

(* create_jail() starts a jail that was not there, or fails.               *)
LEMMA CreateJailEnds ==
  ASSUME IInv, IInv', OInv, OInv', EInv, given' = given,
         NEW c \in Jails, c = cur, CreateJail
  PROVE  EInv'
<1> DEFINE t == DepDone(Sched, c, TRUE, FALSE)
           u == Failed(Sched, c)
<1>1. /\ pc = "command" /\ Advance /\ "FAILED" \notin flags[c]
      /\ Upcoming("OP")
  BY DEF CreateJail, Upcoming
<1>2. \/ /\ up' = up \cup {c} /\ jid' = [jid EXCEPT ![c] = 1]
         /\ Become(t) /\ pc' = pc /\ cur' = c
      \/ /\ jid' = [jid EXCEPT ![c] = -1] /\ Become(u)
         /\ Continue /\ up' = up
  BY DEF CreateJail
<1>3. /\ pc \in InLoop /\ list[c] = "start" /\ Next1 \in 0 .. 6
      /\ Next1 = pos[c] + 1
  BY <1>1, StartNext
<1>4. /\ Begun /\ Held(c) /\ Sched \in SchedType /\ Ordered(Sched)
      /\ Sched.flags = flags /\ Sched.seen = seen /\ Sched.queue = queue
      /\ queue[c] = "cfjails"
  BY <1>3, InHandFacts
<1>5. CommandList["start"][Next1] = "OP" /\ Next1 \in 1 .. 6
  BY <1>1, <1>3, StartList DEF Upcoming, InList
<1>6. Next1 = 4
  <2> HIDE DEF Next1
  <2> QED
    BY <1>5, StartList
<1>7. pos[c] = 3
  <2>1. pos[c] \in Int
    BY DEF IInv, TypeOK
  <2> HIDE DEF Next1
  <2> QED
    BY <1>3, <1>6, <2>1
<1>8. jid[c] = -1 /\ c \notin up
  BY <1>1, <1>3, <1>7 DEF EInv, Placed
<1> HIDE DEF Next1
<1>9. CASE Become(u) /\ jid' = [jid EXCEPT ![c] = -1] /\ Continue /\ up' = up
  <2>1. Reports(Sched, u, c) /\ u.seen = seen /\ u.queue[c] = "ready"
    BY <1>4, FailedReports
  <2> HIDE DEF u
  <2>2. pc' \notin InLoop /\ Begun' /\ queue'[c] # "cfjails"
    BY <1>9, <2>1 DEF Continue, InLoop, Begun, Become
  <2> QED
    BY <1>1, <1>8, <1>9, <2>1, <2>2, AdvanceEnds
<1>10. CASE Become(t) /\ up' = up \cup {c} /\ jid' = [jid EXCEPT ![c] = 1]
              /\ pc' = pc /\ cur' = c
  <2>1. Tells(Sched, t, c, TRUE)
    BY <1>4, DepDoneOrder
  <2>2. Reports(Sched, t, c)
    BY <1>4, DepDoneReports
  <2> HIDE DEF t, u
  <2>3. /\ t.flags = flags
        /\ \A e \in t.seen \ seen : Deps[e].light
    BY <1>1, <1>4, <2>1 DEF Tells
  <2>4. Reports(Sched, Sched', c) /\ seen' = t.seen /\ flags' = flags
    BY <1>10, <2>2, <2>3, ReportsStep DEF Become
  <2>5. /\ list' = list /\ pos'[c] = 4
        /\ \A k \in Jails \ {c} : pos'[k] = pos[k]
    BY <1>1, <1>6, CursorMoves
  <2>6. /\ jid'[c] = 1
        /\ \A k \in Jails \ {c} : jid'[k] = jid[k] /\ (k \in up' => k \in up)
    BY <1>10 DEF IInv, TypeOK
  <2>7. Placed(c)'
    BY <1>3, <2>5, <2>6 DEF Placed
  <2>8. Held(c)' /\ Begun' /\ pc' # "done" /\ pc # "crashed"
    BY <1>1, <1>3, <1>4, <1>10 DEF Held, Begun
  <2>9. EndsWell(c)'
    BY <2>7, <2>8 DEF EndsWell
  <2>10. "FAILED" \notin flags'[c]
    BY <1>1, <2>4
  <2> QED
    BY <1>4, <1>10, <2>3, <2>4, <2>5, <2>6, <2>8, <2>9, <2>10, EndStep
<1> QED
  BY <1>2, <1>9, <1>10

(* jail_remove(2) takes a failed jail down, or is refused.                 *)
LEMMA RemoveJailEnds ==
  ASSUME IInv, IInv', OInv, OInv', EInv, given' = given,
         NEW c \in Jails, c = cur, RemoveJail
  PROVE  EInv'
<1> DEFINE u == Failed(Sched, c)
<1>1. pc = "command" /\ Advance
  BY DEF RemoveJail, Upcoming
<1>2. pc \in InLoop
  BY <1>1, StartNext
<1>3. Sched \in SchedType /\ Sched.seen = seen /\ "STOP" \notin flags[c]
  BY <1>2, InHandFacts
<1>4. \/ /\ up' = up \ ({c} \cup {k \in Jails : <<k, c>> \in Under})
         /\ jid' = [jid EXCEPT ![c] = -1]
         /\ Become(Sched) /\ pc' = pc /\ cur' = c
      \/ Become(u) /\ Continue /\ UNCHANGED <<jid, up>>
  BY <1>3 DEF RemoveJail
<1>5. CASE Become(u) /\ Continue /\ UNCHANGED <<jid, up>>
  <2>1. Reports(Sched, u, c) /\ u.seen = seen /\ u.queue[c] = "ready"
    BY <1>3, FailedReports
  <2> HIDE DEF u
  <2>2. pc' \notin InLoop /\ Begun' /\ queue'[c] # "cfjails"
    BY <1>5, <2>1 DEF Continue, InLoop, Begun, Become
  <2> QED
    BY <1>1, <1>5, <2>1, <2>2, AdvanceEnds
<1>6. CASE /\ up' = up \ ({c} \cup {k \in Jails : <<k, c>> \in Under})
           /\ jid' = [jid EXCEPT ![c] = -1]
           /\ Become(Sched) /\ pc' = pc /\ cur' = c
  <2>1. Reports(Sched, Sched, c)
    BY SameReports
  <2>2. /\ c \notin up' /\ Begun'
        /\ \A k \in Jails : k \in up' => k \in up
    BY <1>1, <1>6 DEF Begun
  <2> QED
    BY <1>1, <1>2, <1>3, <1>6, <2>1, <2>2, AdvanceEnds
<1> QED
  BY <1>4, <1>5, <1>6

(* Every step of the main loop keeps the promises of the end.              *)
LEMMA MainLoopEnds ==
  ASSUME IInv, IInv', OInv, OInv', SInv, EInv, given' = given, MainLoop
  PROVE  EInv'
<1>1. pc \in InLoop
  BY CurInJails
<1>2. PICK c \in Jails : c = cur
  BY <1>1 DEF IInv, Owner
<1>3. CASE SkipFailed \/ BadParams \/ RunningJid \/ FinishNothing
             \/ FinishCommand
  BY <1>2, <1>3, SkipFailedEnds, BadParamsEnds, RunningJidEnds,
     FinishNothingEnds, FinishCommandEnds
<1>4. CASE Turn \/ TurnRestart \/ NotFound \/ BeginStop \/ NotRunning
             \/ AbandonStop \/ Update
  <2>1. pc = "op"
    BY <1>4 DEF Turn, TurnRestart, NotFound, BeginStop, NotRunning,
       AbandonStop, Update, Single
  <2> QED
    BY <1>2, <1>4, <2>1, OnlyStart
<1>5. CASE Exists \/ WaitForOthers \/ BeginStart \/ AlreadyRuns \/ Resume
             \/ Done
  BY <1>2, <1>5, ExistsEnds, WaitForOthersEnds, BeginStartEnds,
     AlreadyRunsEnds, ResumeEnds, DoneEnds
<1>6. CASE WaitForSlot \/ EnterCommands \/ CommandsEnd \/ LeaveList
             \/ PassCommand \/ RunCommand \/ TermProcs \/ CreateJail
             \/ RemoveJail
  BY <1>2, <1>6, WaitForSlotEnds, EnterCommandsEnds, CommandsEndEnds,
     RunCommandEnds, NoTermProcs, CreateJailEnds, RemoveJailEnds
<1> QED
  BY <1>3, <1>4, <1>5, <1>6 DEF MainLoop

-----------------------------------------------------------------------------
(* next_jail(), the end and the steps before the main loop.                *)

(* The jail the main loop takes up is as it was left.                      *)
LEMMA TakeEnds ==
  ASSUME IInv, IInv', OInv, OInv', EInv, given' = given,
         NEW c \in Jails, queue[c] # "cfjails", pc = "next",
         NEW F \in {flags[c], flags[c] \cup {"TIMEOUT"}},
         Take(c, [flags EXCEPT ![c] = F]),
         UNCHANGED <<list, pos, jid, up>>
  PROVE  EInv'
<1> DEFINE f == [flags EXCEPT ![c] = F]
           s == [Sched EXCEPT !.flags = f]
           t == Requeue(s, {c}, "cfjails", {})
<1>1. flags \in [Jails -> SUBSET Flag]
  BY DEF IInv, TypeOK
<1>2. f \in [Jails -> SUBSET Flag]
  BY <1>1 DEF Flag
<1>3. \A k \in Jails : f[k] = flags[k] \/ f[k] = flags[k] \cup {"TIMEOUT"}
  BY <1>1
<1>4. Become(t) /\ cur' = c /\ pc' = "begin"
  BY DEF Take
<1> HIDE DEF f
<1>5. \A k \in Jails : Ops(f[k]) = Ops(flags[k])
  BY <1>3 DEF Ops, OpFlag
<1>6. \A k \in Jails : "FAILED" \in flags[k] <=> "FAILED" \in f[k]
  BY <1>3
<1>7. s \in SchedType /\ Reports(Sched, s, c) /\ s.seen = seen
  BY <1>2, <1>5, <1>6, FlagsReports
<1> HIDE DEF s
<1>8. "cfjails" \in Queue
  BY DEF Queue
<1>9. Moved(s, t, {c}, "cfjails")
  BY <1>7, <1>8, RequeueOne
<1> HIDE DEF t
<1>10. t \in SchedType /\ Reports(s, t, c) /\ t.seen = s.seen
  BY <1>9, MovedReports
<1>11. Sched \in SchedType
  BY SchedIn DEF IInv
<1>12. Reports(Sched, t, c) /\ t.seen = seen
  BY <1>7, <1>10, <1>11, ReportsTrans
<1>13. "FAILED" \in flags[c] => "FAILED" \in flags'[c]
  BY <1>4, <1>12 DEF Become, Reports, Sched
<1>14. Placed(c)' /\ (Refused(c) => Refused(c)')
  BY <1>13, StaysPlaced
<1>15. Held(c) /\ Begun /\ Begun' /\ pc \notin InLoop /\ pc # "crashed"
         /\ pc' \in InLoop /\ pc' # "done"
  BY <1>4 DEF Held, Begun, InLoop
<1> QED
  BY <1>4, <1>12, <1>14, <1>15, HeldEnds

(* next_jail() and next_proc() report nothing.                             *)
LEMMA NextJailEnds ==
  ASSUME IInv, IInv', OInv, OInv', EInv, given' = given, NEW j \in Jails,
         \/ \E bad \in BOOLEAN : CommandExits(j, bad)
         \/ CommandTimesOut(j)
         \/ NextReady(j)
  PROVE  EInv'
<1>1. /\ queue[j] # "cfjails" /\ pc = "next"
      /\ UNCHANGED <<list, pos, jid, up>>
  BY DEF CommandExits, CommandTimesOut, NextReady, coms
<1>2. flags = [flags EXCEPT ![j] = flags[j]]
  BY DEF IInv, TypeOK
<1>3. \/ Take(j, flags)
      \/ Take(j, [flags EXCEPT ![j] = flags[j] \cup {"TIMEOUT"}])
  BY DEF CommandExits, CommandTimesOut, NextReady
<1>4. CASE Take(j, flags)
  <2>1. Take(j, [flags EXCEPT ![j] = flags[j]])
    BY <1>2, <1>4
  <2> QED
    BY <1>1, <2>1, TakeEnds
<1>5. CASE Take(j, [flags EXCEPT ![j] = flags[j] \cup {"TIMEOUT"}])
  BY <1>1, <1>5, TakeEnds
<1> QED
  BY <1>3, <1>4, <1>5

(* Nor does a step that leaves the jails alone.                            *)
LEMMA QuietEnds ==
  ASSUME EInv, given' = given,
         UNCHANGED <<flags, ndeps, seen, queue, ahead, list, pos, jid, up, cur>>,
         pc' = pc \/ (pc = "next" /\ pc' = "exit")
  PROVE  EInv'
<1>1. /\ pc' \in InLoop <=> pc \in InLoop
      /\ pc' = "done" <=> pc = "done"
      /\ pc' = "crashed" <=> pc = "crashed"
      /\ Begun' <=> Begun
  BY DEF InLoop, Begun
<1>2. \A k \in Jails : Held(k)' <=> Held(k)
  BY <1>1 DEF Held
<1>3. \A k \in Jails : Placed(k) => Placed(k)'
  BY DEF Placed, Running
<1>4. \A k \in Jails : Finished(k) => Finished(k)'
  BY DEF Finished, Through, Met
<1>5. \A e \in seen : ~Held(Deps[e].to) => ~Held(Deps[e].to)'
  BY <1>1 DEF Held
<1>6. Met(cur) => Met(cur)'
  BY DEF Met
<1>7. \A k \in Jails : Sound(k) \/ Refused(k) => Sound(k)' \/ Refused(k)'
  BY DEF Sound, Refused
<1>8. Spread => Spread'
  BY <1>2, <1>7 DEF Spread, Clear, Faults
<1> QED
  BY <1>1, <1>2, <1>3, <1>4, <1>5, <1>6, <1>8 DEF EInv

(* Before the main loop no jail has been touched.                          *)
LEMMA BeforeLoopEnds ==
  ASSUME IInv, EInv, given' = given, pc \in {"setup", "loops"},
         UNCHANGED <<list, jid, up>>
  PROVE  \A k \in Jails : Placed(k)' /\ list'[k] = "NULL"
<1>1. \A k \in Jails : list[k] = "NULL"
  BY DEF IInv, Fresh
<1>2. \A k \in Jails : Placed(k)
  BY DEF EInv
<1> QED
  BY <1>1, <1>2 DEF Placed, Running

(* start_state() leaves all it marks in a queue, with no edge seen.        *)
LEMMA JailMainEnds ==
  ASSUME IInv, OInv, EInv, given' = given, given \in Given, Op = {"START"},
         JailMain
  PROVE  EInv'
<1> DEFINE S == IF Target = "all" THEN Jails ELSE Named
           ops == Op \cup (IF Target = "named" THEN {} ELSE {"WILD"})
           all == (Target = "all")
           s == [Sched EXCEPT !.seen = {}]
           t == StartState(s, S, ops, all)
<1>1. /\ pc \in {"setup", "loops"} /\ pc' = "next" /\ Become(t)
      /\ UNCHANGED <<list, jid, up>>
  BY DEF JailMain, coms
<1>2. given \in GivenType
  BY CommandLineAssumption
<1>3. S \in Group
  BY <1>2 DEF Named, GivenType, Group
<1>4. ops \in SUBSET Flag
  BY DEF Flag, OpFlag
<1>5. Sched \in SchedType /\ Sched.flags = flags
  BY SchedIn DEF IInv
<1>6. s \in SchedType /\ s.flags = flags /\ s.seen = {}
  BY <1>5 DEF SchedType
<1> HIDE DEF s, S, ops, all
<1>7. Launched(s, t, S, ops, all)
  BY <1>3, <1>4, <1>6, StartStateWhole
<1> HIDE DEF t
<1>8. \A k \in Jails : flags[k] \in SUBSET {"FAILED"}
  BY <1>1 DEF IInv, Fresh
<1>9. ASSUME NEW k \in Jails, "START" \in flags'[k]
      PROVE  Held(k)'
  <2>1. "START" \in t.flags[k]
    BY <1>1, <1>9 DEF Become
  <2>2. k \in S
    <3>1. SUFFICES ASSUME k \notin S
                   PROVE  FALSE
      OBVIOUS
    <3>2. t.flags[k] = s.flags[k]
      BY <1>7, <3>1 DEF Launched
    <3>3. flags[k] \in SUBSET {"FAILED"}
      BY <1>8
    <3> QED
      BY <1>6, <2>1, <3>2, <3>3
  <2>3. t.queue[k] \in {"depend", "ready"}
    BY <1>7, <2>2 DEF Launched
  <2> QED
    BY <1>1, <2>3 DEF Become, Held
<1>10. seen' = {}
  BY <1>1, <1>6, <1>7 DEF Become, Launched
<1>11. \A k \in Jails : Placed(k)' /\ list'[k] = "NULL"
  BY <1>1, BeforeLoopEnds
<1>12. Spread'
  BY <1>10, <1>11 DEF Spread, Clear
<1> QED
  BY <1>1, <1>9, <1>10, <1>11, <1>12 DEF EInv

-----------------------------------------------------------------------------
(* The failures of a start.                                                *)

(* The invariant holds initially                                           *)
LEMMA InitEInv == Init => EInv
<1> SUFFICES ASSUME Init
             PROVE  EInv
  OBVIOUS
<1>1. ~Begun /\ up = Running
  BY DEF Init, Begun
<1>2. \A k \in Jails : list[k] = "NULL" /\ jid[k] = 0
  BY DEF Init
<1>3. \A k \in Jails : Placed(k)
  BY <1>1, <1>2 DEF Placed
<1> QED
  BY <1>1, <1>3 DEF EInv

(* and every step of a program that is asked to start jails keeps it.      *)
LEMMA NextEInv ==
  ASSUME IInv, OInv, SInv, EInv, given \in Given, Op = {"START"}, [Next]_vars
  PROVE  EInv'
<1>1. IInv' /\ OInv' /\ given' = given
  BY NextIInv, NextOInv, GivenStays
<1>2. CASE DepSetup \/ \E j \in Jails : LoopCheck(j)
  <2>1. /\ pc \in {"setup", "loops"} /\ pc' = "loops"
        /\ UNCHANGED <<list, jid, up>>
    BY <1>2 DEF DepSetup, LoopCheck, coms
  <2>2. \A k \in Jails : Placed(k)'
    BY <1>1, <2>1, BeforeLoopEnds
  <2> QED
    BY <2>1, <2>2 DEF EInv, Begun
<1>3. CASE JailMain
  BY <1>1, <1>3, JailMainEnds
<1>4. CASE \/ \E j \in Jails, bad \in BOOLEAN : CommandExits(j, bad)
           \/ \E j \in Jails : CommandTimesOut(j)
           \/ \E j \in Jails : NextReady(j)
  <2>1. PICK j \in Jails : \/ \E bad \in BOOLEAN : CommandExits(j, bad)
                           \/ CommandTimesOut(j)
                           \/ NextReady(j)
    BY <1>4
  <2> QED
    BY <1>1, <2>1, NextJailEnds
<1>5. CASE Exit \/ UNCHANGED vars
  BY <1>1, <1>5, QuietEnds DEF Exit, vars, sched, coms
<1>6. CASE MainLoop
  BY <1>1, <1>6, MainLoopEnds
<1> QED
  BY <1>2, <1>3, <1>4, <1>5, <1>6 DEF Next

(* With -c a jail that is done with is through or has failed, those that   *)
(* depend on it have been told, and its failure has gone to all of them,   *)
(* in every state.                                                         *)
THEOREM EndsInvariance == Spec => [](Op = {"START"} => EInv)
<1>1. IInv /\ SInv /\ (Op = {"START"} => OInv) /\ (Op = {"START"} => EInv)
        /\ given \in Given /\ [Next]_vars
        => (Op = {"START"} => EInv)'
  BY NextEInv, OpStays
<1>2. Init => (Op = {"START"} => EInv)
  BY InitEInv
<1> QED
  BY <1>1, <1>2, Invariance, StopsInvariance, OrderInvariance, Rigid, PTL
  DEF Spec

(* When the program that starts jails exits with none left waiting, a jail *)
(* whose start failed is down again, unless jail_remove(2) was refused.    *)
(* run_command() goes through the start commands backwards for it.         *)
THEOREM FailedIsDown ==
  Spec => [](Op = {"START"} /\ NoLight /\ Settled => RolledBack)
<1>1. ASSUME EInv, NoLight, Settled
      PROVE  RolledBack
  <2> SUFFICES ASSUME pc = "exit", NEW j \in Jails \ Running,
                      "FAILED" \in flags[j], "remove" \notin Faults
               PROVE  j \notin up
    BY DEF RolledBack
  <2>1. Begun /\ ~Held(j)
    BY <1>1 DEF Settled, Held, InLoop, Begun
  <2>2. Placed(j) /\ Clear(j)
    BY <1>1, <2>1 DEF EInv, Spread
  <2> QED
    BY <2>1, <2>2 DEF Placed, Clear
<1>2. (Op = {"START"} => EInv)
        => (Op = {"START"} /\ NoLight /\ Settled => RolledBack)
  BY <1>1
<1> QED
  BY <1>2, EndsInvariance, PTL

(* Then what depends on a jail that failed has failed too, and was not     *)
(* created: dep_done() of the failed jail fails it, and dep_check() finds  *)
(* the failure of one that it could not tell.                              *)
THEOREM FailureGoesOn ==
  Spec => [](Op = {"START"} /\ NoLight /\ Settled => FailureSpreads)
<1>1. ASSUME EInv, NoLight, Settled
      PROVE  FailureSpreads
  <2> SUFFICES ASSUME pc = "exit", NEW e \in Edge,
                      {"START", "FAILED"} \subseteq flags[Deps[e].to]
               PROVE  LET j == Deps[e].from
                      IN  "FAILED" \in flags[j] /\ (j \in up => j \in Running)
    BY DEF FailureSpreads
  <2> DEFINE j == Deps[e].from
             d == Deps[e].to
  <2>1. j \in Jails /\ d \in Jails
    BY EdgeEnds
  <2>2. Begun /\ pc # "crashed" /\ ~Held(d)
    BY <1>1, <2>1 DEF Settled, Held, InLoop, Begun
  <2>3. Finished(d) /\ Placed(j) /\ Spread
    BY <1>1, <2>1, <2>2 DEF EInv
  <2>4. e \in seen
    BY <2>3 DEF Finished
  <2>5. "FAILED" \in flags[j]
    BY <2>3, <2>4 DEF Spread
  <2>6. ~Sound(j)
    BY DEF Sound, Needs
  <2>7. list[j] # "NULL" => Refused(j)
    BY <2>1, <2>3, <2>6 DEF Spread, Clear
  <2>8. j \in up => j \in Running
    BY <2>3, <2>7 DEF Refused, Placed
  <2> QED
    BY <2>5, <2>8
<1>2. (Op = {"START"} => EInv)
        => (Op = {"START"} /\ NoLight /\ Settled => FailureSpreads)
  BY <1>1
<1> QED
  BY <1>2, EndsInvariance, PTL

-----------------------------------------------------------------------------
(* What the exit status tells.                                             *)

(* A failure has set the exit status, or next_jail() will give one of the  *)
(* jails that have failed to the main loop, which does.                    *)
Heard ==
  (\E k \in Jails : "FAILED" \in flags[k]) =>
    \/ error
    \/ \E k \in Jails : /\ "FAILED" \in flags[k]
                        /\ queue[k] # "cfjails" \/ (k = cur /\ pc = "begin")

(* With one operation for all jails none is drawn in by dep_check().       *)
HInv == Begun => Heard /\ \A k \in Jails : "DEPEND" \notin flags[k]

(* A jail that is removed, or set, is where "jail -r" or "jail -m" wants   *)
(* it to be.                                                               *)
Reached(k) ==
  IF Op = {"STOP"} THEN jid[k] = -1 ELSE jid[k] = 1 /\ k \notin Rdtun

(* A jail that stops is looked up before its commands run and again when   *)
(* it has been removed; the jid of a jail that is set is the kernel's.     *)
Sighted(k) ==
  IF Op = {"STOP"}
    THEN /\ jid[k] = -1 => k \notin up
         /\ list[k] # "start"
         /\ list[k] = "stop" /\ pos[k] >= 4 /\ "FAILED" \notin flags[k] => jid[k] = -1
    ELSE /\ jid[k] = 1 => k \in up
         /\ list[k] = "NULL"

RInv ==
  /\ \A k \in Jails : Sighted(k)
  /\ Begun /\ pc # "crashed" =>
       \A k \in Jails : ~Held(k) => "FAILED" \in flags[k] \/ Reached(k)
  /\ pc = "done" => "FAILED" \in flags[cur] \/ Reached(cur)
  /\ pc \in InLoop \ {"begin"} => jid[cur] # 0

(* From s to t none has failed that is the first, and none is drawn in.    *)
Tame(s, t) ==
  /\ (\E k \in Jails : "FAILED" \in t.flags[k]) =>
       \E k \in Jails : "FAILED" \in s.flags[k]
  /\ \A k \in Jails : "DEPEND" \in t.flags[k] => "DEPEND" \in s.flags[k]

(* The first jail that fails is c, and next_jail() will give it back.      *)
News(c) ==
  /\ (\E k \in Jails : "FAILED" \in flags'[k]) =>
       \/ \E k \in Jails : "FAILED" \in flags[k]
       \/ "FAILED" \in flags'[c] /\ queue'[c] # "cfjails"
  /\ \A k \in Jails : "DEPEND" \in flags'[k] => "DEPEND" \in flags[k]

(* What comes with neither mark is tame,                                   *)
LEMMA SameTame ==
  ASSUME NEW s, NEW t,
         \A k \in Jails : /\ "FAILED" \in t.flags[k] => "FAILED" \in s.flags[k]
                          /\ "DEPEND" \in t.flags[k] => "DEPEND" \in s.flags[k]
  PROVE  Tame(s, t)
BY DEF Tame

(* and so are two changes that are.                                        *)
LEMMA TameTrans ==
  ASSUME NEW s, NEW t, NEW u, Tame(s, t), Tame(t, u)
  PROVE  Tame(s, u)
BY DEF Tame

(* dep_done() fails jails only for one that has failed.                    *)
LEMMA DepDoneTame ==
  ASSUME NEW s \in SchedType, NEW c \in Jails, NEW light \in BOOLEAN
  PROVE  Tame(s, DepDone(s, c, light, FALSE))
<1> DEFINE t == DepDone(s, c, light, FALSE)
<1>1. Announced(s, t, c, light, FALSE)
  BY DepDoneWhole
<1> HIDE DEF t
<1>2. ASSUME NEW k \in Jails
      PROVE  \/ t.flags[k] = s.flags[k]
             \/ t.flags[k] = s.flags[k] \cup {"FAILED"} /\ "FAILED" \in s.flags[c]
  BY <1>1 DEF Announced, Spreads
<1>3. \A k \in Jails : "DEPEND" \in t.flags[k] => "DEPEND" \in s.flags[k]
  BY <1>2
<1>4. (\E k \in Jails : "FAILED" \in t.flags[k]) =>
        \E k \in Jails : "FAILED" \in s.flags[k]
  BY <1>2
<1> QED
  BY <1>3, <1>4 DEF Tame, t

(* dep_check() fails a jail only for one that has failed, and draws no     *)
(* jail in that has an operation.                                          *)
LEMMA DepCheckTame ==
  ASSUME NEW s \in SchedType, NEW c \in Jails,
         \A k \in Jails : Ops(s.flags[k]) # {}
  PROVE  Tame(s, DepCheck(s, c))
<1> DEFINE t == DepCheck(s, c)
<1>1. Drew(s, t, c)
  BY DepCheckWhole
<1> HIDE DEF t
<1>2. Idlers(s, c) = {}
  BY CalledJails DEF Idlers
<1>3. ASSUME NEW k \in Jails
      PROVE  LET d == IF k \in Called(s, c) THEN Drawn(s.flags[c], s.flags[k])
                                            ELSE s.flags[k]
             IN  t.flags[k] = d \cup (IF k = c /\ Lost(s, c) THEN {"FAILED"} ELSE {})
  BY <1>1, <1>2 DEF Drew, NewFlags
<1>4. ASSUME NEW k \in Jails
      PROVE  LET d == Drawn(s.flags[c], s.flags[k])
             IN  /\ "DEPEND" \in d => "DEPEND" \in s.flags[k]
                 /\ "FAILED" \in d => "FAILED" \in s.flags[k]
  BY DEF Drawn
<1>5. Lost(s, c) => \E k \in Jails : "FAILED" \in s.flags[k]
  BY CalledJails, FarJail DEF Lost
<1> HIDE DEF Lost
<1>6. ASSUME NEW k \in Jails
      PROVE  /\ "DEPEND" \in t.flags[k] => "DEPEND" \in s.flags[k]
             /\ "FAILED" \in t.flags[k] => "FAILED" \in s.flags[k] \/ Lost(s, c)
  BY <1>3, <1>4
<1> QED
  BY <1>5, <1>6 DEF Tame, t

(* A tame change of the scheduler brings no news,                          *)
LEMMA TameStep ==
  ASSUME TypeOK, NEW t, Become(t), Tame(Sched, t), NEW c
  PROVE  News(c)
<1>1. flags' = t.flags /\ Sched.flags = flags
  BY SchedIn DEF Become
<1> QED
  BY <1>1 DEF Tame, News

(* and failed() after one says that the jail has failed.                   *)
LEMMA TameFails ==
  ASSUME TypeOK, NEW u \in SchedType, NEW c \in Jails, Tame(Sched, u),
         Become(Failed(u, c))
  PROVE  News(c)
<1> DEFINE t == Failed(u, c)
<1>1. /\ t \in SchedType
      /\ t.flags = [u.flags EXCEPT ![c] = @ \cup {"FAILED"}]
      /\ t.queue[c] = "ready"
  BY FailedFacts
<1> HIDE DEF t
<1>2. u.flags \in [Jails -> SUBSET Flag] /\ Sched.flags = flags
  BY SchedIn DEF SchedType
<1>3. flags' = t.flags /\ queue' = t.queue
  BY DEF Become, t
<1>4. \A k \in Jails : flags'[k] = IF k = c THEN u.flags[k] \cup {"FAILED"}
                                           ELSE u.flags[k]
  BY <1>1, <1>2, <1>3
<1>5. "FAILED" \in flags'[c] /\ queue'[c] # "cfjails"
  BY <1>1, <1>3, <1>4
<1>6. ASSUME NEW k \in Jails, "DEPEND" \in flags'[k]
      PROVE  "DEPEND" \in flags[k]
  <2>0. \/ flags'[k] = u.flags[k]
        \/ flags'[k] = u.flags[k] \cup {"FAILED"}
    BY <1>4
  <2> HIDE DEF t
  <2>1. "DEPEND" \in u.flags[k]
    BY <1>6, <2>0
  <2> QED
    BY <1>2, <2>1 DEF Tame
<1> QED
  BY <1>5, <1>6 DEF News

(* Nor does a step that keeps both marks as they are.                      *)
LEMMA QuietNews ==
  ASSUME NEW c,
         \A k \in Jails : /\ "FAILED" \in flags'[k] => "FAILED" \in flags[k]
                          /\ "DEPEND" \in flags'[k] => "DEPEND" \in flags[k]
  PROVE  News(c)
BY DEF News

(* The head of the main loop lets a jail fail only by failed().            *)
LEMMA HeadNews ==
  ASSUME IInv, NEW c \in Jails, c = cur,
         SkipFailed \/ BadParams \/ RunningJid \/ FinishNothing
           \/ FinishCommand
  PROVE  News(c)
<1>1. TypeOK /\ Sched \in SchedType /\ Sched.flags = flags
  BY SchedIn DEF IInv
<1>2. flags \in [Jails -> SUBSET Flag]
  BY <1>1 DEF TypeOK
<1>3. CASE SkipFailed
  <2>1. Become(DepDone(Sched, c, FALSE, FALSE))
    BY <1>3 DEF SkipFailed
  <2>2. Tame(Sched, DepDone(Sched, c, FALSE, FALSE))
    BY <1>1, DepDoneTame
  <2> QED
    BY <1>1, <2>1, <2>2, TameStep
<1>4. \A k \in Jails :
        /\ "FAILED" \in WithParams[k] => "FAILED" \in flags[k]
        /\ "DEPEND" \in WithParams[k] => "DEPEND" \in flags[k]
  <2>1. \A k \in Jails : WithParams[k] = IF k = c THEN flags[k] \cup {"PARAMS"}
                                                 ELSE flags[k]
    BY <1>2 DEF WithParams
  <2>2. \A k \in Jails : \/ WithParams[k] = flags[k]
                         \/ WithParams[k] = flags[k] \cup {"PARAMS"}
    BY <2>1
  <2> HIDE DEF WithParams
  <2> QED
    BY <2>2
<1>5. CASE BadParams
  <2> DEFINE u == [Sched EXCEPT !.flags = WithParams]
  <2>1. u \in SchedType /\ u.flags = WithParams
    BY WithParamsFacts
  <2>2. Become(Failed(u, c))
    BY <1>5 DEF BadParams
  <2> HIDE DEF u, WithParams
  <2>3. Tame(Sched, u)
    BY <1>1, <1>4, <2>1, SameTame
  <2> QED
    BY <1>1, <2>1, <2>2, <2>3, TameFails
<1>6. CASE RunningJid
  BY <1>4, <1>6, QuietNews DEF RunningJid
<1>7. \A k \in Jails :
        /\ "FAILED" \in Awake[k] => "FAILED" \in flags[k]
        /\ "DEPEND" \in Awake[k] => "DEPEND" \in flags[k]
  <2>1. \A k \in Jails : Awake[k] = IF k = c THEN flags[k] \ {"SLEEPQ", "TIMEOUT"}
                                            ELSE flags[k]
    BY <1>2 DEF Awake
  <2> QED
    BY <2>1
<1>8. CASE FinishNothing
  <2>1. flags' = flags \/ flags' = Awake
    BY <1>8 DEF FinishNothing
  <2> HIDE DEF Awake
  <2> QED
    BY <1>7, <2>1, QuietNews
<1>9. CASE FinishCommand
  <2> DEFINE s == [Sched EXCEPT !.flags = Awake]
             u == WakeRunnable(s)
  <2>1. s \in SchedType /\ s.flags = Awake
    BY AwakeFacts
  <2>2. Become(Failed(u, c)) \/ Become(u)
    BY <1>9 DEF FinishCommand
  <2> HIDE DEF s, Awake
  <2>3. Tame(Sched, s)
    BY <1>1, <1>7, <2>1, SameTame
  <2>4. Woke(s, u)
    BY <2>1, WakeRunnableWhole
  <2> HIDE DEF u
  <2>5. /\ u \in SchedType
        /\ \A k \in Jails : \/ u.flags[k] = s.flags[k]
                            \/ u.flags[k] = s.flags[k] \cup {"FROM_RUNQ"}
    BY <2>4 DEF Woke
  <2>6. Tame(s, u)
    BY <2>5, SameTame
  <2>7. Tame(Sched, u)
    BY <2>3, <2>6, TameTrans
  <2> QED
    BY <1>1, <2>2, <2>5, <2>7, TameStep, TameFails
<1> QED
  BY <1>3, <1>5, <1>6, <1>8, <1>9

(* So does the operation of a jail,                                        *)
LEMMA OperationNews ==
  ASSUME IInv, WInv, Whole, NEW c \in Jails, c = cur,
         Exists \/ NotFound \/ WaitForOthers
           \/ BeginStart \/ BeginStop \/ AlreadyRuns \/ NotRunning
           \/ AbandonStop \/ Resume \/ Update
  PROVE  News(c)
<1>1. pc = "op" /\ pc \in InLoop
  BY DEF Exists, NotFound, WaitForOthers, BeginStart,
     BeginStop, AlreadyRuns, NotRunning, AbandonStop, Resume, Update,
     Unblocked, MayCheck, Single, InLoop
<1>2. /\ TypeOK /\ Sched \in SchedType /\ Counted(Sched, Op)
      /\ Sched.flags = flags /\ Op \in Single1
  BY <1>1, WholeFacts
<1>3. Tame(Sched, Sched)
  BY DEF Tame
<1>4. CASE Exists \/ NotFound
  <2>1. Become(Failed(Sched, c))
    BY <1>4 DEF Exists, NotFound, Refuse
  <2> QED
    BY <1>2, <1>3, <2>1, TameFails
<1>5. CASE AbandonStop \/ Resume
  <2>1. flags' = flags
    BY <1>5 DEF AbandonStop, Resume, sched
  <2> QED
    BY <2>1, QuietNews
<1> DEFINE t == DepCheck(Sched, c)
<1>6. Tame(Sched, t)
  <2>1. \A k \in Jails : Ops(Sched.flags[k]) # {}
    BY <1>2 DEF Counted, Single1
  <2> QED
    BY <1>2, <2>1, DepCheckTame
<1>7. t \in SchedType
  BY <1>2, DepCheckWhole DEF Drew
<1>8. Become(t) \/ Become(Failed(t, c))
      \/ ~(WaitForOthers \/ BeginStart \/ BeginStop \/ AlreadyRuns
             \/ NotRunning \/ Update)
  BY DEF WaitForOthers, BeginStart, BeginStop, Begin, AlreadyRuns, NotRunning,
     Update
<1>9. CASE WaitForOthers \/ BeginStart \/ BeginStop \/ AlreadyRuns
             \/ NotRunning \/ Update
  <2> HIDE DEF t
  <2> QED
    BY <1>2, <1>6, <1>7, <1>8, <1>9, TameStep, TameFails
<1> QED
  BY <1>4, <1>5, <1>9

(* With one operation for all jails none changes its operation, and none   *)
(* is to be restarted.                                                     *)
LEMMA WholeTurns ==
  ASSUME IInv, WInv, Whole, NEW c \in Jails, c = cur, pc \in InLoop
  PROVE  /\ ~Turn /\ ~TurnRestart
         /\ Done => Become(DepDone(Sched, c, FALSE, FALSE)) /\ list' = list
<1>1. /\ Sched \in SchedType /\ Sched.flags = flags
      /\ Ops(flags[c]) = Op /\ Op \in Single1
  BY WholeFacts
<1>2. ~Turn /\ ~TurnRestart
  <2>1. /\ "START" \in flags[c] <=> "START" \in Op
        /\ "SET" \in flags[c] <=> "SET" \in Op
    BY <1>1, InOps DEF OpFlag
  <2>2. ~({"START", "SET"} \subseteq flags[c]) /\ Ops(flags[c]) # {"SET", "STOP"}
    BY <1>1, <2>1 DEF Single1
  <2> QED
    BY <2>2 DEF Turn, TurnRestart
<1> DEFINE t == DepDone(Sched, c, FALSE, FALSE)
<1>3. ~({"START", "STOP"} \subseteq t.flags[c])
  <2>1. Alike(Sched, t)
    BY <1>1, DepDoneAlike
  <2> HIDE DEF t
  <2>2. Ops(t.flags[c]) = Op
    BY <1>1, <2>1 DEF Alike
  <2>3. /\ "START" \in t.flags[c] <=> "START" \in Op
        /\ "STOP" \in t.flags[c] <=> "STOP" \in Op
    BY <2>2, InOps DEF OpFlag
  <2> QED
    BY <1>1, <2>3 DEF Single1
<1>4. Done => Become(t) /\ list' = list
  BY <1>3 DEF Done
<1> QED
  BY <1>2, <1>4

(* and so do its commands.                                                 *)
LEMMA CommandNews ==
  ASSUME IInv, NEW c \in Jails, c = cur,
         WaitForSlot \/ EnterCommands \/ CommandsEnd \/ LeaveList
           \/ PassCommand \/ RunCommand \/ TermProcs \/ CreateJail
           \/ RemoveJail
  PROVE  News(c)
<1>1. TypeOK /\ Sched \in SchedType /\ Sched.flags = flags
  BY SchedIn DEF IInv
<1>2. flags \in [Jails -> SUBSET Flag]
  BY <1>1 DEF TypeOK
<1>3. Tame(Sched, Sched)
  BY DEF Tame
<1>4. CASE WaitForSlot
  <2>1. \/ Become(RequeueHead(Sched, c, "runnable"))
        \/ Become(Requeue(Sched, {c}, "runnable", {}))
    BY <1>4 DEF WaitForSlot
  <2>2. "runnable" \in Queue
    BY DEF Queue
  <2>3. PICK t : Moved(Sched, t, {c}, "runnable") /\ Become(t)
    BY <1>1, <2>1, <2>2, RequeueOne, RequeueHeadFacts
  <2>4. Tame(Sched, t)
    BY <2>3, SameTame DEF Moved
  <2> QED
    BY <1>1, <2>3, <2>4, TameStep
<1>5. CASE EnterCommands
  <2>1. flags' = [flags EXCEPT ![c] = @ \ {"FROM_RUNQ"}]
    BY <1>5 DEF EnterCommands
  <2>2. \A k \in Jails : flags'[k] = IF k = c THEN flags[k] \ {"FROM_RUNQ"}
                                              ELSE flags[k]
    BY <1>2, <2>1
  <2> QED
    BY <2>2, QuietNews
<1>6. CASE CommandsEnd \/ LeaveList \/ PassCommand
  <2>1. flags' = flags
    BY <1>6 DEF CommandsEnd, LeaveList, PassCommand, sched
  <2> QED
    BY <2>1, QuietNews
<1> DEFINE f == [flags EXCEPT ![c] = @ \cup {"SLEEPQ"}]
           t == Requeue([Sched EXCEPT !.flags = f], {c}, "sleeping", {})
<1>7. /\ t \in SchedType /\ t.flags = f
      /\ \A k \in Jails : f[k] = flags[k] \/ f[k] = flags[k] \cup {"SLEEPQ"}
  BY <1>1, <1>2, SleepFacts
<1>8. Tame(Sched, t)
  <2> HIDE DEF t, f
  <2> QED
    BY <1>1, <1>7, SameTame
<1>9. CASE RunCommand
  <2>1. Become(t) \/ Become(Failed(Sched, c))
    BY <1>9 DEF RunCommand
  <2> HIDE DEF t
  <2> QED
    BY <1>1, <1>3, <1>8, <2>1, TameStep, TameFails
<1>10. CASE TermProcs
  <2>1. Become(t) \/ flags' = flags
    BY <1>10 DEF TermProcs, sched
  <2> HIDE DEF t
  <2> QED
    BY <1>1, <1>8, <2>1, TameStep, QuietNews
<1>11. CASE CreateJail \/ RemoveJail
  <2> DEFINE u == DepDone(Sched, c, TRUE, FALSE)
  <2>1. Become(u) \/ Become(Sched) \/ Become(Failed(Sched, c))
    BY <1>11 DEF CreateJail, RemoveJail
  <2>2. Tame(Sched, u)
    BY <1>1, DepDoneTame
  <2> HIDE DEF u
  <2> QED
    BY <1>1, <1>3, <2>1, <2>2, TameStep, TameFails
<1> QED
  BY <1>4, <1>5, <1>6, <1>9, <1>10, <1>11

(* No jail fails, or is drawn in, by a step of the main loop otherwise.    *)
LEMMA MainLoopNews ==
  ASSUME IInv, WInv, Whole, MainLoop
  PROVE  pc \in InLoop /\ cur \in Jails /\ News(cur)
<1>1. pc \in InLoop
  BY CurInJails
<1>2. PICK c \in Jails : c = cur
  BY <1>1 DEF IInv, Owner
<1>3. /\ ~Turn /\ ~TurnRestart
      /\ Done => Become(DepDone(Sched, c, FALSE, FALSE)) /\ list' = list
  BY <1>1, <1>2, WholeTurns
<1>4. ASSUME SkipFailed \/ BadParams \/ RunningJid \/ FinishNothing
               \/ FinishCommand
      PROVE  News(c)
  BY <1>2, <1>4, HeadNews
<1>5. ASSUME Exists \/ NotFound \/ WaitForOthers
               \/ BeginStart \/ BeginStop \/ AlreadyRuns \/ NotRunning
               \/ AbandonStop \/ Resume \/ Update
      PROVE  News(c)
  BY <1>2, <1>5, OperationNews
<1>6. ASSUME Done
      PROVE  News(c)
  <2>1. TypeOK /\ Sched \in SchedType
    BY SchedIn DEF IInv
  <2>2. Tame(Sched, DepDone(Sched, c, FALSE, FALSE))
    BY <2>1, DepDoneTame
  <2> QED
    BY <1>3, <1>6, <2>1, <2>2, TameStep
<1>7. ASSUME WaitForSlot \/ EnterCommands \/ CommandsEnd \/ LeaveList
               \/ PassCommand \/ RunCommand \/ TermProcs \/ CreateJail
               \/ RemoveJail
      PROVE  News(c)
  BY <1>2, <1>7, CommandNews
<1> QED
  BY <1>1, <1>2, <1>3, <1>4, <1>5, <1>6, <1>7 DEF MainLoop

(* No step of the main loop takes the exit status back, and the head of    *)
(* the loop sets it for a jail that has failed.                            *)
LEMMA ErrorTold ==
  ASSUME TypeOK, MainLoop
  PROVE  /\ error => error'
         /\ pc = "begin" /\ "FAILED" \in flags[cur] => error'
<1>1. CASE SkipFailed \/ BadParams \/ RunningJid
  BY <1>1 DEF SkipFailed, BadParams, RunningJid
<1>2. ASSUME ~(SkipFailed \/ BadParams \/ RunningJid)
      PROVE  error' = error /\ pc # "begin"
  BY <1>2 DEF MainLoop, FinishNothing, FinishCommand, Turn, TurnRestart,
     TurnInto, Refuse, Exists, NotFound, WaitForOthers, BeginStart, BeginStop,
     Begin, AlreadyRuns, NotRunning, AbandonStop, Resume, Update, Done,
     WaitForSlot, EnterCommands, CommandsEnd, LeaveList, PassCommand,
     RunCommand, TermProcs, CreateJail, RemoveJail, Unblocked, MayCheck,
     Single, Upcoming
<1> QED
  BY <1>1, <1>2

(* next_jail() changes no mark but that of the time-out.                   *)
LEMMA JailTaken ==
  ASSUME TypeOK, NEW j \in Jails,
         \/ \E bad \in BOOLEAN : CommandExits(j, bad)
         \/ CommandTimesOut(j)
         \/ NextReady(j)
  PROVE  /\ pc = "next" /\ pc' = "begin" /\ cur' = j
         /\ \A k \in Jails :
              /\ queue'[k] = IF k = j THEN "cfjails" ELSE queue[k]
              /\ "FAILED" \in flags'[k] <=> "FAILED" \in flags[k]
              /\ "DEPEND" \in flags'[k] <=> "DEPEND" \in flags[k]
         /\ UNCHANGED <<list, pos, jid, error, up>>
<1>1. flags \in [Jails -> SUBSET Flag]
  BY DEF TypeOK
<1>2. PICK F \in {flags[j], flags[j] \cup {"TIMEOUT"}} :
        Take(j, [flags EXCEPT ![j] = F])
  <2>1. flags = [flags EXCEPT ![j] = flags[j]]
    BY <1>1
  <2>2. \/ Take(j, flags)
        \/ Take(j, [flags EXCEPT ![j] = flags[j] \cup {"TIMEOUT"}])
    BY DEF CommandExits, CommandTimesOut, NextReady
  <2> QED
    BY <2>1, <2>2
<1> DEFINE f == [flags EXCEPT ![j] = F]
           s == [Sched EXCEPT !.flags = f]
           t == Requeue(s, {j}, "cfjails", {})
<1>3. f \in [Jails -> SUBSET Flag]
  BY <1>1 DEF Flag
<1>4. \A k \in Jails : f[k] = flags[k] \/ f[k] = flags[k] \cup {"TIMEOUT"}
  BY <1>1
<1>5. Become(t) /\ cur' = j /\ pc' = "begin"
  BY <1>2 DEF Take
<1> HIDE DEF f
<1>6. s \in SchedType /\ s.flags = f /\ s.queue = queue
  BY <1>3, SchedFlags
<1> HIDE DEF s
<1>7. "cfjails" \in Queue
  BY DEF Queue
<1>8. Moved(s, t, {j}, "cfjails")
  BY <1>6, <1>7, RequeueOne
<1> HIDE DEF t
<1>9. /\ flags' = f
      /\ \A k \in Jails : queue'[k] = IF k = j THEN "cfjails" ELSE queue[k]
  BY <1>5, <1>6, <1>8 DEF Moved, Become
<1>10. \A k \in Jails :
         /\ "FAILED" \in flags'[k] <=> "FAILED" \in flags[k]
         /\ "DEPEND" \in flags'[k] <=> "DEPEND" \in flags[k]
  BY <1>4, <1>9
<1>11. pc = "next" /\ UNCHANGED <<list, pos, jid, error, up>>
  BY DEF CommandExits, CommandTimesOut, NextReady, coms
<1> QED
  BY <1>5, <1>9, <1>10, <1>11

(* A step of the main loop keeps the failures in sight.                    *)
LEMMA MainLoopHeard ==
  ASSUME IInv, WInv, Whole, HInv, MainLoop, Kept
  PROVE  HInv'
<1>1. pc \in InLoop /\ cur \in Jails /\ News(cur)
  BY MainLoopNews
<1>2. /\ Others(cur)
      /\ pc = "done" /\ queue[cur] # "cfjails" => queue'[cur] # "cfjails"
  BY MainLoopCounts
<1>3. /\ error => error'
      /\ pc = "begin" /\ "FAILED" \in flags[cur] => error'
  BY ErrorTold DEF IInv
<1>4. Heard /\ \A k \in Jails : "DEPEND" \notin flags[k]
  BY <1>1 DEF HInv, Begun, InLoop
<1>5. \A k \in Jails : "DEPEND" \notin flags'[k]
  BY <1>1, <1>4 DEF News
<1>6. ASSUME NEW i \in Jails, "FAILED" \in flags'[i], ~error'
      PROVE  \E k \in Jails : /\ "FAILED" \in flags'[k]
                              /\ queue'[k] # "cfjails"
  <2>1. CASE \E k \in Jails : "FAILED" \in flags[k]
    <3>1. PICK k \in Jails : /\ "FAILED" \in flags[k]
                             /\ queue[k] # "cfjails" \/ (k = cur /\ pc = "begin")
      BY <1>3, <1>4, <1>6, <2>1 DEF Heard
    <3>2. queue[k] # "cfjails"
      BY <1>3, <1>6, <3>1
    <3>3. "FAILED" \in flags'[k]
      BY <3>1 DEF Kept
    <3>4. k = cur => pc = "done"
      BY <1>1, <3>2 DEF IInv, Owner
    <3>5. queue'[k] # "cfjails"
      BY <1>2, <3>2, <3>4 DEF Others
    <3> QED
      BY <3>3, <3>5
  <2>2. CASE ~\E k \in Jails : "FAILED" \in flags[k]
    BY <1>1, <1>6, <2>2 DEF News
  <2> QED
    BY <2>1, <2>2
<1> QED
  BY <1>5, <1>6 DEF HInv, Heard

(* When the main loop begins every jail will be given to it.               *)
LEMMA JailMainHeard ==
  ASSUME IInv, WInv, Whole, given \in Given, JailMain
  PROVE  HInv' /\ \A k \in Jails : queue'[k] # "cfjails"
<1> DEFINE S == IF Target = "all" THEN Jails ELSE Named
           ops == Op \cup (IF Target = "named" THEN {} ELSE {"WILD"})
           s == [Sched EXCEPT !.seen = {}]
           t == StartState(s, S, ops, Target = "all")
<1>1. Become(t)
  BY DEF JailMain
<1>2. S = Jails /\ ops = Op \cup {"WILD"} /\ (Target = "all") = TRUE
  BY DEF Whole
<1>3. ops \in SUBSET Flag /\ "DEPEND" \notin ops
  BY <1>2 DEF Whole, Single1, OpFlag, Flag
<1>4. Sched \in SchedType
  BY SchedIn DEF IInv
<1>5. s \in SchedType
  BY <1>4 DEF SchedType
<1>6. Jails \in Group
  BY DEF Group
<1> HIDE DEF s, S, ops
<1>7. t = StartState(s, Jails, ops, TRUE)
  BY <1>2
<1> HIDE DEF t
<1>8. Launched(s, t, Jails, ops, TRUE)
  BY <1>3, <1>5, <1>6, <1>7, StartStateWhole
<1>9. ASSUME NEW k \in Jails
      PROVE  /\ t.flags[k] = (s.flags[k] \cap {"FAILED"}) \cup ops
             /\ t.queue[k] \in {"depend", "ready"}
  BY <1>8 DEF Launched
<1>10. flags' = t.flags /\ queue' = t.queue
  BY <1>1 DEF Become
<1>11. \A k \in Jails : "DEPEND" \notin flags'[k] /\ queue'[k] # "cfjails"
  BY <1>3, <1>9, <1>10
<1> QED
  BY <1>11 DEF HInv, Heard

(* So every step of a program that has one operation for all jails keeps   *)
(* them in sight.                                                          *)
LEMMA NextHInv ==
  ASSUME IInv, WInv, Whole, HInv, given \in Given, [Next]_vars
  PROVE  HInv'
<1>1. Kept
  BY NextIInv
<1>2. CASE DepSetup \/ \E j \in Jails : LoopCheck(j)
  <2>1. pc' = "loops"
    BY <1>2 DEF DepSetup, LoopCheck
  <2> QED
    BY <2>1 DEF HInv, Begun
<1>3. CASE JailMain
  BY <1>3, JailMainHeard
<1>4. CASE \/ \E j \in Jails, bad \in BOOLEAN : CommandExits(j, bad)
           \/ \E j \in Jails : CommandTimesOut(j)
           \/ \E j \in Jails : NextReady(j)
  <2>1. PICK j \in Jails : \/ \E bad \in BOOLEAN : CommandExits(j, bad)
                           \/ CommandTimesOut(j)
                           \/ NextReady(j)
    BY <1>4
  <2>2. /\ pc = "next" /\ pc' = "begin" /\ cur' = j /\ error' = error
        /\ \A k \in Jails :
             /\ queue'[k] = IF k = j THEN "cfjails" ELSE queue[k]
             /\ "FAILED" \in flags'[k] <=> "FAILED" \in flags[k]
             /\ "DEPEND" \in flags'[k] <=> "DEPEND" \in flags[k]
    BY <2>1, JailTaken DEF IInv
  <2>3. Heard /\ \A k \in Jails : "DEPEND" \notin flags[k]
    BY <2>2 DEF HInv, Begun
  <2>4. Heard'
    BY <2>2, <2>3 DEF Heard
  <2> QED
    BY <2>2, <2>3, <2>4 DEF HInv
<1>5. CASE Exit \/ UNCHANGED vars
  <2>1. /\ flags' = flags /\ queue' = queue /\ error' = error /\ cur' = cur
        /\ pc' = pc \/ (pc = "next" /\ pc' = "exit")
    BY <1>5 DEF Exit, vars, sched
  <2>2. Heard => Heard'
    BY <2>1 DEF Heard
  <2> QED
    BY <2>1, <2>2 DEF HInv, Begun
<1>6. CASE MainLoop
  BY <1>1, <1>6, MainLoopHeard
<1> QED
  BY <1>2, <1>3, <1>4, <1>5, <1>6 DEF Next

-----------------------------------------------------------------------------
(* The end of a stop, and of a set.                                        *)

(* It is enough to look at the jail the loop holds.                        *)
LEMMA ReachStep ==
  ASSUME RInv, Op # {"START"}, given' = given, Kept,
         NEW c \in Jails, c = cur, pc \in InLoop, Others(c), Begun',
         \A k \in Jails \ {c} : /\ list'[k] = list[k] /\ pos'[k] = pos[k]
                                /\ jid'[k] = jid[k],
         up' = up \/ (Op = {"STOP"} /\ up' \subseteq up),
         cur' = c \/ pc' \notin InLoop,
         Sighted(c)',
         pc' \in InLoop \ {"begin"} => jid'[c] # 0,
         \/ "FAILED" \in flags'[c]
         \/ Reached(c)'
         \/ pc' # "done" /\ (Held(c)' \/ pc' = "crashed")
  PROVE  RInv'
<1>1. Op' = Op /\ Rdtun' = Rdtun
  BY DEF Op, Rdtun
<1>2. Begun /\ pc # "crashed"
  BY DEF Begun, InLoop
<1>3. ASSUME NEW k \in Jails \ {c}
      PROVE  Sighted(k)'
  <2>1. Sighted(k) /\ ("FAILED" \in flags[k] => "FAILED" \in flags'[k])
    BY DEF RInv, Kept
  <2> QED
    BY <1>1, <2>1 DEF Sighted
<1>4. ASSUME NEW k \in Jails \ {c}, ~Held(k)'
      PROVE  "FAILED" \in flags'[k] \/ Reached(k)'
  <2>1. queue[k] = "cfjails"
    BY <1>4 DEF Held, Others
  <2>2. ~Held(k)
    BY <2>1 DEF Held
  <2>3. "FAILED" \in flags[k] \/ Reached(k)
    BY <1>2, <2>2 DEF RInv
  <2>4. Reached(k) => Reached(k)'
    BY <1>1 DEF Reached
  <2> QED
    BY <2>3, <2>4 DEF Kept
<1>5. \A k \in Jails : Sighted(k)'
  BY <1>3
<1>6. Begun' /\ pc' # "crashed" =>
        \A k \in Jails : ~Held(k)' => "FAILED" \in flags'[k] \/ Reached(k)'
  <2>1. pc' # "crashed" /\ ~Held(c)' => "FAILED" \in flags'[c] \/ Reached(c)'
    OBVIOUS
  <2> QED
    BY <1>4, <2>1
<1>7. pc' = "done" => "FAILED" \in flags'[c] \/ Reached(c)'
  OBVIOUS
<1>8. pc' = "done" => cur' = c
  BY DEF InLoop
<1>9. pc' = "done" => "FAILED" \in flags'[cur'] \/ Reached(cur)'
  BY <1>7, <1>8 DEF Reached
<1>10. pc' \in InLoop \ {"begin"} => jid'[cur'] # 0
  OBVIOUS
<1> QED
  BY <1>5, <1>6, <1>9, <1>10 DEF RInv

(* A step that runs no command and looks nothing up: the jail goes on, is  *)
(* in a queue or has failed.                                               *)
LEMMA CalmReach ==
  ASSUME RInv, Op # {"START"}, given' = given, Kept,
         NEW c \in Jails, c = cur, pc \in InLoop \ {"begin"} \/ Continue,
         pc \in InLoop, Others(c), Begun',
         UNCHANGED <<coms, jid, up>>,
         cur' = c \/ pc' \notin InLoop,
         \/ "FAILED" \in flags'[c]
         \/ pc' # "done" /\ (Held(c)' \/ pc' = "crashed")
         \/ Reached(c)
  PROVE  RInv'
<1>1. /\ list' = list /\ pos' = pos /\ jid' = jid /\ up' = up
      /\ Op' = Op /\ Rdtun' = Rdtun
  BY DEF coms, Op, Rdtun
<1>2. Sighted(c)'
  <2>1. Sighted(c) /\ ("FAILED" \in flags[c] => "FAILED" \in flags'[c])
    BY DEF RInv, Kept
  <2> QED
    BY <1>1, <2>1 DEF Sighted
<1>3. pc' \in InLoop \ {"begin"} => jid'[c] # 0
  BY <1>1 DEF RInv, Continue, InLoop
<1>4. Reached(c) => Reached(c)'
  BY <1>1 DEF Reached
<1> QED
  BY <1>1, <1>2, <1>3, <1>4, ReachStep

(* A jail that fails has failed.                                           *)
LEMMA FailedMarks ==
  ASSUME NEW u \in SchedType, NEW c \in Jails, Become(Failed(u, c))
  PROVE  "FAILED" \in flags'[c]
<1>1. Failed(u, c).flags = [u.flags EXCEPT ![c] = @ \cup {"FAILED"}]
  BY FailedFacts
<1>2. u.flags \in [Jails -> SUBSET Flag]
  BY DEF SchedType
<1>3. flags' = [u.flags EXCEPT ![c] = @ \cup {"FAILED"}]
  BY <1>1 DEF Become
<1> QED
  BY <1>2, <1>3

(* The head of the main loop.                                              *)
LEMMA HeadReach ==
  ASSUME IInv, RInv, Op # {"START"}, given' = given, Kept,
         NEW c \in Jails, c = cur, pc \in InLoop, Others(c),
         SkipFailed \/ BadParams \/ RunningJid \/ FinishNothing
           \/ FinishCommand
  PROVE  RInv'
<1>1. TypeOK
  BY DEF IInv
<1>2. CASE SkipFailed
  <2>1. Continue /\ "FAILED" \in flags[c] /\ UNCHANGED <<coms, jid, up>>
    BY <1>2 DEF SkipFailed
  <2>2. Begun' /\ pc' \notin InLoop /\ "FAILED" \in flags'[c]
    BY <2>1 DEF Continue, Begun, InLoop, Kept
  <2> QED
    BY <2>1, <2>2, CalmReach
<1>3. CASE BadParams
  <2> DEFINE u == [Sched EXCEPT !.flags = WithParams]
  <2>1. u \in SchedType
    BY WithParamsFacts
  <2>2. Continue /\ UNCHANGED <<coms, jid, up>> /\ Become(Failed(u, c))
    BY <1>3 DEF BadParams
  <2> HIDE DEF u
  <2>3. Begun' /\ pc' \notin InLoop /\ "FAILED" \in flags'[c]
    BY <2>1, <2>2, FailedMarks DEF Continue, Begun, InLoop
  <2> QED
    BY <2>2, <2>3, CalmReach
<1>4. CASE RunningJid
  <2>1. /\ pc' = "finish" /\ cur' = c /\ UNCHANGED <<coms, up>>
        /\ jid' = [jid EXCEPT ![c] = IF @ # 0 THEN @
                                     ELSE IF c \in up THEN 1 ELSE -1]
    BY <1>4 DEF RunningJid
  <2>2. /\ jid'[c] = IF jid[c] # 0 THEN jid[c] ELSE IF c \in up THEN 1 ELSE -1
        /\ \A k \in Jails \ {c} : jid'[k] = jid[k]
    BY <1>1, <2>1 DEF TypeOK
  <2>3. /\ list' = list /\ pos' = pos /\ up' = up /\ Op' = Op
        /\ "FAILED" \in flags[c] => "FAILED" \in flags'[c]
    BY <2>1 DEF coms, Op, Kept
  <2>4. Sighted(c)
    BY DEF RInv
  <2>5. Sighted(c)'
    BY <2>2, <2>3, <2>4 DEF Sighted
  <2>6. Begun' /\ pc' \in InLoop /\ Held(c)' /\ pc' # "done" /\ jid'[c] # 0
    BY <2>1, <2>2 DEF Begun, InLoop, Held
  <2> QED
    BY <2>1, <2>2, <2>3, <2>5, <2>6, ReachStep
<1>5. CASE FinishNothing
  <2>1. /\ pc = "finish" /\ pc' = "op" /\ cur' = c /\ UNCHANGED <<coms, jid, up>>
    BY <1>5 DEF FinishNothing
  <2>2. Begun' /\ Held(c)' /\ pc' # "done" /\ pc \in InLoop \ {"begin"}
    BY <2>1 DEF Begun, InLoop, Held
  <2> QED
    BY <2>1, <2>2, CalmReach
<1>6. CASE FinishCommand
  <2> DEFINE s == [Sched EXCEPT !.flags = Awake]
             u == WakeRunnable(s)
  <2>1. s \in SchedType
    BY AwakeFacts
  <2>2. /\ pc = "finish" /\ UNCHANGED <<coms, jid, up>>
        /\ \/ Become(Failed(u, c)) /\ Continue
           \/ pc' = "op" /\ cur' = c
    BY <1>6 DEF FinishCommand
  <2> HIDE DEF s
  <2>3. u \in SchedType
    BY <2>1, WakeRunnableWhole DEF Woke
  <2> HIDE DEF u
  <2>4. CASE Become(Failed(u, c)) /\ Continue
    <3>1. "FAILED" \in flags'[c]
      BY <2>3, <2>4, FailedMarks
    <3>2. Begun' /\ pc' \notin InLoop
      BY <2>4 DEF Continue, Begun, InLoop
    <3> QED
      BY <2>2, <2>4, <3>1, <3>2, CalmReach
  <2>5. CASE pc' = "op" /\ cur' = c
    <3>1. Begun' /\ Held(c)' /\ pc' # "done" /\ pc \in InLoop \ {"begin"}
      BY <2>2, <2>5 DEF Begun, InLoop, Held
    <3> QED
      BY <2>2, <2>5, <3>1, CalmReach
  <2> QED
    BY <2>2, <2>4, <2>5
<1> QED
  BY <1>2, <1>3, <1>4, <1>5, <1>6

(* A jail is stopped, or set, as the command line says.                    *)
LEMMA OneOperation ==
  ASSUME IInv, WInv, Whole, Op # {"START"}, NEW c \in Jails, c = cur,
         pc \in InLoop
  PROVE  /\ ~Single("START")
         /\ Single("STOP") => Op = {"STOP"}
         /\ Single("SET") => Op = {"SET"}
         /\ Op = {"STOP"} => "STOP" \in flags[c] /\ DoStop(flags[c])
         /\ Op \in {{"STOP"}, {"SET"}}
<1>1. Ops(flags[c]) = Op /\ Op \in Single1
  BY WholeFacts
<1>2. Op \in {{"STOP"}, {"SET"}}
  BY <1>1 DEF Single1
<1>3. /\ "STOP" \in flags[c] <=> "STOP" \in Op
      /\ "SET" \in flags[c] <=> "SET" \in Op
  BY <1>1, InOps DEF OpFlag
<1>4. /\ ~Single("START")
      /\ Single("SET") => Op = {"SET"}
  BY <1>1 DEF Single
<1>5. Single("STOP") => Op = {"STOP"}
  BY <1>2, <1>3 DEF Single, DoStop
<1>6. Op = {"STOP"} => "STOP" \in flags[c] /\ DoStop(flags[c])
  BY <1>3 DEF DoStop
<1> QED
  BY <1>2, <1>4, <1>5, <1>6

(* What the loop makes of the operation of a jail.                         *)
LEMMA OperationReach ==
  ASSUME IInv, WInv, Whole, HInv, RInv, Op # {"START"}, given' = given, Kept,
         NEW c \in Jails, c = cur, Others(c),
         Exists \/ NotFound \/ WaitForOthers
           \/ BeginStart \/ BeginStop \/ AlreadyRuns \/ NotRunning
           \/ AbandonStop \/ Resume \/ Update
  PROVE  RInv'
<1>1. pc = "op" /\ pc \in InLoop \ {"begin"} /\ pc \in InLoop
  BY DEF Exists, NotFound, WaitForOthers, BeginStart,
     BeginStop, AlreadyRuns, NotRunning, AbandonStop, Resume, Update,
     Unblocked, MayCheck, Single, InLoop
<1>2. /\ ~Single("START")
      /\ Single("STOP") => Op = {"STOP"}
      /\ Single("SET") => Op = {"SET"}
  BY <1>1, OneOperation
<1>3. /\ TypeOK /\ Sched \in SchedType /\ Sched.queue = queue
      /\ jid[c] \in {-1, 1}
  BY <1>1, SchedIn DEF IInv, RInv, TypeOK
<1> DEFINE t == DepCheck(Sched, c)
<1>4. Drew(Sched, t, c)
  BY <1>3, DepCheckWhole
<1>5. t \in SchedType /\ (Blocked(Sched, c) => t.queue[c] = "depend")
  <2> HIDE DEF t
  <2> QED
    BY <1>4 DEF Drew
<1>6. CASE NotFound
  <2>1. Continue /\ UNCHANGED <<coms, jid, up>> /\ Become(Failed(Sched, c))
    BY <1>6 DEF NotFound, Refuse
  <2>2. Begun' /\ pc' \notin InLoop /\ "FAILED" \in flags'[c]
    BY <1>3, <2>1, FailedMarks DEF Continue, Begun, InLoop
  <2> QED
    BY <1>1, <2>1, <2>2, CalmReach
<1>7. CASE WaitForOthers
  <2>1. Continue /\ UNCHANGED <<coms, jid, up>> /\ Become(t) /\ Blocked(Sched, c)
    BY <1>7 DEF WaitForOthers
  <2> HIDE DEF t
  <2>2. /\ Begun' /\ pc' \notin InLoop /\ pc' # "done" /\ queue'[c] # "cfjails"
    BY <1>5, <2>1 DEF Continue, Begun, InLoop, Become
  <2>3. Held(c)'
    BY <2>2 DEF Held
  <2> QED
    BY <1>1, <2>1, <2>2, <2>3, CalmReach
<1>8. CASE BeginStop
  <2>1. /\ Op = {"STOP"} /\ pc' = "next_command" /\ cur' = c
        /\ list' = [list EXCEPT ![c] = "stop"]
        /\ pos' = [pos EXCEPT ![c] = 1]
        /\ jid' = jid /\ up' = up
    BY <1>2, <1>8 DEF BeginStop, Begin
  <2>2. /\ list'[c] = "stop" /\ pos'[c] = 1
        /\ \A k \in Jails \ {c} : list'[k] = list[k] /\ pos'[k] = pos[k]
    BY <1>3, <2>1 DEF TypeOK
  <2>3. Op' = Op
    BY DEF Op
  <2>4. Sighted(c)
    BY DEF RInv
  <2>5. Sighted(c)'
    BY <2>1, <2>2, <2>3, <2>4 DEF Sighted
  <2>6. Begun' /\ Held(c)' /\ pc' # "done" /\ jid'[c] # 0
    BY <1>3, <2>1 DEF Begun, InLoop, Held
  <2> QED
    BY <1>1, <2>1, <2>2, <2>5, <2>6, ReachStep
<1>9. CASE NotRunning
  <2>1. /\ Op = {"STOP"} /\ jid[c] < 0 /\ pc' = "done" /\ cur' = c
        /\ UNCHANGED <<coms, jid, up>>
    BY <1>2, <1>9 DEF NotRunning
  <2>2. Begun' /\ Reached(c)
    BY <1>3, <2>1 DEF Begun, Reached
  <2> QED
    BY <1>1, <2>1, <2>2, CalmReach
<1>10. CASE AbandonStop
  <2>1. /\ "FAILED" \in flags[c] /\ pc' = "done" /\ cur' = c
        /\ UNCHANGED <<coms, jid, up>>
    BY <1>10 DEF AbandonStop
  <2>2. Begun' /\ "FAILED" \in flags'[c]
    BY <2>1 DEF Begun, Kept
  <2> QED
    BY <1>1, <2>1, <2>2, CalmReach
<1>11. CASE Resume
  <2>1. pc' = "next_command" /\ cur' = c /\ UNCHANGED <<coms, jid, up>>
    BY <1>11 DEF Resume
  <2>2. Begun' /\ Held(c)' /\ pc' # "done"
    BY <2>1 DEF Begun, InLoop, Held
  <2> QED
    BY <1>1, <2>1, <2>2, CalmReach
<1>12. CASE Update
  <2>1. /\ Single("SET") /\ MayCheck /\ UNCHANGED <<coms, jid, up>>
        /\ \/ Become(Failed(t, c)) /\ Continue
           \/ /\ "DEPEND" \in flags[c] \/ ~RdtunParams(c)
              /\ pc' = "done" /\ cur' = c
    BY <1>12 DEF Update, Unblocked
  <2> HIDE DEF t
  <2>2. CASE Become(Failed(t, c)) /\ Continue
    <3>1. Begun' /\ pc' \notin InLoop /\ "FAILED" \in flags'[c]
      BY <1>5, <2>2, FailedMarks DEF Continue, Begun, InLoop
    <3> QED
      BY <1>1, <2>1, <2>2, <3>1, CalmReach
  <2>3. CASE /\ "DEPEND" \in flags[c] \/ ~RdtunParams(c)
             /\ pc' = "done" /\ cur' = c
    <3>1. "DEPEND" \notin flags[c]
      BY <1>1 DEF HInv, Begun
    <3>2. Op = {"SET"} /\ ~Single("STOP")
      BY <1>2, <2>1
    <3>3. jid[c] = 1
      BY <1>2, <1>3, <2>1, <3>1, <3>2 DEF MayCheck
    <3>4. Begun' /\ Reached(c)
      BY <2>3, <3>1, <3>2, <3>3 DEF Begun, Reached, RdtunParams
    <3> QED
      BY <1>1, <2>1, <2>3, <3>4, CalmReach
  <2> QED
    BY <2>1, <2>2, <2>3
<1>13. ~(Exists \/ BeginStart \/ AlreadyRuns)
  BY <1>2 DEF Exists, BeginStart, AlreadyRuns
<1> QED
  BY <1>6, <1>7, <1>8, <1>9, <1>10, <1>11, <1>12, <1>13

(* A jail that is done with stays where it is.                             *)
LEMMA DoneReach ==
  ASSUME IInv, WInv, Whole, RInv, Op # {"START"}, given' = given, Kept,
         NEW c \in Jails, c = cur, Others(c), Done
  PROVE  RInv'
<1>1. pc = "done" /\ pc \in InLoop \ {"begin"} /\ pc \in InLoop
  BY DEF Done, InLoop
<1>2. list' = list
  BY <1>1, WholeTurns
<1>3. Continue /\ UNCHANGED <<coms, jid, up>>
  BY <1>2 DEF Done, coms
<1>4. "FAILED" \in flags'[c] \/ Reached(c)
  BY <1>1 DEF RInv, Kept
<1>5. Begun' /\ pc' \notin InLoop
  BY <1>3 DEF Continue, Begun, InLoop
<1> QED
  BY <1>1, <1>3, <1>4, <1>5, CalmReach

(* A jail runs commands only to be removed, and runs them forwards.        *)
LEMMA StopNext ==
  ASSUME IInv, WInv, Whole, RInv, Op # {"START"}, NEW c \in Jails, c = cur,
         pc \in {"next_command", "command"}
  PROVE  /\ Op = {"STOP"} /\ list[c] = "stop" /\ "STOP" \in flags[c]
         /\ pos[c] \in 1 .. 6 /\ Next1 = pos[c] + 1 /\ InList
         /\ CommandList[list[c]][Next1] = StopCommands[pos[c] + 1]
<1>1. pc \in InLoop /\ list[c] # "NULL" /\ TypeOK
  BY DEF InLoop, IInv, HasCommands
<1>2. Sighted(c)
  BY DEF RInv
<1>3. Op = {"STOP"} /\ list[c] = "stop"
  BY <1>1, <1>2 DEF Sighted, TypeOK
<1>4. "STOP" \in flags[c]
  BY <1>1, <1>3, OneOperation
<1>5. Len(CommandList[list[c]]) = 7 /\ CommandList[list[c]] = StopCommands
  BY <1>3, StopLength DEF CommandList
<1>6. pos[c] \in Int /\ 1 <= pos[c] /\ pos[c] < 7
  <2>1. CursorOK(c)
    BY DEF IInv, CursorInside
  <2>2. Active(c)
    BY DEF Active, InLoop
  <2>3. 1 <= pos[c] /\ pos[c] < Len(CommandList[list[c]])
    BY <1>1, <2>1, <2>2 DEF CursorOK
  <2> QED
    BY <1>1, <1>5, <2>3 DEF TypeOK
<1>7. Next1 = pos[c] + 1
  BY <1>4 DEF Next1, Undoing
<1> HIDE DEF Next1
<1>8. InList
  BY <1>5, <1>6, <1>7 DEF InList
<1> QED
  BY <1>3, <1>4, <1>5, <1>6, <1>7, <1>8

(* The commands of a jail, but its removal.                                *)
LEMMA CursorReach ==
  ASSUME IInv, WInv, Whole, RInv, Op # {"START"}, given' = given, Kept,
         NEW c \in Jails, c = cur, Others(c), pc = "command", Begun',
         Advance, StopCommands[pos[c] + 1] # "OP", UNCHANGED <<jid, up>>,
         cur' = c \/ pc' \notin InLoop,
         \/ "FAILED" \in flags'[c]
         \/ pc' # "done" /\ Held(c)'
         \/ pc' = "done" /\ pos[c] = 6
  PROVE  RInv'
<1>1. /\ Op = {"STOP"} /\ list[c] = "stop"
      /\ pos[c] \in 1 .. 6 /\ Next1 = pos[c] + 1
  BY StopNext
<1> HIDE DEF Next1
<1>2. /\ list' = list /\ pos' = [pos EXCEPT ![c] = pos[c] + 1]
      /\ jid' = jid /\ up' = up
  BY <1>1 DEF Advance
<1>3. /\ pos'[c] = pos[c] + 1
      /\ \A k \in Jails \ {c} : pos'[k] = pos[k]
  BY <1>2 DEF IInv, TypeOK
<1>4. StopCommands[4] = "OP"
  BY DEF StopCommands
<1>5. pos'[c] >= 4 => pos[c] >= 4
  BY <1>1, <1>3, <1>4
<1>6. Sighted(c) /\ ("FAILED" \in flags[c] => "FAILED" \in flags'[c])
  BY DEF RInv, Kept
<1>7. Op' = {"STOP"}
  BY <1>1 DEF Op
<1>8. Sighted(c)'
  BY <1>1, <1>2, <1>5, <1>6, <1>7 DEF Sighted
<1>9. pos[c] = 6 => "FAILED" \in flags'[c] \/ Reached(c)'
  BY <1>1, <1>2, <1>6, <1>7 DEF Sighted, Reached
<1>10. pc \in InLoop /\ jid[c] # 0
  BY DEF InLoop, RInv
<1> QED
  BY <1>1, <1>2, <1>3, <1>8, <1>9, <1>10, ReachStep

(* The removal of a jail.                                                  *)
LEMMA RemoveReach ==
  ASSUME IInv, WInv, Whole, RInv, Op # {"START"}, given' = given, Kept,
         NEW c \in Jails, c = cur, Others(c), RemoveJail
  PROVE  RInv'
<1>1. pc = "command" /\ Advance
  BY DEF RemoveJail, Upcoming
<1>2. /\ Op = {"STOP"} /\ list[c] = "stop"
      /\ pos[c] \in 1 .. 6 /\ Next1 = pos[c] + 1
      /\ CommandList[list[c]][Next1] = StopCommands[pos[c] + 1]
  BY <1>1, StopNext
<1> HIDE DEF Next1
<1>3. /\ list' = list
      /\ \A k \in Jails \ {c} : pos'[k] = pos[k]
  BY <1>1 DEF Advance, IInv, TypeOK
<1>4. pc \in InLoop /\ jid[c] # 0 /\ Sched \in SchedType
  BY <1>1, SchedIn DEF InLoop, RInv, IInv
<1>5. Sighted(c) /\ ("FAILED" \in flags[c] => "FAILED" \in flags'[c])
  BY DEF RInv, Kept
<1>6. Op' = {"STOP"}
  BY <1>2 DEF Op
<1>7. CASE /\ up' = up \ ({c} \cup {k \in Jails : <<k, c>> \in Under})
           /\ jid' = [jid EXCEPT ![c] = -1]
           /\ UNCHANGED <<pc, cur>>
  <2>1. jid'[c] = -1 /\ \A k \in Jails \ {c} : jid'[k] = jid[k]
    BY <1>7 DEF IInv, TypeOK
  <2>2. c \notin up' /\ up' \subseteq up
    BY <1>7
  <2>3. Sighted(c)'
    BY <1>2, <1>3, <1>6, <2>1, <2>2 DEF Sighted
  <2>4. Reached(c)' /\ Begun' /\ cur' = c
    BY <1>1, <1>6, <1>7, <2>1 DEF Reached, Begun
  <2> QED
    BY <1>2, <1>3, <1>4, <2>1, <2>2, <2>3, <2>4, ReachStep
<1>8. CASE Become(Failed(Sched, c)) /\ Continue /\ UNCHANGED <<jid, up>>
  <2>1. "FAILED" \in flags'[c]
    BY <1>4, <1>8, FailedMarks
  <2>2. Sighted(c)'
    BY <1>2, <1>3, <1>5, <1>6, <1>8, <2>1 DEF Sighted
  <2>3. Begun' /\ pc' \notin InLoop /\ jid' = jid /\ up' = up
    BY <1>8 DEF Continue, Begun, InLoop
  <2> QED
    BY <1>3, <1>4, <2>1, <2>2, <2>3, ReachStep
<1> QED
  BY <1>7, <1>8 DEF RemoveJail

(* The commands.                                                           *)
LEMMA CommandReach ==
  ASSUME IInv, WInv, Whole, RInv, Op # {"START"}, given' = given, Kept,
         NEW c \in Jails, c = cur, Others(c),
         WaitForSlot \/ EnterCommands \/ CommandsEnd \/ LeaveList
           \/ PassCommand \/ RunCommand \/ TermProcs \/ CreateJail
           \/ RemoveJail
  PROVE  RInv'
<1>1. pc \in {"next_command", "command"} /\ pc \in InLoop \ {"begin"} /\ pc \in InLoop
  BY DEF WaitForSlot, EnterCommands, CommandsEnd, LeaveList, PassCommand,
     RunCommand, TermProcs, CreateJail, RemoveJail, Upcoming, InLoop
<1>2. /\ Op = {"STOP"} /\ list[c] = "stop" /\ "STOP" \in flags[c]
      /\ pos[c] \in 1 .. 6 /\ Next1 = pos[c] + 1 /\ InList
      /\ CommandList[list[c]][Next1] = StopCommands[pos[c] + 1]
  BY <1>1, StopNext
<1> HIDE DEF Next1
<1>3. TypeOK /\ Sched \in SchedType /\ Sched.queue = queue
  BY SchedIn DEF IInv
<1>4. CASE WaitForSlot
  <2>1. /\ Continue /\ UNCHANGED <<coms, jid, up>>
        /\ \/ Become(RequeueHead(Sched, c, "runnable"))
           \/ Become(Requeue(Sched, {c}, "runnable", {}))
    BY <1>4 DEF WaitForSlot
  <2>2. "runnable" \in Queue
    BY DEF Queue
  <2>3. PICK t : Moved(Sched, t, {c}, "runnable") /\ Become(t)
    BY <1>3, <2>1, <2>2, RequeueOne, RequeueHeadFacts
  <2>4. queue'[c] = "runnable"
    BY <2>3 DEF Moved, Become
  <2>5. Begun' /\ pc' \notin InLoop /\ pc' # "done" /\ Held(c)'
    BY <2>1, <2>4 DEF Continue, Begun, InLoop, Held
  <2> QED
    BY <1>1, <2>1, <2>5, CalmReach
<1>5. CASE EnterCommands
  <2>1. pc' = "command" /\ cur' = c /\ UNCHANGED <<coms, jid, up>>
    BY <1>5 DEF EnterCommands
  <2>2. Begun' /\ Held(c)' /\ pc' # "done"
    BY <2>1 DEF Begun, InLoop, Held
  <2> QED
    BY <1>1, <2>1, <2>2, CalmReach
<1>6. ASSUME NEW x, Upcoming(x)
      PROVE  pc = "command" /\ StopCommands[pos[c] + 1] = x
  BY <1>2, <1>6 DEF Upcoming
<1>7. /\ StopCommands[2] = "STOP" /\ StopCommands[3] = "STOP_TIMEOUT"
      /\ StopCommands[4] = "OP" /\ StopCommands[5] = "POSTSTOP"
      /\ StopCommands[6] = "MOUNT" /\ StopCommands[7] = "NULL"
  BY DEF StopCommands
<1>8. CASE CommandsEnd
  <2>1. /\ pc = "command" /\ StopCommands[pos[c] + 1] = "NULL" /\ Advance
        /\ pc' = "done" /\ cur' = c /\ UNCHANGED <<jid, up>>
    BY <1>6, <1>8 DEF CommandsEnd
  <2>2. pos[c] = 6 /\ Begun'
    BY <1>2, <1>7, <2>1 DEF Begun
  <2> QED
    BY <2>1, <2>2, CursorReach
<1>9. CASE PassCommand
  <2>1. PICK x \in Command : Upcoming(x)
    BY <1>9 DEF PassCommand
  <2>2. /\ pc = "command" /\ StopCommands[pos[c] + 1] # "OP" /\ Advance
        /\ pc' = pc /\ cur' = c /\ UNCHANGED <<jid, up>>
    BY <1>6, <1>9, <2>1 DEF PassCommand, Command
  <2>3. Begun' /\ Held(c)' /\ pc' # "done"
    BY <2>2 DEF Begun, InLoop, Held
  <2> QED
    BY <2>2, <2>3, CursorReach
<1> DEFINE f == [flags EXCEPT ![c] = @ \cup {"SLEEPQ"}]
           t == Requeue([Sched EXCEPT !.flags = f], {c}, "sleeping", {})
<1>10. Become(t) /\ Continue => Begun' /\ pc' \notin InLoop /\ pc' # "done" /\ Held(c)'
  <2>1. Follows(Sched, t, Op, c) /\ t.queue[c] = "sleeping"
    BY <1>1, <1>3, WholeFacts, SleepCounts
  <2> HIDE DEF t
  <2> QED
    BY <2>1 DEF Continue, Begun, InLoop, Held, Become
<1>11. CASE RunCommand
  <2>1. PICK x \in Command : Upcoming(x)
    BY <1>11 DEF RunCommand
  <2>2. /\ pc = "command" /\ StopCommands[pos[c] + 1] # "OP" /\ Advance
        /\ Continue /\ UNCHANGED <<jid, up>>
        /\ Become(t) \/ Become(Failed(Sched, c))
    BY <1>6, <1>11, <2>1 DEF RunCommand, Command
  <2> HIDE DEF t
  <2>3. \/ Held(c)' /\ pc' # "done"
        \/ "FAILED" \in flags'[c]
    BY <1>3, <1>10, <2>2, FailedMarks
  <2>4. Begun' /\ pc' \notin InLoop
    BY <2>2 DEF Continue, Begun, InLoop
  <2> QED
    BY <2>2, <2>3, <2>4, CursorReach
<1>12. CASE TermProcs
  <2>1. /\ pc = "command" /\ StopCommands[pos[c] + 1] # "OP" /\ Advance
        /\ UNCHANGED <<jid, up>>
        /\ \/ Become(t) /\ Continue
           \/ pc' = pc /\ cur' = c
    BY <1>6, <1>12 DEF TermProcs
  <2> HIDE DEF t
  <2>2. CASE Become(t) /\ Continue
    BY <1>10, <2>1, <2>2, CursorReach
  <2>3. CASE pc' = pc /\ cur' = c
    <3>1. Begun' /\ Held(c)' /\ pc' # "done"
      BY <2>1, <2>3 DEF Begun, InLoop, Held
    <3> QED
      BY <2>1, <2>3, <3>1, CursorReach
  <2> QED
    BY <2>1, <2>2, <2>3
<1>13. CASE RemoveJail
  BY <1>13, RemoveReach
<1>14. ~LeaveList /\ ~CreateJail
  BY <1>2 DEF LeaveList, CreateJail
<1> QED
  BY <1>4, <1>5, <1>8, <1>9, <1>11, <1>12, <1>13, <1>14

(* Every step of the main loop.                                            *)
LEMMA MainLoopReach ==
  ASSUME IInv, WInv, Whole, HInv, RInv, Op # {"START"}, given' = given, Kept,
         MainLoop
  PROVE  RInv'
<1>1. pc \in InLoop /\ cur \in Jails
  BY MainLoopNews
<1>2. PICK c \in Jails : c = cur
  BY <1>1
<1>3. Others(c)
  BY <1>2, MainLoopCounts
<1>4. ~Turn /\ ~TurnRestart
  BY <1>1, <1>2, WholeTurns
<1>5. CASE SkipFailed \/ BadParams \/ RunningJid \/ FinishNothing
             \/ FinishCommand
  BY <1>1, <1>2, <1>3, <1>5, HeadReach
<1>6. CASE Exists \/ NotFound \/ WaitForOthers
             \/ BeginStart \/ BeginStop \/ AlreadyRuns \/ NotRunning
             \/ AbandonStop \/ Resume \/ Update
  BY <1>1, <1>2, <1>3, <1>6, OperationReach
<1>7. CASE Done
  BY <1>2, <1>3, <1>7, DoneReach
<1>8. CASE WaitForSlot \/ EnterCommands \/ CommandsEnd \/ LeaveList
             \/ PassCommand \/ RunCommand \/ TermProcs \/ CreateJail
             \/ RemoveJail
  BY <1>2, <1>3, <1>8, CommandReach
<1> QED
  BY <1>4, <1>5, <1>6, <1>7, <1>8 DEF MainLoop

(* Every step of a program that removes, or sets, all jails.               *)
LEMMA NextRInv ==
  ASSUME IInv, WInv, Whole, HInv, RInv, Op # {"START"}, given \in Given,
         [Next]_vars
  PROVE  RInv'
<1>1. Kept /\ given' = given
  BY NextIInv, GivenStays
<1>2. Op' = Op /\ Rdtun' = Rdtun
  BY <1>1 DEF Op, Rdtun
<1>3. CASE DepSetup \/ JailMain \/ \E j \in Jails : LoopCheck(j)
  <2>1. /\ pc \in {"setup", "loops"} /\ pc' \in {"loops", "next"}
        /\ list' = list /\ jid' = jid /\ up' = up
    BY <1>3 DEF DepSetup, JailMain, LoopCheck, coms
  <2>2. \A k \in Jails : list[k] = "NULL"
    BY <2>1 DEF IInv, Fresh
  <2>3. \A k \in Jails : Sighted(k)
    BY DEF RInv
  <2>4. \A k \in Jails : Sighted(k)'
    BY <1>2, <2>1, <2>2, <2>3 DEF Sighted
  <2>5. CASE pc' = "loops"
    BY <2>4, <2>5 DEF RInv, Begun, InLoop
  <2>6. CASE pc' = "next"
    <3>1. JailMain
      BY <1>3, <2>6 DEF DepSetup, LoopCheck
    <3>2. \A k \in Jails : queue'[k] # "cfjails"
      BY <3>1, JailMainHeard
    <3>3. \A k \in Jails : Held(k)'
      BY <3>2 DEF Held
    <3> QED
      BY <2>4, <2>6, <3>3 DEF RInv, InLoop
  <2> QED
    BY <2>1, <2>5, <2>6
<1>4. CASE \/ \E j \in Jails, bad \in BOOLEAN : CommandExits(j, bad)
           \/ \E j \in Jails : CommandTimesOut(j)
           \/ \E j \in Jails : NextReady(j)
  <2>1. PICK j \in Jails : \/ \E bad \in BOOLEAN : CommandExits(j, bad)
                           \/ CommandTimesOut(j)
                           \/ NextReady(j)
    BY <1>4
  <2>2. /\ pc = "next" /\ pc' = "begin" /\ cur' = j
        /\ \A k \in Jails :
             /\ queue'[k] = IF k = j THEN "cfjails" ELSE queue[k]
             /\ "FAILED" \in flags'[k] <=> "FAILED" \in flags[k]
        /\ UNCHANGED <<list, pos, jid, up>>
    BY <2>1, JailTaken DEF IInv
  <2>3. \A k \in Jails : Sighted(k)
    BY DEF RInv
  <2>4. \A k \in Jails : Sighted(k)'
    BY <1>2, <2>2, <2>3 DEF Sighted
  <2>5. ASSUME NEW k \in Jails, ~Held(k)'
        PROVE  "FAILED" \in flags'[k] \/ Reached(k)'
    <3>1. k # j
      BY <2>2, <2>5 DEF Held, InLoop
    <3>2. ~Held(k)
      BY <2>2, <2>5, <3>1 DEF Held, InLoop
    <3>3. "FAILED" \in flags[k] \/ Reached(k)
      BY <2>2, <3>2 DEF RInv, Begun
    <3>4. Reached(k) => Reached(k)'
      BY <1>2, <2>2 DEF Reached
    <3> QED
      BY <2>2, <3>3, <3>4
  <2> QED
    BY <2>2, <2>4, <2>5 DEF RInv
<1>5. CASE Exit \/ UNCHANGED vars
  <2>1. /\ flags' = flags /\ queue' = queue /\ cur' = cur /\ jid' = jid
        /\ list' = list /\ pos' = pos /\ up' = up
        /\ pc' = pc \/ (pc = "next" /\ pc' = "exit")
    BY <1>5 DEF Exit, vars, sched, coms
  <2>2. \A k \in Jails : /\ Sighted(k)' <=> Sighted(k)
                         /\ Reached(k)' <=> Reached(k)
    BY <1>2, <2>1 DEF Sighted, Reached
  <2>3. \A k \in Jails : Held(k)' <=> Held(k)
    BY <2>1 DEF Held, InLoop
  <2>4. pc' = "done" => Reached(cur)' = Reached(cur)
    BY <1>2, <2>1 DEF Reached
  <2>5. /\ Begun' /\ pc' # "crashed" => Begun /\ pc # "crashed"
        /\ pc' = "done" => pc = "done"
        /\ pc' \in InLoop \ {"begin"} => pc \in InLoop \ {"begin"}
    BY <2>1 DEF Begun, InLoop
  <2> QED
    BY <2>1, <2>2, <2>3, <2>4, <2>5 DEF RInv
<1>6. CASE MainLoop
  BY <1>1, <1>6, MainLoopReach
<1> QED
  BY <1>3, <1>4, <1>5, <1>6 DEF Next

-----------------------------------------------------------------------------
(* The exit status.                                                        *)

(* With one operation for all jails no failure is out of sight, and a jail *)
(* that is done with and has not failed is where it was asked to be.       *)
THEOREM ReachInvariance ==
  Spec => [](Whole => HInv /\ (Op # {"START"} => RInv))
<1> DEFINE G == Whole => HInv /\ (Op # {"START"} => RInv)
<1>1. ASSUME Init
      PROVE  G
  <2>1. pc = "setup" /\ \A k \in Jails : list[k] = "NULL" /\ jid[k] = 0
    BY <1>1 DEF Init
  <2>2. \A k \in Jails : Sighted(k)
    BY <2>1 DEF Sighted
  <2> QED
    BY <2>1, <2>2 DEF HInv, RInv, Begun, InLoop
<1>2. IInv /\ (Whole => WInv) /\ G /\ given \in Given /\ [Next]_vars => G'
  <2>1. ASSUME [Next]_vars
        PROVE  (Whole' <=> Whole) /\ Op' = Op
    BY <2>1, GivenStays DEF Whole, Target, Op
  <2> QED
    BY <2>1, NextHInv, NextRInv
<1> QED
  BY <1>1, <1>2, Invariance, CountsInvariance, Rigid, PTL DEF Spec

(* When the program that was given one operation for the whole file exits  *)
(* with none left waiting, exit status 0 means what libjail_start() and    *)
(* libjail_stop() take it for: all jails run, or none does, or all have    *)
(* the parameters of the file.                                             *)
THEOREM StatusTold == Spec => [](Whole /\ Settled => StatusTellsFailure)
<1> DEFINE G == Whole => HInv /\ (Op # {"START"} => RInv)
<1>1. ASSUME IInv, Whole, WInv, HInv, Op # {"START"} => RInv, Settled,
             Op = {"START"} => OInv /\ EInv
      PROVE  StatusTellsFailure
  <2> SUFFICES ASSUME pc = "exit", ~error, NEW j \in Jails
               PROVE  /\ "START" \in flags[j] => j \in up
                      /\ Ops(flags[j]) = {"STOP"} => j \notin up
                      /\ Ops(flags[j]) = {"SET"} /\ "DEPEND" \notin flags[j]
                           => j \in up \ Rdtun
    BY DEF StatusTellsFailure
  <2>1. Begun /\ pc # "crashed" /\ \A k \in Jails : queue[k] = "cfjails" /\ ~Held(k)
    BY <1>1 DEF Settled, Held, InLoop, Begun
  <2>2. \A k \in Jails : "FAILED" \notin flags[k]
    BY <1>1, <2>1 DEF HInv, Heard
  <2>3. Ops(flags[j]) = Op /\ Op \in Single1
    BY <1>1, <2>1 DEF WInv, Counted, Sched, Begun, Whole
  <2>4. "START" \in flags[j] <=> "START" \in Op
    BY <2>3, InOps DEF OpFlag
  <2>5. CASE Op = {"START"}
    <3>1. Finished(j) /\ Fit(j)
      BY <1>1, <2>1, <2>4, <2>5 DEF EInv, OInv
    <3>2. j \in up \/ Taken(j)
      BY <2>1, <2>2, <3>1 DEF Finished, Fit
    <3>3. j \in up
      BY <2>2, <3>2, DepsAssumption DEF Taken
    <3> QED
      BY <2>3, <2>5, <3>3
  <2>6. CASE Op # {"START"}
    <3>1. Reached(j) /\ Sighted(j)
      BY <1>1, <2>1, <2>2, <2>6 DEF RInv
    <3>2. Op = {"STOP"} \/ Op = {"SET"}
      BY <2>3, <2>6 DEF Single1
    <3>3. CASE Op = {"STOP"}
      BY <2>3, <2>4, <3>1, <3>3 DEF Reached, Sighted
    <3>4. CASE Op = {"SET"}
      BY <2>3, <2>4, <3>1, <3>4 DEF Reached, Sighted
    <3> QED
      BY <3>2, <3>3, <3>4
  <2> QED
    BY <2>5, <2>6
<1>2. IInv /\ (Whole => WInv) /\ G /\ (Op = {"START"} => OInv)
        /\ (Op = {"START"} => EInv)
        => (Whole /\ Settled => StatusTellsFailure)
  BY <1>1
<1> QED
  BY <1>2, Invariance, CountsInvariance, ReachInvariance, OrderInvariance,
     EndsInvariance, PTL

-----------------------------------------------------------------------------
(* What keeps the promise.                                                 *)

(* No jail of the file is inside of another one.                           *)
Flat == Under = {}

(* A jail that ran before is left alone, and the exit status has a reason. *)
FInv ==
  /\ \A k \in Running : k \in up /\ list[k] = "NULL" /\ jid[k] # -1
  /\ error => \E k \in Jails : "FAILED" \in flags[k]

(* This step lets no jail but c fail.                                      *)
Spares(c) ==
  \A k \in Jails \ {c} : "FAILED" \in flags'[k] => "FAILED" \in flags[k]

(* A report without a new edge spares the others.                          *)
LEMMA ReportSpares ==
  ASSUME NEW t, NEW c, Become(t), Reports(Sched, t, c), t.seen = seen
  PROVE  Spares(c)
<1>1. t.seen \ Sched.seen = {} /\ Sched.flags = flags /\ t.flags = flags'
  BY DEF Sched, Become
<1> QED
  BY <1>1 DEF Reports, Spares

(* A step that only changes the failure of c does.                         *)
LEMMA FailedSpares ==
  ASSUME NEW u \in SchedType, NEW c \in Jails, Reports(Sched, u, c), u.seen = seen,
         Sched \in SchedType, Become(Failed(u, c))
  PROVE  Spares(c)
<1> DEFINE t == Failed(u, c)
<1>1. t \in SchedType /\ Reports(u, t, c) /\ t.seen = u.seen
  BY FailedReports
<1> HIDE DEF t
<1>2. Reports(Sched, t, c)
  BY <1>1, ReportsTrans
<1> QED
  BY <1>1, <1>2, ReportSpares DEF t

(* The head of the loop spares the others, but for a failed jail that has  *)
(* no command to undo.                                                     *)
LEMMA HeadSpares ==
  ASSUME IInv, NEW c \in Jails, c = cur,
         BadParams \/ RunningJid \/ FinishNothing \/ FinishCommand
  PROVE  Spares(c)
<1>1. Sched \in SchedType
  BY SchedIn DEF IInv
<1>2. CASE BadParams
  <2> DEFINE u == [Sched EXCEPT !.flags = WithParams]
  <2>1. u \in SchedType /\ Reports(Sched, u, c) /\ u.seen = seen
    BY WithParamsReports
  <2>2. Become(Failed(u, c))
    BY <1>2 DEF BadParams
  <2> HIDE DEF u
  <2> QED
    BY <1>1, <2>1, <2>2, FailedSpares
<1>3. CASE RunningJid
  <2> DEFINE t == [Sched EXCEPT !.flags = WithParams]
  <2>1. Reports(Sched, t, c) /\ t.seen = seen
    BY WithParamsReports
  <2>2. Become(t)
    BY <1>3 DEF Become, Sched, RunningJid
  <2> HIDE DEF t
  <2> QED
    BY <2>1, <2>2, ReportSpares
<1>4. CASE FinishNothing
  <2>1. flags' = flags \/ flags' = Awake
    BY <1>4 DEF FinishNothing
  <2>2. \A k \in Jails \ {c} : Awake[k] = flags[k]
    BY AwakeFacts
  <2> HIDE DEF Awake
  <2> QED
    BY <2>1, <2>2 DEF Spares
<1>5. CASE FinishCommand
  <2> DEFINE s == [Sched EXCEPT !.flags = Awake]
             u == WakeRunnable(s)
  <2>1. s \in SchedType /\ Reports(Sched, s, c) /\ s.seen = seen
    BY AwakeReports
  <2>2. Become(Failed(u, c)) \/ Become(u)
    BY <1>5 DEF FinishCommand
  <2> HIDE DEF s
  <2>3. Woke(s, u)
    BY <2>1, WakeRunnableWhole
  <2>4. Alike(s, u)
    BY <2>1, WakeRunnableAlike
  <2> HIDE DEF u
  <2>5. u \in SchedType /\ u.seen = s.seen
    BY <2>3 DEF Woke
  <2>6. \A k \in Jails :
          /\ Ops(u.flags[k]) = Ops(s.flags[k])
          /\ "FAILED" \in s.flags[k] <=> "FAILED" \in u.flags[k]
          /\ s.queue[k] = "cfjails" <=> u.queue[k] = "cfjails"
    BY <2>3, <2>4 DEF Woke, Alike
  <2>7. Reports(s, u, c)
    BY <2>5, <2>6, SameReports
  <2>8. Reports(Sched, u, c) /\ u.seen = seen
    BY <1>1, <2>1, <2>5, <2>7, ReportsTrans
  <2>9. CASE Become(Failed(u, c))
    BY <1>1, <2>5, <2>8, <2>9, FailedSpares
  <2>10. CASE Become(u)
    BY <2>8, <2>10, ReportSpares
  <2> QED
    BY <2>2, <2>9, <2>10
<1> QED
  BY <1>2, <1>3, <1>4, <1>5

(* What is left of the main loop in a program that only starts.            *)
LEMMA LoopOfStart ==
  ASSUME IInv, OInv, NEW c \in Jails, c = cur, MainLoop
  PROVE  \/ SkipFailed \/ BadParams \/ RunningJid \/ FinishNothing
         \/ FinishCommand \/ Exists \/ WaitForOthers \/ BeginStart
         \/ AlreadyRuns \/ Resume \/ Done
         \/ WaitForSlot \/ EnterCommands \/ CommandsEnd \/ LeaveList
         \/ PassCommand \/ RunCommand \/ TermProcs \/ CreateJail
         \/ RemoveJail
<1>1. CASE pc = "op"
  BY <1>1, OnlyStart DEF MainLoop
<1>2. CASE pc # "op"
  BY <1>2 DEF MainLoop, Turn, TurnRestart, NotFound, BeginStop, NotRunning,
     AbandonStop, Update, Single
<1> QED
  BY <1>1, <1>2

(* The operations spare them.                                              *)
LEMMA OperationSpares ==
  ASSUME IInv, OInv, NEW c \in Jails, c = cur,
         Exists \/ WaitForOthers \/ BeginStart \/ AlreadyRuns \/ Resume
  PROVE  Spares(c)
<1>1. Sched \in SchedType
  BY SchedIn DEF IInv
<1>2. CASE Exists
  <2>1. Become(Failed(Sched, c)) /\ Sched.seen = seen
    BY <1>2 DEF Exists, Refuse, Sched
  <2>2. Reports(Sched, Sched, c)
    BY SameReports
  <2> QED
    BY <1>1, <2>1, <2>2, FailedSpares
<1>3. CASE WaitForOthers \/ BeginStart \/ AlreadyRuns
  <2> DEFINE t == DepCheck(Sched, cur)
  <2>1. MayCheck /\ Become(t)
    BY <1>3 DEF WaitForOthers, BeginStart, AlreadyRuns, Unblocked, Begin, MayCheck
  <2>2. Reports(Sched, t, c) /\ t.seen = seen
    BY <2>1, CheckOrder, CheckReports
  <2> HIDE DEF t
  <2> QED
    BY <2>1, <2>2, ReportSpares
<1>4. CASE Resume
  BY <1>4 DEF Resume, Spares, sched
<1> QED
  BY <1>2, <1>3, <1>4

(* And so do the commands.                                                 *)
LEMMA CommandSpares ==
  ASSUME IInv, OInv, NEW c \in Jails, c = cur,
         \/ WaitForSlot \/ EnterCommands \/ CommandsEnd \/ LeaveList
         \/ PassCommand \/ RunCommand \/ TermProcs \/ CreateJail \/ RemoveJail
  PROVE  Spares(c)
<1>1. pc \in InLoop
  BY DEF WaitForSlot, EnterCommands, CommandsEnd, LeaveList, PassCommand,
     RunCommand, TermProcs, CreateJail, RemoveJail, Upcoming, InLoop
<1>2. /\ Sched \in SchedType /\ Ordered(Sched) /\ Sched.seen = seen
      /\ Sched.flags = flags /\ "STOP" \notin flags[c]
  BY <1>1, InHandFacts
<1>3. CASE flags' = flags
  BY <1>3 DEF Spares
<1>4. CASE Become(Failed(Sched, c))
  <2>1. Reports(Sched, Sched, c)
    BY SameReports
  <2> QED
    BY <1>2, <1>4, <2>1, FailedSpares
<1>5. CASE WaitForSlot
  <2>1. flags' = flags
    BY <1>5 DEF WaitForSlot, Become, Sched, RequeueHead, Requeue
  <2> QED
    BY <1>3, <2>1
<1>6. CASE EnterCommands
  BY <1>6 DEF EnterCommands, Spares, IInv, TypeOK
<1>7. CASE CommandsEnd \/ LeaveList \/ PassCommand
  <2>1. flags' = flags
    BY <1>7 DEF CommandsEnd, LeaveList, PassCommand, sched
  <2> QED
    BY <1>3, <2>1
<1>8. CASE RunCommand \/ TermProcs
  <2> DEFINE t == Requeue([Sched EXCEPT !.flags = [flags EXCEPT
                             ![cur] = @ \cup {"SLEEPQ"}]],
                          {cur}, "sleeping", {})
  <2>1. Become(t) \/ Become(Failed(Sched, c)) \/ flags' = flags
    BY <1>8 DEF RunCommand, TermProcs, sched
  <2>2. Reports(Sched, t, c) /\ t.seen = seen
    BY SleepReports
  <2> HIDE DEF t
  <2>3. CASE Become(t)
    BY <2>2, <2>3, ReportSpares
  <2> QED
    BY <1>3, <1>4, <2>1, <2>3
<1>9. CASE CreateJail
  <2> DEFINE t == DepDone(Sched, c, TRUE, FALSE)
  <2>1. "FAILED" \notin flags[c] /\ (Become(t) \/ Become(Failed(Sched, c)))
    BY <1>9 DEF CreateJail
  <2>2. Tells(Sched, t, c, TRUE)
    BY <1>2, DepDoneOrder
  <2> HIDE DEF t
  <2>3. t.flags = flags
    BY <1>2, <2>1, <2>2 DEF Tells
  <2>4. CASE Become(t)
    BY <1>3, <2>3, <2>4 DEF Become
  <2> QED
    BY <1>4, <2>1, <2>4
<1>10. CASE RemoveJail
  <2>1. Become(Sched) \/ Become(Failed(Sched, c))
    BY <1>2, <1>10 DEF RemoveJail
  <2>2. CASE Become(Sched)
    BY <1>3, <2>2 DEF Become, Sched
  <2> QED
    BY <1>4, <2>1, <2>2
<1> QED
  BY <1>5, <1>6, <1>7, <1>8, <1>9, <1>10

(* What the steps of a start do to the fields that FInv speaks of.         *)
LEMMA FieldsOfStart ==
  ASSUME IInv, OInv, NEW c \in Jails, c = cur, MainLoop
  PROVE  /\ \A k \in Jails \ {c} :
              list'[k] = list[k] /\ pos'[k] = pos[k] /\ jid'[k] = jid[k]
         /\ \/ UNCHANGED <<list, jid, up>>
            \/ RunningJid \/ BeginStart \/ CreateJail \/ RemoveJail
         /\ \/ error' = error
            \/ "FAILED" \in flags[c] /\ error' \in BOOLEAN
<1>1. list \in [Jails -> {"NULL", "start", "stop"}] /\ jid \in [Jails -> {-1, 0, 1}]
      /\ pos \in [Jails -> 0 .. Len(StopCommands)] /\ error \in BOOLEAN
  BY DEF IInv, TypeOK
<1>2. CASE SkipFailed \/ BadParams \/ FinishNothing \/ FinishCommand
  <2>1. UNCHANGED <<list, pos, jid, up>>
    BY <1>2 DEF SkipFailed, BadParams, FinishNothing, FinishCommand, coms
  <2>2. \/ error' = error
        \/ "FAILED" \in flags[c] /\ error' = TRUE
    BY <1>1, <1>2 DEF SkipFailed, BadParams, FinishNothing, FinishCommand
  <2> QED
    BY <2>1, <2>2
<1>3. CASE RunningJid
  BY <1>1, <1>3 DEF RunningJid, coms
<1>4. CASE Exists \/ WaitForOthers \/ AlreadyRuns \/ Resume
  BY <1>4 DEF Exists, Refuse, WaitForOthers, AlreadyRuns, Resume, coms
<1>5. CASE BeginStart
  BY <1>1, <1>5 DEF BeginStart, Begin
<1>6. CASE Done
  <2> DEFINE t == DepDone(Sched, c, FALSE, FALSE)
  <2>1. pc \in InLoop
    BY <1>6 DEF Done, InLoop
  <2>2. Sched \in SchedType /\ Ordered(Sched)
    BY <2>1, InHandFacts
  <2>3. Tells(Sched, t, c, FALSE)
    BY <2>2, DepDoneOrder
  <2>4. Ordered(t)
    <3> HIDE DEF t
    <3> QED
      BY <2>3 DEF Tells
  <2>5. "STOP" \notin t.flags[c]
    BY <2>4, StartsWaits DEF Ordered
  <2>6. UNCHANGED <<list, pos, jid, up, error>>
    BY <1>6, <2>5 DEF Done
  <2> QED
    BY <2>6
<1>7. CASE WaitForSlot \/ EnterCommands
  BY <1>7 DEF WaitForSlot, EnterCommands, coms
<1>8. CASE CommandsEnd \/ LeaveList \/ PassCommand \/ RunCommand \/ TermProcs
  <2>1. Advance /\ UNCHANGED <<jid, up, error>>
    BY <1>8 DEF CommandsEnd, LeaveList, PassCommand, RunCommand, TermProcs
  <2> QED
    BY <1>1, <2>1 DEF Advance
<1>9. CASE CreateJail \/ RemoveJail
  <2>1. /\ Advance /\ error' = error
        /\ \/ jid' = jid
           \/ \E i \in {-1, 1} : jid' = [jid EXCEPT ![c] = i]
    BY <1>9 DEF CreateJail, RemoveJail
  <2> QED
    BY <1>1, <1>9, <2>1 DEF Advance
<1> QED
  BY LoopOfStart, <1>2, <1>3, <1>4, <1>5, <1>6, <1>7, <1>8, <1>9

(* The steps outside of the main loop leave them alone.                    *)
LEMMA FieldsOutside ==
  ASSUME \/ DepSetup \/ (\E j \in Jails : LoopCheck(j)) \/ JailMain
         \/ (\E j \in Jails, bad \in BOOLEAN : CommandExits(j, bad))
         \/ (\E j \in Jails : CommandTimesOut(j))
         \/ (\E j \in Jails : NextReady(j))
         \/ Exit \/ UNCHANGED vars
  PROVE  UNCHANGED <<list, pos, jid, up, error>>
BY DEF DepSetup, LoopCheck, JailMain, CommandExits, CommandTimesOut, NextReady,
   Exit, vars, coms

(* The command line names jails of the file.                               *)
LEMMA GivenIn ==
  ASSUME given \in Given
  PROVE  Running \in SUBSET Jails /\ Named \in SUBSET Jails
BY CommandLineAssumption DEF Running, Named, GivenType

(* A jail that ran before keeps running.                                   *)
LEMMA MainLoopLeavesRunning ==
  ASSUME IInv, OInv, FInv, Flat, given' = given, MainLoop,
         NEW k \in Running, k \in Jails
  PROVE  k \in up' /\ list'[k] = "NULL" /\ jid'[k] # -1
<1>1. cur \in Jails
  BY CurInJails
<1> DEFINE c == cur
<1>2. k \in up /\ list[k] = "NULL" /\ jid[k] # -1
  BY DEF FInv
<1>3. /\ \A i \in Jails \ {c} : list'[i] = list[i] /\ jid'[i] = jid[i]
      /\ \/ UNCHANGED <<list, jid, up>>
         \/ RunningJid \/ BeginStart \/ CreateJail \/ RemoveJail
  BY <1>1, FieldsOfStart
<1>4. CASE RunningJid
  <2>1. /\ UNCHANGED <<list, up>>
        /\ jid' = [jid EXCEPT ![c] = IF @ # 0 THEN @
                                     ELSE IF c \in up THEN 1 ELSE -1]
    BY <1>4 DEF RunningJid, coms
  <2>2. jid \in [Jails -> {-1, 0, 1}]
    BY DEF IInv, TypeOK
  <2>3. jid'[c] = IF jid[c] # 0 THEN jid[c] ELSE IF c \in up THEN 1 ELSE -1
    BY <1>1, <2>1, <2>2
  <2> QED
    BY <1>2, <1>3, <2>1, <2>3
<1>5. CASE BeginStart
  <2>1. jid[c] < 0 /\ UNCHANGED <<jid, up>>
    BY <1>5 DEF BeginStart, Begin
  <2>2. jid[c] \in {-1, 0, 1}
    BY <1>1 DEF IInv, TypeOK
  <2> QED
    BY <1>2, <1>3, <2>1, <2>2
<1>6. CASE CreateJail \/ RemoveJail
  <2>1. pc = "command"
    BY <1>6 DEF CreateJail, RemoveJail, Upcoming
  <2>2. list[c] = "start"
    BY <1>1, <2>1, StartNext
  <2>3. k # c
    BY <1>2, <2>2
  <2>4. k \in up'
    BY <1>2, <1>6, <2>3 DEF CreateJail, RemoveJail, Flat
  <2> QED
    BY <1>2, <1>3, <2>3, <2>4
<1>7. CASE UNCHANGED <<list, jid, up>>
  BY <1>2, <1>7
<1> QED
  BY <1>3, <1>4, <1>5, <1>6, <1>7

(* Both are so in every state of a start.                                  *)
LEMMA NextFInv ==
  ASSUME IInv, OInv, FInv, Flat, given \in Given, [Next]_vars
  PROVE  FInv'
<1>1. given' = given /\ Kept
  BY GivenStays, NextIInv
<1>2. Running' = Running /\ Running \in SUBSET Jails
  BY <1>1, GivenIn DEF Running
<1>3. CASE MainLoop
  <2>1. \A k \in Running : k \in up' /\ list'[k] = "NULL" /\ jid'[k] # -1
    BY <1>1, <1>2, <1>3, MainLoopLeavesRunning
  <2>2. error' => \E k \in Jails : "FAILED" \in flags[k]
    <3>1. cur \in Jails
      BY <1>3, CurInJails
    <3> QED
      BY <1>3, <3>1, FieldsOfStart DEF FInv
  <2>3. error' => \E k \in Jails : "FAILED" \in flags'[k]
    BY <1>1, <2>2 DEF Kept
  <2> QED
    BY <1>2, <2>1, <2>3 DEF FInv
<1>4. CASE ~MainLoop
  <2>1. UNCHANGED <<list, pos, jid, up, error>>
    BY <1>4, FieldsOutside DEF Next
  <2> QED
    BY <1>1, <1>2, <2>1 DEF FInv, Kept
<1> QED
  BY <1>3, <1>4

(* It holds in every state of a start without jails in jails.              *)
LEMMA FlatInvariance == Spec => [](Flat /\ Op = {"START"} => FInv)
<1> DEFINE G == Flat /\ Op = {"START"} => FInv
<1>1. Init => G
  <2> SUFFICES ASSUME Init
               PROVE  FInv
    OBVIOUS
  <2>1. Running \in SUBSET Jails
    BY GivenIn DEF Init
  <2> QED
    BY <2>1 DEF Init, FInv
<1>2. IInv /\ (Op = {"START"} => OInv) /\ G /\ given \in Given /\ [Next]_vars
        => G'
  <2> SUFFICES ASSUME IInv, Op = {"START"} => OInv, G, given \in Given,
                      [Next]_vars, Flat, Op' = {"START"}
               PROVE  FInv'
    OBVIOUS
  <2>1. Op' = Op
    BY GivenStays DEF Op
  <2> QED
    BY <2>1, NextFInv
<1> QED
  BY <1>1, <1>2, Invariance, OrderInvariance, Rigid, PTL DEF Spec

-----------------------------------------------------------------------------
(* The steps of JailOrder.                                                 *)

(* This step leaves the command line and who is asked for; in JailOrder    *)
(* a jail has the status that its fields say.                              *)
Framed ==
  /\ UNCHANGED <<OfTheLine, Running, ToStart, EndedNow>>
  /\ StatusNow = [j \in Jails |-> StatusOf(j)]
  /\ StatusNow' = [j \in Jails |-> StatusOf(j)']
  /\ UpNow = up /\ UpNow' = up'

Follow == Order!ONext \/ UNCHANGED Order!ovars

(* In the main loop of a start of all jails every step but the exit does.  *)
LEMMA Frame ==
  ASSUME given' = given, Whole, Starts, WInv, WInv', Begun, Begun',
         pc # "exit", pc' # "exit"
  PROVE  Framed /\ ToStart = Jails
<1>1. Starts' /\ Op' = Op /\ Op = {"START"}
  BY DEF Starts, Op
<1>2. \A j \in Jails : Ops(flags[j]) = Op /\ Ops(flags'[j]) = Op
  BY <1>1 DEF WInv, Counted, Begun, Sched
<1>3. \A j \in Jails : "START" \in flags[j] /\ "START" \in flags'[j]
  BY <1>1, <1>2 DEF Ops
<1>4. OfTheLine' = OfTheLine /\ Running' = Running
  BY DEF OfTheLine, Running, Target, Named
<1>5. ToStart = Jails /\ ToStart' = Jails
  BY <1>1, <1>3 DEF ToStart
<1>6. EndedNow = "no" /\ EndedNow' = "no"
  BY DEF EndedNow
<1>7. /\ StatusNow = [j \in Jails |-> StatusOf(j)]
      /\ StatusNow' = [j \in Jails |-> StatusOf(j)']
  BY <1>1 DEF StatusNow
<1>8. UpNow = up /\ UpNow' = up'
  BY <1>1 DEF UpNow
<1> QED
  BY <1>4, <1>5, <1>6, <1>7, <1>8 DEF Framed

(* A jail whose fields stay has the status it had.                         *)
LEMMA StatusStays ==
  ASSUME NEW k \in Jails, "FAILED" \in flags'[k] <=> "FAILED" \in flags[k],
         list'[k] = list[k], pos'[k] = pos[k], jid'[k] = jid[k]
  PROVE  StatusOf(k)' = StatusOf(k)
BY DEF StatusOf, Good, Through

(* Whatever changes no status and no jail of the kernel is no step.        *)
LEMMA Still ==
  ASSUME Framed, up' = up, \A k \in Jails : StatusOf(k)' = StatusOf(k)
  PROVE  Follow
<1>1. StatusNow' = StatusNow
  BY DEF Framed
<1>2. UpNow' = UpNow
  BY DEF Framed
<1> QED
  BY <1>1, <1>2 DEF Framed, Follow, Order!ovars

(* What depends on a jail.                                                 *)
LEMMA Depending ==
  ASSUME NEW e \in Edge
  PROVE  Deps[e].to \in Order!DependsOn(Deps[e].from)
BY DEF Order!DependsOn

(* Jails fail with one that they depend on, or one by itself.              *)
LEMMA Fails ==
  ASSUME Framed, up' = up, NEW F \in SUBSET Jails,
         \A k \in Jails :
           StatusOf(k)' = IF k \in F THEN "failed" ELSE StatusOf(k),
         \/ \E j \in Jails : F = {j}
         \/ \E d \in Jails : /\ StatusOf(d) = "failed"
                             /\ \A j \in F : \E e \in Edge :
                                  Deps[e].from = j /\ Deps[e].to = d
  PROVE  Follow
<1>1. StatusNow' = [k \in Jails |-> IF k \in F THEN "failed" ELSE StatusNow[k]]
  BY DEF Framed
<1>2. \/ \E j \in Jails : F = {j}
      \/ \E d \in Order!In("failed") : \A j \in F : d \in Order!DependsOn(j)
  <2>1. CASE \E j \in Jails : F = {j}
    BY <2>1
  <2>2. CASE \E d \in Jails : /\ StatusOf(d) = "failed"
                              /\ \A j \in F : \E e \in Edge :
                                   Deps[e].from = j /\ Deps[e].to = d
    <3>1. PICK d \in Jails : /\ StatusOf(d) = "failed"
                             /\ \A j \in F : \E e \in Edge :
                                  Deps[e].from = j /\ Deps[e].to = d
      BY <2>2
    <3>2. d \in Order!In("failed")
      BY <3>1 DEF Order!In, Framed
    <3>3. \A j \in F : d \in Order!DependsOn(j)
      BY <3>1, Depending
    <3> QED
      BY <3>2, <3>3
  <2> QED
    BY <2>1, <2>2
<1>3. Order!Fail(F)
  BY <1>1, <1>2 DEF Order!Fail, Framed
<1>4. ToStart' = ToStart /\ UNCHANGED <<OfTheLine, Running>>
  BY DEF Framed
<1> QED
  BY <1>3, <1>4 DEF Follow, Order!ONext, Order!OStep

(* One jail comes through, is created, or is taken down.                   *)
LEMMA MovesOne ==
  ASSUME Framed, NEW j \in Jails,
         Order!Find(j) \/ Order!Create(j) \/ Order!GoThrough(j) \/ Order!TakeDown(j)
  PROVE  Follow
BY DEF Framed, Follow, Order!ONext, Order!OStep

(* A step of the main loop that spares the others is none of JailOrder, or *)
(* the failure of its jail.                                                *)
LEMMA OwnFailure ==
  ASSUME Framed, Kept, NEW c \in Jails, Spares(c), up' = up,
         \A k \in Jails \ {c} :
           list'[k] = list[k] /\ pos'[k] = pos[k] /\ jid'[k] = jid[k],
         "FAILED" \in flags'[c] \/ StatusOf(c)' = StatusOf(c)
  PROVE  Follow
<1>1. ASSUME NEW k \in Jails \ {c}
      PROVE  StatusOf(k)' = StatusOf(k)
  <2>1. "FAILED" \in flags'[k] <=> "FAILED" \in flags[k]
    BY DEF Spares, Kept
  <2> QED
    BY <2>1, StatusStays
<1>2. CASE StatusOf(c)' = StatusOf(c)
  BY <1>1, <1>2, Still
<1>3. CASE "FAILED" \in flags'[c]
  <2>1. StatusOf(c)' = "failed"
    BY <1>3 DEF StatusOf, Good
  <2>2. \A k \in Jails : StatusOf(k)' = IF k \in {c} THEN "failed" ELSE StatusOf(k)
    BY <1>1, <2>1
  <2> QED
    BY <2>2, Fails
<1> QED
  BY <1>2, <1>3

-----------------------------------------------------------------------------
(* The main loop of a start as steps of JailOrder.                         *)

(* The loop exits in next_jail() alone.                                    *)
LEMMA LoopGoesOn ==
  ASSUME MainLoop
  PROVE  pc' # "exit" /\ Begun'
<1>1. CASE \/ SkipFailed \/ BadParams \/ RunningJid \/ FinishNothing
           \/ FinishCommand \/ Resume \/ Update \/ Done \/ WaitForSlot
           \/ EnterCommands
  BY <1>1 DEF SkipFailed, BadParams, RunningJid, FinishNothing, FinishCommand,
     Resume, Update, Done, WaitForSlot, EnterCommands, Continue, Begun
<1>2. CASE \/ Turn \/ TurnRestart \/ Exists \/ NotFound \/ WaitForOthers
           \/ BeginStart \/ BeginStop \/ AlreadyRuns \/ NotRunning
           \/ AbandonStop
  <2>1. pc' \in {"op", "next", "next_command", "done"}
    BY <1>2 DEF Turn, TurnRestart, TurnInto, Refuse, Exists, NotFound,
       WaitForOthers, BeginStart, BeginStop, Begin, AlreadyRuns, NotRunning,
       AbandonStop, Unblocked, MayCheck, Single, Continue
  <2> QED
    BY <2>1 DEF Begun
<1>3. CASE \/ CommandsEnd \/ LeaveList \/ PassCommand \/ RunCommand
           \/ TermProcs \/ CreateJail \/ RemoveJail
  <2>1. pc' \in {"command", "next", "done", "crashed"}
    BY <1>3 DEF CommandsEnd, LeaveList, PassCommand, RunCommand, TermProcs,
       CreateJail, RemoveJail, Upcoming, Continue
  <2> QED
    BY <2>1 DEF Begun
<1> QED
  BY <1>1, <1>2, <1>3 DEF MainLoop

(* dep_done() of a failed jail fails those that depend on it, that of one  *)
(* that is through nobody.                                                 *)
LEMMA DoneFollows ==
  ASSUME IInv, OInv, Framed, Kept, NEW c \in Jails, c = cur, SkipFailed \/ Done
  PROVE  Follow
<1> DEFINE t == DepDone(Sched, c, FALSE, FALSE)
<1>1. pc \in InLoop /\ MainLoop
  BY DEF SkipFailed, Done, InLoop, MainLoop
<1>2. /\ Sched \in SchedType /\ Ordered(Sched) /\ Sched.flags = flags
      /\ Sched.seen = seen
  BY <1>1, InHandFacts
<1>3. Tells(Sched, t, c, FALSE)
  BY <1>2, DepDoneOrder
<1>4. Reports(Sched, t, c) /\ t \in SchedType
  <2>1. Announced(Sched, t, c, FALSE, FALSE)
    BY <1>2, DepDoneWhole
  <2>2. Reports(Sched, t, c)
    BY <1>2, DepDoneReports
  <2> HIDE DEF t
  <2> QED
    BY <2>1, <2>2 DEF Announced
<1>5. Ordered(t) /\ ("FAILED" \notin flags[c] => t.flags = flags)
  <2> HIDE DEF t
  <2> QED
    BY <1>2, <1>3 DEF Tells
<1>6. Become(t) /\ UNCHANGED <<list, pos, jid, up>>
  <2>1. "STOP" \notin t.flags[c]
    BY <1>5, StartsWaits DEF Ordered
  <2> QED
    BY <2>1 DEF SkipFailed, Done, coms
<1> HIDE DEF t
<1>7. flags' = t.flags
  BY <1>6 DEF Become
<1>8. CASE "FAILED" \notin flags[c]
  <2>1. \A k \in Jails : StatusOf(k)' = StatusOf(k)
    BY <1>5, <1>6, <1>7, <1>8, StatusStays
  <2> QED
    BY <1>6, <2>1, Still
<1>9. CASE "FAILED" \in flags[c]
  <2> DEFINE F == {k \in Jails : "FAILED" \in flags'[k] /\ "FAILED" \notin flags[k]}
  <2>1. ASSUME NEW k \in Jails
        PROVE  StatusOf(k)' = IF k \in F THEN "failed" ELSE StatusOf(k)
    <3>1. CASE k \in F
      BY <3>1 DEF StatusOf, Good
    <3>2. CASE k \notin F
      <4>1. "FAILED" \in flags'[k] <=> "FAILED" \in flags[k]
        BY <3>2 DEF Kept
      <4>2. StatusOf(k)' = StatusOf(k)
        BY <1>6, <4>1, StatusStays
      <4> QED
        BY <3>2, <4>2
    <3> QED
      BY <3>1, <3>2
  <2>2. ASSUME NEW k \in F
        PROVE  \E e \in Edge : Deps[e].from = k /\ Deps[e].to = c
    <3>1. k # c
      BY <1>9
    <3>2. PICK e \in t.seen \ seen : Deps[e].from = k
      BY <1>2, <1>4, <1>7, <3>1 DEF Reports
    <3>3. Deps[e].to = c
      BY <1>2, <1>4, <3>2 DEF Reports
    <3>4. e \in Edge
      BY <1>4, <3>2 DEF SchedType
    <3> QED
      BY <3>2, <3>3, <3>4
  <2>3. StatusOf(c) = "failed"
    BY <1>9 DEF StatusOf, Good
  <2>4. F \in SUBSET Jails
    OBVIOUS
  <2> HIDE DEF F
  <2> QED
    BY <1>6, <2>1, <2>2, <2>3, <2>4, Fails
<1> QED
  BY <1>8, <1>9

(* A jail that does not move in its list stays as it is, or fails.         *)
LEMMA QuietFollows ==
  ASSUME Framed, Kept, NEW c \in Jails, Spares(c),
         UNCHANGED <<list, pos, jid, up>>
  PROVE  Follow
<1>1. "FAILED" \in flags'[c] \/ StatusOf(c)' = StatusOf(c)
  <2>1. CASE "FAILED" \notin flags'[c]
    <3>1. "FAILED" \in flags'[c] <=> "FAILED" \in flags[c]
      BY <2>1 DEF Kept
    <3> QED
      BY <3>1, StatusStays
  <2> QED
    BY <2>1
<1> QED
  BY <1>1, OwnFailure

(* running_jid() finds a jail that ran before.                             *)
LEMMA RunningJidFollows ==
  ASSUME IInv, OInv, EInv, Framed, Kept, NEW c \in Jails, c = cur, RunningJid
  PROVE  Follow
<1>1. Spares(c) /\ MainLoop
  BY HeadSpares DEF MainLoop
<1>2. /\ list' = list /\ pos' = pos /\ up' = up
      /\ jid' = [jid EXCEPT ![c] = IF @ # 0 THEN @
                                   ELSE IF c \in up THEN 1 ELSE -1]
  BY DEF RunningJid, coms
<1>3. jid \in [Jails -> {-1, 0, 1}] /\ list[c] \in {"NULL", "start", "stop"}
      /\ pos[c] \in Int
  BY DEF IInv, TypeOK
<1>4. /\ jid'[c] = IF jid[c] # 0 THEN jid[c] ELSE IF c \in up THEN 1 ELSE -1
      /\ \A k \in Jails \ {c} : jid'[k] = jid[k]
  BY <1>2, <1>3
<1>5. CASE "FAILED" \in flags'[c] \/ StatusOf(c)' = StatusOf(c)
  BY <1>1, <1>2, <1>4, <1>5, OwnFailure
<1>6. CASE "FAILED" \notin flags'[c] /\ StatusOf(c)' # StatusOf(c)
  <2>1. "FAILED" \notin flags[c]
    BY <1>6 DEF Kept
  <2>2. jid'[c] # jid[c]
    BY <1>2, <1>6, <2>1, StatusStays
  <2>3. jid[c] = 0
    BY <1>4, <2>2
  <2>4. list[c] = "NULL"
    <3>1. list[c] # "stop" /\ (list[c] # "NULL" /\ pos[c] >= 4 => jid[c] = 1)
      BY <2>1 DEF OInv, Fit
    <3>2. list[c] = "start" /\ pos[c] <= 3 => jid[c] = -1
      BY <2>1 DEF EInv, Placed
    <3> QED
      BY <1>3, <2>3, <3>1, <3>2
  <2>5. StatusOf(c) = "waiting"
    BY <2>1, <2>3 DEF StatusOf, Good
  <2>6. jid'[c] = 1 /\ c \in up
    <3>1. CASE c \notin up
      <4>1. jid'[c] = -1
        BY <1>4, <2>3, <3>1
      <4>2. StatusOf(c)' = "waiting"
        BY <1>6, <4>1 DEF StatusOf, Good
      <4> QED
        BY <1>6, <2>5, <4>2
    <3>2. CASE c \in up
      BY <1>4, <2>3, <3>2
    <3> QED
      BY <3>1, <3>2
  <2>7. StatusOf(c)' = "through"
    BY <1>2, <1>6, <2>4, <2>6 DEF StatusOf, Good, Through
  <2>8. ASSUME NEW k \in Jails \ {c}
        PROVE  StatusOf(k)' = StatusOf(k)
    <3>1. "FAILED" \in flags'[k] <=> "FAILED" \in flags[k]
      BY <1>1 DEF Spares, Kept
    <3> QED
      BY <1>2, <1>4, <3>1, StatusStays
  <2>9. StatusNow' = [StatusNow EXCEPT ![c] = "through"]
    BY <2>7, <2>8 DEF Framed
  <2>10. Order!Find(c)
    BY <1>2, <2>5, <2>6, <2>9 DEF Order!Find, Framed
  <2> QED
    BY <2>10, MovesOne
<1> QED
  BY <1>5, <1>6

(* A jail that begins to start waits to be created.                        *)
LEMMA BeginStartFollows ==
  ASSUME IInv, OInv, Framed, Kept, NEW c \in Jails, c = cur, BeginStart
  PROVE  Follow
<1>1. Spares(c) /\ MainLoop
  BY OperationSpares DEF MainLoop
<1>2. jid[c] < 0 /\ jid' = jid /\ up' = up
  BY DEF BeginStart, Begin
<1>3. jid[c] \in {-1, 0, 1}
  BY DEF IInv, TypeOK
<1>4. \A k \in Jails \ {c} :
        list'[k] = list[k] /\ pos'[k] = pos[k] /\ jid'[k] = jid[k]
  BY <1>1, FieldsOfStart
<1>5. "FAILED" \notin flags'[c] => StatusOf(c)' = StatusOf(c)
  <2> SUFFICES ASSUME "FAILED" \notin flags'[c]
               PROVE  StatusOf(c)' = StatusOf(c)
    OBVIOUS
  <2>1. "FAILED" \notin flags[c] /\ ~(jid[c] > 0)
    BY <1>2, <1>3 DEF Kept
  <2> QED
    BY <1>2, <2>1 DEF StatusOf, Good
<1> QED
  BY <1>1, <1>2, <1>4, <1>5, OwnFailure

(* A command behind the creation may be the last one.                      *)
LEMMA AdvanceFollows ==
  ASSUME IInv, OInv, Framed, Kept, NEW c \in Jails, c = cur, pc = "command",
         Advance, Spares(c), jid' = jid, up' = up
  PROVE  Follow
<1>1. /\ list[c] = "start"
      /\ "FAILED" \notin flags[c] => Next1 = pos[c] + 1 /\ Next1 \in 0 .. 6
  BY StartNext
<1>2. /\ list' = list /\ pos'[c] = Next1
      /\ \A k \in Jails \ {c} : pos'[k] = pos[k]
  BY DEF Advance, IInv, TypeOK
<1>3. pos[c] \in Int /\ jid[c] \in {-1, 0, 1}
  BY DEF IInv, TypeOK
<1> HIDE DEF Next1
<1>4. CASE "FAILED" \in flags'[c] \/ StatusOf(c)' = StatusOf(c)
  BY <1>2, <1>4, OwnFailure
<1>5. CASE "FAILED" \notin flags'[c] /\ StatusOf(c)' # StatusOf(c)
  <2>1. "FAILED" \notin flags[c]
    BY <1>5 DEF Kept
  <2>2. jid[c] > 0
    BY <1>5, <2>1 DEF StatusOf, Good
  <2>3. ~Through(c)
    <3>1. pos[c] # 6
      BY <1>1, <1>3, <2>1
    <3> QED
      BY <1>1, <3>1, StartList DEF Through
  <2>4. StatusOf(c) = "made"
    BY <2>1, <2>2, <2>3 DEF StatusOf, Good
  <2>5. StatusOf(c)' = "through"
    BY <1>5, <2>2, <2>4 DEF StatusOf, Good
  <2>6. ASSUME NEW k \in Jails \ {c}
        PROVE  StatusOf(k)' = StatusOf(k)
    <3>1. "FAILED" \in flags'[k] <=> "FAILED" \in flags[k]
      BY DEF Spares, Kept
    <3> QED
      BY <1>2, <3>1, StatusStays
  <2>7. StatusNow' = [StatusNow EXCEPT ![c] = "through"]
    BY <2>5, <2>6 DEF Framed
  <2>8. Order!GoThrough(c)
    BY <2>4, <2>7 DEF Order!GoThrough, Framed
  <2> QED
    BY <2>8, MovesOne
<1> QED
  BY <1>4, <1>5

(* No dependency is light when no jail is inside of another.               *)
LEMMA FlatNoLight == Flat => NoLight
BY DepsAssumption DEF Flat, NoLight, Edge

(* What a jail to be created depends on runs and is through.               *)
LEMMA NeedsThrough ==
  ASSUME IInv, OInv, EInv, Flat, NEW c \in Jails, pc = "command", list[c] # "NULL",
         "FAILED" \notin flags[c], NEW e \in Edge, Deps[e].from = c
  PROVE  Deps[e].to \in Jails /\ Deps[e].to \in up /\ StatusOf(Deps[e].to) = "through"
<1> DEFINE d == Deps[e].to
<1>1. NoLight /\ d \in Jails
  BY FlatNoLight, EdgeEnds
<1>2. e \in seen
  <2>1. Fit(c)
    BY DEF OInv
  <2>2. Met(c)
    BY <2>1 DEF Fit
  <2> QED
    BY <1>1, <2>2 DEF Met, Needs, NoLight
<1>3. Served(d)
  <2>1. Begun
    BY DEF Begun
  <2>2. Known(e)
    BY <1>2, <2>1 DEF OInv
  <2> QED
    BY <1>1, <2>2 DEF Known, NoLight
<1>4. d \in up
  <2>1. Fit(d)
    BY <1>1 DEF OInv
  <2>2. ~Taken(d)
    BY DEF Taken, Flat
  <2> QED
    BY <1>3, <2>1, <2>2 DEF Fit, Served
<1>5. "FAILED" \notin flags[d]
  <2>1. Spread
    BY <1>1 DEF EInv, Begun
  <2> QED
    BY <1>2, <2>1 DEF Spread
<1>6. StatusOf(d) = "through"
  BY <1>3, <1>5 DEF StatusOf, Good, Served
<1> QED
  BY <1>1, <1>4, <1>6

(* create_jail() creates a jail in its turn, or fails it.                  *)
LEMMA CreateJailFollows ==
  ASSUME IInv, OInv, EInv, Flat, Framed, Kept, ToStart = Jails,
         NEW c \in Jails, c = cur, CreateJail
  PROVE  Follow
<1> DEFINE t == DepDone(Sched, c, TRUE, FALSE)
           u == Failed(Sched, c)
<1>1. pc = "command" /\ Advance /\ "FAILED" \notin flags[c] /\ Upcoming("OP")
  BY DEF CreateJail, Upcoming
<1>2. \/ /\ up' = up \cup {c} /\ jid' = [jid EXCEPT ![c] = 1] /\ Become(t)
      \/ /\ jid' = [jid EXCEPT ![c] = -1] /\ Become(u) /\ up' = up
  BY DEF CreateJail
<1>3. /\ pc \in InLoop /\ list[c] = "start" /\ Next1 \in 0 .. 6
      /\ Next1 = pos[c] + 1
  BY <1>1, StartNext
<1>4. /\ Sched \in SchedType /\ Ordered(Sched) /\ Sched.flags = flags
      /\ Sched.seen = seen
  BY <1>3, InHandFacts
<1>5. Next1 = 4
  <2>1. CommandList["start"][Next1] = "OP" /\ Next1 \in 1 .. 6
    BY <1>1, <1>3, StartList DEF Upcoming, InList
  <2> HIDE DEF Next1
  <2> QED
    BY <2>1, StartList
<1>6. pos[c] = 3
  <2>1. pos[c] \in Int
    BY DEF IInv, TypeOK
  <2> HIDE DEF Next1
  <2> QED
    BY <1>3, <1>5, <2>1
<1>7. jid[c] = -1 /\ c \notin up
  BY <1>1, <1>3, <1>6 DEF EInv, Placed
<1>8. Spares(c) /\ MainLoop
  BY CommandSpares DEF MainLoop
<1>9. \A k \in Jails \ {c} :
        list'[k] = list[k] /\ pos'[k] = pos[k] /\ jid'[k] = jid[k]
  BY <1>8, FieldsOfStart
<1> HIDE DEF Next1
<1>10. CASE Become(u) /\ up' = up
  <2>1. "FAILED" \in u.flags[c]
    BY <1>4, FailedOrder
  <2> HIDE DEF u
  <2>2. "FAILED" \in flags'[c]
    BY <1>10, <2>1 DEF Become
  <2> QED
    BY <1>8, <1>9, <1>10, <2>2, OwnFailure
<1>11. CASE up' = up \cup {c} /\ jid' = [jid EXCEPT ![c] = 1] /\ Become(t)
  <2>1. Tells(Sched, t, c, TRUE)
    BY <1>4, DepDoneOrder
  <2> HIDE DEF t, u
  <2>2. flags' = flags
    BY <1>1, <1>4, <1>11, <2>1 DEF Tells, Become
  <2>3. list' = list /\ pos'[c] = 4
    BY <1>1, <1>5, CursorMoves
  <2>4. jid'[c] = 1
    BY <1>11 DEF IInv, TypeOK
  <2>5. StatusOf(c) = "waiting"
    BY <1>1, <1>7 DEF StatusOf, Good
  <2>6. StatusOf(c)' = "made"
    <3>1. ~Through(c)'
      BY <1>3, <2>3, StartList DEF Through
    <3> QED
      BY <1>1, <2>2, <2>4, <3>1 DEF StatusOf, Good
  <2>7. ASSUME NEW k \in Jails \ {c}
        PROVE  StatusOf(k)' = StatusOf(k)
    BY <1>9, <2>2, StatusStays
  <2>8. StatusNow' = [StatusNow EXCEPT ![c] = "made"]
    BY <2>6, <2>7 DEF Framed
  <2>9. ASSUME NEW e \in Edge, Deps[e].from = c
        PROVE  Deps[e].to \in UpNow /\ StatusNow[Deps[e].to] = "through"
    <3>1. Deps[e].to \in Jails /\ Deps[e].to \in up /\ StatusOf(Deps[e].to) = "through"
      BY <1>1, <1>3, <2>9, NeedsThrough
    <3> QED
      BY <3>1 DEF Framed
  <2>10. \A x \in {Deps[e] : e \in Edge} : x.from = c =>
           x.to \in UpNow /\ (~x.light => StatusNow[x.to] = "through")
    BY <2>9
  <2>11. StatusNow[c] = "waiting" /\ c \in ToStart \ UpNow /\ UpNow' = UpNow \cup {c}
    BY <1>7, <1>11, <2>5 DEF Framed
  <2>12. ToStart' = ToStart /\ EndedNow' = EndedNow
    BY DEF Framed
  <2>13. Order!Create(c)
    BY <2>8, <2>10, <2>11, <2>12 DEF Order!Create
  <2> QED
    BY <2>13, MovesOne
<1> QED
  BY <1>2, <1>10, <1>11

(* jail_remove(2) takes down a jail that failed and did not run before, or *)
(* is refused.                                                             *)
LEMMA RemoveJailFollows ==
  ASSUME IInv, OInv, FInv, Flat, given \in Given, Framed, Kept,
         NEW c \in Jails, c = cur, RemoveJail
  PROVE  Follow
<1>1. pc = "command" /\ Advance
  BY DEF RemoveJail, Upcoming
<1>2. pc \in InLoop /\ list[c] = "start"
  BY <1>1, StartNext
<1>3. "STOP" \notin flags[c]
  BY <1>2, InHandFacts
<1>4. "FAILED" \in flags[c]
  BY <1>3 DEF RemoveJail
<1>5. "FAILED" \in flags'[c]
  BY <1>4 DEF Kept
<1>6. Spares(c) /\ MainLoop
  BY CommandSpares DEF MainLoop
<1>7. \A k \in Jails \ {c} :
        list'[k] = list[k] /\ pos'[k] = pos[k] /\ jid'[k] = jid[k]
  BY <1>6, FieldsOfStart
<1>8. \/ up' = up \ ({c} \cup {k \in Jails : <<k, c>> \in Under})
      \/ up' = up
  BY DEF RemoveJail
<1>9. CASE up' = up
  BY <1>5, <1>6, <1>7, <1>9, OwnFailure
<1>10. CASE up' = up \ ({c} \cup {k \in Jails : <<k, c>> \in Under})
  <2>1. ASSUME NEW k \in Jails
        PROVE  StatusOf(k)' = StatusOf(k)
    <3>1. CASE k = c
      BY <1>4, <1>5, <3>1 DEF StatusOf, Good
    <3>2. CASE k # c
      <4>1. "FAILED" \in flags'[k] <=> "FAILED" \in flags[k]
        BY <1>6, <3>2 DEF Spares, Kept
      <4> QED
        BY <1>7, <3>2, <4>1, StatusStays
    <3> QED
      BY <3>1, <3>2
  <2>2. StatusNow' = StatusNow
    BY <2>1 DEF Framed
  <2>3. c \in Order!In("failed")
    BY <1>4 DEF Order!In, StatusOf, Good, Framed
  <2>4. c \notin Running
    BY <1>2 DEF FInv
  <2>5. /\ ToStart' = ToStart /\ EndedNow' = EndedNow
        /\ UpNow' = UpNow \ ({c} \cup {k \in Jails : <<k, c>> \in Under})
    BY <1>10 DEF Framed
  <2>6. Order!TakeDown(c)
    BY <2>2, <2>3, <2>4, <2>5 DEF Order!TakeDown
  <2> QED
    BY <2>6, MovesOne
<1> QED
  BY <1>8, <1>9, <1>10

(* So the main loop follows JailOrder.                                     *)
LEMMA MainLoopFollows ==
  ASSUME IInv, OInv, EInv, FInv, Flat, given \in Given, Framed, Kept,
         ToStart = Jails, MainLoop
  PROVE  Follow
<1>1. cur \in Jails
  BY CurInJails
<1> DEFINE c == cur
<1>2. CASE SkipFailed \/ Done
  BY <1>1, <1>2, DoneFollows
<1>3. CASE BadParams \/ FinishNothing \/ FinishCommand
  <2>1. Spares(c)
    BY <1>1, <1>3, HeadSpares
  <2>2. UNCHANGED <<list, pos, jid, up>>
    BY <1>3 DEF BadParams, FinishNothing, FinishCommand, coms
  <2> QED
    BY <1>1, <2>1, <2>2, QuietFollows
<1>4. CASE Exists \/ WaitForOthers \/ AlreadyRuns \/ Resume
  <2>1. Spares(c)
    BY <1>1, <1>4, OperationSpares
  <2>2. UNCHANGED <<list, pos, jid, up>>
    BY <1>4 DEF Exists, Refuse, WaitForOthers, AlreadyRuns, Resume, coms
  <2> QED
    BY <1>1, <2>1, <2>2, QuietFollows
<1>5. CASE WaitForSlot \/ EnterCommands
  <2>1. Spares(c)
    BY <1>1, <1>5, CommandSpares
  <2>2. UNCHANGED <<list, pos, jid, up>>
    BY <1>5 DEF WaitForSlot, EnterCommands, coms
  <2> QED
    BY <1>1, <2>1, <2>2, QuietFollows
<1>6. CASE CommandsEnd \/ LeaveList \/ PassCommand \/ RunCommand \/ TermProcs
  <2>1. Spares(c)
    BY <1>1, <1>6, CommandSpares
  <2>2. pc = "command" /\ Advance /\ jid' = jid /\ up' = up
    BY <1>6 DEF CommandsEnd, LeaveList, PassCommand, RunCommand, TermProcs, Upcoming
  <2> QED
    BY <1>1, <2>1, <2>2, AdvanceFollows
<1>7. CASE RunningJid
  BY <1>1, <1>7, RunningJidFollows
<1>8. CASE BeginStart
  BY <1>1, <1>8, BeginStartFollows
<1>9. CASE CreateJail
  BY <1>1, <1>9, CreateJailFollows
<1>10. CASE RemoveJail
  BY <1>1, <1>10, RemoveJailFollows
<1> QED
  BY <1>1, LoopOfStart, <1>2, <1>3, <1>4, <1>5, <1>6, <1>7, <1>8, <1>9, <1>10

-----------------------------------------------------------------------------
(* The steps outside of the main loop.                                     *)

(* Before the main loop nobody is asked for.                               *)
LEMMA NotAskedYet ==
  ASSUME Fresh, pc \in {"setup", "loops"}
  PROVE  ToStart = {} /\ EndedNow = "no"
BY DEF Fresh, ToStart, EndedNow

(* dep_setup() and its loop check may fail one jail.                       *)
LEMMA SetupFollows ==
  ASSUME IInv, IInv', Whole, Starts, given' = given, Kept,
         DepSetup \/ \E j \in Jails : LoopCheck(j)
  PROVE  Follow
<1>1. pc \in {"setup", "loops"} /\ pc' \in {"setup", "loops"}
  BY DEF DepSetup, LoopCheck
<1>2. UNCHANGED <<list, pos, jid, up>>
  BY DEF DepSetup, LoopCheck, coms
<1>3. Framed
  <2>1. Starts' /\ OfTheLine' = OfTheLine /\ Running' = Running
    BY DEF Starts, Op, OfTheLine, Running, Target, Named
  <2>2. Fresh /\ Fresh'
    BY DEF IInv
  <2>3. ToStart = {} /\ ToStart' = {}
    BY <1>1, <2>2 DEF Fresh, ToStart
  <2>4. EndedNow = "no" /\ EndedNow' = "no"
    BY <1>1 DEF EndedNow
  <2> QED
    BY <2>1, <2>3, <2>4 DEF Framed, StatusNow, UpNow
<1>4. CASE DepSetup
  <2>1. Sched \in SchedType /\ Fresh
    BY SchedIn DEF IInv
  <2>2. \A k \in Jails : flags'[k] = flags[k] \cap {"FAILED"}
    BY <1>4 DEF DepSetup, Become, StartState, DepReset, Sched
  <2>3. ASSUME NEW k \in Jails
        PROVE  StatusOf(k)' = StatusOf(k)
    <3>1. "FAILED" \in flags'[k] <=> "FAILED" \in flags[k]
      BY <2>2
    <3> QED
      BY <1>2, <3>1, StatusStays
  <2> QED
    BY <1>2, <1>3, <2>3, Still
<1>5. CASE \E j \in Jails : LoopCheck(j)
  <2>1. PICK j \in Jails : LoopCheck(j)
    BY <1>5
  <2> DEFINE loop == IF queue[j] = "depend" THEN {"FAILED"} ELSE {}
             s == [Sched EXCEPT !.flags = [flags EXCEPT ![j] = @ \cup loop]]
             r == Requeue(s, {j}, "cfjails", {})
  <2>2. flags' = DepDone(r, j, FALSE, TRUE).flags
    BY <2>1 DEF LoopCheck, Become
  <2>3. DepDone(r, j, FALSE, TRUE).flags = [k \in Jails |-> r.flags[k]]
    <3> HIDE DEF r
    <3> QED
      BY DEF DepDone, Requeue
  <2>4. r.flags = [flags EXCEPT ![j] = @ \cup loop]
    BY DEF Requeue, Sched
  <2> HIDE DEF r, s
  <2>5. flags \in [Jails -> SUBSET Flag]
    BY DEF IInv, TypeOK
  <2>6. \A k \in Jails \ {j} : flags'[k] = flags[k]
    BY <2>2, <2>3, <2>4, <2>5
  <2>7. Spares(j)
    BY <2>6 DEF Spares
  <2> QED
    BY <1>2, <1>3, <2>7, QuietFollows
<1> QED
  BY <1>4, <1>5

(* The command line asks for all jails.                                    *)
LEMMA JailMainFollows ==
  ASSUME IInv, Whole, Starts, WInv', given' = given, JailMain
  PROVE  Follow
<1>1. pc \in {"setup", "loops"} /\ pc' = "next"
  BY DEF JailMain
<1>2. UNCHANGED <<list, pos, jid, up>>
  BY DEF JailMain, coms
<1>3. Starts' /\ OfTheLine' = OfTheLine /\ Running' = Running /\ Op' = Op
  BY DEF Starts, Op, OfTheLine, Running, Target, Named
<1>4. ToStart = {} /\ EndedNow = "no" /\ EndedNow' = "no"
  <2>1. ToStart = {} /\ EndedNow = "no"
    BY <1>1, NotAskedYet DEF IInv
  <2>2. EndedNow' = "no"
    BY <1>1 DEF EndedNow
  <2> QED
    BY <2>1, <2>2
<1>5. ToStart' = Jails
  <2>1. \A j \in Jails : Ops(flags'[j]) = {"START"}
    BY <1>1, <1>3 DEF WInv, Counted, Begun, Sched, Starts
  <2> QED
    BY <1>3, <2>1 DEF ToStart, Ops
<1>6. \A k \in Jails : "FAILED" \in flags'[k] <=> "FAILED" \in flags[k]
  <2>1. Target = "all" /\ Op = {"START"}
    BY DEF Whole, Starts
  <2>2. \A k \in Jails :
          flags'[k] = (flags[k] \cap {"FAILED"}) \cup ({"START"} \cup {"WILD"})
    BY <2>1 DEF JailMain, Become, StartState, DepReset, Sched
  <2> QED
    BY <2>2
<1>7. StatusNow' = StatusNow
  <2>1. \A k \in Jails : StatusOf(k)' = StatusOf(k)
    BY <1>2, <1>6, StatusStays
  <2> QED
    BY <1>3, <2>1 DEF StatusNow
<1>8. UpNow' = UpNow
  BY <1>2, <1>3 DEF UpNow
<1>9. OfTheLine = Jails
  BY DEF OfTheLine, Whole
<1>10. Order!Ask(Jails)
  BY <1>4, <1>5, <1>8, <1>9 DEF Order!Ask
<1> QED
  BY <1>3, <1>7, <1>10 DEF Follow, Order!ONext, Order!OStep

(* next_jail() only takes a jail off its queue.                            *)
LEMMA TakeFollows ==
  ASSUME IInv, Framed, Kept,
         \/ \E j \in Jails, bad \in BOOLEAN : CommandExits(j, bad)
         \/ \E j \in Jails : CommandTimesOut(j)
         \/ \E j \in Jails : NextReady(j)
  PROVE  Follow
<1>1. UNCHANGED <<list, pos, jid, up>>
  BY DEF CommandExits, CommandTimesOut, NextReady, coms
<1>2. PICK j \in Jails : \/ flags' = flags
                         \/ flags' = [flags EXCEPT ![j] = @ \cup {"TIMEOUT"}]
  <2>1. ASSUME NEW j \in Jails, NEW f, Take(j, f)
        PROVE  flags' = f
    BY <2>1 DEF Take, Become, Requeue, Sched
  <2>2. PICK j \in Jails :
          Take(j, flags) \/ Take(j, [flags EXCEPT ![j] = @ \cup {"TIMEOUT"}])
    BY DEF CommandExits, CommandTimesOut, NextReady
  <2> QED
    BY <2>1, <2>2
<1>3. Spares(j)
  BY <1>2 DEF Spares, IInv, TypeOK
<1> QED
  BY <1>1, <1>3, QuietFollows

(* When the main loop has nothing left each jail is through or has failed, *)
(* and the exit status tells.                                              *)
LEMMA ExitFollows ==
  ASSUME IInv, EInv, FInv, HInv, WInv, Whole, Starts, given' = given, Settled', Exit
  PROVE  Follow
<1>1. pc = "next" /\ pc' = "exit"
  BY DEF Exit
<1>2. UNCHANGED <<sched, list, pos, jid, up, error>>
  BY DEF Exit, coms
<1>3. Starts' /\ OfTheLine' = OfTheLine /\ Running' = Running
  BY DEF Starts, Op, OfTheLine, Running, Target, Named
<1>4. \A k \in Jails : queue[k] = "cfjails"
  BY <1>1, <1>2 DEF Settled, sched
<1>5. \A k \in Jails : "START" \in flags[k] /\ ~Held(k)
  <2>1. \A k \in Jails : Ops(flags[k]) = {"START"}
    BY <1>1 DEF WInv, Counted, Begun, Sched, Starts
  <2> QED
    BY <1>1, <1>4, <2>1 DEF Ops, Held, InLoop
<1>6. ToStart = Jails /\ ToStart' = Jails
  BY <1>2, <1>3, <1>5 DEF ToStart, sched
<1>7. StatusNow' = StatusNow /\ UpNow' = UpNow
  <2>1. \A k \in Jails : StatusOf(k)' = StatusOf(k)
    BY <1>2, StatusStays DEF sched
  <2> QED
    BY <1>2, <1>3, <2>1 DEF StatusNow, UpNow
<1>8. StatusNow = [k \in Jails |-> StatusOf(k)]
  BY DEF StatusNow
<1>9. ASSUME NEW k \in Jails
      PROVE  /\ StatusNow[k] \in {"through", "failed"}
             /\ StatusNow[k] = "failed" <=> "FAILED" \in flags[k]
  <2>1. "FAILED" \notin flags[k] => jid[k] = 1 /\ Through(k)
    BY <1>1, <1>5 DEF EInv, Finished, Begun
  <2> QED
    BY <1>8, <2>1 DEF StatusOf, Good
<1>10. error <=> \E k \in Jails : "FAILED" \in flags[k]
  <2>1. error => \E k \in Jails : "FAILED" \in flags[k]
    BY DEF FInv
  <2>2. (\E k \in Jails : "FAILED" \in flags[k]) => error
    BY <1>1, <1>4 DEF HInv, Heard, Begun
  <2> QED
    BY <2>1, <2>2
<1>11. EndedNow = "no" /\ EndedNow' = IF error THEN "bad" ELSE "good"
  BY <1>1, <1>2, <1>3 DEF EndedNow
<1>12. ToStart \cap Order!In("failed") = {} <=> ~error
  BY <1>6, <1>9, <1>10 DEF Order!In
<1>13. Order!End
  BY <1>6, <1>7, <1>9, <1>11, <1>12 DEF Order!End
<1> QED
  BY <1>3, <1>13 DEF Follow, Order!ONext, Order!OStep

(* A start of all jails that are not inside of each other begins as        *)
(* JailOrder does.                                                         *)
LEMMA StartsAsOrder ==
  ASSUME Init, Starts
  PROVE  Order!OInit
<1>1. pc = "setup" /\ up = Running
  BY DEF Init
<1>2. ToStart = {} /\ EndedNow = "no"
  BY <1>1 DEF Init, ToStart, EndedNow
<1>3. StatusNow = [j \in Jails |-> IF j \in BadConf THEN "failed" ELSE "waiting"]
  <2>1. \A j \in Jails : StatusOf(j) = IF j \in BadConf THEN "failed" ELSE "waiting"
    BY DEF Init, StatusOf, Good
  <2> QED
    BY <2>1 DEF StatusNow
<1>4. Running \in SUBSET Jails /\ OfTheLine \in SUBSET Jails
  BY GivenIn DEF Init, OfTheLine
<1>5. UpNow = Running
  BY <1>1 DEF UpNow
<1> QED
  BY <1>2, <1>3, <1>4, <1>5 DEF Order!OInit

(* What the steps need to know of a state.                                 *)
PInv ==
  IInv /\ OInv /\ EInv /\ FInv /\ WInv /\ HInv /\ given \in Given

(* Each step of it is one of JailOrder, or none.                           *)
LEMMA NextFollows ==
  ASSUME PInv, PInv', Flat, Whole, Starts, Settled', [Next]_vars
  PROVE  Follow
<1>1. given' = given /\ Kept
  BY GivenStays, NextIInv DEF PInv
<1>2. CASE UNCHANGED vars
  BY <1>2 DEF Follow, Order!ovars, OfTheLine, Running, ToStart, StatusNow, UpNow,
     EndedNow, Starts, Op, Target, Named, StatusOf, Good, Through, vars, coms, sched
<1>3. CASE DepSetup \/ \E j \in Jails : LoopCheck(j)
  BY <1>1, <1>3, SetupFollows DEF PInv
<1>4. CASE JailMain
  BY <1>1, <1>4, JailMainFollows DEF PInv
<1>5. CASE \/ \E j \in Jails, bad \in BOOLEAN : CommandExits(j, bad)
           \/ \E j \in Jails : CommandTimesOut(j)
           \/ \E j \in Jails : NextReady(j)
  <2>1. pc = "next" /\ pc' = "begin"
    BY <1>5 DEF CommandExits, CommandTimesOut, NextReady, Take
  <2>2. Framed
    BY <1>1, <2>1, Frame DEF PInv, Begun
  <2> QED
    BY <1>1, <1>5, <2>2, TakeFollows DEF PInv
<1>6. CASE Exit
  BY <1>1, <1>6, ExitFollows DEF PInv
<1>7. CASE MainLoop
  <2>1. pc \in InLoop
    BY <1>7, CurInJails DEF PInv
  <2>2. pc # "exit" /\ Begun
    BY <2>1 DEF InLoop, Begun
  <2>3. pc' # "exit" /\ Begun'
    BY <1>7, LoopGoesOn
  <2>4. Framed /\ ToStart = Jails
    BY <1>1, <2>2, <2>3, Frame DEF PInv
  <2> QED
    BY <1>1, <1>7, <2>4, MainLoopFollows DEF PInv
<1> QED
  BY <1>2, <1>3, <1>4, <1>5, <1>6, <1>7 DEF Next

(* "jail -c" of all jails does what JailOrder promises: every step of the  *)
(* scheduler, with its queues, counts, commands and slots, is one of its   *)
(* steps or none, as long as no jail is inside of another one and the      *)
(* program does not exit with a jail in a queue.                           *)
THEOREM KeepsPromise ==
  Spec /\ [](Flat /\ Whole /\ Starts /\ Settled) => InOrder
<1> DEFINE H == Flat /\ Whole /\ Starts /\ Settled
<1>1. H /\ Init => Order!OInit
  BY StartsAsOrder
<1>2. /\ H /\ H' /\ IInv /\ IInv' /\ given \in Given /\ (given \in Given)'
      /\ (Op = {"START"} => OInv) /\ (Op = {"START"} => OInv)'
      /\ (Op = {"START"} => EInv) /\ (Op = {"START"} => EInv)'
      /\ (Flat /\ Op = {"START"} => FInv) /\ (Flat /\ Op = {"START"} => FInv)'
      /\ (Whole => WInv) /\ (Whole => WInv)'
      /\ (Whole => HInv /\ (Op # {"START"} => RInv))
      /\ (Whole => HInv /\ (Op # {"START"} => RInv))'
      /\ [Next]_vars
      => Follow
  <2> SUFFICES ASSUME H, H', IInv, IInv', given \in Given, (given \in Given)',
                 Op = {"START"} => OInv, (Op = {"START"} => OInv)',
                 Op = {"START"} => EInv, (Op = {"START"} => EInv)',
                 Flat /\ Op = {"START"} => FInv, (Flat /\ Op = {"START"} => FInv)',
                 Whole => WInv, (Whole => WInv)',
                 Whole => HInv /\ (Op # {"START"} => RInv),
                 (Whole => HInv /\ (Op # {"START"} => RInv))',
                 [Next]_vars
               PROVE  Follow
    OBVIOUS
  <2>1. PInv
    BY DEF PInv, Starts
  <2>2. PInv'
    BY DEF PInv, Starts
  <2> QED
    BY <2>1, <2>2, NextFollows
<1>3. Follow => [Order!ONext]_(Order!ovars)
  BY DEF Follow
<1> QED
  BY <1>1, <1>2, <1>3, Invariance, OrderInvariance, EndsInvariance,
     CountsInvariance, ReachInvariance, FlatInvariance, Rigid, PTL
     DEF Spec, InOrder, Order!OSpec

(* Nor does it exit so when the dependencies make no loop and there is no  *)
(* limit of parallel commands: then the promise is kept whatever fails.    *)
COROLLARY KeptWithoutLoops ==
  Spec /\ [](Flat /\ Whole /\ Starts /\ NoLoop /\ ParaLimit < 0) => InOrder
BY KeepsPromise, NoneLeft, PTL

(* When no jail is inside of another one none is taken down with one, and  *)
(* with -c a jail is created only behind what it depends on, which runs.   *)
COROLLARY CreatedFlat ==
  Spec /\ [](Flat /\ Op = {"START"}) => CreatedInOrder
<1>1. ASSUME Flat, Op = {"START"},
             \A j \in up' \ up, e \in Edge : Op = {"START"} /\ Deps[e].from = j =>
               LET d == Deps[e].to
               IN  IF Deps[e].light THEN d \in up
                   ELSE Through(d) /\ (d \in up \/ Taken(d))
      PROVE  \A j \in up' \ up : \A e \in Edge : Deps[e].from = j =>
               /\ Deps[e].to \in up
               /\ ~Deps[e].light => Through(Deps[e].to)
  <2>1. \A d : ~Taken(d)
    BY <1>1 DEF Taken, Flat
  <2> QED
    BY <1>1, <2>1
<1>2. Flat /\ Op = {"START"} =>
        ( [\A j \in up' \ up, e \in Edge : Op = {"START"} /\ Deps[e].from = j =>
             LET d == Deps[e].to
             IN  IF Deps[e].light THEN d \in up
                 ELSE Through(d) /\ (d \in up \/ Taken(d))]_vars
          => [\A j \in up' \ up : \A e \in Edge : Deps[e].from = j =>
               /\ Deps[e].to \in up
               /\ ~Deps[e].light => Through(Deps[e].to)]_vars )
  BY <1>1
<1> QED
  BY <1>2, CreatedAfter, PTL DEF StartedInOrder, CreatedInOrder
=============================================================================
