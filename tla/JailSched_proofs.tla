------------------------- MODULE JailSched_proofs -------------------------
(***************************************************************************)
(* Theorems about JailSched, for every configuration file, command line    *)
(* and environment: what the functions of state.c do to the scheduler's    *)
(* state, the inductive invariant, what a step of the main loop has to do  *)
(* to keep it, and that each action does so and takes the mark of failure  *)
(* from no jail.                                                           *)
(***************************************************************************)
EXTENDS JailSched, FiniteSetTheorems, SequenceTheorems, TLAPS

-----------------------------------------------------------------------------
(* The edges.                                                              *)

(* There are finitely many dependency edges.                               *)
LEMMA EdgesFinite == IsFiniteSet(Edge)
<1>1. Len(Deps) \in Nat
  BY DepsAssumption
<1> QED
  BY <1>1, FS_Interval DEF Edge

(* The ends of an edge are jails.                                          *)
LEMMA EdgeEnds ==
  ASSUME NEW e \in Edge
  PROVE  Deps[e].from \in Jails /\ Deps[e].to \in Jails
<1>1. Deps[e] \in [from : Jails, to : Jails, light : BOOLEAN]
  BY DepsAssumption, ElementOfSeq DEF Edge
<1> QED
  BY <1>1

(* What is at the other end of an edge is a jail.                          *)
LEMMA FarJail ==
  ASSUME NEW e \in Edge, NEW j
  PROVE  Far(e, j) \in Jails
BY EdgeEnds DEF Far

(* The number of any edges is a natural number.                            *)
LEMMA EdgeCount ==
  ASSUME NEW E \in SUBSET Edge
  PROVE  Cardinality(E) \in Nat
BY EdgesFinite, FS_Subset, FS_CardinalityType

(* So is the number of the edges a jail waits for.                         *)
LEMMA WaitsCount ==
  ASSUME NEW f, NEW j
  PROVE  Waits(f, j) \in SUBSET Edge /\ Cardinality(Waits(f, j)) \in Int
BY EdgeCount DEF Waits

-----------------------------------------------------------------------------
(* What the functions of state.c do to the scheduler's state.              *)

(* The jails that are moved together, and the orders they can be in.  Both *)
(* are names for the provers: a bare SUBSET is expanded at every use.      *)
Group == SUBSET Jails
Pairs == SUBSET (Jails \X Jails)

(* The scheduler states.                                                   *)
SchedType ==
  [flags : [Jails -> SUBSET Flag],
   ndeps : [Jails -> Int],
   seen  : SUBSET Edge,
   queue : [Jails -> Queue],
   ahead : SUBSET (Jails \X Jails)]

(* From s to t no failure is forgotten, no jail starts or stops waiting    *)
(* for a command, a jail with an operation keeps one and gets no SET.      *)
Steady(s, t) ==
  \A k \in Jails :
    /\ "FAILED" \in s.flags[k] => "FAILED" \in t.flags[k]
    /\ "SLEEPQ" \in s.flags[k] <=> "SLEEPQ" \in t.flags[k]
    /\ Ops(s.flags[k]) # {} => /\ Ops(t.flags[k]) # {}
                               /\ "SET" \in t.flags[k] => "SET" \in s.flags[k]

(* A jail other than those in S that has an operation stays on cfjails.    *)
Stays(s, t, S) ==
  \A k \in Jails \ S :
    s.queue[k] = "cfjails" /\ Ops(s.flags[k]) # {} => t.queue[k] = "cfjails"

(* The scheduler state s with the queues Q and the order A.                *)
WithQueues(s, Q, A) == [s EXCEPT !.queue = Q, !.ahead = A]

(* A scheduler state with other queues and another order is one.           *)
LEMMA SetQueues ==
  ASSUME NEW s \in SchedType, NEW Q \in [Jails -> Queue], NEW A \in Pairs
  PROVE  LET t == WithQueues(s, Q, A)
         IN  /\ t \in SchedType
             /\ t.flags = s.flags /\ t.ndeps = s.ndeps /\ t.seen = s.seen
             /\ t.queue = Q
<1>1. WithQueues(s, Q, A) = [flags |-> s.flags, ndeps |-> s.ndeps, seen |-> s.seen,
                             queue |-> Q, ahead |-> A]
  <2>1. ASSUME NEW t, t = [s EXCEPT !.queue = Q, !.ahead = A]
        PROVE  t = [flags |-> s.flags, ndeps |-> s.ndeps, seen |-> s.seen,
                    queue |-> Q, ahead |-> A]
    BY <2>1 DEF SchedType
  <2> QED
    BY <2>1, Zenon DEF WithQueues
<1> QED
  BY <1>1 DEF SchedType, Pairs

(* t is s with the jails of S in the queue q.                              *)
Moved(s, t, S, q) ==
  /\ t \in SchedType
  /\ t.flags = s.flags /\ t.ndeps = s.ndeps /\ t.seen = s.seen
  /\ \A k \in Jails : t.queue[k] = IF k \in S THEN q ELSE s.queue[k]

(* requeue() moves the jails it is given and changes nothing else.         *)
LEMMA Requeued ==
  ASSUME NEW s \in SchedType, NEW S \in Group, NEW q \in Queue,
         NEW R \in Pairs
  PROVE  Moved(s, Requeue(s, S, q, R), S, q)
<1> DEFINE M == {j \in S : s.queue[j] # q}
           Q == [j \in Jails |-> IF j \in M THEN q ELSE s.queue[j]]
           A == {p \in s.ahead : p[1] \notin M /\ p[2] \notin M}
                  \cup (InQueue(s, q) \X M) \cup {p \in M \X M : p \in R}
<1>1. s.queue \in [Jails -> Queue] /\ s.ahead \in SUBSET (Jails \X Jails)
  BY DEF SchedType
<1>2. Q \in [Jails -> Queue]
  BY <1>1
<1>3. A \in Pairs
  <2>1. M \in SUBSET Jails /\ InQueue(s, q) \in SUBSET Jails
    BY DEF InQueue, Group
  <2> HIDE DEF M
  <2> QED
    BY <1>1, <2>1 DEF Pairs
<1>4. Requeue(s, S, q, R) = WithQueues(s, Q, A)
  BY DEF Requeue, WithQueues
<1>5. \A k \in Jails : Q[k] = IF k \in S THEN q ELSE s.queue[k]
  OBVIOUS
<1> HIDE DEF Q, A
<1> QED
  BY <1>2, <1>3, <1>4, <1>5, SetQueues DEF Moved

(* A jail that is requeued is where it was sent.                           *)
LEMMA RequeueOne ==
  ASSUME NEW s \in SchedType, NEW j \in Jails, NEW q \in Queue
  PROVE  Moved(s, Requeue(s, {j}, q, {}), {j}, q)
<1>1. {j} \in Group /\ {} \in Pairs
  BY DEF Pairs, Group
<1> QED
  BY <1>1, Requeued

(* requeue_head() moves one jail and changes nothing else.                 *)
LEMMA RequeueHeadFacts ==
  ASSUME NEW s \in SchedType, NEW j \in Jails, NEW q \in Queue
  PROVE  Moved(s, RequeueHead(s, j, q), {j}, q)
<1> DEFINE Q == [s.queue EXCEPT ![j] = q]
           A == {p \in s.ahead : p[1] # j /\ p[2] # j} \cup ({j} \X (InQueue(s, q) \ {j}))
<1>1. s.queue \in [Jails -> Queue] /\ s.ahead \in SUBSET (Jails \X Jails)
  BY DEF SchedType
<1>2. Q \in [Jails -> Queue] /\ \A k \in Jails : Q[k] = IF k = j THEN q ELSE s.queue[k]
  BY <1>1
<1>3. A \in Pairs
  <2>1. InQueue(s, q) \in SUBSET Jails
    BY DEF InQueue
  <2> QED
    BY <1>1, <2>1 DEF Pairs
<1>4. RequeueHead(s, j, q) = WithQueues(s, Q, A)
  BY DEF RequeueHead, WithQueues
<1> HIDE DEF Q, A
<1> QED
  BY <1>2, <1>3, <1>4, SetQueues DEF Moved

(* A scheduler state with other flags is a scheduler state.                *)
LEMMA SetFlags ==
  ASSUME NEW s \in SchedType, NEW f \in [Jails -> SUBSET Flag]
  PROVE  LET t == [s EXCEPT !.flags = f]
         IN  /\ t \in SchedType /\ t.flags = f
             /\ t.queue = s.queue /\ t.ndeps = s.ndeps /\ t.seen = s.seen
BY DEF SchedType

(* failed() sets JF_FAILED and makes the jail ready.                       *)
LEMMA FailedFacts ==
  ASSUME NEW s \in SchedType, NEW j \in Jails
  PROVE  LET t == Failed(s, j)
         IN  /\ t \in SchedType
             /\ t.flags = [s.flags EXCEPT ![j] = @ \cup {"FAILED"}]
             /\ t.ndeps = s.ndeps /\ t.seen = s.seen
             /\ \A k \in Jails :
                  t.queue[k] = IF k = j THEN "ready" ELSE s.queue[k]
<1> DEFINE f == [s.flags EXCEPT ![j] = @ \cup {"FAILED"}]
           u == [s EXCEPT !.flags = f]
           t == Failed(s, j)
<1>1. f \in [Jails -> SUBSET Flag]
  BY DEF SchedType, Flag, OpFlag
<1>2. /\ u \in SchedType /\ u.flags = f
      /\ u.queue = s.queue /\ u.ndeps = s.ndeps /\ u.seen = s.seen
  <2> HIDE DEF f
  <2> QED
    BY <1>1, SetFlags
<1>3. "ready" \in Queue
  BY DEF Queue
<1>4. t = RequeueHead(u, j, "ready")
  BY DEF Failed
<1> HIDE DEF u, t, f
<1>5. /\ t \in SchedType
      /\ t.flags = u.flags /\ t.ndeps = u.ndeps /\ t.seen = u.seen
      /\ \A k \in Jails : t.queue[k] = IF k = j THEN "ready" ELSE u.queue[k]
  <2>1. Moved(u, t, {j}, "ready")
    BY <1>2, <1>3, <1>4, RequeueHeadFacts
  <2> QED
    BY <2>1 DEF Moved
<1> QED
  BY <1>2, <1>5 DEF t, f

(* A jail that only gains scheduling flags keeps what the invariant needs. *)
LEMMA GainSteady ==
  ASSUME NEW s \in SchedType, NEW t \in SchedType,
         \A k \in Jails : \/ t.flags[k] = s.flags[k]
                          \/ t.flags[k] = s.flags[k] \cup {"FAILED"}
  PROVE  Steady(s, t)
<1> SUFFICES ASSUME NEW k \in Jails
             PROVE  /\ "FAILED" \in s.flags[k] => "FAILED" \in t.flags[k]
                    /\ "SLEEPQ" \in s.flags[k] <=> "SLEEPQ" \in t.flags[k]
                    /\ Ops(s.flags[k]) # {} =>
                         /\ Ops(t.flags[k]) # {}
                         /\ "SET" \in t.flags[k] => "SET" \in s.flags[k]
  BY DEF Steady
<1>1. CASE t.flags[k] = s.flags[k]
  BY <1>1
<1>2. CASE t.flags[k] = s.flags[k] \cup {"FAILED"}
  BY <1>2 DEF Ops, OpFlag
<1> QED
  BY <1>1, <1>2

(* failed() does not disturb the other jails.                              *)
LEMMA FailedSteady ==
  ASSUME NEW s \in SchedType, NEW j \in Jails
  PROVE  Steady(s, Failed(s, j)) /\ Stays(s, Failed(s, j), {j})
<1> DEFINE t == Failed(s, j)
<1>1. t \in SchedType
  BY FailedFacts
<1>2. t.flags = [s.flags EXCEPT ![j] = @ \cup {"FAILED"}]
  BY FailedFacts
<1>3. \A k \in Jails : \/ t.flags[k] = s.flags[k]
                       \/ t.flags[k] = s.flags[k] \cup {"FAILED"}
  BY <1>2 DEF SchedType
<1>4. Steady(s, t)
  BY <1>1, <1>3, GainSteady
<1>5. \A k \in Jails : t.queue[k] = IF k = j THEN "ready" ELSE s.queue[k]
  BY FailedFacts
<1> HIDE DEF t
<1>6. ASSUME NEW k \in Jails \ {j}, s.queue[k] = "cfjails"
      PROVE  t.queue[k] = "cfjails"
  BY <1>5, <1>6
<1> QED
  BY <1>4, <1>6 DEF t, Stays

(* dep_reset() changes only the counts.                                    *)
LEMMA DepResetFacts ==
  ASSUME NEW s \in SchedType, NEW S \in Group
  PROVE  LET t == DepReset(s, S)
         IN  /\ t \in SchedType
             /\ t.flags = s.flags /\ t.queue = s.queue /\ t.seen = s.seen
             /\ \A k \in Jails :
                  t.ndeps[k] = IF k \in S THEN Cardinality(Waits(s.flags[k], k))
                               ELSE s.ndeps[k]
<1> DEFINE n == [j \in Jails |-> IF j \in S THEN Cardinality(Waits(s.flags[j], j))
                                 ELSE s.ndeps[j]]
<1>1. n \in [Jails -> Int]
  BY WaitsCount DEF SchedType
<1>2. \A k \in Jails : n[k] = IF k \in S THEN Cardinality(Waits(s.flags[k], k))
                              ELSE s.ndeps[k]
  OBVIOUS
<1>3. DepReset(s, S) = [s EXCEPT !.ndeps = n]
  BY DEF DepReset
<1> HIDE DEF n
<1> QED
  BY <1>1, <1>2, <1>3 DEF SchedType

(* dep_reset() of one jail.                                                *)
LEMMA DepResetOne ==
  ASSUME NEW s \in SchedType, NEW j \in Jails
  PROVE  LET t == DepReset(s, {j})
         IN  /\ t \in SchedType
             /\ t.flags = s.flags /\ t.queue = s.queue /\ t.seen = s.seen
<1>1. {j} \in Group
  BY DEF Group
<1> HIDE DEF Group
<1> QED
  BY <1>1, DepResetFacts

(* The edges that dep_done() of j resolves and k waits for.                *)
Told(s, j, light, k) == {e \in Resolved(s, j, light) : Far(e, j) = k}

(* From s to t the edges of j are resolved, and who waited for them told.  *)
Announced(s, t, j, light, nofail) ==
  /\ t \in SchedType
  /\ t.seen = s.seen \cup Resolved(s, j, light)
  /\ \A k \in Jails :
       /\ t.ndeps[k] = s.ndeps[k] - Cardinality(Told(s, j, light, k))
       /\ t.flags[k] = IF Told(s, j, light, k) # {} /\ ~nofail /\ Spreads(s.flags[j])
                         THEN s.flags[k] \cup {"FAILED"} ELSE s.flags[k]
       /\ \/ t.queue[k] = s.queue[k]
          \/ s.queue[k] = "depend" /\ t.queue[k] = "ready"
       /\ t.queue[k] = "depend" =>
            s.ndeps[k] \notin 1 .. Cardinality(Told(s, j, light, k))

(* dep_done() sees these edges, counts them down, wakes those of the       *)
(* waiting jails that had no others, and fails them if it has to.          *)
LEMMA DepDoneWhole ==
  ASSUME NEW s \in SchedType, NEW j \in Jails,
         NEW light \in BOOLEAN, NEW nofail \in BOOLEAN
  PROVE  Announced(s, DepDone(s, j, light, nofail), j, light, nofail)
<1> DEFINE E == Resolved(s, j, light)
           To(k) == {e \in E : Far(e, j) = k}
           woken == {k \in InQueue(s, "depend") :
                       s.ndeps[k] \in 1 .. Cardinality(To(k))}
           WokenBy(k) == CHOOSE e \in To(k) :
                           Cardinality({x \in To(k) : x <= e}) = s.ndeps[k]
           nd == [k \in Jails |-> s.ndeps[k] - Cardinality(To(k))]
           fl == [k \in Jails |->
                    IF To(k) # {} /\ ~nofail /\ Spreads(s.flags[j])
                      THEN s.flags[k] \cup {"FAILED"}
                      ELSE s.flags[k]]
           sn == s.seen \cup E
           done == [s EXCEPT !.seen = sn, !.ndeps = nd, !.flags = fl]
           R == {p \in woken \X woken : WokenBy(p[1]) < WokenBy(p[2])}
           t == DepDone(s, j, light, nofail)
<1>1. t = Requeue(done, woken, "ready", R)
  BY DEF DepDone
<1> HIDE DEF t
<1>2. sn \in SUBSET Edge
  BY DEF Resolved, Frees, SchedType
<1>3. nd \in [Jails -> Int]
  <2>1. ASSUME NEW k \in Jails PROVE Cardinality(To(k)) \in Int
    <3>1. To(k) \in SUBSET Edge
      BY DEF Resolved, Frees
    <3> QED
      BY <3>1, EdgeCount
  <2>2. ASSUME NEW k \in Jails PROVE s.ndeps[k] - Cardinality(To(k)) \in Int
    BY <2>1 DEF SchedType
  <2> QED
    BY <2>2
<1>4. fl \in [Jails -> SUBSET Flag]
  BY DEF SchedType, Flag
<1>5. /\ done \in SchedType /\ done.queue = s.queue
      /\ done.flags = fl /\ done.ndeps = nd /\ done.seen = sn
  <2> HIDE DEF sn, nd, fl
  <2> QED
    BY <1>2, <1>3, <1>4 DEF SchedType
<1>6. /\ woken \in Group /\ R \in Pairs
      /\ \A k \in woken : s.queue[k] = "depend"
  BY DEF InQueue, Group, Pairs
<1>7. "ready" \in Queue
  BY DEF Queue
<1>8. /\ t \in SchedType
      /\ t.flags = fl /\ t.ndeps = nd /\ t.seen = sn
      /\ \A k \in Jails : t.queue[k] = IF k \in woken THEN "ready" ELSE s.queue[k]
  <2> HIDE DEF done, woken, R, fl, nd, sn
  <2>1. Moved(done, t, woken, "ready")
    BY <1>1, <1>5, <1>6, <1>7, Requeued
  <2> QED
    BY <1>5, <2>1 DEF Moved
<1>9. \A k \in Jails : \/ t.queue[k] = s.queue[k]
                       \/ s.queue[k] = "depend" /\ t.queue[k] = "ready"
  <2> HIDE DEF woken
  <2> QED
    BY <1>6, <1>8
<1>10. \A k \in Jails : To(k) = Told(s, j, light, k)
  BY DEF Told
<1>11. ASSUME NEW k \in Jails, t.queue[k] = "depend"
       PROVE  s.ndeps[k] \notin 1 .. Cardinality(Told(s, j, light, k))
  <2>1. k \notin woken /\ s.queue[k] = "depend"
    <3> HIDE DEF woken
    <3> QED
      BY <1>8, <1>11
  <2>2. s.ndeps[k] \notin 1 .. Cardinality(To(k))
    BY <2>1 DEF InQueue
  <2> QED
    BY <1>10, <2>2
<1> HIDE DEF woken, R, done
<1> QED
  BY <1>8, <1>9, <1>10, <1>11 DEF t, Announced

(* So it only fails jails and makes waiting ones ready.                    *)
LEMMA DepDoneFacts ==
  ASSUME NEW s \in SchedType, NEW j \in Jails,
         NEW light \in BOOLEAN, NEW nofail \in BOOLEAN
  PROVE  LET t == DepDone(s, j, light, nofail)
         IN  /\ t \in SchedType
             /\ Steady(s, t)
             /\ Stays(s, t, {})
             /\ \A k \in Jails : \/ t.flags[k] = s.flags[k]
                                \/ t.flags[k] = s.flags[k] \cup {"FAILED"}
<1> DEFINE t == DepDone(s, j, light, nofail)
<1>0. Announced(s, t, j, light, nofail)
  BY DepDoneWhole
<1> HIDE DEF t
<1>1. /\ t \in SchedType
      /\ \A k \in Jails : /\ \/ t.flags[k] = s.flags[k]
                             \/ t.flags[k] = s.flags[k] \cup {"FAILED"}
                          /\ \/ t.queue[k] = s.queue[k]
                             \/ s.queue[k] = "depend" /\ t.queue[k] = "ready"
  BY <1>0 DEF Announced
<1>2. Steady(s, t)
  BY <1>1, GainSteady
<1>3. Stays(s, t, {})
  BY <1>1 DEF Stays
<1> QED
  BY <1>1, <1>2, <1>3 DEF t

(* A jail drawn in by dep_check() only gets operation flags.               *)
LEMMA DrawnFacts ==
  ASSUME NEW f, NEW d \in SUBSET Flag
  PROVE  LET r == Drawn(f, d)
         IN  /\ r \in SUBSET Flag
             /\ "FAILED" \in d => "FAILED" \in r
             /\ "SLEEPQ" \in d <=> "SLEEPQ" \in r
             /\ Ops(d) # {} => /\ Ops(r) # {}
                               /\ "SET" \in r => "SET" \in d
<1>1. /\ {"START", "STOP", "SET"} \in SUBSET Flag
      /\ Ops(d) = {} <=> "START" \notin d /\ "STOP" \notin d /\ "SET" \notin d
      /\ \A r : r \cap {"START", "STOP", "SET"} # {} => Ops(r) # {}
  BY DEF Flag, OpFlag, Ops
<1>2. \/ Drawn(f, d) = (d \ {"SET"}) \cup {"START", "STOP"}
      \/ Drawn(f, d) = d \cup {"STOP"}
      \/ Drawn(f, d) = d \cup {"START"}
      \/ Drawn(f, d) = d \cup {"SET"} /\ Ops(d) = {}
      \/ Drawn(f, d) = d
  BY DEF Drawn
<1> HIDE DEF Drawn
<1> QED
  BY <1>1, <1>2

(* The jails that dep_check() of j draws in, those that were not to do     *)
(* anything, those whose count it resets, and the flags it gives to k.     *)
Called(s, j) ==
  {k \in {Far(e, j) : e \in Pending(s, j)} :
     "FAILED" \notin s.flags[k] /\ Cardinality(Ops(s.flags[k])) <= 1}
Idlers(s, j) == {k \in Called(s, j) : Ops(s.flags[k]) = {}}
Recounted(s, j) ==
  Idlers(s, j) \cup {k \in Called(s, j) : "STOP" \in s.flags[j] /\ "STOP" \notin s.flags[k]}
Lost(s, j) == \E e \in Pending(s, j) : "FAILED" \in s.flags[Far(e, j)]
NewFlags(s, j, k) ==
  (IF k \in Called(s, j) THEN Drawn(s.flags[j], s.flags[k]) ELSE s.flags[k])
    \cup (IF k \in Idlers(s, j) THEN {"DEPEND"} ELSE {})
    \cup (IF k = j /\ Lost(s, j) THEN {"FAILED"} ELSE {})

(* These are jails at the other end of edges that j waits for.             *)
LEMMA CalledJails ==
  ASSUME NEW s, NEW j
  PROVE  /\ Pending(s, j) \in SUBSET Waits(s.flags[j], j)
         /\ Pending(s, j) \in SUBSET Edge
         /\ Called(s, j) \in SUBSET Jails
         /\ Idlers(s, j) \in SUBSET Called(s, j)
         /\ Recounted(s, j) \in SUBSET Called(s, j)
         /\ \A k \in Called(s, j) : \E e \in Waits(s.flags[j], j) : Far(e, j) = k
<1>1. Pending(s, j) \in SUBSET Waits(s.flags[j], j) /\ Pending(s, j) \in SUBSET Edge
  BY DEF Pending, Waits
<1>2. {Far(e, j) : e \in Pending(s, j)} \in SUBSET Jails
  BY <1>1, FarJail
<1> QED
  BY <1>1, <1>2 DEF Called, Idlers, Recounted

(* A jail gets the operation it is drawn into, and nothing else but marks. *)
LEMMA NewFlagsFacts ==
  ASSUME NEW s \in SchedType, NEW j \in Jails, NEW k \in Jails
  PROVE  LET f == IF k \in Called(s, j) THEN Drawn(s.flags[j], s.flags[k]) ELSE s.flags[k]
         IN  /\ NewFlags(s, j, k) \in SUBSET Flag
             /\ "FAILED" \in s.flags[k] => "FAILED" \in NewFlags(s, j, k)
             /\ "SLEEPQ" \in s.flags[k] <=> "SLEEPQ" \in NewFlags(s, j, k)
             /\ Ops(s.flags[k]) # {} =>
                  /\ Ops(NewFlags(s, j, k)) # {}
                  /\ "SET" \in NewFlags(s, j, k) => "SET" \in s.flags[k]
             /\ Ops(NewFlags(s, j, k)) = Ops(f)
<1> DEFINE f == IF k \in Called(s, j) THEN Drawn(s.flags[j], s.flags[k]) ELSE s.flags[k]
           x == (IF k \in Idlers(s, j) THEN {"DEPEND"} ELSE {})
                  \cup (IF k = j /\ Lost(s, j) THEN {"FAILED"} ELSE {})
           g == NewFlags(s, j, k)
<1>1. s.flags[k] \in SUBSET Flag
  BY DEF SchedType
<1>2. /\ f \in SUBSET Flag
      /\ "FAILED" \in s.flags[k] => "FAILED" \in f
      /\ "SLEEPQ" \in s.flags[k] <=> "SLEEPQ" \in f
      /\ Ops(s.flags[k]) # {} => /\ Ops(f) # {}
                                 /\ "SET" \in f => "SET" \in s.flags[k]
  BY <1>1, DrawnFacts
<1>3. g = f \cup x /\ x \in SUBSET {"DEPEND", "FAILED"}
  BY DEF NewFlags
<1> HIDE DEF f, x, g
<1>4. g \in SUBSET Flag
  BY <1>2, <1>3 DEF Flag
<1>5. Ops(g) = Ops(f)
  BY <1>3 DEF Ops, OpFlag
<1>6. /\ "FAILED" \in f => "FAILED" \in g
      /\ "SLEEPQ" \in f <=> "SLEEPQ" \in g
      /\ "SET" \in f <=> "SET" \in g
  BY <1>3
<1> QED
  BY <1>2, <1>4, <1>5, <1>6 DEF f, g

(* From s to t what j waits for is drawn in, and j waits if it has to.     *)
Drew(s, t, j) ==
  /\ t \in SchedType
  /\ t.seen = s.seen
  /\ \A k \in Jails :
       /\ t.flags[k] = NewFlags(s, j, k)
       /\ t.ndeps[k] = IF k \in Recounted(s, j)
                         THEN Cardinality(Waits(NewFlags(s, j, k), k))
                         ELSE s.ndeps[k]
       /\ t.queue[k] = IF k = j /\ Blocked(s, j) THEN "depend"
                       ELSE IF k \in Idlers(s, j) THEN "ready"
                       ELSE s.queue[k]

(* dep_check() draws in the jails that it waits for, and j waits if one of *)
(* them holds it back.                                                     *)
LEMMA DepCheckWhole ==
  ASSUME NEW s \in SchedType, NEW j \in Jails
  PROVE  Drew(s, DepCheck(s, j), j)
<1> DEFINE E == Pending(s, j)
           idle == Idlers(s, j)
           order == {p \in idle \X idle :
                       \E e \in E : /\ Far(e, j) = p[1]
                                    /\ \A x \in E : Far(x, j) = p[2] => e < x}
           fl == [k \in Jails |-> NewFlags(s, j, k)]
           set == [s EXCEPT !.flags = fl]
           moved == Requeue(set, idle, "ready", order)
           seek == DepReset(moved, Recounted(s, j))
           t == DepCheck(s, j)
<1>1. t = IF Blocked(s, j) THEN Requeue(seek, {j}, "depend", {}) ELSE seek
  BY DEF DepCheck, Called, Idlers, Recounted, Lost, NewFlags
<1> HIDE DEF t
<1>2. /\ idle \in Group /\ Recounted(s, j) \in Group
      /\ order \in Pairs
  <2>1. idle \in SUBSET Jails /\ Recounted(s, j) \in SUBSET Jails
    BY CalledJails
  <2> HIDE DEF idle
  <2> QED
    BY <2>1 DEF Group, Pairs
<1>3. /\ fl \in [Jails -> SUBSET Flag]
      /\ \A k \in Jails : fl[k] = NewFlags(s, j, k)
  BY NewFlagsFacts
<1>4. "ready" \in Queue /\ "depend" \in Queue
  BY DEF Queue
<1>5. /\ set \in SchedType /\ set.flags = fl
      /\ set.queue = s.queue /\ set.ndeps = s.ndeps /\ set.seen = s.seen
  <2> HIDE DEF fl
  <2> QED
    BY <1>3, SetFlags
<1>6. /\ moved \in SchedType
      /\ moved.flags = fl /\ moved.ndeps = s.ndeps /\ moved.seen = s.seen
      /\ \A k \in Jails : moved.queue[k] = IF k \in idle THEN "ready" ELSE s.queue[k]
  <2>1. moved = Requeue(set, idle, "ready", order)
    OBVIOUS
  <2> HIDE DEF moved, set, idle, order, fl
  <2>2. Moved(set, moved, idle, "ready")
    BY <1>2, <1>4, <1>5, <2>1, Requeued
  <2> QED
    BY <1>5, <2>2 DEF Moved
<1>7. /\ seek \in SchedType
      /\ seek.flags = fl /\ seek.queue = moved.queue /\ seek.seen = s.seen
      /\ \A k \in Jails :
           seek.ndeps[k] = IF k \in Recounted(s, j) THEN Cardinality(Waits(fl[k], k))
                           ELSE s.ndeps[k]
  <2> HIDE DEF moved, fl
  <2> QED
    BY <1>2, <1>6, DepResetFacts
<1>8. /\ t \in SchedType /\ t.seen = s.seen
      /\ t.flags = fl /\ t.ndeps = seek.ndeps
      /\ \A k \in Jails :
           t.queue[k] = IF k = j /\ Blocked(s, j) THEN "depend" ELSE seek.queue[k]
  <2> HIDE DEF seek, moved, idle, fl
  <2>1. CASE Blocked(s, j)
    <3>1. t = Requeue(seek, {j}, "depend", {})
      BY <1>1, <2>1
    <3>2. Moved(seek, t, {j}, "depend")
      BY <1>4, <1>7, <3>1, RequeueOne
    <3> QED
      BY <1>7, <2>1, <3>2 DEF Moved
  <2>2. CASE ~Blocked(s, j)
    BY <1>1, <1>7, <2>2
  <2> QED
    BY <2>1, <2>2
<1> HIDE DEF seek, moved, set, fl, E, order
<1> QED
  BY <1>3, <1>6, <1>7, <1>8 DEF t, Drew

(* It leaves sleeping jails and those that have a list alone.              *)
LEMMA DepCheckFacts ==
  ASSUME NEW s \in SchedType, NEW j \in Jails
  PROVE  LET t == DepCheck(s, j)
         IN  /\ t \in SchedType
             /\ Steady(s, t)
             /\ Stays(s, t, {j})
             /\ s.queue[j] = "cfjails" /\ ~Blocked(s, j) /\ Ops(s.flags[j]) # {}
                  => t.queue[j] = "cfjails"
<1> DEFINE t == DepCheck(s, j)
<1>1. Drew(s, t, j)
  BY DepCheckWhole
<1> HIDE DEF t
<1>2. /\ t \in SchedType
      /\ \A k \in Jails :
           /\ t.flags[k] = NewFlags(s, j, k)
           /\ t.queue[k] = IF k = j /\ Blocked(s, j) THEN "depend"
                           ELSE IF k \in Idlers(s, j) THEN "ready"
                           ELSE s.queue[k]
  BY <1>1 DEF Drew
<1>3. Steady(s, t)
  BY <1>2, NewFlagsFacts DEF Steady
<1>4. \A k \in Idlers(s, j) : Ops(s.flags[k]) = {}
  BY DEF Idlers
<1>5. Stays(s, t, {j})
  BY <1>2, <1>4 DEF Stays
<1> QED
  BY <1>2, <1>3, <1>4, <1>5 DEF t

(* From s to t nothing is done but to the head of the run queue.           *)
Woke(s, t) ==
  /\ t \in SchedType
  /\ t.ndeps = s.ndeps /\ t.seen = s.seen
  /\ \A k \in Jails :
       /\ \/ t.flags[k] = s.flags[k]
          \/ t.flags[k] = s.flags[k] \cup {"FROM_RUNQ"}
       /\ \/ t.queue[k] = s.queue[k]
          \/ s.queue[k] = "runnable" /\ t.queue[k] = "ready"

(* The slot goes to a jail in the run queue, which becomes ready.          *)
LEMMA WakeRunnableWhole ==
  ASSUME NEW s \in SchedType
  PROVE  Woke(s, WakeRunnable(s))
<1> DEFINE first == {k \in InQueue(s, "runnable") : IsFirst(s, k)}
           fl == [k \in Jails |-> s.flags[k] \cup
                                   (IF k \in first THEN {"FROM_RUNQ"} ELSE {})]
           u == [s EXCEPT !.flags = fl]
           R == {}
           t == WakeRunnable(s)
<1>1. t = Requeue(u, first, "ready", R)
  BY DEF WakeRunnable
<1> HIDE DEF t
<1>2. /\ first \in Group /\ R \in Pairs
      /\ \A k \in first : s.queue[k] = "runnable"
  BY DEF InQueue, Group, Pairs
<1>3. fl \in [Jails -> SUBSET Flag]
  BY DEF SchedType, Flag
<1>4. \A k \in Jails : \/ fl[k] = s.flags[k]
                       \/ fl[k] = s.flags[k] \cup {"FROM_RUNQ"}
  OBVIOUS
<1> HIDE DEF fl
<1>5. /\ u \in SchedType /\ u.flags = fl
      /\ u.queue = s.queue /\ u.ndeps = s.ndeps /\ u.seen = s.seen
  BY <1>3, SetFlags
<1>6. "ready" \in Queue
  BY DEF Queue
<1> HIDE DEF u, first, R
<1>7. /\ t \in SchedType
      /\ t.flags = u.flags /\ t.ndeps = u.ndeps /\ t.seen = u.seen
      /\ \A k \in Jails : t.queue[k] = IF k \in first THEN "ready" ELSE u.queue[k]
  <2>1. Moved(u, t, first, "ready")
    BY <1>1, <1>2, <1>5, <1>6, Requeued
  <2> QED
    BY <2>1 DEF Moved
<1> QED
  BY <1>2, <1>4, <1>5, <1>7 DEF t, Woke

(* Nothing else is changed.                                                *)
LEMMA WakeRunnableFacts ==
  ASSUME NEW s \in SchedType
  PROVE  LET t == WakeRunnable(s)
         IN  /\ t \in SchedType /\ Steady(s, t) /\ Stays(s, t, {})
             /\ \A k \in Jails :
                  /\ "FAILED" \in t.flags[k] <=> "FAILED" \in s.flags[k]
                  /\ s.queue[k] = "cfjails" => t.queue[k] = "cfjails"
<1> DEFINE t == WakeRunnable(s)
<1>1. Woke(s, t)
  BY WakeRunnableWhole
<1> HIDE DEF t
<1>2. /\ t \in SchedType
      /\ \A k \in Jails :
           /\ \/ t.flags[k] = s.flags[k]
              \/ t.flags[k] = s.flags[k] \cup {"FROM_RUNQ"}
           /\ \/ t.queue[k] = s.queue[k]
              \/ s.queue[k] = "runnable" /\ t.queue[k] = "ready"
  BY <1>1 DEF Woke
<1>3. \A k \in Jails :
        /\ "FAILED" \in t.flags[k] <=> "FAILED" \in s.flags[k]
        /\ "SLEEPQ" \in t.flags[k] <=> "SLEEPQ" \in s.flags[k]
        /\ Ops(t.flags[k]) = Ops(s.flags[k])
        /\ "SET" \in t.flags[k] <=> "SET" \in s.flags[k]
  BY <1>2 DEF Ops, OpFlag
<1>4. Steady(s, t)
  BY <1>3 DEF Steady
<1>5. Stays(s, t, {})
  BY <1>2 DEF Stays
<1> QED
  BY <1>2, <1>3, <1>4, <1>5 DEF t

(* From s to t the jails of S get the operations ops, and wait for what    *)
(* they now depend on if all jails are to be ordered.                      *)
Launched(s, t, S, ops, all) ==
  /\ t \in SchedType
  /\ t.seen = s.seen
  /\ \A k \in Jails :
       /\ t.flags[k] = IF k \in S THEN (s.flags[k] \cap {"FAILED"}) \cup ops
                                  ELSE s.flags[k]
       /\ t.ndeps[k] = IF k \in S THEN Cardinality(Waits(t.flags[k], k))
                                  ELSE s.ndeps[k]
       /\ t.queue[k] = IF k \notin S THEN s.queue[k]
                       ELSE IF all /\ t.ndeps[k] # 0 THEN "depend"
                       ELSE "ready"

(* start_state() puts the jails it is given in ready or depend.            *)
LEMMA StartStateWhole ==
  ASSUME NEW s \in SchedType, NEW S \in Group,
         NEW ops \in SUBSET Flag, NEW all
  PROVE  Launched(s, StartState(s, S, ops, all), S, ops, all)
<1> DEFINE marked == [j \in Jails |->
                       IF j \in S THEN (s.flags[j] \cap {"FAILED"}) \cup ops
                                  ELSE s.flags[j]]
           u == [s EXCEPT !.flags = marked]
           counted == DepReset(u, S)
           to == [j \in Jails |-> IF j \notin S THEN s.queue[j]
                                  ELSE IF all /\ counted.ndeps[j] # 0 THEN "depend"
                                  ELSE "ready"]
           order == {p \in s.ahead : to[p[1]] = to[p[2]]}
           t == StartState(s, S, ops, all)
<1>1. /\ marked \in [Jails -> SUBSET Flag]
      /\ \A k \in Jails :
           marked[k] = IF k \in S THEN (s.flags[k] \cap {"FAILED"}) \cup ops
                                  ELSE s.flags[k]
  BY DEF SchedType
<1>2. /\ u \in SchedType /\ u.flags = marked
      /\ u.ndeps = s.ndeps /\ u.seen = s.seen
  <2> HIDE DEF marked
  <2> QED
    BY <1>1, SetFlags
<1>3. /\ counted \in SchedType
      /\ counted.flags = marked /\ counted.seen = s.seen
      /\ \A k \in Jails :
           counted.ndeps[k] = IF k \in S THEN Cardinality(Waits(marked[k], k))
                              ELSE s.ndeps[k]
  <2> HIDE DEF u, marked
  <2> QED
    BY <1>2, DepResetFacts
<1>4. /\ to \in [Jails -> Queue]
      /\ \A k \in Jails :
           to[k] = IF k \notin S THEN s.queue[k]
                   ELSE IF all /\ counted.ndeps[k] # 0 THEN "depend"
                   ELSE "ready"
  <2> HIDE DEF counted
  <2> QED
    BY DEF SchedType, Queue
<1>5. order \in Pairs
  BY DEF SchedType, Pairs
<1>6. /\ t \in SchedType
      /\ t.flags = marked /\ t.ndeps = counted.ndeps /\ t.seen = s.seen
      /\ t.queue = to
  <2>1. t = WithQueues(counted, to, order)
    BY DEF StartState, WithQueues
  <2> HIDE DEF counted, to, marked, order, t
  <2> QED
    BY <1>3, <1>4, <1>5, <2>1, SetQueues
<1> HIDE DEF t, to, marked, counted
<1> QED
  BY <1>1, <1>3, <1>4, <1>6 DEF t, Launched

(* It forgets no failure and gives no jail another operation.              *)
LEMMA StartStateFacts ==
  ASSUME NEW s \in SchedType, NEW S \in Group,
         NEW ops \in SUBSET Flag, NEW all
  PROVE  /\ StartState(s, S, ops, all) \in SchedType
         /\ \A k \in Jails :
              LET f == StartState(s, S, ops, all).flags[k]
              IN  /\ "FAILED" \in s.flags[k] => "FAILED" \in f
                  /\ f \subseteq s.flags[k] \cup ops
<1> DEFINE t == StartState(s, S, ops, all)
<1>1. Launched(s, t, S, ops, all)
  BY StartStateWhole
<1> HIDE DEF t
<1>2. t \in SchedType
  BY <1>1 DEF Launched
<1>3. ASSUME NEW k \in Jails
      PROVE  /\ "FAILED" \in s.flags[k] => "FAILED" \in t.flags[k]
             /\ t.flags[k] \subseteq s.flags[k] \cup ops
  BY <1>1 DEF Launched
<1> QED
  BY <1>2, <1>3 DEF t

-----------------------------------------------------------------------------
(* The command lists.                                                      *)

(* stopcommands has seven elements.                                        *)
LEMMA StopLength == Len(StopCommands) = 7
BY DEF StopCommands

(* A command that is waited for is no end of its list.                     *)
LEMMA InnerCommands ==
  ASSUME NEW l \in {"start", "stop"}
  PROVE  /\ Len(CommandList[l]) \in 6 .. 7
         /\ \A i \in 1 .. Len(CommandList[l]) :
              CommandList[l][i] # "NULL" => 1 < i /\ i < Len(CommandList[l])
<1>1. CASE l = "start"
  BY <1>1 DEF CommandList, StartCommands
<1>2. CASE l = "stop"
  BY <1>2 DEF CommandList, StopCommands
<1> QED
  BY <1>1, <1>2

-----------------------------------------------------------------------------
(* The inductive invariant.                                                *)

InLoop == {"begin", "finish", "op", "next_command", "command", "done"}

(* The jail the main loop holds is on cfjails, unless it ran no command.   *)
Owner ==
  pc \in InLoop =>
    /\ cur \in Jails
    /\ queue[cur] = "cfjails" \/ (pc = "done" /\ list[cur] = "NULL")

(* Before the main loop no jail has an operation.                          *)
Fresh ==
  pc \in {"setup", "loops"} =>
    /\ paralimit = ParaLimit
    /\ \A j \in Jails : flags[j] \in SUBSET {"FAILED"} /\ list[j] = "NULL"

(* A jail that runs commands starts or stops: it is not set.               *)
ListHasOp ==
  \A j \in Jails :
    list[j] # "NULL" => "SET" \notin flags[j] /\ Ops(flags[j]) # {}

(* A jail that is not through has commands before and behind its cursor.   *)
Active(j) == queue[j] # "cfjails" \/ (j = cur /\ pc \in InLoop \ {"done"})

CursorOK(j) ==
  Active(j) /\ list[j] # "NULL" =>
    1 <= pos[j] /\ pos[j] < Len(CommandList[list[j]])

CursorInside == \A j \in Jails : CursorOK(j)

(* After finish_command() the jail waits for nothing,                      *)
NotAsleep ==
  pc \in {"op", "next_command", "command", "done"} =>
    "SLEEPQ" \notin flags[cur]

(* in next_command() it has commands, and a slot for the next one,         *)
HasCommands ==
  /\ pc \in {"next_command", "command"} => list[cur] # "NULL"
  /\ pc = "command" => paralimit # 0

(* and a failed jail gets as far only to undo or finish its commands.      *)
FailedRunsCommands ==
  pc \in {"finish", "op"} /\ "FAILED" \in flags[cur] => list[cur] # "NULL"

IInv ==
  /\ TypeOK
  /\ Owner
  /\ Fresh
  /\ ListHasOp
  /\ CursorInside
  /\ NotAsleep
  /\ HasCommands
  /\ FailedRunsCommands
  /\ SlotsBalance

(* No step takes the mark of failure from a jail.                          *)
Kept == \A j \in Jails : "FAILED" \in flags[j] => "FAILED" \in flags'[j]

-----------------------------------------------------------------------------
(* Counting slots.                                                         *)

Holders == {j \in Jails : Holding(j)}

One(b) == IF b THEN 1 ELSE 0

(* Finitely many jails hold a slot.                                        *)
LEMMA HoldersFinite == IsFiniteSet(Holders) /\ Cardinality(Holders) \in Nat
<1>1. Holders \in SUBSET Jails
  BY DEF Holders
<1> QED
  BY <1>1, JailsAssumption, FS_Subset, FS_CardinalityType

(* The jail the loop holds is the only one that takes or returns a slot.   *)
LEMMA SlotsStep ==
  ASSUME NEW c \in Jails,
         \A k \in Jails \ {c} : Holding(k)' <=> Holding(k)
  PROVE  Cardinality(Holders') = Cardinality(Holders)
                                   + One(Holding(c)') - One(Holding(c))
<1>1. IsFiniteSet(Holders) /\ Cardinality(Holders) \in Nat
  BY HoldersFinite
<1>2. CASE Holding(c)' /\ ~Holding(c)
  <2>1. Holders' = Holders \cup {c} /\ c \notin Holders
    BY <1>2 DEF Holders
  <2>2. Cardinality(Holders \cup {c}) = Cardinality(Holders) + 1
    BY <1>1, <2>1, FS_AddElement
  <2> QED
    BY <1>1, <1>2, <2>1, <2>2 DEF One
<1>3. CASE ~Holding(c)' /\ Holding(c)
  <2>1. Holders' = Holders \ {c} /\ c \in Holders
    BY <1>3 DEF Holders
  <2>2. Cardinality(Holders \ {c}) = Cardinality(Holders) - 1
    BY <1>1, <2>1, FS_RemoveElement
  <2> QED
    BY <1>1, <1>3, <2>1, <2>2 DEF One
<1>4. CASE Holding(c)' <=> Holding(c)
  <2>1. Holders' = Holders
    BY <1>4 DEF Holders
  <2> QED
    BY <1>1, <1>4, <2>1 DEF One
<1> QED
  BY <1>2, <1>3, <1>4

(* The slots balance, said with Holders.                                   *)
LEMMA SlotsBalanceHolders ==
  SlotsBalance <=> /\ paralimit + Cardinality(Holders) = ParaLimit
                   /\ ParaLimit > 0 => paralimit >= 0
BY DEF SlotsBalance, Holders

(* Before the main loop nobody holds a slot.                               *)
LEMMA NobodyHolds ==
  ASSUME \A j \in Jails : "SLEEPQ" \notin flags[j], paralimit = ParaLimit
  PROVE  SlotsBalance
<1>1. Holders = {}
  BY DEF Holding, Holders
<1>2. Cardinality(Holders) = 0
  BY <1>1, FS_EmptySet
<1>3. ParaLimit \in Int
  BY CommandLineAssumption
<1> QED
  BY <1>2, <1>3, SlotsBalanceHolders

-----------------------------------------------------------------------------
(* One step of the main loop.                                              *)

(* The variables make up a scheduler state.                                *)
LEMMA SchedIn ==
  ASSUME TypeOK
  PROVE  Sched \in SchedType /\ Sched.flags = flags /\ Sched.queue = queue
BY DEF TypeOK, SchedType, Sched

(* So they do with other flags.                                            *)
LEMMA SchedFlags ==
  ASSUME TypeOK, NEW f \in [Jails -> SUBSET Flag]
  PROVE  LET t == [Sched EXCEPT !.flags = f]
         IN  t \in SchedType /\ t.flags = f /\ t.queue = queue
BY SchedIn, SetFlags

(* The variables of a scheduler state have their types.                    *)
LEMMA BecomeType ==
  ASSUME NEW t \in SchedType, Become(t)
  PROVE  /\ flags' = t.flags /\ queue' = t.queue
         /\ flags' \in [Jails -> SUBSET Flag]
         /\ ndeps' \in [Jails -> Int]
         /\ seen' \in SUBSET Edge
         /\ queue' \in [Jails -> Queue]
         /\ ahead' \in SUBSET (Jails \X Jails)
BY DEF Become, SchedType

(* What a step of the loop may do to a jail it does not hold.              *)
Calm(k) ==
  /\ "FAILED" \in flags[k] => "FAILED" \in flags'[k]
  /\ "SLEEPQ" \in flags[k] <=> "SLEEPQ" \in flags'[k]
  /\ Ops(flags[k]) # {} => /\ Ops(flags'[k]) # {}
                           /\ "SET" \in flags'[k] => "SET" \in flags[k]
  /\ queue[k] = "cfjails" /\ Ops(flags[k]) # {} => queue'[k] = "cfjails"
  /\ list'[k] = list[k]
  /\ pos'[k] = pos[k]

(* Jails that gain nothing but what their queue allows keep the invariant. *)
LEMMA CalmOthers ==
  ASSUME TypeOK, cur \in Jails, NEW t \in SchedType, Become(t),
         Steady(Sched, t), Stays(Sched, t, {cur}),
         \A k \in Jails \ {cur} : list'[k] = list[k] /\ pos'[k] = pos[k]
  PROVE  \A k \in Jails \ {cur} : Calm(k)
<1>1. Sched.flags = flags /\ Sched.queue = queue
  BY SchedIn
<1>2. flags' = t.flags /\ queue' = t.queue
  BY BecomeType
<1> QED
  BY <1>1, <1>2 DEF Calm, Steady, Stays

(* It is enough to look at the jail the loop holds.                        *)
LEMMA LoopStep ==
  ASSUME IInv, NEW c \in Jails, c = cur, TypeOK',
         pc' \notin {"setup", "loops"},
         cur' = cur \/ (cur' = NoJail /\ pc' \notin InLoop),
         \A k \in Jails \ {c} : Calm(k),
         "FAILED" \in flags[c] => "FAILED" \in flags'[c],
         list'[c] # "NULL" =>
           /\ "SET" \notin flags'[c]
           /\ Ops(flags'[c]) # {},
         CursorOK(c)',
         Owner', NotAsleep', HasCommands', FailedRunsCommands',
         paralimit' + One(Holding(c)') = paralimit + One(Holding(c)),
         ParaLimit > 0 => paralimit' >= 0
  PROVE  IInv' /\ Kept
<1>1. Fresh'
  BY DEF Fresh
<1>2. ListHasOp'
  BY DEF IInv, ListHasOp, Calm
<1>3. CursorInside'
  <2>1. ASSUME NEW k \in Jails \ {c}, Active(k)', list'[k] # "NULL"
        PROVE  1 <= pos'[k] /\ pos'[k] < Len(CommandList[list'[k]])
    <3>1. queue'[k] # "cfjails"
      BY <2>1, JailsAssumption DEF Active
    <3>2. list[k] # "NULL" /\ Ops(flags[k]) # {}
      BY <2>1 DEF Calm, IInv, ListHasOp
    <3>3. queue[k] # "cfjails"
      BY <3>1, <3>2 DEF Calm
    <3>4. 1 <= pos[k] /\ pos[k] < Len(CommandList[list[k]])
      BY <3>2, <3>3 DEF IInv, CursorInside, CursorOK, Active
    <3> QED
      BY <3>4 DEF Calm
  <2>2. \A k \in Jails \ {c} : CursorOK(k)'
    BY <2>1 DEF CursorOK
  <2> QED
    BY <2>2 DEF CursorInside
<1>4. SlotsBalance'
  <2>1. ASSUME NEW k \in Jails \ {c}
        PROVE  Holding(k)' <=> Holding(k)
    BY DEF Calm, Holding, At
  <2>2. Cardinality(Holders') = Cardinality(Holders)
                                  + One(Holding(c)') - One(Holding(c))
    BY <2>1, SlotsStep
  <2>3. paralimit + Cardinality(Holders) = ParaLimit
    BY SlotsBalanceHolders DEF IInv
  <2>4. /\ paralimit \in Int /\ paralimit' \in Int
        /\ Cardinality(Holders) \in Int
        /\ \A b : One(b) \in Int
    BY HoldersFinite DEF IInv, TypeOK, One
  <2>5. paralimit' + Cardinality(Holders') = ParaLimit
    BY <2>2, <2>3, <2>4
  <2> HIDE DEF Holders
  <2>6. SlotsBalance' <=> /\ paralimit' + Cardinality(Holders') = ParaLimit
                          /\ ParaLimit > 0 => paralimit' >= 0
    BY DEF SlotsBalance, Holders
  <2> QED
    BY <2>5, <2>6
<1>5. Kept
  BY DEF Kept, Calm
<1> QED
  BY <1>1, <1>2, <1>3, <1>4, <1>5 DEF IInv

(* Steps that leave the command cursor and the slots alone: the loop goes  *)
(* back to next_jail(),                                                    *)
LEMMA LeaveStep ==
  ASSUME IInv, NEW c \in Jails, c = cur, pc \in InLoop \ {"done"}, TypeOK',
         NEW t \in SchedType, Become(t), Continue,
         Steady(Sched, t), Stays(Sched, t, {c}),
         list' = list, pos' = pos, paralimit' = paralimit
  PROVE  IInv' /\ Kept
<1>1. \A k \in Jails \ {c} : Calm(k)
  BY CalmOthers DEF IInv
<1>2. /\ "FAILED" \in flags[c] => "FAILED" \in flags'[c]
      /\ "SLEEPQ" \in flags[c] <=> "SLEEPQ" \in flags'[c]
      /\ Ops(flags[c]) # {} => /\ Ops(flags'[c]) # {}
                               /\ "SET" \in flags'[c] => "SET" \in flags[c]
  BY SchedIn, BecomeType DEF Steady, IInv
<1>3. list'[c] # "NULL" => "SET" \notin flags'[c] /\ Ops(flags'[c]) # {}
  BY <1>2 DEF IInv, ListHasOp
<1>4. CursorOK(c)'
  BY DEF IInv, CursorInside, CursorOK, Active
<1>5. One(Holding(c)') = One(Holding(c))
  BY <1>2 DEF One, Holding, At
<1>6. /\ pc' = "next" /\ cur' = NoJail
      /\ Owner' /\ NotAsleep' /\ HasCommands' /\ FailedRunsCommands'
  BY DEF Continue, Owner, NotAsleep, HasCommands, FailedRunsCommands, InLoop
<1>7. ParaLimit > 0 => paralimit' >= 0
  BY DEF IInv, SlotsBalance
<1>8. paralimit' + One(Holding(c)') = paralimit + One(Holding(c))
  BY <1>5
<1>9. pc' \notin InLoop
  BY <1>6 DEF InLoop
<1> QED
  BY <1>1, <1>2, <1>3, <1>4, <1>6, <1>7, <1>8, <1>9, LoopStep

(* or goes on with the same jail.                                          *)
LEMMA GoOnStep ==
  ASSUME IInv, NEW c \in Jails, c = cur, pc \in InLoop \ {"done"}, TypeOK',
         NEW t \in SchedType, Become(t), cur' = cur,
         Steady(Sched, t), Stays(Sched, t, {c}),
         list' = list, pos' = pos, paralimit' = paralimit,
         pc' \in InLoop,
         queue'[c] = "cfjails" \/ (pc' = "done" /\ list[c] = "NULL"),
         NotAsleep', HasCommands', FailedRunsCommands'
  PROVE  IInv' /\ Kept
<1>1. \A k \in Jails \ {c} : Calm(k)
  BY CalmOthers DEF IInv
<1>2. /\ "FAILED" \in flags[c] => "FAILED" \in flags'[c]
      /\ "SLEEPQ" \in flags[c] <=> "SLEEPQ" \in flags'[c]
      /\ Ops(flags[c]) # {} => /\ Ops(flags'[c]) # {}
                               /\ "SET" \in flags'[c] => "SET" \in flags[c]
  BY SchedIn, BecomeType DEF Steady, IInv
<1>3. list'[c] # "NULL" => "SET" \notin flags'[c] /\ Ops(flags'[c]) # {}
  BY <1>2 DEF IInv, ListHasOp
<1>4. CursorOK(c)'
  BY DEF IInv, CursorInside, CursorOK, Active
<1>5. One(Holding(c)') = One(Holding(c))
  BY <1>2 DEF One, Holding, At
<1>6. Owner' /\ pc' \notin {"setup", "loops"}
  BY DEF Owner, InLoop
<1>7. ParaLimit > 0 => paralimit' >= 0
  BY DEF IInv, SlotsBalance
<1>8. paralimit' + One(Holding(c)') = paralimit + One(Holding(c))
  BY <1>5
<1> QED
  BY <1>1, <1>2, <1>3, <1>4, <1>6, <1>7, <1>8, LoopStep

(* A jail that does not change is steady,                                  *)
LEMMA SteadySelf ==
  ASSUME NEW s \in SchedType, NEW S
  PROVE  Steady(s, s) /\ Stays(s, s, S)
BY DEF Steady, Stays

(* one that is steady twice is steady,                                     *)
LEMMA SteadyTrans ==
  ASSUME NEW s \in SchedType, NEW t \in SchedType, NEW u \in SchedType, NEW S,
         Steady(s, t), Steady(t, u), Stays(s, t, S), Stays(t, u, S)
  PROVE  Steady(s, u) /\ Stays(s, u, S)
BY DEF Steady, Stays

(* and one that keeps all its flags stays failed.                          *)
LEMMA StaysMore ==
  ASSUME NEW s, NEW t, NEW S, Stays(s, t, {})
  PROVE  Stays(s, t, S)
BY DEF Stays

(* A change of the flags of one jail.                                      *)
LEMMA FlagsOf ==
  ASSUME TypeOK, NEW c \in Jails, NEW F \in SUBSET Flag,
         "FAILED" \in flags[c] => "FAILED" \in F,
         "SLEEPQ" \in flags[c] <=> "SLEEPQ" \in F,
         Ops(flags[c]) # {} => /\ Ops(F) # {}
                               /\ "SET" \in F => "SET" \in flags[c],
         NEW S
  PROVE  LET f == [flags EXCEPT ![c] = F]
             t == [Sched EXCEPT !.flags = f]
         IN  /\ f \in [Jails -> SUBSET Flag]
             /\ t \in SchedType /\ t.flags = f /\ t.queue = queue
             /\ Steady(Sched, t) /\ Stays(Sched, t, S)
<1> DEFINE f == [flags EXCEPT ![c] = F]
           t == [Sched EXCEPT !.flags = f]
<1>1. f \in [Jails -> SUBSET Flag]
  BY DEF TypeOK
<1>2. Sched.flags = flags /\ Sched.queue = queue
  BY SchedIn
<1>3. t \in SchedType /\ t.flags = f /\ t.queue = queue
  <2> HIDE DEF f
  <2> QED
    BY <1>1, SchedFlags
<1>4. \A k \in Jails : f[k] = IF k = c THEN F ELSE flags[k]
  BY DEF TypeOK
<1> HIDE DEF f, t
<1>5. Steady(Sched, t)
  BY <1>2, <1>3, <1>4 DEF Steady
<1>6. Stays(Sched, t, S)
  BY <1>2, <1>3 DEF Stays
<1> QED
  BY <1>1, <1>3, <1>5, <1>6 DEF f, t

-----------------------------------------------------------------------------
(* The head of the main loop.                                              *)

(* A failed jail that ran nothing tells the others and is done.            *)
LEMMA SkipFailedStep ==
  ASSUME IInv, NEW c \in Jails, c = cur, SkipFailed
  PROVE  IInv' /\ Kept
<1> DEFINE t == DepDone(Sched, cur, FALSE, FALSE)
<1>1. t \in SchedType /\ Steady(Sched, t) /\ Stays(Sched, t, {})
  BY SchedIn, DepDoneFacts DEF IInv
<1>2. /\ Become(t) /\ Continue /\ pc = "begin" /\ error' = TRUE
      /\ UNCHANGED <<list, pos, jid, pstatus, paralimit, up>>
  BY DEF SkipFailed, coms
<1> HIDE DEF t
<1>3. TypeOK'
  BY <1>1, <1>2, BecomeType DEF IInv, TypeOK, Continue
<1>4. Stays(Sched, t, {c})
  BY <1>1, StaysMore
<1> QED
  BY <1>1, <1>2, <1>3, <1>4, LeaveStep DEF InLoop

(* JF_PARAMS disturbs nothing.                                             *)
LEMMA WithParamsFacts ==
  ASSUME IInv, NEW c \in Jails, c = cur, NEW S
  PROVE  LET t == [Sched EXCEPT !.flags = WithParams]
         IN  /\ WithParams \in [Jails -> SUBSET Flag]
             /\ WithParams[c] = flags[c] \cup {"PARAMS"}
             /\ t \in SchedType /\ t.flags = WithParams /\ t.queue = queue
             /\ Steady(Sched, t) /\ Stays(Sched, t, S)
<1> DEFINE F == flags[c] \cup {"PARAMS"}
<1>1. F \in SUBSET Flag
  BY DEF IInv, TypeOK, Flag
<1>2. /\ "FAILED" \in flags[c] => "FAILED" \in F
      /\ "SLEEPQ" \in flags[c] <=> "SLEEPQ" \in F
      /\ Ops(F) = Ops(flags[c])
      /\ "SET" \in F <=> "SET" \in flags[c]
  BY DEF Ops, OpFlag
<1>3. WithParams = [flags EXCEPT ![c] = F]
  BY DEF WithParams
<1>4. TypeOK
  BY DEF IInv
<1>5. [flags EXCEPT ![c] = F][c] = F
  BY <1>4 DEF TypeOK
<1> HIDE DEF F
<1>6. LET f == [flags EXCEPT ![c] = F]
          t == [Sched EXCEPT !.flags = f]
      IN  /\ f \in [Jails -> SUBSET Flag]
          /\ t \in SchedType /\ t.flags = f /\ t.queue = queue
          /\ Steady(Sched, t) /\ Stays(Sched, t, S)
  BY <1>1, <1>2, <1>4, FlagsOf
<1> QED
  BY <1>3, <1>5, <1>6 DEF F

(* A jail with bad parameters fails.                                       *)
LEMMA BadParamsStep ==
  ASSUME IInv, NEW c \in Jails, c = cur, BadParams
  PROVE  IInv' /\ Kept
<1> DEFINE u == [Sched EXCEPT !.flags = WithParams]
           t == Failed(u, cur)
<1>1. u \in SchedType /\ Steady(Sched, u) /\ Stays(Sched, u, {c})
  BY WithParamsFacts
<1>2. /\ Become(t) /\ Continue /\ pc = "begin"
      /\ error' = (error \/ "FAILED" \in flags[cur])
      /\ UNCHANGED <<list, pos, jid, pstatus, paralimit, up>>
  BY DEF BadParams, coms
<1> HIDE DEF u
<1>3. t \in SchedType /\ Steady(u, t) /\ Stays(u, t, {c})
  BY <1>1, FailedFacts, FailedSteady
<1> HIDE DEF t
<1>4. Sched \in SchedType
  BY SchedIn DEF IInv
<1>5. Steady(Sched, t) /\ Stays(Sched, t, {c})
  BY <1>1, <1>3, <1>4, SteadyTrans
<1>6. TypeOK'
  BY <1>2, <1>3, BecomeType DEF IInv, TypeOK, Continue
<1> QED
  BY <1>2, <1>3, <1>5, <1>6, LeaveStep DEF InLoop

(* running_jid() only looks the jail up.                                   *)
LEMMA RunningJidStep ==
  ASSUME IInv, NEW c \in Jails, c = cur, RunningJid
  PROVE  IInv' /\ Kept
<1> DEFINE t == [Sched EXCEPT !.flags = WithParams]
<1>1. /\ t \in SchedType /\ t.flags = WithParams /\ t.queue = queue
      /\ Steady(Sched, t) /\ Stays(Sched, t, {c})
  BY WithParamsFacts
<1>2. /\ pc = "begin" /\ pc' = "finish"
      /\ "FAILED" \in flags[cur] => list[cur] # "NULL"
      /\ flags' = WithParams
      /\ error' = (error \/ "FAILED" \in flags[cur])
      /\ jid' = [jid EXCEPT ![cur] = IF @ # 0 THEN @
                                     ELSE IF cur \in up THEN 1 ELSE -1]
      /\ UNCHANGED <<ndeps, seen, queue, ahead, list, pos, pstatus, paralimit,
                     up, cur>>
  BY DEF RunningJid, coms
<1>3. Become(t)
  BY <1>2 DEF Become, Sched
<1>4. flags'[c] = flags[c] \cup {"PARAMS"}
  BY <1>2, WithParamsFacts
<1> HIDE DEF t
<1>5. TypeOK'
  BY <1>1, <1>2, <1>3, BecomeType DEF IInv, TypeOK
<1>6. queue'[c] = "cfjails"
  BY <1>2 DEF IInv, Owner, InLoop
<1>7. NotAsleep' /\ HasCommands' /\ FailedRunsCommands'
  BY <1>2, <1>4 DEF NotAsleep, HasCommands, FailedRunsCommands
<1> QED
  BY <1>1, <1>2, <1>3, <1>5, <1>6, <1>7, GoOnStep DEF InLoop

(* finish_command() clears two flags.                                      *)
LEMMA AwakeFacts ==
  ASSUME IInv, NEW c \in Jails, c = cur
  PROVE  LET t == [Sched EXCEPT !.flags = Awake]
         IN  /\ t \in SchedType /\ t.flags = Awake /\ t.queue = queue
             /\ \A k \in Jails \ {c} : Awake[k] = flags[k]
             /\ "SLEEPQ" \notin Awake[c]
             /\ "FAILED" \in Awake[c] <=> "FAILED" \in flags[c]
             /\ "SET" \in Awake[c] <=> "SET" \in flags[c]
             /\ Ops(Awake[c]) = Ops(flags[c])
<1>1. flags \in [Jails -> SUBSET Flag]
  BY DEF IInv, TypeOK
<1>2. /\ Awake \in [Jails -> SUBSET Flag]
      /\ \A k \in Jails \ {c} : Awake[k] = flags[k]
      /\ Awake[c] = flags[c] \ {"SLEEPQ", "TIMEOUT"}
  BY <1>1 DEF Awake
<1> HIDE DEF Awake
<1>3. Ops(Awake[c]) = Ops(flags[c])
  BY <1>2 DEF Ops, OpFlag
<1>4. TypeOK
  BY DEF IInv
<1> QED
  BY <1>2, <1>3, <1>4, SchedFlags

(* finish_command() without a slot to return.                              *)
LEMMA FinishNothingStep ==
  ASSUME IInv, NEW c \in Jails, c = cur, FinishNothing
  PROVE  IInv' /\ Kept
<1>1. /\ pc = "finish" /\ pc' = "op"
      /\ UNCHANGED <<ndeps, seen, queue, ahead, list, pos, jid, paralimit,
                     error, up, cur>>
  BY DEF FinishNothing, coms
<1>2. TypeOK /\ queue[c] = "cfjails"
  BY <1>1 DEF IInv, Owner, InLoop
<1>3. Owner' /\ HasCommands'
  BY <1>1, <1>2 DEF Owner, HasCommands, InLoop
<1>4. CASE "SLEEPQ" \notin flags[cur] /\ UNCHANGED <<flags, pstatus>>
  <2>1. Sched \in SchedType /\ Become(Sched)
    BY <1>1, <1>2, <1>4, SchedIn DEF Become, Sched
  <2>2. Steady(Sched, Sched) /\ Stays(Sched, Sched, {c})
    BY <2>1, SteadySelf
  <2>3. TypeOK'
    BY <1>1, <1>2, <1>4 DEF TypeOK
  <2>4. NotAsleep' /\ FailedRunsCommands'
    BY <1>1, <1>4 DEF IInv, NotAsleep, FailedRunsCommands
  <2> QED
    BY <1>1, <1>2, <1>3, <2>1, <2>2, <2>3, <2>4, GoOnStep DEF InLoop
<1>5. CASE /\ "SLEEPQ" \in flags[cur]
           /\ At(cur) = "STOP_TIMEOUT"
           /\ flags' = Awake
           /\ pstatus' = [pstatus EXCEPT ![cur] = FALSE]
  <2>1. /\ Awake \in [Jails -> SUBSET Flag]
        /\ \A k \in Jails \ {c} : flags'[k] = flags[k]
        /\ "SLEEPQ" \notin flags'[c]
        /\ "FAILED" \in flags'[c] <=> "FAILED" \in flags[c]
        /\ "SET" \in flags'[c] <=> "SET" \in flags[c]
        /\ Ops(flags'[c]) = Ops(flags[c])
    <3>1. flags \in [Jails -> SUBSET Flag]
      BY <1>2 DEF TypeOK
    <3>2. Awake \in [Jails -> SUBSET Flag]
      BY <3>1 DEF Awake
    <3> QED
      BY <1>5, <3>2, AwakeFacts
  <2>2. TypeOK'
    BY <1>1, <1>2, <1>5, <2>1 DEF TypeOK
  <2>3. \A k \in Jails \ {c} : Calm(k)
    BY <1>1, <2>1 DEF Calm
  <2>4. list'[c] # "NULL" => "SET" \notin flags'[c] /\ Ops(flags'[c]) # {}
    BY <1>1, <2>1 DEF IInv, ListHasOp
  <2>5. CursorOK(c)'
    BY <1>1 DEF IInv, CursorInside, CursorOK, Active, InLoop
  <2>6. NotAsleep' /\ FailedRunsCommands'
    BY <1>1, <2>1 DEF IInv, NotAsleep, FailedRunsCommands
  <2>7. paralimit' + One(Holding(c)') = paralimit + One(Holding(c))
    BY <1>1, <1>5, <2>1 DEF One, Holding, At
  <2>8. ParaLimit > 0 => paralimit' >= 0
    BY <1>1 DEF IInv, SlotsBalance
  <2> QED
    BY <1>1, <1>3, <2>1, <2>2, <2>3, <2>4, <2>5, <2>6, <2>7, <2>8, LoopStep
    DEF InLoop
<1> QED
  BY <1>4, <1>5 DEF FinishNothing

(* finish_command() returns the slot the command held.                     *)
LEMMA FinishCommandStep ==
  ASSUME IInv, NEW c \in Jails, c = cur, FinishCommand
  PROVE  IInv' /\ Kept
<1> DEFINE u == [Sched EXCEPT !.flags = Awake]
           w == WakeRunnable(u)
<1>1. /\ pc = "finish" /\ "SLEEPQ" \in flags[c] /\ At(c) # "STOP_TIMEOUT"
      /\ paralimit' = paralimit + 1
      /\ pstatus' = [pstatus EXCEPT ![cur] = @ /\ "TIMEOUT" \in flags[cur]]
      /\ UNCHANGED <<list, pos, jid, error, up>>
      /\ \/ Become(Failed(w, c)) /\ Continue
         \/ Become(w) /\ pc' = "op" /\ cur' = cur
  BY DEF FinishCommand, coms
<1>2. TypeOK /\ queue[c] = "cfjails"
  BY <1>1 DEF IInv, Owner, InLoop
<1>3. Sched.flags = flags /\ Sched.queue = queue
  BY <1>2, SchedIn
<1>4. /\ u \in SchedType /\ u.flags = Awake /\ u.queue = queue
      /\ \A k \in Jails \ {c} : u.flags[k] = flags[k]
      /\ "SLEEPQ" \notin u.flags[c]
      /\ "FAILED" \in u.flags[c] <=> "FAILED" \in flags[c]
      /\ "SET" \in u.flags[c] <=> "SET" \in flags[c]
      /\ Ops(u.flags[c]) = Ops(flags[c])
  BY AwakeFacts
<1> HIDE DEF u
<1>5. w \in SchedType /\ Steady(u, w) /\ Stays(u, w, {c})
  BY <1>4, WakeRunnableFacts, StaysMore
<1> HIDE DEF w
<1>7. ASSUME NEW t \in SchedType, Become(t), Steady(u, t), Stays(u, t, {c})
      PROVE  /\ flags' = t.flags /\ queue' = t.queue
             /\ flags' \in [Jails -> SUBSET Flag] /\ ndeps' \in [Jails -> Int]
             /\ seen' \in SUBSET Edge /\ queue' \in [Jails -> Queue]
             /\ ahead' \in SUBSET (Jails \X Jails)
             /\ \A k \in Jails \ {c} : Calm(k)
             /\ "FAILED" \in flags[c] => "FAILED" \in flags'[c]
             /\ "SLEEPQ" \notin flags'[c]
             /\ list'[c] # "NULL" => "SET" \notin flags'[c] /\ Ops(flags'[c]) # {}
             /\ paralimit' + One(Holding(c)') = paralimit + One(Holding(c))
             /\ ParaLimit > 0 => paralimit' >= 0
             /\ CursorOK(c)'
  <2>1. /\ flags' = t.flags /\ queue' = t.queue
        /\ flags' \in [Jails -> SUBSET Flag] /\ ndeps' \in [Jails -> Int]
        /\ seen' \in SUBSET Edge /\ queue' \in [Jails -> Queue]
        /\ ahead' \in SUBSET (Jails \X Jails)
    BY <1>7, BecomeType
  <2>2. \A k \in Jails \ {c} : Calm(k)
    BY <1>1, <1>4, <1>7, <2>1 DEF Calm, Steady, Stays
  <2>3. /\ "FAILED" \in flags[c] => "FAILED" \in flags'[c]
        /\ "SLEEPQ" \notin flags'[c]
        /\ list'[c] # "NULL" => "SET" \notin flags'[c] /\ Ops(flags'[c]) # {}
    BY <1>1, <1>4, <1>7, <2>1 DEF Steady, IInv, ListHasOp
  <2>4. Holding(c) /\ ~Holding(c)'
    BY <1>1, <2>3 DEF Holding, At
  <2>5. paralimit' + One(Holding(c)') = paralimit + One(Holding(c))
    BY <1>1, <1>2, <2>4 DEF One, TypeOK
  <2>6. ParaLimit > 0 => paralimit' >= 0
    BY <1>1, <1>2 DEF IInv, SlotsBalance, TypeOK
  <2>7. CursorOK(c)'
    BY <1>1 DEF IInv, CursorInside, CursorOK, Active, InLoop
  <2> QED
    BY <2>1, <2>2, <2>3, <2>5, <2>6, <2>7
<1>8. CASE Become(Failed(w, c)) /\ Continue
  <2> DEFINE t == Failed(w, c)
  <2>1. t \in SchedType /\ Steady(w, t) /\ Stays(w, t, {c})
    BY <1>5, FailedFacts, FailedSteady
  <2> HIDE DEF t
  <2>2. Steady(u, t) /\ Stays(u, t, {c})
    BY <1>4, <1>5, <2>1, SteadyTrans
  <2>3. Become(t)
    BY <1>8 DEF t
  <2>4. TypeOK'
    BY <1>1, <1>2, <1>7, <1>8, <2>1, <2>2, <2>3 DEF TypeOK, Continue
  <2>5. Owner' /\ NotAsleep' /\ HasCommands' /\ FailedRunsCommands'
    BY <1>8 DEF Continue, Owner, NotAsleep, HasCommands, FailedRunsCommands,
                InLoop
  <2>6. pc' = "next" /\ cur' = NoJail
    BY <1>8 DEF Continue
  <2>7. pc' \notin {"setup", "loops"} /\ pc' \notin InLoop
    BY <2>6 DEF InLoop
  <2> QED
    BY <1>7, <2>1, <2>2, <2>3, <2>4, <2>5, <2>6, <2>7, LoopStep
<1>9. CASE Become(w) /\ pc' = "op" /\ cur' = cur
  <2>1. TypeOK'
    <3>1. /\ flags' \in [Jails -> SUBSET Flag] /\ ndeps' \in [Jails -> Int]
          /\ seen' \in SUBSET Edge /\ queue' \in [Jails -> Queue]
          /\ ahead' \in SUBSET (Jails \X Jails)
      BY <1>5, <1>7, <1>9
    <3>2. /\ list' = list /\ pos' = pos /\ jid' = jid /\ error' = error
          /\ up' = up /\ pc' = "op" /\ cur' = cur
      BY <1>1, <1>9
    <3>3. pstatus' \in [Jails -> BOOLEAN] /\ paralimit' \in Int
      BY <1>1, <1>2 DEF TypeOK
    <3> QED
      BY <1>2, <3>1, <3>2, <3>3 DEF TypeOK
  <2>2. list'[c] = list[c] /\ "SLEEPQ" \notin flags'[c]
    BY <1>1, <1>5, <1>7, <1>9
  <2>4. queue'[c] = "cfjails"
    <3>1. \A k \in Jails : u.queue[k] = "cfjails" => w.queue[k] = "cfjails"
      BY <1>4, WakeRunnableFacts DEF w
    <3> QED
      BY <1>2, <1>4, <1>5, <1>7, <1>9, <3>1
  <2>5. "FAILED" \in flags'[c] <=> "FAILED" \in flags[c]
    <3>1. \A k \in Jails : "FAILED" \in w.flags[k] <=> "FAILED" \in u.flags[k]
      BY <1>4, WakeRunnableFacts DEF w
    <3> QED
      BY <1>4, <1>5, <1>7, <1>9, <3>1
  <2>6. Owner' /\ NotAsleep' /\ HasCommands' /\ FailedRunsCommands'
    BY <1>1, <1>9, <2>2, <2>4, <2>5 DEF IInv, Owner, NotAsleep, HasCommands,
       FailedRunsCommands, InLoop
  <2>7. pc' \notin {"setup", "loops"}
    BY <1>9
  <2> QED
    BY <1>5, <1>7, <1>9, <2>1, <2>6, <2>7, LoopStep
<1> QED
  BY <1>1, <1>8, <1>9

-----------------------------------------------------------------------------
(* The operation of the jail the loop holds.                               *)

(* A jail that fails leaves the loop.                                      *)
LEMMA FailedLeaves ==
  ASSUME IInv, NEW c \in Jails, c = cur, pc \in InLoop \ {"done"},
         NEW u \in SchedType, Steady(Sched, u), Stays(Sched, u, {c}),
         Become(Failed(u, cur)), Continue,
         UNCHANGED <<coms, jid, pstatus, paralimit, error, up>>
  PROVE  IInv' /\ Kept
<1> DEFINE t == Failed(u, cur)
<1>1. t \in SchedType /\ Steady(u, t) /\ Stays(u, t, {c})
  BY FailedFacts, FailedSteady
<1>2. Become(t) /\ UNCHANGED <<list, pos, jid, pstatus, paralimit, error, up>>
  BY DEF coms
<1> HIDE DEF t
<1>3. Sched \in SchedType
  BY SchedIn DEF IInv
<1>4. Steady(Sched, t) /\ Stays(Sched, t, {c})
  BY <1>1, <1>3, SteadyTrans
<1>5. TypeOK'
  BY <1>1, <1>2, BecomeType DEF IInv, TypeOK, Continue
<1> QED
  BY <1>1, <1>2, <1>4, <1>5, LeaveStep

(* An operation that is refused fails the jail.                            *)
LEMMA RefuseStep ==
  ASSUME IInv, NEW c \in Jails, c = cur, pc = "op", Refuse
  PROVE  IInv' /\ Kept
<1>1. Sched \in SchedType
  BY SchedIn DEF IInv
<1>2. Steady(Sched, Sched) /\ Stays(Sched, Sched, {c})
  BY <1>1, SteadySelf
<1> QED
  BY <1>1, <1>2, FailedLeaves DEF Refuse, InLoop

(* Only jails that still have SET turn, and those run no command.          *)
LEMMA TurnIntoStep ==
  ASSUME IInv, NEW c \in Jails, c = cur, pc = "op", "SET" \in flags[c],
         NEW F \in {{"START"}, {"START", "STOP"}, {"SET"}}, TurnInto(F)
  PROVE  IInv' /\ Kept
<1> DEFINE f == [flags EXCEPT ![c] = F]
           u == [Sched EXCEPT !.flags = f]
           t == IF "STOP" \in F THEN DepReset(u, {c}) ELSE u
<1>1. TypeOK /\ queue[c] = "cfjails" /\ list[c] = "NULL"
      /\ "FAILED" \notin flags[c] /\ "SLEEPQ" \notin flags[c]
  BY DEF IInv, Owner, InLoop, ListHasOp, FailedRunsCommands, NotAsleep
<1>2. /\ F \in SUBSET Flag /\ "FAILED" \notin F /\ "SLEEPQ" \notin F
      /\ Ops(F) # {}
  BY DEF Flag, OpFlag, Ops
<1>3. /\ u \in SchedType /\ u.flags = f /\ u.queue = queue
      /\ Steady(Sched, u) /\ Stays(Sched, u, {c})
  BY <1>1, <1>2, FlagsOf
<1>4. Become(t) /\ UNCHANGED <<list, pos, jid, pstatus, paralimit, error, up, pc,
                               cur>>
  BY DEF TurnInto, coms
<1>5. f[c] = F
  BY <1>1 DEF TypeOK
<1> HIDE DEF u, f
<1>6. t \in SchedType /\ t.flags = f /\ t.queue = queue
  BY <1>3, DepResetOne
<1> HIDE DEF t
<1>7. Steady(Sched, t) /\ Stays(Sched, t, {c})
  BY <1>3, <1>6 DEF Steady, Stays
<1>8. TypeOK'
  BY <1>1, <1>4, <1>6, BecomeType DEF TypeOK
<1>9. flags'[c] = F /\ queue'[c] = "cfjails"
  BY <1>1, <1>4, <1>5, <1>6, BecomeType
<1>10. NotAsleep' /\ HasCommands' /\ FailedRunsCommands'
  BY <1>2, <1>4, <1>9 DEF NotAsleep, HasCommands, FailedRunsCommands
<1> QED
  BY <1>4, <1>6, <1>7, <1>8, <1>9, <1>10, GoOnStep DEF InLoop

(* -cm and -cmr turn into one operation,                                   *)
LEMMA TurnStep ==
  ASSUME IInv, NEW c \in Jails, c = cur, Turn
  PROVE  IInv' /\ Kept
<1>1. NewOp(flags[cur]) \in {{"START"}, {"START", "STOP"}, {"SET"}}
  BY DEF NewOp
<1> QED
  BY <1>1, TurnIntoStep DEF Turn

(* and so does -mr.                                                        *)
LEMMA TurnRestartStep ==
  ASSUME IInv, NEW c \in Jails, c = cur, TurnRestart
  PROVE  IInv' /\ Kept
<1>1. NewOp(flags[cur]) \in {{"START"}, {"START", "STOP"}, {"SET"}}
  BY DEF NewOp
<1>2. pc = "op" /\ "SET" \in flags[c]
  BY DEF TurnRestart, Ops
<1> QED
  BY <1>1, <1>2, RefuseStep, TurnIntoStep DEF TurnRestart

(* A jail that asks what it waits for runs no command yet, and has not     *)
(* failed.                                                                 *)
LEMMA MayCheckFacts ==
  ASSUME IInv, NEW c \in Jails, c = cur, MayCheck
  PROVE  /\ pc = "op" /\ list[c] = "NULL" /\ queue[c] = "cfjails"
         /\ Ops(flags[c]) # {}
         /\ "FAILED" \notin flags[c] /\ "SLEEPQ" \notin flags[c]
<1>1. pc = "op"
  BY DEF MayCheck, Single
<1>2. list[c] = "NULL"
  BY DEF MayCheck, Single, Ops, IInv, ListHasOp
<1>3. Ops(flags[c]) # {}
  BY DEF MayCheck, Single, Ops, OpFlag, DoStop
<1> QED
  BY <1>1, <1>2, <1>3 DEF IInv, Owner, InLoop, FailedRunsCommands, NotAsleep

(* dep_check() of the jail the loop holds.                                 *)
LEMMA CheckFacts ==
  ASSUME IInv, NEW c \in Jails, c = cur, MayCheck
  PROVE  LET t == DepCheck(Sched, cur)
         IN  /\ t \in SchedType /\ Steady(Sched, t) /\ Stays(Sched, t, {c})
             /\ "SLEEPQ" \notin t.flags[c]
             /\ ~Blocked(Sched, cur) => t.queue[c] = "cfjails"
<1>1. /\ Sched \in SchedType /\ Sched.flags = flags /\ Sched.queue = queue
  BY SchedIn DEF IInv
<1>2. /\ Sched.queue[c] = "cfjails" /\ Ops(Sched.flags[c]) # {}
      /\ "SLEEPQ" \notin Sched.flags[c]
  BY <1>1, MayCheckFacts
<1> DEFINE t == DepCheck(Sched, cur)
<1>3. /\ t \in SchedType /\ Steady(Sched, t) /\ Stays(Sched, t, {c})
      /\ ~Blocked(Sched, c) => t.queue[c] = "cfjails"
  BY <1>1, <1>2, DepCheckFacts
<1> HIDE DEF t
<1>4. "SLEEPQ" \notin t.flags[c]
  BY <1>2, <1>3 DEF Steady
<1> QED
  BY <1>3, <1>4 DEF t

(* The jail goes to wait in depend.                                        *)
LEMMA WaitForOthersStep ==
  ASSUME IInv, NEW c \in Jails, c = cur, WaitForOthers
  PROVE  IInv' /\ Kept
<1> DEFINE t == DepCheck(Sched, cur)
<1>1. pc = "op" /\ t \in SchedType /\ Steady(Sched, t) /\ Stays(Sched, t, {c})
  BY MayCheckFacts, CheckFacts DEF WaitForOthers
<1>2. Become(t) /\ Continue
      /\ UNCHANGED <<list, pos, jid, pstatus, paralimit, error, up>>
  BY DEF WaitForOthers, coms
<1> HIDE DEF t
<1>3. TypeOK'
  BY <1>1, <1>2, BecomeType DEF IInv, TypeOK, Continue
<1> QED
  BY <1>1, <1>2, <1>3, LeaveStep DEF InLoop

(* A list begins at its first element.                                     *)
LEMMA BeginStep ==
  ASSUME IInv, NEW c \in Jails, c = cur, Unblocked,
         NEW l \in {"start", "stop"},
         "SET" \notin DepCheck(Sched, cur).flags[c],
         Ops(DepCheck(Sched, cur).flags[c]) # {},
         Begin(l)
  PROVE  IInv' /\ Kept
<1> DEFINE t == DepCheck(Sched, cur)
<1>1. /\ pc = "op" /\ t \in SchedType /\ Steady(Sched, t)
      /\ Stays(Sched, t, {cur})
      /\ "SLEEPQ" \notin t.flags[c] /\ t.queue[c] = "cfjails"
      /\ "FAILED" \notin flags[c] /\ "SLEEPQ" \notin flags[c]
  BY MayCheckFacts, CheckFacts DEF Unblocked
<1>2. /\ Become(t) /\ list' = [list EXCEPT ![cur] = l]
      /\ pos' = [pos EXCEPT ![cur] = 1] /\ pc' = "next_command"
      /\ UNCHANGED <<jid, pstatus, paralimit, error, up, cur>>
  BY DEF Begin
<1>3. "SET" \notin t.flags[c] /\ Ops(t.flags[c]) # {}
  OBVIOUS
<1> HIDE DEF t
<1>4. TypeOK /\ TypeOK'
  <2>1. TypeOK /\ 1 \in 0 .. Len(StopCommands)
    BY StopLength DEF IInv
  <2>2. /\ list' \in [Jails -> {"NULL", "start", "stop"}]
        /\ pos' \in [Jails -> 0 .. Len(StopCommands)]
    BY <1>2, <2>1 DEF TypeOK
  <2> QED
    BY <1>1, <1>2, <2>1, <2>2, BecomeType DEF TypeOK
<1>5. flags'[c] = t.flags[c] /\ queue'[c] = "cfjails" /\ list'[c] = l
      /\ pos'[c] = 1
  BY <1>1, <1>2, <1>4, BecomeType DEF TypeOK
<1>6. \A k \in Jails \ {cur} : Calm(k)
  <2>1. \A k \in Jails \ {cur} : list'[k] = list[k] /\ pos'[k] = pos[k]
    BY <1>2, <1>4 DEF TypeOK
  <2> QED
    BY <1>1, <1>2, <1>4, <2>1, CalmOthers
<1>7. CursorOK(c)'
  <2>1. Len(CommandList[l]) \in 6 .. 7
    BY InnerCommands
  <2>2. \A n \in 6 .. 7 : 1 <= 1 /\ 1 < n
    OBVIOUS
  <2>3. 1 <= pos'[c] /\ pos'[c] < Len(CommandList[list'[c]])
    BY <1>5, <2>1, <2>2
  <2> QED
    BY <2>3 DEF CursorOK
<1>8. /\ Owner' /\ NotAsleep' /\ HasCommands' /\ FailedRunsCommands'
      /\ pc' \notin {"setup", "loops"}
  BY <1>1, <1>2, <1>5 DEF Owner, NotAsleep, HasCommands, FailedRunsCommands,
     InLoop
<1>9. paralimit' + One(Holding(c)') = paralimit + One(Holding(c))
  BY <1>1, <1>2, <1>5 DEF One, Holding
<1>10. ParaLimit > 0 => paralimit' >= 0
  BY <1>2 DEF IInv, SlotsBalance
<1> QED
  BY <1>1, <1>2, <1>3, <1>4, <1>5, <1>6, <1>7, <1>8, <1>9, <1>10, LoopStep

(* Start begins startcommands,                                             *)
LEMMA BeginStartStep ==
  ASSUME IInv, NEW c \in Jails, c = cur, BeginStart
  PROVE  IInv' /\ Kept
<1> DEFINE t == DepCheck(Sched, cur)
<1>1. Unblocked /\ Begin("start") /\ Ops(flags[c]) = {"START"}
  BY DEF BeginStart, Single
<1>2. Steady(Sched, t) /\ Sched.flags = flags
  BY <1>1, SchedIn, CheckFacts DEF Unblocked, IInv
<1> HIDE DEF t
<1>3. "SET" \notin flags[c]
  BY <1>1 DEF Ops, OpFlag
<1>4. "SET" \notin t.flags[c] /\ Ops(t.flags[c]) # {}
  BY <1>1, <1>2, <1>3 DEF Steady
<1> QED
  BY <1>1, <1>4, BeginStep DEF t

(* stop begins stopcommands.                                               *)
LEMMA BeginStopStep ==
  ASSUME IInv, NEW c \in Jails, c = cur, BeginStop
  PROVE  IInv' /\ Kept
<1> DEFINE t == DepCheck(Sched, cur)
<1>1. Unblocked /\ Begin("stop") /\ DoStop(flags[c])
  BY DEF BeginStop, Single
<1>2. Steady(Sched, t) /\ Sched.flags = flags
  BY <1>1, SchedIn, CheckFacts DEF Unblocked, IInv
<1> HIDE DEF t
<1>3. "SET" \notin flags[c] /\ Ops(flags[c]) # {}
  BY <1>1 DEF Ops, OpFlag, DoStop
<1>4. "SET" \notin t.flags[c] /\ Ops(t.flags[c]) # {}
  BY <1>2, <1>3 DEF Steady
<1> QED
  BY <1>1, <1>4, BeginStep DEF t

(* A jail that has nothing to do goes to jail_create_done or the like.     *)
LEMMA NothingToDo ==
  ASSUME IInv, NEW c \in Jails, c = cur, Unblocked,
         NEW t \in SchedType, Steady(Sched, t), Stays(Sched, t, {c}),
         Become(t), pc' = "done",
         UNCHANGED <<coms, jid, pstatus, paralimit, error, up, cur>>
  PROVE  IInv' /\ Kept
<1>1. /\ pc = "op" /\ list[c] = "NULL" /\ "SLEEPQ" \notin flags[c]
      /\ list' = list /\ pos' = pos
  BY MayCheckFacts DEF Unblocked, coms
<1>2. TypeOK'
  BY <1>1, BecomeType DEF IInv, TypeOK
<1>3. "SLEEPQ" \notin flags'[c]
  BY <1>1, SchedIn, BecomeType DEF Steady, IInv
<1>4. NotAsleep' /\ HasCommands' /\ FailedRunsCommands'
  BY <1>3 DEF NotAsleep, HasCommands, FailedRunsCommands
<1> QED
  BY <1>1, <1>2, <1>4, GoOnStep DEF InLoop

(* A jail that runs needs no start,                                        *)
LEMMA AlreadyRunsStep ==
  ASSUME IInv, NEW c \in Jails, c = cur, AlreadyRuns
  PROVE  IInv' /\ Kept
BY CheckFacts, NothingToDo DEF AlreadyRuns, Unblocked

(* and one that does not no stop.                                          *)
LEMMA NotRunningStep ==
  ASSUME IInv, NEW c \in Jails, c = cur, NotRunning
  PROVE  IInv' /\ Kept
<1> DEFINE s == DepCheck(Sched, cur)
           t == IF s.flags[cur] \cap {"DEPEND", "WILD"} = {}
                  THEN Failed(s, cur) ELSE s
<1>1. /\ Become(t) /\ Unblocked /\ pc' = "done"
      /\ UNCHANGED <<coms, jid, pstatus, paralimit, error, up, cur>>
  BY DEF NotRunning
<1>2. s \in SchedType /\ Steady(Sched, s) /\ Stays(Sched, s, {c})
  BY <1>1, CheckFacts DEF Unblocked
<1> HIDE DEF s
<1>3. Failed(s, c) \in SchedType /\ Steady(s, Failed(s, c))
      /\ Stays(s, Failed(s, c), {c})
  BY <1>2, FailedFacts, FailedSteady
<1>4. Sched \in SchedType
  BY SchedIn DEF IInv
<1>5. t \in SchedType /\ Steady(Sched, t) /\ Stays(Sched, t, {c})
  BY <1>2, <1>3, <1>4, SteadyTrans
<1> HIDE DEF t
<1> QED
  BY <1>1, <1>5, NothingToDo

(* update_jail() and rdtun_params().                                       *)
LEMMA UpdateStep ==
  ASSUME IInv, NEW c \in Jails, c = cur, Update
  PROVE  IInv' /\ Kept
<1> DEFINE s == DepCheck(Sched, cur)
<1>1. /\ Unblocked
      /\ \/ Become(Failed(s, cur)) /\ Continue
         \/ Become(s) /\ pc' = "done" /\ cur' = cur
      /\ UNCHANGED <<coms, jid, pstatus, paralimit, error, up>>
  BY DEF Update
<1>2. pc = "op" /\ s \in SchedType /\ Steady(Sched, s) /\ Stays(Sched, s, {c})
  BY <1>1, MayCheckFacts, CheckFacts DEF Unblocked
<1> HIDE DEF s
<1>3. CASE Become(Failed(s, cur)) /\ Continue
  BY <1>1, <1>2, <1>3, FailedLeaves DEF InLoop
<1>4. CASE Become(s) /\ pc' = "done" /\ cur' = cur
  <2>1. UNCHANGED <<coms, jid, pstatus, paralimit, error, up, cur>>
    BY <1>1, <1>4
  <2> QED
    BY <1>1, <1>2, <1>4, <2>1, NothingToDo
<1> QED
  BY <1>1, <1>3, <1>4

(* A stop that failed is left.                                             *)
LEMMA AbandonStopStep ==
  ASSUME IInv, NEW c \in Jails, c = cur, AbandonStop
  PROVE  IInv' /\ Kept
<1>1. /\ pc = "op" /\ pc' = "done"
      /\ UNCHANGED <<flags, ndeps, seen, queue, ahead, list, pos, jid, pstatus,
                     paralimit, error, up, cur>>
  BY DEF AbandonStop, Single, sched, coms
<1>2. Sched \in SchedType /\ Become(Sched) /\ queue[c] = "cfjails"
  BY <1>1, SchedIn DEF IInv, Owner, InLoop, Become, Sched
<1>3. Steady(Sched, Sched) /\ Stays(Sched, Sched, {c})
  BY <1>2, SteadySelf
<1>4. TypeOK' /\ NotAsleep' /\ HasCommands' /\ FailedRunsCommands'
  BY <1>1 DEF IInv, TypeOK, NotAsleep, HasCommands, FailedRunsCommands
<1> QED
  BY <1>1, <1>2, <1>3, <1>4, GoOnStep DEF InLoop

(* A list that was begun goes on.                                          *)
LEMMA ResumeStep ==
  ASSUME IInv, NEW c \in Jails, c = cur, Resume
  PROVE  IInv' /\ Kept
<1>1. /\ pc = "op" /\ pc' = "next_command" /\ list[c] # "NULL"
      /\ UNCHANGED <<flags, ndeps, seen, queue, ahead, list, pos, jid, pstatus,
                     paralimit, error, up, cur>>
  BY DEF Resume, Single, sched, coms
<1>2. Sched \in SchedType /\ Become(Sched) /\ queue[c] = "cfjails"
  BY <1>1, SchedIn DEF IInv, Owner, InLoop, Become, Sched
<1>3. Steady(Sched, Sched) /\ Stays(Sched, Sched, {c})
  BY <1>2, SteadySelf
<1>4. TypeOK' /\ NotAsleep' /\ HasCommands' /\ FailedRunsCommands'
  BY <1>1 DEF IInv, TypeOK, NotAsleep, HasCommands, FailedRunsCommands
<1> QED
  BY <1>1, <1>2, <1>3, <1>4, GoOnStep DEF InLoop

(* The end of an operation, or the stop half of a restart.                 *)
LEMMA DoneStep ==
  ASSUME IInv, NEW c \in Jails, c = cur, Done
  PROVE  IInv' /\ Kept
<1> DEFINE s == DepDone(Sched, cur, FALSE, FALSE)
           restart == {"START", "STOP"} \subseteq s.flags[cur]
                        /\ "FAILED" \notin s.flags[cur]
           f == [s.flags EXCEPT ![cur] = @ \ {"STOP"}]
           v == [s EXCEPT !.flags = f]
           started == DepReset(v, {cur})
           to == IF started.ndeps[cur] # 0 THEN "depend" ELSE "ready"
           moved == Requeue(started, {cur}, to, {})
<1>1. /\ pc = "done" /\ Continue
      /\ UNCHANGED <<pos, jid, pstatus, paralimit, error, up>>
      /\ \/ restart /\ Become(moved) /\ list' = [list EXCEPT ![cur] = "NULL"]
         \/ Become(s) /\ list' = list
  BY DEF Done
<1>2. TypeOK /\ Sched \in SchedType /\ Sched.flags = flags /\ Sched.queue = queue
  BY SchedIn DEF IInv
<1>3. "SLEEPQ" \notin flags[c] /\ (queue[c] = "cfjails" \/ list[c] = "NULL")
      /\ (list[c] # "NULL" => "SET" \notin flags[c] /\ Ops(flags[c]) # {})
  BY <1>1 DEF IInv, NotAsleep, Owner, ListHasOp, InLoop
<1>4. s \in SchedType /\ Steady(Sched, s) /\ Stays(Sched, s, {})
  BY <1>2, DepDoneFacts
<1> HIDE DEF s
<1>5. ASSUME restart
      PROVE  moved \in SchedType /\ Steady(Sched, moved)
             /\ Stays(Sched, moved, {cur})
  <2>1. f \in [Jails -> SUBSET Flag]
    BY <1>4 DEF SchedType
  <2>2. \A k \in Jails : f[k] = IF k = c THEN s.flags[c] \ {"STOP"} ELSE s.flags[k]
    BY <1>4 DEF SchedType
  <2>3. Ops(f[c]) # {}
    BY <1>5, <2>2 DEF Ops, OpFlag
  <2>4. v \in SchedType /\ v.flags = f /\ v.queue = s.queue
    <3> HIDE DEF f
    <3> QED
      BY <1>4, <2>1, SetFlags
  <2> HIDE DEF v, f
  <2>5. started \in SchedType /\ started.flags = f /\ started.queue = s.queue
    BY <2>4, DepResetOne
  <2> HIDE DEF started
  <2>6. to \in Queue
    BY DEF Queue
  <2> HIDE DEF to
  <2>7. /\ moved \in SchedType /\ moved.flags = f
        /\ \A k \in Jails : moved.queue[k] = IF k = c THEN to ELSE s.queue[k]
    <3>1. Moved(started, moved, {c}, to)
      BY <2>5, <2>6, RequeueOne
    <3> HIDE DEF moved
    <3> QED
      BY <2>5, <3>1 DEF Moved
  <2> HIDE DEF moved
  <2>8. Steady(Sched, moved)
    BY <1>4, <2>2, <2>3, <2>7 DEF Steady
  <2>9. Stays(Sched, moved, {cur})
    BY <1>4, <2>7 DEF Stays
  <2> QED
    BY <2>7, <2>8, <2>9
<1>6. ASSUME NEW t \in SchedType, Become(t), Steady(Sched, t),
             Stays(Sched, t, {cur}),
             list' \in [Jails -> {"NULL", "start", "stop"}],
             \A k \in Jails \ {c} : list'[k] = list[k],
             list'[c] # "NULL" => list'[c] = list[c] /\ queue'[c] = "cfjails"
      PROVE  IInv' /\ Kept
  <2>1. TypeOK'
    BY <1>1, <1>2, <1>6, BecomeType DEF TypeOK, Continue
  <2>2. \A k \in Jails \ {c} : Calm(k)
    BY <1>1, <1>2, <1>6, CalmOthers
  <2>3. flags' = t.flags
    BY <1>6, BecomeType
  <2>4. /\ "FAILED" \in flags[c] => "FAILED" \in flags'[c]
        /\ "SLEEPQ" \notin flags'[c]
        /\ list'[c] # "NULL" => "SET" \notin flags'[c] /\ Ops(flags'[c]) # {}
    BY <1>2, <1>3, <1>6, <2>3 DEF Steady
  <2>5. pc' = "next" /\ cur' = NoJail /\ pc' \notin {"setup", "loops"}
        /\ pc' \notin InLoop
    BY <1>1 DEF Continue, InLoop
  <2>6. CursorOK(c)'
    BY <1>6, <2>5 DEF CursorOK, Active
  <2>7. Owner' /\ NotAsleep' /\ HasCommands' /\ FailedRunsCommands'
    BY <2>5 DEF Owner, NotAsleep, HasCommands, FailedRunsCommands, InLoop
  <2>8. paralimit' + One(Holding(c)') = paralimit + One(Holding(c))
    BY <1>1, <1>3, <2>4 DEF One, Holding
  <2>9. ParaLimit > 0 => paralimit' >= 0
    BY <1>1 DEF IInv, SlotsBalance
  <2> QED
    BY <2>1, <2>2, <2>4, <2>5, <2>6, <2>7, <2>8, <2>9, LoopStep
<1>7. CASE restart /\ Become(moved) /\ list' = [list EXCEPT ![cur] = "NULL"]
  <2>1. moved \in SchedType /\ Steady(Sched, moved) /\ Stays(Sched, moved, {cur})
    BY <1>5, <1>7
  <2>2. /\ list' \in [Jails -> {"NULL", "start", "stop"}]
        /\ \A k \in Jails \ {c} : list'[k] = list[k]
        /\ list'[c] = "NULL"
    BY <1>2, <1>7 DEF TypeOK
  <2> HIDE DEF moved
  <2> QED
    BY <1>6, <1>7, <2>1, <2>2
<1>8. CASE Become(s) /\ list' = list
  <2>1. list' \in [Jails -> {"NULL", "start", "stop"}]
    BY <1>2, <1>8 DEF TypeOK
  <2>2. list[c] # "NULL" => queue'[c] = "cfjails"
    BY <1>2, <1>3, <1>4, <1>8, BecomeType DEF Stays
  <2>3. Stays(Sched, s, {cur})
    BY <1>4, StaysMore
  <2> QED
    BY <1>4, <1>6, <1>8, <2>1, <2>2, <2>3
<1> QED
  BY <1>1, <1>7, <1>8

-----------------------------------------------------------------------------
(* next_command() and run_command().                                       *)

(* Without a slot the jail waits in runnable.                              *)
LEMMA WaitForSlotStep ==
  ASSUME IInv, NEW c \in Jails, c = cur, WaitForSlot
  PROVE  IInv' /\ Kept
<1> DEFINE t == IF "FROM_RUNQ" \in flags[cur]
                  THEN RequeueHead(Sched, cur, "runnable")
                  ELSE Requeue(Sched, {cur}, "runnable", {})
<1>1. /\ pc = "next_command" /\ Continue /\ Become(t)
      /\ UNCHANGED <<list, pos, jid, pstatus, paralimit, error, up>>
  BY DEF WaitForSlot, coms
<1>2. Sched \in SchedType
  BY SchedIn DEF IInv
<1>3. "runnable" \in Queue
  BY DEF Queue
<1>4. /\ t \in SchedType /\ t.flags = Sched.flags
      /\ \A k \in Jails : t.queue[k] = IF k = c THEN "runnable"
                                                ELSE Sched.queue[k]
  <2>1. CASE "FROM_RUNQ" \in flags[cur]
    <3>1. Moved(Sched, t, {c}, "runnable")
      BY <1>2, <1>3, <2>1, RequeueHeadFacts
    <3> HIDE DEF t
    <3> QED
      BY <3>1 DEF Moved
  <2>2. CASE "FROM_RUNQ" \notin flags[cur]
    <3>1. Moved(Sched, t, {c}, "runnable")
      BY <1>2, <1>3, <2>2, RequeueOne
    <3> HIDE DEF t
    <3> QED
      BY <3>1 DEF Moved
  <2> QED
    BY <2>1, <2>2
<1> HIDE DEF t
<1>5. Steady(Sched, t) /\ Stays(Sched, t, {c})
  BY <1>4 DEF Steady, Stays
<1>6. TypeOK'
  BY <1>1, <1>4, BecomeType DEF IInv, TypeOK, Continue
<1> QED
  BY <1>1, <1>4, <1>5, <1>6, LeaveStep DEF InLoop

(* With one it goes on.                                                    *)
LEMMA EnterCommandsStep ==
  ASSUME IInv, NEW c \in Jails, c = cur, EnterCommands
  PROVE  IInv' /\ Kept
<1> DEFINE F == flags[c] \ {"FROM_RUNQ"}
           f == [flags EXCEPT ![c] = F]
           t == [Sched EXCEPT !.flags = f]
<1>1. /\ pc = "next_command" /\ pc' = "command" /\ paralimit # 0
      /\ flags' = f
      /\ UNCHANGED <<ndeps, seen, queue, ahead, list, pos, jid, pstatus,
                     paralimit, error, up, cur>>
  BY DEF EnterCommands, coms
<1>2. /\ TypeOK /\ queue[c] = "cfjails" /\ list[c] # "NULL"
      /\ "SLEEPQ" \notin flags[c]
  BY <1>1 DEF IInv, Owner, InLoop, HasCommands, NotAsleep
<1>3. /\ F \in SUBSET Flag
      /\ "FAILED" \in flags[c] => "FAILED" \in F
      /\ "SLEEPQ" \in flags[c] <=> "SLEEPQ" \in F
      /\ Ops(F) = Ops(flags[c])
      /\ "SET" \in F => "SET" \in flags[c]
  BY <1>2 DEF TypeOK, Ops, OpFlag
<1> HIDE DEF F
<1>4. /\ f \in [Jails -> SUBSET Flag]
      /\ t \in SchedType /\ t.flags = f /\ t.queue = queue
      /\ Steady(Sched, t) /\ Stays(Sched, t, {c})
  BY <1>2, <1>3, FlagsOf
<1>5. Become(t)
  BY <1>1 DEF Become, Sched
<1>6. f[c] = F
  BY <1>2 DEF TypeOK
<1> HIDE DEF f, t
<1>7. TypeOK'
  BY <1>1, <1>2, <1>4 DEF TypeOK
<1>8. NotAsleep' /\ HasCommands' /\ FailedRunsCommands'
  BY <1>1, <1>2, <1>3, <1>6 DEF NotAsleep, HasCommands, FailedRunsCommands
<1> QED
  BY <1>1, <1>2, <1>4, <1>5, <1>7, <1>8, GoOnStep DEF InLoop

(* The cursor moves by one and stays in or next to its list.               *)
LEMMA CursorMoves ==
  ASSUME IInv, NEW c \in Jails, c = cur, pc = "command", Advance
  PROVE  /\ list' = list /\ list[c] \in {"start", "stop"}
         /\ pos' \in [Jails -> 0 .. Len(StopCommands)]
         /\ pos'[c] = Next1
         /\ \A k \in Jails \ {c} : pos'[k] = pos[k]
<1>1. /\ TypeOK /\ list[c] \in {"start", "stop"} /\ pos[c] \in Int
      /\ 1 <= pos[c] /\ pos[c] < Len(CommandList[list[c]])
  <2>1. TypeOK /\ list[c] # "NULL"
    BY DEF IInv, HasCommands
  <2>2. Active(c)
    BY DEF Active, InLoop
  <2> QED
    BY <2>1, <2>2 DEF IInv, CursorInside, CursorOK, TypeOK
<1>2. Len(CommandList[list[c]]) \in 6 .. 7
  BY <1>1, InnerCommands
<1>3. \A n \in 6 .. 7, i \in Int : 1 <= i /\ i < n =>
        i - 1 \in 0 .. 7 /\ i + 1 \in 0 .. 7 /\ i + (-1) = i - 1
  OBVIOUS
<1>4. Next1 \in 0 .. 7
  <2>1. pos[c] - 1 \in 0 .. 7 /\ pos[c] + 1 \in 0 .. 7
        /\ pos[c] + (-1) = pos[c] - 1
    BY <1>1, <1>2, <1>3
  <2> QED
    BY <2>1 DEF Next1
<1> HIDE DEF Next1
<1> QED
  BY <1>1, <1>4, StopLength DEF Advance, TypeOK

(* The cursor moves; what is left to show for the jail itself.             *)
LEMMA AdvanceStep ==
  ASSUME IInv, NEW c \in Jails, c = cur, pc = "command", Advance,
         NEW t \in SchedType, Become(t),
         \/ pc' = "next" /\ cur' = NoJail
         \/ /\ pc' \in {"command", "done", "crashed"}
            /\ cur' = cur
            /\ queue'[c] = "cfjails"
            /\ "SLEEPQ" \notin flags'[c],
         \/ pc' \in {"done", "crashed"}
         \/ InList /\ CommandList[list[c]][Next1] # "NULL",
         \A k \in Jails \ {c} : Calm(k),
         "FAILED" \in flags[c] => "FAILED" \in flags'[c],
         "SET" \notin flags'[c],
         Ops(flags'[c]) # {},
         jid' \in [Jails -> {-1, 0, 1}], up' \in SUBSET Jails,
         UNCHANGED <<pstatus, error>>,
         paralimit' \in Int,
         pc' = "command" => paralimit' = paralimit,
         paralimit' + One(Holding(c)') = paralimit + One(Holding(c)),
         ParaLimit > 0 => paralimit' >= 0
  PROVE  IInv' /\ Kept
<1>1. /\ list' = list /\ list[c] \in {"start", "stop"}
      /\ pos' \in [Jails -> 0 .. Len(StopCommands)] /\ pos'[c] = Next1
  BY CursorMoves
<1>2. TypeOK'
  <2>1. TypeOK
    BY DEF IInv
  <2> QED
    BY <1>1, <2>1, BecomeType DEF TypeOK
<1>3. CursorOK(c)'
  <2>1. CASE pc' \in {"done", "crashed"}
    BY <2>1 DEF CursorOK, Active, InLoop
  <2>2. CASE InList /\ CommandList[list[c]][Next1] # "NULL"
    <3>1. 1 < Next1 /\ Next1 < Len(CommandList[list[c]])
      BY <1>1, <2>2, InnerCommands DEF InList
    <3>2. Next1 \in Int
      BY <1>1, <1>2 DEF TypeOK
    <3> QED
      BY <1>1, <3>1, <3>2 DEF CursorOK
  <2> QED
    BY <2>1, <2>2
<1>4. Owner' /\ NotAsleep' /\ HasCommands' /\ FailedRunsCommands'
  BY <1>1 DEF IInv, Owner, NotAsleep, HasCommands, FailedRunsCommands, InLoop
<1>5. pc' \notin {"setup", "loops"}
  OBVIOUS
<1>6. cur' = cur \/ (cur' = NoJail /\ pc' \notin InLoop)
  BY DEF InLoop
<1> QED
  BY <1>2, <1>3, <1>4, <1>5, <1>6, LoopStep

(* What holds of a jail in run_command().                                  *)
LEMMA AtCommand ==
  ASSUME IInv, NEW c \in Jails, c = cur, pc = "command"
  PROVE  /\ TypeOK /\ Sched \in SchedType
         /\ Sched.flags = flags /\ Sched.queue = queue
         /\ queue[c] = "cfjails" /\ list[c] # "NULL"
         /\ "SLEEPQ" \notin flags[c] /\ "SET" \notin flags[c]
         /\ Ops(flags[c]) # {}
         /\ paralimit \in Int /\ paralimit # 0
         /\ ParaLimit > 0 => paralimit >= 0
         /\ ~Holding(c)
<1>1. TypeOK /\ list[c] # "NULL" /\ "SLEEPQ" \notin flags[c]
  BY DEF IInv, HasCommands, NotAsleep
<1> QED
  BY <1>1, SchedIn DEF IInv, Owner, InLoop, ListHasOp, HasCommands, TypeOK,
     SlotsBalance, Holding

(* Commands that do not sleep.                                             *)
LEMMA AdvanceAwake ==
  ASSUME IInv, NEW c \in Jails, c = cur, pc = "command", Advance,
         NEW t \in SchedType, Become(t), Steady(Sched, t),
         Stays(Sched, t, {c}),
         \/ pc' = "next" /\ cur' = NoJail
         \/ /\ pc' \in {"command", "done", "crashed"}
            /\ cur' = cur
            /\ t.queue[c] = "cfjails",
         \/ pc' \in {"done", "crashed"}
         \/ InList /\ CommandList[list[c]][Next1] # "NULL",
         jid' \in [Jails -> {-1, 0, 1}], up' \in SUBSET Jails,
         UNCHANGED <<pstatus, error, paralimit>>
  PROVE  IInv' /\ Kept
<1>1. flags' = t.flags /\ queue' = t.queue
  BY BecomeType
<1>2. /\ TypeOK /\ Sched.flags = flags
      /\ "SLEEPQ" \notin flags[c] /\ "SET" \notin flags[c]
      /\ Ops(flags[c]) # {} /\ ~Holding(c) /\ paralimit \in Int
      /\ ParaLimit > 0 => paralimit >= 0
  BY AtCommand
<1>3. /\ "FAILED" \in flags[c] => "FAILED" \in flags'[c]
      /\ "SLEEPQ" \notin flags'[c] /\ "SET" \notin flags'[c]
      /\ Ops(flags'[c]) # {}
  BY <1>1, <1>2 DEF Steady
<1>4. \A k \in Jails \ {c} : Calm(k)
  <2>1. \A k \in Jails \ {cur} : list'[k] = list[k] /\ pos'[k] = pos[k]
    BY CursorMoves
  <2> QED
    BY <1>2, <2>1, CalmOthers
<1>5. paralimit' + One(Holding(c)') = paralimit + One(Holding(c))
  BY <1>2, <1>3 DEF One, Holding
<1> QED
  BY <1>1, <1>2, <1>3, <1>4, <1>5, AdvanceStep

(* A jail put to sleep gets JF_SLEEPQ.                                     *)
LEMMA SleepFacts ==
  ASSUME TypeOK, NEW c \in Jails
  PROVE  LET f == [flags EXCEPT ![c] = @ \cup {"SLEEPQ"}]
             t == Requeue([Sched EXCEPT !.flags = f], {c}, "sleeping", {})
         IN  /\ t \in SchedType /\ t.flags = f
             /\ f[c] = flags[c] \cup {"SLEEPQ"}
             /\ \A k \in Jails \ {c} : f[k] = flags[k]
             /\ \A k \in Jails \ {c} : t.queue[k] = queue[k]
<1> DEFINE f == [flags EXCEPT ![c] = @ \cup {"SLEEPQ"}]
           u == [Sched EXCEPT !.flags = f]
           t == Requeue(u, {c}, "sleeping", {})
<1>1. f \in [Jails -> SUBSET Flag] /\ f[c] = flags[c] \cup {"SLEEPQ"}
      /\ \A k \in Jails \ {c} : f[k] = flags[k]
  BY DEF TypeOK, Flag
<1> HIDE DEF f
<1>2. u \in SchedType /\ u.flags = f /\ u.queue = queue
  BY <1>1, SchedFlags
<1> HIDE DEF u
<1>3. "sleeping" \in Queue
  BY DEF Queue
<1>4. /\ t \in SchedType /\ t.flags = u.flags
      /\ \A k \in Jails : t.queue[k] = IF k = c THEN "sleeping" ELSE u.queue[k]
  <2>1. Moved(u, t, {c}, "sleeping")
    BY <1>2, <1>3, RequeueOne
  <2> HIDE DEF t
  <2> QED
    BY <2>1 DEF Moved
<1> HIDE DEF t
<1> QED
  BY <1>1, <1>2, <1>4 DEF t, u, f

(* Commands that do: the jail waits in the sleep queue.                    *)
LEMMA AdvanceAsleep ==
  ASSUME IInv, NEW c \in Jails, c = cur, pc = "command", Advance,
         Become(Requeue([Sched EXCEPT !.flags = [flags EXCEPT
                           ![cur] = @ \cup {"SLEEPQ"}]],
                        {cur}, "sleeping", {})),
         Continue, UNCHANGED <<jid, pstatus, error, up>>,
         InList, CommandList[list[c]][Next1] # "NULL",
         paralimit' = IF CommandList[list[c]][Next1] = "STOP_TIMEOUT"
                        THEN paralimit ELSE paralimit - 1
  PROVE  IInv' /\ Kept
<1> DEFINE F == flags[c] \cup {"SLEEPQ"}
           f == [flags EXCEPT ![c] = @ \cup {"SLEEPQ"}]
           t == Requeue([Sched EXCEPT !.flags = f], {c}, "sleeping", {})
<1>1. /\ TypeOK /\ "SLEEPQ" \notin flags[c] /\ "SET" \notin flags[c]
      /\ Ops(flags[c]) # {} /\ ~Holding(c) /\ paralimit \in Int
      /\ paralimit # 0 /\ (ParaLimit > 0 => paralimit >= 0)
      /\ Sched.flags = flags /\ Sched.queue = queue
  BY AtCommand
<1>2. /\ "FAILED" \in flags[c] => "FAILED" \in F
      /\ "SLEEPQ" \in F /\ "SET" \notin F /\ Ops(F) # {}
  BY <1>1 DEF Ops, OpFlag
<1>3. /\ t \in SchedType /\ t.flags = f /\ f[c] = F
      /\ \A k \in Jails \ {c} : f[k] = flags[k]
      /\ \A k \in Jails \ {c} : t.queue[k] = queue[k]
  BY <1>1, SleepFacts
<1>4. Become(t)
  OBVIOUS
<1> HIDE DEF F, f, t
<1>8. flags' = f /\ queue' = t.queue
  BY <1>3, <1>4, BecomeType
<1>9. \A k \in Jails \ {c} : Calm(k)
  <2>1. \A k \in Jails \ {c} : list'[k] = list[k] /\ pos'[k] = pos[k]
    BY CursorMoves
  <2> QED
    BY <1>3, <1>8, <2>1 DEF Calm
<1>10. At(c)' = CommandList[list[c]][Next1]
  BY CursorMoves DEF At
<1>11. paralimit' + One(Holding(c)') = paralimit + One(Holding(c))
  BY <1>1, <1>2, <1>3, <1>8, <1>10 DEF One, Holding
<1>12. paralimit' \in Int /\ (ParaLimit > 0 => paralimit' >= 0)
  <2>1. paralimit' = paralimit \/ paralimit' = paralimit - 1
    OBVIOUS
  <2> QED
    BY <1>1, <2>1
<1>13. pc' = "next" /\ cur' = NoJail
  BY DEF Continue
<1>14. jid' \in [Jails -> {-1, 0, 1}] /\ up' \in SUBSET Jails
  BY <1>1 DEF TypeOK
<1> QED
  BY <1>2, <1>3, <1>4, <1>8, <1>9, <1>11, <1>12, <1>13, <1>14, AdvanceStep

(* The end of a list.                                                      *)
LEMMA CommandsEndStep ==
  ASSUME IInv, NEW c \in Jails, c = cur, CommandsEnd \/ LeaveList
  PROVE  IInv' /\ Kept
<1>1. /\ pc = "command" /\ Advance /\ pc' \in {"done", "crashed"}
      /\ UNCHANGED <<flags, ndeps, seen, queue, ahead, jid, pstatus, paralimit,
                     error, up, cur>>
  BY DEF CommandsEnd, LeaveList, Upcoming, sched
<1>2. /\ TypeOK /\ Sched \in SchedType /\ Sched.queue[c] = "cfjails"
  BY <1>1, AtCommand
<1>3. Become(Sched)
  BY <1>1 DEF Become, Sched
<1>4. Steady(Sched, Sched) /\ Stays(Sched, Sched, {c})
  BY <1>2, SteadySelf
<1>5. jid' \in [Jails -> {-1, 0, 1}] /\ up' \in SUBSET Jails
  BY <1>1, <1>2 DEF TypeOK
<1> QED
  BY <1>1, <1>2, <1>3, <1>4, <1>5, AdvanceAwake

(* A parameter without a command is passed over.                           *)
LEMMA PassCommandStep ==
  ASSUME IInv, NEW c \in Jails, c = cur, PassCommand
  PROVE  IInv' /\ Kept
<1>1. /\ pc = "command" /\ pc' = "command" /\ Advance
      /\ InList /\ CommandList[list[c]][Next1] # "NULL"
      /\ UNCHANGED <<flags, ndeps, seen, queue, ahead, jid, pstatus, paralimit,
                     error, up, cur>>
  BY DEF PassCommand, Upcoming, Command, sched
<1>2. /\ TypeOK /\ Sched \in SchedType /\ Sched.queue[c] = "cfjails"
  BY <1>1, AtCommand
<1>3. Become(Sched)
  BY <1>1 DEF Become, Sched
<1>4. Steady(Sched, Sched) /\ Stays(Sched, Sched, {c})
  BY <1>2, SteadySelf
<1>5. jid' \in [Jails -> {-1, 0, 1}] /\ up' \in SUBSET Jails
  BY <1>1, <1>2 DEF TypeOK
<1> QED
  BY <1>1, <1>2, <1>3, <1>4, <1>5, AdvanceAwake

(* A command that fails before it is waited for, or a system call that     *)
(* does.                                                                   *)
LEMMA CommandFails ==
  ASSUME IInv, NEW c \in Jails, c = cur, pc = "command", Advance,
         InList, CommandList[list[c]][Next1] # "NULL",
         Become(Failed(Sched, cur)), Continue,
         jid' \in [Jails -> {-1, 0, 1}], up' \in SUBSET Jails,
         UNCHANGED <<pstatus, error, paralimit>>
  PROVE  IInv' /\ Kept
<1> DEFINE t == Failed(Sched, cur)
<1>1. Sched \in SchedType
  BY SchedIn DEF IInv
<1>2. t \in SchedType /\ Steady(Sched, t) /\ Stays(Sched, t, {c})
  BY <1>1, FailedFacts, FailedSteady
<1>3. Become(t)
  OBVIOUS
<1> HIDE DEF t
<1>4. pc' = "next" /\ cur' = NoJail
  BY DEF Continue
<1> QED
  BY <1>2, <1>3, <1>4, AdvanceAwake

(* A command takes a slot, or fails before it is forked.                   *)
LEMMA RunCommandStep ==
  ASSUME IInv, NEW c \in Jails, c = cur, RunCommand
  PROVE  IInv' /\ Kept
<1>1. /\ pc = "command" /\ Advance /\ Continue /\ InList
      /\ CommandList[list[c]][Next1] \notin {"NULL", "STOP_TIMEOUT"}
      /\ UNCHANGED <<jid, pstatus, error, up>>
      /\ \/ /\ Become(Requeue([Sched EXCEPT !.flags = [flags EXCEPT
                                 ![cur] = @ \cup {"SLEEPQ"}]],
                              {cur}, "sleeping", {}))
            /\ paralimit' = paralimit - 1
         \/ Become(Failed(Sched, cur)) /\ UNCHANGED paralimit
  BY DEF RunCommand, Upcoming, Command
<1>2. jid' \in [Jails -> {-1, 0, 1}] /\ up' \in SUBSET Jails
  BY <1>1 DEF IInv, TypeOK
<1>3. CASE Become(Failed(Sched, cur)) /\ UNCHANGED paralimit
  BY <1>1, <1>2, <1>3, CommandFails
<1>4. CASE /\ Become(Requeue([Sched EXCEPT !.flags = [flags EXCEPT
                                ![cur] = @ \cup {"SLEEPQ"}]],
                             {cur}, "sleeping", {}))
           /\ paralimit' = paralimit - 1
  BY <1>1, <1>4, AdvanceAsleep
<1> QED
  BY <1>1, <1>3, <1>4

(* term_procs() takes no slot.                                             *)
LEMMA TermProcsStep ==
  ASSUME IInv, NEW c \in Jails, c = cur, TermProcs
  PROVE  IInv' /\ Kept
<1>1. /\ pc = "command" /\ Advance /\ InList
      /\ CommandList[list[c]][Next1] = "STOP_TIMEOUT"
      /\ UNCHANGED <<jid, pstatus, paralimit, error, up>>
      /\ \/ /\ Become(Requeue([Sched EXCEPT !.flags = [flags EXCEPT
                                 ![cur] = @ \cup {"SLEEPQ"}]],
                              {cur}, "sleeping", {}))
            /\ Continue
         \/ UNCHANGED <<flags, ndeps, seen, queue, ahead, pc, cur>>
  BY DEF TermProcs, Upcoming, sched
<1>2. CASE /\ Become(Requeue([Sched EXCEPT !.flags = [flags EXCEPT
                                ![cur] = @ \cup {"SLEEPQ"}]],
                             {cur}, "sleeping", {}))
           /\ Continue
  BY <1>1, <1>2, AdvanceAsleep
<1>3. CASE UNCHANGED <<flags, ndeps, seen, queue, ahead, pc, cur>>
  <2>1. /\ TypeOK /\ Sched \in SchedType /\ Sched.queue[c] = "cfjails"
    BY <1>1, AtCommand
  <2>2. Become(Sched)
    BY <1>3 DEF Become, Sched
  <2>3. Steady(Sched, Sched) /\ Stays(Sched, Sched, {c})
    BY <2>1, SteadySelf
  <2>4. jid' \in [Jails -> {-1, 0, 1}] /\ up' \in SUBSET Jails
    BY <1>1, <2>1 DEF TypeOK
  <2>5. pc' \in {"command", "done", "crashed"} /\ cur' = cur
    BY <1>1, <1>3
  <2> QED
    BY <1>1, <2>1, <2>2, <2>3, <2>4, <2>5, AdvanceAwake
<1> QED
  BY <1>1, <1>2, <1>3

(* create_jail() and jail_remove(2) end with dep_done().                   *)
LEMMA CommandResolves ==
  ASSUME IInv, NEW c \in Jails, c = cur, pc = "command", Advance,
         InList, CommandList[list[c]][Next1] # "NULL",
         NEW t \in {Sched, DepDone(Sched, cur, TRUE, FALSE)}, Become(t),
         UNCHANGED <<pc, cur>>,
         jid' \in [Jails -> {-1, 0, 1}], up' \in SUBSET Jails,
         UNCHANGED <<pstatus, error, paralimit>>
  PROVE  IInv' /\ Kept
<1>1. /\ Sched \in SchedType /\ Sched.queue = queue /\ queue[c] = "cfjails"
      /\ Sched.flags = flags /\ Ops(flags[c]) # {}
  BY AtCommand
<1>2. t \in SchedType /\ Steady(Sched, t) /\ Stays(Sched, t, {})
  <2>1. CASE t = Sched
    BY <1>1, <2>1, SteadySelf
  <2>2. CASE t = DepDone(Sched, cur, TRUE, FALSE)
    <3>1. cur \in Jails /\ TRUE \in BOOLEAN /\ FALSE \in BOOLEAN
      OBVIOUS
    <3> QED
      BY <1>1, <2>2, <3>1, DepDoneFacts
  <2> QED
    BY <2>1, <2>2
<1>3. t.queue[c] = "cfjails"
  BY <1>1, <1>2 DEF Stays
<1>4. Stays(Sched, t, {c})
  BY <1>2, StaysMore
<1>5. pc' \in {"command", "done", "crashed"} /\ cur' = cur
  OBVIOUS
<1> QED
  BY <1>2, <1>3, <1>4, <1>5, AdvanceAwake

(* create_jail() releases those that wait lightly, or fails.               *)
LEMMA CreateJailStep ==
  ASSUME IInv, NEW c \in Jails, c = cur, CreateJail
  PROVE  IInv' /\ Kept
<1>1. /\ pc = "command" /\ Advance /\ InList
      /\ CommandList[list[c]][Next1] # "NULL"
      /\ UNCHANGED <<pstatus, paralimit, error>>
      /\ \/ /\ up' = up \cup {cur}
            /\ jid' = [jid EXCEPT ![cur] = 1]
            /\ Become(DepDone(Sched, cur, TRUE, FALSE))
            /\ UNCHANGED <<pc, cur>>
         \/ /\ jid' = [jid EXCEPT ![cur] = -1]
            /\ Become(Failed(Sched, cur))
            /\ Continue
            /\ UNCHANGED up
  BY DEF CreateJail, Upcoming
<1>2. jid' \in [Jails -> {-1, 0, 1}] /\ up' \in SUBSET Jails
  BY <1>1 DEF IInv, TypeOK
<1>3. CASE Become(Failed(Sched, cur)) /\ Continue
  BY <1>1, <1>2, <1>3, CommandFails
<1>4. CASE Become(DepDone(Sched, cur, TRUE, FALSE)) /\ UNCHANGED <<pc, cur>>
  BY <1>1, <1>2, <1>4, CommandResolves
<1> QED
  BY <1>1, <1>3, <1>4

(* jail_remove(2) takes the jail down, or fails.                           *)
LEMMA RemoveJailStep ==
  ASSUME IInv, NEW c \in Jails, c = cur, RemoveJail
  PROVE  IInv' /\ Kept
<1> DEFINE s == DepDone(Sched, cur, TRUE, FALSE)
           t == IF "STOP" \in flags[cur] THEN s ELSE Sched
<1>1. /\ pc = "command" /\ Advance /\ InList
      /\ CommandList[list[c]][Next1] # "NULL"
      /\ UNCHANGED <<pstatus, paralimit, error>>
      /\ \/ /\ up' = up \ ({cur} \cup {k \in Jails : <<k, cur>> \in Under})
            /\ jid' = [jid EXCEPT ![cur] = -1]
            /\ Become(t)
            /\ UNCHANGED <<pc, cur>>
         \/ /\ Become(Failed(Sched, cur))
            /\ Continue
            /\ UNCHANGED <<jid, up>>
  BY DEF RemoveJail, Upcoming
<1>2. jid' \in [Jails -> {-1, 0, 1}] /\ up' \in SUBSET Jails
  BY <1>1 DEF IInv, TypeOK
<1>3. CASE Become(Failed(Sched, cur)) /\ Continue
  BY <1>1, <1>2, <1>3, CommandFails
<1>4. CASE Become(t) /\ UNCHANGED <<pc, cur>>
  <2>1. t \in {Sched, s}
    OBVIOUS
  <2> HIDE DEF t
  <2> QED
    BY <1>1, <1>2, <1>4, <2>1, CommandResolves
<1> QED
  BY <1>1, <1>3, <1>4

(* Every step of the main loop keeps the invariant.                        *)
LEMMA MainLoopStep ==
  ASSUME IInv, MainLoop
  PROVE  IInv' /\ Kept
<1>1. pc \in InLoop
  BY DEF MainLoop, SkipFailed, BadParams, RunningJid, FinishNothing,
     FinishCommand, Turn, TurnRestart, Exists, NotFound, WaitForOthers,
     BeginStart, BeginStop, AlreadyRuns, NotRunning, AbandonStop, Resume,
     Update, Done, WaitForSlot, EnterCommands, CommandsEnd, LeaveList,
     PassCommand, RunCommand, TermProcs, CreateJail, RemoveJail,
     Unblocked, MayCheck, Single, Upcoming, InLoop
<1>2. PICK c \in Jails : c = cur
  BY <1>1 DEF IInv, Owner
<1>3. CASE SkipFailed \/ BadParams \/ RunningJid \/ FinishNothing
             \/ FinishCommand
  BY <1>2, <1>3, SkipFailedStep, BadParamsStep, RunningJidStep,
     FinishNothingStep, FinishCommandStep
<1>4. CASE Turn \/ TurnRestart \/ Exists \/ NotFound \/ WaitForOthers
  <2>1. CASE Exists \/ NotFound
    BY <1>2, <2>1, RefuseStep DEF Exists, NotFound, Single
  <2> QED
    BY <1>2, <1>4, <2>1, TurnStep, TurnRestartStep, WaitForOthersStep
<1>5. CASE BeginStart \/ BeginStop \/ AlreadyRuns \/ NotRunning \/ AbandonStop
             \/ Resume \/ Update \/ Done
  BY <1>2, <1>5, BeginStartStep, BeginStopStep, AlreadyRunsStep,
     NotRunningStep, AbandonStopStep, ResumeStep, UpdateStep, DoneStep
<1>6. CASE WaitForSlot \/ EnterCommands \/ CommandsEnd \/ LeaveList
             \/ PassCommand \/ RunCommand \/ TermProcs \/ CreateJail
             \/ RemoveJail
  BY <1>2, <1>6, WaitForSlotStep, EnterCommandsStep, CommandsEndStep,
     PassCommandStep, RunCommandStep, TermProcsStep, CreateJailStep,
     RemoveJailStep
<1> QED
  BY <1>3, <1>4, <1>5, <1>6 DEF MainLoop

-----------------------------------------------------------------------------
(* next_jail(), the end and the steps before the main loop.                *)

(* The main loop takes a jail that nobody holds.                           *)
LEMMA TakeFacts ==
  ASSUME TypeOK, NEW c \in Jails, NEW F \in SUBSET Flag,
         "FAILED" \in flags[c] => "FAILED" \in F,
         "SLEEPQ" \in flags[c] <=> "SLEEPQ" \in F,
         Ops(F) = Ops(flags[c]),
         "SET" \in F => "SET" \in flags[c]
  PROVE  LET t == Requeue([Sched EXCEPT !.flags = [flags EXCEPT ![c] = F]],
                          {c}, "cfjails", {})
         IN  /\ t \in SchedType /\ Steady(Sched, t)
             /\ \A k \in Jails :
                  t.queue[k] = IF k = c THEN "cfjails" ELSE queue[k]
<1> DEFINE f == [flags EXCEPT ![c] = F]
           u == [Sched EXCEPT !.flags = f]
           t == Requeue(u, {c}, "cfjails", {})
<1>1. /\ f \in [Jails -> SUBSET Flag]
      /\ u \in SchedType /\ u.flags = f /\ u.queue = queue
      /\ Steady(Sched, u)
  BY FlagsOf
<1> HIDE DEF u, f
<1>2. "cfjails" \in Queue
  BY DEF Queue
<1>3. /\ t \in SchedType /\ t.flags = u.flags
      /\ \A k \in Jails : t.queue[k] = IF k = c THEN "cfjails" ELSE u.queue[k]
  <2>1. Moved(u, t, {c}, "cfjails")
    BY <1>1, <1>2, RequeueOne
  <2> HIDE DEF t
  <2> QED
    BY <2>1 DEF Moved
<1> HIDE DEF t
<1>4. Steady(Sched, t)
  BY <1>1, <1>3 DEF Steady
<1> QED
  BY <1>1, <1>3, <1>4 DEF t, u, f

(* The main loop takes a jail.                                             *)
LEMMA TakeStep ==
  ASSUME IInv, NEW c \in Jails, queue[c] # "cfjails",
         NEW F \in {flags[c], flags[c] \cup {"TIMEOUT"}},
         Take(c, [flags EXCEPT ![c] = F]),
         pstatus' \in [Jails -> BOOLEAN],
         UNCHANGED <<list, pos, jid, paralimit, error, up>>
  PROVE  IInv' /\ Kept
<1> DEFINE t == Requeue([Sched EXCEPT !.flags = [flags EXCEPT ![c] = F]],
                        {c}, "cfjails", {})
<1>1. TypeOK
  BY DEF IInv
<1>2. /\ F \in SUBSET Flag
      /\ "FAILED" \in flags[c] => "FAILED" \in F
      /\ "SLEEPQ" \in flags[c] <=> "SLEEPQ" \in F
      /\ Ops(F) = Ops(flags[c])
      /\ "SET" \in F => "SET" \in flags[c]
  BY <1>1 DEF TypeOK, Flag, Ops, OpFlag
<1>3. /\ t \in SchedType /\ Steady(Sched, t)
      /\ \A k \in Jails : t.queue[k] = IF k = c THEN "cfjails" ELSE queue[k]
  BY <1>1, <1>2, TakeFacts
<1>4. Become(t) /\ cur' = c /\ pc' = "begin"
  BY DEF Take
<1> HIDE DEF t
<1>7. flags' = t.flags /\ queue' = t.queue
  BY <1>3, <1>4, BecomeType
<1>8. Sched.flags = flags /\ Sched.queue = queue
  BY <1>1, SchedIn
<1>9. \A k \in Jails : Calm(k)
  BY <1>3, <1>7, <1>8 DEF Steady, Calm
<1>10. TypeOK'
  BY <1>1, <1>3, <1>4, BecomeType DEF TypeOK
<1>11. queue'[c] = "cfjails"
  BY <1>3, <1>7
<1>12. Owner' /\ Fresh' /\ NotAsleep' /\ HasCommands' /\ FailedRunsCommands'
  BY <1>4, <1>11 DEF Owner, Fresh, NotAsleep, HasCommands, FailedRunsCommands,
     InLoop
<1>13. ListHasOp'
  BY <1>9 DEF IInv, ListHasOp, Calm
<1>14. CursorInside'
  <2>1. ASSUME NEW k \in Jails, Active(k)', list'[k] # "NULL"
        PROVE  1 <= pos'[k] /\ pos'[k] < Len(CommandList[list'[k]])
    <3>1. list[k] # "NULL" /\ Ops(flags[k]) # {}
      BY <2>1 DEF IInv, ListHasOp
    <3>2. queue[k] # "cfjails"
      <4>1. CASE k = c
        BY <4>1
      <4>2. CASE k # c
        <5>1. queue'[k] # "cfjails"
          BY <1>4, <2>1, <4>2 DEF Active
        <5> QED
          BY <1>9, <3>1, <5>1 DEF Calm
      <4> QED
        BY <4>1, <4>2
    <3>3. 1 <= pos[k] /\ pos[k] < Len(CommandList[list[k]])
      BY <3>1, <3>2 DEF IInv, CursorInside, CursorOK, Active
    <3> QED
      BY <3>3
  <2> QED
    BY <2>1 DEF CursorInside, CursorOK
<1>15. SlotsBalance'
  <2>1. \A k \in Jails : Holding(k)' <=> Holding(k)
    BY <1>9 DEF Calm, Holding, At
  <2>2. {k \in Jails : Holding(k)}' = {k \in Jails : Holding(k)}
    BY <2>1
  <2> QED
    BY <2>2 DEF IInv, SlotsBalance
<1>16. Kept
  BY <1>9 DEF Kept, Calm
<1> QED
  BY <1>10, <1>12, <1>13, <1>14, <1>15, <1>16 DEF IInv

(* next_jail() and next_proc() keep the invariant.                         *)
LEMMA NextJailStep ==
  ASSUME IInv, NEW j \in Jails,
         \/ \E bad \in BOOLEAN : CommandExits(j, bad)
         \/ CommandTimesOut(j)
         \/ NextReady(j)
  PROVE  IInv' /\ Kept
<1>1. /\ queue[j] # "cfjails"
      /\ UNCHANGED <<list, pos, jid, paralimit, error, up>>
  BY DEF CommandExits, CommandTimesOut, NextReady, coms
<1>2. TypeOK /\ flags = [flags EXCEPT ![j] = flags[j]]
  BY DEF IInv, TypeOK
<1>3. pstatus' \in [Jails -> BOOLEAN]
  BY <1>2 DEF CommandExits, CommandTimesOut, NextReady, TypeOK
<1>4. \/ Take(j, flags)
      \/ Take(j, [flags EXCEPT ![j] = flags[j] \cup {"TIMEOUT"}])
  BY DEF CommandExits, CommandTimesOut, NextReady
<1>5. CASE Take(j, flags)
  <2>1. Take(j, [flags EXCEPT ![j] = flags[j]])
    BY <1>2, <1>5
  <2> QED
    BY <1>1, <1>3, <2>1, TakeStep
<1>6. CASE Take(j, [flags EXCEPT ![j] = flags[j] \cup {"TIMEOUT"}])
  BY <1>1, <1>3, <1>6, TakeStep
<1> QED
  BY <1>4, <1>5, <1>6

(* A step that leaves the jails alone.                                     *)
LEMMA QuietStep ==
  ASSUME IInv,
         UNCHANGED <<flags, ndeps, seen, queue, ahead, list, pos, jid, pstatus,
                     paralimit, error, up, cur>>,
         pc' = pc \/ pc' = "exit"
  PROVE  IInv' /\ Kept
<1>1. TypeOK'
  BY DEF IInv, TypeOK
<1>2. Owner' /\ Fresh' /\ ListHasOp' /\ NotAsleep' /\ HasCommands'
      /\ FailedRunsCommands'
  BY DEF IInv, Owner, Fresh, ListHasOp, NotAsleep, HasCommands,
     FailedRunsCommands, InLoop
<1>3. CursorInside'
  BY DEF IInv, CursorInside, CursorOK, Active, InLoop
<1>4. SlotsBalance'
  BY DEF IInv, SlotsBalance, Holding, At
<1>5. Kept
  BY DEF Kept
<1> QED
  BY <1>1, <1>2, <1>3, <1>4, <1>5 DEF IInv

(* Before the main loop every jail has no more than the mark of failure,   *)
(* and start_state() leaves it.                                            *)
LEMMA BeforeLoop ==
  ASSUME IInv, pc \in {"setup", "loops"}, NEW t \in SchedType, Become(t),
         UNCHANGED <<list, pos, jid, pstatus, paralimit, error, up, cur>>,
         \A k \in Jails : /\ "FAILED" \in flags[k] => "FAILED" \in t.flags[k]
                          /\ "SLEEPQ" \notin t.flags[k],
         \/ pc' = "loops" /\ \A k \in Jails : t.flags[k] \in SUBSET {"FAILED"}
         \/ pc' = "next"
  PROVE  IInv' /\ Kept
<1>1. TypeOK'
  BY BecomeType DEF IInv, TypeOK
<1>2. flags' = t.flags
  BY BecomeType
<1>3. paralimit = ParaLimit /\ \A k \in Jails : list[k] = "NULL"
  BY DEF IInv, Fresh
<1>4. Owner' /\ ListHasOp' /\ NotAsleep' /\ HasCommands' /\ FailedRunsCommands'
  BY <1>3 DEF Owner, ListHasOp, NotAsleep, HasCommands, FailedRunsCommands,
     InLoop
<1>5. Fresh'
  BY <1>2, <1>3 DEF Fresh
<1>6. CursorInside'
  BY <1>3 DEF CursorInside, CursorOK
<1>7. SlotsBalance'
  <2>1. {k \in Jails : Holding(k)}' = {}
    BY <1>2 DEF Holding
  <2>2. Cardinality({}) = 0
    BY FS_EmptySet
  <2>3. ParaLimit \in Int /\ paralimit' = ParaLimit
    BY <1>3, CommandLineAssumption
  <2>4. SlotsBalance' <=>
          /\ paralimit' + Cardinality({k \in Jails : Holding(k)}') = ParaLimit
          /\ ParaLimit > 0 => paralimit' >= 0
    BY DEF SlotsBalance
  <2>5. paralimit' + 0 = ParaLimit /\ (ParaLimit > 0 => paralimit' >= 0)
    BY <2>3
  <2> QED
    BY <2>1, <2>2, <2>4, <2>5
<1>8. Kept
  BY <1>2 DEF Kept
<1> QED
  BY <1>1, <1>4, <1>5, <1>6, <1>7, <1>8 DEF IInv

(* Before the main loop no jail runs a command: dep_setup(),               *)
LEMMA DepSetupStep ==
  ASSUME IInv, DepSetup
  PROVE  IInv' /\ Kept
<1> DEFINE t == StartState(Sched, Jails, {}, TRUE)
<1>1. /\ pc = "setup" /\ pc' = "loops" /\ Become(t)
      /\ UNCHANGED <<list, pos, jid, pstatus, paralimit, error, up, cur>>
  BY DEF DepSetup, coms
<1>2. Sched \in SchedType /\ Sched.flags = flags
  BY SchedIn DEF IInv
<1>3. {} \in SUBSET Flag /\ Jails \in Group
  BY DEF Group
<1>4. /\ t \in SchedType
      /\ \A k \in Jails : /\ "FAILED" \in Sched.flags[k] => "FAILED" \in t.flags[k]
                          /\ t.flags[k] \subseteq Sched.flags[k] \cup {}
  BY <1>2, <1>3, StartStateFacts
<1> HIDE DEF t
<1>5. \A k \in Jails : flags[k] \in SUBSET {"FAILED"}
  BY <1>1 DEF IInv, Fresh
<1>6. \A k \in Jails : /\ "FAILED" \in flags[k] => "FAILED" \in t.flags[k]
                       /\ t.flags[k] \in SUBSET {"FAILED"}
                       /\ "SLEEPQ" \notin t.flags[k]
  BY <1>2, <1>4, <1>5
<1> QED
  BY <1>1, <1>4, <1>6, BeforeLoop

(* the loop check,                                                         *)
LEMMA LoopCheckStep ==
  ASSUME IInv, NEW j \in Jails, LoopCheck(j)
  PROVE  IInv' /\ Kept
<1> DEFINE loop == IF queue[j] = "depend" THEN {"FAILED"} ELSE {}
           f == [flags EXCEPT ![j] = @ \cup loop]
           s == [Sched EXCEPT !.flags = f]
           u == Requeue(s, {j}, "cfjails", {})
           t == DepDone(u, j, FALSE, TRUE)
<1>1. /\ pc = "loops" /\ pc' = "loops" /\ Become(t)
      /\ UNCHANGED <<list, pos, jid, pstatus, paralimit, error, up, cur>>
  BY DEF LoopCheck, coms
<1>2. TypeOK /\ \A k \in Jails : flags[k] \in SUBSET {"FAILED"}
  BY <1>1 DEF IInv, Fresh
<1>3. /\ f \in [Jails -> SUBSET Flag]
      /\ \A k \in Jails : \/ f[k] = flags[k]
                          \/ f[k] = flags[k] \cup {"FAILED"}
  BY <1>2 DEF TypeOK, Flag
<1> HIDE DEF f
<1>4. s \in SchedType /\ s.flags = f
  BY <1>2, <1>3, SchedFlags
<1> HIDE DEF s
<1>5. "cfjails" \in Queue
  BY DEF Queue
<1>6. u \in SchedType /\ u.flags = f
  <2>1. Moved(s, u, {j}, "cfjails")
    BY <1>4, <1>5, RequeueOne
  <2> HIDE DEF u
  <2> QED
    BY <1>4, <2>1 DEF Moved
<1> HIDE DEF u
<1>7. /\ t \in SchedType
      /\ \A k \in Jails : \/ t.flags[k] = u.flags[k]
                          \/ t.flags[k] = u.flags[k] \cup {"FAILED"}
  BY <1>6, DepDoneFacts
<1> HIDE DEF t
<1>8. \A k \in Jails : \/ t.flags[k] = flags[k]
                       \/ t.flags[k] = flags[k] \cup {"FAILED"}
  BY <1>3, <1>6, <1>7
<1>9. \A k \in Jails : /\ "FAILED" \in flags[k] => "FAILED" \in t.flags[k]
                       /\ t.flags[k] \in SUBSET {"FAILED"}
                       /\ "SLEEPQ" \notin t.flags[k]
  BY <1>2, <1>8
<1> QED
  BY <1>1, <1>7, <1>9, BeforeLoop

(* and start_state() for the jails of the command line.                    *)
LEMMA JailMainStep ==
  ASSUME IInv, given \in Given, JailMain
  PROVE  IInv' /\ Kept
<1> DEFINE S == IF Target = "all" THEN Jails ELSE Named
           ops == Op \cup (IF Target = "named" THEN {} ELSE {"WILD"})
           all == (Target = "all")
           s == [Sched EXCEPT !.seen = {}]
           t == StartState(s, S, ops, all)
<1>1. /\ pc \in {"setup", "loops"} /\ pc' = "next" /\ Become(t)
      /\ UNCHANGED <<list, pos, jid, pstatus, paralimit, error, up, cur>>
  BY DEF JailMain, coms
<1>a. given \in GivenType
  BY CommandLineAssumption
<1>2. S \in Group
  BY <1>a DEF Named, GivenType, Group
<1>3. ops \in SUBSET Flag /\ "SLEEPQ" \notin ops
  BY <1>a DEF Op, GivenType, Flag, OpFlag
<1>4. Sched \in SchedType /\ Sched.flags = flags
  BY SchedIn DEF IInv
<1>5. s \in SchedType /\ s.flags = flags /\ all \in BOOLEAN
  BY <1>4 DEF SchedType
<1> HIDE DEF s, S, ops, all
<1>7. \A k \in Jails : s.flags[k] \in SUBSET {"FAILED"}
  BY <1>1, <1>5 DEF IInv, Fresh
<1>8. /\ t \in SchedType
      /\ \A k \in Jails : /\ "FAILED" \in s.flags[k] => "FAILED" \in t.flags[k]
                          /\ t.flags[k] \subseteq s.flags[k] \cup ops
  BY <1>2, <1>3, <1>5, StartStateFacts
<1> HIDE DEF t
<1>9. \A k \in Jails : /\ "FAILED" \in flags[k] => "FAILED" \in t.flags[k]
                       /\ "SLEEPQ" \notin t.flags[k]
  BY <1>3, <1>5, <1>7, <1>8
<1> QED
  BY <1>1, <1>8, <1>9, BeforeLoop

-----------------------------------------------------------------------------
(* The theorems.                                                           *)

(* The invariant holds initially                                           *)
LEMMA InitIInv == Init => IInv /\ given \in Given
<1> SUFFICES ASSUME Init
             PROVE  IInv
  BY DEF Init
<1>1. /\ pc = "setup" /\ cur = NoJail
      /\ \A j \in Jails : flags[j] \in SUBSET {"FAILED"} /\ list[j] = "NULL"
      /\ paralimit = ParaLimit
  BY DEF Init
<1>2. TypeOK
  <2>1. /\ flags \in [Jails -> SUBSET Flag]
        /\ ndeps \in [Jails -> Int]
        /\ seen \in SUBSET Edge
        /\ queue \in [Jails -> Queue]
        /\ ahead \in SUBSET (Jails \X Jails)
    BY DEF Init, Flag, Queue
  <2>2. 1 \in 0 .. Len(StopCommands)
    BY StopLength
  <2>3. /\ list \in [Jails -> {"NULL", "start", "stop"}]
        /\ pos \in [Jails -> 0 .. Len(StopCommands)]
        /\ jid \in [Jails -> {-1, 0, 1}]
        /\ pstatus \in [Jails -> BOOLEAN]
    BY <2>2 DEF Init
  <2>4. /\ paralimit \in Int
        /\ error \in BOOLEAN
        /\ up \in SUBSET Jails
    BY CommandLineAssumption DEF Init, Running, GivenType
  <2> QED
    BY <1>1, <2>1, <2>3, <2>4 DEF TypeOK
<1>3. /\ Owner /\ Fresh /\ ListHasOp /\ CursorInside /\ NotAsleep
      /\ HasCommands /\ FailedRunsCommands
  BY <1>1 DEF Owner, Fresh, ListHasOp, CursorInside, CursorOK, NotAsleep,
     HasCommands, FailedRunsCommands, InLoop
<1>4. SlotsBalance
  BY <1>1, NobodyHolds
<1> QED
  BY <1>2, <1>3, <1>4 DEF IInv

(* and every step keeps it, and no step takes JF_FAILED back.              *)
LEMMA NextIInv == IInv /\ given \in Given /\ [Next]_vars => IInv' /\ Kept
<1> SUFFICES ASSUME IInv, given \in Given, [Next]_vars
             PROVE  IInv' /\ Kept
  OBVIOUS
<1>1. CASE DepSetup
  BY <1>1, DepSetupStep
<1>2. CASE \E j \in Jails : LoopCheck(j)
  BY <1>2, LoopCheckStep
<1>3. CASE JailMain
  BY <1>3, JailMainStep
<1>4. CASE \/ \E j \in Jails, bad \in BOOLEAN : CommandExits(j, bad)
           \/ \E j \in Jails : CommandTimesOut(j)
           \/ \E j \in Jails : NextReady(j)
  <2>1. PICK j \in Jails : \/ \E bad \in BOOLEAN : CommandExits(j, bad)
                           \/ CommandTimesOut(j)
                           \/ NextReady(j)
    BY <1>4
  <2> QED
    BY <2>1, NextJailStep
<1>5. CASE Exit \/ UNCHANGED vars
  BY <1>5, QuietStep DEF Exit, vars, sched, coms
<1>6. CASE MainLoop
  BY <1>6, MainLoopStep
<1> QED
  BY <1>1, <1>2, <1>3, <1>4, <1>5, <1>6 DEF Next

(* No step changes the command line.                                       *)
LEMMA Rigid == Spec => [](given \in Given)
<1>1. Init => given \in Given
  BY DEF Init
<1>2. [Next]_vars => given' = given
  BY DEF Next, DepSetup, LoopCheck, JailMain, CommandExits, CommandTimesOut,
     NextReady, Exit, MainLoop, SkipFailed, BadParams, RunningJid,
     FinishNothing, FinishCommand, Turn, TurnRestart, TurnInto, Refuse, Exists,
     NotFound, WaitForOthers, BeginStart, BeginStop, Begin, AlreadyRuns,
     NotRunning, AbandonStop, Resume, Update, Done, WaitForSlot, EnterCommands,
     CommandsEnd, LeaveList, PassCommand, RunCommand, TermProcs, CreateJail,
     RemoveJail, vars
<1>3. given \in Given /\ [Next]_vars => (given \in Given)'
  BY <1>2
<1> QED
  BY <1>1, <1>3, PTL DEF Spec

(* The inductive invariant holds, whatever the configuration file, the     *)
(* command line and the environment.                                       *)
THEOREM Invariance == Spec => []IInv
<1>1. IInv /\ given \in Given /\ [Next]_vars => IInv'
  BY NextIInv
<1> QED
  BY InitIInv, Rigid, <1>1, PTL DEF Spec

(* The fields of struct cfjail keep to their values and j->comparam goes   *)
(* no further out of startcommands or stopcommands than to the word before *)
(* or behind it.                                                           *)
THEOREM TypeCorrect == Spec => []TypeOK
<1>1. IInv => TypeOK
  BY DEF IInv
<1> QED
  BY Invariance, <1>1, PTL

(* run_command() and finish_command() keep account of the slots of -p: no  *)
(* more commands run than it allows, and no slot is lost or made up.       *)
THEOREM SlotsKept == Spec => []SlotsBalance
<1>1. IInv => SlotsBalance
  BY DEF IInv
<1> QED
  BY Invariance, <1>1, PTL

(* No step of the program forgets that a jail has failed.                  *)
THEOREM FailureKept == Spec => FailedIsFinal
<1>1. IInv /\ given \in Given /\ [Next]_vars =>
        [\A j \in Jails : "FAILED" \in flags[j] => "FAILED" \in flags'[j]]_vars
  BY NextIInv DEF Kept
<1> QED
  BY Invariance, Rigid, <1>1, PTL DEF Spec, FailedIsFinal
=============================================================================
