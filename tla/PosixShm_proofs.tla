-------------------------- MODULE PosixShm_proofs --------------------------
(***************************************************************************)
(* A semaphore that one process only has created lets one in at a time,    *)
(* for any number of processes, calls and semaphores.  The invariant       *)
(* counts a token: it is the value of the semaphore, or with a process     *)
(* that has taken it, or with the one that still has to post it first.     *)
(* From it follows who may be between the two halves of a copy.            *)
(***************************************************************************)
EXTENDS PosixShm, TLAPS

Attaching == {"a_shm", "a_create_shm", "a_truncate", "a_post"}

(* Processes that have the token of semaphore s.                           *)
HasToken(p, s) ==
  /\ mysem[p] = s
  /\ at[p] \in Inside \/ (first[p] /\ at[p] \in Attaching)

(* A semaphore is open wherever it is used.                                *)
Opened1 ==
  \A p \in Procs : at[p] \in Busy \ {"a_create_sem", "r_copy"} => mysem[p] \in Sems

Token ==
  \A s \in Sems :
    /\ firsts[s] = 0 => value[s] = 0 /\ \A p \in Procs : ~HasToken(p, s)
    /\ firsts[s] = 1 =>
         /\ value[s] <= 1
         /\ \A p \in Procs : HasToken(p, s) => value[s] = 0
         /\ \A p, q \in Procs : HasToken(p, s) /\ HasToken(q, s) => p = q

IInv == TypeOK /\ Opened1 /\ Token

(* No process and no semaphore: the token is nowhere.                      *)
LEMMA InitInv == Init => IInv
  BY NoneAssumption DEF Init, IInv, TypeOK, Opened1, Token, HasToken, Inside,
                        Attaching, Busy

(* What the steps that leave the semaphores alone have in common: process  *)
(* p goes to a place where it has the token only if it had it before.      *)
LEMMA Quiet ==
  ASSUME IInv, NEW p \in Procs, NEW where \in Busy \cup {"idle", "dead"},
         at' = [at EXCEPT ![p] = where],
         UNCHANGED <<mysem, first, value, firsts>>,
         names' \in [sem : Sems \cup {None}, shm : Objects \cup {None}],
         where \in Busy \ {"a_create_sem", "r_copy"} => mysem[p] \in Sems,
         where \in Inside => at[p] \in Inside,
         where \in Attaching => at[p] \in Attaching
  PROVE  IInv'
<1>1. TypeOK'
  BY DEF IInv, TypeOK
<1>2. Opened1'
  BY DEF IInv, TypeOK, Opened1
<1>3. \A q \in Procs, s \in Sems : HasToken(q, s)' => HasToken(q, s)
  BY DEF IInv, TypeOK, HasToken, Inside, Attaching
<1>4. Token'
  BY <1>3 DEF IInv, Token
<1> QED
  BY <1>1, <1>2, <1>4 DEF IInv

(* A process that opens a semaphore, or none, has no token of it yet.      *)
LEMMA Opening ==
  ASSUME IInv, NEW p \in Procs, NEW where \in {"idle", "a_create_sem", "a_shm",
                                               "w_wait", "c_wait"},
         at[p] = "idle", at' = [at EXCEPT ![p] = where],
         NEW s \in Sems \cup {None}, mysem' = [mysem EXCEPT ![p] = s],
         where \in {"a_shm", "w_wait", "c_wait"} => s \in Sems,
         NEW b \in BOOLEAN, first' = [first EXCEPT ![p] = b],
         where = "a_shm" => ~b,
         UNCHANGED <<value, firsts, names>>
  PROVE  IInv'
<1>1. TypeOK'
  BY DEF IInv, TypeOK, Busy
<1>2. Opened1'
  BY DEF IInv, TypeOK, Opened1, Busy
<1>3. \A q \in Procs, t \in Sems : HasToken(q, t)' => HasToken(q, t)
  BY DEF IInv, TypeOK, HasToken, Inside, Attaching
<1>4. Token'
  BY <1>3 DEF IInv, Token
<1> QED
  BY <1>1, <1>2, <1>4 DEF IInv

(* A process that had the token puts it into the semaphore; one that had   *)
(* not leaves the semaphore alone.                                         *)
LEMMA Posting ==
  ASSUME IInv, NEW p \in Procs, NEW s \in Sems, HasToken(p, s),
         NEW where \in {"idle", "c_sem"}, at' = [at EXCEPT ![p] = where],
         NEW b \in BOOLEAN, first' = [first EXCEPT ![p] = b],
         value' = [value EXCEPT ![s] = @ + 1],
         UNCHANGED <<mysem, firsts, names>>
  PROVE  IInv'
<1>1. TypeOK'
  BY DEF IInv, TypeOK, Busy
<1>2. Opened1'
  BY DEF IInv, TypeOK, Opened1, Busy, HasToken
<1>3. \A q \in Procs, t \in Sems : HasToken(q, t)' => HasToken(q, t) /\ q # p
  BY DEF IInv, TypeOK, HasToken, Inside, Attaching
<1>4. Token'
  <2> SUFFICES ASSUME NEW t \in Sems
               PROVE  /\ firsts[t] = 0 => value'[t] = 0 /\ \A q \in Procs : ~HasToken(q, t)'
                      /\ firsts[t] = 1 =>
                           /\ value'[t] <= 1
                           /\ \A q \in Procs : HasToken(q, t)' => value'[t] = 0
                           /\ \A q, r \in Procs : HasToken(q, t)' /\ HasToken(r, t)' => q = r
    BY DEF Token, HasToken
  <2>1. CASE t # s
    BY <1>3, <2>1 DEF IInv, Token, TypeOK
  <2>2. CASE t = s
    <3>1. firsts[t] # 0
      BY <2>2 DEF IInv, Token
    <3>2. ASSUME firsts[t] = 1
          PROVE  value'[t] = 1 /\ \A q \in Procs : ~HasToken(q, t)'
      BY <1>3, <2>2, <3>2 DEF IInv, Token, TypeOK
    <3> QED
      BY <3>1, <3>2
  <2> QED
    BY <2>1, <2>2
<1> QED
  BY <1>1, <1>2, <1>4 DEF IInv

(* sem_wait() takes the token out of the semaphore.                        *)
LEMMA WaitInv == ASSUME IInv, NEW p \in Procs, Wait(p) PROVE IInv'
<1> DEFINE s == mysem[p]
<1>0. s \in Sems
  BY DEF IInv, Opened1, Wait, Busy
<1>1. TypeOK'
  BY <1>0 DEF IInv, TypeOK, Wait, Goes, Busy
<1>2. Opened1'
  BY <1>0 DEF IInv, TypeOK, Opened1, Wait, Goes, Busy
<1>3. \A q \in Procs, t \in Sems :
        HasToken(q, t)' => HasToken(q, t) \/ (q = p /\ t = s)
  BY DEF IInv, TypeOK, HasToken, Wait, Goes
<1>4. Token'
  <2>1. \A t \in Sems \ {s} : value'[t] = value[t]
    BY DEF Wait, IInv, TypeOK
  <2>2. value[s] > 0 /\ value'[s] = value[s] - 1 /\ value[s] \in Nat
    BY <1>0 DEF Wait, IInv, TypeOK
  <2>3. firsts' = firsts /\ firsts[s] # 0
    BY <1>0, <2>2 DEF Wait, IInv, Token
  <2>4. firsts[s] = 1 => value'[s] = 0 /\ \A q \in Procs : ~HasToken(q, s)
    BY <1>0, <2>2 DEF IInv, Token
  <2> QED
    BY <1>0, <1>3, <2>1, <2>2, <2>3, <2>4 DEF IInv, Token
<1> QED
  BY <1>1, <1>2, <1>4 DEF IInv

(* Whoever creates the semaphore has its token; when a second one does so, *)
(* nothing is claimed of it any more.                                      *)
LEMMA CreateInv == ASSUME IInv, NEW p \in Procs, CreateSem(p) PROVE IInv'
<1>1. PICK s \in Sems :
        /\ mysem' = [mysem EXCEPT ![p] = s]
        /\ names' = [names EXCEPT !.sem = s]
        /\ firsts' = [firsts EXCEPT ![s] = @ + 1]
        /\ s = names.sem \/ s \notin used
  BY DEF CreateSem, New, IInv, TypeOK
<1>2. TypeOK'
  BY <1>1 DEF IInv, TypeOK, CreateSem, Goes, Busy
<1>3. Opened1'
  BY <1>1 DEF IInv, TypeOK, Opened1, CreateSem, Goes, Busy
<1>4. \A q \in Procs, t \in Sems :
        HasToken(q, t)' => HasToken(q, t) \/ (q = p /\ t = s)
  BY <1>1 DEF IInv, TypeOK, HasToken, CreateSem, Goes, Inside
<1>5. Token'
  <2>1. \A t \in Sems \ {s} : firsts'[t] = firsts[t]
    BY <1>1 DEF IInv, TypeOK
  <2>2. firsts'[s] = firsts[s] + 1 /\ firsts[s] \in Nat /\ value' = value
    BY <1>1 DEF IInv, TypeOK, CreateSem
  <2>3. firsts[s] = 0 => value[s] = 0 /\ \A q \in Procs : ~HasToken(q, s)
    BY DEF IInv, Token
  <2> QED
    BY <1>4, <2>1, <2>2, <2>3 DEF IInv, Token
<1> QED
  BY <1>2, <1>3, <1>5 DEF IInv
(* Every step of a process keeps the invariant.                            *)
LEMMA StepInv == ASSUME IInv, NEW p \in Procs PROVE
  /\ \A size \in {0, 1} : AttachOpen(p, size) => IInv'
  /\ \A m \in Messages : WriteOpen(p, m) => IInv'
  /\ CloseOpen(p) \/ ReadOpen(p) \/ Runs(p) \/ Interrupted(p) \/ Crash(p) => IInv'
<1> USE DEF Busy, Inside, Attaching
<1>0. names \in [sem : Sems \cup {None}, shm : Objects \cup {None}]
         /\ names.sem \in Sems \cup {None} /\ mysem[p] \in Sems \cup {None}
         /\ first[p] \in BOOLEAN /\ mysem = [mysem EXCEPT ![p] = mysem[p]]
         /\ first = [first EXCEPT ![p] = first[p]] /\ at = [at EXCEPT ![p] = at[p]]
         /\ value \in [Sems -> Nat]
  BY DEF IInv, TypeOK
<1>1. ASSUME NEW size \in {0, 1}, AttachOpen(p, size) PROVE IInv'
  <2>1. CASE names.sem # None
    BY <1>0, <1>1, <2>1, Opening DEF AttachOpen, Calls, Goes
  <2>2. CASE names.sem = None
    BY <1>0, <1>1, <2>2, Opening DEF AttachOpen, Calls, Goes
  <2> QED
    BY <2>1, <2>2
<1>2. ASSUME NEW m \in Messages, WriteOpen(p, m) PROVE IInv'
  <2>1. CASE names.sem # None
    BY <1>0, <1>2, <2>1, Opening DEF WriteOpen, OpenSem, Calls, Goes
  <2>2. CASE names.sem = None
    BY <1>0, <1>2, <2>2, Opening DEF WriteOpen, OpenSem, Calls, Goes
  <2> QED
    BY <2>1, <2>2
<1>3. ASSUME CloseOpen(p) PROVE IInv'
  <2>1. CASE names.sem # None
    BY <1>0, <1>3, <2>1, Opening DEF CloseOpen, OpenSem, Calls, Goes
  <2>2. CASE names.sem = None
    BY <1>0, <1>3, <2>2, Opening DEF CloseOpen, OpenSem, Calls, Goes
  <2> QED
    BY <2>1, <2>2
<1>4. ASSUME ReadOpen(p) PROVE IInv'
  <2>1. PICK where \in {"idle", "r_copy", "dead"} : at' = [at EXCEPT ![p] = where]
    BY <1>0, <1>4 DEF ReadOpen, Calls, Goes
  <2> QED
    BY <1>0, <1>4, <2>1, Quiet DEF ReadOpen
<1>5. ASSUME Runs(p) PROVE IInv'
  <2>1. CASE CreateSem(p)
    BY <2>1, CreateInv
  <2>2. CASE OpenShm(p)
    <3>1. PICK where \in {"a_post", "idle", "a_create_shm"} : at' = [at EXCEPT ![p] = where]
      BY <2>2 DEF OpenShm, Goes, Returns
    <3> QED
      BY <1>0, <2>2, <3>1, Quiet DEF OpenShm, IInv, Opened1
  <2>3. CASE CreateShm(p)
    <3>1. PICK where \in {"a_truncate", "idle"} : at' = [at EXCEPT ![p] = where]
      BY <2>3 DEF CreateShm, Goes, Returns
    <3>2. names' \in [sem : Sems \cup {None}, shm : Objects \cup {None}]
      BY <1>0, <2>3 DEF CreateShm, New
    <3> QED
      BY <1>0, <2>3, <3>1, <3>2, Quiet DEF CreateShm, IInv, Opened1
  <2>4. CASE Truncate(p)
    <3>1. PICK where \in {"a_post", "idle"} : at' = [at EXCEPT ![p] = where]
      BY <2>4 DEF Truncate, Goes, Returns
    <3>2. names' \in [sem : Sems \cup {None}, shm : Objects \cup {None}]
      BY <1>0, <2>4 DEF Truncate
    <3> QED
      BY <1>0, <2>4, <3>1, <3>2, Quiet DEF Truncate, IInv, Opened1
  <2>5. CASE AttachPost(p)
    <3>1. mysem[p] \in Sems
      BY <2>5 DEF AttachPost, IInv, Opened1
    <3>2. CASE first[p]
      BY <2>5, <3>1, <3>2, Posting DEF AttachPost, Goes, HasToken
    <3>3. CASE ~first[p]
      <4>1. first' = first
        BY <1>0, <2>5, <3>3 DEF AttachPost
      <4> QED
        BY <1>0, <2>5, <3>3, <4>1, Quiet DEF AttachPost, Goes
    <3> QED
      BY <3>2, <3>3
  <2>6. CASE Wait(p)
    BY <2>6, WaitInv
  <2>7. CASE WriteShm(p)
    <3>1. PICK where \in {"w_half", "idle", "dead"} : at' = [at EXCEPT ![p] = where]
      BY <2>7 DEF WriteShm, Goes, Returns
    <3> QED
      BY <1>0, <2>7, <3>1, Quiet DEF WriteShm, IInv, Opened1
  <2>8. CASE WriteHalf(p)
    BY <1>0, <2>8, Quiet DEF WriteHalf, Goes, IInv, Opened1
  <2>9. CASE WriteRest(p)
    BY <1>0, <2>9, Quiet DEF WriteRest, Goes, IInv, Opened1
  <2>10. CASE WritePost(p) \/ ClosePost(p)
    <3>1. mysem[p] \in Sems /\ HasToken(p, mysem[p])
      BY <2>10 DEF WritePost, ClosePost, IInv, Opened1, HasToken
    <3>2. PICK where \in {"idle", "c_sem"} : at' = [at EXCEPT ![p] = where]
      BY <2>10 DEF WritePost, ClosePost, Goes, Returns
    <3> QED
      BY <1>0, <2>10, <3>1, <3>2, Posting DEF WritePost, ClosePost
  <2>11. CASE CloseUnlink(p)
    <3>1. names' \in [sem : Sems \cup {None}, shm : Objects \cup {None}]
      BY <1>0, <2>11 DEF CloseUnlink
    <3> QED
      BY <1>0, <2>11, <3>1, Quiet DEF CloseUnlink, Goes, IInv, Opened1
  <2>12. CASE CloseSem(p)
    <3>1. names' \in [sem : Sems \cup {None}, shm : Objects \cup {None}]
      BY <1>0, <2>12 DEF CloseSem
    <3> QED
      BY <1>0, <2>12, <3>1, Quiet DEF CloseSem, Goes, Returns
  <2>13. CASE ReadCopy(p)
    BY <1>0, <2>13, Quiet DEF ReadCopy, Goes, Returns
  <2> QED
    BY <1>5, <2>1, <2>2, <2>3, <2>4, <2>5, <2>6, <2>7, <2>8, <2>9, <2>10,
       <2>11, <2>12, <2>13 DEF Runs
<1>6. ASSUME Interrupted(p) PROVE IInv'
  BY <1>0, <1>6, Quiet DEF Interrupted, Goes, Returns
<1>7. ASSUME Crash(p) PROVE IInv'
  BY <1>0, <1>7, Quiet DEF Crash, Goes
<1> QED
  BY <1>1, <1>2, <1>3, <1>4, <1>5, <1>6, <1>7

(* The token of a semaphore is in one place.                               *)
THEOREM TokenKept == Spec => []IInv
<1>1. IInv /\ [Next]_vars => IInv'
  <2> SUFFICES ASSUME IInv, [Next]_vars PROVE IInv'
    OBVIOUS
  <2>1. CASE Next
    BY <2>1, StepInv DEF Next
  <2>2. CASE UNCHANGED vars
    BY <2>2 DEF vars, IInv, TypeOK, Opened1, Token, HasToken
  <2> QED
    BY <2>1, <2>2
<1> QED
  BY InitInv, <1>1, PTL DEF Spec

(* libposix_shm_write() and libposix_shm_close(): whoever is between       *)
(* sem_wait() and sem_post() of a semaphore with one creator is alone.     *)
THEOREM OneAtATime == Spec => []OneWriter
<1>1. IInv => OneWriter
  <2> SUFFICES ASSUME IInv, NEW s \in Sems, firsts[s] <= 1,
                      NEW p \in Holders(s), NEW q \in Holders(s)
               PROVE  p = q /\ value[s] = 0
    BY DEF OneWriter
  <2>1. HasToken(p, s) /\ HasToken(q, s) /\ p \in Procs /\ q \in Procs
    BY DEF Holders, HasToken
  <2>2. firsts[s] = 0 \/ firsts[s] = 1
    BY DEF IInv, TypeOK
  <2> QED
    BY <2>1, <2>2 DEF IInv, Token
<1> QED
  BY TokenKept, <1>1, PTL

-----------------------------------------------------------------------------
(* The copy of a message in two halves.                                    *)

(* What a process keeps besides, and the objects; a process that will      *)
(* touch an object has one.                                                *)
Rest == [obj : Objects \cup {None}, size : {0, 1}, msg : Messages \cup {Blank},
         has : BOOLEAN, ret : {"none", "true", "false", "whole", "torn"},
         fds : Nat, calls : Nat]

AppOK ==
  /\ app \in [Procs -> Rest]
  /\ objs \in [Objects -> [sized : BOOLEAN, half : Messages \cup {Blank},
                          rest : Messages \cup {Blank}]]
  /\ \A p \in Procs : at[p] \in {"a_truncate", "w_half", "w_rest", "r_copy"} =>
                       app[p].obj \in Objects

Halfway(p, o) == at[p] = "w_rest" /\ app[p].obj = o

(* One process at most is halfway through an object, it has written the    *)
(* half that is there, and without it the halves are the same.             *)
Copying ==
  (\A s \in Sems : firsts[s] <= 1) =>
    \A o \in Objects \ spoiled :
      /\ \A p, q \in Procs : Halfway(p, o) /\ Halfway(q, o) => p = q
      /\ \A p \in Procs : Halfway(p, o) => objs[o].half = app[p].msg
      /\ objs[o].half # objs[o].rest => \E p \in Procs : Halfway(p, o)

CInv == AppOK /\ Copying

(* Every object is blank, and nobody writes.                               *)
LEMMA InitCopying == Init => CInv
<1> SUFFICES ASSUME Init PROVE CInv
  OBVIOUS
<1>1. AppOK
  <2>1. [obj |-> None, size |-> 0, msg |-> Blank, has |-> FALSE, ret |-> "none",
         fds |-> 0, calls |-> 0] \in Rest
    BY DEF Rest
  <2>2. app \in [Procs -> Rest]
    BY <2>1 DEF Init
  <2> QED
    BY <2>2 DEF Init, AppOK
<1>2. Copying
  BY DEF Init, Copying, Halfway
<1> QED
  BY <1>1, <1>2 DEF CInv

(* What a process does in a call gives the rest of it a proper value, and  *)
(* an object wherever it will touch one.                                   *)
LEMMA StepRest == ASSUME IInv, AppOK, NEW p \in Procs,
                         \/ \E size \in {0, 1} : AttachOpen(p, size)
                         \/ \E m \in Messages : WriteOpen(p, m)
                         \/ CloseOpen(p) \/ ReadOpen(p) \/ Runs(p) 
                         \/ Interrupted(p) \/ Crash(p)
  PROVE \E where \in Busy \cup {"idle", "dead"}, me \in Rest :
           /\ at' = [at EXCEPT ![p] = where]
           /\ app' = [app EXCEPT ![p] = me]
           /\ where \in {"a_truncate", "w_half", "w_rest", "r_copy"} => me.obj \in Objects
           /\ where = "w_rest" => me = app[p]
<1> USE DEF Busy
<1>0. /\ app[p] \in Rest /\ app = [app EXCEPT ![p] = app[p]]
      /\ names.sem \in Sems \cup {None} /\ names.shm \in Objects \cup {None}
      /\ at[p] \in {"a_truncate", "w_half", "w_rest", "r_copy"} => app[p].obj \in Objects
  BY DEF AppOK, IInv, TypeOK
<1>a. app[p].calls + 1 \in Nat /\ app[p].fds + 1 \in Nat
  BY <1>0 DEF Rest
<1> PICK n \in Nat, f \in Nat : n = app[p].calls + 1 /\ f = app[p].fds + 1
  BY <1>a
<1>1. CASE \E size \in {0, 1} : AttachOpen(p, size)
  <2>1. PICK size \in {0, 1} : AttachOpen(p, size)
    BY <1>1
  <2> DEFINE me(ret) == [app[p] EXCEPT !.size = size, !.calls = n, !.ret = ret]
  <2>2. me("none") \in Rest /\ me("false") \in Rest
    BY <1>0 DEF Rest
  <2>3. \E where \in {"a_shm", "idle", "a_create_sem"}, ret \in {"none", "false"} :
           at' = [at EXCEPT ![p] = where] /\ app' = [app EXCEPT ![p] = me(ret)]
    BY <2>1 DEF AttachOpen, Goes, Called
  <2> QED
    BY <2>2, <2>3
<1>2. CASE CloseOpen(p) \/ \E m \in Messages : WriteOpen(p, m)
  <2>1. PICK m \in Messages \cup {Blank} : (CloseOpen(p) /\ m = Blank) \/ WriteOpen(p, m)
    BY <1>2
  <2> DEFINE me == [app[p] EXCEPT !.msg = m, !.calls = n, !.ret = Answer]
  <2>2. me \in Rest
    BY <1>0 DEF Rest, Answer
  <2>3. app' = [app EXCEPT ![p] = me]
    BY <2>1 DEF CloseOpen, WriteOpen, Called
  <2>4. \E where \in {"w_wait", "c_wait", "idle"} : at' = [at EXCEPT ![p] = where]
    BY <2>1 DEF CloseOpen, WriteOpen, OpenSem, Goes
  <2> QED
    BY <2>2, <2>3, <2>4
<1>3. CASE ReadOpen(p)
  <2> DEFINE copies == [app[p] EXCEPT !.obj = names.shm, !.fds = f, !.calls = n, !.ret = "none"]
             fails(i)  == [app[p] EXCEPT !.fds = i, !.calls = n, !.ret = "false"]
  <2>1. copies \in Rest /\ copies.obj = names.shm
    BY <1>0 DEF Rest
  <2>2. fails(f) \in Rest /\ fails(app[p].fds) \in Rest
    BY <1>0 DEF Rest
  <2>3. \/ /\ names.shm # None
           /\ app' = [app EXCEPT ![p] = copies]
           /\ at' = [at EXCEPT ![p] = "r_copy"]
        \/ /\ app' = [app EXCEPT ![p] = fails(f)] \/ app' = [app EXCEPT ![p] = fails(app[p].fds)]
           /\ at' = at /\ at[p] = "idle"
        \/ /\ app' = app
           /\ at' = [at EXCEPT ![p] = "dead"]
    BY <1>3 DEF ReadOpen, Goes, Called, Sized, Calls
  <2>4. at = [at EXCEPT ![p] = at[p]]
    BY DEF IInv, TypeOK
  <2> HIDE DEF copies, fails
  <2> QED
    BY <1>0, <2>1, <2>2, <2>3, <2>4
<1>4. ASSUME NEW ret \in {"none", "true", "false", "whole", "torn"}, Returns(p, ret)
      PROVE  \E me \in Rest : /\ at' = [at EXCEPT ![p] = "idle"]
                              /\ app' = [app EXCEPT ![p] = me]
  <2>1. app' = [app EXCEPT ![p] = [app[p] EXCEPT !.ret = ret]]
    BY <1>0, <1>4 DEF Returns
  <2>2. [app[p] EXCEPT !.ret = ret] \in Rest
    BY <1>0 DEF Rest
  <2> QED
    BY <1>4, <2>1, <2>2 DEF Returns, Goes
<1>5. ASSUME NEW o \in Objects, app' = [app EXCEPT ![p].obj = o, ![p].fds = @ + 1]
      PROVE  \E me \in Rest : app' = [app EXCEPT ![p] = me] /\ me.obj = o
  <2> DEFINE me == [app[p] EXCEPT !.obj = o, !.fds = f]
  <2>1. app' = [app EXCEPT ![p] = me]
    BY <1>0, <1>5
  <2>2. me \in Rest /\ me.obj = o
    BY <1>0 DEF Rest
  <2> QED
    BY <2>1, <2>2
<1>6. CASE Runs(p)
  <2>1. CASE CreateSem(p) \/ Wait(p) \/ WriteHalf(p) \/ WriteRest(p) \/ CloseUnlink(p) \/ ClosePost(p)
    <3>1. app' = app /\ at[p] \in Busy
      BY <2>1 DEF CreateSem, Wait, WriteHalf, WriteRest, CloseUnlink, ClosePost
    <3>2. \E where \in {"a_shm", "w_shm", "c_unlink", "w_rest", "w_post", "c_post", "c_sem"} :
             at' = [at EXCEPT ![p] = where] /\ (where = "w_rest" => at[p] = "w_half")
      BY <2>1 DEF CreateSem, Wait, WriteHalf, WriteRest, CloseUnlink, ClosePost, Goes
    <3> QED
      BY <1>0, <3>1, <3>2
  <2>2. CASE WritePost(p) \/ CloseSem(p) \/ ReadCopy(p)
    BY <1>4, <2>2 DEF WritePost, CloseSem, ReadCopy
  <2>3. CASE OpenShm(p)
    <3>1. CASE Opens(p) /\ Opened(p) /\ Goes(p, "a_post")
      <4>1. names.shm \in Objects /\ at' = [at EXCEPT ![p] = "a_post"]
        BY <1>0, <3>1 DEF Opens, Goes
      <4>2. PICK me \in Rest : app' = [app EXCEPT ![p] = me] /\ me.obj = names.shm
        BY <1>5, <3>1, <4>1, Zenon DEF Opened
      <4> WITNESS "a_post" \in Busy \cup {"idle", "dead"}, me \in Rest
      <4> QED
        BY <4>1, <4>2
    <3>2. CASE Returns(p, "false")
      BY <1>4, <3>2
    <3>3. CASE Goes(p, "a_create_shm") /\ app' = app
      BY <1>0, <3>3 DEF Goes
    <3> QED
      BY <2>3, <3>1, <3>2, <3>3 DEF OpenShm
  <2>4. CASE CreateShm(p)
    <3>1. CASE Returns(p, "false")
      BY <1>4, <3>1
    <3>2. CASE /\ Goes(p, "a_truncate")
               /\ \E o \in Objects : app' = [app EXCEPT ![p].obj = o, ![p].fds = @ + 1]
      <4>1. PICK me \in Rest : app' = [app EXCEPT ![p] = me] /\ me.obj \in Objects
        BY <1>5, <3>2, Zenon
      <4>2. at' = [at EXCEPT ![p] = "a_truncate"]
        BY <3>2 DEF Goes
      <4> WITNESS "a_truncate" \in Busy \cup {"idle", "dead"}, me \in Rest
      <4> QED
        BY <4>1, <4>2
    <3> QED
      BY <1>0, <2>4, <3>1, <3>2 DEF CreateShm, New
  <2>5. CASE Truncate(p)
    <3>1. CASE Returns(p, "false")
      BY <1>4, <3>1
    <3>2. CASE Goes(p, "a_post") /\ app' = app
      BY <1>0, <3>2 DEF Goes
    <3> QED
      BY <2>5, <3>1, <3>2 DEF Truncate
  <2>6. CASE AttachPost(p)
    <3> DEFINE me == [app[p] EXCEPT !.ret = "true", !.has = TRUE]
    <3>1. app' = [app EXCEPT ![p] = me]
      BY <1>0, <2>6 DEF AttachPost
    <3>2. me \in Rest
      BY <1>0 DEF Rest
    <3>3. at' = [at EXCEPT ![p] = "idle"]
      BY <2>6 DEF AttachPost, Goes
    <3> HIDE DEF me
    <3> WITNESS "idle" \in Busy \cup {"idle", "dead"}, me \in Rest
    <3> QED
      BY <3>1, <3>2, <3>3
  <2>7. CASE WriteShm(p)
    <3>1. CASE Opens(p) /\ Opened(p) /\ Goes(p, "w_half")
      <4>1. names.shm \in Objects /\ at' = [at EXCEPT ![p] = "w_half"]
        BY <1>0, <3>1 DEF Opens, Goes
      <4>2. PICK me \in Rest : app' = [app EXCEPT ![p] = me] /\ me.obj = names.shm
        BY <1>5, <3>1, <4>1, Zenon DEF Opened
      <4> WITNESS "w_half" \in Busy \cup {"idle", "dead"}, me \in Rest
      <4> QED
        BY <4>1, <4>2
    <3>2. CASE Returns(p, "false")
      BY <1>4, <3>2
    <3>3. CASE /\ Goes(p, "idle")
               /\ app' = [app EXCEPT ![p].ret = "false", ![p].fds = @ + 1]
      <4> DEFINE me == [app[p] EXCEPT !.ret = "false", !.fds = f]
      <4>1. app' = [app EXCEPT ![p] = me]
        BY <1>0, <3>3
      <4>2. me \in Rest
        BY <1>0 DEF Rest
      <4>3. at' = [at EXCEPT ![p] = "idle"]
        BY <3>3 DEF Goes
      <4> HIDE DEF me
      <4> WITNESS "idle" \in Busy \cup {"idle", "dead"}, me \in Rest
      <4> QED
        BY <4>1, <4>2, <4>3
    <3>4. CASE Goes(p, "dead") /\ app' = app
      BY <1>0, <3>4 DEF Goes
    <3> QED
      BY <2>7, <3>1, <3>2, <3>3, <3>4 DEF WriteShm
  <2> QED
    BY <1>6, <2>1, <2>2, <2>3, <2>4, <2>5, <2>6, <2>7 DEF Runs
<1>7. CASE Interrupted(p) 
  BY <1>4, <1>7 DEF Interrupted
<1>8. CASE Crash(p)
  BY <1>0, <1>8 DEF Crash, Goes
<1> QED
  BY <1>1, <1>2, <1>3, <1>6, <1>7, <1>8

(* The steps that do not copy: nobody comes to be halfway, and the halves  *)
(* of every object are as they were.                                       *)
LEMMA NoCopy ==
  ASSUME IInv, CInv, IInv',
         NEW p \in Procs, NEW where \in Busy \cup {"idle", "dead"}, NEW me \in Rest,
         at' = [at EXCEPT ![p] = where], app' = [app EXCEPT ![p] = me],
         where \in {"a_truncate", "w_half", "r_copy"} => me.obj \in Objects,
         where # "w_rest", at[p] = "w_rest" => app[p].obj \in spoiled',
         \A s \in Sems : firsts[s] <= firsts'[s], spoiled \subseteq spoiled',
         objs' \in [Objects -> [sized : BOOLEAN, half : Messages \cup {Blank},
                               rest : Messages \cup {Blank}]],
         \A o \in Objects : objs'[o].half = objs[o].half /\ objs'[o].rest = objs[o].rest
  PROVE  CInv'
<1>1. AppOK'
  BY DEF CInv, AppOK, IInv, TypeOK
<1>2. \A q \in Procs : at'[q] = "w_rest" <=> q # p /\ at[q] = "w_rest"
  BY DEF IInv, TypeOK
<1>3. \A q \in Procs \ {p} : app'[q] = app[q]
  BY DEF CInv, AppOK
<1>4. \A q \in Procs, o \in Objects \ spoiled' : 
         Halfway(q, o)' <=> Halfway(q, o)
  BY <1>2, <1>3 DEF Halfway
<1>5. (\A s \in Sems : firsts'[s] <= 1) => \A s \in Sems : firsts[s] <= 1
  BY DEF IInv, TypeOK
<1>6. Copying'
  <2> SUFFICES ASSUME \A s \in Sems : firsts[s] <= 1,
                      NEW o \in Objects \ spoiled'
               PROVE  /\ \A q, r \in Procs : Halfway(q, o)' /\ Halfway(r, o)' => q = r
                      /\ \A q \in Procs : Halfway(q, o)' => objs'[o].half = app'[q].msg
                      /\ objs'[o].half # objs'[o].rest => \E q \in Procs : Halfway(q, o)'
    BY <1>5 DEF Copying
  <2>1. o \in Objects \ spoiled
    OBVIOUS
  <2>2. \A q \in Procs : Halfway(q, o)' => app'[q] = app[q]
    BY <1>2, <1>3 DEF Halfway
  <2> QED
    BY <1>4, <2>1, <2>2 DEF CInv, Copying
<1> QED
  BY <1>1, <1>6 DEF CInv

(* WriteHalf: the writer is alone with its object, or the object counts as *)
(* spoiled from now on.                                                    *)
LEMMA FirstHalf == ASSUME IInv, CInv, IInv', NEW p \in Procs, WriteHalf(p) PROVE CInv'
<1> DEFINE o == app[p].obj
<1>1. at[p] = "w_half" /\ at' = [at EXCEPT ![p] = "w_rest"] /\ o \in Objects
      /\ app' = app /\ firsts' = firsts /\ objs' = [objs EXCEPT ![o].half = app[p].msg]
  BY DEF WriteHalf, Goes, CInv, AppOK
<1>2. app[p].msg \in Messages \cup {Blank}
  BY DEF CInv, AppOK, Rest
<1>3. AppOK'
  <2>1. objs' \in [Objects -> [sized : BOOLEAN, half : Messages \cup {Blank},
                                rest : Messages \cup {Blank}]]
    BY <1>1, <1>2 DEF CInv, AppOK
  <2> QED
    BY <1>1, <2>1 DEF CInv, AppOK, IInv, TypeOK
<1>4. spoiled \subseteq spoiled'
  BY DEF WriteHalf
<1>5. \A q \in Procs, u \in Objects : 
         Halfway(q, u)' <=> Halfway(q, u) \/ (q = p /\ u = o)
  BY <1>1 DEF Halfway, IInv, TypeOK
<1>6. \A u \in Objects \ {o} : objs'[u] = objs[u]
  BY <1>1 DEF CInv, AppOK
<1>7. objs'[o].half = app[p].msg
  BY <1>1 DEF CInv, AppOK
<1>8. ASSUME \A s \in Sems : firsts[s] <= 1, o \notin spoiled'
      PROVE  \A q \in Procs : ~Halfway(q, o)
  <2> SUFFICES ASSUME NEW q \in Procs, Halfway(q, o) PROVE FALSE
    OBVIOUS
  <2>1. q \in Writing(o) /\ p \in Writing(o)
    BY <1>1 DEF Writing, Halfway
  <2>2. mysem[q] = mysem[p]
    BY <1>8, <2>1 DEF WriteHalf
  <2>3. mysem[p] \in Sems
    BY <1>1 DEF IInv, Opened1, Busy
  <2>4. HasToken(p, mysem[p]) /\ HasToken(q, mysem[p])
    BY <1>1, <2>2 DEF HasToken, Inside, Halfway
  <2>5. firsts[mysem[p]] = 0 \/ firsts[mysem[p]] = 1
    BY <1>8, <2>3 DEF IInv, TypeOK
  <2>6. p = q
    BY <2>3, <2>4, <2>5 DEF IInv, Token
  <2> QED
    BY <1>1, <2>6 DEF Halfway
<1>9. Copying'
  <2> SUFFICES ASSUME \A s \in Sems : firsts[s] <= 1,
                      NEW u \in Objects \ spoiled'
               PROVE  /\ \A q, r \in Procs : Halfway(q, u)' /\ Halfway(r, u)' => q = r
                      /\ \A q \in Procs : Halfway(q, u)' => objs'[u].half = app'[q].msg
                      /\ objs'[u].half # objs'[u].rest => \E q \in Procs : Halfway(q, u)'
    BY <1>1 DEF Copying
  <2>1. CASE u = o
    BY <1>1, <1>5, <1>7, <1>8, <2>1
  <2>2. CASE u # o
    BY <1>1, <1>4, <1>5, <1>6, <2>2 DEF CInv, Copying
  <2> QED
    BY <2>1, <2>2
<1> QED
  BY <1>3, <1>9 DEF CInv

(* WriteRest: the half that is there is the writer's own.                  *)
LEMMA SecondHalf == ASSUME IInv, CInv, IInv', NEW p \in Procs, WriteRest(p) PROVE CInv'
<1> DEFINE o == app[p].obj
<1>1. at[p] = "w_rest" /\ at' = [at EXCEPT ![p] = "w_post"] /\ o \in Objects
      /\ app' = app /\ firsts' = firsts /\ objs' = [objs EXCEPT ![o].rest = app[p].msg]
      /\ spoiled' = spoiled
  BY DEF WriteRest, Goes, CInv, AppOK, history
<1>2. app[p].msg \in Messages \cup {Blank}
  BY DEF CInv, AppOK, Rest
<1>3. AppOK'
  <2>1. objs' \in [Objects -> [sized : BOOLEAN, half : Messages \cup {Blank},
                                rest : Messages \cup {Blank}]]
    BY <1>1, <1>2 DEF CInv, AppOK
  <2> QED
    BY <1>1, <2>1 DEF CInv, AppOK, IInv, TypeOK
<1>4. \A q \in Procs, u \in Objects : Halfway(q, u)' <=> Halfway(q, u) /\ q # p
  BY <1>1 DEF Halfway, IInv, TypeOK
<1>5. \A u \in Objects \ {o} : objs'[u] = objs[u] /\ ~Halfway(p, u)
  BY <1>1 DEF CInv, AppOK, Halfway
<1>6. objs'[o].rest = app[p].msg /\ objs'[o].half = objs[o].half
  BY <1>1 DEF CInv, AppOK
<1>7. Copying'
  <2> SUFFICES ASSUME \A s \in Sems : firsts[s] <= 1,
                      NEW u \in Objects \ spoiled
               PROVE  /\ \A q, r \in Procs : Halfway(q, u)' /\ Halfway(r, u)' => q = r
                      /\ \A q \in Procs : Halfway(q, u)' => objs'[u].half = app'[q].msg
                      /\ objs'[u].half # objs'[u].rest => \E q \in Procs : Halfway(q, u)'
    BY <1>1 DEF Copying
  <2>1. CASE u = o
    <3>1. Halfway(p, o)
      BY <1>1 DEF Halfway
    <3>2. objs[o].half = app[p].msg /\ \A q \in Procs : Halfway(q, o) => q = p
      BY <2>1, <3>1 DEF CInv, Copying
    <3> QED
      BY <1>4, <1>6, <2>1, <3>2
  <2>2. CASE u # o
    BY <1>1, <1>4, <1>5, <2>2 DEF CInv, Copying
  <2> QED
    BY <2>1, <2>2
<1> QED
  BY <1>3, <1>7 DEF CInv

(* Every step of a process keeps the copies apart.                         *)
LEMMA CopyStep == ASSUME IInv, CInv, IInv', NEW p \in Procs,
                         \/ \E size \in {0, 1} : AttachOpen(p, size)
                         \/ \E m \in Messages : WriteOpen(p, m)
                         \/ CloseOpen(p) \/ ReadOpen(p) \/ Runs(p)
                         \/ Interrupted(p) \/ Crash(p)
                  PROVE  CInv'
<1> DEFINE Steps ==
      \/ \E size \in {0, 1} : AttachOpen(p, size)
      \/ \E m \in Messages : WriteOpen(p, m)
      \/ CloseOpen(p) \/ ReadOpen(p) \/ Interrupted(p) \/ Crash(p)
      \/ CreateSem(p) \/ OpenShm(p) \/ CreateShm(p) \/ Truncate(p) \/ AttachPost(p)
      \/ Wait(p) \/ WriteShm(p) \/ WritePost(p)
      \/ CloseUnlink(p) \/ ClosePost(p) \/ CloseSem(p) \/ ReadCopy(p)
<1>1. AppOK
  BY DEF CInv
<1>2. PICK where \in Busy \cup {"idle", "dead"}, me \in Rest :
           /\ at' = [at EXCEPT ![p] = where]
           /\ app' = [app EXCEPT ![p] = me]
           /\ where \in {"a_truncate", "w_half", "w_rest", "r_copy"} => me.obj \in Objects
           /\ where = "w_rest" => me = app[p]
  BY <1>1, StepRest
<1>3. Steps \/ WriteHalf(p) \/ WriteRest(p)
  BY DEF Runs
<1>4. CASE Steps
  <2>1. at'[p] # "w_rest" /\ (at[p] = "w_rest" => app[p].obj \in spoiled')
    <3>1. CASE Crash(p)
      BY <3>1 DEF Crash, Goes, IInv, TypeOK
    <3>2. CASE ~Crash(p)
      BY <1>4, <3>2
         DEF AttachOpen, WriteOpen, CloseOpen, ReadOpen, Interrupted, CreateSem,
             OpenShm, CreateShm, Truncate, AttachPost, Wait, WriteShm, WritePost,
             CloseUnlink, ClosePost, CloseSem, ReadCopy, Calls, Goes, Returns, OpenSem,
             IInv, TypeOK
    <3> QED
      BY <3>1, <3>2
  <2>2. where # "w_rest"
    BY <1>2, <2>1 DEF IInv, TypeOK
  <2>3. \A s \in Sems : firsts[s] <= firsts'[s]
    <3>1. CASE CreateSem(p)
      BY <3>1 DEF CreateSem, New, IInv, TypeOK
    <3>2. CASE firsts' = firsts
      BY <3>2 DEF IInv, TypeOK
    <3> QED
      BY <1>4, <3>1, <3>2
         DEF AttachOpen, WriteOpen, CloseOpen, ReadOpen, Interrupted, Crash,
             OpenShm, CreateShm, Truncate, AttachPost, Wait, WriteShm, WritePost,
             CloseUnlink, ClosePost, CloseSem, ReadCopy
  <2>4. spoiled \subseteq spoiled'
    BY <1>4 DEF AttachOpen, WriteOpen, CloseOpen, ReadOpen, Interrupted, Crash, CreateSem,
             OpenShm, CreateShm, Truncate, AttachPost, Wait, WriteShm, WritePost,
             CloseUnlink, ClosePost, CloseSem, ReadCopy, history
  <2>5. \/ objs' = objs
        \/ at[p] = "a_truncate" /\ objs' = [objs EXCEPT ![app[p].obj].sized = TRUE]
    BY <1>4 DEF AttachOpen, WriteOpen, CloseOpen, ReadOpen, Interrupted, Crash, CreateSem,
             OpenShm, CreateShm, Truncate, AttachPost, Wait, WriteShm, WritePost,
             CloseUnlink, ClosePost, CloseSem, ReadCopy
  <2>6. /\ objs' \in [Objects -> [sized : BOOLEAN, half : Messages \cup {Blank},
                               rest : Messages \cup {Blank}]]
        /\ \A o \in Objects : objs'[o].half = objs[o].half /\ objs'[o].rest = objs[o].rest
    <3>1. CASE objs' = objs
      BY <1>1, <3>1 DEF AppOK
    <3>2. CASE at[p] = "a_truncate" /\ objs' = [objs EXCEPT ![app[p].obj].sized = TRUE]
      <4>1. app[p].obj \in Objects
        BY <1>1, <3>2 DEF AppOK
      <4>2. objs \in [Objects -> [sized : BOOLEAN, half : Messages \cup {Blank},
                                  rest : Messages \cup {Blank}]]
        BY <1>1 DEF AppOK
      <4> QED
        BY <3>2, <4>1, <4>2
    <3> QED
      BY <2>5, <3>1, <3>2
  <2> QED
    BY <1>2, <2>1, <2>2, <2>3, <2>4, <2>6, NoCopy
<1> QED
  BY <1>3, <1>4, FirstHalf, SecondHalf

(* libposix_shm_write(): the halves of an object that nobody spoils differ *)
(* only while one process, and the one that wrote the first, is writing.   *)
THEOREM CopiedWhole == Spec => []WholeAtRest
<1>1. IInv /\ CInv /\ [Next]_vars => CInv' /\ IInv'
  <2> SUFFICES ASSUME IInv, CInv, [Next]_vars PROVE CInv' /\ IInv'
    OBVIOUS
  <2>1. CASE Next
    <3>1. IInv'
      BY <2>1, StepInv DEF Next
    <3> QED
      BY <2>1, <3>1, CopyStep DEF Next
  <2>2. CASE UNCHANGED vars
    BY <2>2 DEF vars, history, CInv, AppOK, Copying, Halfway, IInv, TypeOK, Opened1, Token, HasToken
  <2> QED
    BY <2>1, <2>2
<1>2. CInv => WholeAtRest
  BY DEF CInv, Copying, WholeAtRest, Halfway
<1> QED
  BY InitInv, InitCopying, <1>1, <1>2, PTL DEF Spec
=============================================================================
