------------------------------ MODULE PosixShm ------------------------------
(***************************************************************************)
(* luaposix_shm.c: several processes attach, read, write and close one     *)
(* named object of shared memory, which a named semaphore guards.  A step  *)
(* is one system call or one half of a copy.  A semaphore and an object    *)
(* live on under their numbers when their names are taken away.            *)
(***************************************************************************)
EXTENDS Integers

CONSTANTS
  Procs,   \* the processes
  Sems,    \* semaphores that can come to be
  Objects, \* objects that can come to be
  None,    \* no semaphore, no object
  Messages, Blank, \* what is written, and what a new object holds
  May,     \* the calls that each process makes
  MaxCalls,\* how many of them, for each
  MaxFds,  \* descriptors that a process may hold
  Faults   \* among "crash", "signal", "memory"

ASSUME NoneAssumption == None \notin Sems /\ None \notin Objects

VARIABLES
  at,      \* where each process is
  mysem,   \* the semaphore it has opened
  first,   \* whether attach() takes it for the first
  value,   \* the value of each semaphore
  firsts,  \* how many took themselves for the first of a semaphore
  names,   \* what the two names refer to
  objs,    \* size and contents of the objects
  app,     \* the rest of each process
  lost,    \* history: semaphores that somebody took and will not post
  spoiled, \* history: objects of a writer that died or met another writer
  used     \* semaphores and objects that have been created

vars == <<at, mysem, first, value, firsts, names, objs, app, lost, spoiled, used>>
history == <<lost, spoiled>>

Busy == {"a_create_sem", "a_shm", "a_create_shm", "a_truncate", "a_post",
         "w_wait", "w_shm", "w_half", "w_rest", "w_post", "r_copy",
         "c_wait", "c_unlink", "c_post", "c_sem"}

(* Between sem_wait() and sem_post().                                      *)
Inside == {"w_shm", "w_half", "w_rest", "w_post", "c_unlink", "c_post"}

Holders(s) == {p \in Procs : at[p] \in Inside /\ mysem[p] = s}

Init ==
  /\ at = [p \in Procs |-> "idle"]
  /\ mysem = [p \in Procs |-> None]
  /\ first = [p \in Procs |-> FALSE]
  /\ value = [s \in Sems |-> 0]
  /\ firsts = [s \in Sems |-> 0]
  /\ names = [sem |-> None, shm |-> None]
  /\ objs = [o \in Objects |-> [sized |-> FALSE, half |-> Blank, rest |-> Blank]]
  /\ app = [p \in Procs |-> [obj |-> None, size |-> 0, msg |-> Blank,
                             has |-> FALSE, ret |-> "none", fds |-> 0, calls |-> 0]]
  /\ lost = {}
  /\ spoiled = {}
  /\ used = {}

Goes(p, where) == at' = [at EXCEPT ![p] = where]
Returns(p, what) ==
  /\ Goes(p, "idle")
  /\ app' = [app EXCEPT ![p].ret = what]

Calls(p, op) == at[p] = "idle" /\ op \in May[p] /\ app[p].calls < MaxCalls[p]
Called(p, me, ret) ==
  app' = [app EXCEPT ![p] = [me EXCEPT !.calls = app[p].calls + 1,
                                         !.ret = ret]]

(* shm_open(): nobody closes the descriptor.                               *)
Opens(p)    == names.shm # None /\ app[p].fds < MaxFds
Sized       == names.shm # None /\ objs[names.shm].sized
Opened(p)   == app' = [app EXCEPT ![p].obj = names.shm, ![p].fds = @ + 1]

-----------------------------------------------------------------------------
(* attach()                                                                *)

AttachOpen(p, size) ==
  /\ Calls(p, "attach")
  /\ first' = [first EXCEPT ![p] = FALSE]
  /\ \/ /\ names.sem # None
        /\ mysem' = [mysem EXCEPT ![p] = names.sem]
        /\ Goes(p, "a_shm")
        /\ Called(p, [app[p] EXCEPT !.size = size], "none")
     \/ /\ names.sem = None
        /\ UNCHANGED mysem
        /\ Goes(p, IF size = 0 THEN "idle" ELSE "a_create_sem")
        /\ Called(p, [app[p] EXCEPT !.size = size], IF size = 0 THEN "false" ELSE "none")
  /\ UNCHANGED <<value, firsts, names, objs, history, used>>

(* The next number that is free.                                           *)
New(S) == {i \in S \ used : \A j \in S \ used : i <= j}

(* sem_open() with O_CREAT opens a semaphore that is there by now as well, *)
(* and the process takes itself for the first all the same.                *)
CreateSem(p) ==
  /\ at[p] = "a_create_sem"
  /\ first' = [first EXCEPT ![p] = TRUE]
  /\ \E s \in IF names.sem # None THEN {names.sem} ELSE New(Sems) :
       /\ mysem' = [mysem EXCEPT ![p] = s]
       /\ names' = [names EXCEPT !.sem = s]
       /\ used' = used \cup {s}
       /\ firsts' = [firsts EXCEPT ![s] = @ + 1]
  /\ Goes(p, "a_shm")
  /\ UNCHANGED <<value, objs, app, history>>

(* The semaphore of a process that leaves without the post it owes.        *)
Owes(p) == at[p] \in Inside \/ (first[p] /\ at[p] \in {"a_shm", "a_create_shm",
                                                       "a_truncate", "a_post"})
Leaves(p) == lost' = IF Owes(p) THEN lost \cup {mysem[p]} ELSE lost

OpenShm(p) ==
  /\ at[p] = "a_shm"
  /\ \/ /\ Opens(p)
        /\ Opened(p)
        /\ Goes(p, "a_post")
        /\ UNCHANGED lost
     \/ /\ ~Opens(p)
        /\ app[p].size = 0
        /\ Returns(p, "false")
        /\ Leaves(p)
     \/ /\ ~Opens(p)
        /\ app[p].size # 0
        /\ Goes(p, "a_create_shm")
        /\ UNCHANGED <<app, lost>>
  /\ UNCHANGED <<mysem, first, value, firsts, names, objs, spoiled, used>>

CreateShm(p) ==
  /\ at[p] = "a_create_shm"
  /\ \/ /\ app[p].fds < MaxFds
        /\ \E o \in IF names.shm # None THEN {names.shm} ELSE New(Objects) :
             /\ names' = [names EXCEPT !.shm = o]
             /\ used' = used \cup {o}
             /\ app' = [app EXCEPT ![p].obj = o, ![p].fds = @ + 1]
        /\ Goes(p, "a_truncate")
        /\ UNCHANGED lost
     \/ /\ app[p].fds = MaxFds
        /\ Returns(p, "false")
        /\ Leaves(p)
        /\ UNCHANGED <<names, used>>
  /\ UNCHANGED <<mysem, first, value, firsts, objs, spoiled>>

(* ftruncate() and mmap(); when one fails the name goes, whatever it now   *)
(* refers to, and the semaphore stays as it is.                            *)
Truncate(p) ==
  /\ at[p] = "a_truncate"
  /\ \/ /\ objs' = [objs EXCEPT ![app[p].obj].sized = TRUE]
        /\ Goes(p, "a_post")
        /\ UNCHANGED <<names, app, lost>>
     \/ /\ "memory" \in Faults
        /\ names' = [names EXCEPT !.shm = None]
        /\ Returns(p, "false")
        /\ Leaves(p)
        /\ UNCHANGED objs
  /\ UNCHANGED <<mysem, first, value, firsts, spoiled, used>>

(* A mutant of AttachPost: is_first is not looked at.                      *)
AttachPostAlways(p) ==
  /\ at[p] = "a_post"
  /\ value' = [value EXCEPT ![mysem[p]] = @ + 1]
  /\ first' = [first EXCEPT ![p] = FALSE]
  /\ Goes(p, "idle")
  /\ app' = [app EXCEPT ![p].ret = "true", ![p].has = TRUE]
  /\ UNCHANGED <<mysem, firsts, names, objs, history, used>>

AttachPost(p) ==
  /\ at[p] = "a_post"
  /\ value' = IF first[p] THEN [value EXCEPT ![mysem[p]] = @ + 1] ELSE value
  /\ first' = [first EXCEPT ![p] = FALSE]
  /\ Goes(p, "idle")
  /\ app' = [app EXCEPT ![p].ret = "true", ![p].has = TRUE]
  /\ UNCHANGED <<mysem, firsts, names, objs, history, used>>

-----------------------------------------------------------------------------
(* write() and close(), which begin in the same way.                       *)

OpenSem(p, to) ==
  IF names.sem = None
    THEN Goes(p, "idle") /\ UNCHANGED mysem
    ELSE Goes(p, to) /\ mysem' = [mysem EXCEPT ![p] = names.sem]
Answer == IF names.sem = None THEN "false" ELSE "none"

WriteOpen(p, m) ==
  /\ Calls(p, "write")
  /\ app[p].has
  /\ OpenSem(p, "w_wait")
  /\ Called(p, [app[p] EXCEPT !.msg = m], Answer)
  /\ UNCHANGED <<first, value, firsts, names, objs, history, used>>

CloseOpen(p) ==
  /\ Calls(p, "close")
  /\ app[p].has
  /\ OpenSem(p, "c_wait")
  /\ Called(p, [app[p] EXCEPT !.msg = Blank], Answer)
  /\ UNCHANGED <<first, value, firsts, names, objs, history, used>>

Wait(p) ==
  /\ at[p] \in {"w_wait", "c_wait"}
  /\ value[mysem[p]] > 0
  /\ value' = [value EXCEPT ![mysem[p]] = @ - 1]
  /\ Goes(p, IF at[p] = "w_wait" THEN "w_shm" ELSE "c_unlink")
  /\ UNCHANGED <<mysem, first, firsts, names, objs, app, history, used>>

(* A signal ends sem_wait().                                               *)
Interrupted(p) ==
  /\ at[p] \in {"w_wait", "c_wait"}
  /\ "signal" \in Faults
  /\ Returns(p, "false")
  /\ UNCHANGED <<mysem, first, value, firsts, names, objs, history, used>>

(* Without the object, or the memory, write() returns and keeps what it    *)
(* took from the semaphore.  An object that has no size yet is not mapped, *)
(* or the process dies when it touches it.                                 *)
WriteShm(p) ==
  /\ at[p] = "w_shm"
  /\ \/ /\ Opens(p)
        /\ Sized
        /\ Opened(p)
        /\ Goes(p, "w_half")
        /\ UNCHANGED lost
     \/ /\ ~Opens(p)
        /\ Returns(p, "false")
        /\ Leaves(p)
     \/ /\ Opens(p)
        /\ "memory" \in Faults \/ ~Sized
        /\ Goes(p, "idle")
        /\ app' = [app EXCEPT ![p].ret = "false", ![p].fds = @ + 1]
        /\ Leaves(p)
     \/ /\ Opens(p)
        /\ ~Sized
        /\ Goes(p, "dead")
        /\ Leaves(p)
        /\ UNCHANGED app
  /\ UNCHANGED <<mysem, first, value, firsts, names, objs, spoiled, used>>

Writing(o) == {p \in Procs : at[p] \in {"w_half", "w_rest"} /\ app[p].obj = o}

(* A mutant of WriteHalf: sem_post() comes before the copy is done.        *)
WriteHalfPosts(p) ==
  /\ at[p] = "w_half"
  /\ objs' = [objs EXCEPT ![app[p].obj].half = app[p].msg]
  /\ value' = [value EXCEPT ![mysem[p]] = @ + 1]
  /\ Goes(p, "w_rest")
  /\ UNCHANGED <<mysem, first, firsts, names, app, history, used>>

(* snprintf() into the object, in two halves.                              *)
WriteHalf(p) ==
  /\ at[p] = "w_half"
  /\ objs' = [objs EXCEPT ![app[p].obj].half = app[p].msg]
  /\ spoiled' = IF \A q \in Writing(app[p].obj) : mysem[q] = mysem[p]
                  THEN spoiled ELSE spoiled \cup {app[p].obj}
  /\ Goes(p, "w_rest")
  /\ UNCHANGED <<mysem, first, value, firsts, names, app, lost, used>>

WriteRest(p) ==
  /\ at[p] = "w_rest"
  /\ objs' = [objs EXCEPT ![app[p].obj].rest = app[p].msg]
  /\ Goes(p, "w_post")
  /\ UNCHANGED <<mysem, first, value, firsts, names, app, history, used>>

(* A mutant of WritePost: sem_post() is missing.                           *)
WriteKeeps(p) ==
  /\ at[p] = "w_post"
  /\ Returns(p, "true")
  /\ UNCHANGED <<mysem, first, value, firsts, names, objs, history, used>>

WritePost(p) ==
  /\ at[p] = "w_post"
  /\ value' = [value EXCEPT ![mysem[p]] = @ + 1]
  /\ Returns(p, "true")
  /\ UNCHANGED <<mysem, first, firsts, names, objs, history, used>>

CloseUnlink(p) ==
  /\ at[p] = "c_unlink"
  /\ names' = [names EXCEPT !.shm = None]
  /\ Goes(p, "c_post")
  /\ UNCHANGED <<mysem, first, value, firsts, objs, app, history, used>>

ClosePost(p) ==
  /\ at[p] = "c_post"
  /\ value' = [value EXCEPT ![mysem[p]] = @ + 1]
  /\ Goes(p, "c_sem")
  /\ UNCHANGED <<mysem, first, firsts, names, objs, app, history, used>>

(* sem_unlink() takes the name away, of whatever semaphore it is by now.   *)
CloseSem(p) ==
  /\ at[p] = "c_sem"
  /\ names' = [names EXCEPT !.sem = None]
  /\ Returns(p, "true")
  /\ UNCHANGED <<mysem, first, value, firsts, objs, history, used>>

-----------------------------------------------------------------------------
(* read(), which takes no lock.                                            *)

ReadOpen(p) ==
  /\ Calls(p, "read")
  /\ app[p].has
  /\ \/ /\ Opens(p)
        /\ Sized
        /\ Called(p, [app[p] EXCEPT !.obj = names.shm, !.fds = @ + 1], "none")
        /\ Goes(p, "r_copy")
     \/ /\ ~Opens(p) \/ "memory" \in Faults \/ ~Sized
        /\ Called(p, [app[p] EXCEPT !.fds = IF Opens(p) THEN @ + 1 ELSE @], "false")
        /\ UNCHANGED at
     \/ /\ Opens(p)
        /\ ~Sized
        /\ Goes(p, "dead")
        /\ UNCHANGED app
  /\ UNCHANGED <<mysem, first, value, firsts, names, objs, history, used>>

ReadCopy(p) ==
  /\ at[p] = "r_copy"
  /\ LET o == objs[app[p].obj]
     IN  Returns(p, IF o.half = o.rest THEN "whole" ELSE "torn")
  /\ UNCHANGED <<mysem, first, value, firsts, names, objs, history, used>>

-----------------------------------------------------------------------------
(* A process is killed in the middle of a call.                            *)
Crash(p) ==
  /\ "crash" \in Faults
  /\ at[p] \in Busy
  /\ Goes(p, "dead")
  /\ Leaves(p)
  /\ spoiled' = IF at[p] = "w_rest" THEN spoiled \cup {app[p].obj} ELSE spoiled
  /\ UNCHANGED <<mysem, first, value, firsts, names, objs, app, used>>

(* What a process does in a call.                                          *)
Runs(p) ==
  \/ CreateSem(p) \/ OpenShm(p) \/ CreateShm(p) \/ Truncate(p) \/ AttachPost(p)
  \/ Wait(p) \/ WriteShm(p) \/ WriteHalf(p) \/ WriteRest(p) \/ WritePost(p)
  \/ CloseUnlink(p) \/ ClosePost(p) \/ CloseSem(p) \/ ReadCopy(p)

Next ==
  \E p \in Procs :
    \/ \E size \in {0, 1} : AttachOpen(p, size)
    \/ \E m \in Messages : WriteOpen(p, m)
    \/ CloseOpen(p) \/ ReadOpen(p)
    \/ Runs(p)
    \/ Interrupted(p) \/ Crash(p)

Spec == Init /\ [][Next]_vars

(* A process that lives goes on with its call.                             *)
FairSpec == Spec /\ \A p \in Procs : WF_vars(Runs(p))

-----------------------------------------------------------------------------
(* The types of the variables that the proofs are about.                   *)
TypeOK ==
  /\ at \in [Procs -> Busy \cup {"idle", "dead"}]
  /\ mysem \in [Procs -> Sems \cup {None}]
  /\ first \in [Procs -> BOOLEAN]
  /\ value \in [Sems -> Nat]
  /\ firsts \in [Sems -> Nat]
  /\ names \in [sem : Sems \cup {None}, shm : Objects \cup {None}]

(* Who waits for a semaphore that one process only has created is alone    *)
(* until it posts: no error, signal or death lets a second one in.         *)
OneWriter ==
  \A s \in Sems : firsts[s] <= 1 =>
    \A p, q \in Holders(s) : p = q /\ value[s] = 0

(* The halves of an object differ only while a process is writing, unless  *)
(* one died writing or writers came with different semaphores, or with one *)
(* that two processes had taken themselves for the first of.               *)
WholeAtRest ==
  (\A s \in Sems : firsts[s] <= 1) =>
    \A o \in Objects \ spoiled :
      objs[o].half # objs[o].rest => \E p \in Procs : at[p] = "w_rest" /\ app[p].obj = o

(* Who waits gets in, but for a semaphore that was taken, or created, by a *)
(* process that will not post it: an error or a death between the two, or  *)
(* the end of the process that created it.                                 *)
WaitersServed ==
  \A p \in Procs : \A s \in Sems :
    at[p] \in {"w_wait", "c_wait"} /\ mysem[p] = s
      ~> at[p] \notin {"w_wait", "c_wait"} \/ s \in lost

(* write() and close() return, as the README says of them.                 *)
WriteReturns ==
  \A p \in Procs : at[p] \in {"w_wait", "c_wait"} ~> at[p] \in {"idle", "dead"}
=============================================================================
