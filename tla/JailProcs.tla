----------------------------- MODULE JailProcs -----------------------------
(***************************************************************************)
(* The processes that lua-jail waits for, in command.c: the commands that  *)
(* it forks and the processes of a jail that it tells to end, the hash     *)
(* that ties them to jails, the kernel's notes of their exit, and the      *)
(* sleep queue with the time limits.  What a jail does is a script of      *)
(* commands with and without a limit and of ends of its processes; which   *)
(* of them it does next is the matter of JailSched.                        *)
(***************************************************************************)
EXTENDS Naturals, Sequences, FiniteSets, SequencesExt

CONSTANTS
  Jails, Pids, None,
  Script,  \* what each jail does: "run", "limited" or "term"
  Inside,  \* the processes that run inside a jail at first
  Limit,   \* exec.timeout
  StopLimit, \* stop.timeout
  Other    \* the owner of a process that has nothing to do with a jail

ASSUME ProcsAssumption ==
  /\ None \notin Jails /\ None \notin Nat /\ None # Other
  /\ Other \notin Jails
  /\ "main" \notin Jails
  /\ IsFiniteSet(Pids)
  /\ \A j \in Jails : Script[j] \in Seq({"run", "limited", "term"}) /\ Inside[j] \subseteq Pids
  /\ Limit \in Nat /\ StopLimit \in Nat

VARIABLES
  pc,       \* "main", or the jail whose processes term_procs() goes through
  ki,       \* its table of processes
  pos,      \* how far each jail is in its script
  sleeping, \* the sleep queue
  left,     \* the time until j->timeout, None when it is not set
  hash,     \* phash: the jail that waits for a process
  nprocs,
  owner,    \* the jail that a process runs for, None when there is none
  watched,  \* the processes whose exit kqueue will tell
  exited,   \* those whose exit it has to tell
  misfiled  \* history: term_procs() left the sleep queue out of order

vars == <<pc, ki, pos, sleeping, left, hash, nprocs, owner, watched, exited, misfiled>>

Init ==
  /\ pc = "main"
  /\ ki = {}
  /\ pos = [j \in Jails |-> 1]
  /\ sleeping = <<>>
  /\ left = [j \in Jails |-> None]
  /\ hash = [p \in Pids |-> None]
  /\ nprocs = [j \in Jails |-> 0]
  /\ owner = [p \in Pids |-> IF p \in UNION {Inside[j] : j \in Jails}
                               THEN CHOOSE j \in Jails : p \in Inside[j] ELSE None]
  /\ watched = {}
  /\ exited = {}
  /\ misfiled = FALSE

Alive(p)  == owner[p] # None
Sleeps(j) == Contains(sleeping, j)
Done(j)   == pos[j] > Len(Script[j])
Does(j, ops) == ~Sleeps(j) /\ ~Done(j) /\ Script[j][pos[j]] \in ops

(* Who has no limit comes last.                                            *)
Before(s, t) == s # None /\ (t = None \/ s <= t)
InOrder(queue, time) ==
  \A i, k \in DOMAIN queue : i < k => time[queue[k]] = None \/ Before(time[queue[i]], time[queue[k]])

Without(queue, j) ==
  IF Contains(queue, j)
    THEN RemoveAt(queue, CHOOSE i \in DOMAIN queue : queue[i] = j) ELSE queue

(* A mutant of File: a jail goes in front of a later limit only.           *)
FileBehindNone(queue, j, time) ==
  LET rest == Without(queue, j)
      later == {i \in DOMAIN rest : time[rest[i]] # None /\ Before(time[j], time[rest[i]])}
  IN  IF later = {} THEN Append(rest, j)
      ELSE InsertAt(rest, CHOOSE i \in later : \A k \in later : i <= k, j)

(* A mutant of File: the latest limit comes first.                         *)
FileFirst(queue, j, time) ==
  LET rest == Without(queue, j)
  IN  IF time[j] = None THEN Append(rest, j) ELSE <<j>> \o rest

(* The place of a jail in the sleep queue, by its limit.                   *)
File(queue, j, time) ==
  LET rest == Without(queue, j)
      later == {i \in DOMAIN rest : Before(time[j], time[rest[i]])}
  IN  IF later = {} THEN Append(rest, j)
      ELSE InsertAt(rest, CHOOSE i \in later : \A k \in later : i <= k, j)

(* add_proc() of a process that is there.                                  *)
AddProc(j, p, time) ==
  /\ hash' = [hash EXCEPT ![p] = j]
  /\ nprocs' = [nprocs EXCEPT ![j] = @ + 1]
  /\ watched' = watched \cup {p}
  /\ sleeping' = File(sleeping, j, time)

(* A mutant of ClearProcs: the count stays.                                *)
ClearProcsKeepsCount(j) ==
  /\ hash' = [p \in Pids |-> IF hash[p] = j THEN None ELSE hash[p]]
  /\ watched' = {p \in watched : hash[p] # j}
  /\ exited' = {p \in exited : hash[p] # j}
  /\ UNCHANGED nprocs

ClearProcs(j) ==
  /\ nprocs' = [nprocs EXCEPT ![j] = 0]
  /\ hash' = [p \in Pids |-> IF hash[p] = j THEN None ELSE hash[p]]
  /\ watched' = {p \in watched : hash[p] # j}
  /\ exited' = {p \in exited : hash[p] # j}

(* The jail is done with the step of its script, in finish_command().      *)
Finished(j) ==
  /\ sleeping' = Without(sleeping, j)
  /\ pos' = [pos EXCEPT ![j] = @ + 1]

-----------------------------------------------------------------------------
(* next_proc(): the limit of the first jail, the end of a process, and     *)
(* only then a jail that is ready.                                         *)
FirstTimeUp == sleeping # <<>> /\ left[Head(sleeping)] = 0

TimeUp ==
  /\ pc = "main"
  /\ FirstTimeUp
  /\ ClearProcs(Head(sleeping))
  /\ Finished(Head(sleeping))
  /\ UNCHANGED <<pc, ki, left, owner, misfiled>>

(* A mutant of ProcEnded: the first end of several is enough.              *)
ProcEndedFirst(p) ==
  /\ pc = "main"
  /\ sleeping # <<>>
  /\ ~FirstTimeUp
  /\ p \in exited
  /\ exited' = exited \ {p}
  /\ watched' = watched \ {p}
  /\ hash' = [hash EXCEPT ![p] = None]
  /\ IF hash[p] = None \/ ~Sleeps(hash[p]) THEN UNCHANGED <<nprocs, sleeping, pos>>
     ELSE nprocs' = [nprocs EXCEPT ![hash[p]] = @ - 1] /\ Finished(hash[p])
  /\ UNCHANGED <<pc, ki, left, owner, misfiled>>

(* The process is waited for, and found in the hash or not.  The jail is   *)
(* ready when it was the last.                                             *)
ProcEnded(p) ==
  /\ pc = "main"
  /\ sleeping # <<>>
  /\ ~FirstTimeUp
  /\ p \in exited
  /\ exited' = exited \ {p}
  /\ watched' = watched \ {p}
  /\ hash' = [hash EXCEPT ![p] = None]
  /\ IF hash[p] = None THEN UNCHANGED <<nprocs, sleeping, pos>>
     ELSE /\ nprocs' = [nprocs EXCEPT ![hash[p]] = @ - 1]
          /\ IF nprocs[hash[p]] = 1 THEN Finished(hash[p]) ELSE UNCHANGED <<sleeping, pos>>
  /\ UNCHANGED <<pc, ki, left, owner, misfiled>>

Idle == pc = "main" /\ (sleeping = <<>> \/ (~FirstTimeUp /\ exited = {}))

(* run_command(): a new process, which kqueue watches unless it has ended  *)
(* by then or runs in the background.                                      *)
RunCommand(j) ==
  LET limit == IF Script[j][pos[j]] = "limited" THEN Limit ELSE None
      time == [left EXCEPT ![j] = limit]
  IN  /\ Idle
      /\ Does(j, {"run", "limited"})
      /\ left' = time
      /\ \E p \in Pids :
           /\ ~Alive(p) /\ hash[p] = None
           /\ \/ /\ AddProc(j, p, time)
                 /\ owner' = [owner EXCEPT ![p] = j]
                 /\ UNCHANGED pos
              \/ /\ pos' = [pos EXCEPT ![j] = @ + 1]
                 /\ owner' \in {owner, [owner EXCEPT ![p] = j]}
                 /\ UNCHANGED <<sleeping, hash, nprocs, watched>>
      /\ UNCHANGED <<pc, ki, exited, misfiled>>

-----------------------------------------------------------------------------
(* term_procs(): the table of processes is read, then each is killed.      *)
TermProcs(j) ==
  /\ Idle
  /\ Does(j, {"term"})
  /\ pc' = j
  /\ ki' = {p \in Pids : owner[p] = j}
  /\ UNCHANGED <<pos, sleeping, left, hash, nprocs, owner, watched, exited, misfiled>>

(* With stop.timeout 0, or without the table, there is nothing to do.      *)
TermSkips(j) ==
  /\ Idle
  /\ Does(j, {"term"})
  /\ pos' = [pos EXCEPT ![j] = @ + 1]
  /\ UNCHANGED <<pc, ki, sleeping, left, hash, nprocs, owner, watched, exited, misfiled>>

(* Whoever has the number by now is told to end, and may have ended before *)
(* it is watched.  The sleep queue goes by the limit of an older command.  *)
KillProc(p) ==
  /\ pc # "main"
  /\ p \in ki
  /\ ki' = ki \ {p}
  /\ \/ Alive(p) /\ AddProc(pc, p, left) /\ UNCHANGED owner
     \/ /\ owner' \in {owner, [owner EXCEPT ![p] = None]}
        /\ owner'[p] = None
        /\ UNCHANGED <<sleeping, hash, nprocs, watched>>
  /\ UNCHANGED <<pc, pos, left, exited, misfiled>>

(* A mutant of TermEnds: the limit is the one of an older command.         *)
TermEndsNoLimit ==
  /\ pc # "main"
  /\ ki = {}
  /\ pc' = "main"
  /\ pos' = IF nprocs[pc] > 0 THEN pos ELSE [pos EXCEPT ![pc] = @ + 1]
  /\ UNCHANGED <<ki, sleeping, left, hash, nprocs, owner, watched, exited, misfiled>>

TermEnds ==
  /\ pc # "main"
  /\ ki = {}
  /\ pc' = "main"
  /\ IF nprocs[pc] > 0
       THEN /\ left' = [left EXCEPT ![pc] = StopLimit]
            /\ misfiled' = (misfiled \/ ~InOrder(sleeping, left'))
            /\ UNCHANGED pos
       ELSE /\ pos' = [pos EXCEPT ![pc] = @ + 1]
            /\ UNCHANGED <<left, misfiled>>
  /\ UNCHANGED <<ki, sleeping, hash, nprocs, owner, watched, exited>>

-----------------------------------------------------------------------------
(* The world: processes end, others get the number of one that ended and   *)
(* was not a child, and time goes by.                                      *)
Ends(p) ==
  /\ Alive(p)
  /\ owner' = [owner EXCEPT ![p] = None]
  /\ exited' = IF p \in watched THEN exited \cup {p} ELSE exited
  /\ UNCHANGED <<pc, ki, pos, sleeping, left, hash, nprocs, watched, misfiled>>

Reused(p) ==
  /\ ~Alive(p)
  /\ p \notin watched
  /\ p \in UNION {Inside[j] : j \in Jails}
  /\ owner' = [owner EXCEPT ![p] = Other]
  /\ UNCHANGED <<pc, ki, pos, sleeping, left, hash, nprocs, watched, exited, misfiled>>

Tick ==
  /\ left' = [j \in Jails |-> IF left[j] \in {None, 0} THEN left[j] ELSE left[j] - 1]
  /\ left' # left
  /\ UNCHANGED <<pc, ki, pos, sleeping, hash, nprocs, owner, watched, exited, misfiled>>

Program ==
  \/ TimeUp
  \/ \E p \in Pids : ProcEnded(p) \/ KillProc(p)
  \/ \E j \in Jails : RunCommand(j) \/ TermProcs(j) \/ TermSkips(j)
  \/ TermEnds

Next == Program \/ Tick \/ \E p \in Pids : Ends(p) \/ Reused(p)

Spec == Init /\ [][Next]_vars

(* The program and the clock go on; a process need not end.                *)
FairSpec == Spec /\ WF_vars(Program) /\ WF_vars(Tick)

-----------------------------------------------------------------------------
(* The count of a jail is that of its entries in the hash: it is woken     *)
(* when, and only when, the last of its processes has ended.               *)
Counted ==
  \A j \in Jails : nprocs[j] = Cardinality({p \in Pids : hash[p] = j})

(* No end is missed: every process that a jail waits for is watched, runs  *)
(* or has an exit that is still to be told, and no jail sleeps for nothing. *)
EndsAreTold ==
  /\ \A p \in Pids : hash[p] # None => p \in watched /\ (Alive(p) \/ p \in exited)
  /\ \A j \in Jails : Sleeps(j) <=> \E p \in Pids : hash[p] = j

(* Who waits for the processes of a jail to end has a limit, whatever they *)
(* are: the number may belong to somebody else by now.                     *)
TermBounded ==
  \A j \in Jails : pc # j /\ Sleeps(j) /\ Script[j][pos[j]] = "term" => left[j] # None

(* The first of the sleep queue is the first whose time is up, unless      *)
(* term_procs() gave a jail another limit than it was filed by.            *)
SleepInOrder == ~misfiled => InOrder(sleeping, left)

(* A jail whose command or whose end has a limit does not sleep for ever,  *)
(* again unless it, or one in front of it, was filed by another limit.     *)
LimitsHold ==
  \A j \in Jails : Sleeps(j) /\ left[j] # None ~> ~Sleeps(j) \/ misfiled
=============================================================================
