------------------------------- MODULE SpwdDb -------------------------------
(***************************************************************************)
(* luaspwd.c: the users of one database of three indexes, by name, by uid  *)
(* and by number.  Each access opens the database, works on a copy of it   *)
(* and writes the copy back when it closes it; nothing locks it in         *)
(* between.  A step reads one record, or opens the database, or closes it. *)
(***************************************************************************)
EXTENDS Naturals, Sequences

CONSTANTS
  Procs,   \* the processes that load the library
  Names, NoName,
  UidMax,  \* SPWD_UID_MAX, the uid of nobody
  Start,   \* the first uid for users, of the kernel environment
  Last,    \* the highest number of a user
  Users0,  \* the users at first, in order
  Menu,    \* the calls that each process makes
  MaxCalls,\* how many of them
  Faults   \* among "read", "write", "crash"

Uids   == 0 .. UidMax
Nums   == 1 .. Last
Users  == [name : Names, uid : Uids, info : {0, 1}]
Absent == [name |-> NoName, uid |-> UidMax, info |-> 0]

ASSUME SpwdAssumption ==
  /\ UidMax \in Nat
  /\ Start \in Uids
  /\ Last \in Nat
  /\ NoName \notin Names
  /\ Users0 \in Seq(Users)
  /\ Len(Users0) <= Last

(* What the Lua program passes: add() needs a name, update() and delete()  *)
(* a uid.                                                                  *)
Sane(c) ==
  /\ c.op \in {"get", "verify", "get_all", "add", "update", "delete"}
  /\ c.uid \in Uids
  /\ c.op = "add" => c.name \in Names
  /\ c.op = "update" => c.name \in Names \cup {NoName}

ASSUME MenuAssumption == \A p \in Procs : \A c \in Menu[p] : Sane(c)

VARIABLES
  db,     \* the three indexes
  proc,   \* the processes
  shared, \* history: two users were given one name or one uid
  harmed  \* history: a write ended half way, or relied on a wrong read

vars == <<db, proc, shared, harmed>>

There(r) == r # Absent

(* The first number that nobody has; the users in front of it are listed.  *)
End(num) ==
  CHOOSE m \in 1 .. Last + 1 :
    /\ m = Last + 1 \/ ~There(num[m])
    /\ \A j \in 1 .. m - 1 : There(num[j])
Listed(num) == [i \in 1 .. End(num) - 1 |-> num[i]]
InList(num) == {num[i] : i \in 1 .. End(num) - 1}

First(S) == IF S = {} THEN Absent ELSE Users0[CHOOSE i \in S : \A j \in S : i <= j]

Idle0 == [at |-> "idle", call |-> CHOOSE c \in UNION {Menu[p] : p \in Procs} : TRUE,
          count |-> 1, max |-> 0, old |-> Absent, new |-> Absent, copy |-> <<>>,
          sure |-> TRUE, seen |-> {}, stays |-> {}, calls |-> 0]

Init ==
  /\ db = [name |-> [n \in Names |-> First({i \in DOMAIN Users0 : Users0[i].name = n})],
           uid  |-> [u \in Uids |-> First({i \in DOMAIN Users0 : Users0[i].uid = u})],
           num  |-> [i \in Nums |-> IF i \in DOMAIN Users0 THEN Users0[i] ELSE Absent]]
  /\ proc = [p \in Procs |-> Idle0]
  /\ shared = \E i, j \in DOMAIN Users0 :
                i # j /\ (Users0[i].name = Users0[j].name \/ Users0[i].uid = Users0[j].uid)
  /\ harmed = FALSE

Goes(p, me) == proc' = [proc EXCEPT ![p] = me] /\ UNCHANGED <<db, shared>>

(* The call is over.                                                       *)
Over(me) == [Idle0 EXCEPT !.call = me.call, !.calls = me.calls]
Ends(p) == Goes(p, Over(proc[p])) /\ UNCHANGED harmed

(* What spwd_get_pwd() gives for a record: an error passes for no record.  *)
Read(r) == {r} \cup (IF "read" \in Faults THEN {Absent} ELSE {})

-----------------------------------------------------------------------------
FirstStep == [get |-> "get", verify |-> "get", get_all |-> "scan",
              delete |-> "scan", add |-> "by_name", update |-> "by_uid"]

(* A mutant of Call: numbers are taken to begin with 0.                    *)
CallFromTwo(p, c) ==
  /\ proc[p].at = "idle"
  /\ proc[p].calls < MaxCalls[p]
  /\ Goes(p, [Idle0 EXCEPT !.call = c, !.at = FirstStep[c.op], !.count = 2,
                           !.calls = proc[p].calls + 1, !.stays = InList(db.num)])
  /\ UNCHANGED harmed

Call(p, c) ==
  /\ proc[p].at = "idle"
  /\ proc[p].calls < MaxCalls[p]
  /\ Goes(p, [Idle0 EXCEPT !.call = c, !.at = FirstStep[c.op],
                           !.calls = proc[p].calls + 1, !.stays = InList(db.num)])
  /\ UNCHANGED harmed

(* get() and verify() read one record, by name or uid.                     *)
Get(p) == proc[p].at = "get" /\ Ends(p)

(* add() looks for the name first.  It frees a pointer that has no value   *)
(* when the name is new, which may end the process.                        *)
ByName(p) ==
  LET me == proc[p]
      named == db.name[me.call.name]
  IN  /\ me.at = "by_name"
      /\ \E r \in Read(named) :
           \/ There(r) /\ Ends(p)
           \/ /\ ~There(r)
              /\ \E where \in {"scan", "dead"} :
                   Goes(p, [me EXCEPT !.at = where, !.sure = @ /\ r = named])
              /\ UNCHANGED harmed

(* update() takes what the call leaves out from the record of the uid.     *)
ByUid(p) ==
  LET me == proc[p]
      c == me.call
  IN  /\ me.at = "by_uid"
      /\ \E old \in Read(db.uid[c.uid]) :
           LET new == [name |-> IF c.name = NoName THEN old.name ELSE c.name,
                       uid |-> c.uid, info |-> 1]
           IN  \/ ~There(old) /\ Ends(p)
               \/ /\ There(old)
                  /\ Goes(p, [me EXCEPT !.old = old, !.new = new,
                       !.at = IF new.name # old.name THEN "open_name" ELSE "scan"])
                  /\ UNCHANGED harmed

(* A mutant of NextUid: the highest uid itself is taken.                   *)
NextUidSame(max, u) == IF u < UidMax /\ u > max THEN u ELSE max

(* One more than the highest uid met so far, but for that of nobody.       *)
NextUid(max, u) == IF u < UidMax /\ u + 1 > max THEN u + 1 ELSE max

NewUser(me) ==
  [name |-> me.call.name, info |-> 0,
   uid |-> IF me.call.uid # UidMax THEN me.call.uid
           ELSE IF me.max < Start THEN Start ELSE me.max]

(* The record of number count, as it is read, and whether that is right.   *)
(* Last bounds the numbers.                                                *)
Scans(p, ops) ==
  proc[p].at = "scan" /\ proc[p].call.op \in ops /\ proc[p].count \in Nums
More(me) == [me EXCEPT !.count = @ + 1]
Right(me, r) == me.sure /\ r = db.num[me.count]

(* get_all() and add() go on to the first number that is not there.        *)
ScanAll(p) ==
  LET me == proc[p]
  IN  /\ Scans(p, {"get_all"})
      /\ \E r \in Read(db.num[me.count]) :
           \/ There(r) /\ Goes(p, [More(me) EXCEPT !.seen = @ \cup {r}])
           \/ ~There(r) /\ Goes(p, Over(me))
      /\ UNCHANGED harmed

ScanAdd(p) ==
  LET me == proc[p]
  IN  /\ Scans(p, {"add"})
      /\ \E r \in Read(db.num[me.count]) :
           Goes(p, IF There(r) THEN [More(me) EXCEPT !.max = NextUid(@, r.uid)]
                   ELSE [me EXCEPT !.at = "open", !.new = NewUser(me),
                                   !.sure = Right(me, r)])
      /\ UNCHANGED harmed

(* delete() and update() look for the first number with their uid.  An     *)
(* update() that finds none has taken away the old name already.           *)
ScanUid(p) ==
  LET me == proc[p]
  IN  /\ Scans(p, {"delete", "update"})
      /\ \E r \in Read(db.num[me.count]) :
           \/ /\ There(r)
              /\ Goes(p, IF r.uid # me.call.uid THEN More(me)
                         ELSE IF me.call.op = "update" THEN [me EXCEPT !.at = "open"]
                         ELSE [me EXCEPT !.at = "open", !.old = r])
              /\ UNCHANGED harmed
           \/ /\ ~There(r)
              /\ Goes(p, Over(me))
              /\ harmed' = (harmed \/ (me.new.name # me.old.name /\ ~Right(me, r)))

Open(p) ==
  /\ proc[p].at \in {"open", "open_name"}
  /\ Goes(p, [proc[p] EXCEPT !.copy = db,
                !.at = IF proc[p].at = "open" THEN "close" ELSE "close_name"])
  /\ UNCHANGED harmed

-----------------------------------------------------------------------------
(* What is made of the copy.  Of spwd_write() the first n puts succeed.    *)
Write(me, n) ==
  LET r == me.new
  IN  [me.copy EXCEPT !.name[r.name] = IF n >= 1 THEN r ELSE @,
                      !.uid[r.uid]   = IF n >= 2 THEN r ELSE @,
                      !.num[me.count] = IF n = 3 THEN r ELSE @]

(* Mutants of Shift: the last number is not taken away, and only one user  *)
(* moves down.                                                             *)
ShiftKeepsLast(num, i, fails) ==
  LET behind == {j \in i + 1 .. Last : \A m \in i + 1 .. j : There(num[m])}
  IN  [j \in Nums |-> IF j + 1 \in behind \ fails THEN num[j + 1]
                      ELSE IF j = i THEN Absent ELSE num[j]]
ShiftOnce(num, i, fails) ==
  IF i = Last THEN [num EXCEPT ![i] = Absent]
  ELSE [num EXCEPT ![i] = num[i + 1], ![i + 1] = Absent]

(* The users behind number i move down by one; a put that fails leaves the *)
(* record that was there.                                                  *)
Shift(num, i, fails) ==
  LET behind == {j \in i + 1 .. Last : \A m \in i + 1 .. j : There(num[m])}
  IN  [j \in Nums |-> IF j + 1 \in behind \ fails THEN num[j + 1]
                      ELSE IF j \in behind /\ j + 1 \in behind THEN num[j]
                      ELSE IF j \in behind \cup {i} THEN Absent
                      ELSE num[j]]

(* Of spwd_del() the first n of the three deletions succeed.               *)
Delete(me, n, fails) ==
  [me.copy EXCEPT !.name[me.old.name] = IF n >= 1 THEN Absent ELSE @,
                  !.uid[me.call.uid]  = IF n >= 2 THEN Absent ELSE @,
                  !.num = IF n = 3 THEN Shift(@, me.count, fails) ELSE @]

(* History: whether a record of another number has the name or the uid.    *)
Claims(me) ==
  \E i \in 1 .. End(me.copy.num) - 1 :
    /\ i # me.count
    /\ me.copy.num[i].name = me.new.name \/ me.copy.num[i].uid = me.new.uid

(* The database becomes new, and p goes on as me.  Every other call learns *)
(* that it may be wrong.                                                  *)
Store(p, me, new, bad) ==
  /\ db' = new
  /\ proc' = [q \in Procs |->
       IF q = p THEN me
       ELSE [proc[q] EXCEPT !.sure = FALSE,
               !.stays = IF bad \/ proc[p].call.op = "delete" \/ harmed \/ ~proc[p].sure
                           THEN {} ELSE @ \cap InList(new.num)]]
  /\ harmed' = (harmed \/ bad \/ ~proc[p].sure)

(* How far the writes of an access get.                                    *)
Reach == IF "write" \in Faults THEN 0 .. 3 ELSE {3}

CloseWrite(p) ==
  LET me == proc[p]
  IN  /\ me.at = "close"
      /\ me.call.op \in {"add", "update"}
      /\ \E n \in Reach : Store(p, Over(me), Write(me, n), n < 3)
      /\ shared' = (shared \/ Claims(me))

CloseDelete(p) ==
  LET me == proc[p]
  IN  /\ me.at = "close"
      /\ me.call.op = "delete"
      /\ \E n \in Reach : \E fails \in IF n = 3 /\ "write" \in Faults
                                         THEN {{}} \cup {{j} : j \in Nums} ELSE {{}} :
           Store(p, Over(me), Delete(me, n, fails), n < 3 \/ fails # {})
      /\ UNCHANGED shared

(* update() deletes the old name in an access of its own.                  *)
CloseName(p) ==
  LET me == proc[p]
  IN  /\ me.at = "close_name"
      /\ \/ Store(p, [me EXCEPT !.at = "scan", !.copy = <<>>],
                  [me.copy EXCEPT !.name[me.old.name] = Absent], FALSE)
         \/ "write" \in Faults /\ Store(p, Over(me), me.copy, FALSE)
      /\ UNCHANGED shared

(* The process is killed.  What it was writing is there in part.           *)
Crash(p) ==
  LET me == proc[p]
      new == CASE me.at = "close_name" ->
                    [me.copy EXCEPT !.name[me.old.name] = Absent]
               [] me.at = "close" /\ me.call.op = "delete" -> Delete(me, 3, {})
               [] me.at = "close" /\ me.call.op # "delete" -> Write(me, 3)
               [] OTHER -> db
  IN  /\ "crash" \in Faults
      /\ me.at \notin {"idle", "dead"}
      /\ \E parts \in SUBSET {"name", "uid", "num"} :
           Store(p, [me EXCEPT !.at = "dead", !.copy = <<>>],
                 [x \in DOMAIN db |-> IF x \in parts THEN new[x] ELSE db[x]],
                 me.call.op \in {"add", "update", "delete"})
      /\ UNCHANGED shared

Next ==
  \E p \in Procs :
    \/ \E c \in Menu[p] : Call(p, c)
    \/ Get(p) \/ ByName(p) \/ ByUid(p)
    \/ ScanAll(p) \/ ScanAdd(p) \/ ScanUid(p) \/ Open(p)
    \/ CloseWrite(p) \/ CloseDelete(p) \/ CloseName(p)
    \/ Crash(p)

Spec == Init /\ [][Next]_vars

-----------------------------------------------------------------------------
(* Between calls the three indexes have the same users, numbered from 1    *)
(* without a gap, unless two users share a name or a uid, a write ended    *)
(* half way or relied on a read that failed or was stale.                  *)
IndexesAgree ==
  (\A p \in Procs : proc[p].at = "idle") /\ ~shared /\ ~harmed =>
    /\ \A n \in Names : There(db.name[n]) => db.name[n] \in InList(db.num)
    /\ \A u \in Uids : There(db.uid[u]) => db.uid[u] \in InList(db.num)
    /\ \A i \in Nums : There(db.num[i]) =>
         /\ i < End(db.num)
         /\ db.name[db.num[i].name] = db.num[i]
         /\ db.uid[db.num[i].uid] = db.num[i]

L == INSTANCE UserList WITH users <- Listed(db.num)

(* Each call changes the list of users as UserList says: at once, and in   *)
(* one place, until a write ends half way or relies on a read that failed  *)
(* or is stale.                                                            *)
ChangesList == [][harmed' \/ L!Next]_(Listed(db.num))

(* get_all() lists everyone who is there all the while, when nobody is     *)
(* deleted meanwhile.                                                      *)
ListsAll ==
  \A p \in Procs :
    Scans(p, {"get_all"}) /\ ~There(db.num[proc[p].count])
      => proc[p].stays \subseteq proc[p].seen

(* The uid that add() finds for a user is not taken, short of the last.    *)
UidIsFree ==
  \A p \in Procs :
    /\ proc[p].at = "open"
    /\ proc[p].call.op = "add"
    /\ proc[p].call.uid = UidMax
    /\ proc[p].sure
    /\ proc[p].new.uid < UidMax
    => \A r \in InList(db.num) : r.uid # proc[p].new.uid
=============================================================================
