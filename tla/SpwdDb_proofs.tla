--------------------------- MODULE SpwdDb_proofs ---------------------------
(***************************************************************************)
(* What the calls of luaspwd.c keep to, for any processes, users, calls    *)
(* and failures: the three indexes agree, the list changes in one place,   *)
(* a listing is complete, a new uid is free.  A call knows what it has     *)
(* read until another one stores its copy of the database; from then on it *)
(* is not sure, and what it writes counts as harm.                         *)
(***************************************************************************)
EXTENDS SpwdDb, SequenceTheorems, WellFoundedInduction, TLAPS

Fields == {"at", "call", "count", "max", "old", "new", "copy", "sure", "seen",
           "stays", "calls"}
Entry  == Users \cup {Absent}
Db     == [name : [Names -> Entry], uid : [Uids -> Entry], num : [Nums -> Entry]]

(* A record is found under its own name and its own uid.                   *)
Keyed(D) ==
  /\ \A n \in Names : There(D.name[n]) => D.name[n].name = n
  /\ \A u \in Uids : There(D.uid[u]) => D.uid[u].uid = u

(* Where a call can be, of which kind it is.                               *)
Place(at, op) ==
  \/ at \in {"idle", "dead"}
  \/ at = "get" /\ op \in {"get", "verify"}
  \/ at = "by_name" /\ op = "add"
  \/ at = "by_uid" /\ op = "update"
  \/ at = "scan" /\ op \in {"get_all", "add", "update", "delete"}
  \/ at \in {"open", "close"} /\ op \in {"add", "update", "delete"}
  \/ at \in {"open_name", "close_name"} /\ op = "update"

Later == {"scan", "open", "close"}

Updates(r) ==
  r.call.op = "update" /\ r.at \in Later \cup {"open_name", "close_name"}

(* A process that has taken a name away to write another one.              *)
Renames(r) ==
  r.call.op = "update" /\ r.at \in Later /\ r.new.name # r.old.name

Fine(r) ==
  /\ DOMAIN r = Fields
  /\ r.at # "idle" => Sane(r.call)
  /\ Place(r.at, r.call.op)
  /\ r.count \in 1 .. Last + 1 /\ r.max \in Uids
  /\ r.at \in {"open", "close"} => r.count \in Nums
  /\ r.at \in {"by_name", "by_uid", "open_name", "close_name"} => r.count = 1
  /\ r.at \in {"open", "close"} /\ r.call.op = "add" => r.new \in Users
  /\ r.at \in {"open", "close"} /\ r.call.op = "delete" =>
       r.old \in Users /\ r.old.uid = r.call.uid
  /\ Updates(r) => /\ r.old \in Users /\ r.old.uid = r.call.uid
                   /\ r.new \in Users /\ r.new.uid = r.call.uid
  /\ r.at \in {"open_name", "close_name"} => r.new.name # r.old.name
  /\ r.at \in {"close", "close_name"} => r.copy \in Db /\ Keyed(r.copy)

(* What a call that is sure has passed on its way to a number,             *)
Passed(r, num) ==
  \A i \in 1 .. r.count - 1 :
    /\ There(num[i])
    /\ r.call.op \in {"update", "delete"} => num[i].uid # r.call.uid
    /\ r.call.op = "add" /\ num[i].uid < UidMax => num[i].uid < r.max

(* and what it has found there.                                            *)
Reached(r, num) ==
  /\ r.call.op = "add" => ~There(num[r.count]) /\ r.new = NewUser(r)
  /\ r.call.op = "delete" => num[r.count] = r.old
  /\ r.call.op = "update" => There(num[r.count]) /\ num[r.count].uid = r.call.uid

Known(r, D) ==
  r.sure =>
    /\ r.at \in {"close", "close_name"} => r.copy = D
    /\ r.at \in Later /\ r.call.op # "get_all" => Passed(r, D.num)
    /\ r.at \in {"open", "close"} => Reached(r, D.num)
    /\ Updates(r) => D.uid[r.call.uid] = r.old
    /\ Renames(r) => ~There(D.name[r.old.name])

(* Who has been there all the while is listed or still ahead.              *)
Ahead(num, c) == {num[i] : i \in c .. End(num) - 1}
Heard(r, D) ==
  r.at = "scan" /\ r.call.op = "get_all" =>
    r.stays \subseteq r.seen \cup Ahead(D.num, r.count)

Gapless(num) == \A i \in Nums : There(num[i]) => i < End(num)

Distinct(num) ==
  \A i, j \in Nums : i # j /\ There(num[i]) /\ There(num[j]) =>
    num[i].name # num[j].name /\ num[i].uid # num[j].uid

(* The indexes agree, but for names that are being changed.                *)
Indexed(D) ==
  /\ \A n \in Names : There(D.name[n]) => D.name[n] \in InList(D.num)
  /\ \A u \in Uids : There(D.uid[u]) => D.uid[u] \in InList(D.num)
  /\ \A i \in Nums : There(D.num[i]) => D.uid[D.num[i].uid] = D.num[i]

Named(D, P) ==
  \A i \in Nums : There(D.num[i]) =>
    \/ D.name[D.num[i].name] = D.num[i]
    \/ \E p \in Procs : Renames(P[p]) /\ P[p].old.name = D.num[i].name

IInv ==
  /\ db \in Db /\ Keyed(db)
  /\ DOMAIN proc = Procs
  /\ \A p \in Procs : Fine(proc[p]) /\ Known(proc[p], db) /\ Heard(proc[p], db)
  /\ ~harmed => Gapless(db.num)
  /\ ~harmed /\ ~shared => Distinct(db.num) /\ Indexed(db) /\ Named(db, proc)

-----------------------------------------------------------------------------
(* The list.                                                               *)

(* A set of numbers has a least one.                                       *)
LEMMA Least ==
  ASSUME NEW T \in SUBSET Nat, T # {}
  PROVE  \E x \in T : \A y \in T : x <= y
<1>1. PICK x \in T : \A y \in T : <<y, x>> \notin OpToRel(<, Nat)
  BY NatLessThanWellFounded, WFMin, Zenon
<1>2. \A y \in T : ~(y < x)
  BY <1>1 DEF OpToRel
<1> QED
  BY <1>2

(* The list ends at the first number that nobody has,                      *)
EndOf(num, m) ==
  /\ m \in 1 .. Last + 1
  /\ m = Last + 1 \/ ~There(num[m])
  /\ \A j \in 1 .. m - 1 : There(num[j])

(* there is one,                                                           *)
LEMMA EndIs ==
  ASSUME NEW num
  PROVE  EndOf(num, End(num))
<1> DEFINE T == {m \in 1 .. Last + 1 : m = Last + 1 \/ ~There(num[m])}
<1>1. Last + 1 \in T /\ T \in SUBSET Nat
  BY SpwdAssumption
<1>2. PICK m \in T : \A y \in T : m <= y
  BY <1>1, Least
<1>3. \A j \in 1 .. m - 1 : There(num[j])
  <2> SUFFICES ASSUME NEW j \in 1 .. m - 1 PROVE There(num[j])
    OBVIOUS
  <2>1. j \in 1 .. Last + 1 /\ ~(m <= j)
    BY SpwdAssumption
  <2> QED
    BY <1>2, <2>1
<1>4. EndOf(num, m)
  BY <1>2, <1>3 DEF EndOf
<1> QED
  BY <1>4, Zenon DEF EndOf, End

(* and only one.                                                           *)
LEMMA EndUnique ==
  ASSUME NEW num, NEW m, EndOf(num, m)
  PROVE  End(num) = m
<1> DEFINE e == End(num)
<1>1. EndOf(num, e)
  BY EndIs
<1> HIDE DEF e
<1>2. e \in Nat /\ m \in Nat /\ Last \in Nat
  BY <1>1, SpwdAssumption DEF EndOf
<1>3. ~(m < e)
  BY <1>1, <1>2 DEF EndOf
<1>4. ~(e < m)
  BY <1>1, <1>2 DEF EndOf
<1> QED
  BY <1>2, <1>3, <1>4 DEF e

(* A user has a record that is there.                                      *)
LEMMA UserThere ==
  ASSUME NEW r \in Users
  PROVE  There(r)
<1>1. r.name \in Names /\ Absent.name = NoName
  BY DEF Users, Absent
<1> QED
  BY <1>1, SpwdAssumption DEF There

(* What is there is a user.                                                *)
LEMMA ThereUser ==
  ASSUME NEW r \in Entry, There(r)
  PROVE  r \in Users /\ r.name \in Names /\ r.uid \in Uids
BY DEF Entry, There, Users

(* The numbers of the list.                                                *)
LEMMA ListedNums ==
  ASSUME NEW num, NEW i \in 1 .. End(num) - 1
  PROVE  i \in Nums /\ There(num[i]) /\ num[i] \in InList(num)
<1>1. EndOf(num, End(num))
  BY EndIs
<1> QED
  BY <1>1, SpwdAssumption DEF EndOf, Nums, InList

(* In a list without gaps everybody has a number of the list.              *)
LEMMA InGapless ==
  ASSUME NEW num, Gapless(num), NEW i \in Nums, There(num[i])
  PROVE  i \in 1 .. End(num) - 1 /\ num[i] \in InList(num)
<1>1. EndOf(num, End(num)) /\ i < End(num)
  BY EndIs DEF Gapless
<1> QED
  BY <1>1, SpwdAssumption DEF EndOf, Nums, InList

-----------------------------------------------------------------------------
(* At first.                                                               *)

(* The users at first, looked up by a part of their record.                *)
LEMMA FirstIs ==
  ASSUME NEW S \in SUBSET (DOMAIN Users0)
  PROVE  /\ S = {} => First(S) = Absent
         /\ S # {} => \E i \in S : First(S) = Users0[i]
<1>1. DOMAIN Users0 = 1 .. Len(Users0) /\ Len(Users0) \in Nat
  BY SpwdAssumption
<1>2. S \in SUBSET Nat
  BY <1>1
<1>3. CASE S # {}
  <2>1. \E i \in S : \A j \in S : i <= j
    BY <1>2, <1>3, Least
  <2>2. (CHOOSE i \in S : \A j \in S : i <= j) \in S
    BY <2>1, Zenon
  <2> QED
    BY <1>3, <2>2, Zenon DEF First
<1> QED
  BY <1>3 DEF First

(* The invariant holds initially.                                          *)
LEMMA InitInv == Init => IInv
<1> SUFFICES ASSUME Init PROVE IInv
  OBVIOUS
<1> DEFINE N == [n \in Names |-> First({i \in DOMAIN Users0 : Users0[i].name = n})]
           U == [u \in Uids |-> First({i \in DOMAIN Users0 : Users0[i].uid = u})]
           M == [i \in Nums |-> IF i \in DOMAIN Users0 THEN Users0[i] ELSE Absent]
           len == Len(Users0)
<1>1. /\ DOMAIN Users0 = 1 .. len /\ len \in Nat /\ len <= Last /\ Last \in Nat
      /\ \A i \in 1 .. len : Users0[i] \in Users
  BY SpwdAssumption
<1>2. db.name = N /\ db.uid = U /\ db.num = M /\ db = [name |-> N, uid |-> U, num |-> M]
  BY DEF Init
<1>3. ASSUME NEW n \in Names
      PROVE  /\ N[n] \in Entry
             /\ There(N[n]) => N[n].name = n /\ \E i \in 1 .. len : N[n] = Users0[i]
             /\ \A i \in 1 .. len : Users0[i].name = n => There(N[n])
  <2> DEFINE S == {i \in DOMAIN Users0 : Users0[i].name = n}
  <2>1. N[n] = First(S) /\ S \in SUBSET (DOMAIN Users0)
    OBVIOUS
  <2>2. \A i \in S : i \in 1 .. len /\ Users0[i] \in Users /\ Users0[i].name = n
    BY <1>1
  <2>3. \A i \in 1 .. len : Users0[i].name = n => i \in S
    BY <1>1
  <2> HIDE DEF S, N
  <2>4. CASE S = {}
    BY <2>1, <2>3, <2>4, FirstIs DEF Entry, There
  <2>5. CASE S # {}
    <3>1. PICK i \in S : N[n] = Users0[i]
      BY <2>1, <2>5, FirstIs
    <3> QED
      BY <2>2, <3>1, UserThere DEF Entry
  <2> QED
    BY <2>4, <2>5
<1>4. ASSUME NEW u \in Uids
      PROVE  /\ U[u] \in Entry
             /\ There(U[u]) => U[u].uid = u /\ \E i \in 1 .. len : U[u] = Users0[i]
             /\ \A i \in 1 .. len : Users0[i].uid = u => There(U[u])
  <2> DEFINE S == {i \in DOMAIN Users0 : Users0[i].uid = u}
  <2>1. U[u] = First(S) /\ S \in SUBSET (DOMAIN Users0)
    OBVIOUS
  <2>2. \A i \in S : i \in 1 .. len /\ Users0[i] \in Users /\ Users0[i].uid = u
    BY <1>1
  <2>3. \A i \in 1 .. len : Users0[i].uid = u => i \in S
    BY <1>1
  <2> HIDE DEF S, U
  <2>4. CASE S = {}
    BY <2>1, <2>3, <2>4, FirstIs DEF Entry, There
  <2>5. CASE S # {}
    <3>1. PICK i \in S : U[u] = Users0[i]
      BY <2>1, <2>5, FirstIs
    <3> QED
      BY <2>2, <3>1, UserThere DEF Entry
  <2> QED
    BY <2>4, <2>5
<1>5. /\ \A i \in Nums : M[i] \in Entry
      /\ \A i \in Nums : There(M[i]) <=> i \in 1 .. len
      /\ \A i \in 1 .. len : i \in Nums /\ M[i] = Users0[i]
  BY <1>1, UserThere DEF Nums, Entry, There
<1> HIDE DEF N, U, M
<1>6. db \in Db /\ Keyed(db)
  <2>1. N \in [Names -> Entry] /\ U \in [Uids -> Entry] /\ M \in [Nums -> Entry]
    BY <1>3, <1>4, <1>5 DEF N, U, M
  <2> QED
    BY <1>2, <1>3, <1>4, <2>1 DEF Db, Keyed
<1>7. End(M) = len + 1
  <2>1. EndOf(M, len + 1)
    BY <1>1, <1>5 DEF EndOf, Nums
  <2> QED
    BY <2>1, EndUnique
<1>8. Gapless(db.num)
  BY <1>1, <1>2, <1>5, <1>7 DEF Gapless
<1>9. /\ DOMAIN proc = Procs
      /\ \A p \in Procs : Fine(proc[p]) /\ Known(proc[p], db) /\ Heard(proc[p], db)
  <2>1. /\ DOMAIN Idle0 = Fields /\ Idle0.at = "idle" /\ Idle0.count = 1 /\ Idle0.max = 0
    BY Zenon DEF Idle0, Fields
  <2>2. DOMAIN proc = Procs /\ \A p \in Procs : proc[p] = Idle0
    BY DEF Init
  <2>3. 1 \in 1 .. Last + 1 /\ 0 \in Uids
    BY SpwdAssumption DEF Uids
  <2> QED
    BY <2>1, <2>2, <2>3 DEF Fine, Place, Updates, Renames, Later, Known, Heard
<1>10. ASSUME ~shared PROVE Distinct(db.num) /\ Indexed(db) /\ Named(db, proc)
  <2>1. \A i, j \in 1 .. len : i # j =>
          Users0[i].name # Users0[j].name /\ Users0[i].uid # Users0[j].uid
    BY <1>1, <1>10 DEF Init
  <2>2. Distinct(db.num)
    BY <1>2, <1>5, <2>1 DEF Distinct
  <2>3. \A i \in 1 .. len : M[i] \in InList(M)
    BY <1>1, <1>5, <1>7 DEF InList
  <2>4. \A i \in 1 .. len : /\ Users0[i].name \in Names /\ Users0[i].uid \in Uids
                           /\ N[Users0[i].name] = Users0[i]
                           /\ U[Users0[i].uid] = Users0[i]
    <3> SUFFICES ASSUME NEW i \in 1 .. len
                 PROVE  /\ Users0[i].name \in Names /\ Users0[i].uid \in Uids
                        /\ N[Users0[i].name] = Users0[i]
                        /\ U[Users0[i].uid] = Users0[i]
      OBVIOUS
    <3>1. Users0[i].name \in Names /\ Users0[i].uid \in Uids
      BY <1>1 DEF Users
    <3>2. PICK j \in 1 .. len : /\ N[Users0[i].name] = Users0[j]
                               /\ N[Users0[i].name].name = Users0[i].name
      BY <1>3, <3>1
    <3>3. PICK m \in 1 .. len : /\ U[Users0[i].uid] = Users0[m]
                               /\ U[Users0[i].uid].uid = Users0[i].uid
      BY <1>4, <3>1
    <3> QED
      BY <2>1, <3>1, <3>2, <3>3
  <2>5. Indexed(db)
    BY SMTT(20), <1>2, <1>3, <1>4, <1>5, <2>3, <2>4 DEF Indexed
  <2>6. Named(db, proc)
    BY <1>2, <1>5, <2>4 DEF Named
  <2> QED
    BY <2>2, <2>5, <2>6
<1> QED
  BY <1>6, <1>8, <1>9, <1>10 DEF IInv

-----------------------------------------------------------------------------
(* The two kinds of step.                                                  *)

(* A process goes on as me; the database stays.                            *)
LEMMA GoesStep ==
  ASSUME IInv, NEW p \in Procs, NEW me, Goes(p, me),
         Fine(me), Known(me, db), Heard(me, db), ~harmed' => ~harmed,
         ~harmed' /\ ~shared /\ Renames(proc[p]) =>
           Renames(me) /\ me.old = proc[p].old
  PROVE  IInv'
<1>1. /\ DOMAIN proc = Procs /\ db' = db /\ shared' = shared
      /\ proc' = [proc EXCEPT ![p] = me]
  BY DEF IInv, Goes
<1>2. /\ DOMAIN proc' = Procs /\ proc'[p] = me
      /\ \A q \in Procs \ {p} : proc'[q] = proc[q]
  BY <1>1
<1>3. \A q \in Procs : Fine(proc'[q]) /\ Known(proc'[q], db) /\ Heard(proc'[q], db)
  BY <1>2 DEF IInv
<1>4. ASSUME ~harmed', ~shared PROVE Named(db, proc')
  <2>1. \A q \in Procs : Renames(proc[q]) =>
          Renames(proc'[q]) /\ proc'[q].old = proc[q].old
    BY <1>2, <1>4
  <2> QED
    BY <1>4, <2>1 DEF IInv, Named
<1> QED
  BY <1>1, <1>2, <1>3, <1>4 DEF IInv

(* What is good of a store that is sure and whole.                         *)
Good(p, new, bad) ==
  ~bad /\ ~harmed /\ proc[p].sure =>
    /\ proc[p].call.op # "delete" =>
         \A c \in Nat : Ahead(db.num, c) \cap InList(new.num) \subseteq Ahead(new.num, c)
    /\ Gapless(new.num)
    /\ ~shared' => Distinct(new.num) /\ Indexed(new) /\ Named(new, proc')

(* A process stores its copy.                                              *)
LEMMA StoreStep ==
  ASSUME IInv, NEW p \in Procs, NEW me, NEW new, NEW bad, Store(p, me, new, bad),
         Fine(me), Known(me, new), ~(me.at = "scan" /\ me.call.op = "get_all"),
         new \in Db, Keyed(new), Good(p, new, bad)
  PROVE  IInv'
<1>1. db' = new /\ DOMAIN proc' = Procs /\ proc'[p] = me
  BY DEF Store
<1>2. ASSUME NEW q \in Procs \ {p}
      PROVE  Fine(proc'[q]) /\ Known(proc'[q], new) /\ Heard(proc'[q], new)
  <2> DEFINE r == proc[q]
             s == proc'[q]
             gone == bad \/ proc[p].call.op = "delete" \/ harmed \/ ~proc[p].sure
  <2>1. Fine(r) /\ Heard(r, db) /\ DOMAIN r = Fields
    BY DEF IInv, Fine
  <2>2. s = [r EXCEPT !.sure = FALSE,
                      !.stays = IF gone THEN {} ELSE @ \cap InList(new.num)]
    BY DEF Store
  <2> HIDE DEF gone
  <2>3. /\ DOMAIN s = Fields /\ s.at = r.at /\ s.call = r.call /\ s.count = r.count
        /\ s.max = r.max /\ s.old = r.old /\ s.new = r.new /\ s.copy = r.copy
        /\ s.sure = FALSE /\ s.seen = r.seen
        /\ s.stays = IF gone THEN {} ELSE r.stays \cap InList(new.num)
    BY <2>1, <2>2, Zenon DEF Fields
  <2> HIDE DEF s, r
  <2>4. Fine(s) /\ Known(s, new)
    BY <2>1, <2>3 DEF Fine, Updates, Later, Known
  <2>5. Heard(s, new)
    <3>1. CASE gone
      BY <2>3, <3>1 DEF Heard
    <3>2. CASE ~gone /\ s.at = "scan" /\ s.call.op = "get_all"
      <4>1. r.stays \subseteq r.seen \cup Ahead(db.num, r.count)
        BY <2>1, <2>3, <3>2 DEF Heard
      <4>2. r.count \in Nat
        BY <2>1 DEF Fine
      <4>3. Ahead(db.num, r.count) \cap InList(new.num) \subseteq Ahead(new.num, r.count)
        BY <3>2, <4>2 DEF Good, gone
      <4> QED
        BY <2>3, <3>2, <4>1, <4>3 DEF Heard
    <3> QED
      BY <3>1, <3>2 DEF Heard
  <2> QED
    BY <2>4, <2>5 DEF s
<1>3. Heard(me, new)
  BY DEF Heard
<1>4. ~harmed' => ~bad /\ ~harmed /\ proc[p].sure
  BY DEF Store
<1> QED
  BY <1>1, <1>2, <1>3, <1>4 DEF IInv, Good

-----------------------------------------------------------------------------
(* Steps that leave the database as it is.                                 *)

(* A call that is over knows nothing.                                      *)
LEMMA OverFacts ==
  ASSUME NEW me, NEW D
  PROVE  /\ Fine(Over(me)) /\ Known(Over(me), D) /\ Heard(Over(me), D)
         /\ Over(me).at = "idle"
<1> DEFINE r == Over(me)
<1>1. r = [Idle0 EXCEPT !.call = me.call, !.calls = me.calls]
  BY DEF Over
<1>2. /\ DOMAIN r = Fields /\ r.at = "idle" /\ r.count = 1 /\ r.max = 0
  BY <1>1, Zenon DEF Idle0, Fields
<1>3. 1 \in 1 .. Last + 1 /\ 0 \in Uids
  BY SpwdAssumption DEF Uids
<1> HIDE DEF r
<1>4. Fine(r) /\ Known(r, D) /\ Heard(r, D)
  BY <1>2, <1>3 DEF Fine, Place, Updates, Renames, Later, Known, Heard
<1> QED
  BY <1>2, <1>4 DEF r

(* A call ends that has not taken away a name.                             *)
LEMMA EndsStep ==
  ASSUME IInv, NEW p \in Procs, Goes(p, Over(proc[p])), ~harmed' => ~harmed,
         ~harmed' /\ ~shared => ~Renames(proc[p])
  PROVE  IInv'
BY OverFacts, GoesStep

(* A call begins.                                                          *)
LEMMA CallStep ==
  ASSUME IInv, NEW p \in Procs, NEW c \in Menu[p], Call(p, c)
  PROVE  IInv'
<1> DEFINE me == [Idle0 EXCEPT !.call = c, !.at = FirstStep[c.op],
                    !.calls = proc[p].calls + 1, !.stays = InList(db.num)]
<1>1. proc[p].at = "idle" /\ Goes(p, me) /\ harmed' = harmed
  BY DEF Call
<1>2. /\ DOMAIN me = Fields /\ me.at = FirstStep[c.op] /\ me.call = c /\ me.count = 1
      /\ me.max = 0 /\ me.stays = InList(db.num)
  BY Zenon DEF Idle0, Fields
<1>3. Sane(c)
  BY MenuAssumption
<1>4. Place(me.at, c.op) /\ me.at \in {"get", "scan", "by_name", "by_uid"}
      /\ (me.at = "scan" => c.op # "update")
  BY <1>2, <1>3 DEF FirstStep, Sane, Place
<1> HIDE DEF me
<1>5. 1 \in 1 .. Last + 1 /\ 0 \in Uids
  BY SpwdAssumption DEF Uids
<1>6. Fine(me)
  BY <1>2, <1>3, <1>4, <1>5 DEF Fine, Updates, Later
<1>7. Known(me, db)
  BY <1>2, <1>4 DEF Known, Updates, Renames, Later, Passed
<1>8. Heard(me, db)
  BY <1>2, Zenon DEF Heard, InList, Ahead
<1>9. ~Renames(proc[p])
  BY <1>1 DEF Renames, Later
<1> QED
  BY <1>1, <1>6, <1>7, <1>8, <1>9, GoesStep

(* add() looks for the name.                                               *)
LEMMA ByNameStep ==
  ASSUME IInv, NEW p \in Procs, ByName(p)
  PROVE  IInv'
<1> DEFINE r == proc[p]
<1>1. r.at = "by_name" /\ Fine(r) /\ DOMAIN r = Fields /\ ~Renames(r)
  BY DEF ByName, IInv, Fine, Renames, Later
<1>2. \/ Goes(p, Over(r)) /\ harmed' = harmed
      \/ \E where \in {"scan", "dead"} : \E named :
           /\ Goes(p, [r EXCEPT !.at = where, !.sure = @ /\ named])
           /\ harmed' = harmed
  BY DEF ByName, Ends
<1>3. ASSUME NEW where \in {"scan", "dead"}, NEW named, harmed' = harmed,
             Goes(p, [r EXCEPT !.at = where, !.sure = @ /\ named])
      PROVE  IInv'
  <2> DEFINE me == [r EXCEPT !.at = where, !.sure = @ /\ named]
  <2>1. /\ DOMAIN me = Fields /\ me.at = where /\ me.call = r.call
        /\ me.count = r.count /\ me.max = r.max
    BY <1>1, Zenon DEF Fields
  <2>2. Goes(p, me)
    BY <1>3
  <2> HIDE DEF me, r
  <2>3. Fine(me) /\ me.call.op = "add"
    BY <1>1, <2>1 DEF Fine, Place, Updates
  <2>4. me.count = 1
    BY <1>1, <2>1 DEF Fine
  <2>5. Known(me, db) /\ Heard(me, db)
    BY <2>1, <2>3, <2>4 DEF Known, Passed, Updates, Renames, Heard
  <2>6. ~Renames(proc[p]) /\ (~harmed' => ~harmed)
    BY <1>1, <1>3 DEF r
  <2> QED
    BY <2>2, <2>3, <2>5, <2>6, GoesStep
<1>4. ASSUME Goes(p, Over(r)), harmed' = harmed PROVE IInv'
  BY <1>1, <1>4, EndsStep
<1> QED
  BY <1>2, <1>3, <1>4, Zenon

(* update() completes the record of the uid.                               *)
LEMMA ByUidStep ==
  ASSUME IInv, NEW p \in Procs, ByUid(p)
  PROVE  IInv'
<1> DEFINE r == proc[p]
           c == r.call
           New(old) == [name |-> IF c.name = NoName THEN old.name ELSE c.name,
                        uid |-> c.uid, info |-> 1]
           Me(old) == [r EXCEPT !.old = old, !.new = New(old),
                         !.at = IF New(old).name # old.name THEN "open_name" ELSE "scan"]
<1>1. r.at = "by_uid" /\ Fine(r) /\ DOMAIN r = Fields /\ ~Renames(r)
  BY DEF ByUid, IInv, Fine, Renames, Later
<1>2. \/ Goes(p, Over(r)) /\ harmed' = harmed
      \/ \E old \in Read(db.uid[c.uid]) :
           There(old) /\ Goes(p, Me(old)) /\ harmed' = harmed
  BY DEF ByUid, Ends
<1>3. ASSUME NEW old \in Read(db.uid[c.uid]), There(old), Goes(p, Me(old)),
             harmed' = harmed
      PROVE  IInv'
  <2> DEFINE me == Me(old)
             new == New(old)
  <2>1. /\ DOMAIN me = Fields /\ me.call = c /\ me.old = old /\ me.new = new
        /\ me.at = (IF new.name # old.name THEN "open_name" ELSE "scan")
        /\ me.count = r.count /\ me.max = r.max
    <3> HIDE DEF New
    <3> QED
      BY <1>1, Zenon DEF Fields
  <2>2. Goes(p, me)
    BY <1>3
  <2>3. Sane(c) /\ c.op = "update" /\ r.count = 1 /\ c.uid \in Uids
    BY <1>1 DEF Fine, Place, Sane
  <2>4. old = db.uid[c.uid] /\ old \in Users /\ old.uid = c.uid
    <3>1. old = db.uid[c.uid]
      BY <1>3 DEF Read, There
    <3>2. db.uid[c.uid] \in Entry /\ (There(db.uid[c.uid]) => db.uid[c.uid].uid = c.uid)
      BY <2>3 DEF IInv, Db, Keyed
    <3> QED
      BY <1>3, <3>1, <3>2, ThereUser
  <2>5. new \in Users /\ new.uid = c.uid
    BY <2>3, <2>4 DEF Users, Sane
  <2> HIDE DEF me, New
  <2>6. Fine(me)
    <3>1. r.max \in Uids /\ r.count \in 1 .. Last + 1
      BY <1>1 DEF Fine
    <3>2. /\ me.at \in {"open_name", "scan"}
          /\ me.at = "open_name" => me.new.name # me.old.name
      BY <2>1
    <3>3. me.call.op = "update" /\ Sane(me.call)
      BY <2>1, <2>3
    <3> HIDE DEF r, c
    <3>4. Place(me.at, me.call.op)
      BY <3>2, <3>3 DEF Place
    <3> QED
      BY <2>1, <2>3, <2>4, <2>5, <3>1, <3>2, <3>3, <3>4 DEF Fine
  <2>7. Known(me, db)
    <3>1. me.at \notin {"close", "close_name", "open"}
      BY <2>1
    <3>2. Passed(me, db.num)
      BY <2>1, <2>3 DEF Passed
    <3>3. ~Renames(me) /\ db.uid[me.call.uid] = me.old
      BY <2>1, <2>4 DEF Renames, Later
    <3> QED
      BY <3>1, <3>2, <3>3 DEF Known
  <2>8. Heard(me, db)
    BY <2>1, <2>3 DEF Heard
  <2>9. ~Renames(proc[p]) /\ (~harmed' => ~harmed)
    BY <1>1, <1>3
  <2> QED
    BY <2>2, <2>6, <2>7, <2>8, <2>9, GoesStep
<1>4. ASSUME Goes(p, Over(r)), harmed' = harmed PROVE IInv'
  BY <1>1, <1>4, EndsStep
<1> QED
  BY <1>2, <1>3, <1>4, Zenon

(* The calls that read one number after the other: the number is a record, *)
(* and reading it right or as missing is all that can happen.              *)
LEMMA ScanReads ==
  ASSUME IInv, NEW p \in Procs, proc[p].count \in Nums,
         NEW u \in Read(db.num[proc[p].count])
  PROVE  /\ db.num[proc[p].count] \in Entry
         /\ There(u) => u = db.num[proc[p].count] /\ u \in Users /\ u.uid \in Uids
<1>1. db.num[proc[p].count] \in Entry
  BY DEF IInv, Db
<1> QED
  BY <1>1, ThereUser DEF Read, There

(* get_all()                                                               *)
LEMMA ScanAllStep ==
  ASSUME IInv, NEW p \in Procs, ScanAll(p)
  PROVE  IInv'
<1> DEFINE r == proc[p]
           Me(u) == [More(r) EXCEPT !.seen = @ \cup {u}]
<1>1. /\ r.at = "scan" /\ r.call.op = "get_all" /\ r.count \in Nums /\ harmed' = harmed
      /\ Fine(r) /\ Known(r, db) /\ Heard(r, db) /\ DOMAIN r = Fields /\ ~Renames(r)
  BY DEF ScanAll, Scans, IInv, Fine, Renames
<1>2. \/ Goes(p, Over(r))
      \/ \E u \in Read(db.num[r.count]) : There(u) /\ Goes(p, Me(u))
  BY DEF ScanAll
<1>3. ASSUME NEW u \in Read(db.num[r.count]), There(u), Goes(p, Me(u))
      PROVE  IInv'
  <2> DEFINE me == Me(u)
  <2>1. /\ DOMAIN me = Fields /\ me.call = r.call /\ me.at = r.at /\ me.count = r.count + 1
        /\ me.max = r.max /\ me.seen = r.seen \cup {u} /\ me.stays = r.stays
    BY <1>1, Zenon DEF Fields, More
  <2>2. u = db.num[r.count]
    BY <1>1, <1>3, ScanReads
  <2> HIDE DEF me
  <2>3. r.count + 1 \in 1 .. Last + 1 /\ r.count \in Nat
    BY <1>1, SpwdAssumption DEF Nums
  <2>4. Fine(me)
    BY <1>1, <2>1, <2>3 DEF Fine, Place, Updates
  <2>5. Known(me, db)
    BY <1>1, <2>1 DEF Known, Updates, Renames
  <2>6. Heard(me, db)
    <3>1. Ahead(db.num, r.count) \subseteq {db.num[r.count]} \cup Ahead(db.num, r.count + 1)
      BY <2>3 DEF Ahead
    <3> QED
      BY <1>1, <2>1, <2>2, <3>1 DEF Heard
  <2>7. ~Renames(proc[p]) /\ (~harmed' => ~harmed)
    BY <1>1
  <2> QED
    BY <1>3, <2>4, <2>5, <2>6, <2>7, GoesStep DEF me
<1>4. ASSUME Goes(p, Over(r)) PROVE IInv'
  BY <1>1, <1>4, EndsStep
<1> QED
  BY <1>2, <1>3, <1>4, Zenon

(* The uid of a new user is one that there is.                             *)
LEMMA NewUserIs ==
  ASSUME NEW r, Fine(r), r.at \in {"scan", "open", "close"}, r.call.op = "add"
  PROVE  NewUser(r) \in Users
<1>1. r.call.name \in Names /\ r.call.uid \in Uids /\ r.max \in Uids
  BY DEF Fine, Sane
<1>2. Start \in Uids
  BY SpwdAssumption
<1> QED
  BY <1>1, <1>2 DEF NewUser, Users

(* add()                                                                   *)
LEMMA ScanAddStep ==
  ASSUME IInv, NEW p \in Procs, ScanAdd(p)
  PROVE  IInv'
<1> DEFINE r == proc[p]
           Next1(u) == [More(r) EXCEPT !.max = NextUid(@, u.uid)]
           Stop(u) == [r EXCEPT !.at = "open", !.new = NewUser(r), !.sure = Right(r, u)]
<1>1. /\ r.at = "scan" /\ r.call.op = "add" /\ r.count \in Nums /\ harmed' = harmed
      /\ Fine(r) /\ Known(r, db) /\ DOMAIN r = Fields /\ ~Renames(r)
  BY DEF ScanAdd, Scans, IInv, Fine, Renames
<1>2. ~Renames(proc[p]) /\ (~harmed' => ~harmed)
  BY <1>1
<1>3. PICK u \in Read(db.num[r.count]) : Goes(p, IF There(u) THEN Next1(u) ELSE Stop(u))
  BY DEF ScanAdd
<1>4. CASE There(u)
  <2> DEFINE me == Next1(u)
             max == NextUid(r.max, u.uid)
  <2>1. /\ DOMAIN me = Fields /\ me.call = r.call /\ me.at = r.at /\ me.count = r.count + 1
        /\ me.max = max /\ me.sure = r.sure
    BY <1>1, Zenon DEF Fields, More
  <2>2. u = db.num[r.count] /\ u.uid \in Uids
    BY <1>1, <1>4, ScanReads
  <2>3. Goes(p, me)
    BY <1>3, <1>4
  <2> HIDE DEF me
  <2>4. r.count + 1 \in 1 .. Last + 1 /\ r.count \in Nat
    BY <1>1, SpwdAssumption DEF Nums
  <2>5. /\ max \in Uids /\ r.max \in Nat /\ max \in Nat /\ max >= r.max
        /\ u.uid < UidMax => u.uid < max
    <3>1. r.max \in Uids
      BY <1>1 DEF Fine
    <3>2. /\ r.max \in Nat /\ u.uid \in Nat /\ UidMax \in Nat
          /\ r.max <= UidMax /\ u.uid <= UidMax
      BY <2>2, <3>1, SpwdAssumption DEF Uids
    <3>3. max = IF u.uid < UidMax /\ u.uid + 1 > r.max THEN u.uid + 1 ELSE r.max
      BY DEF NextUid
    <3> HIDE DEF max
    <3>4. CASE u.uid < UidMax /\ u.uid + 1 > r.max
      <4>1. max = u.uid + 1
        BY <3>3, <3>4
      <4> QED
        BY <3>2, <3>4, <4>1 DEF Uids
    <3>5. CASE ~(u.uid < UidMax /\ u.uid + 1 > r.max)
      <4>1. max = r.max
        BY <3>3, <3>5
      <4> QED
        BY <3>1, <3>2, <3>5, <4>1
    <3> QED
      BY <3>4, <3>5
  <2> HIDE DEF max
  <2>6. Fine(me)
    BY <1>1, <2>1, <2>4, <2>5 DEF Fine, Place, Updates
  <2>7. Known(me, db)
    <3> SUFFICES ASSUME me.sure PROVE Passed(me, db.num)
      BY <1>1, <2>1 DEF Known, Updates, Renames
    <3>1. Passed(r, db.num)
      BY <1>1, <2>1 DEF Known, Later
    <3>2. ASSUME NEW i \in 1 .. me.count - 1
          PROVE  There(db.num[i]) /\ (db.num[i].uid < UidMax => db.num[i].uid < me.max)
      <4>1. CASE i = r.count
        BY <1>4, <2>1, <2>2, <2>5, <4>1
      <4>2. CASE i # r.count
        <5>1. i \in 1 .. r.count - 1 /\ i \in Nums
          BY <1>1, <2>1, <2>4, <4>2, SpwdAssumption DEF Nums
        <5>2. There(db.num[i]) /\ (db.num[i].uid < UidMax => db.num[i].uid < r.max)
          BY <1>1, <3>1, <5>1 DEF Passed
        <5>3. db.num[i] \in Entry
          BY <5>1 DEF IInv, Db
        <5>4. db.num[i].uid \in Nat
          BY <5>2, <5>3, ThereUser DEF Uids
        <5> QED
          BY <2>1, <2>5, <5>2, <5>4
      <4> QED
        BY <4>1, <4>2
    <3> QED
      BY <1>1, <2>1, <3>2 DEF Passed
  <2>8. Heard(me, db)
    BY <1>1, <2>1 DEF Heard
  <2> QED
    BY <1>2, <2>3, <2>6, <2>7, <2>8, GoesStep
<1>5. CASE ~There(u)
  <2> DEFINE me == Stop(u)
  <2>1. /\ DOMAIN me = Fields /\ me.call = r.call /\ me.at = "open" /\ me.count = r.count
        /\ me.max = r.max /\ me.new = NewUser(r)
        /\ me.sure => r.sure /\ u = db.num[r.count]
    BY <1>1, Zenon DEF Fields, Right
  <2>2. Goes(p, me)
    BY <1>3, <1>5
  <2> HIDE DEF me
  <2>3. NewUser(r) \in Users
    BY <1>1, NewUserIs
  <2>4. Fine(me)
    BY <1>1, <2>1, <2>3 DEF Fine, Place, Updates
  <2>5. NewUser(me) = NewUser(r)
    BY <2>1 DEF NewUser
  <2>6. Known(me, db)
    BY <1>1, <1>5, <2>1, <2>5 DEF Known, Updates, Renames, Reached, Passed, Later
  <2>7. Heard(me, db)
    BY <2>1 DEF Heard
  <2> QED
    BY <1>2, <2>2, <2>4, <2>6, <2>7, GoesStep
<1> QED
  BY <1>4, <1>5

(* An update() that has taken a name away, and is sure, finds its uid: the *)
(* uid was in the index, which agrees with the list.                       *)
LEMMA UidFound ==
  ASSUME IInv, NEW p \in Procs, NEW r, r = proc[p], r.at = "scan", Renames(r), r.sure,
         r.count \in Nums, ~harmed, ~shared
  PROVE  There(db.num[r.count])
<1>1. Fine(r) /\ Known(r, db) /\ Indexed(db) /\ db \in Db
  BY DEF IInv
<1>2. /\ r.call.op = "update" /\ Passed(r, db.num) /\ db.uid[r.call.uid] = r.old
      /\ r.old \in Users /\ r.old.uid = r.call.uid /\ r.call.uid \in Uids
  BY <1>1 DEF Renames, Known, Fine, Updates, Later, Sane
<1>3. PICK i \in 1 .. End(db.num) - 1 : db.num[i] = r.old
  BY <1>1, <1>2, UserThere DEF Indexed, InList
<1>4. SUFFICES ASSUME ~There(db.num[r.count]) PROVE FALSE
  OBVIOUS
<1>5. EndOf(db.num, r.count)
  BY <1>2, <1>4, SpwdAssumption DEF EndOf, Passed, Nums
<1>6. End(db.num) = r.count
  BY <1>5, EndUnique
<1> QED
  BY <1>2, <1>3, <1>6 DEF Passed

(* delete() and update()                                                   *)
LEMMA ScanUidStep ==
  ASSUME IInv, NEW p \in Procs, ScanUid(p)
  PROVE  IInv'
<1> DEFINE r == proc[p]
           Update(u) == [r EXCEPT !.at = "open"]
           Delete1(u) == [r EXCEPT !.at = "open", !.old = u]
<1>1. /\ r.at = "scan" /\ r.call.op \in {"delete", "update"} /\ r.count \in Nums
      /\ Fine(r) /\ Known(r, db) /\ DOMAIN r = Fields
  BY DEF ScanUid, Scans, IInv, Fine
<1>2. PICK u \in Read(db.num[r.count]) :
        \/ /\ There(u)
           /\ Goes(p, IF u.uid # r.call.uid THEN More(r)
                      ELSE IF r.call.op = "update" THEN Update(u) ELSE Delete1(u))
           /\ UNCHANGED harmed
        \/ /\ ~There(u)
           /\ Goes(p, Over(r))
           /\ harmed' = (harmed \/ (r.new.name # r.old.name /\ ~Right(r, u)))
  BY Zenon DEF ScanUid
<1>3. CASE ~There(u)
  <2>1. /\ Goes(p, Over(r))
        /\ ~harmed' => ~harmed /\ (r.new.name = r.old.name \/ Right(r, u))
    BY <1>2, <1>3
  <2>2. ASSUME ~harmed', ~shared, Renames(r) PROVE FALSE
    <3>1. Right(r, u) /\ ~harmed
      BY <2>1, <2>2 DEF Renames
    <3>2. r.sure /\ u = db.num[r.count]
      BY <3>1, Zenon DEF Right
    <3>3. There(db.num[r.count])
      BY <1>1, <2>2, <3>1, <3>2, UidFound
    <3> QED
      BY <1>3, <3>2, <3>3
  <2> QED
    BY <2>1, <2>2, EndsStep
<1>4. CASE There(u)
  <2>0. ~harmed' => ~harmed
    BY <1>2, <1>4
  <2>1. u = db.num[r.count] /\ u \in Users
    BY <1>1, <1>4, ScanReads
  <2>2. CASE u.uid # r.call.uid
    <3> DEFINE me == More(r)
    <3>1. /\ DOMAIN me = Fields /\ me.call = r.call /\ me.at = r.at /\ me.count = r.count + 1
          /\ me.max = r.max /\ me.sure = r.sure /\ me.old = r.old /\ me.new = r.new
      BY <1>1, Zenon DEF Fields, More
    <3>2. Goes(p, me)
      BY <1>2, <1>4, <2>2
    <3> HIDE DEF me
    <3>3. r.count + 1 \in 1 .. Last + 1 /\ r.count \in Nat
      BY <1>1, SpwdAssumption DEF Nums
    <3>4. Fine(me)
      BY <1>1, <3>1, <3>3 DEF Fine, Place, Updates
    <3>5. Renames(me) <=> Renames(r)
      BY <3>1 DEF Renames
    <3>6. Known(me, db)
      <4> SUFFICES ASSUME me.sure PROVE Passed(me, db.num)
        BY <1>1, <3>1, <3>5 DEF Known, Updates
      <4>1. Passed(r, db.num)
        BY <1>1, <3>1 DEF Known, Later
      <4>2. ASSUME NEW i \in 1 .. me.count - 1
            PROVE  There(db.num[i]) /\ db.num[i].uid # r.call.uid
        <5>1. CASE i = r.count
          BY <1>4, <2>1, <2>2, <5>1
        <5>2. CASE i # r.count
          <6>1. i \in 1 .. r.count - 1
            BY <3>1, <3>3, <5>2
          <6> QED
            BY <1>1, <4>1, <6>1 DEF Passed
        <5> QED
          BY <5>1, <5>2
      <4> QED
        BY <1>1, <3>1, <4>2 DEF Passed
    <3>7. Heard(me, db)
      BY <1>1, <3>1 DEF Heard
    <3> QED
      BY <2>0, <3>1, <3>2, <3>4, <3>5, <3>6, <3>7, GoesStep
  <2>3. CASE u.uid = r.call.uid /\ r.call.op = "update"
    <3> DEFINE me == Update(u)
    <3>1. /\ DOMAIN me = Fields /\ me.call = r.call /\ me.at = "open" /\ me.count = r.count
          /\ me.max = r.max /\ me.sure = r.sure /\ me.old = r.old /\ me.new = r.new
      BY <1>1, Zenon DEF Fields
    <3>2. Goes(p, me)
      BY <1>2, <1>4, <2>3
    <3> HIDE DEF me
    <3>3. Fine(me)
      BY <1>1, <2>3, <3>1 DEF Fine, Place, Updates, Later
    <3>4. Renames(me) <=> Renames(r)
      BY <1>1, <3>1 DEF Renames, Later
    <3>5. Known(me, db)
      BY <1>1, <1>4, <2>1, <2>3, <3>1, <3>4 DEF Known, Updates, Later, Passed, Reached
    <3>6. Heard(me, db)
      BY <3>1 DEF Heard
    <3> QED
      BY <2>0, <3>1, <3>2, <3>3, <3>4, <3>5, <3>6, GoesStep
  <2>4. CASE u.uid = r.call.uid /\ r.call.op = "delete"
    <3> DEFINE me == Delete1(u)
    <3>1. /\ DOMAIN me = Fields /\ me.call = r.call /\ me.at = "open" /\ me.count = r.count
          /\ me.max = r.max /\ me.sure = r.sure /\ me.old = u
      BY <1>1, Zenon DEF Fields
    <3>2. Goes(p, me)
      BY <1>2, <1>4, <2>4
    <3> HIDE DEF me
    <3>3. Fine(me)
      BY <1>1, <2>1, <2>4, <3>1 DEF Fine, Place, Updates
    <3>4. ~Renames(me) /\ ~Renames(r)
      BY <2>4, <3>1 DEF Renames
    <3>5. Known(me, db)
      BY <1>1, <2>1, <2>4, <3>1, <3>4 DEF Known, Updates, Later, Passed, Reached
    <3>6. Heard(me, db)
      BY <3>1 DEF Heard
    <3> QED
      BY <2>0, <3>1, <3>2, <3>3, <3>4, <3>5, <3>6, GoesStep
  <2> QED
    BY <1>1, <2>2, <2>3, <2>4
<1> QED
  BY <1>3, <1>4

(* An access opens the database and copies it.                             *)
LEMMA OpenStep ==
  ASSUME IInv, NEW p \in Procs, Open(p)
  PROVE  IInv'
<1> DEFINE r == proc[p]
           to == IF r.at = "open" THEN "close" ELSE "close_name"
           me == [r EXCEPT !.copy = db, !.at = to]
<1>1. /\ r.at \in {"open", "open_name"} /\ harmed' = harmed /\ Goes(p, me)
      /\ Fine(r) /\ Known(r, db) /\ DOMAIN r = Fields /\ db \in Db /\ Keyed(db)
  BY DEF Open, IInv, Fine
<1>2. to = "close" <=> r.at = "open"
  OBVIOUS
<1>3. to = "close_name" <=> r.at = "open_name"
  BY <1>1
<1> HIDE DEF to
<1>4. /\ DOMAIN me = Fields /\ me.call = r.call /\ me.at = to /\ me.count = r.count
      /\ me.max = r.max /\ me.sure = r.sure /\ me.old = r.old /\ me.new = r.new
      /\ me.copy = db
  BY <1>1, Zenon DEF Fields
<1> HIDE DEF me
<1>5. Fine(me)
  BY <1>1, <1>2, <1>3, <1>4 DEF Fine, Place, Updates, Later
<1>6. Renames(me) <=> Renames(r)
  BY <1>1, <1>2, <1>3, <1>4 DEF Renames, Later
<1>7. Known(me, db)
  <2>1. NewUser(me) = NewUser(r)
    BY <1>4 DEF NewUser
  <2> QED
    BY <1>1, <1>2, <1>3, <1>4, <1>6, <2>1 DEF Known, Updates, Later, Passed, Reached
<1>8. Heard(me, db)
  BY <1>1, <1>2, <1>3, <1>4 DEF Heard
<1> QED
  BY <1>1, <1>4, <1>5, <1>6, <1>7, <1>8, GoesStep

-----------------------------------------------------------------------------
(* What is written.                                                        *)

(* Who is changing a name goes on when another process stores.             *)
LEMMA StoreOthers ==
  ASSUME IInv, NEW p \in Procs, NEW me, NEW new, NEW bad, Store(p, me, new, bad)
  PROVE  /\ proc'[p] = me
         /\ \A q \in Procs \ {p} : Renames(proc[q]) =>
              Renames(proc'[q]) /\ proc'[q].old = proc[q].old
<1>1. proc'[p] = me
  BY DEF Store
<1>2. ASSUME NEW q \in Procs \ {p}, Renames(proc[q])
      PROVE  Renames(proc'[q]) /\ proc'[q].old = proc[q].old
  <2> DEFINE r == proc[q]
             s == proc'[q]
             gone == bad \/ proc[p].call.op = "delete" \/ harmed \/ ~proc[p].sure
  <2>1. DOMAIN r = Fields
    BY DEF IInv, Fine
  <2>2. s = [r EXCEPT !.sure = FALSE,
                      !.stays = IF gone THEN {} ELSE @ \cap InList(new.num)]
    BY DEF Store
  <2> HIDE DEF gone
  <2>3. s.at = r.at /\ s.call = r.call /\ s.old = r.old /\ s.new = r.new
    BY <2>1, <2>2, Zenon DEF Fields
  <2> HIDE DEF s
  <2> QED
    BY <1>2, <2>3 DEF Renames, s
<1> QED
  BY <1>1, <1>2

(* A user is written to a number of the list or to its end.                *)
LEMMA WriteList ==
  ASSUME NEW num \in [Nums -> Entry], Gapless(num), NEW c \in Nums, c <= End(num),
         NEW r \in Users, NEW new, \A i \in Nums : new[i] = IF i = c THEN r ELSE num[i]
  PROVE  /\ Gapless(new)
         /\ End(new) = IF c = End(num) THEN c + 1 ELSE End(num)
         /\ r \in InList(new)
         /\ \A i \in 1 .. End(num) - 1 : i # c =>
              new[i] = num[i] /\ num[i] \in InList(new)
<1> DEFINE e == End(num)
           f == IF c = e THEN c + 1 ELSE e
<1>1. EndOf(num, e)
  BY EndIs
<1> HIDE DEF e
<1>2. e \in Nat /\ c \in Nat /\ Last \in Nat /\ c <= Last /\ c <= e
  BY <1>1, SpwdAssumption DEF EndOf, Nums, e
<1>3. There(r)
  BY UserThere
<1>4. \A i \in Nums : new[i] = IF i = c THEN r ELSE num[i]
  OBVIOUS
<1>5. \A i \in Nums : There(num[i]) => i < e
  BY DEF Gapless, e
<1>6. EndOf(new, f)
  <2>1. f \in 1 .. Last + 1
    BY <1>1, <1>2 DEF EndOf
  <2>2. f = Last + 1 \/ ~There(new[f])
    <3>1. CASE f = Last + 1
      BY <3>1
    <3>2. CASE f # Last + 1
      <4>1. f \in Nums /\ f # c /\ f >= e
        BY <1>2, <2>1, <3>2 DEF Nums
      <4> QED
        BY <1>2, <1>4, <1>5, <4>1 DEF Nums
    <3> QED
      BY <3>1, <3>2
  <2>3. \A j \in 1 .. f - 1 : There(new[j])
    <3> SUFFICES ASSUME NEW j \in 1 .. f - 1 PROVE There(new[j])
      OBVIOUS
    <3>1. j \in Nums /\ (j # c => j \in 1 .. e - 1)
      BY <1>2, <2>1 DEF Nums
    <3> QED
      BY <1>1, <1>3, <1>4, <3>1 DEF EndOf
  <2> QED
    BY <2>1, <2>2, <2>3 DEF EndOf
<1>7. End(new) = f
  BY <1>6, EndUnique
<1>8. Gapless(new)
  BY <1>2, <1>4, <1>5, <1>7 DEF Gapless, Nums
<1>9. r \in InList(new)
  <2>1. c \in 1 .. f - 1 /\ new[c] = r
    BY <1>2, <1>4 DEF Nums
  <2> QED
    BY <1>7, <2>1 DEF InList
<1>10. ASSUME NEW i \in 1 .. e - 1, i # c PROVE new[i] = num[i] /\ num[i] \in InList(new)
  <2>1. i \in Nums /\ i \in 1 .. f - 1
    BY <1>1, <1>2 DEF EndOf, Nums
  <2>2. new[i] = num[i]
    BY <1>4, <1>10, <2>1
  <2> QED
    BY <1>7, <2>1, <2>2 DEF InList
<1> QED
  BY <1>7, <1>8, <1>9, <1>10 DEF e

(* Who was ahead and is still there is still ahead.                        *)
LEMMA WriteAhead ==
  ASSUME NEW num \in [Nums -> Entry], Gapless(num), NEW c \in Nums, c <= End(num),
         NEW r \in Users, NEW new, \A i \in Nums : new[i] = IF i = c THEN r ELSE num[i],
         \A j \in 1 .. c - 1 : c < End(num) => num[j] # num[c]
  PROVE  \A k \in Nat : Ahead(num, k) \cap InList(new) \subseteq Ahead(new, k)
<1> DEFINE e == End(num)
<1>1. /\ End(new) = IF c = e THEN c + 1 ELSE e
      /\ \A i \in 1 .. e - 1 : i # c => new[i] = num[i]
  BY WriteList
<1>2. EndOf(num, e)
  BY EndIs
<1>3. e \in Nat /\ c \in Nat /\ c <= e /\ End(new) \in Nat /\ End(new) >= e /\ c < End(new)
  BY <1>1, <1>2, SpwdAssumption DEF EndOf, Nums
<1> HIDE DEF e
<1> SUFFICES ASSUME NEW k \in Nat, NEW x, x \in Ahead(num, k), x \in InList(new)
             PROVE  x \in Ahead(new, k)
  OBVIOUS
<1>4. PICK i \in k .. e - 1 : x = num[i]
  BY DEF Ahead, e
<1>5. PICK j \in 1 .. End(new) - 1 : x = new[j]
  BY DEF InList
<1>6. CASE k >= 1 /\ i # c
  <2>1. i \in k .. End(new) - 1 /\ new[i] = x
    BY <1>1, <1>3, <1>4, <1>6
  <2> QED
    BY <2>1 DEF Ahead
<1>7. CASE k >= 1 /\ i = c
  <2>1. c < e
    BY <1>3, <1>4, <1>7
  <2>2. j >= c
    <3> SUFFICES ASSUME j < c PROVE FALSE
      BY <1>3, <1>5
    <3>1. j \in 1 .. e - 1 /\ j # c
      BY <1>3
    <3>2. num[j] = x
      BY <1>1, <1>5, <3>1
    <3> QED
      BY <1>4, <1>7, <2>1, <3>2 DEF e
  <2>3. j \in k .. End(new) - 1
    BY <1>3, <1>4, <1>7, <2>2
  <2> QED
    BY <1>5, <2>3 DEF Ahead
<1>8. CASE k = 0
  <2>1. j \in k .. End(new) - 1
    BY <1>3, <1>8
  <2> QED
    BY <1>5, <2>1 DEF Ahead
<1> QED
  BY <1>6, <1>7, <1>8

(* A user is written to all three indexes.                                 *)
Written(W, D, c, u) ==
  /\ \A n \in Names : W.name[n] = IF n = u.name THEN u ELSE D.name[n]
  /\ \A x \in Uids : W.uid[x] = IF x = u.uid THEN u ELSE D.uid[x]
  /\ \A i \in Nums : W.num[i] = IF i = c THEN u ELSE D.num[i]

(* Then they agree as before, when nobody else has the name or the uid.    *)
LEMMA WriteAgrees ==
  ASSUME NEW D \in Db, Keyed(D), Gapless(D.num), Distinct(D.num), Indexed(D),
         NEW c \in Nums, c <= End(D.num), NEW u \in Users,
         NEW W \in Db, Written(W, D, c, u),
         \A i \in 1 .. End(D.num) - 1 : i # c =>
           D.num[i].name # u.name /\ D.num[i].uid # u.uid,
         There(D.num[c]) =>
           /\ D.num[c].uid = u.uid
           /\ D.num[c].name # u.name => ~There(D.name[D.num[c].name])
  PROVE  /\ Distinct(W.num) /\ Indexed(W)
         /\ \A i \in Nums : There(W.num[i]) =>
              \/ W.name[W.num[i].name] = W.num[i]
              \/ /\ i # c /\ W.num[i] = D.num[i]
                 /\ W.name[W.num[i].name] = D.name[D.num[i].name]
<1>1. /\ u.name \in Names /\ u.uid \in Uids /\ There(u)
      /\ D.num \in [Nums -> Entry] /\ W.num \in [Nums -> Entry]
  BY UserThere DEF Users, Db
<1>2. \A i \in Nums : W.num[i] = IF i = c THEN u ELSE D.num[i]
  BY DEF Written
<1>3. /\ u \in InList(W.num)
      /\ \A i \in 1 .. End(D.num) - 1 : i # c => D.num[i] \in InList(W.num)
  BY <1>1, <1>2, WriteList
<1>4. \A i \in Nums : i # c /\ There(D.num[i]) =>
        /\ i \in 1 .. End(D.num) - 1
        /\ D.num[i].name # u.name /\ D.num[i].uid # u.uid
        /\ D.num[i].name \in Names /\ D.num[i].uid \in Uids
  BY <1>1, InGapless, ThereUser
<1>5. Distinct(W.num)
  BY <1>2, <1>4 DEF Distinct
<1>6. \A n \in Names : There(W.name[n]) => W.name[n] \in InList(W.num)
  <2> SUFFICES ASSUME NEW n \in Names, There(W.name[n])
               PROVE  W.name[n] \in InList(W.num)
    OBVIOUS
  <2>1. CASE n = u.name
    BY <1>1, <1>3, <2>1 DEF Written
  <2>2. CASE n # u.name
    <3>1. W.name[n] = D.name[n]
      BY <2>2 DEF Written
    <3>2. D.name[n].name = n /\ D.name[n] \in InList(D.num)
      BY <3>1 DEF Keyed, Indexed
    <3>3. PICK i \in 1 .. End(D.num) - 1 : D.name[n] = D.num[i]
      BY <3>2 DEF InList
    <3>4. i # c
      BY <2>2, <3>1, <3>2, <3>3
    <3> QED
      BY <1>3, <3>1, <3>3, <3>4
  <2> QED
    BY <2>1, <2>2
<1>7. \A x \in Uids : There(W.uid[x]) => W.uid[x] \in InList(W.num)
  <2> SUFFICES ASSUME NEW x \in Uids, There(W.uid[x])
               PROVE  W.uid[x] \in InList(W.num)
    OBVIOUS
  <2>1. CASE x = u.uid
    BY <1>1, <1>3, <2>1 DEF Written
  <2>2. CASE x # u.uid
    <3>1. W.uid[x] = D.uid[x]
      BY <2>2 DEF Written
    <3>2. D.uid[x].uid = x /\ D.uid[x] \in InList(D.num)
      BY <3>1 DEF Keyed, Indexed
    <3>3. PICK i \in 1 .. End(D.num) - 1 : D.uid[x] = D.num[i]
      BY <3>2 DEF InList
    <3>4. i # c
      BY <2>2, <3>1, <3>2, <3>3
    <3> QED
      BY <1>3, <3>1, <3>3, <3>4
  <2> QED
    BY <2>1, <2>2
<1>8. \A i \in Nums : There(W.num[i]) => W.uid[W.num[i].uid] = W.num[i]
  BY <1>1, <1>2, <1>4 DEF Written, Indexed
<1>9. Indexed(W)
  BY <1>6, <1>7, <1>8 DEF Indexed
<1>10. \A i \in Nums : There(W.num[i]) =>
         \/ W.name[W.num[i].name] = W.num[i]
         \/ /\ i # c /\ W.num[i] = D.num[i]
            /\ W.name[W.num[i].name] = D.name[D.num[i].name]
  BY <1>1, <1>2, <1>4 DEF Written
<1> QED
  BY <1>5, <1>9, <1>10

(* A record is written to the indexes one after the other.                 *)
LEMMA WriteFacts ==
  ASSUME NEW me, Fine(me), me.at = "close", me.call.op \in {"add", "update"}, NEW n \in 0 .. 3
  PROVE  /\ Write(me, n) \in Db /\ Keyed(Write(me, n))
         /\ n = 3 => Written(Write(me, n), me.copy, me.count, me.new)
<1> DEFINE u == me.new
           D == me.copy
           W == Write(me, n)
           N == [D.name EXCEPT ![u.name] = IF n >= 1 THEN u ELSE @]
           U == [D.uid EXCEPT ![u.uid] = IF n >= 2 THEN u ELSE @]
           M == [D.num EXCEPT ![me.count] = IF n = 3 THEN u ELSE @]
<1>1. u \in Users /\ D \in Db /\ Keyed(D) /\ me.count \in Nums
  BY DEF Fine, Updates, Later
<1>2. /\ u.name \in Names /\ u.uid \in Uids /\ u \in Entry
      /\ D.name \in [Names -> Entry] /\ D.uid \in [Uids -> Entry] /\ D.num \in [Nums -> Entry]
      /\ DOMAIN D = {"name", "uid", "num"}
  BY <1>1 DEF Users, Entry, Db
<1>3. W = [D EXCEPT !.name = N, !.uid = U, !.num = M]
  BY DEF Write
<1>4. N \in [Names -> Entry] /\ U \in [Uids -> Entry] /\ M \in [Nums -> Entry]
  BY <1>1, <1>2
<1>5. /\ \A m \in Names : N[m] = IF m = u.name /\ n >= 1 THEN u ELSE D.name[m]
      /\ \A x \in Uids : U[x] = IF x = u.uid /\ n >= 2 THEN u ELSE D.uid[x]
      /\ \A i \in Nums : M[i] = IF i = me.count /\ n = 3 THEN u ELSE D.num[i]
  BY <1>2
<1> HIDE DEF N, U, M, W
<1>6. W \in Db /\ W.name = N /\ W.uid = U /\ W.num = M
  <2> HIDE DEF D
  <2>1. D \in [name : [Names -> Entry], uid : [Uids -> Entry], num : [Nums -> Entry]]
    BY <1>1 DEF Db
  <2> QED
    BY <1>3, <1>4, <2>1 DEF Db
<1>7. Keyed(W)
  BY <1>1, <1>5, <1>6 DEF Keyed
<1>8. n = 3 => Written(W, D, me.count, u)
  BY <1>5, <1>6 DEF Written
<1> QED
  BY <1>6, <1>7, <1>8 DEF W

(* What a call that is sure writes, it writes where it should.             *)
LEMMA SureWrites ==
  ASSUME IInv, NEW p \in Procs, proc[p].sure, ~harmed, proc[p].at = "close",
         proc[p].call.op \in {"add", "update"}
  PROVE  LET r == proc[p]
             c == proc[p].count
         IN  /\ r.copy = db /\ c \in Nums /\ c <= End(db.num) /\ r.new \in Users
             /\ r.call.op = "add" => c = End(db.num)
             /\ r.call.op = "update" =>
                  /\ c < End(db.num) /\ There(db.num[c])
                  /\ db.num[c].uid = r.new.uid /\ db.uid[r.new.uid] = r.old
                  /\ \A j \in 1 .. c - 1 : db.num[j].uid # db.num[c].uid
<1> DEFINE r == proc[p]
           c == r.count
<1>1. /\ Fine(r) /\ Known(r, db) /\ Gapless(db.num)
      /\ r.at = "close" /\ r.sure /\ r.call.op \in {"add", "update"}
  BY DEF IInv
<1> HIDE DEF r
<1>2. /\ r.copy = db /\ c \in Nums /\ r.new \in Users
      /\ r.call.op = "update" => db.uid[r.call.uid] = r.old /\ r.new.uid = r.call.uid
  BY <1>1 DEF Known, Fine, Updates, Later
<1>3. Passed(r, db.num) /\ Reached(r, db.num)
  BY <1>1 DEF Known, Later
<1>4. CASE r.call.op = "add"
  <2>1. EndOf(db.num, c)
    BY <1>2, <1>3, <1>4, SpwdAssumption DEF EndOf, Passed, Reached, Nums
  <2>2. End(db.num) = c
    BY <2>1, EndUnique
  <2>3. c \in Nat
    BY <1>2 DEF Nums
  <2> QED
    BY <1>2, <1>4, <2>2, <2>3 DEF r
<1>5. CASE r.call.op = "update"
  <2>1. There(db.num[c]) /\ db.num[c].uid = r.call.uid
    BY <1>3, <1>5 DEF Reached
  <2>2. c \in 1 .. End(db.num) - 1
    BY <1>1, <1>2, <2>1, InGapless
  <2>3. \A j \in 1 .. c - 1 : db.num[j].uid # r.call.uid
    BY <1>3, <1>5 DEF Passed
  <2>4. EndOf(db.num, End(db.num))
    BY EndIs
  <2>5. c < End(db.num) /\ c <= End(db.num)
    BY <2>2, <2>4 DEF EndOf
  <2> QED
    BY <1>2, <1>5, <2>1, <2>3, <2>5 DEF r
<1> QED
  BY <1>1, <1>4, <1>5

(* add() and update() store a user.                                        *)
LEMMA CloseWriteStep ==
  ASSUME IInv, NEW p \in Procs, CloseWrite(p)
  PROVE  IInv'
<1> DEFINE r == proc[p]
           c == r.count
           u == r.new
<1>1. /\ r.at = "close" /\ r.call.op \in {"add", "update"} /\ Fine(r) /\ Known(r, db)
      /\ shared' = (shared \/ Claims(r)) /\ db \in Db /\ Keyed(db)
  BY DEF CloseWrite, IInv
<1>2. PICK n \in Reach : Store(p, Over(r), Write(r, n), n < 3)
  BY DEF CloseWrite
<1>3. n \in 0 .. 3
  BY DEF Reach
<1> DEFINE W == Write(r, n)
<1>4. W \in Db /\ Keyed(W) /\ (n = 3 => Written(W, r.copy, c, u))
  BY <1>1, <1>3, WriteFacts
<1>5. /\ proc'[p] = Over(r) /\ Over(r).at = "idle"
      /\ \A q \in Procs \ {p} : Renames(proc[q]) =>
           Renames(proc'[q]) /\ proc'[q].old = proc[q].old
  BY <1>2, StoreOthers, OverFacts
<1> HIDE DEF W
<1>6. ASSUME ~(n < 3), ~harmed, r.sure
      PROVE  /\ \A k \in Nat : Ahead(db.num, k) \cap InList(W.num) \subseteq Ahead(W.num, k)
             /\ Gapless(W.num)
             /\ ~shared' => Distinct(W.num) /\ Indexed(W) /\ Named(W, proc')
  <2>1. /\ r.copy = db /\ c \in Nums /\ c <= End(db.num) /\ u \in Users
        /\ r.call.op = "add" => c = End(db.num)
        /\ r.call.op = "update" =>
             /\ c < End(db.num) /\ There(db.num[c])
             /\ db.num[c].uid = u.uid /\ db.uid[u.uid] = r.old
             /\ \A j \in 1 .. c - 1 : db.num[j].uid # db.num[c].uid
    BY <1>1, <1>6, SureWrites
  <2>2. Written(W, db, c, u)
    BY <1>3, <1>4, <1>6, <2>1
  <2>3. /\ db.num \in [Nums -> Entry] /\ W.num \in [Nums -> Entry] /\ Gapless(db.num)
        /\ \A i \in Nums : W.num[i] = IF i = c THEN u ELSE db.num[i]
    BY <1>1, <1>4, <1>6, <2>2 DEF Db, Written, IInv
  <2>4. Gapless(W.num)
    BY <2>1, <2>3, WriteList
  <2>5. \A j \in 1 .. c - 1 : c < End(db.num) => db.num[j] # db.num[c]
    <3>1. c = End(db.num) => ~(c < End(db.num))
      BY <2>1 DEF Nums
    <3> QED
      BY <1>1, <2>1, <3>1
  <2>6. \A k \in Nat : Ahead(db.num, k) \cap InList(W.num) \subseteq Ahead(W.num, k)
    BY <2>1, <2>3, <2>5, WriteAhead
  <2>7. ASSUME ~shared' PROVE Distinct(W.num) /\ Indexed(W) /\ Named(W, proc')
    <3>1. ~shared /\ ~Claims(r)
      BY <1>1, <2>7
    <3>2. Distinct(db.num) /\ Indexed(db) /\ Named(db, proc)
      BY <1>6, <3>1 DEF IInv
    <3>3. \A i \in 1 .. End(db.num) - 1 : i # c =>
            db.num[i].name # u.name /\ db.num[i].uid # u.uid
      BY <2>1, <3>1 DEF Claims
    <3>4. There(db.num[c]) =>
            /\ r.call.op = "update" /\ db.num[c] = r.old /\ db.num[c].uid = u.uid
            /\ db.num[c].name # u.name => ~There(db.name[db.num[c].name])
      <4> SUFFICES ASSUME There(db.num[c])
                   PROVE  /\ r.call.op = "update" /\ db.num[c] = r.old
                          /\ db.num[c].uid = u.uid
                          /\ db.num[c].name # u.name => ~There(db.name[db.num[c].name])
        OBVIOUS
      <4>1. c # End(db.num)
        <5>1. c \in 1 .. End(db.num) - 1 /\ EndOf(db.num, End(db.num))
          BY <2>1, <2>3, InGapless, EndIs
        <5> QED
          BY <5>1 DEF EndOf
      <4>2. r.call.op = "update"
        BY <1>1, <2>1, <4>1
      <4>3. db.num[c] = r.old /\ db.num[c].uid = u.uid
        BY <2>1, <3>2, <4>2 DEF Indexed
      <4>4. r.old.name # u.name => ~There(db.name[r.old.name])
        <5>1. r.old.name # u.name => Renames(r)
          BY <1>1, <4>2 DEF Renames, Later
        <5>2. Renames(r) => ~There(db.name[r.old.name])
          BY <1>1, <1>6 DEF Known
        <5> QED
          BY <5>1, <5>2
      <4> QED
        BY <4>2, <4>3, <4>4
    <3>5. /\ Distinct(W.num) /\ Indexed(W)
          /\ \A i \in Nums : There(W.num[i]) =>
               \/ W.name[W.num[i].name] = W.num[i]
               \/ /\ i # c /\ W.num[i] = db.num[i]
                  /\ W.name[W.num[i].name] = db.name[db.num[i].name]
      BY SMTT(20), <1>1, <1>4, <2>1, <2>2, <2>3, <3>2, <3>3, <3>4, WriteAgrees
    <3>6. ASSUME NEW i \in Nums, There(W.num[i]), i # c, W.num[i] = db.num[i],
                 W.name[W.num[i].name] = db.name[db.num[i].name]
          PROVE  \/ W.name[W.num[i].name] = W.num[i]
                 \/ \E q \in Procs : Renames(proc'[q]) /\ proc'[q].old.name = W.num[i].name
      <4>1. CASE db.name[db.num[i].name] = db.num[i]
        BY <3>6, <4>1
      <4>2. CASE db.name[db.num[i].name] # db.num[i]
        <5>1. PICK q \in Procs : Renames(proc[q]) /\ proc[q].old.name = db.num[i].name
          BY <3>2, <3>6, <4>2 DEF Named
        <5>2. q # p
          <6> SUFFICES ASSUME q = p PROVE FALSE
            OBVIOUS
          <6>1. r.call.op = "update" /\ r.old.name = db.num[i].name
            BY <5>1 DEF Renames
          <6>2. There(db.num[c]) /\ db.num[c] = r.old
            BY <2>1, <3>4, <6>1
          <6> QED
            BY <2>1, <3>2, <3>6, <6>1, <6>2 DEF Distinct
        <5> QED
          BY <1>5, <3>6, <5>1, <5>2
      <4> QED
        BY <4>1, <4>2
    <3>7. Named(W, proc')
      BY <3>5, <3>6 DEF Named
    <3> QED
      BY <3>5, <3>7
  <2> QED
    BY <2>4, <2>6, <2>7
<1>7. Good(p, W, n < 3)
  BY <1>6 DEF Good
<1>8. Fine(Over(r)) /\ Known(Over(r), W) /\ Over(r).at = "idle"
  BY OverFacts
<1> QED
  BY <1>2, <1>4, <1>7, <1>8, StoreStep DEF W

(* The list closes up over the number that is deleted.                     *)
LEMMA ShiftList ==
  ASSUME NEW num \in [Nums -> Entry], Gapless(num), NEW c \in Nums, There(num[c])
  PROVE  LET new == Shift(num, c, {})
         IN  /\ c < End(num)
             /\ \A j \in Nums : new[j] = IF j < c THEN num[j]
                                         ELSE IF j < End(num) - 1 THEN num[j + 1]
                                         ELSE Absent
             /\ End(new) = End(num) - 1
             /\ Gapless(new)
<1> DEFINE new == Shift(num, c, {})
           e == End(num)
           behind == {j \in c + 1 .. Last : \A m \in c + 1 .. j : There(num[m])}
<1>1. EndOf(num, e) /\ c \in 1 .. e - 1
  BY EndIs, InGapless
<1>2. \A i \in Nums : There(num[i]) => i < e
  BY DEF Gapless
<1> HIDE DEF e
<1>3. e \in Nat /\ c \in Nat /\ Last \in Nat /\ c < e /\ e <= Last + 1 /\ c >= 1
  BY <1>1, SpwdAssumption DEF EndOf, Nums
<1>4. \A j \in Nat : j \in behind <=> j > c /\ j < e
  <2> SUFFICES ASSUME NEW j \in Nat PROVE j \in behind <=> j > c /\ j < e
    OBVIOUS
  <2>1. ASSUME j \in behind PROVE j > c /\ j < e
    <3>1. j \in c + 1 .. Last /\ There(num[j])
      BY <2>1, <1>3
    <3> QED
      BY <1>2, <1>3, <3>1 DEF Nums
  <2>2. ASSUME j > c, j < e PROVE j \in behind
    <3>1. j \in c + 1 .. Last
      BY <1>3, <2>2
    <3>2. \A m \in c + 1 .. j : m \in 1 .. e - 1
      BY <1>3, <2>2
    <3> QED
      BY <1>1, <3>1, <3>2 DEF EndOf
  <2> QED
    BY <2>1, <2>2
<1>5. \A j \in Nums : ~There(num[j]) => num[j] = Absent
  BY DEF There
<1>6. ASSUME NEW j \in Nums
      PROVE  new[j] = IF j < c THEN num[j] ELSE IF j < e - 1 THEN num[j + 1] ELSE Absent
  <2>1. new[j] = IF j + 1 \in behind THEN num[j + 1]
                 ELSE IF j \in behind /\ j + 1 \in behind THEN num[j]
                 ELSE IF j \in behind \cup {c} THEN Absent
                 ELSE num[j]
    <3> HIDE DEF behind
    <3>1. behind \ {} = behind
      OBVIOUS
    <3>2. Shift(num, c, {}) =
            [i \in Nums |-> IF i + 1 \in behind \ {} THEN num[i + 1]
                            ELSE IF i \in behind /\ i + 1 \in behind THEN num[i]
                            ELSE IF i \in behind \cup {c} THEN Absent
                            ELSE num[i]]
      BY Zenon DEF Shift, behind
    <3> QED
      BY <3>1, <3>2
  <2>2. j \in Nat /\ j + 1 \in Nat
    BY DEF Nums
  <2> HIDE DEF behind, new
  <2>3. CASE j < c
    BY <1>3, <1>4, <2>1, <2>2, <2>3
  <2>4. CASE j >= c /\ j < e - 1
    BY <1>3, <1>4, <2>1, <2>2, <2>4
  <2>5. CASE j >= c /\ j = e - 1
    BY <1>3, <1>4, <2>1, <2>2, <2>5
  <2>6. CASE j >= e
    <3>1. ~There(num[j])
      BY <1>2, <1>3, <2>2, <2>6
    <3>2. num[j] = Absent
      BY <1>5, <3>1
    <3> QED
      BY <1>3, <1>4, <2>1, <2>2, <2>6, <3>2
  <2> QED
    BY <1>3, <2>2, <2>3, <2>4, <2>5, <2>6
<1> HIDE DEF new
<1>7. \A j \in 1 .. e - 2 : There(new[j])
  <2> SUFFICES ASSUME NEW j \in 1 .. e - 2 PROVE There(new[j])
    OBVIOUS
  <2>1. j \in Nums /\ j \in 1 .. e - 1 /\ j + 1 \in 1 .. e - 1 /\ j < e - 1
    BY <1>3 DEF Nums
  <2> QED
    BY <1>1, <1>6, <2>1 DEF EndOf
<1>8. \A j \in Nums : There(new[j]) => j < e - 1
  <2> SUFFICES ASSUME NEW j \in Nums, ~(j < e - 1) PROVE ~There(new[j])
    OBVIOUS
  <2>1. ~(j < c)
    BY <1>3 DEF Nums
  <2> QED
    BY <1>6, <2>1 DEF There
<1>9. EndOf(new, e - 1)
  <2>1. e - 1 \in 1 .. Last + 1 /\ e - 1 \in Nums
    BY <1>3 DEF Nums
  <2>2. ~There(new[e - 1])
    BY <1>3, <1>8, <2>1
  <2>3. \A j \in 1 .. (e - 1) - 1 : There(new[j])
    BY <1>3, <1>7
  <2> QED
    BY <2>1, <2>2, <2>3 DEF EndOf
<1>10. End(new) = e - 1
  BY <1>9, EndUnique
<1>11. Gapless(new)
  BY <1>8, <1>10 DEF Gapless
<1> QED
  BY <1>3, <1>6, <1>10, <1>11 DEF new, e

(* The numbers of a list that closes up are users, whatever fails.         *)
LEMMA ShiftType ==
  ASSUME NEW num \in [Nums -> Entry], NEW c \in Nums, NEW fails
  PROVE  Shift(num, c, fails) \in [Nums -> Entry]
<1> DEFINE behind == {j \in c + 1 .. Last : \A m \in c + 1 .. j : There(num[m])}
           new == [j \in Nums |-> IF j + 1 \in behind \ fails THEN num[j + 1]
                                  ELSE IF j \in behind /\ j + 1 \in behind THEN num[j]
                                  ELSE IF j \in behind \cup {c} THEN Absent
                                  ELSE num[j]]
<1>1. Shift(num, c, fails) = new
  BY Zenon DEF Shift
<1>2. \A j \in behind : j \in Nums
  BY SpwdAssumption DEF Nums
<1>3. Absent \in Entry
  BY DEF Entry
<1> HIDE DEF behind
<1>4. new \in [Nums -> Entry]
  BY <1>2, <1>3
<1> QED
  BY <1>1, <1>4

(* A user is deleted from all three indexes.                               *)
Removed(W, D, c, old) ==
  /\ \A n \in Names : W.name[n] = IF n = old.name THEN Absent ELSE D.name[n]
  /\ \A x \in Uids : W.uid[x] = IF x = old.uid THEN Absent ELSE D.uid[x]
  /\ W.num = Shift(D.num, c, {})

(* A record is deleted from the indexes one after the other.               *)
LEMMA DeleteFacts ==
  ASSUME NEW me, Fine(me), me.at = "close", me.call.op = "delete", NEW n \in 0 .. 3,
         NEW fails
  PROVE  /\ Delete(me, n, fails) \in Db /\ Keyed(Delete(me, n, fails))
         /\ n = 3 /\ fails = {} => Removed(Delete(me, n, fails), me.copy, me.count, me.old)
<1> DEFINE old == me.old
           D == me.copy
           W == Delete(me, n, fails)
           N == [D.name EXCEPT ![old.name] = IF n >= 1 THEN Absent ELSE @]
           U == [D.uid EXCEPT ![me.call.uid] = IF n >= 2 THEN Absent ELSE @]
           M == IF n = 3 THEN Shift(D.num, me.count, fails) ELSE D.num
<1>1. old \in Users /\ D \in Db /\ Keyed(D) /\ me.count \in Nums /\ old.uid = me.call.uid
  BY DEF Fine
<1>2. /\ old.name \in Names /\ old.uid \in Uids /\ Absent \in Entry
      /\ D.name \in [Names -> Entry] /\ D.uid \in [Uids -> Entry] /\ D.num \in [Nums -> Entry]
  BY <1>1 DEF Users, Entry, Db
<1>3. W = [D EXCEPT !.name = N, !.uid = U, !.num = M]
  BY DEF Delete
<1>4. N \in [Names -> Entry] /\ U \in [Uids -> Entry] /\ M \in [Nums -> Entry]
  <2>1. Shift(D.num, me.count, fails) \in [Nums -> Entry]
    BY <1>1, <1>2, ShiftType
  <2> QED
    BY <1>1, <1>2, <2>1
<1>5. /\ \A m \in Names : N[m] = IF m = old.name /\ n >= 1 THEN Absent ELSE D.name[m]
      /\ \A x \in Uids : U[x] = IF x = old.uid /\ n >= 2 THEN Absent ELSE D.uid[x]
      /\ n = 3 => M = Shift(D.num, me.count, fails)
  BY <1>1, <1>2
<1> HIDE DEF N, U, M, W
<1>6. W \in Db /\ W.name = N /\ W.uid = U /\ W.num = M
  <2> HIDE DEF D
  <2>1. D \in [name : [Names -> Entry], uid : [Uids -> Entry], num : [Nums -> Entry]]
    BY <1>1 DEF Db
  <2> QED
    BY <1>3, <1>4, <2>1 DEF Db
<1>7. Keyed(W)
  BY <1>1, <1>5, <1>6 DEF Keyed, There
<1>8. n = 3 /\ fails = {} => Removed(W, D, me.count, old)
  BY <1>5, <1>6 DEF Removed
<1> QED
  BY <1>6, <1>7, <1>8 DEF W

(* The indexes agree as before when a user is deleted that they agreed on. *)
LEMMA DeleteAgrees ==
  ASSUME NEW D \in Db, Keyed(D), Gapless(D.num), Distinct(D.num), Indexed(D),
         NEW c \in Nums, There(D.num[c]),
         NEW W \in Db, Removed(W, D, c, D.num[c])
  PROVE  /\ Distinct(W.num) /\ Indexed(W)
         /\ \A i \in Nums : There(W.num[i]) =>
              \E j \in Nums : /\ There(D.num[j]) /\ W.num[i] = D.num[j]
                              /\ W.name[D.num[j].name] = D.name[D.num[j].name]
<1> DEFINE e == End(D.num)
           old == D.num[c]
<1>1. D.num \in [Nums -> Entry] /\ W.num = Shift(D.num, c, {})
  BY DEF Db, Removed
<1>2. /\ c < e
      /\ \A j \in Nums : W.num[j] = IF j < c THEN D.num[j]
                                    ELSE IF j < e - 1 THEN D.num[j + 1]
                                    ELSE Absent
      /\ End(W.num) = e - 1 /\ Gapless(W.num)
  BY <1>1, ShiftList
<1>3. EndOf(D.num, e)
  BY EndIs
<1> HIDE DEF e
<1>4. e \in Nat /\ c \in Nat /\ Last \in Nat /\ e <= Last + 1 /\ c >= 1
  BY <1>3, SpwdAssumption DEF EndOf, Nums
<1>5. old \in Users /\ old.name \in Names /\ old.uid \in Uids
  BY <1>1, ThereUser
<1>6. ASSUME NEW i \in Nums, There(W.num[i])
      PROVE  LET j == IF i < c THEN i ELSE i + 1
             IN  /\ j \in Nums /\ j # c /\ W.num[i] = D.num[j] /\ There(D.num[j])
                 /\ D.num[j].name # old.name /\ D.num[j].uid # old.uid
                 /\ D.num[j].name \in Names /\ D.num[j].uid \in Uids
  <2> DEFINE j == IF i < c THEN i ELSE i + 1
  <2>1. i < c \/ i < e - 1
    BY <1>2, <1>6 DEF There
  <2>2. j \in Nums /\ j # c /\ W.num[i] = D.num[j]
    BY <1>2, <1>4, <2>1 DEF Nums
  <2> HIDE DEF j
  <2>3. There(D.num[j]) /\ D.num[j] \in Entry
    BY <1>1, <1>6, <2>2
  <2>4. D.num[j].name # old.name /\ D.num[j].uid # old.uid
    BY <2>2, <2>3 DEF Distinct
  <2> QED
    BY <2>2, <2>3, <2>4, ThereUser DEF j
<1>7. ASSUME NEW j \in 1 .. e - 1, j # c
      PROVE  D.num[j] \in InList(W.num)
  <2> DEFINE i == IF j < c THEN j ELSE j - 1
  <2>1. i \in Nums /\ i \in 1 .. (e - 1) - 1 /\ W.num[i] = D.num[j]
    BY <1>2, <1>4, <1>7 DEF Nums
  <2> QED
    BY <1>2, <2>1 DEF InList
<1>8. Distinct(W.num)
  <2> SUFFICES ASSUME NEW i \in Nums, NEW m \in Nums, i # m,
                      There(W.num[i]), There(W.num[m])
               PROVE  W.num[i].name # W.num[m].name /\ W.num[i].uid # W.num[m].uid
    BY DEF Distinct
  <2>1. (IF i < c THEN i ELSE i + 1) # (IF m < c THEN m ELSE m + 1)
    BY <1>4 DEF Nums
  <2> QED
    BY <1>6, <2>1 DEF Distinct
<1>9. \A n \in Names : There(W.name[n]) => W.name[n] \in InList(W.num)
  <2> SUFFICES ASSUME NEW n \in Names, There(W.name[n])
               PROVE  W.name[n] \in InList(W.num)
    OBVIOUS
  <2>1. n # old.name /\ W.name[n] = D.name[n]
    BY DEF Removed, There
  <2>2. D.name[n].name = n /\ D.name[n] \in InList(D.num)
    BY <2>1 DEF Keyed, Indexed
  <2>3. PICK j \in 1 .. e - 1 : D.name[n] = D.num[j]
    BY <2>2 DEF InList, e
  <2>4. j # c
    BY <2>1, <2>2, <2>3
  <2> QED
    BY <1>7, <2>1, <2>3, <2>4
<1>10. \A x \in Uids : There(W.uid[x]) => W.uid[x] \in InList(W.num)
  <2> SUFFICES ASSUME NEW x \in Uids, There(W.uid[x])
               PROVE  W.uid[x] \in InList(W.num)
    OBVIOUS
  <2>1. x # old.uid /\ W.uid[x] = D.uid[x]
    BY DEF Removed, There
  <2>2. D.uid[x].uid = x /\ D.uid[x] \in InList(D.num)
    BY <2>1 DEF Keyed, Indexed
  <2>3. PICK j \in 1 .. e - 1 : D.uid[x] = D.num[j]
    BY <2>2 DEF InList, e
  <2>4. j # c
    BY <2>1, <2>2, <2>3
  <2> QED
    BY <1>7, <2>1, <2>3, <2>4
<1>11. \A i \in Nums : There(W.num[i]) => W.uid[W.num[i].uid] = W.num[i]
  BY <1>6 DEF Removed, Indexed
<1>12. Indexed(W)
  BY <1>9, <1>10, <1>11 DEF Indexed
<1>13. \A i \in Nums : There(W.num[i]) =>
         \E j \in Nums : /\ There(D.num[j]) /\ W.num[i] = D.num[j]
                         /\ W.name[D.num[j].name] = D.name[D.num[j].name]
  BY <1>6 DEF Removed
<1> QED
  BY <1>8, <1>12, <1>13

(* get() and verify()                                                      *)
LEMMA GetStep ==
  ASSUME IInv, NEW p \in Procs, Get(p)
  PROVE  IInv'
<1>1. Goes(p, Over(proc[p])) /\ harmed' = harmed /\ proc[p].at = "get"
  BY DEF Get, Ends
<1>2. ~Renames(proc[p])
  BY <1>1 DEF Renames, Later
<1> QED
  BY <1>1, <1>2, EndsStep

(* delete()                                                                *)
LEMMA CloseDeleteStep ==
  ASSUME IInv, NEW p \in Procs, CloseDelete(p)
  PROVE  IInv'
<1> DEFINE r == proc[p]
           c == r.count
<1>1. /\ r.at = "close" /\ r.call.op = "delete" /\ Fine(r) /\ Known(r, db)
      /\ shared' = shared /\ db \in Db /\ Keyed(db)
  BY DEF CloseDelete, IInv
<1>2. \E n \in Reach : \E fails :
        Store(p, Over(r), Delete(r, n, fails), n < 3 \/ fails # {})
  BY Zenon DEF CloseDelete
<1>n. PICK n \in Reach : \E fails :
        Store(p, Over(r), Delete(r, n, fails), n < 3 \/ fails # {})
  BY <1>2, Zenon
<1>3. PICK fails : Store(p, Over(r), Delete(r, n, fails), n < 3 \/ fails # {})
  BY <1>n, Zenon
<1>4. n \in 0 .. 3
  BY DEF Reach
<1> DEFINE W == Delete(r, n, fails)
           bad == n < 3 \/ fails # {}
<1>5. W \in Db /\ Keyed(W) /\ (~bad => Removed(W, r.copy, c, r.old))
  BY <1>1, <1>4, DeleteFacts
<1>6. Store(p, Over(r), W, bad)
  BY <1>3
<1> HIDE DEF W, bad
<1>7. /\ proc'[p] = Over(r)
      /\ \A q \in Procs \ {p} : Renames(proc[q]) =>
           Renames(proc'[q]) /\ proc'[q].old = proc[q].old
  BY <1>6, StoreOthers
<1>8. ASSUME ~bad, ~harmed, r.sure
      PROVE  /\ Gapless(W.num)
             /\ ~shared' => Distinct(W.num) /\ Indexed(W) /\ Named(W, proc')
  <2>1. /\ r.copy = db /\ c \in Nums /\ r.old \in Users /\ db.num[c] = r.old
        /\ db.num \in [Nums -> Entry] /\ Gapless(db.num)
    BY <1>1, <1>8 DEF Known, Reached, Fine, Db, IInv
  <2>2. There(db.num[c]) /\ Removed(W, db, c, db.num[c])
    BY <1>5, <1>8, <2>1, UserThere
  <2>3. Gapless(W.num)
    BY <2>1, <2>2, ShiftList DEF Removed
  <2>4. ASSUME ~shared' PROVE Distinct(W.num) /\ Indexed(W) /\ Named(W, proc')
    <3>1. Distinct(db.num) /\ Indexed(db) /\ Named(db, proc)
      BY <1>1, <1>8, <2>4 DEF IInv
    <3>2. /\ Distinct(W.num) /\ Indexed(W)
          /\ \A i \in Nums : There(W.num[i]) =>
               \E j \in Nums : /\ There(db.num[j]) /\ W.num[i] = db.num[j]
                               /\ W.name[db.num[j].name] = db.name[db.num[j].name]
      BY <1>1, <1>5, <2>1, <2>2, <3>1, DeleteAgrees
    <3>3. ~Renames(r)
      BY <1>1 DEF Renames
    <3>4. Named(W, proc')
      <4> SUFFICES ASSUME NEW i \in Nums, There(W.num[i])
                   PROVE  \/ W.name[W.num[i].name] = W.num[i]
                          \/ \E q \in Procs : /\ Renames(proc'[q])
                                              /\ proc'[q].old.name = W.num[i].name
        BY DEF Named
      <4>1. PICK j \in Nums : /\ There(db.num[j]) /\ W.num[i] = db.num[j]
                              /\ W.name[db.num[j].name] = db.name[db.num[j].name]
        BY <3>2
      <4>2. CASE db.name[db.num[j].name] = db.num[j]
        BY <4>1, <4>2
      <4>3. CASE db.name[db.num[j].name] # db.num[j]
        <5>1. PICK q \in Procs : Renames(proc[q]) /\ proc[q].old.name = db.num[j].name
          BY <3>1, <4>1, <4>3 DEF Named
        <5>2. q \in Procs \ {p}
          BY <3>3, <5>1
        <5> QED
          BY <1>7, <4>1, <5>1, <5>2
      <4> QED
        BY <4>2, <4>3
    <3> QED
      BY <3>2, <3>4
  <2> QED
    BY <2>3, <2>4
<1>9. Good(p, W, bad)
  BY <1>1, <1>8 DEF Good
<1>10. Fine(Over(r)) /\ Known(Over(r), W) /\ Over(r).at = "idle"
  BY OverFacts
<1> QED
  BY <1>5, <1>6, <1>9, <1>10, StoreStep

(* update() takes a name away.                                             *)
LEMMA CloseNameStep ==
  ASSUME IInv, NEW p \in Procs, CloseName(p)
  PROVE  IInv'
<1> DEFINE r == proc[p]
           old == r.old
           D == r.copy
           W == [D EXCEPT !.name[old.name] = Absent]
           me == [r EXCEPT !.at = "scan", !.copy = <<>>]
<1>1. /\ r.at = "close_name" /\ shared' = shared /\ Fine(r) /\ Known(r, db)
      /\ DOMAIN r = Fields /\ db \in Db /\ Keyed(db)
      /\ \/ Store(p, me, W, FALSE)
         \/ Store(p, Over(r), D, FALSE)
  BY DEF CloseName, IInv, Fine
<1>2. /\ D \in Db /\ Keyed(D) /\ r.call.op = "update" /\ r.count = 1
      /\ old \in Users /\ r.new.name # old.name /\ old.name \in Names
      /\ r.call.uid \in Uids /\ Absent \in Entry
  BY <1>1 DEF Fine, Place, Updates, Users, Sane, Entry
<1>3. ~Renames(r)
  BY <1>1 DEF Renames, Later
<1>4. ASSUME Store(p, Over(r), D, FALSE) PROVE IInv'
  <2>1. \A q \in Procs \ {p} : Renames(proc[q]) =>
          Renames(proc'[q]) /\ proc'[q].old = proc[q].old
    BY <1>4, StoreOthers
  <2>2. ASSUME ~harmed, r.sure
        PROVE  /\ D = db /\ Gapless(db.num)
               /\ ~shared' => Distinct(db.num) /\ Indexed(db) /\ Named(db, proc')
    <3>1. D = db
      BY <1>1, <2>2 DEF Known
    <3>2. ASSUME ~shared PROVE Named(db, proc')
      <4>1. \A q \in Procs : Renames(proc[q]) =>
              Renames(proc'[q]) /\ proc'[q].old = proc[q].old
        BY <1>3, <2>1
      <4> QED
        BY <2>2, <3>2, <4>1 DEF IInv, Named
    <3> QED
      BY <1>1, <2>2, <3>1, <3>2 DEF IInv
  <2>3. Good(p, D, FALSE)
    BY <2>2 DEF Good
  <2>4. Fine(Over(r)) /\ Known(Over(r), D) /\ Over(r).at = "idle"
    BY OverFacts
  <2> QED
    BY <1>2, <1>4, <2>3, <2>4, StoreStep
<1>5. ASSUME Store(p, me, W, FALSE) PROVE IInv'
  <2>1. /\ DOMAIN me = Fields /\ me.call = r.call /\ me.at = "scan" /\ me.count = r.count
        /\ me.max = r.max /\ me.sure = r.sure /\ me.old = old /\ me.new = r.new
    BY <1>1, Zenon DEF Fields
  <2> DEFINE N == [D.name EXCEPT ![old.name] = Absent]
  <2>2. W \in Db /\ W.name = N /\ W.uid = D.uid /\ W.num = D.num
    <3>1. N \in [Names -> Entry] /\ W = [D EXCEPT !.name = N]
      BY <1>2 DEF Db
    <3> HIDE DEF N, D
    <3>2. D \in [name : [Names -> Entry], uid : [Uids -> Entry], num : [Nums -> Entry]]
      BY <1>2 DEF Db, D
    <3> QED
      BY <3>1, <3>2 DEF Db
  <2>3. \A n \in Names : N[n] = IF n = old.name THEN Absent ELSE D.name[n]
    BY <1>2 DEF Db
  <2> HIDE DEF N, W, me, D
  <2>4. Keyed(W)
    BY <1>2, <2>2, <2>3 DEF Keyed, There
  <2>5. Store(p, me, W, FALSE) /\ me = proc'[p]
    BY <1>5, StoreOthers DEF D, W, me
  <2>6. Fine(me) /\ Renames(me)
    BY <1>1, <1>2, <2>1 DEF Fine, Place, Updates, Renames, Later
  <2>7. Known(me, W)
    <3> SUFFICES ASSUME me.sure PROVE W.uid[r.call.uid] = old /\ ~There(W.name[old.name])
      BY <1>2, <2>1 DEF Known, Passed, Updates, Renames, Later
    <3>1. D = db /\ db.uid[r.call.uid] = old
      BY <1>1, <1>2, <2>1 DEF Known, Updates, D
    <3> QED
      BY <1>2, <2>2, <2>3, <3>1 DEF There
  <2>8. \A q \in Procs \ {p} : Renames(proc[q]) =>
          Renames(proc'[q]) /\ proc'[q].old = proc[q].old
    BY <2>5, StoreOthers
  <2>9. ASSUME ~harmed, r.sure
        PROVE  /\ W.num = db.num /\ Gapless(W.num)
               /\ ~shared' => Distinct(W.num) /\ Indexed(W) /\ Named(W, proc')
    <3>1. D = db /\ W.num = db.num /\ Gapless(W.num)
      BY <1>1, <2>2, <2>9 DEF Known, IInv, D
    <3>2. ASSUME ~shared PROVE Distinct(W.num) /\ Indexed(W) /\ Named(W, proc')
      <4>1. Distinct(db.num) /\ Indexed(db) /\ Named(db, proc)
        BY <2>9, <3>2 DEF IInv
      <4>2. Indexed(W)
        BY <2>2, <2>3, <3>1, <4>1 DEF Indexed, There
      <4>3. ASSUME NEW i \in Nums, There(db.num[i])
            PROVE  \/ W.name[db.num[i].name] = db.num[i]
                   \/ \E q \in Procs : /\ Renames(proc'[q])
                                       /\ proc'[q].old.name = db.num[i].name
        <5>1. db.num[i].name \in Names
          <6>1. db.num[i] \in Entry
            BY <1>1 DEF Db
          <6> QED
            BY <4>3, <6>1, ThereUser
        <5>2. CASE db.num[i].name = old.name
          BY <2>1, <2>5, <2>6, <5>2
        <5>3. CASE db.num[i].name # old.name /\ db.name[db.num[i].name] = db.num[i]
          BY <2>2, <2>3, <3>1, <5>1, <5>3
        <5>4. CASE db.name[db.num[i].name] # db.num[i]
          <6>1. PICK q \in Procs : Renames(proc[q]) /\ proc[q].old.name = db.num[i].name
            BY <4>1, <4>3, <5>4 DEF Named
          <6>2. q \in Procs \ {p}
            BY <1>3, <6>1
          <6> QED
            BY <2>8, <6>1, <6>2
        <5> QED
          BY <5>2, <5>3, <5>4
      <4>4. Named(W, proc')
        BY <3>1, <4>3 DEF Named
      <4> QED
        BY <3>1, <4>1, <4>2, <4>4
    <3> QED
      BY <1>1, <3>1, <3>2
  <2>10. Good(p, W, FALSE)
    BY <2>9 DEF Good
  <2>11. ~(me.at = "scan" /\ me.call.op = "get_all")
    BY <1>2, <2>1
  <2> QED
    BY <2>2, <2>4, <2>5, <2>6, <2>7, <2>10, <2>11, StoreStep
<1> QED
  BY <1>1, <1>4, <1>5, Zenon

(* The parts of two databases make one.                                    *)
LEMMA Mixed ==
  ASSUME NEW D \in Db, Keyed(D), NEW E \in Db, Keyed(E), NEW parts
  PROVE  LET mix == [x \in DOMAIN D |-> IF x \in parts THEN E[x] ELSE D[x]]
         IN  mix \in Db /\ Keyed(mix)
<1> DEFINE mix == [x \in DOMAIN D |-> IF x \in parts THEN E[x] ELSE D[x]]
           N == IF "name" \in parts THEN E.name ELSE D.name
           U == IF "uid" \in parts THEN E.uid ELSE D.uid
           M == IF "num" \in parts THEN E.num ELSE D.num
<1>1. DOMAIN D = {"name", "uid", "num"}
  BY DEF Db
<1>2. N \in [Names -> Entry] /\ U \in [Uids -> Entry] /\ M \in [Nums -> Entry]
  BY DEF Db
<1>3. /\ mix = [x \in {"name", "uid", "num"} |-> mix[x]]
      /\ mix.name = N /\ mix.uid = U /\ mix.num = M
  BY <1>1, Zenon
<1> HIDE DEF mix
<1>4. mix = [name |-> N, uid |-> U, num |-> M]
  BY <1>3
<1>5. mix \in Db
  BY <1>2, <1>4 DEF Db
<1>6. Keyed(mix)
  BY <1>3 DEF Keyed
<1> QED
  BY <1>5, <1>6 DEF mix

(* A process is killed.                                                    *)
LEMMA CrashStep ==
  ASSUME IInv, NEW p \in Procs, Crash(p)
  PROVE  IInv'
<1> DEFINE r == proc[p]
           D == r.copy
           E == CASE r.at = "close_name" -> [D EXCEPT !.name[r.old.name] = Absent]
                  [] r.at = "close" /\ r.call.op = "delete" -> Delete(r, 3, {})
                  [] r.at = "close" /\ r.call.op # "delete" -> Write(r, 3)
                  [] OTHER -> db
           me == [r EXCEPT !.at = "dead", !.copy = <<>>]
           bad == r.call.op \in {"add", "update", "delete"}
           Mix(parts) == [x \in DOMAIN db |-> IF x \in parts THEN E[x] ELSE db[x]]
<1>1. /\ r.at \notin {"idle", "dead"} /\ shared' = shared /\ Fine(r)
      /\ DOMAIN r = Fields /\ db \in Db /\ Keyed(db)
  BY DEF Crash, IInv, Fine
<1>2. \E parts : Store(p, me, Mix(parts), bad)
  <2> HIDE DEF E
  <2>1. \E parts \in SUBSET {"name", "uid", "num"} : Store(p, me, Mix(parts), bad)
    BY Zenon DEF Crash, E
  <2> QED
    BY <2>1, Zenon
<1>3. E \in Db /\ Keyed(E) /\ (~bad => E = db)
  <2>1. CASE r.at = "close_name"
    <3> DEFINE N == [D.name EXCEPT ![r.old.name] = Absent]
    <3>1. /\ D \in Db /\ Keyed(D) /\ r.old.name \in Names /\ Absent \in Entry /\ bad
      BY <1>1, <2>1 DEF Fine, Place, Updates, Users, Entry
    <3>2. E = [D EXCEPT !.name = N]
      BY <2>1
    <3>3. /\ N \in [Names -> Entry]
          /\ \A n \in Names : N[n] = IF n = r.old.name THEN Absent ELSE D.name[n]
      BY <3>1 DEF Db
    <3> HIDE DEF N, D, E
    <3>4. E \in Db /\ E.name = N /\ E.uid = D.uid
      <4>1. D \in [name : [Names -> Entry], uid : [Uids -> Entry], num : [Nums -> Entry]]
        BY <3>1 DEF Db
      <4> QED
        BY <3>2, <3>3, <4>1 DEF Db
    <3>5. Keyed(E)
      BY <3>1, <3>3, <3>4 DEF Keyed, There
    <3> QED
      BY <3>1, <3>4, <3>5
  <2>2. CASE r.at = "close" /\ r.call.op = "delete"
    <3>1. E = Delete(r, 3, {})
      BY <2>2
    <3>2. Delete(r, 3, {}) \in Db /\ Keyed(Delete(r, 3, {}))
      BY <1>1, <2>2, DeleteFacts
    <3> QED
      BY <2>2, <3>1, <3>2
  <2>3. CASE r.at = "close" /\ r.call.op # "delete"
    <3>1. E = Write(r, 3) /\ r.call.op \in {"add", "update"}
      BY <1>1, <2>3 DEF Fine, Place
    <3>2. Write(r, 3) \in Db /\ Keyed(Write(r, 3))
      BY <1>1, <2>3, <3>1, WriteFacts
    <3> QED
      BY <3>1, <3>2
  <2>4. CASE r.at \notin {"close", "close_name"}
    BY <1>1, <2>4
  <2> QED
    BY <2>1, <2>2, <2>3, <2>4
<1> HIDE DEF E, bad
<1>4. PICK parts : Store(p, me, Mix(parts), bad)
  BY <1>2, Zenon
<1> DEFINE W == Mix(parts)
<1>5. W \in Db /\ Keyed(W)
  BY <1>1, <1>3, Mixed
<1>6. ASSUME ~bad PROVE W = db
  <2>1. W = [x \in DOMAIN db |-> db[x]]
    BY <1>3, <1>6, Zenon
  <2> QED
    BY <1>1, <2>1 DEF Db
<1>7. Store(p, me, W, bad)
  BY <1>4
<1> HIDE DEF W
<1>8. /\ DOMAIN me = Fields /\ me.call = r.call /\ me.at = "dead" /\ me.count = r.count
      /\ me.max = r.max
  BY <1>1, Zenon DEF Fields
<1> HIDE DEF me
<1>9. Fine(me)
  BY <1>1, <1>8 DEF Fine, Place, Updates, Later
<1>10. Known(me, W)
  BY <1>8 DEF Known, Updates, Renames, Later
<1>11. \A q \in Procs \ {p} : Renames(proc[q]) =>
         Renames(proc'[q]) /\ proc'[q].old = proc[q].old
  BY <1>7, StoreOthers
<1>12. ASSUME ~bad, ~harmed
       PROVE  /\ W = db /\ Gapless(db.num)
              /\ ~shared' => Distinct(db.num) /\ Indexed(db) /\ Named(db, proc')
  <2>1. ~Renames(r)
    BY <1>12 DEF Renames, bad
  <2>2. ASSUME ~shared PROVE Named(db, proc')
    <3>1. \A q \in Procs : Renames(proc[q]) =>
            Renames(proc'[q]) /\ proc'[q].old = proc[q].old
      BY <1>11, <2>1
    <3> QED
      BY <1>12, <2>2, <3>1 DEF IInv, Named
  <2> QED
    BY <1>1, <1>6, <1>12, <2>2 DEF IInv
<1>13. Good(p, W, bad)
  BY <1>12 DEF Good
<1>14. ~(me.at = "scan" /\ me.call.op = "get_all")
  BY <1>8
<1> QED
  BY <1>5, <1>7, <1>9, <1>10, <1>13, <1>14, StoreStep

(* Every step keeps the invariant.                                         *)
LEMMA NextInv == IInv /\ [Next]_vars => IInv'
<1> SUFFICES ASSUME IInv, [Next]_vars PROVE IInv'
  OBVIOUS
<1>1. CASE Next
  <2>1. PICK p \in Procs :
          \/ \E c \in Menu[p] : Call(p, c)
          \/ Get(p) \/ ByName(p) \/ ByUid(p)
          \/ ScanAll(p) \/ ScanAdd(p) \/ ScanUid(p) \/ Open(p)
          \/ CloseWrite(p) \/ CloseDelete(p) \/ CloseName(p)
          \/ Crash(p)
    BY <1>1, Zenon DEF Next
  <2> QED
    BY <2>1, CallStep, GetStep, ByNameStep, ByUidStep, ScanAllStep, ScanAddStep,
       ScanUidStep, OpenStep, CloseWriteStep, CloseDeleteStep, CloseNameStep,
       CrashStep, Zenon
<1>2. CASE UNCHANGED vars
  BY <1>2 DEF vars, IInv, Named
<1> QED
  BY <1>1, <1>2

(* The database is well-formed, each call is at a place of its kind, and   *)
(* one that is sure knows the database: what it has passed and found there *)
(* is there still.                                                         *)
THEOREM Invariance == Spec => []IInv
<1>1. Init => IInv
  BY InitInv
<1>2. IInv /\ [Next]_vars => IInv'
  BY NextInv
<1> QED
  BY <1>1, <1>2, PTL DEF Spec

-----------------------------------------------------------------------------
(* Between calls the three indexes have the same users, numbered from 1    *)
(* without a gap.                                                          *)
THEOREM Agree == Spec => []IndexesAgree
<1>1. IInv => IndexesAgree
  <2> SUFFICES ASSUME IInv, \A p \in Procs : proc[p].at = "idle", ~shared, ~harmed
               PROVE  IndexesAgree
    BY DEF IndexesAgree
  <2>1. Gapless(db.num) /\ Indexed(db) /\ Named(db, proc)
    BY DEF IInv
  <2>2. ASSUME NEW p \in Procs PROVE ~Renames(proc[p])
    <3>1. proc[p].at = "idle"
      OBVIOUS
    <3> QED
      BY <3>1 DEF Renames, Later
  <2> QED
    BY <2>1, <2>2 DEF IndexesAgree, Gapless, Indexed, Named
<1> QED
  BY <1>1, Invariance, PTL

(* get_all() lists everyone who is there all the while.                    *)
THEOREM Lists == Spec => []ListsAll
<1>1. IInv => ListsAll
  <2> SUFFICES ASSUME IInv, NEW p \in Procs, Scans(p, {"get_all"}),
                      ~There(db.num[proc[p].count])
               PROVE  proc[p].stays \subseteq proc[p].seen
    BY DEF ListsAll
  <2> DEFINE c == proc[p].count
             e == End(db.num)
  <2>1. /\ c \in Nums
        /\ proc[p].stays \subseteq proc[p].seen \cup Ahead(db.num, c)
    BY DEF Scans, IInv, Heard
  <2>2. EndOf(db.num, e)
    BY EndIs
  <2> HIDE DEF e
  <2>3. ~(c < e)
    BY <2>1, <2>2 DEF EndOf, Nums
  <2>4. c .. e - 1 = {}
    BY <2>1, <2>2, <2>3, SpwdAssumption DEF EndOf, Nums
  <2>5. Ahead(db.num, c) = {}
    BY <2>4 DEF Ahead, e
  <2> QED
    BY <2>1, <2>5
<1> QED
  BY <1>1, Invariance, PTL

(* The uid that add() finds is nobody's.                                   *)
THEOREM UidNew == Spec => []UidIsFree
<1>1. IInv => UidIsFree
  <2> SUFFICES ASSUME IInv, NEW p \in Procs,
                      proc[p].at = "open", proc[p].call.op = "add",
                      proc[p].call.uid = UidMax, proc[p].sure, proc[p].new.uid < UidMax,
                      NEW u \in InList(db.num)
               PROVE  u.uid # proc[p].new.uid
    BY DEF UidIsFree
  <2> DEFINE r == proc[p]
             c == r.count
  <2>1. Fine(r) /\ Known(r, db) /\ db \in Db
    BY DEF IInv
  <2>2. Passed(r, db.num) /\ ~There(db.num[c]) /\ r.new = NewUser(r) /\ c \in Nums
    BY <2>1 DEF Known, Reached, Fine, Later
  <2>3. EndOf(db.num, c)
    BY <2>2, SpwdAssumption DEF EndOf, Passed, Nums
  <2>4. PICK i \in 1 .. c - 1 : u = db.num[i]
    BY <2>3, EndUnique DEF InList
  <2>5. There(u) /\ (u.uid < UidMax => u.uid < r.max)
    BY <2>2, <2>4 DEF Passed
  <2>6. u \in Entry
    <3>1. i \in Nums
      BY <2>2, <2>4, SpwdAssumption DEF Nums
    <3> QED
      BY <2>1, <2>4, <3>1 DEF Db
  <2>7. u.uid \in Nat /\ r.max \in Nat
    BY <2>1, <2>5, <2>6, ThereUser DEF Fine, Uids
  <2>8. r.new.uid = IF r.max < Start THEN Start ELSE r.max
    BY <2>2 DEF NewUser
  <2> QED
    BY <2>5, <2>7, <2>8, SpwdAssumption DEF Uids
<1> QED
  BY <1>1, Invariance, PTL

(* Nobody is on the list who has no number.                                *)
LEMMA ListIs ==
  ASSUME NEW num \in [Nums -> Entry]
  PROVE  /\ End(num) \in 1 .. Last + 1
         /\ Listed(num) \in Seq(Users) /\ Len(Listed(num)) = End(num) - 1
         /\ DOMAIN Listed(num) = 1 .. End(num) - 1
         /\ \A i \in 1 .. End(num) - 1 : Listed(num)[i] = num[i]
<1> DEFINE e == End(num)
<1>1. EndOf(num, e)
  BY EndIs
<1>2. \A i \in 1 .. e - 1 : num[i] \in Users
  BY ListedNums, ThereUser
<1>3. Listed(num) = [i \in 1 .. e - 1 |-> num[i]]
  BY DEF Listed
<1> HIDE DEF e
<1>4. e \in 1 .. Last + 1 /\ e - 1 \in Nat
  BY <1>1, SpwdAssumption DEF EndOf
<1> QED
  BY <1>2, <1>3, <1>4 DEF e

(* What a store does that does no harm.                                    *)
LEMMA StoreMakes ==
  ASSUME NEW p, NEW me, NEW new, NEW bad, Store(p, me, new, bad), ~harmed'
  PROVE  db' = new /\ ~bad /\ ~harmed /\ proc[p].sure
<1>1. db' = new
  BY Zenon DEF Store
<1>2. harmed' = (harmed \/ bad \/ ~proc[p].sure)
  BY Zenon DEF Store
<1>3. ~(harmed \/ bad \/ ~proc[p].sure)
  BY <1>2, Zenon
<1> QED
  BY <1>1, <1>3, Zenon

(* The list that add() and update() store.                                 *)
LEMMA WriteChanges ==
  ASSUME IInv, NEW p \in Procs, CloseWrite(p), ~harmed'
  PROVE  L!Next
<1> DEFINE r == proc[p]
           c == r.count
           u == r.new
           e == End(db.num)
           old == Listed(db.num)
           new == Listed(db'.num)
<1>1. PICK n \in Reach : Store(p, Over(r), Write(r, n), n < 3)
  BY DEF CloseWrite
<1>2. /\ n = 3 /\ db' = Write(r, n) /\ ~harmed /\ r.sure
      /\ r.at = "close" /\ r.call.op \in {"add", "update"} /\ Fine(r)
      /\ db \in Db /\ Gapless(db.num)
  <2>1. db' = Write(r, n) /\ ~harmed /\ ~(n < 3) /\ r.sure
    BY <1>1, StoreMakes
  <2>2. n = 3
    BY <2>1 DEF Reach
  <2>3. /\ r.at = "close" /\ r.call.op \in {"add", "update"} /\ Fine(r)
        /\ db \in Db /\ Gapless(db.num)
    BY <2>1 DEF CloseWrite, IInv
  <2> QED
    BY <2>1, <2>2, <2>3
<1>3. /\ r.copy = db /\ c \in Nums /\ c <= e /\ u \in Users
      /\ r.call.op = "add" => c = e
      /\ r.call.op = "update" => c < e /\ db.num[c].uid = u.uid
  BY <1>2, SureWrites
<1>4. db' \in Db /\ Written(db', db, c, u)
  BY <1>2, <1>3, WriteFacts
<1>5. /\ db.num \in [Nums -> Entry] /\ db'.num \in [Nums -> Entry]
      /\ \A i \in Nums : db'.num[i] = IF i = c THEN u ELSE db.num[i]
  BY <1>2, <1>4 DEF Db, Written
<1>6. End(db'.num) = IF c = e THEN c + 1 ELSE e
  BY <1>2, <1>3, <1>5, WriteList
<1>7. /\ e \in 1 .. Last + 1 /\ old \in Seq(Users) /\ Len(old) = e - 1
      /\ DOMAIN old = 1 .. e - 1
      /\ \A i \in 1 .. e - 1 : old[i] = db.num[i]
  BY <1>5, ListIs
<1>8. /\ new \in Seq(Users) /\ Len(new) = End(db'.num) - 1
      /\ DOMAIN new = 1 .. End(db'.num) - 1
      /\ \A i \in 1 .. End(db'.num) - 1 : new[i] = db'.num[i]
  BY <1>5, ListIs
<1> HIDE DEF e, old, new, c, u
<1>9. e \in Nat /\ c \in Nat /\ Last \in Nat /\ c >= 1
  BY <1>3, <1>7, SpwdAssumption DEF Nums
<1>10. CASE r.call.op = "add"
  <2>1. c = e /\ End(db'.num) = e + 1
    BY <1>3, <1>6, <1>10
  <2>2. new = Append(old, u)
    <3>1. /\ Append(old, u) \in Seq(Users) /\ Len(Append(old, u)) = e
          /\ \A i \in 1 .. e : Append(old, u)[i] = IF i = e THEN u ELSE old[i]
      BY <1>3, <1>7, <1>9, AppendProperties
    <3>2. Len(new) = e /\ DOMAIN new = 1 .. e
      BY <1>8, <1>9, <2>1
    <3>3. ASSUME NEW i \in 1 .. e
          PROVE  new[i] = IF i = e THEN u ELSE old[i]
      <4>1. i \in Nums /\ i \in 1 .. End(db'.num) - 1 /\ (i # e => i \in 1 .. e - 1)
        BY <1>3, <1>9, <2>1 DEF Nums
      <4> QED
        BY <1>5, <1>7, <1>8, <2>1, <4>1
    <3> QED
      BY <1>8, <3>1, <3>2, <3>3, SeqEqual
  <2> QED
    BY <1>3, <2>2 DEF L!Next, L!Append1, old, new
<1>11. CASE r.call.op = "update"
  <2>1. c < e /\ End(db'.num) = e /\ db.num[c].uid = u.uid
    BY <1>3, <1>6, <1>9, <1>11
  <2>2. c \in DOMAIN old /\ u.uid = old[c].uid
    BY <1>7, <1>9, <2>1
  <2>3. new = [old EXCEPT ![c] = u]
    <3>1. DOMAIN new = DOMAIN old
      BY <1>7, <1>8, <2>1
    <3>2. \A i \in 1 .. e - 1 : new[i] = IF i = c THEN u ELSE old[i]
      BY <1>5, <1>7, <1>8, <1>9, <2>1 DEF Nums
    <3> QED
      BY <1>7, <1>8, <3>1, <3>2
  <2> QED
    BY <1>3, <2>2, <2>3 DEF L!Next, L!Change, L!ReplaceAt, old, new
<1> QED
  BY <1>2, <1>10, <1>11

(* The list that delete() stores.                                          *)
LEMMA DeleteChanges ==
  ASSUME IInv, NEW p \in Procs, CloseDelete(p), ~harmed'
  PROVE  L!Next
<1> DEFINE r == proc[p]
           c == r.count
           e == End(db.num)
           old == Listed(db.num)
           new == Listed(db'.num)
<1>1. \E n \in Reach : \E fails :
        Store(p, Over(r), Delete(r, n, fails), n < 3 \/ fails # {})
  BY Zenon DEF CloseDelete
<1>n. PICK n \in Reach : \E fails :
        Store(p, Over(r), Delete(r, n, fails), n < 3 \/ fails # {})
  BY <1>1, Zenon
<1>2. PICK fails : Store(p, Over(r), Delete(r, n, fails), n < 3 \/ fails # {})
  BY <1>n, Zenon
<1>3. /\ n = 3 /\ fails = {} /\ db' = Delete(r, n, fails) /\ ~harmed /\ r.sure
      /\ r.at = "close" /\ r.call.op = "delete" /\ Fine(r) /\ Known(r, db)
      /\ db \in Db /\ Gapless(db.num)
  <2>1. /\ db' = Delete(r, n, fails) /\ ~harmed /\ r.sure
        /\ ~(n < 3 \/ fails # {})
    BY <1>2, StoreMakes
  <2>2. n = 3
    BY <2>1 DEF Reach
  <2>3. /\ r.at = "close" /\ r.call.op = "delete" /\ Fine(r) /\ Known(r, db)
        /\ db \in Db /\ Gapless(db.num)
    BY <2>1 DEF CloseDelete, IInv
  <2> QED
    BY <2>1, <2>2, <2>3
<1>4. /\ r.copy = db /\ c \in Nums /\ r.old \in Users /\ db.num[c] = r.old
  BY <1>3 DEF Known, Reached, Fine
<1>5. db' \in Db /\ Removed(db', db, c, r.old) /\ There(db.num[c])
  BY <1>3, <1>4, DeleteFacts, UserThere
<1>6. db.num \in [Nums -> Entry] /\ db'.num \in [Nums -> Entry]
  BY <1>3, <1>5 DEF Db
<1>7. /\ c < e /\ End(db'.num) = e - 1
      /\ \A j \in Nums : db'.num[j] = IF j < c THEN db.num[j]
                                      ELSE IF j < e - 1 THEN db.num[j + 1]
                                      ELSE Absent
  BY <1>3, <1>4, <1>5, <1>6, ShiftList DEF Removed
<1>8. /\ e \in 1 .. Last + 1 /\ old \in Seq(Users) /\ Len(old) = e - 1
      /\ DOMAIN old = 1 .. e - 1
      /\ \A i \in 1 .. e - 1 : old[i] = db.num[i]
  BY <1>6, ListIs
<1>9. /\ new \in Seq(Users) /\ Len(new) = (e - 1) - 1 /\ DOMAIN new = 1 .. (e - 1) - 1
      /\ \A i \in 1 .. (e - 1) - 1 : new[i] = db'.num[i]
  BY <1>6, <1>7, ListIs
<1>10. e \in Nat /\ c \in Nat /\ Last \in Nat /\ c >= 1
  BY <1>4, <1>8, SpwdAssumption DEF Nums
<1> HIDE DEF e, old, new, c
<1>11. \A i \in 1 .. (e - 1) - 1 : new[i] = IF i < c THEN old[i] ELSE old[i + 1]
  <2> SUFFICES ASSUME NEW i \in 1 .. (e - 1) - 1
               PROVE  new[i] = IF i < c THEN old[i] ELSE old[i + 1]
    OBVIOUS
  <2>1. i \in Nums /\ i < e - 1 /\ i \in 1 .. e - 1 /\ i + 1 \in 1 .. e - 1
    BY <1>8, <1>10 DEF Nums
  <2> QED
    BY <1>7, <1>8, <1>9, <2>1
<1> DEFINE a == SubSeq(old, 1, c - 1)
           b == SubSeq(old, c + 1, Len(old))
<1>12. /\ a \in Seq(Users) /\ Len(a) = c - 1 /\ \A i \in 1 .. c - 1 : a[i] = old[i]
  <2>1. \A i \in 1 .. c - 1 : old[i] \in Users
    BY <1>7, <1>8, <1>10
  <2>2. /\ SubSeq(old, 1, c - 1) \in Seq(Users)
        /\ Len(SubSeq(old, 1, c - 1)) = IF 1 <= c - 1 THEN (c - 1) - 1 + 1 ELSE 0
        /\ \A i \in 1 .. (c - 1) - 1 + 1 : SubSeq(old, 1, c - 1)[i] = old[1 + i - 1]
    BY <1>10, <2>1, SubSeqProperties
  <2> QED
    BY <1>10, <2>2
<1>13. /\ b \in Seq(Users) /\ Len(b) = (e - 1) - c
       /\ \A i \in 1 .. (e - 1) - c : b[i] = old[c + i]
  BY <1>7, <1>8, <1>10
<1> HIDE DEF a, b
<1>14. /\ a \o b \in Seq(Users) /\ Len(a \o b) = (e - 1) - 1
       /\ \A i \in 1 .. (e - 1) - 1 : (a \o b)[i] = IF i < c THEN old[i] ELSE old[i + 1]
  <2>1. a \o b \in Seq(Users) /\ Len(a \o b) = (e - 1) - 1
    BY SMTT(20), <1>10, <1>12, <1>13
  <2>2. ASSUME NEW i \in 1 .. (e - 1) - 1
        PROVE  (a \o b)[i] = IF i < c THEN old[i] ELSE old[i + 1]
    <3>1. CASE i < c
      <4>1. i \in 1 .. c - 1
        BY <1>10, <3>1
      <4> QED
        BY <1>10, <1>12, <1>13, <3>1, <4>1
    <3>2. CASE ~(i < c)
      <4>1. i - (c - 1) \in 1 .. (e - 1) - c /\ c + (i - (c - 1)) = i + 1
        BY <1>10, <3>2
      <4>2. (a \o b)[i] = b[i - (c - 1)]
        BY <1>10, <1>12, <1>13, <3>2
      <4> QED
        BY <1>13, <3>2, <4>1, <4>2
    <3> QED
      BY <3>1, <3>2
  <2> QED
    BY <2>1, <2>2
<1>15. new = a \o b
  BY <1>9, <1>11, <1>14, SeqEqual
<1>16. c \in DOMAIN old
  BY <1>7, <1>8, <1>10
<1> QED
  BY <1>15, <1>16 DEF L!Next, L!Take, L!RemoveAt, old, new, a, b

(* Each call changes the list of users at once and in one place.           *)
THEOREM Changes == Spec => ChangesList
<1>1. IInv /\ [Next]_vars => [harmed' \/ L!Next]_(Listed(db.num))
  <2> SUFFICES ASSUME IInv, [Next]_vars, ~harmed', db'.num # db.num
               PROVE  L!Next
    OBVIOUS
  <2>1. PICK p \in Procs : CloseWrite(p) \/ CloseDelete(p) \/ CloseName(p) \/ Crash(p)
    <3>1. db' # db
      OBVIOUS
    <3>2. \A q, me : ~Goes(q, me)
      BY <3>1 DEF Goes
    <3>3. PICK p \in Procs :
            \/ \E c \in Menu[p] : Call(p, c)
            \/ Get(p) \/ ByName(p) \/ ByUid(p)
            \/ ScanAll(p) \/ ScanAdd(p) \/ ScanUid(p) \/ Open(p)
            \/ CloseWrite(p) \/ CloseDelete(p) \/ CloseName(p)
            \/ Crash(p)
      BY <3>1, Zenon DEF Next, vars
    <3>4. \A c : ~Call(p, c)
      BY <3>2, Zenon DEF Call
    <3>5. ~Get(p) /\ ~ByName(p) /\ ~ByUid(p)
      BY <3>2, Zenon DEF Get, Ends, ByName, ByUid
    <3>6. ~ScanAll(p) /\ ~ScanAdd(p) /\ ~ScanUid(p) /\ ~Open(p)
      BY <3>2, Zenon DEF ScanAll, ScanAdd, ScanUid, Open
    <3> QED
      BY <3>3, <3>4, <3>5, <3>6, Zenon
  <2>2. ASSUME CloseName(p) PROVE FALSE
    <3> DEFINE r == proc[p]
    <3>1. r.at = "close_name" /\ Fine(r) /\ Known(r, db)
      BY <2>2 DEF CloseName, IInv
    <3>2. /\ r.sure
          /\ \/ db' = [r.copy EXCEPT !.name[r.old.name] = Absent]
             \/ db' = r.copy
      BY <2>2, Zenon DEF CloseName, Store
    <3>3. r.copy = db /\ db \in Db
      BY <3>1, <3>2 DEF Known, IInv
    <3> QED
      BY <3>2, <3>3 DEF Db
  <2>3. ASSUME Crash(p) PROVE FALSE
    <3> DEFINE r == proc[p]
    <3>1. /\ r.call.op \notin {"add", "update", "delete"}
          /\ Fine(r) /\ db \in Db
      BY <2>3, Zenon DEF Crash, Store, IInv
    <3>2. r.at \notin {"close", "close_name"}
      BY <3>1 DEF Fine, Place
    <3>3. db' = [x \in DOMAIN db |-> db[x]]
      <4>1. r.at # "close_name" /\ r.at # "close"
        BY <3>2
      <4> QED
        BY <2>3, <4>1, Zenon DEF Crash, Store
    <3>4. db' = db
      BY <3>1, <3>3 DEF Db
    <3> QED
      BY <3>4
  <2> QED
    BY <2>1, <2>2, <2>3, WriteChanges, DeleteChanges
<1>2. IInv /\ [Next]_vars => [harmed' \/ L!Next]_(Listed(db.num))
  BY <1>1
<1> QED
  BY <1>2, Invariance, PTL DEF Spec, ChangesList
=============================================================================
