-------------------------- MODULE JailProcs_proofs --------------------------
(***************************************************************************)
(* For any jails, processes, scripts and limits: the count of a jail is    *)
(* that of its entries in the hash, no end of a process is missed, who     *)
(* waits for processes that were told to end has a limit, and the sleep    *)
(* queue goes by the limits until term_procs() gives one to a jail that is *)
(* already in it.                                                          *)
(***************************************************************************)
EXTENDS JailProcs, FiniteSetTheorems, WellFoundedInduction, SequenceTheorems, TLAPS

(* A queue that holds each jail at most once.                              *)
Queue == {q \in Seq(Jails) : \A i, k \in DOMAIN q : q[i] = q[k] => i = k}

(* An entry of a sequence that is taken out.                               *)
LEMMA RemoveAtProperties ==
  ASSUME NEW S, NEW s \in Seq(S), NEW i \in DOMAIN s
  PROVE  /\ RemoveAt(s, i) \in Seq(S)
         /\ Len(RemoveAt(s, i)) = Len(s) - 1
         /\ \A k \in 1 .. Len(s) - 1 :
              RemoveAt(s, i)[k] = IF k < i THEN s[k] ELSE s[k + 1]
<1> DEFINE front == SubSeq(s, 1, i - 1)
           back  == SubSeq(s, i + 1, Len(s))
<1>1. i \in 1 .. Len(s) /\ Len(s) \in Nat
  OBVIOUS
<1>2. /\ front \in Seq(S) /\ Len(front) = i - 1
      /\ \A k \in 1 .. i - 1 : front[k] = s[k]
  BY <1>1, SubSeqProperties, SMTT(30)
<1>3. /\ back \in Seq(S) /\ Len(back) = Len(s) - i
      /\ \A k \in 1 .. Len(s) - i : back[k] = s[i + k]
  BY <1>1, SubSeqProperties, SMTT(30)
<1> HIDE DEF front, back
<1>4. /\ front \o back \in Seq(S)
      /\ Len(front \o back) = Len(s) - 1
      /\ \A k \in 1 .. Len(s) - 1 :
           (front \o back)[k] = IF k <= i - 1 THEN front[k] ELSE back[k - (i - 1)]
  <2>1. /\ front \o back \in Seq(S)
        /\ Len(front \o back) = Len(front) + Len(back)
        /\ \A k \in 1 .. Len(front) + Len(back) :
             (front \o back)[k] = IF k <= Len(front) THEN front[k] ELSE back[k - Len(front)]
    BY <1>2, <1>3, ConcatProperties, Zenon
  <2>2. Len(front) + Len(back) = Len(s) - 1
    BY <1>1, <1>2, <1>3
  <2> QED
    BY <1>2, <2>1, <2>2, Zenon
<1>5. \A k \in 1 .. Len(s) - 1 :
        (front \o back)[k] = IF k < i THEN s[k] ELSE s[k + 1]
  <2> SUFFICES ASSUME NEW k \in 1 .. Len(s) - 1
               PROVE  (front \o back)[k] = IF k < i THEN s[k] ELSE s[k + 1]
    OBVIOUS
  <2>1. CASE k < i
    BY <2>1, <1>1, <1>2, <1>4
  <2>2. CASE ~(k < i)
    <3>1. k - (i - 1) \in 1 .. Len(s) - i /\ i + (k - (i - 1)) = k + 1 /\ ~(k <= i - 1)
      BY <2>2, <1>1
    <3> QED
      BY <3>1, <2>2, <1>3, <1>4
  <2> QED
    BY <2>1, <2>2
<1> QED
  BY <1>4, <1>5 DEF RemoveAt, front, back

(* r is s with e in front of what was number i.                            *)
Inserted(r, s, i, e) ==
  /\ r \in Seq(Jails) /\ Len(r) = Len(s) + 1
  /\ \A k \in 1 .. Len(s) + 1 :
       r[k] = IF k < i THEN s[k] ELSE IF k = i THEN e ELSE s[k - 1]

(* One that is put in front of another.                                    *)
LEMMA InsertAtProperties ==
  ASSUME NEW s \in Seq(Jails), NEW i \in DOMAIN s, NEW e \in Jails
  PROVE  Inserted(InsertAt(s, i, e), s, i, e)
<1> DEFINE front == SubSeq(s, 1, i - 1)
           back  == SubSeq(s, i, Len(s))
           start == front \o <<e>>
<1>1. i \in 1 .. Len(s) /\ Len(s) \in Nat
  OBVIOUS
<1>2. /\ front \in Seq(Jails) /\ Len(front) = i - 1
      /\ \A k \in 1 .. i - 1 : front[k] = s[k]
  BY <1>1, SubSeqProperties, SMTT(30)
<1>3. /\ back \in Seq(Jails) /\ Len(back) = Len(s) - i + 1
      /\ \A k \in 1 .. Len(s) - i + 1 : back[k] = s[i + k - 1]
  BY <1>1, SubSeqProperties, SMTT(30)
<1>4. <<e>> \in Seq(Jails) /\ Len(<<e>>) = 1 /\ <<e>>[1] = e
  OBVIOUS
<1> HIDE DEF front, back
<1>5. /\ start \in Seq(Jails) /\ Len(start) = i
      /\ \A k \in 1 .. i : start[k] = IF k <= i - 1 THEN front[k] ELSE <<e>>[k - (i - 1)]
  BY <1>1, <1>2, <1>4, ConcatProperties
<1>6. \A k \in 1 .. i : start[k] = IF k < i THEN s[k] ELSE e
  BY <1>1, <1>2, <1>4, <1>5
<1> HIDE DEF start
<1>7. /\ start \o back \in Seq(Jails)
      /\ Len(start \o back) = Len(s) + 1
      /\ \A k \in 1 .. Len(s) + 1 :
           (start \o back)[k] = IF k <= i THEN start[k] ELSE back[k - i]
  <2>1. /\ start \o back \in Seq(Jails)
        /\ Len(start \o back) = Len(start) + Len(back)
        /\ \A k \in 1 .. Len(start) + Len(back) :
             (start \o back)[k] = IF k <= Len(start) THEN start[k] ELSE back[k - Len(start)]
    BY <1>3, <1>5, ConcatProperties, Zenon
  <2>2. Len(start) + Len(back) = Len(s) + 1
    BY <1>1, <1>3, <1>5
  <2> QED
    BY <1>5, <2>1, <2>2, Zenon
<1>8. \A k \in 1 .. Len(s) + 1 :
        (start \o back)[k] = IF k < i THEN s[k] ELSE IF k = i THEN e ELSE s[k - 1]
  <2> SUFFICES ASSUME NEW k \in 1 .. Len(s) + 1
               PROVE  (start \o back)[k] = IF k < i THEN s[k] ELSE IF k = i THEN e ELSE s[k - 1]
    OBVIOUS
  <2>1. CASE k <= i
    BY <2>1, <1>1, <1>6, <1>7
  <2>2. CASE ~(k <= i)
    <3>1. k - i \in 1 .. Len(s) - i + 1 /\ i + (k - i) - 1 = k - 1 /\ ~(k < i) /\ k # i
      BY <2>2, <1>1
    <3>2. (start \o back)[k] = back[k - i]
      BY <2>2, <1>7, Zenon
    <3>3. back[k - i] = s[k - 1]
      BY <3>1, <1>3, Zenon
    <3> QED
      BY <3>1, <3>2, <3>3
  <2> QED
    BY <2>1, <2>2
<1>9. InsertAt(s, i, e) = start \o back
  BY DEF InsertAt, front, back, start
<1> QED
  BY <1>7, <1>8, <1>9, Zenon DEF Inserted

(* Without a jail, the queue holds the others and stays a queue.           *)
LEMMA WithoutProperties ==
  ASSUME NEW q \in Queue, NEW j \in Jails
  PROVE  /\ Without(q, j) \in Queue
         /\ \A n \in Jails : Contains(Without(q, j), n) <=> Contains(q, n) /\ n # j
<1>1. CASE ~Contains(q, j)
  BY <1>1 DEF Without, Contains
<1>2. CASE Contains(q, j)
  <2> DEFINE i == CHOOSE i \in DOMAIN q : q[i] = j
             r == RemoveAt(q, i)
  <2>0. q \in Seq(Jails) /\ DOMAIN q = 1 .. Len(q) /\ Len(q) \in Nat
    BY DEF Queue
  <2>1. i \in DOMAIN q /\ q[i] = j
    BY <1>2, <2>0 DEF Contains
  <2> HIDE DEF i
  <2>2. /\ r \in Seq(Jails) /\ Len(r) = Len(q) - 1
        /\ \A k \in 1 .. Len(q) - 1 : r[k] = IF k < i THEN q[k] ELSE q[k + 1]
    BY <2>0, <2>1, RemoveAtProperties
  <2> HIDE DEF r
  <2>3. DOMAIN r = 1 .. Len(q) - 1
    BY <2>0, <2>1, <2>2
  <2>9. \A k, m \in 1 .. Len(q) : q[k] = q[m] => k = m
    BY <2>0 DEF Queue
  <2>4. \A k, m \in 1 .. Len(q) - 1 : r[k] = r[m] => k = m
    <3> DEFINE old(k) == IF k < i THEN k ELSE k + 1
    <3>1. \A k \in 1 .. Len(q) - 1 : old(k) \in 1 .. Len(q) /\ r[k] = q[old(k)]
      BY <2>0, <2>1, <2>2
    <3>2. \A k, m \in 1 .. Len(q) - 1 : old(k) = old(m) => k = m
      BY <2>0, <2>1
    <3> QED
      BY <3>1, <3>2, <2>9, Zenon
  <2>5. \A k \in 1 .. Len(q) - 1 : r[k] # j /\ \E m \in 1 .. Len(q) : q[m] = r[k]
    BY <2>0, <2>1, <2>2 DEF Queue
  <2>6. \A m \in 1 .. Len(q) : q[m] # j => \E k \in 1 .. Len(q) - 1 : r[k] = q[m]
    <3> SUFFICES ASSUME NEW m \in 1 .. Len(q), q[m] # j
                 PROVE  \E k \in 1 .. Len(q) - 1 : r[k] = q[m]
      OBVIOUS
    <3>1. CASE m < i
      BY <3>1, <2>0, <2>1, <2>2
    <3>2. CASE m > i
      <4>1. m - 1 \in 1 .. Len(q) - 1 /\ ~(m - 1 < i) /\ (m - 1) + 1 = m
        BY <3>2, <2>0, <2>1
      <4> QED
        BY <4>1, <2>2
    <3> QED
      BY <3>1, <3>2, <2>0, <2>1
  <2>7. Without(q, j) = r
    BY <1>2 DEF Without, r, i
  <2>8. r \in Queue
    BY <2>2, <2>3, <2>4 DEF Queue
  <2>10. \A n \in Jails : Contains(r, n) <=> Contains(q, n) /\ n # j
    BY <2>2, <2>5, <2>6, Zenon DEF Contains
  <2> QED
    BY <2>7, <2>8, <2>10
<1> QED
  BY <1>1, <1>2

(* A set of numbers has a least one.                                       *)
LEMMA Least ==
  ASSUME NEW T \in SUBSET Nat, T # {}
  PROVE  \E x \in T : \A y \in T : x <= y
<1>1. PICK x \in T : \A y \in T : <<y, x>> \notin OpToRel(<, Nat)
  BY NatLessThanWellFounded, WFMin, Zenon
<1>2. \A y \in T : ~(y < x)
  BY <1>1 DEF OpToRel
<1> QED
  BY <1>2

(* A jail is filed behind those that do not come after it, and in front of *)
(* the first that does.                                                    *)
LEMMA FilePlace ==
  ASSUME NEW q \in Queue, NEW j \in Jails, NEW time
  PROVE  \E i \in 1 .. Len(Without(q, j)) + 1 :
           /\ Inserted(File(q, j, time), Without(q, j), i, j)
           /\ \A k \in 1 .. i - 1 : ~Before(time[j], time[Without(q, j)[k]])
           /\ i <= Len(Without(q, j)) => Before(time[j], time[Without(q, j)[i]])
<1> DEFINE rest == Without(q, j)
           later == {i \in DOMAIN rest : Before(time[j], time[rest[i]])}
           place == CHOOSE i \in later : \A k \in later : i <= k
<1>1. rest \in Queue
  BY WithoutProperties
<1> HIDE DEF rest
<1>2. rest \in Seq(Jails) /\ DOMAIN rest = 1 .. Len(rest) /\ Len(rest) \in Nat
  BY <1>1 DEF Queue
<1>3. CASE later = {}
  <2> DEFINE r == Append(rest, j)
  <2>1. /\ r \in Seq(Jails) /\ Len(r) = Len(rest) + 1 /\ r[Len(rest) + 1] = j
        /\ \A i \in 1 .. Len(rest) : r[i] = rest[i]
    BY <1>2, AppendProperties
  <2> HIDE DEF r
  <2>2. Inserted(r, rest, Len(rest) + 1, j)
    BY <1>2, <2>1 DEF Inserted
  <2>3. File(q, j, time) = r
    BY <1>3 DEF File, rest, r
  <2>4. \A k \in 1 .. Len(rest) : ~Before(time[j], time[rest[k]])
    BY <1>2, <1>3
  <2> QED
    BY <1>2, <2>2, <2>3, <2>4 DEF rest
<1>4. CASE later # {}
  <2>1. later \in SUBSET Nat
    BY <1>2
  <2>2. \E i \in later : \A k \in later : i <= k
    BY <1>4, <2>1, Least
  <2>3. place \in later /\ \A k \in later : place <= k
    BY <2>2
  <2>4. place \in DOMAIN rest /\ Before(time[j], time[rest[place]])
    BY <2>3
  <2>5. \A k \in 1 .. place - 1 : ~Before(time[j], time[rest[k]])
    <3> SUFFICES ASSUME NEW k \in 1 .. place - 1, Before(time[j], time[rest[k]]) PROVE FALSE
      OBVIOUS
    <3>1. place \in 1 .. Len(rest)
      BY <1>2, <2>4
    <3>2. k \in 1 .. Len(rest) /\ ~(place <= k)
      BY <3>1, <1>2
    <3>3. k \in later
      BY <3>2, <1>2
    <3> QED
      BY <3>2, <3>3, <2>3
  <2>6. File(q, j, time) = InsertAt(rest, place, j)
    BY <1>4 DEF File, rest
  <2> HIDE DEF later, place
  <2>7. Inserted(InsertAt(rest, place, j), rest, place, j)
    BY <1>2, <2>4, InsertAtProperties, Zenon
  <2>8. place \in 1 .. Len(rest) + 1 /\ place <= Len(rest)
    BY <1>2, <2>4
  <2> QED
    BY <2>4, <2>5, <2>6, <2>7, <2>8 DEF rest
<1> QED
  BY <1>3, <1>4

(* A jail that is filed is in the queue once, with those that were there.  *)
LEMMA FileProperties ==
  ASSUME NEW q \in Queue, NEW j \in Jails, NEW time
  PROVE  /\ File(q, j, time) \in Queue
         /\ \A n \in Jails : Contains(File(q, j, time), n) <=> Contains(q, n) \/ n = j
<1> DEFINE rest == Without(q, j)
           r == File(q, j, time)
<1>1. /\ rest \in Queue
      /\ \A n \in Jails : Contains(rest, n) <=> Contains(q, n) /\ n # j
  BY WithoutProperties
<1>2. PICK place \in 1 .. Len(rest) + 1 : Inserted(r, rest, place, j)
  BY FilePlace
<1> HIDE DEF rest, r
<1>3. /\ rest \in Seq(Jails) /\ DOMAIN rest = 1 .. Len(rest) /\ Len(rest) \in Nat
      /\ \A i \in DOMAIN rest : rest[i] \in Jails /\ rest[i] # j
      /\ \A i, k \in DOMAIN rest : rest[i] = rest[k] => i = k
  BY <1>1 DEF Queue, Contains
<1>4. /\ r \in Seq(Jails) /\ Len(r) = Len(rest) + 1
      /\ \A k \in 1 .. Len(rest) + 1 :
           r[k] = IF k < place THEN rest[k] ELSE IF k = place THEN j ELSE rest[k - 1]
  BY <1>2, Zenon DEF Inserted
<1>5. DOMAIN r = 1 .. Len(rest) + 1
  BY <1>3, <1>4
<1> DEFINE old(k) == IF k < place THEN k ELSE k - 1
<1>6. \A k \in 1 .. Len(rest) + 1 : k # place => old(k) \in 1 .. Len(rest) /\ r[k] = rest[old(k)]
  BY <1>3, <1>4
<1>7. \A k, m \in 1 .. Len(rest) + 1 : k # place /\ m # place /\ old(k) = old(m) => k = m
  BY <1>3
<1> HIDE DEF old
<1>8. r[place] = j /\ \A k \in 1 .. Len(rest) + 1 : r[k] = j <=> k = place
  BY <1>3, <1>4, <1>6
<1>9. \A k, m \in 1 .. Len(rest) + 1 : r[k] = r[m] => k = m
  BY <1>3, <1>6, <1>7, <1>8
<1>10. \A m \in 1 .. Len(rest) : \E k \in 1 .. Len(rest) + 1 : r[k] = rest[m]
  <2> SUFFICES ASSUME NEW m \in 1 .. Len(rest)
               PROVE  \E k \in 1 .. Len(rest) + 1 : r[k] = rest[m]
    OBVIOUS
  <2>1. CASE m < place
    BY <2>1, <1>3, <1>4
  <2>2. CASE ~(m < place)
    <3>1. m + 1 \in 1 .. Len(rest) + 1 /\ ~(m + 1 < place) /\ m + 1 # place /\ (m + 1) - 1 = m
      BY <2>2, <1>3
    <3> QED
      BY <3>1, <1>4
  <2> QED
    BY <2>1, <2>2
<1>11. r \in Queue
  BY <1>4, <1>5, <1>9 DEF Queue
<1>12. \A k \in 1 .. Len(rest) + 1 : r[k] = j \/ \E m \in 1 .. Len(rest) : rest[m] = r[k]
  BY <1>6, <1>8
<1>13. \A n \in Jails : Contains(r, n) <=> Contains(rest, n) \/ n = j
  BY <1>4, <1>8, <1>10, <1>12, Zenon DEF Contains
<1> QED
  BY <1>1, <1>11, <1>13 DEF r

-----------------------------------------------------------------------------
(* The limits of jails.                                                    *)
Times == [Jails -> Nat \cup {None}]

(* Who does not come before another has no limit, or the later one.        *)
LEMMA NotBefore ==
  ASSUME NEW s \in Nat \cup {None}, NEW t \in Nat \cup {None}, ~Before(s, t)
  PROVE  s = None \/ Before(t, s)
  BY ProcsAssumption DEF Before

(* To come before is transitive.                                           *)
LEMMA BeforeAll ==
  ASSUME NEW s \in Nat \cup {None}, NEW t \in Nat \cup {None}, NEW u \in Nat \cup {None},
         Before(s, t), u = None \/ Before(t, u)
  PROVE  Before(s, u)
  BY ProcsAssumption DEF Before

(* A queue in order stays so when a jail leaves it.                        *)
LEMMA WithoutInOrder ==
  ASSUME NEW q \in Queue, NEW j \in Jails, NEW time, InOrder(q, time)
  PROVE  InOrder(Without(q, j), time)
<1>1. CASE ~Contains(q, j)
  BY <1>1 DEF Without
<1>2. CASE Contains(q, j)
  <2> DEFINE i == CHOOSE i \in DOMAIN q : q[i] = j
             r == RemoveAt(q, i)
             old(k) == IF k < i THEN k ELSE k + 1
  <2>1. q \in Seq(Jails) /\ DOMAIN q = 1 .. Len(q) /\ Len(q) \in Nat
    BY DEF Queue
  <2>2. i \in DOMAIN q
    BY <1>2, <2>1 DEF Contains
  <2> HIDE DEF i
  <2>3. /\ r \in Seq(Jails) /\ Len(r) = Len(q) - 1
        /\ \A k \in 1 .. Len(q) - 1 : r[k] = IF k < i THEN q[k] ELSE q[k + 1]
    BY <2>1, <2>2, RemoveAtProperties
  <2>4. Without(q, j) = r
    BY <1>2 DEF Without, i
  <2> HIDE DEF r
  <2>5. DOMAIN r = 1 .. Len(q) - 1
    BY <2>1, <2>2, <2>3
  <2>6. \A k \in 1 .. Len(q) - 1 : old(k) \in 1 .. Len(q) /\ r[k] = q[old(k)]
    BY <2>1, <2>2, <2>3
  <2>7. \A k, m \in 1 .. Len(q) - 1 : k < m => old(k) < old(m)
    BY <2>1, <2>2
  <2> HIDE DEF old
  <2>8. InOrder(r, time)
    <3> SUFFICES ASSUME NEW k \in 1 .. Len(q) - 1, NEW m \in 1 .. Len(q) - 1, k < m
                 PROVE  time[r[m]] = None \/ Before(time[r[k]], time[r[m]])
      BY <2>5 DEF InOrder
    <3>1. old(k) \in DOMAIN q /\ old(m) \in DOMAIN q /\ old(k) < old(m)
      BY <2>1, <2>6, <2>7
    <3>2. time[q[old(m)]] = None \/ Before(time[q[old(k)]], time[q[old(m)]])
      BY <3>1, Zenon DEF InOrder
    <3> QED
      BY <2>6, <3>2, Zenon
  <2> QED
    BY <2>4, <2>8
<1> QED
  BY <1>1, <1>2

(* And when one is filed by its limit.                                     *)
LEMMA FileInOrder ==
  ASSUME NEW q \in Queue, NEW j \in Jails, NEW time \in Times, InOrder(q, time)
  PROVE  InOrder(File(q, j, time), time)
<1> DEFINE rest == Without(q, j)
           r == File(q, j, time)
<1>1. rest \in Queue /\ InOrder(rest, time)
  BY WithoutProperties, WithoutInOrder
<1>2. PICK place \in 1 .. Len(rest) + 1 :
        /\ Inserted(r, rest, place, j)
        /\ \A k \in 1 .. place - 1 : ~Before(time[j], time[rest[k]])
        /\ place <= Len(rest) => Before(time[j], time[rest[place]])
  BY FilePlace
<1> HIDE DEF rest, r
<1>3. /\ rest \in Seq(Jails) /\ DOMAIN rest = 1 .. Len(rest) /\ Len(rest) \in Nat
      /\ \A i \in 1 .. Len(rest) : time[rest[i]] \in Nat \cup {None}
      /\ time[j] \in Nat \cup {None}
  BY <1>1 DEF Queue, Times
<1>4. /\ r \in Seq(Jails) /\ Len(r) = Len(rest) + 1
      /\ \A k \in 1 .. Len(rest) + 1 :
           r[k] = IF k < place THEN rest[k] ELSE IF k = place THEN j ELSE rest[k - 1]
  BY <1>2, Zenon DEF Inserted
<1>5. DOMAIN r = 1 .. Len(rest) + 1
  BY <1>3, <1>4
<1> DEFINE old(k) == IF k < place THEN k ELSE k - 1
<1>6. \A k \in 1 .. Len(rest) + 1 : k # place => old(k) \in 1 .. Len(rest) /\ r[k] = rest[old(k)]
  BY <1>3, <1>4
<1>7. \A k, m \in 1 .. Len(rest) + 1 : k # place /\ m # place /\ k < m => old(k) < old(m)
  BY <1>3
<1>8. \A k \in 1 .. Len(rest) + 1 : /\ k < place => old(k) \in 1 .. place - 1
                                    /\ k > place => place <= old(k) /\ place <= Len(rest)
  BY <1>3
<1> HIDE DEF old
<1>9. r[place] = j
  BY <1>3, <1>4
<1> SUFFICES ASSUME NEW i \in 1 .. Len(rest) + 1, NEW k \in 1 .. Len(rest) + 1, i < k
             PROVE  time[r[k]] = None \/ Before(time[r[i]], time[r[k]])
  BY <1>5 DEF InOrder, r
<1>10. CASE i # place /\ k # place
  <2>1. old(i) \in DOMAIN rest /\ old(k) \in DOMAIN rest /\ old(i) < old(k)
    BY <1>3, <1>6, <1>7, <1>10
  <2>2. time[rest[old(k)]] = None \/ Before(time[rest[old(i)]], time[rest[old(k)]])
    BY <1>1, <2>1, Zenon DEF InOrder
  <2> QED
    BY <1>6, <1>10, <2>2, Zenon
<1>11. CASE k = place
  <2>1. i < place /\ i # place
    BY <1>11
  <2>2. r[i] = rest[old(i)] /\ old(i) \in 1 .. place - 1 /\ old(i) \in 1 .. Len(rest)
    BY <2>1, <1>6, <1>8
  <2>3. ~Before(time[j], time[rest[old(i)]])
    BY <1>2, <2>2
  <2>4. time[j] = None \/ Before(time[rest[old(i)]], time[j])
    BY <1>3, <2>2, <2>3, NotBefore
  <2> QED
    BY <1>9, <1>11, <2>2, <2>4
<1>12. CASE i = place
  <2>1. k > place /\ k # place
    BY <1>12
  <2>2. /\ r[k] = rest[old(k)] /\ old(k) \in 1 .. Len(rest)
        /\ place <= old(k) /\ place <= Len(rest) /\ place \in 1 .. Len(rest)
    BY <2>1, <1>3, <1>6, <1>8
  <2>3. Before(time[j], time[rest[place]])
    BY <1>2, <2>2
  <2>4. \/ old(k) = place
        \/ time[rest[old(k)]] = None \/ Before(time[rest[place]], time[rest[old(k)]])
    <3>1. old(k) = place \/ place < old(k)
      BY <2>2
    <3> QED
      BY <1>1, <1>3, <2>2, <3>1, Zenon DEF InOrder
  <2>5. Before(time[j], time[rest[old(k)]])
    <3>1. CASE old(k) = place
      BY <3>1, <2>3
    <3>2. CASE old(k) # place
      <4>1. time[rest[place]] \in Nat \cup {None} /\ time[rest[old(k)]] \in Nat \cup {None}
        BY <1>3, <2>2
      <4> QED
        BY <4>1, <1>3, <2>3, <2>4, <3>2, BeforeAll
    <3> QED
      BY <3>1, <3>2
  <2> QED
    BY <1>9, <1>12, <2>2, <2>5
<1> QED
  BY <1>10, <1>11, <1>12

-----------------------------------------------------------------------------
Types ==
  /\ pc \in Jails \cup {"main"} /\ ki \subseteq Pids
  /\ pos \in [Jails -> Nat]
  /\ sleeping \in Queue
  /\ left \in [Jails -> Nat \cup {None}]
  /\ hash \in [Pids -> Jails \cup {None}]
  /\ nprocs \in [Jails -> Nat]
  /\ owner \in [Pids -> Jails \cup {None, Other}]
  /\ watched \subseteq Pids /\ exited \subseteq Pids

(* A process that one jail waits for runs for no other jail.               *)
Owners == \A p \in Pids : hash[p] # None => owner[p] \in {hash[p], None, Other}

(* The processes that are still to be told to end are not waited for, and  *)
(* run for no other jail than theirs.                                      *)
Table == pc # "main" => \A p \in ki : hash[p] = None /\ owner[p] \in {pc, None, Other}

IInv == Types /\ Counted /\ EndsAreTold /\ Owners /\ Table /\ TermBounded

Waited(j) == {p \in Pids : hash[p] = j}

(* Nobody is waited for, and nobody sleeps.                                *)
LEMMA InitInv == Init => IInv
<1> SUFFICES ASSUME Init PROVE IInv
  OBVIOUS
<1>1. sleeping \in Queue /\ \A j \in Jails : ~Sleeps(j)
  BY EmptySeq DEF Init, Queue, Sleeps, Contains
<1>2. owner \in [Pids -> Jails \cup {None, Other}]
  <2> SUFFICES ASSUME NEW p \in Pids, p \in UNION {Inside[j] : j \in Jails}
               PROVE  (CHOOSE j \in Jails : p \in Inside[j]) \in Jails
    BY DEF Init
  <2> QED
    OBVIOUS
<1>3. Types
  BY <1>1, <1>2 DEF Init, Types
<1>4. \A p \in Pids : hash[p] = None
  BY DEF Init
<1>5. Counted
  <2>1. \A j \in Jails : {p \in Pids : hash[p] = j} = {}
    BY <1>4, ProcsAssumption
  <2> QED
    BY <2>1, FS_EmptySet DEF Counted, Init
<1>6. EndsAreTold
  BY <1>1, <1>4, ProcsAssumption DEF EndsAreTold
<1>7. Owners /\ Table /\ TermBounded
  BY <1>1, <1>4 DEF Init, Owners, Table, TermBounded
<1> QED
  BY <1>3, <1>5, <1>6, <1>7 DEF IInv

(* A jail waits for nobody exactly when its count is 0.                    *)
LEMMA CountZero ==
  ASSUME IInv, NEW j \in Jails
  PROVE  nprocs[j] = 0 <=> ~Sleeps(j)
<1>1. IsFiniteSet({p \in Pids : hash[p] = j})
  BY ProcsAssumption, FS_Subset
<1>2. nprocs[j] = 0 <=> {p \in Pids : hash[p] = j} = {}
  BY <1>1, FS_EmptySet DEF IInv, Counted
<1> QED
  BY <1>2 DEF IInv, EndsAreTold

(* A process that comes into the hash.                                     *)
LEMMA CountAdd ==
  ASSUME IInv, NEW j \in Jails, NEW p \in Pids, hash[p] = None,
         hash' = [hash EXCEPT ![p] = j],
         nprocs' = [nprocs EXCEPT ![j] = @ + 1]
  PROVE  Counted' /\ nprocs' \in [Jails -> Nat]
<1> DEFINE S(k) == {q \in Pids : hash[q] = k}
<1>1. /\ hash \in [Pids -> Jails \cup {None}] /\ nprocs \in [Jails -> Nat]
      /\ \A k \in Jails : nprocs[k] = Cardinality(S(k))
  BY DEF IInv, Types, Counted
<1>2. \A k \in Jails : {q \in Pids : hash'[q] = k} = IF k = j THEN S(k) \cup {p} ELSE S(k)
  BY <1>1, ProcsAssumption
<1>3. Cardinality(S(j) \cup {p}) = Cardinality(S(j)) + 1
  <2>1. IsFiniteSet(S(j)) /\ p \notin S(j)
    BY ProcsAssumption, FS_Subset
  <2> HIDE DEF S
  <2> QED
    BY <2>1, FS_AddElement
<1> HIDE DEF S
<1>4. \A k \in Jails : nprocs'[k] = Cardinality({q \in Pids : hash'[q] = k})
  BY <1>1, <1>2, <1>3
<1> QED
  BY <1>1, <1>4 DEF Counted

(* One that leaves it: the jail still waits unless it was the last.        *)
LEMMA CountRemove ==
  ASSUME IInv, NEW p \in Pids, hash[p] # None,
         hash' = [hash EXCEPT ![p] = None],
         nprocs' = [nprocs EXCEPT ![hash[p]] = @ - 1]
  PROVE  /\ Counted' /\ nprocs' \in [Jails -> Nat]
         /\ nprocs[hash[p]] = 1 <=> \A q \in Pids : hash'[q] # hash[p]
<1> DEFINE j == hash[p]
           S(k) == {q \in Pids : hash[q] = k}
<1>1. /\ hash \in [Pids -> Jails \cup {None}] /\ nprocs \in [Jails -> Nat]
      /\ \A k \in Jails : nprocs[k] = Cardinality(S(k))
      /\ j \in Jails
  BY DEF IInv, Types, Counted
<1>2. \A k \in Jails : {q \in Pids : hash'[q] = k} = IF k = j THEN S(k) \ {p} ELSE S(k)
  BY <1>1, ProcsAssumption
<1>3. /\ Cardinality(S(j) \ {p}) = Cardinality(S(j)) - 1
      /\ Cardinality(S(j) \ {p}) \in Nat
      /\ Cardinality(S(j) \ {p}) = 0 <=> S(j) \ {p} = {}
  <2>1. IsFiniteSet(S(j)) /\ p \in S(j)
    BY ProcsAssumption, FS_Subset
  <2> HIDE DEF S
  <2>2. IsFiniteSet(S(j) \ {p}) /\ Cardinality(S(j) \ {p}) = Cardinality(S(j)) - 1
    BY <2>1, FS_RemoveElement
  <2> QED
    BY <2>2, FS_EmptySet, FS_CardinalityType
<1>4. \A q \in Pids : hash'[q] = j <=> q \in S(j) \ {p}
  BY <1>1, ProcsAssumption
<1>5. nprocs[j] = 1 <=> \A q \in Pids : hash'[q] # j
  <2>1. nprocs[j] = 1 <=> S(j) \ {p} = {}
    BY <1>1, <1>3
  <2> QED
    BY <1>4, <2>1
<1> HIDE DEF S
<1>6. \A k \in Jails : nprocs'[k] = Cardinality({q \in Pids : hash'[q] = k})
  BY <1>1, <1>2, <1>3
<1>7. nprocs' \in [Jails -> Nat]
  BY <1>1, <1>3
<1> QED
  BY <1>5, <1>6, <1>7 DEF Counted

(* Whoever is in the hash is watched, and its end is told.                 *)
Watched == \A p \in Pids : hash[p] # None => p \in watched /\ (Alive(p) \/ p \in exited)
SleepersWait == \A j \in Jails : Sleeps(j) <=> \E p \in Pids : hash[p] = j

(* What add_proc() does to the queue, the count and the hash.              *)
LEMMA Adding ==
  ASSUME IInv, NEW j \in Jails, NEW p \in Pids, hash[p] = None, NEW time,
         AddProc(j, p, time)
  PROVE  /\ sleeping' \in Queue
         /\ \A n \in Jails : Sleeps(n)' <=> Sleeps(n) \/ n = j
         /\ hash' \in [Pids -> Jails \cup {None}]
         /\ \A q \in Pids : hash'[q] = IF q = p THEN j ELSE hash[q]
         /\ nprocs' \in [Jails -> Nat]
         /\ watched' \subseteq Pids /\ watched' = watched \cup {p}
         /\ Counted' /\ SleepersWait'
<1>1. /\ hash \in [Pids -> Jails \cup {None}] /\ sleeping \in Queue /\ watched \subseteq Pids
      /\ SleepersWait
  BY DEF IInv, Types, EndsAreTold, SleepersWait
<1>2. Counted' /\ nprocs' \in [Jails -> Nat]
  BY CountAdd DEF AddProc
<1>3. /\ sleeping' \in Queue
      /\ \A n \in Jails : Sleeps(n)' <=> Sleeps(n) \/ n = j
  BY <1>1, FileProperties DEF AddProc, Sleeps
<1>4. /\ hash' \in [Pids -> Jails \cup {None}]
      /\ \A q \in Pids : hash'[q] = IF q = p THEN j ELSE hash[q]
  BY <1>1 DEF AddProc
<1>5. SleepersWait'
  BY <1>1, <1>3, <1>4, ProcsAssumption DEF SleepersWait
<1> QED
  BY <1>1, <1>2, <1>3, <1>4, <1>5 DEF AddProc

(* The jail goes on with its script, and sleeps no more.                   *)
LEMMA Finishing ==
  ASSUME IInv, NEW j \in Jails, Finished(j)
  PROVE  /\ sleeping' \in Queue
         /\ \A n \in Jails : Sleeps(n)' <=> Sleeps(n) /\ n # j
         /\ pos' \in [Jails -> Nat]
         /\ \A n \in Jails \ {j} : pos'[n] = pos[n]
<1>1. sleeping \in Queue /\ pos \in [Jails -> Nat]
  BY DEF IInv, Types
<1> QED
  BY <1>1, WithoutProperties DEF Finished, Sleeps

(* The first jail of the sleep queue gives up its processes.               *)
LEMMA TimeUpInv == IInv /\ TimeUp => IInv'
<1> SUFFICES ASSUME IInv, TimeUp PROVE IInv'
  OBVIOUS
<1> DEFINE j == Head(sleeping)
<1>1. /\ Types /\ Watched /\ SleepersWait /\ Counted /\ Owners /\ Table /\ TermBounded
  BY DEF IInv, EndsAreTold, Watched, SleepersWait
<1>2. j \in Jails
  BY <1>1 DEF Types, Queue, TimeUp, FirstTimeUp
<1> HIDE DEF j
<1>3. ClearProcs(j) /\ Finished(j) /\ UNCHANGED <<pc, ki, left, owner, misfiled>> /\ pc = "main"
  BY DEF TimeUp, j
<1>4. /\ sleeping' \in Queue
      /\ \A n \in Jails : Sleeps(n)' <=> Sleeps(n) /\ n # j
      /\ pos' \in [Jails -> Nat]
      /\ \A n \in Jails \ {j} : pos'[n] = pos[n]
  BY <1>2, <1>3, Finishing
<1>5. /\ hash' \in [Pids -> Jails \cup {None}]
      /\ \A q \in Pids : hash'[q] = IF hash[q] = j THEN None ELSE hash[q]
  BY <1>1, <1>3 DEF ClearProcs, Types
<1>6. Types'
  BY <1>1, <1>3, <1>4, <1>5 DEF Types, ClearProcs
<1>7. Counted'
  <2>1. \A n \in Jails : {q \in Pids : hash'[q] = n} = IF n = j THEN {} ELSE {q \in Pids : hash[q] = n}
    BY <1>5, ProcsAssumption
  <2>2. \A n \in Jails : nprocs'[n] = IF n = j THEN 0 ELSE nprocs[n]
    BY <1>1, <1>3 DEF ClearProcs, Types
  <2>3. \A n \in Jails : nprocs[n] = Cardinality({q \in Pids : hash[q] = n})
    BY <1>1 DEF Counted
  <2>4. \A n \in Jails : nprocs'[n] = Cardinality({q \in Pids : hash'[q] = n})
    BY <2>1, <2>2, <2>3, FS_EmptySet
  <2> QED
    BY <2>4 DEF Counted
<1>8. Watched' /\ SleepersWait'
  <2>1. Watched'
    BY <1>1, <1>3, <1>5 DEF Watched, ClearProcs, Alive
  <2>2. SleepersWait'
    BY <1>1, <1>4, <1>5, <1>2, ProcsAssumption DEF SleepersWait
  <2> QED
    BY <2>1, <2>2
<1>9. Owners' /\ Table' /\ TermBounded'
  BY <1>1, <1>3, <1>4, <1>5 DEF Owners, Table, TermBounded
<1> QED
  BY <1>6, <1>7, <1>8, <1>9 DEF IInv, EndsAreTold, Watched, SleepersWait

(* The end of a process is told, and the last one wakes the jail.          *)
LEMMA ProcEndedInv == ASSUME IInv, NEW p \in Pids, ProcEnded(p) PROVE IInv'
<1>1. /\ Types /\ Watched /\ SleepersWait /\ Counted /\ Owners /\ Table /\ TermBounded
  BY DEF IInv, EndsAreTold, Watched, SleepersWait
<1>2. /\ hash' \in [Pids -> Jails \cup {None}]
      /\ \A q \in Pids : hash'[q] = IF q = p THEN None ELSE hash[q]
      /\ exited' = exited \ {p} /\ watched' = watched \ {p}
      /\ UNCHANGED <<pc, ki, left, owner, misfiled>>
  BY <1>1 DEF ProcEnded, Types
<1>3. Watched' /\ Owners'
  BY <1>1, <1>2 DEF Watched, Owners, Alive
<1>4. Table'
  BY <1>2 DEF ProcEnded, Table
<1>5. CASE hash[p] = None
  <2>1. UNCHANGED <<nprocs, sleeping, pos, hash>>
    BY <1>5, <1>1 DEF ProcEnded, Types
  <2> QED
    BY <1>1, <1>2, <1>3, <1>4, <2>1
    DEF IInv, Types, Counted, EndsAreTold, Watched, TermBounded, Sleeps, SleepersWait
<1>6. CASE hash[p] # None
  <2> DEFINE j == hash[p]
  <2>1. j \in Jails
    BY <1>1, <1>6 DEF Types
  <2>2. /\ Counted' /\ nprocs' \in [Jails -> Nat]
        /\ nprocs[j] = 1 <=> \A q \in Pids : hash'[q] # j
    BY <1>6, CountRemove DEF ProcEnded
  <2>3. IF nprocs[j] = 1 THEN Finished(j) ELSE UNCHANGED <<sleeping, pos>>
    BY <1>6 DEF ProcEnded
  <2>4. /\ sleeping' \in Queue
        /\ \A n \in Jails : Sleeps(n)' <=> Sleeps(n) /\ (n # j \/ nprocs[j] # 1)
        /\ pos' \in [Jails -> Nat]
        /\ \A n \in Jails : n # j \/ nprocs[j] # 1 => pos'[n] = pos[n]
    <3>1. CASE nprocs[j] = 1
      BY <3>1, <2>1, <2>3, Finishing
    <3>2. CASE nprocs[j] # 1
      BY <3>2, <2>3, <1>1 DEF Types, Sleeps
    <3> QED
      BY <3>1, <3>2
  <2>5. Types'
    BY <1>1, <1>2, <2>2, <2>4 DEF Types
  <2>6. SleepersWait'
    <3>1. \A n \in Jails : n # j => (Sleeps(n)' <=> \E q \in Pids : hash'[q] = n)
      BY <1>1, <1>2, <2>4, ProcsAssumption DEF SleepersWait
    <3>2. \A n \in Jails : n = j => (Sleeps(n)' <=> \E q \in Pids : hash'[q] = n)
      <4>1. Sleeps(j)
        BY <1>1, <2>1 DEF SleepersWait
      <4> QED
        BY <4>1, <2>1, <2>2, <2>4
    <3> QED
      BY <3>1, <3>2 DEF SleepersWait
  <2>7. TermBounded'
    BY <1>1, <1>2, <2>4 DEF TermBounded
  <2> QED
    BY <1>3, <1>4, <2>2, <2>5, <2>6, <2>7 DEF IInv, EndsAreTold, Watched, SleepersWait
<1> QED
  BY <1>5, <1>6

(* A command is waited for, runs in the background or was not run.         *)
LEMMA RunCommandInv == ASSUME IInv, NEW j \in Jails, RunCommand(j) PROVE IInv'
<1>1. /\ Types /\ Watched /\ SleepersWait /\ Counted /\ Owners /\ Table /\ TermBounded
  BY DEF IInv, EndsAreTold, Watched, SleepersWait
<1> DEFINE limit == IF Script[j][pos[j]] = "limited" THEN Limit ELSE None
           time == [left EXCEPT ![j] = limit]
<1>2. /\ pc = "main" /\ ~Sleeps(j) /\ Script[j][pos[j]] # "term"
      /\ left' = time
      /\ UNCHANGED <<pc, ki, exited, misfiled>>
  BY DEF RunCommand, Idle, Does
<1>3. left' \in [Jails -> Nat \cup {None}] /\ \A n \in Jails \ {j} : left'[n] = left[n]
  BY <1>1, <1>2, ProcsAssumption DEF Types
<1>4. Table'
  BY <1>2 DEF Table
<1>5. PICK p \in Pids :
        /\ ~Alive(p) /\ hash[p] = None
        /\ \/ /\ AddProc(j, p, time)
              /\ owner' = [owner EXCEPT ![p] = j]
              /\ UNCHANGED pos
           \/ /\ pos' = [pos EXCEPT ![j] = @ + 1]
              /\ owner' \in {owner, [owner EXCEPT ![p] = j]}
              /\ UNCHANGED <<sleeping, hash, nprocs, watched>>
  BY DEF RunCommand
<1> HIDE DEF time, limit
<1>6. CASE /\ AddProc(j, p, time)
           /\ owner' = [owner EXCEPT ![p] = j]
           /\ UNCHANGED pos
  <2>1. /\ sleeping' \in Queue
        /\ \A n \in Jails : Sleeps(n)' <=> Sleeps(n) \/ n = j
        /\ hash' \in [Pids -> Jails \cup {None}]
        /\ \A q \in Pids : hash'[q] = IF q = p THEN j ELSE hash[q]
        /\ nprocs' \in [Jails -> Nat]
        /\ watched' \subseteq Pids /\ watched' = watched \cup {p}
        /\ Counted' /\ SleepersWait'
    BY <1>5, <1>6, Adding
  <2>2. /\ owner' \in [Pids -> Jails \cup {None, Other}]
        /\ \A q \in Pids : owner'[q] = IF q = p THEN j ELSE owner[q]
    BY <1>1, <1>6 DEF Types
  <2>3. Types'
    BY <1>1, <1>2, <1>3, <1>6, <2>1, <2>2 DEF Types
  <2>4. Watched' /\ Owners'
    BY <1>1, <1>2, <2>1, <2>2, ProcsAssumption DEF Watched, Owners, Alive
  <2>5. TermBounded'
    BY <1>1, <1>2, <1>3, <1>6, <2>1 DEF TermBounded
  <2> QED
    BY <1>4, <2>1, <2>3, <2>4, <2>5 DEF IInv, EndsAreTold, Watched, SleepersWait
<1>7. CASE /\ pos' = [pos EXCEPT ![j] = @ + 1]
           /\ owner' \in {owner, [owner EXCEPT ![p] = j]}
           /\ UNCHANGED <<sleeping, hash, nprocs, watched>>
  <2>1. /\ owner' \in [Pids -> Jails \cup {None, Other}]
        /\ \A q \in Pids : owner'[q] = owner[q] \/ (q = p /\ owner'[q] = j)
    BY <1>1, <1>7 DEF Types
  <2>2. pos' \in [Jails -> Nat] /\ \A n \in Jails \ {j} : pos'[n] = pos[n]
    BY <1>1, <1>7 DEF Types
  <2>3. Types'
    BY <1>1, <1>2, <1>3, <1>7, <2>1, <2>2 DEF Types
  <2>4. Watched' /\ Owners' /\ SleepersWait' /\ Counted'
    BY <1>1, <1>2, <1>5, <1>7, <2>1
    DEF Watched, Owners, Alive, SleepersWait, Counted, Sleeps
  <2>5. TermBounded'
    BY <1>1, <1>2, <1>3, <1>7, <2>2 DEF TermBounded, Sleeps
  <2> QED
    BY <1>4, <2>3, <2>4, <2>5 DEF IInv, EndsAreTold, Watched, SleepersWait
<1> QED
  BY <1>5, <1>6, <1>7

-----------------------------------------------------------------------------
(* The processes of a jail that does not sleep are not waited for.         *)
LEMMA TermProcsInv == ASSUME IInv, NEW j \in Jails, TermProcs(j) PROVE IInv'
<1>1. /\ pc' = j /\ ki' = {p \in Pids : owner[p] = j} /\ ~Sleeps(j)
      /\ UNCHANGED <<pos, sleeping, left, hash, nprocs, owner, watched, exited, misfiled>>
      /\ pc = "main"
  BY DEF TermProcs, Does, Idle
<1>2. Types'
  BY <1>1 DEF IInv, Types
<1>3. Table'
  BY <1>1, ProcsAssumption DEF IInv, Types, Table, Owners, EndsAreTold
<1>4. Counted' /\ EndsAreTold' /\ Owners' /\ TermBounded'
  BY <1>1, ProcsAssumption DEF IInv, Counted, EndsAreTold, Owners, TermBounded, Sleeps, Alive
<1> QED
  BY <1>2, <1>3, <1>4 DEF IInv

(* There is nothing to tell.                                               *)
LEMMA TermSkipsInv == ASSUME IInv, NEW j \in Jails, TermSkips(j) PROVE IInv'
<1>1. /\ pos' = [pos EXCEPT ![j] = @ + 1] /\ ~Sleeps(j) /\ pc = "main"
      /\ UNCHANGED <<pc, ki, sleeping, left, hash, nprocs, owner, watched, exited, misfiled>>
  BY DEF TermSkips, Does, Idle
<1>2. pos' \in [Jails -> Nat] /\ \A n \in Jails \ {j} : pos'[n] = pos[n]
  BY <1>1 DEF IInv, Types
<1>3. Types' /\ Table'
  BY <1>1, <1>2 DEF IInv, Types, Table
<1>4. Counted' /\ EndsAreTold' /\ Owners' /\ TermBounded'
  BY <1>1, <1>2 DEF IInv, Counted, EndsAreTold, Owners, TermBounded, Sleeps, Alive
<1> QED
  BY <1>3, <1>4 DEF IInv

(* A process of the table is told to end, and waited for if it is there.   *)
LEMMA KillProcInv == ASSUME IInv, NEW p \in Pids, KillProc(p) PROVE IInv'
<1>1. /\ Types /\ Watched /\ SleepersWait /\ Counted /\ Owners /\ Table /\ TermBounded
  BY DEF IInv, EndsAreTold, Watched, SleepersWait
<1>2. /\ pc \in Jails /\ p \in ki /\ ki' = ki \ {p} /\ hash[p] = None
      /\ UNCHANGED <<pc, pos, left, exited, misfiled>>
  BY <1>1 DEF KillProc, Types, Table
<1>3. CASE Alive(p) /\ AddProc(pc, p, left) /\ UNCHANGED owner
  <2>0. /\ sleeping' \in Queue
        /\ \A n \in Jails : Sleeps(n)' <=> Sleeps(n) \/ n = pc
        /\ hash' \in [Pids -> Jails \cup {None}]
        /\ \A q \in Pids : hash'[q] = IF q = p THEN pc ELSE hash[q]
        /\ nprocs' \in [Jails -> Nat]
        /\ watched' \subseteq Pids /\ watched' = watched \cup {p}
        /\ Counted' /\ SleepersWait'
    BY <1>2, <1>3, Adding
  <2>1. Types'
    BY <1>1, <1>2, <1>3, <2>0 DEF Types
  <2>2. Watched' /\ Table'
    BY <1>1, <1>2, <1>3, <2>0 DEF Watched, Table, Alive, Types
  <2>3. Owners'
    BY <1>1, <1>2, <1>3, <2>0, ProcsAssumption DEF Owners, Table
  <2>4. TermBounded'
    BY <1>1, <1>2, <2>0 DEF TermBounded
  <2> QED
    BY <2>0, <2>1, <2>2, <2>3, <2>4 DEF IInv, EndsAreTold, Watched, SleepersWait
<1>4. CASE /\ owner' \in {owner, [owner EXCEPT ![p] = None]}
           /\ owner'[p] = None
           /\ UNCHANGED <<sleeping, hash, nprocs, watched>>
  <2>1. /\ owner' \in [Pids -> Jails \cup {None, Other}]
        /\ \A q \in Pids : owner'[q] = owner[q] \/ (q = p /\ owner'[q] = None)
    BY <1>1, <1>4 DEF Types
  <2>2. Types' /\ Table'
    BY <1>1, <1>2, <1>4, <2>1 DEF Types, Table
  <2>3. Watched' /\ Owners' /\ SleepersWait' /\ Counted' /\ TermBounded'
    BY <1>1, <1>2, <1>4, <2>1
    DEF Watched, Owners, Alive, SleepersWait, Counted, Sleeps, TermBounded
  <2> QED
    BY <2>2, <2>3 DEF IInv, EndsAreTold, Watched, SleepersWait
<1> QED
  BY <1>3, <1>4 DEF KillProc

(* Who was told to end is waited for within stop.timeout.                  *)
LEMMA TermEndsInv == IInv /\ TermEnds => IInv'
<1> SUFFICES ASSUME IInv, TermEnds PROVE IInv'
  OBVIOUS
<1>1. /\ pc \in Jails /\ pc' = "main"
      /\ UNCHANGED <<ki, sleeping, hash, nprocs, owner, watched, exited>>
      /\ Types /\ nprocs[pc] \in Nat
  BY DEF IInv, Types, TermEnds
<1>2. Counted' /\ EndsAreTold' /\ Owners' /\ Table'
  BY <1>1 DEF IInv, Counted, EndsAreTold, Owners, Table, Sleeps, Alive
<1>3. CASE nprocs[pc] > 0
  <2>1. left' = [left EXCEPT ![pc] = StopLimit] /\ pos' = pos
    BY <1>3 DEF TermEnds
  <2>2. /\ left' \in [Jails -> Nat \cup {None}] /\ left'[pc] # None
        /\ \A n \in Jails \ {pc} : left'[n] = left[n]
    BY <1>1, <2>1, ProcsAssumption DEF Types
  <2>3. Types'
    BY <1>1, <2>1, <2>2 DEF Types
  <2>4. TermBounded'
    BY <1>1, <2>1, <2>2 DEF IInv, TermBounded, Sleeps
  <2> QED
    BY <1>2, <2>3, <2>4 DEF IInv
<1>4. CASE ~(nprocs[pc] > 0)
  <2>1. pos' = [pos EXCEPT ![pc] = @ + 1] /\ left' = left
    BY <1>4 DEF TermEnds
  <2>2. pos' \in [Jails -> Nat] /\ \A n \in Jails \ {pc} : pos'[n] = pos[n]
    BY <1>1, <2>1 DEF Types
  <2>3. ~Sleeps(pc)
    BY <1>1, <1>4, CountZero
  <2>4. Types'
    BY <1>1, <2>1, <2>2 DEF Types
  <2>5. TermBounded'
    BY <1>1, <2>1, <2>2, <2>3 DEF IInv, TermBounded, Sleeps
  <2> QED
    BY <1>2, <2>4, <2>5 DEF IInv
<1> QED
  BY <1>3, <1>4

(* The world leaves the program's state alone but for the ends it tells.   *)
LEMMA WorldInv == IInv /\ (Tick \/ \E p \in Pids : Ends(p) \/ Reused(p)) => IInv'
<1>1. ASSUME IInv, Tick PROVE IInv'
  <2>1. /\ UNCHANGED <<pc, ki, pos, sleeping, hash, nprocs, owner, watched, exited>>
        /\ left' = [j \in Jails |-> IF left[j] \in {None, 0} THEN left[j] ELSE left[j] - 1]
        /\ Types
    BY <1>1 DEF Tick, IInv
  <2>2. /\ left' \in [Jails -> Nat \cup {None}]
        /\ \A j \in Jails : left'[j] = None <=> left[j] = None
    BY <2>1, ProcsAssumption DEF Types
  <2>3. Types'
    BY <2>1, <2>2 DEF Types
  <2>4. TermBounded'
    BY <1>1, <2>1, <2>2 DEF IInv, TermBounded, Sleeps
  <2> QED
    BY <1>1, <2>1, <2>3, <2>4 DEF IInv, Counted, EndsAreTold, Owners, Table, Sleeps, Alive
<1>2. ASSUME IInv, NEW p \in Pids, Ends(p) PROVE IInv'
  <2>1. /\ UNCHANGED <<pc, ki, pos, sleeping, left, hash, nprocs, watched>>
        /\ owner' = [owner EXCEPT ![p] = None]
        /\ exited' = IF p \in watched THEN exited \cup {p} ELSE exited
        /\ Types
    BY <1>2 DEF Ends, IInv
  <2>2. /\ owner' \in [Pids -> Jails \cup {None, Other}]
        /\ \A q \in Pids : owner'[q] = IF q = p THEN None ELSE owner[q]
    BY <2>1 DEF Types
  <2>3. Types'
    BY <2>1, <2>2 DEF Types
  <2>4. Owners' /\ Table' /\ EndsAreTold'
    BY <1>2, <2>1, <2>2 DEF IInv, Types, Owners, Table, EndsAreTold, Sleeps, Alive
  <2> QED
    BY <1>2, <2>1, <2>3, <2>4 DEF IInv, Counted, TermBounded, Sleeps
<1>3. ASSUME IInv, NEW p \in Pids, Reused(p) PROVE IInv'
  <2>1. /\ UNCHANGED <<pc, ki, pos, sleeping, left, hash, nprocs, watched, exited>>
        /\ owner' = [owner EXCEPT ![p] = Other]
        /\ p \notin watched
        /\ Types
    BY <1>3 DEF Reused, IInv
  <2>2. /\ owner' \in [Pids -> Jails \cup {None, Other}]
        /\ \A q \in Pids : owner'[q] = IF q = p THEN Other ELSE owner[q]
    BY <2>1 DEF Types
  <2>3. Types'
    BY <2>1, <2>2 DEF Types
  <2>4. Owners' /\ Table' /\ EndsAreTold'
    BY <1>3, <2>1, <2>2, ProcsAssumption
    DEF IInv, Types, Owners, Table, EndsAreTold, Sleeps, Alive
  <2> QED
    BY <1>3, <2>1, <2>3, <2>4 DEF IInv, Counted, TermBounded, Sleeps
<1> QED
  BY <1>1, <1>2, <1>3

(* Every step keeps the invariant.                                         *)
LEMMA NextInv == IInv /\ [Next]_vars => IInv'
<1>1. ASSUME IInv, UNCHANGED vars PROVE IInv'
  BY <1>1 DEF vars, IInv, Types, Counted, EndsAreTold, Owners, Table, TermBounded, Sleeps, Alive
<1>2. ASSUME IInv, Program PROVE IInv'
  BY <1>2, TimeUpInv, ProcEndedInv, KillProcInv, RunCommandInv, TermProcsInv, TermSkipsInv,
     TermEndsInv DEF Program
<1> QED
  BY <1>1, <1>2, WorldInv DEF Next

(* The inductive invariant.                                                *)
THEOREM Invariance == Spec => []IInv
  BY InitInv, NextInv, PTL DEF Spec

(* j->nprocs is the number of processes that the hash ties to the jail,    *)
(* whatever ends, times out or is told to end.                             *)
THEOREM CountKept == Spec => []Counted
<1>1. IInv => Counted
  BY DEF IInv
<1> QED
  BY <1>1, Invariance, PTL

(* No jail waits for an end that nobody will tell, and none sleeps without *)
(* a process in the hash.                                                  *)
THEOREM NoEndMissed == Spec => []EndsAreTold
<1>1. IInv => EndsAreTold
  BY DEF IInv
<1> QED
  BY <1>1, Invariance, PTL

(* Once term_procs() has gone through its table, the jail that waits has a *)
(* limit: it does not wait without end for a process that does not obey,   *)
(* nor for one that has got the number of another.                         *)
THEOREM StopBounded == Spec => []TermBounded
<1>1. IInv => TermBounded
  BY DEF IInv
<1> QED
  BY <1>1, Invariance, PTL

-----------------------------------------------------------------------------
(* A queue in order is so whatever the limits of the jails outside it.     *)
LEMMA SameLimits ==
  ASSUME NEW q \in Queue, NEW old, NEW new, InOrder(q, old),
         \A n \in Jails : Contains(q, n) => new[n] = old[n]
  PROVE  InOrder(q, new)
<1>1. \A i \in DOMAIN q : new[q[i]] = old[q[i]]
  <2> SUFFICES ASSUME NEW i \in DOMAIN q PROVE new[q[i]] = old[q[i]]
    OBVIOUS
  <2>1. q[i] \in Jails /\ Contains(q, q[i])
    BY DEF Queue, Contains
  <2> QED
    BY <2>1
<1> QED
  BY <1>1, Zenon DEF InOrder

(* The queue stays in order as time goes by.                               *)
LEMMA LaterInOrder ==
  ASSUME IInv, InOrder(sleeping, left), Tick
  PROVE  InOrder(sleeping, left')
<1>1. /\ left \in [Jails -> Nat \cup {None}]
      /\ left' = [j \in Jails |-> IF left[j] \in {None, 0} THEN left[j] ELSE left[j] - 1]
      /\ \A i \in DOMAIN sleeping : sleeping[i] \in Jails
  BY DEF IInv, Types, Tick, Queue
<1>2. \A m, n \in Jails : Before(left[m], left[n]) => left'[n] = None \/ Before(left'[m], left'[n])
  <2> SUFFICES ASSUME NEW m \in Jails, NEW n \in Jails, Before(left[m], left[n])
               PROVE  left'[n] = None \/ Before(left'[m], left'[n])
    OBVIOUS
  <2>1. left[m] \in Nat /\ left[n] \in Nat \cup {None} /\ (left[n] = None \/ left[m] <= left[n])
    BY <1>1 DEF Before
  <2>2. left'[m] \in Nat /\ (left[n] = None \/ left'[m] <= left'[n])
    BY <1>1, <2>1, ProcsAssumption
  <2> QED
    BY <1>1, <2>1, <2>2, ProcsAssumption DEF Before
<1>3. \A n \in Jails : left[n] = None => left'[n] = None
  BY <1>1
<1> QED
  BY <1>1, <1>2, <1>3 DEF InOrder

(* Every step leaves the queue in order, but for the one that notes it.    *)
LEMMA OrderKept == IInv /\ SleepInOrder /\ [Next]_vars => SleepInOrder'
<1> SUFFICES ASSUME IInv, SleepInOrder, [Next]_vars, ~misfiled'
             PROVE  InOrder(sleeping', left')
  BY DEF SleepInOrder
<1>1. /\ sleeping \in Queue /\ left \in Times /\ pc \in Jails \cup {"main"}
      /\ hash \in [Pids -> Jails \cup {None}]
  BY DEF IInv, Types, Times
<1>2. CASE UNCHANGED vars
  BY <1>2 DEF vars, SleepInOrder
<1>3. CASE TimeUp
  <2>1. UNCHANGED <<left, misfiled>> /\ sleeping' = Without(sleeping, Head(sleeping)) /\ sleeping # <<>>
    BY <1>3 DEF TimeUp, Finished, FirstTimeUp
  <2>2. Head(sleeping) \in Jails
    BY <1>1, <2>1 DEF Queue
  <2> QED
    BY <1>1, <2>1, <2>2, WithoutInOrder DEF SleepInOrder
<1>4. ASSUME NEW p \in Pids, ProcEnded(p) PROVE InOrder(sleeping', left')
  <2>1. /\ UNCHANGED <<left, misfiled>>
        /\ \/ sleeping' = sleeping
           \/ hash[p] \in Jails /\ sleeping' = Without(sleeping, hash[p])
    BY <1>1, <1>4 DEF ProcEnded, Finished
  <2> QED
    BY <1>1, <2>1, WithoutInOrder DEF SleepInOrder
<1>5. ASSUME NEW j \in Jails, RunCommand(j) PROVE InOrder(sleeping', left')
  <2> DEFINE time == [left EXCEPT ![j] = IF Script[j][pos[j]] = "limited" THEN Limit ELSE None]
  <2>1. /\ ~Sleeps(j) /\ left' = time /\ misfiled' = misfiled
        /\ sleeping' = sleeping \/ sleeping' = File(sleeping, j, time)
    BY <1>5 DEF RunCommand, Does, AddProc
  <2>2. time \in Times /\ \A n \in Jails \ {j} : time[n] = left[n]
    BY <1>1, ProcsAssumption DEF Times
  <2> HIDE DEF time
  <2>3. InOrder(sleeping, time)
    BY <1>1, <2>1, <2>2, SameLimits DEF SleepInOrder, Sleeps
  <2> QED
    BY <1>1, <2>1, <2>2, <2>3, FileInOrder
<1>6. ASSUME NEW p \in Pids, KillProc(p) PROVE InOrder(sleeping', left')
  <2>1. /\ pc \in Jails /\ UNCHANGED <<left, misfiled>>
        /\ sleeping' = sleeping \/ sleeping' = File(sleeping, pc, left)
    BY <1>1, <1>6 DEF KillProc, AddProc
  <2> QED
    BY <1>1, <2>1, FileInOrder DEF SleepInOrder
<1>7. CASE TermEnds
  <2>1. CASE nprocs[pc] > 0
    BY <1>7, <2>1 DEF TermEnds
  <2>2. CASE ~(nprocs[pc] > 0)
    BY <1>7, <2>2 DEF TermEnds, SleepInOrder
  <2> QED
    BY <2>1, <2>2
<1>8. ASSUME NEW j \in Jails, TermProcs(j) \/ TermSkips(j) PROVE InOrder(sleeping', left')
  BY <1>8 DEF TermProcs, TermSkips, SleepInOrder
<1>9. CASE Tick
  BY <1>9, LaterInOrder DEF Tick, SleepInOrder
<1>10. ASSUME NEW p \in Pids, Ends(p) \/ Reused(p) PROVE InOrder(sleeping', left')
  BY <1>10 DEF Ends, Reused, SleepInOrder
<1> QED
  BY <1>2, <1>3, <1>4, <1>5, <1>6, <1>7, <1>8, <1>9, <1>10 DEF Next, Program

(* The limit of the first jail is the first that is up, so that it is      *)
(* enough to look at that one, unless term_procs() has given a jail that   *)
(* was in the queue another limit than it had been filed by.               *)
THEOREM FirstIsNext == Spec => []SleepInOrder
<1>1. Init => SleepInOrder
  BY EmptySeq DEF Init, SleepInOrder, InOrder
<1> QED
  BY <1>1, OrderKept, Invariance, PTL DEF Spec
=============================================================================
