---------------------------- MODULE Knet_proofs ----------------------------
(***************************************************************************)
(* What every call of luaknet.c keeps to, for any number of processes,     *)
(* interfaces, routes and calls: its sockets, the truth of its result, what*)
(* it writes back, and the names that route_get() finds.  The invariant is *)
(* one statement about each process and the kernel's tables; what other    *)
(* processes do changes only the history of a call and the tables.         *)
(***************************************************************************)
EXTENDS Knet, FiniteSetTheorems, WellFoundedInduction, TLAPS

Fields == {"call", "at", "fds", "base", "words", "saw", "todo", "map", "room", "did",
           "fails", "ret", "others", "moved", "arp", "calls"}

(* Where a call can be, of which kind it is.                               *)
Place(at, op) ==
  \/ at = "idle"
  \/ at = "open" /\ op \in Unclosed \cup Rewrites \cup Simple
  \/ at = "ioctl" /\ op \in Unclosed \cup Simple
  \/ at \in {"get", "set"} /\ op \in Rewrites \cup {"setip4"}
  \/ at = "snapshot" /\ op \in Listing
  \/ at = "each" /\ op \in {"clear", "list", "info"}
  \/ at \in {"parts", "ips"} /\ op = "info"
  \/ at \in {"fibs", "route"} /\ op \in RouteAdds \cup RouteDels
  \/ at \in {"size", "dump"} /\ op \in ArpOps \cup {"route_get"}
  \/ at \in {"arp_ask", "arp_delete"} /\ op \in {"arp_delete", "arp_flush"}

Fine(r) ==
  /\ DOMAIN r = Fields
  /\ r.at # "idle" => r.call \in Menu
  /\ r.fds \in Nat /\ r.base \in Nat /\ r.fails \in Nat
  /\ Place(r.at, r.call.op)

(* The socket of a call is open from socket() until its end.               *)
Socket(r) ==
  r.call.op \notin Unclosed =>
    /\ r.at = "idle" => \/ r.fds = r.base
                       \/ /\ r.call.op \in Rewrites
                          /\ r.ret = "nil"
                          /\ r.fds = r.base + 1
    /\ r.at \in {"ioctl", "get", "set"} => r.fds = r.base + 1
    /\ r.at \notin {"idle", "ioctl", "get", "set"} => r.fds = r.base

OneRequest == Simple \cup Unclosed \cup {"clear", "arp_delete"} \cup RouteDels

(* What a call knows of its success while it runs, and at its end.         *)
Truth(r) ==
  /\ r.at = "idle" => r.fails = 0 /\ (r.ret = "true" /\ r.call.op \in OneRequest => r.did)
  /\ r.at # "idle" /\ r.call.op \in {"clear"} \cup RouteDels => r.did \/ r.fails > 0
  /\ r.at \in {"get", "set"} /\ r.call.op = "setip4" => r.did
  /\ r.at = "arp_ask" /\ r.call.op = "arp_delete" => r.todo # {}

(* What a call has read of the bits of its interface is what is there, but *)
(* for the bits that others have changed since.                            *)
Fresh(r, K) ==
  r.at = "set" =>
    /\ r.saw \subseteq Class(r.call)
    /\ \A x \in Class(r.call) \ r.others : x \in r.saw <=> x \in K.bits[r.call.name]

Table(K) == [i \in Index |-> IF \E n \in Names : K.index[n] = i
                               THEN CHOOSE n \in Names : K.index[n] = i ELSE NoName]
Indices(K) == {K.index[n] : n \in {n \in Names : K.index[n] # 0}}

(* The table of names that route_get() works with.                         *)
Mapped(r, K) ==
  r.at \in {"size", "dump"} /\ r.call.op = "route_get" /\ ~r.moved =>
    r.map = Table(K) /\ r.room = Slots(Indices(K))

PInv(r, K) == Fine(r) /\ Socket(r) /\ Truth(r) /\ Fresh(r, K) /\ Mapped(r, K)

IInv ==
  /\ Sound(k)
  /\ DOMAIN proc = Procs
  /\ \A p \in Procs : PInv(proc[p], k)

-----------------------------------------------------------------------------
(* At first nobody calls and the kernel's tables are sound.                *)
LEMMA InitInv == Init => IInv
<1> SUFFICES ASSUME Init PROVE IInv
  OBVIOUS
<1>1. Sound(k) /\ DOMAIN proc = Procs
  BY KernelAssumption DEF Init
<1>2. ASSUME NEW p \in Procs PROVE PInv(proc[p], k)
  <2>1. proc[p] = Idle0
    BY DEF Init
  <2>2. /\ DOMAIN Idle0 = Fields /\ Idle0.at = "idle" /\ Idle0.fds = 0 /\ Idle0.base = 0
        /\ Idle0.fails = 0 /\ Idle0.ret = "none"
    BY Zenon DEF Idle0, Fields
  <2> QED
    BY <2>1, <2>2 DEF PInv, Fine, Place, Socket, Truth, Fresh, Mapped
<1> QED
  BY <1>1, <1>2 DEF IInv

(* A process becomes me, the kernel's tables new: for the others only      *)
(* their history follows the tables.                                       *)
LEMMA StepKept ==
  ASSUME IInv, NEW p \in Procs, NEW me, NEW new, Step(p, me, new),
         PInv(me, new), Sound(new)
  PROVE  IInv'
<1>1. k' = new /\ DOMAIN proc' = Procs
  BY DEF Step
<1>2. ASSUME NEW q \in Procs \ {p} PROVE PInv(proc'[q], new)
  <2> DEFINE r == proc[q]
             s == proc'[q]
             n == r.call.name
  <2>0. PInv(r, k) /\ DOMAIN r = Fields
    BY DEF IInv, PInv, Fine
  <2>1. CASE r.at = "set"
    <3>1. s = [r EXCEPT !.others = @ \cup Changed(k, new, n)]
      BY <2>1 DEF Step
    <3>2. /\ DOMAIN s = Fields /\ s.at = r.at /\ s.call = r.call /\ s.fds = r.fds
          /\ s.base = r.base /\ s.fails = r.fails /\ s.ret = r.ret /\ s.did = r.did
          /\ s.todo = r.todo /\ s.saw = r.saw /\ s.others = r.others \cup Changed(k, new, n)
      BY <2>0, <3>1, Zenon DEF Fields
    <3> HIDE DEF s
    <3>3. Fine(s) /\ Socket(s) /\ Truth(s)
      BY <2>0, <3>2 DEF PInv, Fine, Socket, Truth
    <3>4. Fresh(s, new)
      BY <2>0, <3>2 DEF PInv, Fresh, Changed
    <3>5. Mapped(s, new)
      BY <2>1, <3>2 DEF Mapped
    <3> QED
      BY <3>3, <3>4, <3>5 DEF PInv, s
  <2>2. CASE r.at # "set" /\ r.call.op = "route_get" /\ r.at # "idle"
    <3>1. s = [r EXCEPT !.moved = @ \/ new.index # k.index]
      BY <2>2 DEF Step
    <3>2. /\ DOMAIN s = Fields /\ s.at = r.at /\ s.call = r.call /\ s.fds = r.fds
          /\ s.base = r.base /\ s.fails = r.fails /\ s.ret = r.ret /\ s.did = r.did
          /\ s.todo = r.todo /\ s.map = r.map /\ s.room = r.room
          /\ ~s.moved => ~r.moved /\ new.index = k.index
      BY <2>0, <3>1, Zenon DEF Fields
    <3> HIDE DEF s
    <3>3. Fine(s) /\ Socket(s) /\ Truth(s)
      BY <2>0, <3>2 DEF PInv, Fine, Socket, Truth
    <3>4. Fresh(s, new)
      BY <2>2, <3>2 DEF Fresh
    <3>5. Mapped(s, new)
      <4>1. new.index = k.index => Table(new) = Table(k) /\ Indices(new) = Indices(k)
        BY Zenon DEF Table, Indices
      <4> QED
        BY <2>0, <3>2, <4>1 DEF PInv, Mapped
    <3> QED
      BY <3>3, <3>4, <3>5 DEF PInv, s
  <2>3. CASE r.at # "set" /\ ~(r.call.op = "route_get" /\ r.at # "idle")
    <3>1. s = r
      BY <2>3 DEF Step
    <3> HIDE DEF s
    <3>2. Fresh(r, new) /\ Mapped(r, new)
      BY <2>3 DEF Fresh, Mapped
    <3> QED
      BY <2>0, <3>1, <3>2 DEF PInv, s
  <2> QED
    BY <2>1, <2>2, <2>3
<1>3. proc'[p] = me
  BY DEF Step
<1> QED
  BY <1>1, <1>2, <1>3 DEF IInv

(* The end of a call: its sockets are closed but for one that it may lose, *)
(* and its result is what it knows of its success.                         *)
LEMMA EndKept ==
  ASSUME NEW r, Fine(r), NEW closes \in {0, 1}, NEW ret, NEW K,
         r.fds - closes \in Nat,
         r.call.op \notin Unclosed =>
            \/ r.fds - closes = r.base
            \/ r.call.op \in Rewrites /\ ret = "nil" /\ r.fds - closes = r.base + 1,
         ret = "true" /\ r.call.op \in OneRequest => r.did
  PROVE  PInv(Ends(r, closes, ret), K)
<1> DEFINE s == Ends(r, closes, ret)
<1>1. /\ DOMAIN s = Fields /\ s.at = "idle" /\ s.call = r.call /\ s.fds = r.fds - closes
      /\ s.base = r.base /\ s.fails = 0 /\ s.ret = ret /\ s.did = r.did
  BY Zenon DEF Fine, Fields, Ends
<1> HIDE DEF s
<1>2. Fine(s) /\ Fresh(s, K) /\ Mapped(s, K)
  BY <1>1 DEF Fine, Place, Fresh, Mapped
<1>3. Socket(s)
  BY <1>1 DEF Socket
<1>4. Truth(s)
  BY <1>1 DEF Truth
<1> QED
  BY <1>2, <1>3, <1>4 DEF PInv, s


(* The kernel's answers leave its tables sound.                            *)
LEMMA SoundComes ==
  ASSUME Sound(k), NEW n \in Names, NEW i \in Index, k.index[n] = 0
  PROVE  Sound(Comes(n, i))
<1> DEFINE K == Comes(n, i)
<1>1. /\ DOMAIN K = DOMAIN k /\ K.index = [k.index EXCEPT ![n] = i]
      /\ K.bits = [k.bits EXCEPT ![n] = {}] /\ K.addrs = [k.addrs EXCEPT ![n] = {}]
      /\ K.rib = k.rib
  BY Zenon DEF Sound, Comes
<1> HIDE DEF K
<1>2. DOMAIN K.bits = Names /\ DOMAIN K.addrs = Names
  BY <1>1, Zenon DEF Sound
<1>3. K.index \in [Names -> Index \cup {0}]
  BY <1>1 DEF Sound
<1>4. ASSUME NEW m \in Names, K.index[m] = 0 PROVE K.bits[m] = {}
  <2>1. CASE m = n
    BY <1>1, <2>1, Zenon DEF Sound
  <2>2. CASE m # n
    <3>1. K.bits[m] = k.bits[m]
      BY <1>1, <2>2, Zenon DEF Sound
    <3>2. K.index[m] = k.index[m]
      BY <1>1, <2>2, Zenon DEF Sound
    <3> QED
      BY <1>4, <3>1, <3>2 DEF Sound
  <2> QED
    BY <2>1, <2>2
<1>5. \A f \in Fibs : \A r \in K.rib[f] : \E m \in Names : K.index[m] = r.index /\ r.index # 0
  <2>1. \A m \in Names : k.index[m] # 0 => K.index[m] = k.index[m]
    BY <1>1 DEF Sound
  <2> QED
    BY <1>1, <2>1 DEF Sound
<1>6. DOMAIN K = {"index", "bits", "addrs", "away", "rib", "hosts"} /\ DOMAIN K.rib = Fibs
  BY <1>1 DEF Sound
<1> QED
  BY <1>2, <1>3, <1>4, <1>5, <1>6, Zenon DEF Sound, K

(* An interface goes with its routes.                                      *)
LEMMA SoundGoes ==
  ASSUME Sound(k), NEW n \in Names
  PROVE  Sound(Goes(n))
<1> DEFINE K == Goes(n)
<1>1. /\ DOMAIN K = DOMAIN k /\ K.index = [k.index EXCEPT ![n] = 0]
      /\ K.bits = [k.bits EXCEPT ![n] = {}] /\ K.addrs = [k.addrs EXCEPT ![n] = {}]
      /\ K.rib = [f \in Fibs |-> {r \in k.rib[f] : r.index # k.index[n]}]
  BY Zenon DEF Sound, Goes
<1> HIDE DEF K
<1>2. DOMAIN K.bits = Names /\ DOMAIN K.addrs = Names
  BY <1>1, Zenon DEF Sound
<1>3. K.index \in [Names -> Index \cup {0}]
  BY <1>1 DEF Sound
<1>4. ASSUME NEW m \in Names, K.index[m] = 0 PROVE K.bits[m] = {}
  <2>1. CASE m = n
    BY <1>1, <2>1, Zenon DEF Sound
  <2>2. CASE m # n
    <3>1. K.bits[m] = k.bits[m]
      BY <1>1, <2>2, Zenon DEF Sound
    <3>2. K.index[m] = k.index[m]
      BY <1>1, <2>2, Zenon DEF Sound
    <3> QED
      BY <1>4, <3>1, <3>2 DEF Sound
  <2> QED
    BY <2>1, <2>2
<1>5. ASSUME NEW f \in Fibs, NEW r \in K.rib[f]
      PROVE  \E m \in Names : K.index[m] = r.index /\ r.index # 0
  <2>1. r \in k.rib[f] /\ r.index # k.index[n]
    BY <1>1
  <2>2. PICK m \in Names : k.index[m] = r.index /\ r.index # 0
    BY <2>1 DEF Sound
  <2>3. K.index[m] = k.index[m]
    BY <1>1, <2>1, <2>2, Zenon DEF Sound
  <2> QED
    BY <2>2, <2>3
<1>6. DOMAIN K = {"index", "bits", "addrs", "away", "rib", "hosts"} /\ DOMAIN K.rib = Fibs
  BY <1>1 DEF Sound
<1> QED
  BY <1>2, <1>3, <1>4, <1>5, <1>6, Zenon DEF Sound, K

(* An interface changes its name; its routes go through the new one.       *)
LEMMA SoundRenamed ==
  ASSUME Sound(k), NEW n \in Names, NEW o \in Names, k.index[n] # 0, k.index[o] = 0
  PROVE  Sound(Renamed(n, o))
<1> DEFINE K == Renamed(n, o)
<1>0. n # o
  OBVIOUS
<1>1. /\ DOMAIN K = DOMAIN k /\ K.index = [k.index EXCEPT ![n] = 0, ![o] = k.index[n]]
      /\ K.bits = [k.bits EXCEPT ![n] = {}, ![o] = k.bits[n]]
      /\ K.addrs = [k.addrs EXCEPT ![n] = {}, ![o] = k.addrs[n]]
      /\ K.rib = k.rib
  BY Zenon DEF Sound, Renamed
<1> HIDE DEF K
<1>2. DOMAIN K.bits = Names /\ DOMAIN K.addrs = Names
  BY <1>1, Zenon DEF Sound
<1>3. K.index \in [Names -> Index \cup {0}]
  BY <1>1 DEF Sound
<1>4. ASSUME NEW m \in Names, K.index[m] = 0 PROVE K.bits[m] = {}
  <2>1. CASE m = n
    BY <1>0, <1>1, <2>1, Zenon DEF Sound
  <2>2. CASE m # n /\ m # o
    <3>1. K.bits[m] = k.bits[m]
      BY <1>1, <2>2, Zenon DEF Sound
    <3>2. K.index[m] = k.index[m]
      BY <1>1, <2>2, Zenon DEF Sound
    <3> QED
      BY <1>4, <3>1, <3>2 DEF Sound
  <2>3. CASE m = o
    <3>1. K.index[o] = k.index[n]
      BY <1>0, <1>1 DEF Sound
    <3> QED
      BY <1>4, <2>3, <3>1
  <2> QED
    BY <2>1, <2>2, <2>3
<1>5. ASSUME NEW f \in Fibs, NEW r \in K.rib[f]
      PROVE  \E m \in Names : K.index[m] = r.index /\ r.index # 0
  <2>1. PICK m \in Names : k.index[m] = r.index /\ r.index # 0
    BY <1>1 DEF Sound
  <2>2. K.index[o] = k.index[n] /\ (m # n => K.index[m] = k.index[m])
    BY <1>0, <1>1, <2>1 DEF Sound
  <2> QED
    BY <2>1, <2>2
<1>6. DOMAIN K = {"index", "bits", "addrs", "away", "rib", "hosts"} /\ DOMAIN K.rib = Fibs
  BY <1>1 DEF Sound
<1> QED
  BY <1>2, <1>3, <1>4, <1>5, <1>6, Zenon DEF Sound, K

(* Addresses, hosts and interfaces that have gone elsewhere do not matter. *)
LEMMA SoundSame ==
  ASSUME NEW K, Sound(K), NEW N, DOMAIN N = DOMAIN K, N.index = K.index, N.bits = K.bits,
         DOMAIN N.addrs = Names, N.rib = K.rib
  PROVE  Sound(N)
  BY DEF Sound

(* Bits are written of interfaces that are there.                          *)
LEMMA SoundBits ==
  ASSUME Sound(k), NEW n \in Names, k.index[n] # 0, NEW b
  PROVE  Sound([k EXCEPT !.bits[n] = b])
<1> DEFINE K == [k EXCEPT !.bits[n] = b]
<1>1. /\ DOMAIN K = DOMAIN k /\ K.index = k.index /\ K.rib = k.rib /\ K.addrs = k.addrs
      /\ K.bits = [k.bits EXCEPT ![n] = b]
  BY Zenon DEF Sound
<1> HIDE DEF K
<1>2. DOMAIN K.bits = Names /\ \A m \in Names \ {n} : K.bits[m] = k.bits[m]
  BY <1>1, Zenon DEF Sound
<1>3. Sound(K)
  BY <1>1, <1>2 DEF Sound
<1> QED
  BY <1>3 DEF K

(* A route is added through an interface that is there.                    *)
LEMMA SoundRoutes ==
  ASSUME Sound(k), NEW f \in Fibs, NEW d, NEW new \in Added(f, d) \cup Dropped(f, d)
  PROVE  Sound(new)
<1>1. PICK R : /\ new = [k EXCEPT !.rib[f] = R]
               /\ \A r \in R : r \in k.rib[f] \/ \E n \in Names : r.index = k.index[n] /\ k.index[n] # 0
  <2>1. CASE new \in Added(f, d)
    <3>1. PICK n \in {n \in Names : Exists(n)} :
             new = [k EXCEPT !.rib[f] = @ \cup {[dest |-> d, index |-> k.index[n]]}]
      BY <2>1, Zenon DEF Added, If
    <3> DEFINE R == k.rib[f] \cup {[dest |-> d, index |-> k.index[n]]}
    <3>2. \A r \in R : r \in k.rib[f] \/ r.index = k.index[n]
      OBVIOUS
    <3>3. k.index[n] # 0
      BY DEF Exists
    <3>4. new = [k EXCEPT !.rib[f] = R]
      BY <3>1, Zenon
    <3> HIDE DEF R
    <3> QED
      BY <3>2, <3>3, <3>4, Zenon
  <2>2. CASE new \in Dropped(f, d)
    BY <2>2, Zenon DEF Dropped
  <2> QED
    BY <2>1, <2>2
<1>2. /\ DOMAIN new = DOMAIN k /\ new.index = k.index /\ new.bits = k.bits
      /\ new.addrs = k.addrs /\ new.rib = [k.rib EXCEPT ![f] = R]
  BY <1>1, Zenon DEF Sound
<1>3. DOMAIN new.rib = Fibs /\ new.rib[f] = R /\ \A g \in Fibs \ {f} : new.rib[g] = k.rib[g]
  BY <1>2, Zenon DEF Sound
<1>4. ASSUME NEW g \in Fibs, NEW r \in new.rib[g]
      PROVE  \E n \in Names : new.index[n] = r.index /\ r.index # 0
  <2>1. r \in k.rib[g] \/ \E n \in Names : r.index = k.index[n] /\ k.index[n] # 0
    BY <1>1, <1>3, <1>4
  <2> QED
    BY <1>2, <2>1 DEF Sound
<1> QED
  BY <1>2, <1>3, <1>4 DEF Sound

(* What an ioctl makes of the tables.                                      *)
LEMMA SoundAnswers ==
  ASSUME Sound(k), NEW c \in Menu, c.op \in Unclosed \cup Simple, NEW new \in Answers(c)
  PROVE  Sound(new)
<1>0. c.name \in Names /\ (c.op = "rename" => c.new \in Names)
  BY MenuAssumption
<1>1. CASE c.op = "create"
  <2>1. new \in Create(c)
    BY <1>1 DEF Answers
  <2>2. PICK i \in Free : new = Comes(c.name, i) /\ k.index[c.name] = 0
    BY <2>1, Zenon DEF Create, If, Exists
  <2> QED
    BY <1>0, <2>2, SoundComes DEF Free
<1>2. CASE c.op = "destroy"
  <2>1. new \in Destroy(c)
    BY <1>2 DEF Answers
  <2> QED
    BY <1>0, <2>1, SoundGoes, Zenon DEF Destroy, If
<1>3. CASE c.op = "vnet"
  <2>1. new \in Vnet(c)
    BY <1>3 DEF Answers
  <2>2. new = [Goes(c.name) EXCEPT !.away = @ \cup {c.name}] /\ Sound(Goes(c.name))
    BY <1>0, <2>1, SoundGoes, Zenon DEF Vnet, If
  <2> DEFINE K == Goes(c.name)
  <2> HIDE DEF K
  <2>3. Sound(K) /\ new = [K EXCEPT !.away = @ \cup {c.name}]
    BY <2>2 DEF K
  <2>4. /\ DOMAIN new = DOMAIN K /\ new.index = K.index /\ new.bits = K.bits
        /\ new.addrs = K.addrs /\ new.rib = K.rib
    BY <2>3, Zenon DEF Sound
  <2> QED
    BY <2>3, <2>4, SoundSame DEF Sound
<1>4. CASE c.op = "vnetd"
  <2>1. new \in Vnetd(c)
    BY <1>4 DEF Answers
  <2>2. PICK i \in Free : /\ new = [Comes(c.name, i) EXCEPT !.away = @ \ {c.name}]
                          /\ k.index[c.name] = 0
    BY <2>1, Zenon DEF Vnetd, If, Exists
  <2> DEFINE K == Comes(c.name, i)
  <2>3. Sound(K)
    BY <1>0, <2>2, SoundComes DEF Free
  <2> HIDE DEF K
  <2>4. new = [K EXCEPT !.away = @ \ {c.name}]
    BY <2>2 DEF K
  <2>5. /\ DOMAIN new = DOMAIN K /\ new.index = K.index /\ new.bits = K.bits
        /\ new.addrs = K.addrs /\ new.rib = K.rib
    BY <2>3, <2>4, Zenon DEF Sound
  <2> QED
    BY <2>3, <2>5, SoundSame DEF Sound
<1>5. CASE c.op = "rename"
  <2>1. new \in Rename(c)
    BY <1>5 DEF Answers
  <2>2. new = Renamed(c.name, c.new) /\ k.index[c.name] # 0 /\ k.index[c.new] = 0
    BY <2>1, Zenon DEF Rename, If, Exists
  <2> QED
    BY <1>0, <1>5, <2>2, SoundRenamed
<1>6. CASE c.op = "setmac"
  <2>1. new \in SetMac(c)
    BY <1>6 DEF Answers
  <2> QED
    BY <2>1 DEF SetMac, If
<1>7. ASSUME NEW S, new = [k EXCEPT !.addrs[c.name] = S] PROVE Sound(new)
  <2>1. /\ DOMAIN new = DOMAIN k /\ new.index = k.index /\ new.bits = k.bits
        /\ new.addrs = [k.addrs EXCEPT ![c.name] = S] /\ new.rib = k.rib
    BY <1>7, Zenon DEF Sound
  <2>2. DOMAIN new.addrs = Names
    BY <2>1, Zenon DEF Sound
  <2> QED
    BY <2>1, <2>2, SoundSame
<1>8. CASE c.op \in {"setip4", "setip6"}
  <2>1. new \in SetIp(c)
    BY <1>8 DEF Answers
  <2> QED
    BY <1>7, <2>1, Zenon DEF SetIp, If
<1>9. CASE c.op \in {"delip4", "delip6"}
  <2>1. new \in DelIp(c)
    BY <1>9 DEF Answers
  <2> QED
    BY <1>7, <2>1, Zenon DEF DelIp, If
<1> QED
  BY <1>1, <1>2, <1>3, <1>4, <1>5, <1>6, <1>8, <1>9 DEF Unclosed, Simple

-----------------------------------------------------------------------------
(* The steps of a call.                                                    *)

(* Where the history and the table of names do not matter.                 *)
LEMMA Elsewhere ==
  ASSUME NEW m, NEW K, Fine(m), Socket(m), Truth(m), m.at # "set",
         m.at \in {"size", "dump"} => m.call.op # "route_get"
  PROVE  PInv(m, K)
  BY DEF PInv, Fresh, Mapped

(* The library is called.                                                  *)
LEMMA CallKept == ASSUME IInv, NEW p \in Procs, NEW c \in Menu, Call(p, c) PROVE IInv'
<1> DEFINE r == proc[p]
           w == IF c.op = "setip4" THEN <<UPWord>> ELSE c.words
           t == IF c.op = "arp_delete" THEN {c.host} ELSE {}
           m == [r EXCEPT !.call = c, !.at = Start(c), !.calls = @ + 1, !.ret = "none",
                          !.did = c.op \in {"clear"} \cup RouteDels,
                          !.words = w, !.todo = t, !.base = r.fds]
<1>1. Step(p, m, k) /\ r.at = "idle"
  BY DEF Call
<1>2. Fine(r) /\ Truth(r) /\ DOMAIN r = Fields
  BY DEF IInv, PInv, Fine
<1> HIDE DEF w, t
<1>3. /\ DOMAIN m = Fields /\ m.call = c /\ m.at = Start(c) /\ m.base = r.fds /\ m.todo = t
      /\ m.fds = r.fds /\ m.fails = r.fails /\ (c.op \in {"clear"} \cup RouteDels => m.did)
      /\ m.moved = r.moved
  BY <1>2, Zenon DEF Fields
<1> HIDE DEF m
<1>4. c.op \in Unclosed \cup Rewrites \cup Simple \cup RouteAdds \cup RouteDels
                 \cup Listing \cup ArpOps
  BY MenuAssumption
<1> USE DEF Unclosed, Rewrites, Simple, RouteAdds, RouteDels, Listing, ArpOps
<1>5. Place(Start(c), c.op) /\ Start(c) \notin {"idle", "ioctl", "get", "set"}
  BY <1>4 DEF Place, Start
<1>6. Fine(m) /\ Socket(m)
  BY <1>2, <1>3, <1>5 DEF Fine, Socket
<1>7. Truth(m)
  <2>1. m.at = "arp_ask" /\ m.call.op = "arp_delete" => m.todo # {}
    BY <1>3 DEF t
  <2> QED
    BY <1>3, <1>5, <2>1 DEF Truth
<1>8. m.at # "set" /\ (m.at \in {"size", "dump"} => m.call.op # "route_get")
  BY <1>3, <1>4 DEF Start
<1> QED
  BY <1>1, <1>6, <1>7, <1>8, Elsewhere, StepKept DEF IInv, m

(* socket() and the ioctl of a simple call.                                *)
LEMMA IoctlKept == ASSUME IInv, NEW p \in Procs, Open(p) \/ OpenFails(p) \/ Ioctl(p) PROVE IInv'
<1> DEFINE r == proc[p]
<1>1. Fine(r) /\ Socket(r) /\ Truth(r) /\ DOMAIN r = Fields /\ Sound(k) /\ r.fds \in Nat
  BY DEF IInv, PInv, Fine
<1> USE DEF Unclosed, Rewrites, Simple, RouteDels
<1>2. CASE Open(p)
  <2> DEFINE where == IF r.call.op \notin Rewrites THEN "ioctl" ELSE "get"
             m == [r EXCEPT !.fds = @ + 1, !.at = where]
  <2>1. Step(p, m, k) /\ r.at = "open"
    BY <1>2 DEF Open
  <2> HIDE DEF where
  <2>2. /\ DOMAIN m = Fields /\ m.call = r.call /\ m.at = where /\ m.base = r.base
        /\ m.fds = r.fds + 1 /\ m.fails = r.fails /\ m.did = r.did
    BY <1>1, Zenon DEF Fields
  <2> HIDE DEF m
  <2>3. Fine(m) /\ Socket(m) /\ Truth(m) /\ m.at \notin {"set", "size", "dump"}
    BY <1>1, <2>1, <2>2 DEF where, Fine, Place, Socket, Truth
  <2> QED
    BY <1>1, <2>1, <2>3, Elsewhere, StepKept DEF m
<1>3. CASE OpenFails(p)
  <2> DEFINE ret == IF r.call.op \in Unclosed THEN "argument" ELSE "nil"
  <2>1. Step(p, Ends(r, 0, ret), k) /\ r.at = "open"
    BY <1>3 DEF OpenFails
  <2>2. PInv(Ends(r, 0, ret), k)
    BY <1>1, <2>1, EndKept DEF Socket
  <2> QED
    BY <1>1, <2>1, <2>2, StepKept
<1>4. CASE Ioctl(p)
  <2> DEFINE closes == IF r.call.op \in Unclosed THEN 0 ELSE 1
  <2>0. r.at = "ioctl" /\ r.call \in Menu /\ r.call.op \in Unclosed \cup Simple
    BY <1>1, <1>4 DEF Ioctl, Fine, Place
  <2>1. closes \in {0, 1} /\ r.fds - closes \in Nat /\ (r.call.op \notin Unclosed => r.fds - closes = r.base)
    BY <1>1, <2>0 DEF Socket, Fine
  <2> HIDE DEF closes
  <2>2. ASSUME NEW new \in Answers(r.call), r.call.op = "setip4",
               Step(p, [r EXCEPT !.at = "get", !.did = TRUE], new)
        PROVE  IInv'
    <3> DEFINE m == [r EXCEPT !.at = "get", !.did = TRUE]
    <3>1. /\ DOMAIN m = Fields /\ m.call = r.call /\ m.at = "get" /\ m.base = r.base
          /\ m.fds = r.fds /\ m.fails = r.fails /\ m.did
      BY <1>1, Zenon DEF Fields
    <3> HIDE DEF m
    <3>2. Fine(m) /\ Socket(m) /\ Truth(m) /\ m.at \notin {"set", "size", "dump"}
      BY <1>1, <2>0, <2>2, <3>1 DEF Fine, Place, Socket, Truth
    <3>3. Sound(new)
      BY <1>1, <2>0, <2>2, SoundAnswers
    <3> QED
      BY <2>2, <3>2, <3>3, Elsewhere, StepKept DEF m
  <2>3. ASSUME NEW new \in Answers(r.call), Step(p, Ends([r EXCEPT !.did = TRUE], closes, "true"), new)
        PROVE  IInv'
    <3> DEFINE m == [r EXCEPT !.did = TRUE]
    <3>1. /\ DOMAIN m = Fields /\ m.call = r.call /\ m.at = r.at /\ m.base = r.base
          /\ m.fds = r.fds /\ m.fails = r.fails /\ m.did
      BY <1>1, Zenon DEF Fields
    <3> HIDE DEF m
    <3>2. Fine(m)
      BY <1>1, <3>1 DEF Fine
    <3>3. PInv(Ends(m, closes, "true"), new)
      BY <2>1, <3>1, <3>2, EndKept
    <3>4. Sound(new)
      BY <1>1, <2>0, <2>3, SoundAnswers
    <3> QED
      BY <2>3, <3>3, <3>4, StepKept DEF m
  <2>4. ASSUME Step(p, Ends(r, closes, "nil"), k) PROVE IInv'
    <3>1. PInv(Ends(r, closes, "nil"), k)
      BY <1>1, <2>1, EndKept
    <3> QED
      BY <1>1, <2>4, <3>1, StepKept
  <2> QED
    BY <1>4, <2>2, <2>3, <2>4 DEF Ioctl, closes
<1> QED
  BY <1>2, <1>3, <1>4

(* SIOCGIFFLAGS and SIOCGIFCAP: what the call reads is there now.          *)
LEMMA GetBitsKept == ASSUME IInv, NEW p \in Procs, GetBits(p) PROVE IInv'
<1> DEFINE r == proc[p]
           n == r.call.name
<1>1. /\ Fine(r) /\ Socket(r) /\ Truth(r) /\ DOMAIN r = Fields /\ Sound(k)
      /\ r.fds \in Nat /\ r.base \in Nat
  BY DEF IInv, PInv, Fine
<1>2. r.at = "get" /\ r.call \in Menu /\ r.call.op \in Rewrites \cup {"setip4"}
  BY <1>1 DEF GetBits, Fine, Place
<1> USE DEF Unclosed, Rewrites, Simple, RouteDels
<1>3. r.fds = r.base + 1 /\ n \in Names
  BY <1>1, <1>2, MenuAssumption DEF Socket
<1>4. ASSUME Step(p, Ends(r, 1, "true"), k) PROVE IInv'
  <2>1. r.call.op \in OneRequest => r.did
    BY <1>1, <1>2 DEF Truth, OneRequest
  <2>2. r.fds - 1 = r.base
    BY <1>1, <1>3
  <2>3. PInv(Ends(r, 1, "true"), k)
    BY <1>1, <2>1, <2>2, EndKept
  <2> QED
    BY <1>1, <1>4, <2>3, StepKept
<1>5. ASSUME Step(p, Ends(r, 0, "nil"), k), r.call.op # "setip4" PROVE IInv'
  <2>1. r.fds - 0 = r.base + 1
    BY <1>1, <1>3
  <2>2. PInv(Ends(r, 0, "nil"), k)
    BY <1>1, <1>2, <1>5, <2>1, EndKept
  <2> QED
    BY <1>1, <1>5, <2>2, StepKept
<1>6. ASSUME NEW S, NEW m, Step(p, m, k), S = k.bits[n] \cap Class(r.call),
             DOMAIN m = Fields, m.call = r.call, m.at = "set", m.base = r.base,
             m.fds = r.fds, m.fails = r.fails, m.did = r.did, m.saw = S
      PROVE  IInv'
  <2>1. Fine(m) /\ Socket(m) /\ Truth(m) /\ Mapped(m, k)
    BY <1>1, <1>2, <1>6 DEF Fine, Place, Socket, Truth, Mapped
  <2>2. Fresh(m, k)
    BY <1>6 DEF Fresh
  <2> QED
    BY <1>1, <1>6, <2>1, <2>2, StepKept DEF PInv
<1>7. ASSUME Exists(n),
             Step(p, [r EXCEPT !.saw = k.bits[n] \cap Class(r.call), !.others = {}, !.at = "set"], k)
      PROVE  IInv'
  <2> DEFINE S == k.bits[n] \cap Class(r.call)
             m == [r EXCEPT !.saw = S, !.others = {}, !.at = "set"]
  <2> HIDE DEF S
  <2>1. /\ DOMAIN m = Fields /\ m.call = r.call /\ m.at = "set" /\ m.base = r.base
        /\ m.fds = r.fds /\ m.fails = r.fails /\ m.did = r.did /\ m.saw = S
    BY <1>1, Zenon DEF Fields
  <2>2. Step(p, m, k) /\ S = k.bits[n] \cap Class(r.call)
    BY <1>7 DEF S
  <2> HIDE DEF m
  <2> QED
    BY <1>6, <2>1, <2>2
<1>8. ASSUME ~Exists(n), Step(p, [r EXCEPT !.saw = {}, !.at = "set"], k)
      PROVE  IInv'
  <2> DEFINE m == [r EXCEPT !.saw = {}, !.at = "set"]
  <2>1. /\ DOMAIN m = Fields /\ m.call = r.call /\ m.at = "set" /\ m.base = r.base
        /\ m.fds = r.fds /\ m.fails = r.fails /\ m.did = r.did /\ m.saw = {}
    BY <1>1, Zenon DEF Fields
  <2>2. k.bits[n] = {}
    BY <1>1, <1>3, <1>8 DEF Sound, Exists
  <2>3. Step(p, m, k) /\ {} = k.bits[n] \cap Class(r.call)
    BY <1>8, <2>2
  <2> HIDE DEF m
  <2> QED
    BY <1>6, <2>1, <2>3
<1> QED
  BY <1>4, <1>5, <1>7, <1>8 DEF GetBits

(* SIOCSIFFLAGS and SIOCSIFCAP.                                            *)
LEMMA SetBitsKept == ASSUME IInv, NEW p \in Procs, SetBits(p) PROVE IInv'
<1> DEFINE r == proc[p]
           n == r.call.name
           ws == Tail(r.words)
           m == [r EXCEPT !.words = ws, !.at = "get", !.saw = {}, !.others = {}]
<1>1. /\ Fine(r) /\ Socket(r) /\ Truth(r) /\ DOMAIN r = Fields /\ Sound(k)
  BY DEF IInv, PInv, Fine
<1>2. r.at = "set" /\ r.call \in Menu /\ r.call.op \in Rewrites \cup {"setip4"}
  BY <1>1 DEF SetBits, Fine, Place
<1>3. n \in Names
  BY <1>2, MenuAssumption DEF Unclosed, Rewrites, Simple
<1> HIDE DEF ws
<1>4. /\ DOMAIN m = Fields /\ m.call = r.call /\ m.at = "get" /\ m.base = r.base
      /\ m.fds = r.fds /\ m.fails = r.fails /\ m.did = r.did
  BY <1>1, Zenon DEF Fields
<1>5. \/ Step(p, m, k)
      \/ Exists(n) /\ Step(p, m, [k EXCEPT !.bits[n] = (@ \ Class(r.call)) \cup Rewritten(r)])
  BY Zenon DEF SetBits, ws
<1> HIDE DEF m
<1>6. Fine(m) /\ Socket(m) /\ Truth(m) /\ m.at \notin {"set", "size", "dump"}
  BY <1>1, <1>2, <1>4 DEF Fine, Place, Socket, Truth, Rewrites, RouteDels
<1>7. CASE Step(p, m, k)
  BY <1>1, <1>6, <1>7, Elsewhere, StepKept
<1>8. CASE Exists(n) /\ Step(p, m, [k EXCEPT !.bits[n] = (@ \ Class(r.call)) \cup Rewritten(r)])
  <2> DEFINE b == (k.bits[n] \ Class(r.call)) \cup Rewritten(r)
             new == [k EXCEPT !.bits[n] = b]
  <2>1. Step(p, m, new)
    BY <1>8
  <2> HIDE DEF b
  <2>2. Sound(new)
    BY <1>1, <1>3, <1>8, SoundBits DEF Exists
  <2> HIDE DEF new
  <2> QED
    BY <1>6, <2>1, <2>2, Elsewhere, StepKept
<1> QED
  BY <1>5, <1>7, <1>8

Away == {"idle", "ioctl", "get", "set"}

(* A call without a socket of its own ends.                                *)
LEMMA EndsKept ==
  ASSUME IInv, NEW p \in Procs, proc[p].at \notin Away, NEW ret, NEW K, Sound(K),
         Step(p, Ends(proc[p], 0, ret), K),
         ret = "true" /\ proc[p].call.op \in OneRequest => proc[p].did
  PROVE  IInv'
<1>1. Fine(proc[p]) /\ Socket(proc[p])
  BY DEF IInv, PInv
<1>2. proc[p].fds - 0 = proc[p].fds /\ proc[p].fds \in Nat
  BY <1>1 DEF Fine
<1>3. PInv(Ends(proc[p], 0, ret), K)
  BY <1>1, <1>2, EndKept DEF Socket, Away
<1> QED
  BY <1>3, StepKept

(* Or goes on.                                                             *)
LEMMA OnKept ==
  ASSUME IInv, NEW p \in Procs, proc[p].at \notin Away, NEW m, NEW K, Sound(K), Step(p, m, K),
         DOMAIN m = Fields, m.call = proc[p].call, m.base = proc[p].base, m.fds = proc[p].fds,
         m.at \notin Away, Place(m.at, m.call.op), m.fails \in Nat,
         m.call.op \in {"clear"} \cup RouteDels => m.did \/ m.fails > 0,
         m.at = "arp_ask" /\ m.call.op = "arp_delete" => m.todo # {},
         m.at \in {"size", "dump"} => m.call.op # "route_get"
  PROVE  IInv'
<1>1. Fine(proc[p]) /\ Socket(proc[p])
  BY DEF IInv, PInv
<1>2. Fine(m) /\ Socket(m) /\ Truth(m) /\ m.at # "set"
  BY <1>1 DEF Fine, Socket, Truth, Away
<1> QED
  BY <1>2, Elsewhere, StepKept

(* getifaddrs() and what clear(), list(), info() and route_get() begin     *)
(* with: the table of names is made of the indices of the moment.          *)
LEMMA SnapshotKept == ASSUME IInv, NEW p \in Procs, Snapshot(p) \/ SnapshotFails(p) PROVE IInv'
<1> DEFINE r == proc[p]
           c == r.call
           there == {n \in Names : Exists(n)}
<1>1. /\ Fine(r) /\ Socket(r) /\ Truth(r) /\ DOMAIN r = Fields /\ Sound(k) /\ r.fails \in Nat
      /\ r.at = "snapshot" /\ c.op \in Listing
  BY DEF IInv, PInv, Fine, Place, Snapshot, SnapshotFails
<1> USE DEF Listing, RouteDels, RouteAdds, Unclosed
<1>2. CASE SnapshotFails(p)
  BY <1>1, <1>2, EndsKept DEF SnapshotFails, Away
<1>3. ASSUME NEW t, NEW i, c.op # "route_get",
             Step(p, [r EXCEPT !.at = "each", !.todo = t, !.room = i], k)
      PROVE  IInv'
  <2> DEFINE m == [r EXCEPT !.at = "each", !.todo = t, !.room = i]
  <2>1. /\ DOMAIN m = Fields /\ m.call = r.call /\ m.base = r.base /\ m.fds = r.fds
        /\ m.at = "each" /\ m.fails = r.fails /\ m.did = r.did
    BY <1>1, Zenon DEF Fields
  <2> HIDE DEF m
  <2>2. c.op \in {"clear"} \cup RouteDels => m.did \/ m.fails > 0
    BY <1>1, <2>1 DEF Truth
  <2>3. Place(m.at, m.call.op) /\ m.at \notin Away /\ r.at \notin Away
    BY <1>1, <1>3, <2>1 DEF Place, Away
  <2> QED
    BY <1>1, <1>3, <2>1, <2>2, <2>3, OnKept DEF m
<1>4. ASSUME NEW t, c.op # "route_get", Step(p, [r EXCEPT !.at = "each", !.todo = t], k)
      PROVE  IInv'
  <2> DEFINE m == [r EXCEPT !.at = "each", !.todo = t]
  <2>1. /\ DOMAIN m = Fields /\ m.call = r.call /\ m.base = r.base /\ m.fds = r.fds
        /\ m.at = "each" /\ m.fails = r.fails /\ m.did = r.did
    BY <1>1, Zenon DEF Fields
  <2> HIDE DEF m
  <2>2. c.op \in {"clear"} \cup RouteDels => m.did \/ m.fails > 0
    BY <1>1, <2>1 DEF Truth
  <2>3. Place(m.at, m.call.op) /\ m.at \notin Away /\ r.at \notin Away
    BY <1>1, <1>4, <2>1 DEF Place, Away
  <2> QED
    BY <1>1, <1>4, <2>1, <2>2, <2>3, OnKept DEF m
<1>5. ASSUME Snapshot(p), c.op = "route_get" PROVE IInv'
  <2> DEFINE t == Table(k)
             i == Slots(Indices(k))
             m == [r EXCEPT !.at = "size", !.moved = FALSE, !.map = t, !.room = i]
  <2>1. Step(p, m, k)
    BY <1>5 DEF Snapshot, Table, Indices, Exists
  <2> HIDE DEF t, i
  <2>2. /\ DOMAIN m = Fields /\ m.call = r.call /\ m.base = r.base /\ m.fds = r.fds
        /\ m.at = "size" /\ m.fails = r.fails /\ m.map = t /\ m.room = i
    BY <1>1, Zenon DEF Fields
  <2> HIDE DEF m
  <2>3. Fine(m) /\ Socket(m) /\ Truth(m) /\ Fresh(m, k)
    BY <1>1, <1>5, <2>2 DEF Fine, Place, Socket, Truth, Fresh
  <2>4. Mapped(m, k)
    BY <2>2 DEF Mapped, t, i
  <2> QED
    BY <1>1, <2>1, <2>3, <2>4, StepKept DEF PInv
<1>6. CASE Snapshot(p)
  <2>1. CASE c.op = "clear"
    BY <1>3, <1>6, <2>1 DEF Snapshot
  <2>2. CASE c.op = "list"
    BY <1>4, <1>6, <2>2 DEF Snapshot
  <2>3. CASE c.op = "info"
    BY <1>4, <1>6, <2>3 DEF Snapshot
  <2> QED
    BY <1>1, <1>5, <1>6, <2>1, <2>2, <2>3
<1> QED
  BY <1>2, <1>6

(* clear() passes over an address, deletes it or counts a failure.         *)
LEMMA ClearEachKept ==
  ASSUME IInv, NEW p \in Procs, NEW a, ClearEach(p, a)
  PROVE  IInv'
<1> DEFINE r == proc[p]
           n == r.call.name
           t == r.todo \ {a}
           m == [r EXCEPT !.todo = t]
           f == r.fails + 1
           l == [m EXCEPT !.fails = f, !.did = FALSE]
           b == k.addrs[n] \ {a}
           K == [k EXCEPT !.addrs[n] = b]
<1>1. /\ Fine(r) /\ Truth(r) /\ DOMAIN r = Fields /\ Sound(k) /\ r.fails \in Nat
      /\ r.at = "each" /\ r.call.op = "clear"
  BY DEF IInv, PInv, Fine, ClearEach
<1>2. \/ Step(p, m, K)
      \/ Step(p, l, k)
      \/ Step(p, m, k)
  BY Zenon DEF ClearEach
<1>3. f \in Nat /\ f > 0
  BY <1>1
<1> HIDE DEF t, f, b
<1>4. /\ DOMAIN m = Fields /\ m.call = r.call /\ m.base = r.base /\ m.fds = r.fds
      /\ m.at = r.at /\ m.fails = r.fails /\ m.did = r.did
  BY <1>1, Zenon DEF Fields
<1>5. Sound(K)
  <2>1. /\ DOMAIN K = DOMAIN k /\ K.index = k.index /\ K.bits = k.bits /\ K.rib = k.rib
        /\ K.addrs = [k.addrs EXCEPT ![n] = b]
    BY <1>1, Zenon DEF Sound
  <2> HIDE DEF K
  <2>2. DOMAIN K.addrs = Names
    BY <1>1, <2>1, Zenon DEF Sound
  <2> QED
    BY <1>1, <2>1, <2>2, SoundSame
<1> HIDE DEF K, m
<1>6. /\ DOMAIN l = Fields /\ l.call = r.call /\ l.base = r.base /\ l.fds = r.fds
      /\ l.at = r.at /\ l.fails = f
  BY <1>4, Zenon DEF Fields
<1> HIDE DEF l
<1>7. m.did \/ m.fails > 0
  BY <1>1, <1>4 DEF Truth
<1>8. Place(r.at, r.call.op) /\ r.at \notin Away
  BY <1>1 DEF Place, Away
<1>9. CASE Step(p, m, K) \/ Step(p, m, k)
  BY <1>1, <1>4, <1>5, <1>7, <1>8, <1>9, OnKept
<1>10. CASE Step(p, l, k)
  BY <1>1, <1>3, <1>6, <1>8, <1>10, OnKept
<1> QED
  BY <1>2, <1>9, <1>10

(* A step that changes no more of a call than what it has left to do and   *)
(* what it has seen, its place and whether it has asked.                   *)
LEMMA PlainKept ==
  ASSUME IInv, NEW p \in Procs, proc[p].at \notin Away, NEW m, NEW K, Sound(K), Step(p, m, K),
         DOMAIN m = Fields, m.call = proc[p].call, m.base = proc[p].base, m.fds = proc[p].fds,
         m.did = proc[p].did, m.fails = proc[p].fails \/ m.fails = 1,
         m.at \notin Away, Place(m.at, m.call.op),
         m.at \notin {"size", "dump", "arp_ask"} \/ m.call.op \notin {"route_get", "arp_delete"}
  PROVE  IInv'
<1>1. Fine(proc[p]) /\ Truth(proc[p])
  BY DEF IInv, PInv
<1>2. m.fails \in Nat /\ (m.call.op \in {"clear"} \cup RouteDels => m.did \/ m.fails > 0)
  BY <1>1 DEF Fine, Truth, Away
<1> QED
  BY <1>2, OnKept

(* list() and info(), interface by interface.                              *)
LEMMA EachKept ==
  ASSUME IInv, NEW p \in Procs, NEW n,
         ListEach(p, n) \/ InfoEach(p, n) \/ InfoParts(p) \/ InfoIps(p)
  PROVE  IInv'
<1> DEFINE r == proc[p]
           t == r.todo \ {n}
<1>1. Fine(r) /\ DOMAIN r = Fields /\ Sound(k) /\ Place(r.at, r.call.op)
  BY DEF IInv, PInv, Fine
<1> USE DEF Listing, Simple, RouteAdds, RouteDels, Unclosed, Rewrites, ArpOps
<1>2. CASE ListEach(p, n)
  <2> DEFINE m == [r EXCEPT !.todo = t]
  <2>1. Step(p, m, k) /\ r.at = "each" /\ r.call.op = "list"
    BY <1>2, Zenon DEF ListEach
  <2> HIDE DEF t
  <2>2. /\ DOMAIN m = Fields /\ m.call = r.call /\ m.base = r.base /\ m.fds = r.fds
        /\ m.at = r.at /\ m.fails = r.fails /\ m.did = r.did
    BY <1>1, Zenon DEF Fields
  <2> HIDE DEF m
  <2> QED
    BY <1>1, <2>1, <2>2, PlainKept DEF Away
<1>3. CASE InfoEach(p, n)
  <2> DEFINE m == [r EXCEPT !.todo = t, !.saw = {n}, !.at = "parts"]
  <2>1. Step(p, m, k) /\ r.at = "each" /\ r.call.op = "info"
    BY <1>3, Zenon DEF InfoEach
  <2> HIDE DEF t
  <2>2. /\ DOMAIN m = Fields /\ m.call = r.call /\ m.base = r.base /\ m.fds = r.fds
        /\ m.at = "parts" /\ m.fails = r.fails /\ m.did = r.did
    BY <1>1, Zenon DEF Fields
  <2> HIDE DEF m
  <2> QED
    BY <1>1, <2>1, <2>2, PlainKept DEF Away, Place
<1>4. CASE InfoParts(p)
  <2> DEFINE m == [r EXCEPT !.at = "ips"]
             l == [r EXCEPT !.at = "ips", !.fails = 1]
  <2>1. (Step(p, m, k) \/ Step(p, l, k)) /\ r.at = "parts"
    BY <1>4, Zenon DEF InfoParts
  <2>2. /\ DOMAIN m = Fields /\ m.call = r.call /\ m.base = r.base /\ m.fds = r.fds
        /\ m.at = "ips" /\ m.fails = r.fails /\ m.did = r.did
    BY <1>1, Zenon DEF Fields
  <2>3. /\ DOMAIN l = Fields /\ l.call = r.call /\ l.base = r.base /\ l.fds = r.fds
        /\ l.at = "ips" /\ l.fails = 1 /\ l.did = r.did
    BY <1>1, Zenon DEF Fields
  <2> HIDE DEF m, l
  <2>4. r.call.op = "info" /\ Place("ips", "info")
    BY <1>1, <2>1 DEF Place
  <2> QED
    BY <1>1, <2>1, <2>2, <2>3, <2>4, PlainKept DEF Away
<1>5. CASE InfoIps(p)
  <2> DEFINE m == [r EXCEPT !.at = "each", !.saw = {}]
             l == [r EXCEPT !.at = "each", !.saw = {}, !.fails = 1]
  <2>1. (Step(p, m, k) \/ Step(p, l, k)) /\ r.at = "ips"
    BY <1>5, Zenon DEF InfoIps
  <2>2. /\ DOMAIN m = Fields /\ m.call = r.call /\ m.base = r.base /\ m.fds = r.fds
        /\ m.at = "each" /\ m.fails = r.fails /\ m.did = r.did
    BY <1>1, Zenon DEF Fields
  <2>3. /\ DOMAIN l = Fields /\ l.call = r.call /\ l.base = r.base /\ l.fds = r.fds
        /\ l.at = "each" /\ l.fails = 1 /\ l.did = r.did
    BY <1>1, Zenon DEF Fields
  <2> HIDE DEF m, l
  <2>4. r.call.op = "info" /\ Place("each", "info")
    BY <1>1, <2>1 DEF Place
  <2> QED
    BY <1>1, <2>1, <2>2, <2>3, <2>4, PlainKept DEF Away
<1> QED
  BY <1>2, <1>3, <1>4, <1>5

(* The end of clear(), list() and info().                                  *)
LEMMA EachEndsKept == ASSUME IInv, NEW p \in Procs, EachEnds(p) PROVE IInv'
<1> DEFINE r == proc[p]
           ret == CASE r.call.op # "clear" -> "table"
                    [] OTHER -> IF r.fails > 0 THEN "count"
                                ELSE IF r.room = 1 THEN "true"
                                ELSE "nil"
<1>1. Fine(r) /\ Truth(r) /\ Sound(k)
  BY DEF IInv, PInv
<1>2. Step(p, Ends(r, 0, ret), k) /\ r.at = "each"
  BY Zenon DEF EachEnds
<1>3. ret = "true" => r.call.op = "clear" /\ ~(r.fails > 0)
  <2>1. CASE r.call.op # "clear"
    BY <2>1
  <2>2. CASE r.call.op = "clear"
    BY <2>2
  <2> QED
    BY <2>1, <2>2
<1> HIDE DEF ret
<1> QED
  BY <1>1, <1>2, <1>3, EndsKept DEF Away, Truth

(* A routing message, of which the kernel makes one of the tables of S.    *)
LEMMA RtMsgKept ==
  ASSUME IInv, NEW p \in Procs, NEW f \in Fibs, NEW d, NEW S, RtMsg(p, f, S),
         S = Added(f, d) \/ S = Dropped(f, d)
  PROVE  IInv'
<1> DEFINE r == proc[p]
           t == r.todo \ {f}
           m == [r EXCEPT !.todo = t]
           clean == r.fails = 0
           more == r.fails + 1
           done == [m EXCEPT !.did = clean]
           not == [m EXCEPT !.fails = more, !.did = FALSE]
<1>1. /\ Fine(r) /\ DOMAIN r = Fields /\ Sound(k) /\ r.fails \in Nat
      /\ r.at = "route" /\ Place(r.at, r.call.op) /\ r.at \notin Away
  BY DEF IInv, PInv, Fine, RtMsg, Away
<1>2. \/ \E new \in S : Step(p, done, new)
      \/ Step(p, not, k)
  BY Zenon DEF RtMsg
<1>3. more \in Nat /\ more > 0
  BY <1>1
<1> HIDE DEF t, clean, more
<1>4. /\ DOMAIN m = Fields /\ m.call = r.call /\ m.base = r.base /\ m.fds = r.fds
      /\ m.at = r.at /\ m.fails = r.fails
  BY <1>1, Zenon DEF Fields
<1> HIDE DEF m
<1>5. /\ DOMAIN done = Fields /\ done.call = r.call /\ done.base = r.base /\ done.fds = r.fds
      /\ done.at = r.at /\ done.fails = r.fails /\ (clean => done.did)
  BY <1>4, Zenon DEF Fields
<1>6. /\ DOMAIN not = Fields /\ not.call = r.call /\ not.base = r.base /\ not.fds = r.fds
      /\ not.at = r.at /\ not.fails = more
  BY <1>4, Zenon DEF Fields
<1> HIDE DEF done, not
<1>7. CASE \E new \in S : Step(p, done, new)
  <2>1. PICK new \in S : Step(p, done, new)
    BY <1>7
  <2>2. Sound(new)
    BY <1>1, SoundRoutes
  <2>3. done.did \/ done.fails > 0
    BY <1>1, <1>5 DEF clean
  <2> QED
    BY <1>1, <1>5, <2>1, <2>2, <2>3, OnKept
<1>8. CASE Step(p, not, k)
  BY <1>1, <1>3, <1>6, <1>8, OnKept
<1> QED
  BY <1>2, <1>7, <1>8

(* The routes of a call, from the tables it looks through to its result.   *)
LEMMA RouteKept ==
  ASSUME IInv, NEW p \in Procs, NEW f \in Fibs,
         \/ FillFibs(p) \/ RoutesEnd(p) \/ PassTable(p, f) \/ RouteAdd(p, f)
         \/ RouteAddStatic4(p, f) \/ RouteDel(p, f) \/ RouteDelStatic4(p, f)
  PROVE  IInv'
<1> DEFINE r == proc[p]
<1>1. Fine(r) /\ Truth(r) /\ DOMAIN r = Fields /\ Sound(k) /\ Place(r.at, r.call.op)
  BY DEF IInv, PInv, Fine
<1> USE DEF RouteAdds, RouteDels
<1>2. CASE FillFibs(p)
  <2> DEFINE m == [r EXCEPT !.at = "route", !.todo = {MyFib}]
  <2>1. (Step(p, m, k) \/ Step(p, Ends(r, 0, "nil"), k)) /\ r.at = "fibs"
    BY <1>2, Zenon DEF FillFibs
  <2>2. /\ DOMAIN m = Fields /\ m.call = r.call /\ m.base = r.base /\ m.fds = r.fds
        /\ m.at = "route" /\ m.fails = r.fails /\ m.did = r.did
    BY <1>1, Zenon DEF Fields
  <2> HIDE DEF m
  <2>3. Place(m.at, m.call.op)
    BY <1>1, <2>1, <2>2 DEF Place
  <2>4. CASE Step(p, m, k)
    BY <1>1, <2>1, <2>2, <2>3, <2>4, PlainKept DEF Away
  <2>5. CASE Step(p, Ends(r, 0, "nil"), k)
    BY <1>1, <2>1, <2>5, EndsKept DEF Away
  <2> QED
    BY <2>1, <2>4, <2>5
<1>3. CASE RoutesEnd(p)
  <2> DEFINE ret == IF r.fails = 0 THEN "true" ELSE "nil"
  <2>1. Step(p, Ends(r, 0, ret), k) /\ r.at = "route"
    BY <1>3, Zenon DEF RoutesEnd
  <2>2. ret = "true" /\ r.call.op \in OneRequest => r.did
    BY <1>1, <2>1 DEF Place, OneRequest, Truth, Simple, Unclosed, Fine
  <2> HIDE DEF ret
  <2> QED
    BY <1>1, <2>1, <2>2, EndsKept DEF Away
<1>4. CASE PassTable(p, f)
  <2> DEFINE t == r.todo \ {f}
             m == [r EXCEPT !.todo = t]
  <2>1. Step(p, m, k) /\ r.at = "route"
    BY <1>4, Zenon DEF PassTable
  <2> HIDE DEF t
  <2>2. /\ DOMAIN m = Fields /\ m.call = r.call /\ m.base = r.base /\ m.fds = r.fds
        /\ m.at = r.at /\ m.fails = r.fails /\ m.did = r.did
    BY <1>1, Zenon DEF Fields
  <2> HIDE DEF m
  <2> QED
    BY <1>1, <2>1, <2>2, PlainKept DEF Away
<1>5. CASE RouteAdd(p, f)
  <2>1. RtMsg(p, f, Added(f, Default))
    BY <1>5 DEF RouteAdd
  <2> QED
    BY <2>1, RtMsgKept, Zenon
<1>6. CASE RouteAddStatic4(p, f)
  <2>1. RtMsg(p, f, Added(f, r.call.dest))
    BY <1>6 DEF RouteAddStatic4
  <2> QED
    BY <2>1, RtMsgKept, Zenon
<1>7. CASE RouteDel(p, f)
  <2>1. RtMsg(p, f, Dropped(f, Default))
    BY <1>7 DEF RouteDel
  <2> QED
    BY <2>1, RtMsgKept, Zenon
<1>8. CASE RouteDelStatic4(p, f)
  <2>1. RtMsg(p, f, Dropped(f, r.call.dest))
    BY <1>8 DEF RouteDelStatic4
  <2> QED
    BY <2>1, RtMsgKept, Zenon
<1> QED
  BY <1>2, <1>3, <1>4, <1>5, <1>6, <1>7, <1>8

(* route_get(): its table of names stays while it reads the routes.        *)
LEMMA DumpKept ==
  ASSUME IInv, NEW p \in Procs, RouteSize(p) \/ DumpRoutes(p)
  PROVE  IInv'
<1> DEFINE r == proc[p]
           now == Cardinality(k.rib[MyFib])
<1>1. PInv(r, k) /\ DOMAIN r = Fields /\ Sound(k) /\ r.call.op = "route_get"
  BY DEF IInv, PInv, Fine, RouteSize, DumpRoutes
<1>2. "route_get" \notin OneRequest /\ "route_get" \notin RouteDels
  BY DEF OneRequest, Simple, Unclosed, RouteDels
<1> HIDE DEF now
<1>3. CASE RouteSize(p)
  <2> DEFINE m == [r EXCEPT !.at = "dump", !.saw = {now}]
  <2>1. (Step(p, m, k) \/ Step(p, Ends(r, 0, "nil"), k)) /\ r.at = "size"
    BY <1>3, Zenon DEF RouteSize, now
  <2>2. /\ DOMAIN m = Fields /\ m.call = r.call /\ m.base = r.base /\ m.fds = r.fds
        /\ m.at = "dump" /\ m.fails = r.fails /\ m.map = r.map /\ m.room = r.room
        /\ (~m.moved => ~r.moved)
    BY <1>1, Zenon DEF Fields
  <2> HIDE DEF m
  <2>3. Fine(m) /\ Socket(m)
    BY <1>1, <2>1, <2>2 DEF PInv, Fine, Place, Socket, ArpOps
  <2>4. Truth(m) /\ Fresh(m, k)
    BY <1>1, <1>2, <2>2 DEF Truth, Fresh
  <2>5. Mapped(m, k)
    BY <1>1, <2>1, <2>2 DEF PInv, Mapped
  <2>6. CASE Step(p, m, k)
    BY <1>1, <2>3, <2>4, <2>5, <2>6, StepKept DEF PInv
  <2>7. CASE Step(p, Ends(r, 0, "nil"), k)
    BY <1>1, <2>1, <2>7, EndsKept DEF Away
  <2> QED
    BY <2>1, <2>6, <2>7
<1>4. CASE DumpRoutes(p)
  <2> DEFINE ret == IF \E size \in r.saw : now > size THEN "nil" ELSE "table"
  <2>1. Step(p, Ends(r, 0, ret), k) /\ r.at = "dump"
    BY <1>4, Zenon DEF DumpRoutes, now
  <2>2. ret # "true"
    OBVIOUS
  <2> HIDE DEF ret
  <2> QED
    BY <1>1, <2>1, <2>2, EndsKept DEF Away
<1> QED
  BY <1>3, <1>4

(* The ARP table: read, searched and flushed, host by host.                *)
LEMMA ArpKept ==
  ASSUME IInv, NEW p \in Procs,
         ArpSize(p) \/ DumpAgain(p) \/ ArpGet(p) \/ ArpFlush(p) \/ FlushEnds(p)
  PROVE  IInv'
<1> DEFINE r == proc[p]
           c == r.call
           size == Cardinality(k.hosts)
<1>1. Fine(r) /\ Truth(r) /\ DOMAIN r = Fields /\ Sound(k) /\ Place(r.at, c.op)
  BY DEF IInv, PInv, Fine
<1>2. ASSUME NEW S PROVE Found(c, S) # "true"
  BY DEF Found
<1> HIDE DEF size
<1> USE DEF ArpOps, RouteDels
<1>3. ASSUME NEW ret, Step(p, Ends(r, 0, ret), k), r.at \notin Away,
             ret = "true" => r.call.op = "arp_flush"
      PROVE  IInv'
  BY <1>1, <1>3, EndsKept DEF OneRequest, Simple, Unclosed
<1>4. CASE ArpSize(p)
  <2> DEFINE m == [r EXCEPT !.at = "dump", !.room = size]
             ret == IF r.call.op = "arp_flush" THEN "true" ELSE Found(r.call, {})
  <2>1. /\ r.at = "size" /\ r.call.op \in ArpOps
        /\ Step(p, m, k) \/ Step(p, Ends(r, 0, ret), k) \/ Step(p, Ends(r, 0, "nil"), k)
    BY <1>4, Zenon DEF ArpSize, size
  <2>2. ret = "true" => r.call.op = "arp_flush"
    BY <1>2
  <2> HIDE DEF ret
  <2>3. /\ DOMAIN m = Fields /\ m.call = r.call /\ m.base = r.base /\ m.fds = r.fds
        /\ m.at = "dump" /\ m.fails = r.fails /\ m.did = r.did
    BY <1>1, Zenon DEF Fields
  <2> HIDE DEF m
  <2>4. CASE Step(p, m, k)
    <3>1. Place(m.at, m.call.op) /\ m.at \notin Away /\ r.at \notin Away
      BY <2>1, <2>3 DEF Place, Away
    <3>2. m.fails \in Nat /\ m.call.op \notin {"clear"} \cup RouteDels
      BY <1>1, <2>1, <2>3 DEF Fine
    <3> QED
      BY <1>1, <2>1, <2>3, <2>4, <3>1, <3>2, OnKept
  <2>5. CASE Step(p, Ends(r, 0, ret), k) \/ Step(p, Ends(r, 0, "nil"), k)
    BY <1>3, <2>1, <2>2, <2>5 DEF Away
  <2> QED
    BY <2>1, <2>4, <2>5
<1>5. CASE DumpAgain(p)
  <2> DEFINE n == MoreRoom(r.room)
             m == [r EXCEPT !.room = n]
  <2>1. r.at = "dump" /\ r.call.op \in ArpOps /\ Step(p, m, k)
    BY <1>5, Zenon DEF DumpAgain
  <2> HIDE DEF n
  <2>2. /\ DOMAIN m = Fields /\ m.call = r.call /\ m.base = r.base /\ m.fds = r.fds
        /\ m.at = r.at /\ m.fails = r.fails /\ m.did = r.did
    BY <1>1, Zenon DEF Fields
  <2> HIDE DEF m
  <2>3. Place(m.at, m.call.op) /\ m.at \notin Away /\ r.at \notin Away
    BY <2>1, <2>2 DEF Place, Away
  <2>4. m.fails \in Nat /\ m.call.op \notin {"clear"} \cup RouteDels
    BY <1>1, <2>1, <2>2 DEF Fine
  <2> QED
    BY <1>1, <2>1, <2>2, <2>3, <2>4, OnKept
<1>6. CASE ArpGet(p)
  BY <1>2, <1>3, <1>6 DEF ArpGet, Away
<1>7. CASE ArpFlush(p)
  <2> DEFINE t == k.hosts \ Pinned
             m == [r EXCEPT !.at = "arp_ask", !.todo = t]
  <2>1. r.at = "dump" /\ r.call.op = "arp_flush" /\ Step(p, m, k)
    BY <1>7, Zenon DEF ArpFlush
  <2> HIDE DEF t
  <2>2. /\ DOMAIN m = Fields /\ m.call = r.call /\ m.base = r.base /\ m.fds = r.fds
        /\ m.at = "arp_ask" /\ m.fails = r.fails /\ m.did = r.did
    BY <1>1, Zenon DEF Fields
  <2> HIDE DEF m
  <2>3. Place(m.at, m.call.op) /\ m.at \notin Away /\ r.at \notin Away
    BY <2>1, <2>2 DEF Place, Away
  <2> QED
    BY <1>1, <2>1, <2>2, <2>3, PlainKept
<1>8. CASE FlushEnds(p)
  <2>1. Step(p, Ends(r, 0, "true"), k) /\ r.at = "arp_ask" /\ r.todo = {}
    BY <1>8, Zenon DEF FlushEnds
  <2>2. r.call.op = "arp_flush"
    BY <1>1, <2>1 DEF Truth, Place
  <2> QED
    BY <1>3, <2>1, <2>2 DEF Away
<1> QED
  BY <1>4, <1>5, <1>6, <1>7, <1>8

(* A host is asked for, and deleted.                                       *)
LEMMA ArpDeleteKept ==
  ASSUME IInv, NEW p \in Procs, NEW h, ArpAsk(p, h) \/ ArpDelete(p)
  PROVE  IInv'
<1> DEFINE r == proc[p]
           c == r.call
           t == r.todo \ {h}
<1>1. /\ Fine(r) /\ Truth(r) /\ Socket(r) /\ DOMAIN r = Fields /\ Sound(k)
      /\ r.at \in {"arp_ask", "arp_delete"} /\ c.op \in {"arp_delete", "arp_flush"}
      /\ r.at \notin Away
  BY DEF IInv, PInv, Fine, Place, ArpAsk, ArpDelete, Away
<1>2. CASE ArpAsk(p, h)
  <2> DEFINE on == [r EXCEPT !.arp = TRUE]
             m == [on EXCEPT !.at = "arp_delete", !.todo = @ \ {h}, !.saw = {h}]
             l == [r EXCEPT !.todo = t]
  <2>1. \/ Step(p, m, k)
        \/ r.call.op = "arp_flush" /\ Step(p, l, k)
        \/ Step(p, Ends(r, 0, "nil"), k)
    BY <1>2, Zenon DEF ArpAsk
  <2>2. /\ DOMAIN on = Fields /\ on.call = r.call /\ on.base = r.base /\ on.fds = r.fds
        /\ on.fails = r.fails /\ on.did = r.did
    BY <1>1, Zenon DEF Fields
  <2> HIDE DEF on
  <2>3. /\ DOMAIN m = Fields /\ m.call = r.call /\ m.base = r.base /\ m.fds = r.fds
        /\ m.at = "arp_delete" /\ m.fails = r.fails /\ m.did = r.did
    BY <2>2, Zenon DEF Fields
  <2> HIDE DEF t
  <2>4. /\ DOMAIN l = Fields /\ l.call = r.call /\ l.base = r.base /\ l.fds = r.fds
        /\ l.at = r.at /\ l.fails = r.fails /\ l.did = r.did
    BY <1>1, Zenon DEF Fields
  <2> HIDE DEF m, l
  <2>5. CASE Step(p, m, k)
    <3>1. Place(m.at, m.call.op) /\ m.at \notin Away
      BY <1>1, <2>3 DEF Place, Away
    <3> QED
      BY <1>1, <2>3, <2>5, <3>1, PlainKept
  <2>6. CASE r.call.op = "arp_flush" /\ Step(p, l, k)
    <3>1. Place(l.at, l.call.op) /\ l.at \notin Away
      BY <1>1, <2>4 DEF Place, Away
    <3> QED
      BY <1>1, <2>4, <2>6, <3>1, PlainKept
  <2>7. CASE Step(p, Ends(r, 0, "nil"), k)
    BY <1>1, <2>7, EndsKept
  <2> QED
    BY <2>1, <2>5, <2>6, <2>7
<1>3. CASE ArpDelete(p)
  <2> DEFINE S == k.hosts \ r.saw
             K == [k EXCEPT !.hosts = S]
             m == [r EXCEPT !.at = "arp_ask", !.saw = {}]
             l == [r EXCEPT !.did = TRUE]
  <2>1. \/ r.call.op = "arp_flush" /\ Step(p, m, K)
        \/ Step(p, Ends(l, 0, "true"), K)
    <3>1. CASE c.op = "arp_flush"
      BY <1>3, <3>1, Zenon DEF ArpDelete
    <3>2. CASE c.op # "arp_flush"
      BY <1>3, <3>2, Zenon DEF ArpDelete
    <3> QED
      BY <3>1, <3>2
  <2> HIDE DEF S
  <2>2. Sound(K)
    <3>1. /\ DOMAIN K = DOMAIN k /\ K.index = k.index /\ K.bits = k.bits /\ K.rib = k.rib
          /\ K.addrs = k.addrs
      BY <1>1, Zenon DEF Sound
    <3> HIDE DEF K
    <3> QED
      BY <1>1, <3>1, SoundSame DEF Sound
  <2>3. /\ DOMAIN m = Fields /\ m.call = r.call /\ m.base = r.base /\ m.fds = r.fds
        /\ m.at = "arp_ask" /\ m.fails = r.fails /\ m.did = r.did
    BY <1>1, Zenon DEF Fields
  <2>4. /\ DOMAIN l = Fields /\ l.call = r.call /\ l.base = r.base /\ l.fds = r.fds
        /\ l.at = r.at /\ l.fails = r.fails /\ l.did
    BY <1>1, Zenon DEF Fields
  <2> HIDE DEF K, m, l
  <2>5. CASE r.call.op = "arp_flush" /\ Step(p, m, K)
    <3>1. Place(m.at, m.call.op) /\ m.at \notin Away
      BY <1>1, <2>3 DEF Place, Away
    <3> QED
      BY <1>1, <2>2, <2>3, <2>5, <3>1, PlainKept
  <2>6. CASE Step(p, Ends(l, 0, "true"), K)
    <3>1. Fine(l) /\ l.fds - 0 = r.base
      BY <1>1, <2>4 DEF Fine, Socket, Away, Unclosed
    <3>2. PInv(Ends(l, 0, "true"), K)
      BY <2>4, <3>1, EndKept DEF Fine
    <3> QED
      BY <1>1, <2>2, <2>6, <3>2, StepKept
  <2> QED
    BY <2>1, <2>5, <2>6
<1> QED
  BY <1>2, <1>3

(* A host is heard of.                                                     *)
LEMMA LearnKept == ASSUME IInv, NEW h, Learn(h) PROVE IInv'
<1> DEFINE S == k.hosts \cup {h}
<1>1. k' = [k EXCEPT !.hosts = S] /\ proc' = proc
  BY Zenon DEF Learn
<1> HIDE DEF S
<1>2. Sound(k) /\ DOMAIN proc = Procs
  BY DEF IInv
<1>3. /\ DOMAIN k' = DOMAIN k /\ k'.index = k.index /\ k'.bits = k.bits /\ k'.rib = k.rib
      /\ k'.addrs = k.addrs
  BY <1>1, <1>2, Zenon DEF Sound
<1>4. Sound(k')
  BY <1>2, <1>3, SoundSame DEF Sound
<1>5. Table(k') = Table(k) /\ Indices(k') = Indices(k)
  BY <1>3, Zenon DEF Table, Indices
<1>6. ASSUME NEW p \in Procs PROVE PInv(proc[p], k')
  <2>1. PInv(proc[p], k)
    BY DEF IInv
  <2>2. Fresh(proc[p], k')
    BY <1>3, <2>1 DEF PInv, Fresh
  <2>3. Mapped(proc[p], k')
    BY <1>5, <2>1 DEF PInv, Mapped
  <2> QED
    BY <2>1, <2>2, <2>3 DEF PInv
<1> QED
  BY <1>1, <1>2, <1>4, <1>6 DEF IInv

(* A step of a call.                                                       *)
LEMMA RunKept == ASSUME IInv, NEW p \in Procs, Running(p) PROVE IInv'
<1>1. CASE \E a \in Addrs : ClearEach(p, a)
  BY <1>1, ClearEachKept
<1>2. CASE \E n \in Names : ListEach(p, n) \/ InfoEach(p, n)
  BY <1>2, EachKept
<1>3. CASE InfoParts(p) \/ InfoIps(p)
  BY <1>3, EachKept
<1>4. CASE \E f \in Fibs : \/ PassTable(p, f) \/ RouteAdd(p, f) \/ RouteAddStatic4(p, f)
                           \/ RouteDel(p, f) \/ RouteDelStatic4(p, f)
  BY <1>4, RouteKept
<1>5. CASE FillFibs(p) \/ RoutesEnd(p)
  BY <1>5, RouteKept, IndexAssumption
<1>6. CASE (\E h \in Hosts : ArpAsk(p, h)) \/ ArpDelete(p)
  BY <1>6, ArpDeleteKept
<1>7. CASE Open(p) \/ OpenFails(p) \/ Ioctl(p) \/ GetBits(p) \/ SetBits(p)
  BY <1>7, IoctlKept, GetBitsKept, SetBitsKept
<1>8. CASE Snapshot(p) \/ SnapshotFails(p) \/ EachEnds(p) \/ RouteSize(p) \/ DumpRoutes(p)
  BY <1>8, SnapshotKept, EachEndsKept, DumpKept
<1>9. CASE ArpSize(p) \/ DumpAgain(p) \/ ArpGet(p) \/ ArpFlush(p) \/ FlushEnds(p)
  BY <1>9, ArpKept
<1> QED
  BY <1>1, <1>2, <1>3, <1>4, <1>5, <1>6, <1>7, <1>8, <1>9 DEF Running

(* And of the system.                                                      *)
LEMMA NextKept == IInv /\ [Next]_vars => IInv'
<1> SUFFICES ASSUME IInv, [Next]_vars PROVE IInv'
  OBVIOUS
<1>1. CASE \E p \in Procs : \E c \in Menu : Call(p, c)
  BY <1>1, CallKept
<1>2. CASE \E p \in Procs : Running(p)
  BY <1>2, RunKept
<1>3. CASE \E h \in Hosts : Learn(h)
  BY <1>3, LearnKept
<1>4. CASE UNCHANGED vars
  BY <1>4 DEF vars, IInv
<1> QED
  BY <1>1, <1>2, <1>3, <1>4 DEF Next

-----------------------------------------------------------------------------
(* The table of names of route_get() and its length.                       *)

(* A set of indices has a greatest one.                                    *)
LEMMA Greatest ==
  ASSUME NEW S \in SUBSET Index, S # {}
  PROVE  \E i \in S : \A j \in S : j <= i
<1> DEFINE n == Cardinality(Index)
           D == {n - i : i \in S}
<1>1. n \in Nat /\ Index = 1 .. n
  BY IndexAssumption, FS_CardinalityType
<1> HIDE DEF n
<1>2. D \subseteq Nat /\ D # {}
  BY <1>1
<1>3. PICK x \in D : \A y \in D : <<y, x>> \notin OpToRel(<, Nat)
  <2> HIDE DEF D
  <2> QED
    BY <1>2, NatLessThanWellFounded, WFMin, Zenon
<1>4. \A y \in D : ~(y < x)
  BY <1>2, <1>3 DEF OpToRel
<1>5. PICK i \in S : x = n - i
  BY <1>3
<1>6. ASSUME NEW j \in S PROVE j <= i
  <2>1. ~(n - j < n - i)
    BY <1>4, <1>5
  <2> QED
    BY <1>1, <2>1
<1> QED
  BY <1>6

(* A number rounded up is no less.                                         *)
LEMMA Rounded == ASSUME NEW i \in Nat PROVE RoundUp(i) >= i
<1>1. Chunk \in Nat \ {0}
  BY IndexAssumption
<1>2. PICK a \in Nat : a = i + Chunk - 1
  BY <1>1
<1>3. a \div Chunk \in Int /\ (a % Chunk) \in 0 .. Chunk - 1 /\ a = Chunk * (a \div Chunk) + (a % Chunk)
  BY <1>1
<1> DEFINE q == a \div Chunk
<1>4. Chunk * q = q * Chunk /\ q * Chunk \in Int
  BY <1>1, <1>3
<1> HIDE DEF q
<1>5. q * Chunk >= i
  BY <1>1, <1>2, <1>3, <1>4 DEF q
<1> QED
  BY <1>2, <1>5 DEF RoundUp, q

(* There is a place for each index.                                        *)
LEMMA SlotsHold ==
  ASSUME NEW S \in SUBSET Index, NEW i \in S
  PROVE  i < Slots(S)
<1> DEFINE m == CHOOSE x \in S : \A j \in S : j <= x
<1>1. m \in S /\ \A j \in S : j <= m
  BY Greatest
<1>2. Slots(S) = RoundUp(1 + m)
  BY DEF Slots
<1>3. Index \subseteq Nat
  BY IndexAssumption, FS_CardinalityType
<1> HIDE DEF m
<1>4. RoundUp(1 + m) >= 1 + m /\ i \in Nat /\ m \in Nat /\ i <= m
  BY <1>1, <1>3, Rounded
<1>5. RoundUp(1 + m) \in Int
  <2>1. Chunk \in Nat \ {0}
    BY IndexAssumption
  <2>2. PICK a \in Nat : a = 1 + m + Chunk - 1
    BY <1>4, <2>1
  <2>3. a \div Chunk \in Int
    BY <2>1
  <2>4. (a \div Chunk) * Chunk \in Int
    BY <2>1, <2>3
  <2> QED
    BY <2>2, <2>4 DEF RoundUp
<1> QED
  BY <1>2, <1>4, <1>5

-----------------------------------------------------------------------------
(* The invariant holds always.                                             *)
THEOREM Invariance == Spec => []IInv
  BY InitInv, NextKept, PTL DEF Spec

(* Every call closes the sockets it opens, whatever fails and whatever     *)
(* other processes do meanwhile, but for the calls that are known not to.  *)
THEOREM CallsClose == Spec => []SocketsClosed
<1>1. IInv => SocketsClosed
  BY DEF IInv, PInv, Socket, SocketsClosed
<1> QED
  BY <1>1, Invariance, PTL

(* What a call says it has done is done.                                   *)
THEOREM CallsTrue == Spec => []TrueMeansDone
<1>1. IInv => TrueMeansDone
  BY DEF IInv, PInv, Truth, OneRequest, TrueMeansDone
<1> QED
  BY <1>1, Invariance, PTL

(* route_get() never looks past its table of names, and finds the name of  *)
(* the interface of every route, as long as no interface comes or goes.    *)
THEOREM RoutesFound == Spec => []RoutesNamed
<1>1. ASSUME IInv PROVE RoutesNamed
  <2> SUFFICES ASSUME NEW p \in Procs, proc[p].at = "dump", proc[p].call.op = "route_get",
                      ~proc[p].moved, NEW r \in k.rib[MyFib]
               PROVE  /\ r.index < proc[p].room
                      /\ proc[p].map[r.index] # NoName
                      /\ k.index[proc[p].map[r.index]] = r.index
    BY DEF RoutesNamed
  <2>1. proc[p].map = Table(k) /\ proc[p].room = Slots(Indices(k)) /\ Sound(k)
    BY <1>1 DEF IInv, PInv, Mapped
  <2>2. PICK nic \in Names : k.index[nic] = r.index /\ r.index # 0
    BY <2>1, IndexAssumption DEF Sound
  <2>3. Indices(k) \in SUBSET Index /\ r.index \in Indices(k)
    BY <2>1, <2>2 DEF Sound, Indices
  <2>4. r.index < Slots(Indices(k))
    BY <2>3, SlotsHold
  <2> DEFINE m == CHOOSE n \in Names : k.index[n] = r.index
  <2>5. m \in Names /\ k.index[m] = r.index
    BY <2>2
  <2>6. Table(k)[r.index] = m
    BY <2>2, <2>3 DEF Table
  <2> HIDE DEF m
  <2>7. m # NoName
    BY <2>5, KernelAssumption
  <2> QED
    BY <2>1, <2>4, <2>5, <2>6, <2>7
<1> QED
  BY <1>1, Invariance, PTL

-----------------------------------------------------------------------------
(* What a call writes back.                                                *)

(* The other processes stay where they are.                                *)
OthersStay(p) == \A q \in Procs \ {p} : proc'[q].at = proc[q].at

(* For a call the others' history is all that changes.                     *)
LEMMA StepStays ==
  ASSUME IInv, NEW p, NEW me, NEW new, Step(p, me, new)
  PROVE  OthersStay(p)
<1> SUFFICES ASSUME NEW q \in Procs \ {p} PROVE proc'[q].at = proc[q].at
  BY DEF OthersStay
<1> DEFINE r == proc[q]
<1>1. DOMAIN r = Fields
  BY DEF IInv, PInv, Fine
<1>2. \/ proc'[q] = [r EXCEPT !.others = @ \cup Changed(k, new, r.call.name)]
      \/ proc'[q] = [r EXCEPT !.moved = @ \/ new.index # k.index]
      \/ proc'[q] = r
  BY Zenon DEF Step
<1> HIDE DEF r
<1>3. proc'[q].at = r.at
  BY <1>1, <1>2, Zenon DEF Fields
<1> QED
  BY <1>3 DEF r

(* Every action is a step of one process.                                  *)
LEMMA RunStays == ASSUME IInv, NEW p \in Procs, Running(p) PROVE OthersStay(p)
<1>1. ASSUME NEW f, NEW S, RtMsg(p, f, S) PROVE OthersStay(p)
  BY <1>1, StepStays, Zenon DEF RtMsg
<1>2. CASE Open(p) \/ OpenFails(p)
  BY <1>2, StepStays, Zenon DEF Open, OpenFails
<1>3. CASE Ioctl(p)
  BY <1>3, StepStays, Zenon DEF Ioctl
<1>4. CASE GetBits(p)
  BY <1>4, StepStays, Zenon DEF GetBits
<1>5. CASE SetBits(p)
  BY <1>5, StepStays, Zenon DEF SetBits
<1>6. CASE Snapshot(p)
  <2>1. proc[p].call.op \in Listing
    BY <1>6 DEF IInv, PInv, Fine, Place, Snapshot
  <2> DEFINE op == proc[p].call.op
  <2>2. CASE op = "clear"
    BY <1>6, <2>2, StepStays DEF Snapshot
  <2>3. CASE op = "list"
    BY <1>6, <2>3, StepStays DEF Snapshot
  <2>4. CASE op = "info"
    BY <1>6, <2>4, StepStays DEF Snapshot
  <2>5. CASE op = "route_get"
    BY <1>6, <2>5, StepStays DEF Snapshot
  <2> QED
    BY <2>1, <2>2, <2>3, <2>4, <2>5 DEF Listing
<1>7. CASE SnapshotFails(p) \/ EachEnds(p)
  BY <1>7, StepStays, Zenon DEF SnapshotFails, EachEnds
<1>8. CASE \E a \in Addrs : ClearEach(p, a)
  BY <1>8, StepStays, Zenon DEF ClearEach
<1>9. CASE (\E n \in Names : ListEach(p, n) \/ InfoEach(p, n)) \/ InfoParts(p) \/ InfoIps(p)
  BY <1>9, StepStays, Zenon DEF ListEach, InfoEach, InfoParts, InfoIps
<1>10. CASE FillFibs(p) \/ RoutesEnd(p) \/ \E f \in Fibs : PassTable(p, f)
  BY <1>10, StepStays, Zenon DEF FillFibs, RoutesEnd, PassTable
<1>11. CASE \E f \in Fibs : \/ RouteAdd(p, f) \/ RouteAddStatic4(p, f)
                            \/ RouteDel(p, f) \/ RouteDelStatic4(p, f)
  BY <1>1, <1>11, Zenon DEF RouteAdd, RouteAddStatic4, RouteDel, RouteDelStatic4
<1>12. CASE RouteSize(p) \/ DumpRoutes(p)
  BY <1>12, StepStays, Zenon DEF RouteSize, DumpRoutes
<1>13. CASE ArpSize(p) \/ DumpAgain(p) \/ ArpGet(p) \/ ArpFlush(p) \/ FlushEnds(p)
  BY <1>13, StepStays, Zenon DEF ArpSize, DumpAgain, ArpGet, ArpFlush, FlushEnds
<1>14. CASE (\E h \in Hosts : ArpAsk(p, h)) \/ ArpDelete(p)
  BY <1>14, StepStays, Zenon DEF ArpAsk, ArpDelete
<1> QED
  BY <1>2, <1>3, <1>4, <1>5, <1>6, <1>7, <1>8, <1>9, <1>10, <1>11, <1>12, <1>13, <1>14, Zenon
     DEF Running

(* A call that has read the bits of its interface writes them next.        *)
LEMMA ThenSets == ASSUME NEW p, Running(p), proc[p].at = "set" PROVE SetBits(p)
<1>1. ASSUME NEW f, NEW S PROVE ~RtMsg(p, f, S)
  BY Zenon DEF RtMsg
<1>2. /\ ~Open(p) /\ ~OpenFails(p) /\ ~Ioctl(p) /\ ~GetBits(p) /\ ~SnapshotFails(p)
      /\ ~InfoParts(p) /\ ~InfoIps(p) /\ ~FillFibs(p) /\ ~RoutesEnd(p) /\ ~RouteSize(p)
  BY Zenon DEF Open, OpenFails, Ioctl, GetBits, SnapshotFails, InfoParts, InfoIps, FillFibs,
               RoutesEnd, RouteSize
<1>3. /\ ~DumpRoutes(p) /\ ~ArpSize(p) /\ ~DumpAgain(p) /\ ~ArpGet(p) /\ ~ArpFlush(p)
      /\ ~ArpDelete(p) /\ ~FlushEnds(p) /\ ~EachEnds(p)
  BY Zenon DEF DumpRoutes, ArpSize, DumpAgain, ArpGet, ArpFlush, ArpDelete, FlushEnds, EachEnds
<1>4. ~Snapshot(p)
  BY DEF Snapshot
<1>5. \A x : ~ClearEach(p, x) /\ ~ListEach(p, x) /\ ~InfoEach(p, x) /\ ~ArpAsk(p, x)
  BY Zenon DEF ClearEach, ListEach, InfoEach, ArpAsk
<1>6. \A f : /\ ~PassTable(p, f) /\ ~RouteAdd(p, f) /\ ~RouteAddStatic4(p, f)
             /\ ~RouteDel(p, f) /\ ~RouteDelStatic4(p, f)
  BY <1>1, Zenon DEF PassTable, RouteAdd, RouteAddStatic4, RouteDel, RouteDelStatic4
<1> QED
  BY <1>2, <1>3, <1>4, <1>5, <1>6, Zenon DEF Running

(* What it writes differs from what is there by the bits it is asked to    *)
(* change, those that others have changed and those that cannot be set.    *)
LEMMA WritesBack ==
  ASSUME IInv, NEW p \in Procs, SetBits(p)
  PROVE  Changed(k, k', proc[p].call.name)
           \subseteq Head(proc[p].words).set \cup proc[p].others \cup (Caps \ Able)
<1> DEFINE r == proc[p]
           n == r.call.name
           w == Head(r.words)
           b == (k.bits[n] \ Class(r.call)) \cup Rewritten(r)
<1>1. Fresh(r, k) /\ r.at = "set" /\ DOMAIN k.bits = Names /\ DOMAIN k = {"index", "bits", "addrs", "away", "rib", "hosts"}
  BY DEF IInv, PInv, SetBits, Sound
<1>2. n \in Names
  BY MenuAssumption, <1>1 DEF IInv, PInv, Fine, Place, Unclosed, Rewrites, Simple
<1>3. k' = k \/ k' = [k EXCEPT !.bits[n] = b]
  BY Zenon DEF SetBits, Step
<1> HIDE DEF b
<1>4. CASE k' = k
  BY <1>4 DEF Changed
<1>5. CASE k' = [k EXCEPT !.bits[n] = b]
  <2>1. k'.bits[n] = b
    BY <1>1, <1>2, <1>5, Zenon
  <2>2. Changed(k, k', n) = (k.bits[n] \ b) \cup (b \ k.bits[n])
    BY <2>1 DEF Changed
  <2>3. ASSUME NEW x \in k.bits[n], x \notin b PROVE x \in w.set \cup r.others \cup (Caps \ Able)
    <3>1. x \in Class(r.call) /\ x \notin Rewritten(r)
      BY <2>3 DEF b
    <3>2. x \in r.others \/ x \in r.saw
      BY <1>1, <2>3, <3>1 DEF Fresh
    <3>3. x \in r.saw => x \in w.set \/ (x \notin Able /\ r.call.op = "ifcap")
      BY <3>1 DEF Rewritten
    <3> QED
      BY <3>1, <3>2, <3>3 DEF Class
  <2>4. ASSUME NEW x \in b, x \notin k.bits[n] PROVE x \in w.set \cup r.others
    <3>1. x \in r.saw \/ x \in w.set
      BY <2>4 DEF b, Rewritten
    <3> QED
      BY <1>1, <2>4, <3>1 DEF Fresh
  <2> QED
    BY <2>2, <2>3, <2>4
<1> QED
  BY <1>3, <1>4, <1>5

(* flags() and ifcap() undo nothing of what others do but what happens     *)
(* between their reading and their writing.                                *)
THEOREM RewritesUndo == Spec => OnlyStaleUndone
<1> DEFINE Undoes(p) == Changed(k, k', proc[p].call.name)
                          \subseteq Head(proc[p].words).set \cup proc[p].others
                                      \cup (Caps \ Able)
<1>1. ASSUME IInv, [Next]_vars, NEW p \in Procs, proc[p].at = "set", proc'[p].at = "get"
      PROVE  Undoes(p)
  <2> HIDE DEF Undoes
  <2>1. ASSUME NEW q \in Procs, OthersStay(q) PROVE q = p
    BY <1>1, <2>1 DEF OthersStay
  <2>2. ASSUME NEW q \in Procs, NEW c \in Menu, Call(q, c) PROVE Undoes(p)
    <3>1. OthersStay(q)
      BY <1>1, <2>2, StepStays, Zenon DEF Call
    <3> QED
      BY <1>1, <2>1, <2>2, <3>1 DEF Call
  <2>3. ASSUME NEW q \in Procs, Running(q) PROVE Undoes(p)
    <3>1. q = p
      BY <1>1, <2>1, <2>3, RunStays
    <3> QED
      BY <1>1, <2>3, <3>1, ThenSets, WritesBack DEF Undoes
  <2>4. ASSUME NEW h, Learn(h) PROVE Undoes(p)
    BY <1>1, <2>4 DEF Learn
  <2>5. CASE UNCHANGED vars
    BY <1>1, <2>5 DEF vars
  <2> QED
    BY <1>1, <2>2, <2>3, <2>4, <2>5 DEF Next
<1>2. IInv /\ [Next]_vars =>
        [\A p \in Procs : proc[p].at = "set" /\ proc'[p].at = "get" => Undoes(p)]_vars
  BY <1>1
<1> QED
  BY <1>2, Invariance, PTL DEF Spec, OnlyStaleUndone
=============================================================================
