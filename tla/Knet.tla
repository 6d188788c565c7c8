-------------------------------- MODULE Knet --------------------------------
(***************************************************************************)
(* luaknet.c: calls that read and change the kernel's interfaces, their    *)
(* addresses, flags and capabilities, the routes and the ARP table, made   *)
(* by several processes at once.  A step of a call ends at each system     *)
(* call whose answer the rest of it relies on.  proc[p] holds the call of  *)
(* process p: its arguments, how far it has come, what it has read.        *)
(***************************************************************************)
EXTENDS Integers, FiniteSets, Sequences

CONSTANTS
  Procs,   \* the processes that load the library
  Names,   \* interface names
  NoName,
  Index,   \* interface indices, 1 .. n
  Chunk,   \* route_get() makes its table of names longer by this many
  Flags,   \* the interface flags, UP among them
  Caps,    \* the interface capabilities
  Able,    \* those that the interfaces have
  Fibs, NoFib, MyFib, \* routing tables; the one of these processes
  Default, \* the destination of the default route
  Hosts,   \* the hosts of the ARP table
  Pinned,  \* those whose entries stay
  Addrs,   \* addresses of interfaces
  Menu,    \* the calls the processes make
  MaxCalls,\* how many each makes
  Kernel0, \* the kernel's tables at first
  Faults   \* which system calls may fail: "socket", "ioctl", "sysctl"

UP   == "up"
Bits == Flags \cup Caps

(* The calls that leave their socket open.                                 *)
Unclosed == {"create", "destroy", "vnet", "vnetd"}
(* The calls that read bits of an interface and write them back.           *)
Rewrites == {"flags", "ifcap"}
Simple   == {"setip4", "setip6", "delip4", "delip6", "rename", "setmac"}
RouteAdds == {"route_add", "route_add_static4"}
RouteDels == {"route_del", "route_del_static4"}
Listing  == {"clear", "list", "info", "route_get"}
ArpOps   == {"arp_get", "arp_delete", "arp_flush"}

ASSUME IndexAssumption ==
  /\ IsFiniteSet(Index)
  /\ Index = 1 .. Cardinality(Index)
  /\ Chunk \in Nat \ {0}
  /\ MyFib \in Fibs
  /\ UP \in Flags

(* What the Lua program passes: a call that is about one interface names   *)
(* it.                                                                     *)
ASSUME MenuAssumption ==
  \A c \in Menu :
    /\ c.op \in Unclosed \cup Rewrites \cup Simple \cup RouteAdds \cup RouteDels
                 \cup Listing \cup ArpOps
    /\ c.op \in Unclosed \cup Rewrites \cup Simple \cup {"clear"} => c.name \in Names
    /\ c.op = "rename" => c.new \in Names

(* The kernel has no bits of interfaces that are not there, and routes go  *)
(* through those that are.                                                 *)
Sound(K) ==
  /\ DOMAIN K = {"index", "bits", "addrs", "away", "rib", "hosts"}
  /\ K.index \in [Names -> Index \cup {0}]
  /\ DOMAIN K.bits = Names /\ DOMAIN K.addrs = Names /\ DOMAIN K.rib = Fibs
  /\ \A n \in Names : K.index[n] = 0 => K.bits[n] = {}
  /\ \A f \in Fibs : \A r \in K.rib[f] : \E n \in Names : K.index[n] = r.index /\ r.index # 0

ASSUME KernelAssumption == Sound(Kernel0) /\ NoName \notin Names

VARIABLES
  k,    \* the kernel's tables
  proc  \* the processes

vars == <<k, proc>>

Exists(n) == k.index[n] # 0
Free == Index \ {k.index[n] : n \in Names}

(* An interface comes, goes with its routes, or changes its name.          *)
Comes(n, i) == [k EXCEPT !.index[n] = i, !.bits[n] = {}, !.addrs[n] = {}]
Goes(n) ==
  [k EXCEPT !.index[n] = 0, !.bits[n] = {}, !.addrs[n] = {},
            !.rib = [f \in Fibs |-> {r \in k.rib[f] : r.index # k.index[n]}]]
Renamed(n, m) ==
  [k EXCEPT !.index = [k.index EXCEPT ![n] = 0, ![m] = k.index[n]],
            !.bits  = [k.bits EXCEPT ![n] = {}, ![m] = k.bits[n]],
            !.addrs = [k.addrs EXCEPT ![n] = {}, ![m] = k.addrs[n]]]

(* What the ioctl of each call makes of the kernel's tables; nothing when  *)
(* it is refused.                                                          *)
If(cond, S) == {x \in S : cond}
Create(c)  == If(~Exists(c.name), {Comes(c.name, i) : i \in Free})
Destroy(c) == If(Exists(c.name), {Goes(c.name)})
Vnet(c)    == If(Exists(c.name), {[Goes(c.name) EXCEPT !.away = @ \cup {c.name}]})
Vnetd(c)   == If(c.name \in k.away /\ ~Exists(c.name),
                 {[Comes(c.name, i) EXCEPT !.away = @ \ {c.name}] : i \in Free})
Rename(c)  == If(Exists(c.name) /\ ~Exists(c.new), {Renamed(c.name, c.new)})
SetMac(c)  == If(Exists(c.name), {k})
SetIp(c)   == If(Exists(c.name), {[k EXCEPT !.addrs[c.name] = @ \cup {c.ip}]})
DelIp(c)   == If(c.ip \in k.addrs[c.name],
                 {[k EXCEPT !.addrs[c.name] = @ \ {c.ip}]})

Answers(c) ==
  CASE c.op = "create"  -> Create(c)
    [] c.op = "destroy" -> Destroy(c)
    [] c.op = "vnet"    -> Vnet(c)
    [] c.op = "vnetd"   -> Vnetd(c)
    [] c.op = "rename"  -> Rename(c)
    [] c.op = "setmac"  -> SetMac(c)
    [] c.op \in {"setip4", "setip6"} -> SetIp(c)
    [] c.op \in {"delip4", "delip6"} -> DelIp(c)

-----------------------------------------------------------------------------
NoMap == [i \in Index |-> NoName]

Idle0 == [call |-> CHOOSE c \in Menu : TRUE, at |-> "idle", fds |-> 0,
          base |-> 0, words |-> <<>>, saw |-> {}, todo |-> {}, map |-> NoMap,
          room |-> 0, did |-> FALSE, fails |-> 0, ret |-> "none",
          others |-> {}, moved |-> FALSE, arp |-> FALSE, calls |-> 0]

Init ==
  /\ k = Kernel0
  /\ proc = [p \in Procs |-> Idle0]

(* Process p becomes me and the kernel's tables new.  others and moved are *)
(* history: which bits of the interface of a call, and whether the names   *)
(* and indices, have changed since the call read them.                     *)
Changed(old, new, n) ==
  (old.bits[n] \ new.bits[n]) \cup (new.bits[n] \ old.bits[n])

Step(p, me, new) ==
  /\ k' = new
  /\ proc' = [q \in Procs |->
       IF q = p THEN me
       ELSE IF proc[q].at = "set"
         THEN [proc[q] EXCEPT !.others = @ \cup Changed(k, new, proc[q].call.name)]
       ELSE IF proc[q].call.op = "route_get" /\ proc[q].at # "idle"
         THEN [proc[q] EXCEPT !.moved = @ \/ new.index # k.index]
       ELSE proc[q]]

(* The end of a call, with the descriptors it closes, and its result: nil, *)
(* true, a table, or what lies on top of the Lua stack.                    *)
Ends(me, closes, ret) ==
  [me EXCEPT !.at = "idle", !.fds = @ - closes, !.ret = ret, !.words = <<>>,
             !.saw = {}, !.todo = {}, !.map = NoMap, !.room = 0,
             !.fails = 0, !.others = {}, !.moved = FALSE]

UPWord == [set |-> {UP}, off |-> FALSE]

Start(c) ==
  CASE c.op \in Unclosed \cup Rewrites \cup Simple -> "open"
    [] c.op \in Listing   -> "snapshot"
    [] c.op \in RouteAdds \cup RouteDels -> "fibs"
    [] c.op = "arp_delete" -> "arp_ask"
    [] c.op \in {"arp_get", "arp_flush"} -> "size"

(* A program calls the library.                                            *)
Call(p, c) ==
  /\ proc[p].at = "idle"
  /\ proc[p].calls < MaxCalls[p]
  /\ Step(p, [proc[p] EXCEPT
        !.call = c, !.at = Start(c), !.calls = @ + 1, !.ret = "none",
        !.did = c.op \in {"clear"} \cup RouteDels,
        !.words = IF c.op = "setip4" THEN <<UPWord>> ELSE c.words,
        !.todo = IF c.op = "arp_delete" THEN {c.host} ELSE {},
        !.base = proc[p].fds], k)

-----------------------------------------------------------------------------
(* socket(), and one ioctl.                                                *)

Open(p) ==
  /\ proc[p].at = "open"
  /\ Step(p, [proc[p] EXCEPT
        !.fds = @ + 1,
        !.at = IF proc[p].call.op \notin Rewrites THEN "ioctl" ELSE "get"], k)

(* Without a socket create(), destroy(), vnet() and vnetd() return what is *)
(* on top of the stack, which is their last argument.                      *)
OpenFails(p) ==
  /\ proc[p].at = "open"
  /\ "socket" \in Faults
  /\ Step(p, Ends(proc[p], 0,
                  IF proc[p].call.op \in Unclosed THEN "argument" ELSE "nil"), k)

(* A mutant of Ioctl: an error returns without close().                    *)
IoctlKeeps(p) ==
  LET me == proc[p]
  IN  /\ me.at = "ioctl"
      /\ \/ \E new \in Answers(me.call) : Step(p, Ends(me, 1, "true"), new)
         \/ /\ "ioctl" \in Faults \/ Answers(me.call) = {}
            /\ Step(p, Ends(me, 0, "nil"), k)

Ioctl(p) ==
  LET me == proc[p]
      closes == IF me.call.op \in Unclosed THEN 0 ELSE 1
  IN  /\ me.at = "ioctl"
      /\ \/ \E new \in Answers(me.call) :
              IF me.call.op = "setip4"
                THEN Step(p, [me EXCEPT !.at = "get", !.did = TRUE], new)
                ELSE Step(p, Ends([me EXCEPT !.did = TRUE], closes, "true"), new)
         \/ /\ "ioctl" \in Faults \/ Answers(me.call) = {}
            /\ Step(p, Ends(me, closes, "nil"), k)

(* SIOCGIFFLAGS or SIOCGIFCAP of the next word.  setip() does not look at  *)
(* its result, flags() and ifcap() return with the socket open.            *)
Class(c) == IF c.op = "ifcap" THEN Caps ELSE Flags

GetBits(p) ==
  LET me == proc[p]
      n == me.call.name
  IN  /\ me.at = "get"
      /\ \/ /\ me.words = <<>>
            /\ Step(p, Ends(me, 1, "true"), k)
         \/ /\ me.words # <<>>
            /\ Exists(n)
            /\ Step(p, [me EXCEPT !.saw = k.bits[n] \cap Class(me.call),
                                  !.others = {}, !.at = "set"], k)
         \/ /\ me.words # <<>>
            /\ ~Exists(n)
            /\ IF me.call.op = "setip4"
                 THEN Step(p, [me EXCEPT !.saw = {}, !.at = "set"], k)
                 ELSE Step(p, Ends(me, 0, "nil"), k)

(* A mutant of Rewritten: a word also clears the others.                   *)
RewrittenOnly(me) == IF Head(me.words).off THEN {} ELSE Head(me.words).set

Rewritten(me) ==
  LET w == Head(me.words)
      new == IF w.off THEN me.saw \ w.set ELSE me.saw \cup w.set
  IN  IF me.call.op = "ifcap" THEN new \cap Able ELSE new

(* SIOCSIFFLAGS or SIOCSIFCAP, whose result nobody looks at.               *)
SetBits(p) ==
  LET me == proc[p]
      n == me.call.name
      next == [me EXCEPT !.words = Tail(@), !.at = "get", !.saw = {},
                         !.others = {}]
  IN  /\ me.at = "set"
      /\ \/ /\ Exists(n)
            /\ Step(p, next, [k EXCEPT !.bits[n] =
                                (@ \ Class(me.call)) \cup Rewritten(me)])
         \/ /\ ~Exists(n) \/ "ioctl" \in Faults
            /\ Step(p, next, k)

-----------------------------------------------------------------------------
(* getifaddrs(): clear(), list(), info() and the names of route_get().     *)

RoundUp(i) == ((i + Chunk - 1) \div Chunk) * Chunk

(* A mutant of Slots: the index itself is forgotten.                       *)
SlotsShort(S) ==
  IF S = {} THEN 0 ELSE RoundUp(CHOOSE i \in S : \A j \in S : j <= i)

(* The length of a table that has a place for each of the indices.         *)
Slots(S) ==
  IF S = {} THEN 0 ELSE RoundUp(1 + CHOOSE i \in S : \A j \in S : j <= i)

Snapshot(p) ==
  LET me == proc[p]
      c == me.call
      there == {n \in Names : Exists(n)}
  IN  /\ me.at = "snapshot"
      /\ CASE c.op = "clear" ->
                Step(p, [me EXCEPT !.at = "each", !.todo = k.addrs[c.name],
                                   !.room = IF Exists(c.name) THEN 1 ELSE 0], k)
           [] c.op = "list" -> Step(p, [me EXCEPT !.at = "each", !.todo = there], k)
           [] c.op = "info" ->
                Step(p, [me EXCEPT !.at = "each",
                           !.todo = {n \in there : c.name \in {n, NoName}}], k)
           [] c.op = "route_get" ->
                Step(p, [me EXCEPT !.at = "size", !.moved = FALSE,
                   !.map = [i \in Index |->
                              IF \E n \in Names : k.index[n] = i
                                THEN CHOOSE n \in Names : k.index[n] = i
                                ELSE NoName],
                   !.room = Slots({k.index[n] : n \in there})], k)

SnapshotFails(p) ==
  /\ proc[p].at = "snapshot"
  /\ "sysctl" \in Faults
  /\ Step(p, Ends(proc[p], 0, "nil"), k)

(* clear() deletes the addresses one by one; one it has no socket for is   *)
(* passed over.                                                            *)
ClearEach(p, a) ==
  LET me == proc[p]
      n == me.call.name
      on == [me EXCEPT !.todo = @ \ {a}]
  IN  /\ me.at = "each"
      /\ me.call.op = "clear"
      /\ a \in me.todo
      /\ \/ /\ a \in k.addrs[n]
            /\ Step(p, on, [k EXCEPT !.addrs[n] = @ \ {a}])
         \/ /\ a \notin k.addrs[n] \/ "ioctl" \in Faults
            /\ Step(p, [on EXCEPT !.fails = @ + 1, !.did = FALSE], k)
         \/ /\ "socket" \in Faults
            /\ Step(p, on, k)

(* list() opens and closes a socket for each interface, which may be gone. *)
ListEach(p, n) ==
  /\ proc[p].at = "each"
  /\ proc[p].call.op = "list"
  /\ n \in proc[p].todo
  /\ Step(p, [proc[p] EXCEPT !.todo = @ \ {n}], k)

(* info() asks for each interface several times, by its name; fails counts *)
(* what is then missing from its table.                                    *)
InfoEach(p, n) ==
  /\ proc[p].at = "each"
  /\ proc[p].call.op = "info"
  /\ n \in proc[p].todo
  /\ Step(p, [proc[p] EXCEPT !.todo = @ \ {n}, !.saw = {n}, !.at = "parts"], k)

(* Its groups, GRE options and IPv6 options, with sockets of their own.    *)
InfoParts(p) ==
  /\ proc[p].at = "parts"
  /\ \/ Step(p, [proc[p] EXCEPT !.at = "ips"], k)
     \/ /\ "socket" \in Faults \/ \E n \in proc[p].saw : ~Exists(n)
        /\ Step(p, [proc[p] EXCEPT !.at = "ips", !.fails = 1], k)

(* Its addresses: none at all without getifaddrs().                        *)
InfoIps(p) ==
  /\ proc[p].at = "ips"
  /\ \/ Step(p, [proc[p] EXCEPT !.at = "each", !.saw = {}], k)
     \/ /\ "sysctl" \in Faults
        /\ Step(p, [proc[p] EXCEPT !.at = "each", !.saw = {}, !.fails = 1], k)

EachEnds(p) ==
  LET me == proc[p]
  IN  /\ me.at = "each"
      /\ me.todo = {}
      /\ Step(p, Ends(me, 0, CASE me.call.op # "clear" -> "table"
                               [] OTHER -> IF me.fails > 0 THEN "count"
                                           ELSE IF me.room = 1 THEN "true"
                                           ELSE "nil"), k)

-----------------------------------------------------------------------------
(* Routes.                                                                 *)

(* fill_fibs(): the table of the process and no other.                     *)
FillFibs(p) ==
  /\ proc[p].at = "fibs"
  /\ \/ Step(p, [proc[p] EXCEPT !.at = "route", !.todo = {MyFib}], k)
     \/ "sysctl" \in Faults /\ Step(p, Ends(proc[p], 0, "nil"), k)

(* A mutant of RtMsg: every write() that fails is taken for ESRCH.         *)
RtMsgBlind(p, f, S) ==
  LET on == [proc[p] EXCEPT !.todo = @ \ {f}]
  IN  /\ proc[p].at = "route"
      /\ f \in proc[p].todo
      /\ \/ \E new \in S : Step(p, [on EXCEPT !.did = TRUE], new)
         \/ Step(p, [on EXCEPT !.did = FALSE], k)

(* rtmsg(): a message on a socket of its own, of which the kernel makes    *)
(* one of the tables of S.                                                 *)
RtMsg(p, f, S) ==
  LET me == proc[p]
      on == [me EXCEPT !.todo = @ \ {f}]
  IN  /\ me.at = "route"
      /\ f \in me.todo
      /\ \/ \E new \in S : Step(p, [on EXCEPT !.did = me.fails = 0], new)
         \/ /\ S = {} \/ Faults \cap {"socket", "ioctl"} # {}
            /\ Step(p, [on EXCEPT !.fails = @ + 1, !.did = FALSE], k)

Dests(f) == {r.dest : r \in k.rib[f]}

(* A gateway is reached through one of the interfaces.                     *)
Added(f, d) ==
  If(d \notin Dests(f),
     {[k EXCEPT !.rib[f] = @ \cup {[dest |-> d, index |-> k.index[n]]}]
        : n \in {n \in Names : Exists(n)}})
Dropped(f, d) == {[k EXCEPT !.rib[f] = {r \in @ : r.dest # d}]}

(* The table that a call names, if it is not the one of the process, is    *)
(* not there to be met.                                                    *)
Passed(c, f) == c.fib \notin {NoFib, f}

PassTable(p, f) ==
  /\ proc[p].at = "route"
  /\ f \in proc[p].todo
  /\ proc[p].call.op \in RouteAdds
  /\ Passed(proc[p].call, f)
  /\ Step(p, [proc[p] EXCEPT !.todo = @ \ {f}], k)

RouteAdd(p, f) ==
  /\ proc[p].call.op = "route_add"
  /\ ~Passed(proc[p].call, f)
  /\ RtMsg(p, f, Added(f, Default))

RouteAddStatic4(p, f) ==
  /\ proc[p].call.op = "route_add_static4"
  /\ ~Passed(proc[p].call, f)
  /\ RtMsg(p, f, Added(f, proc[p].call.dest))

RouteDel(p, f) ==
  /\ proc[p].call.op = "route_del"
  /\ RtMsg(p, f, Dropped(f, Default))

RouteDelStatic4(p, f) ==
  /\ proc[p].call.op = "route_del_static4"
  /\ RtMsg(p, f, Dropped(f, proc[p].call.dest))

RoutesEnd(p) ==
  /\ proc[p].at = "route"
  /\ proc[p].todo = {}
  /\ Step(p, Ends(proc[p], 0, IF proc[p].fails = 0 THEN "true" ELSE "nil"), k)

-----------------------------------------------------------------------------
(* Tables that are read with two calls of sysctl(): for the size first.    *)
(* route_get() gives up when the table has grown meanwhile, search() tries *)
(* again with more room.  route_get() keeps the size in saw, since room is *)
(* the length of its table of names.                                       *)

RouteSize(p) ==
  LET me == proc[p]
  IN  /\ me.at = "size"
      /\ me.call.op = "route_get"
      /\ \/ Step(p, [me EXCEPT !.at = "dump", !.saw = {Cardinality(k.rib[MyFib])}], k)
         \/ "sysctl" \in Faults /\ Step(p, Ends(me, 0, "nil"), k)

DumpRoutes(p) ==
  LET me == proc[p]
      now == Cardinality(k.rib[MyFib])
  IN  /\ me.at = "dump"
      /\ me.call.op = "route_get"
      /\ Step(p, Ends(me, 0, IF \E size \in me.saw : now > size
                               THEN "nil" ELSE "table"), k)

(* What arp_get() returns when these are the hosts.                        *)
Found(c, hosts) == IF c.host \in Hosts \ hosts THEN "nil" ELSE "table"

ArpSize(p) ==
  LET me == proc[p]
  IN  /\ me.at = "size"
      /\ me.call.op \in ArpOps
      /\ \/ /\ k.hosts # {}
            /\ Step(p, [me EXCEPT !.at = "dump", !.room = Cardinality(k.hosts)], k)
         \/ /\ k.hosts = {}
            /\ Step(p, Ends(me, 0, IF me.call.op = "arp_flush" THEN "true"
                                    ELSE Found(me.call, {})), k)
         \/ "sysctl" \in Faults /\ Step(p, Ends(me, 0, "nil"), k)

(* A mutant of MoreRoom: the size is never raised.                         *)
SameRoom(r) == r

MoreRoom(r) == r + 1

DumpAgain(p) ==
  /\ proc[p].at = "dump"
  /\ proc[p].call.op \in ArpOps
  /\ Cardinality(k.hosts) > proc[p].room
  /\ Step(p, [proc[p] EXCEPT !.room = MoreRoom(@)], k)

ArpGet(p) ==
  /\ proc[p].at = "dump"
  /\ proc[p].call.op = "arp_get"
  /\ Cardinality(k.hosts) <= proc[p].room
  /\ Step(p, Ends(proc[p], 0, Found(proc[p].call, k.hosts)), k)

ArpFlush(p) ==
  /\ proc[p].at = "dump"
  /\ proc[p].call.op = "arp_flush"
  /\ Cardinality(k.hosts) <= proc[p].room
  /\ Step(p, [proc[p] EXCEPT !.at = "arp_ask", !.todo = k.hosts \ Pinned], k)

(* delete(): RTM_GET, then RTM_DELETE of what it found, on a socket that   *)
(* stays open.  flush() does not look at the result.                       *)
ArpAsk(p, h) ==
  LET me == proc[p]
      on == [me EXCEPT !.arp = TRUE]
  IN  /\ me.at = "arp_ask"
      /\ h \in me.todo
      /\ \/ h \in k.hosts /\ Step(p, [on EXCEPT !.at = "arp_delete", !.todo = @ \ {h},
                                                !.saw = {h}], k)
         \/ /\ \/ h \notin k.hosts
               \/ "socket" \in Faults /\ ~me.arp
            /\ IF me.call.op = "arp_flush"
                 THEN Step(p, [me EXCEPT !.todo = @ \ {h}], k)
                 ELSE Step(p, Ends(me, 0, "nil"), k)

(* An entry that is gone by now counts as deleted.                         *)
ArpDelete(p) ==
  LET me == proc[p]
  IN  /\ me.at = "arp_delete"
      /\ Step(p, IF me.call.op = "arp_flush"
                   THEN [me EXCEPT !.at = "arp_ask", !.saw = {}]
                   ELSE Ends([me EXCEPT !.did = TRUE], 0, "true"),
              [k EXCEPT !.hosts = @ \ me.saw])

FlushEnds(p) ==
  /\ proc[p].at = "arp_ask"
  /\ proc[p].todo = {}
  /\ Step(p, Ends(proc[p], 0, "true"), k)

-----------------------------------------------------------------------------
(* The network: hosts are heard of and forgotten.                          *)
Learn(h) ==
  /\ h \notin k.hosts
  /\ k' = [k EXCEPT !.hosts = @ \cup {h}]
  /\ UNCHANGED proc

Running(p) ==
  \/ Open(p) \/ OpenFails(p) \/ Ioctl(p) \/ GetBits(p) \/ SetBits(p)
  \/ Snapshot(p) \/ SnapshotFails(p)
  \/ \E a \in Addrs : ClearEach(p, a)
  \/ \E n \in Names : ListEach(p, n) \/ InfoEach(p, n)
  \/ InfoParts(p) \/ InfoIps(p)
  \/ EachEnds(p)
  \/ FillFibs(p) \/ RoutesEnd(p)
  \/ \E f \in Fibs :
       \/ PassTable(p, f) \/ RouteAdd(p, f) \/ RouteAddStatic4(p, f)
       \/ RouteDel(p, f) \/ RouteDelStatic4(p, f)
  \/ RouteSize(p) \/ DumpRoutes(p)
  \/ ArpSize(p) \/ DumpAgain(p) \/ ArpGet(p) \/ ArpFlush(p)
  \/ \E h \in Hosts : ArpAsk(p, h)
  \/ ArpDelete(p) \/ FlushEnds(p)

Next ==
  \/ \E p \in Procs : \E c \in Menu : Call(p, c)
  \/ \E p \in Procs : Running(p)
  \/ \E h \in Hosts : Learn(h)

Spec == Init /\ [][Next]_vars

(* Each process goes on with the call it has begun.                        *)
FairSpec == Spec /\ \A p \in Procs : WF_vars(Running(p))

-----------------------------------------------------------------------------
(* Properties.                                                             *)

(* A call closes every socket it opened, on every path, but for create(),  *)
(* destroy(), vnet() and vnetd(), and for flags() and ifcap() of an        *)
(* interface that goes away, which lose one each time.                     *)
SocketsClosed ==
  \A p \in Procs : proc[p].at = "idle" /\ proc[p].call.op \notin Unclosed =>
    \/ proc[p].fds = proc[p].base
    \/ /\ proc[p].call.op \in Rewrites
       /\ proc[p].ret = "nil"
       /\ proc[p].fds = proc[p].base + 1

(* A call that makes one request of the kernel returns true only when the  *)
(* kernel did what was asked, whatever others do meanwhile; clear() only   *)
(* when no deletion was refused, a deletion of routes when none failed.    *)
TrueMeansDone ==
  \A p \in Procs :
    /\ proc[p].at = "idle"
    /\ proc[p].ret = "true"
    /\ proc[p].call.op \in Simple \cup Unclosed
         \cup {"clear", "arp_delete"} \cup RouteDels
    => proc[p].did

(* SIOCSIFFLAGS and SIOCSIFCAP of a call change what the call is asked to  *)
(* change, and besides only undo what another process changed between the  *)
(* call's reading and its writing.                                         *)
OnlyStaleUndone ==
  [][\A p \in Procs :
       proc[p].at = "set" /\ proc'[p].at = "get" =>
         Changed(k, k', proc[p].call.name)
           \subseteq Head(proc[p].words).set \cup proc[p].others
                       \cup (Caps \ Able)]_vars

(* route_get() finds a name in its table for the interface of every route, *)
(* and the right one, unless interfaces came or went since it was made.    *)
RoutesNamed ==
  \A p \in Procs :
    proc[p].at = "dump" /\ proc[p].call.op = "route_get" /\ ~proc[p].moved =>
      \A r \in k.rib[MyFib] :
        /\ r.index < proc[p].room
        /\ proc[p].map[r.index] # NoName
        /\ k.index[proc[p].map[r.index]] = r.index

(* Every call returns: search() gets enough room in the end.               *)
CallsReturn == \A p \in Procs : proc[p].at # "idle" ~> proc[p].at = "idle"
=============================================================================
