------------------------------ MODULE MC_Knet ------------------------------
(* Two processes, two interface names and a few of each kind of call.      *)
EXTENDS Knet

CONSTANTS p1, p2, em0, tap0, a1, a2, gw, nas, cam, fib0, fib1

Word(S)    == [set |-> S, off |-> FALSE]
WordOff(S) == [set |-> S, off |-> TRUE]

Blank == [op |-> "list", name |-> NoName, new |-> NoName, ip |-> a1,
          words |-> <<>>, fib |-> NoFib, dest |-> Default, host |-> NoName]
On(op, n) == [Blank EXCEPT !.op = op, !.name = n]

InterfaceCalls ==
  {On("create", tap0), On("destroy", tap0), On("vnet", tap0), On("vnetd", tap0),
   On("setip4", em0), On("setip6", tap0), On("delip4", em0), On("delip6", tap0),
   On("clear", em0), On("setmac", tap0), [On("rename", tap0) EXCEPT !.new = em0],
   [On("flags", em0) EXCEPT !.words = <<Word({"up"}), WordOff({"promisc"})>>],
   [On("flags", tap0) EXCEPT !.words = <<Word({"promisc"})>>],
   [On("ifcap", tap0) EXCEPT !.words = <<WordOff({"tso"}), Word({"lro"})>>]}

ListingCalls ==
  {Blank, On("info", NoName), On("info", em0), On("route_get", NoName)}

RouteCalls ==
  {On("route_add", NoName), [On("route_add", NoName) EXCEPT !.fib = fib1],
   On("route_del", NoName),
   [On("route_add_static4", NoName) EXCEPT !.dest = gw],
   [On("route_del_static4", NoName) EXCEPT !.dest = gw]}

ArpCalls ==
  {On("arp_flush", NoName), [On("arp_get", NoName) EXCEPT !.host = nas],
   On("arp_get", NoName), [On("arp_delete", NoName) EXCEPT !.host = nas]}

AllCalls == InterfaceCalls \cup ListingCalls \cup RouteCalls \cup ArpCalls

Kernel ==
  [index |-> [n \in Names |-> IF n = em0 THEN 1 ELSE 2],
   bits  |-> [n \in Names |-> IF n = em0 THEN {"promisc"} ELSE {"tso"}],
   addrs |-> [n \in Names |-> IF n = em0 THEN {a1, a2} ELSE {}],
   away  |-> {},
   rib   |-> [f \in Fibs |-> {[dest |-> nas, index |-> 2]}],
   hosts |-> {nas}]

Once  == [p \in Procs |-> 1]
=============================================================================
