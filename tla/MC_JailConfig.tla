--------------------------- MODULE MC_JailConfig ---------------------------
(* Configuration files of one jail, of globals and of a wildcard, with     *)
(* parameters that use each other in every order.                          *)
EXTENDS JailConfig

P(key, val) == Param(key, val, {})
Append1(key, val) == Param(key, val, {"append"})
V(key, val) == Param(key, val, {"var"})
T(t) == <<Text(t)>>

(* A chain, a loop, an array, a name that is not there, and a redefinition. *)
Menu ==
  {P("path", <<<<Text("/"), Ref("v")>>>>), V("v", <<<<Ref("name"), Text("x")>>>>),
   V("v", <<<<Ref("path")>>>>), V("v", <<T("a"), T("b")>>), V("v", <<>>),
   V("path", <<T("p")>>), P("name", <<T("other")>>), P("path", <<<<Ref("u")>>>>),
   V("u", <<<<Ref("v"), Ref("v")>>>>), P("path", <<T("q")>>)}
Some == {P("path", <<T("g")>>), V("v", <<<<Ref("u")>>>>), Append1("path", <<<<Ref("v")>>>>),
         [P("persist", <<>>) EXCEPT !.no = TRUE], V("u", <<T("t")>>)}

R(name, params) == [name |-> name, params |-> params]
UpTo(S, n) == UNION {[1 .. i -> S] : i \in 0 .. n}

Around == {<<R(<<"*">>, g), R(<<"w", "x">>, own), R(<<"w", "*">>, h)>> :
             g \in UpTo(Some, 1), own \in UpTo(Menu, 2), h \in UpTo(Some, 1)}

Address == T("em0|A/24")
Checked ==
  {<<R(<<"*">>, <<>>), R(<<"7">>, ps), R(<<"x", "*">>, <<P("persist", <<>>)>>)>> :
     ps \in {<<P("ip4.addr", <<Address, T("B")>>)>>,
             <<P("ip4.addr", <<Address>>), P("interface", <<T("em1")>>)>>,
             <<P("ip_hostname", <<>>), P("host.hostname", <<T("h")>>),
               P("ip4.addr", <<Address>>)>>,
             <<P("ip_hostname", <<T("maybe")>>)>>,
             <<P("exec.timeout", <<T("1")>>), P("mount.fstab", <<T("f"), <<>>>>)>>,
             <<P("persist", <<>>), [P("persist", <<>>) EXCEPT !.no = TRUE]>>}}

AllFiles == Around \cup Checked
Args == {<<>>, <<Given("path", <<T("/")>>), Given("ip4.addr", <<Address>>),
                 Given("ip4.addr", <<T("B")>>)>>}
Addr == (Address :> T("A"))
Table == (T("f") :> <<T("l1"), T("l2")>>)
Seven == {<<"7">>}
Host == <<T("H")>>
=============================================================================
