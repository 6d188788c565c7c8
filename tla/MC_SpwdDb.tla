----------------------------- MODULE MC_SpwdDb -----------------------------
(* One process that changes the users of a small database, and another.    *)
EXTENDS SpwdDb
CONSTANTS p1, p2, root, ann, bob

User(n, u) == [name |-> n, uid |-> u, info |-> 0]
Two == <<User(root, 0), User(ann, 2)>>

C(op, n, u) == [op |-> op, name |-> n, uid |-> u]
All == {C("add", bob, UidMax), C("add", bob, 2), C("delete", NoName, 0),
        C("delete", NoName, 2), C("update", bob, 2), C("update", NoName, 2),
        C("update", root, 2), C("get_all", NoName, 0), C("get", root, 0)}
Calls == [p \in Procs |-> IF p = p1 THEN All
                          ELSE {C("add", ann, UidMax), C("delete", NoName, 0),
                                C("get_all", NoName, 0), C("verify", root, 0)}]
Few == [p \in Procs |-> IF p = p1 THEN 2 ELSE 1]
=============================================================================
