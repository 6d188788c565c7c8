------------------------------ MODULE UserList ------------------------------
(***************************************************************************)
(* What libluaspwd is for: a list of users.  A user is added at the end,   *)
(* one is taken out and the others close up, one is changed but for its    *)
(* uid.                                                                    *)
(***************************************************************************)
EXTENDS Sequences, SequencesExt, Naturals

CONSTANT Users

VARIABLE users

Init == users \in Seq(Users)

Append1 == \E u \in Users : users' = Append(users, u)
Take    == \E i \in DOMAIN users : users' = RemoveAt(users, i)
Change  == \E i \in DOMAIN users : \E u \in Users :
             /\ u.uid = users[i].uid
             /\ users' = ReplaceAt(users, i, u)

Next == Append1 \/ Take \/ Change
=============================================================================
