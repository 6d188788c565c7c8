---------------------------- MODULE MC_JailSched ----------------------------
(* Small configuration files for JailSched.                                *)
EXTENDS JailStart

CONSTANTS db, web, app, aux

Full(j, d)  == [from |-> j, to |-> d, light |-> FALSE]
Light(j, p) == [from |-> j, to |-> p, light |-> TRUE]

Order3 == <<web, app, db>>
Order4 == <<web, app, db, aux>>

NoEdges  == <<>>
NoInside == {}

(* web depends on db and app, app is a jail inside db.                     *)
TreeDeps   == <<Full(web, db), Full(web, app), Light(app, db)>>
TreeInside == {<<app, db>>}

(* The same, and aux depends on db.                                        *)
WideDeps == TreeDeps \o <<Full(aux, db)>>

(* paralimit without -p *)
Unlimited == -1

LoopDeps == <<Full(app, db), Full(db, app)>>

PlainCommands == [j \in Jails |-> {"MOUNT", "START", "STOP"}]
OneQuiet      == [j \in Jails |-> IF j = app THEN {} ELSE {"START"}]
AllCommands   == [j \in Jails |-> Command]
Line(op, target, named, running, rdtun, faults) ==
  [op |-> op, target |-> target, named |-> named, running |-> running,
   rdtun |-> rdtun, faults |-> faults]

(* jail -c, and -c, -r, -cm and -m of some of the jails.                   *)
StartLine  == Line({"START"}, "all", {}, {}, {},
                   {"params", "command", "timeout", "create"})
NamedLine  == Line({"START"}, "named", {web, aux}, {aux}, {},
                   {"params", "command", "timeout", "create", "early", "nowait"})
StopLine   == Line({"STOP"}, "named", {db}, {db, web, app}, {},
                   {"params", "command", "timeout", "remove"})
CreateModifyLine == Line({"START", "SET"}, "match", {web, app, aux}, {db, aux},
                         {aux}, {"update", "params", "command", "create"})
ModifyLine == Line({"SET"}, "all", {}, {db, app, web}, {web},
                   {"update", "params"})
AllLines == {StartLine, NamedLine, StopLine, CreateModifyLine, ModifyLine}

PlainLines   == {Line({"START"}, "all", {}, {}, {}, {})}
WebLines     == {Line({"START"}, "named", {web}, {}, {}, {"create"})}
RestartLines == {Line({"START", "STOP"}, "all", {}, Jails, {}, {})}

(* jail -c, -mr and -rc of jails that do not depend on each other.         *)
RestartLine(op) == Line(op, "match", {db, app}, {db, app}, {db},
                        {"command", "create", "update", "early"})
FreeLines == {Line({"START"}, "all", {}, {}, {}, {"command", "timeout"}),
              RestartLine({"SET", "STOP"}), RestartLine({"START", "STOP"})}

=============================================================================
