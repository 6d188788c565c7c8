----------------------------- MODULE JailConfig -----------------------------
(***************************************************************************)
(* config.c, and the reading of the command line in jail.c: how the        *)
(* parameters of one jail come from the options, the arguments or the      *)
(* configuration file, how its variables are resolved, and how the         *)
(* parameters are checked and given to the kernel, once or, when the       *)
(* operation turns into a restart, twice.                                  *)
(***************************************************************************)
EXTENDS Naturals, Sequences, SequencesExt, FiniteSets

CONSTANTS
  Files,     \* configuration files: sequences of [name, params]
  Arguments, \* the parameters that the command line may give: sequences
  Numbers,   \* names of jails that are numbers
  Bare,      \* what is left of an address without interface and netmask
  Looked,    \* the addresses that a host name has
  Lines,     \* the lines of the file system tables
  MaxOptions \* how many options the command line has

(* A parameter is known by its key; no tells "nopersist" from "persist".   *)
(* A value is a sequence of strings, a string one of texts and variables.  *)
Text(t) == [v |-> FALSE, t |-> t]
Ref(n)  == [v |-> TRUE, t |-> n]
Param(key, val, flags) == [key |-> key, no |-> FALSE, val |-> val, flags |-> flags]
Given(key, val) == Param(key, val, {"append"})

Conv     == {"ip4.ifaddr", "fstab.line"}
Booleans == {"ip_hostname", "exec.clean", "allow.dying", "exec.system_jail_user"}
Internal == Conv \cup Booleans \cup {"exec.timeout", "interface", "mount.fstab", "exec.jail_user",
                                     "command", "depend"}
Immutable == {"name", "jid"}
Known    == Internal \cup Immutable \cup {"path", "persist", "host.hostname", "ip4.addr"}

VARIABLES
  at,     \* what jail_main() is doing
  cmd,    \* what the command line asked for
  file,   \* the configuration file, and the place of the jail in it
  j,      \* the jail
  cursor, \* the place of load_config() in the parameters
  kernel  \* the parameters as libjail has them

vars == <<at, cmd, file, j, cursor, kernel>>

NoJail == [name |-> <<>>, params |-> <<>>, int |-> {}, failed |-> FALSE]
NoFile == [records |-> <<>>, self |-> 0]

Init ==
  /\ at = "options"
  /\ cmd = [op |-> {}, docf |-> TRUE, R |-> FALSE, d |-> FALSE, options |-> 0,
            loaded |-> FALSE, checks |-> 0]
  /\ file = NoFile
  /\ j = NoJail
  /\ cursor = [p |-> 1, s |-> 1, gen |-> 1]
  /\ kernel = [k \in {} |-> <<>>]

-----------------------------------------------------------------------------
(* add_param()                                                             *)
Has(params, key) == \E i \in DOMAIN params : params[i].key = key
Place(params, key) == CHOOSE i \in DOMAIN params : params[i].key = key
Value(jail, key) ==
  IF Has(jail.params, key) THEN jail.params[Place(jail.params, key)].val ELSE <<>>

Redefine(old, p) ==
  [old EXCEPT !.no = p.no,
     !.val = IF "append" \in p.flags /\ p.val # <<>> THEN @ \o p.val ELSE p.val,
     !.flags = @ \cup p.flags]

AddParam(jail, p) ==
  IF Has(jail.params, p.key)
    THEN LET i == Place(jail.params, p.key)
         IN  IF p.key \in Immutable THEN jail
             ELSE [jail EXCEPT !.params[i] = Redefine(@, p)]
    ELSE [jail EXCEPT
            !.params = Append(@, [key |-> p.key, no |-> p.no, val |-> p.val,
                                  flags |-> p.flags, gen |-> 0, bad |-> FALSE]),
            !.int = IF p.key \in Known THEN @ \cup {p.key} ELSE @]

AddParams(jail, ps) == FoldLeft(AddParam, jail, ps)

(* What j->intparams points to and is not there any more.                  *)
DeadKeys(jail) == {k \in jail.int : ~Has(jail.params, k)}

BoolParam(jail, key) ==
  /\ key \in jail.int
  /\ LET p == jail.params[Place(jail.params, key)]
     IN  p.no # (p.val = <<>> \/ Last(p.val) \in {<<Text("true")>>, <<Text("1")>>})

-----------------------------------------------------------------------------
(* jail_main(): the options and the four styles of command line.           *)
OptionParams ==
  [h |-> <<Given("ip_hostname", <<>>)>>,
   l |-> <<Given("exec.clean", <<>>)>>,
   n |-> <<Given("name", <<<<Text("n")>>>>)>>,
   u |-> <<Given("exec.jail_user", <<<<Text("u")>>>>),
           Given("exec.system_jail_user", <<>>)>>,
   U |-> <<Given("exec.jail_user", <<<<Text("u")>>>>),
           Given("exec.system_jail_user", <<<<Text("false")>>>>)>>]

Chosen(o) ==
  [cmd EXCEPT !.options = @ + 1, !.d = @ \/ o = "d", !.R = @ \/ o = "R",
     !.op = @ \cup CASE o = "c" -> {"start"} [] o = "m" -> {"set"}
                     [] o \in {"r", "R"} -> {"stop"} [] OTHER -> {}]

(* A mutant of OptionSets: the file is still read after options that set   *)
(* a parameter.                                                            *)
OptionKeepsFile(o) ==
  /\ at = "options"
  /\ cmd.options < MaxOptions
  /\ cmd' = Chosen(o)
  /\ j' = AddParams(j, OptionParams[o])
  /\ UNCHANGED <<at, file, cursor, kernel>>

OptionSets(o) ==
  /\ at = "options"
  /\ cmd.options < MaxOptions
  /\ cmd' = [Chosen(o) EXCEPT !.docf = FALSE]
  /\ j' = AddParams(j, OptionParams[o])
  /\ UNCHANGED <<at, file, cursor, kernel>>

Option(o) ==
  /\ at = "options"
  /\ cmd.options < MaxOptions
  /\ cmd' = Chosen(o)
  /\ UNCHANGED <<at, file, j, cursor, kernel>>

Goes(where) == at' = where /\ UNCHANGED <<file, cursor, kernel>>
Usage == Goes("usage") /\ UNCHANGED <<cmd, j>>

OldStyle ==
  /\ at = "options"
  /\ cmd.op = {}
  /\ \/ Usage
     \/ /\ cmd' = [cmd EXCEPT !.op = {"start"}, !.docf = FALSE, !.options = 0]
        /\ j' = AddParams(j, <<Given("path", <<<<Text("/")>>>>),
                               Given("host.hostname", <<<<Text("n")>>>>),
                               Given("command", <<<<Text("sh")>>>>)>>)
        /\ Goes("check")

(* Without a file, or with -R, the jail is one that runs.                  *)
RemoveStyle ==
  /\ at = "options"
  /\ cmd.op = {"stop"}
  /\ \/ Usage
     \/ /\ cmd.docf
        /\ \E there \in IF cmd.R THEN {FALSE} ELSE BOOLEAN :
             /\ cmd' = [cmd EXCEPT !.docf = there, !.loaded = there, !.options = 0]
             /\ Goes(IF there THEN "load" ELSE "check")
        /\ UNCHANGED j

ArgumentStyle ==
  /\ at = "options"
  /\ cmd.op \notin {{}, {"stop"}}
  /\ IF cmd.R THEN Usage
     ELSE \E ps \in Arguments :
            /\ cmd' = [cmd EXCEPT !.docf = FALSE, !.options = 0]
            /\ j' = AddParams(j, ps)
            /\ Goes("check")

FileStyle ==
  /\ at = "options"
  /\ cmd.op \notin {{}, {"stop"}}
  /\ IF cmd.R \/ ~cmd.docf THEN Usage
     ELSE /\ cmd' = [cmd EXCEPT !.loaded = TRUE, !.options = 0]
          /\ Goes("load")
          /\ UNCHANGED j

-----------------------------------------------------------------------------
(* load_config()                                                           *)

(* A "*" stands for a component of a name, the last one for the rest.      *)
IsWild(name) == \E i \in DOMAIN name : name[i] = "*"
WildMatch(name, wild) ==
  LET n == IF Len(name) < Len(wild) THEN Len(name) ELSE Len(wild)
      Rest(s) == SubSeq(s, n, Len(s))
  IN  /\ \A i \in 1 .. n - 1 : wild[i] \in {name[i], "*"}
      /\ Rest(wild) \in {Rest(name), <<"*">>}

(* A mutant of Records: the jail's own parameters come last.               *)
RecordsOwnLast(f, self) ==
  Append(SelectSeq([i \in DOMAIN f |-> i],
           LAMBDA w : IsWild(f[w].name) /\ WildMatch(f[self].name, f[w].name)), self)

(* The records that a jail takes its parameters from: those of wildcards   *)
(* that match, and its own in front of the first wildcard behind it.       *)
Records(f, self) ==
  LET Add(acc, w) ==
        [own |-> acc.own \/ self < w,
         order |-> acc.order
           \o (IF self < w /\ ~acc.own THEN <<self>> ELSE <<>>)
           \o (IF WildMatch(f[self].name, f[w].name) THEN <<w>> ELSE <<>>)]
      all == FoldLeft(Add, [own |-> FALSE, order |-> <<>>],
               SelectSeq([i \in DOMAIN f |-> i], LAMBDA w : IsWild(f[w].name)))
  IN  IF all.own THEN all.order ELSE Append(all.order, self)

NameParam(name) ==
  Given(IF name \in Numbers THEN "jid" ELSE "name",
        <<[i \in DOMAIN name |-> Text(name[i])]>>)

Collect(f, order, self) ==
  FoldLeft(LAMBDA jail, r : AddParams(jail, f[r].params),
           AddParam([NoJail EXCEPT !.name = f[self].name], NameParam(f[self].name)),
           order)

(* The jail that is followed is any of the file.                           *)
LoadConfig ==
  /\ at = "load"
  /\ \E f \in Files : \E self \in {i \in DOMAIN f : ~IsWild(f[i].name)} :
       LET new == Collect(f, Records(f, self), self)
       IN  /\ file' = [records |-> f, self |-> self]
           /\ j' = [new EXCEPT !.params[1].gen = 1]
  /\ at' = "resolve"
  /\ UNCHANGED <<cmd, cursor, kernel>>

Vars(string) == {i \in DOMAIN string : string[i].v}
FirstVar(string) == CHOOSE i \in Vars(string) : \A k \in Vars(string) : i <= k

Here == j.params[cursor.p]
String == Here.val[cursor.s]
AtString == at = "resolve" /\ cursor.p <= Len(j.params) /\ cursor.s <= Len(Here.val)
AtVar == AtString /\ Vars(String) # {}

NextString ==
  /\ AtString
  /\ Vars(String) = {}
  /\ cursor' = [cursor EXCEPT !.s = @ + 1]
  /\ UNCHANGED <<at, cmd, file, j, kernel>>

(* A mutant of NextParam: all parameters are one generation.               *)
NextParamSameGen ==
  /\ at = "resolve"
  /\ cursor.p <= Len(j.params)
  /\ cursor.s > Len(Here.val)
  /\ cursor' = [cursor EXCEPT !.p = @ + 1, !.s = 1]
  /\ j' = IF cursor.p < Len(j.params)
            THEN [j EXCEPT !.params[cursor.p + 1].gen = cursor.gen] ELSE j
  /\ UNCHANGED <<at, cmd, file, kernel>>

NextParam ==
  /\ at = "resolve"
  /\ cursor.p <= Len(j.params)
  /\ cursor.s > Len(Here.val)
  /\ cursor' = [p |-> cursor.p + 1, s |-> 1, gen |-> cursor.gen + 1]
  /\ j' = IF cursor.p < Len(j.params)
            THEN [j EXCEPT !.params[cursor.p + 1].gen = cursor.gen + 1] ELSE j
  /\ UNCHANGED <<at, cmd, file, kernel>>

(* The variable to resolve, and the parameter of that name.                *)
Name == String[FirstVar(String)].t
Meant == j.params[Place(j.params, Name)]
PutFor(string, i, what) == SubSeq(string, 1, i - 1) \o what \o SubSeq(string, i + 1, Len(string))

Unresolved(val) == \E i \in DOMAIN val : Vars(val[i]) # {}

(* A mutant of IsBad: loops are not noticed.                               *)
IsBadNoLoop ==
  \/ ~Has(j.params, Name)
  \/ Meant.bad
  \/ ~Unresolved(Meant.val) /\ Len(Meant.val) > 1 /\ Len(String) > 1

(* There is no such variable, it was found to be bad, it is part of a loop *)
(* or an array among other text.                                           *)
IsBad ==
  \/ ~Has(j.params, Name)
  \/ Meant.bad
  \/ Meant.gen = cursor.gen
  \/ ~Unresolved(Meant.val) /\ Len(Meant.val) > 1 /\ Len(String) > 1
Good == AtVar /\ ~IsBad

BadVar ==
  /\ AtVar /\ ~Good
  /\ LET marked == [k \in DOMAIN j.params |->
                      [j.params[k] EXCEPT !.bad = @ \/ j.params[k].gen = cursor.gen]]
     IN  j' = [j EXCEPT !.failed = TRUE,
                 !.params = [marked EXCEPT ![cursor.p].val[cursor.s] =
                                             PutFor(@, FirstVar(@), <<>>)]]
  /\ UNCHANGED <<at, cmd, file, cursor, kernel>>

(* The parameter has variables of its own: it goes in front, and is first. *)
ResolveFirst ==
  /\ Good
  /\ Unresolved(Meant.val)
  /\ LET i == Place(j.params, Name)
         rest == RemoveAt(j.params, i)
         p == Place(rest, Here.key)
     IN  /\ j' = [j EXCEPT !.params = InsertAt(rest, p, [Meant EXCEPT !.gen = cursor.gen])]
         /\ cursor' = [cursor EXCEPT !.p = p, !.s = 1]
  /\ UNCHANGED <<at, cmd, file, kernel>>

(* A mutant of Substitute: only the text behind the variable is kept.      *)
SubstituteDropsText ==
  /\ Good
  /\ ~Unresolved(Meant.val)
  /\ Len(Meant.val) = 1
  /\ j' = [j EXCEPT !.params[cursor.p].val[cursor.s] =
                      Meant.val[1] \o SubSeq(@, FirstVar(@) + 1, Len(@))]
  /\ UNCHANGED <<at, cmd, file, cursor, kernel>>

Substitute ==
  /\ Good
  /\ ~Unresolved(Meant.val)
  /\ Len(Meant.val) = 1
  /\ j' = [j EXCEPT !.params[cursor.p].val[cursor.s] =
                      PutFor(@, FirstVar(@), Meant.val[1])]
  /\ UNCHANGED <<at, cmd, file, cursor, kernel>>

(* For a parameter without a value, and after an array, the program        *)
(* follows a pointer to nothing.                                           *)
SubstituteNothing ==
  /\ Good
  /\ ~Unresolved(Meant.val)
  /\ Meant.val = <<>> \/ (Len(Meant.val) > 1 /\ Len(String) = 1)
  /\ at' = "undefined"
  /\ UNCHANGED <<cmd, file, j, cursor, kernel>>

(* Variables go; j->intparams still points to one that has the name of a   *)
(* parameter.                                                              *)
FreeVariables ==
  /\ at = "resolve"
  /\ cursor.p > Len(j.params)
  /\ j' = [j EXCEPT !.params = SelectSeq(@, LAMBDA p : "var" \notin p.flags)]
  /\ at' = "loaded"
  /\ UNCHANGED <<cmd, file, cursor, kernel>>

(* start_state() and the main loop take up a jail that did not fail.       *)
Selected ==
  /\ at = "loaded"
  /\ at' = IF j.failed THEN "failed" ELSE "check"
  /\ UNCHANGED <<cmd, file, j, cursor, kernel>>

-----------------------------------------------------------------------------
(* check_intparams()                                                       *)
WellFormed(jail) ==
  \A i \in DOMAIN jail.params :
    LET p == jail.params[i]
    IN  p.val # <<>> =>
          /\ p.key \in Booleans =>
               Last(p.val) \in {<<Text("true")>>, <<Text("false")>>, <<Text("1")>>}
          /\ p.key = "exec.timeout" => Last(p.val) = <<Text("1")>>

WantsLookup(jail) ==
  /\ cmd.op # {"stop"} \/ "interface" \in jail.int
  /\ BoolParam(jail, "ip_hostname")
  /\ Value(jail, "host.hostname") # <<>>

Addresses(jail, found) ==
  AddParams(jail, [i \in DOMAIN found |-> Given("ip4.addr", <<found[i]>>)])

(* A mutant of Lookup: ip_hostname stays and is looked up again.           *)
LookupStays(jail, found) == Addresses(jail, found)

Lookup(jail, found) ==
  Addresses([jail EXCEPT !.int = @ \ {"ip_hostname"}], found)

(* An address with an interface is kept for ifconfig as it is written, and *)
(* loses interface and netmask for the kernel.                             *)
Strip(string) == IF string \in DOMAIN Bare THEN Bare[string] ELSE string

(* A mutant of ForIfconfig: the interface stays in the address.            *)
ForIfconfigOnly(jail) ==
  LET addrs == Value(jail, "ip4.addr")
      kept == SelectSeq(addrs, LAMBDA a : a \in DOMAIN Bare \/ Value(jail, "interface") # <<>>)
  IN  AddParams(jail, [i \in DOMAIN kept |-> Given("ip4.ifaddr", <<kept[i]>>)])

ForIfconfig(jail) ==
  LET addrs == Value(jail, "ip4.addr")
      kept == SelectSeq(addrs, LAMBDA a : a \in DOMAIN Bare \/ Value(jail, "interface") # <<>>)
      new == AddParams(jail, [i \in DOMAIN kept |-> Given("ip4.ifaddr", <<kept[i]>>)])
  IN  IF addrs = <<>> THEN jail
      ELSE [new EXCEPT !.params[Place(new.params, "ip4.addr")].val =
                         [i \in DOMAIN @ |-> Strip(@[i])]]

(* The lines of the tables that can be opened.                             *)
FromTables(jail, opened) ==
  LET tables == SelectSeq(Value(jail, "mount.fstab"), LAMBDA s : s # <<>> /\ s \in opened)
      lines == FlattenSeq([i \in DOMAIN tables |-> Lines[tables[i]]])
  IN  AddParams(jail, [i \in DOMAIN lines |-> Given("fstab.line", <<lines[i]>>)])

CheckIntparams(jail, found, resolved, opened) ==
  LET looked == IF WantsLookup(jail) THEN Lookup(jail, IF resolved THEN found ELSE <<>>)
                                     ELSE jail
  IN  FromTables(ForIfconfig(looked), opened)

(* With a dangling pointer anything may come of it.                        *)
Check ==
  /\ at = "check"
  /\ LET asked == IF cmd.d THEN AddParam(j, Given("allow.dying", <<>>)) ELSE j
         tables == {Value(j, "mount.fstab")[i] : i \in DOMAIN Value(j, "mount.fstab")}
     IN  IF DeadKeys(j) # {} THEN at' = "undefined" /\ UNCHANGED j
         ELSE \E resolved \in IF WantsLookup(asked) THEN BOOLEAN ELSE {TRUE} :
              \E opened \in SUBSET (tables \ {<<>>}) :
                LET error == \/ ~WellFormed(asked) \/ ~resolved
                             \/ tables \ {<<>>} # opened
                IN  /\ j' = [CheckIntparams(asked, Looked, resolved, opened)
                               EXCEPT !.failed = error]
                    /\ at' = IF error THEN "failed"
                             ELSE IF cmd.op \cap {"start", "set"} = {} THEN "run"
                             ELSE "import"
  /\ cmd' = [cmd EXCEPT !.checks = @ + 1]
  /\ UNCHANGED <<file, cursor, kernel>>

(* import_params(): what is not internal, an address as an array, others   *)
(* by the last of their values.                                            *)
ForKernel(p) == IF p.key = "ip4.addr" \/ p.val = <<>> THEN p.val ELSE <<Last(p.val)>>

Import ==
  /\ at = "import"
  /\ \/ /\ kernel' = [k \in {j.params[i].key : i \in DOMAIN j.params} \ Internal |->
                        ForKernel(j.params[Place(j.params, k)])]
        /\ at' = "run"
        /\ UNCHANGED j
     \/ /\ j' = [j EXCEPT !.failed = TRUE]
        /\ at' = "failed"
        /\ UNCHANGED kernel
  /\ UNCHANGED <<cmd, file, cursor>>

(* -mr and -cmr turn into one operation, and forget that the parameters    *)
(* were checked.                                                           *)
Turn ==
  /\ at = "run"
  /\ cmd.checks = 1
  /\ cmd.op \in {{"set", "stop"}, {"start", "set", "stop"}, {"start", "set"}}
  /\ \E op \in {{"start"}, {"set"}, {"start", "stop"}} :
       /\ op = {"start", "stop"} => "stop" \in cmd.op
       /\ op = {"start"} => "start" \in cmd.op
       /\ cmd' = [cmd EXCEPT !.op = op]
  /\ at' = "check"
  /\ UNCHANGED <<file, j, cursor, kernel>>

Resolves == NextString \/ NextParam \/ BadVar \/ ResolveFirst
              \/ Substitute \/ SubstituteNothing \/ FreeVariables

Next ==
  \/ \E o \in DOMAIN OptionParams : OptionSets(o)
  \/ \E o \in {"c", "m", "r", "R", "d"} : Option(o)
  \/ OldStyle \/ RemoveStyle \/ ArgumentStyle \/ FileStyle
  \/ LoadConfig \/ Resolves \/ Selected
  \/ Check \/ Import \/ Turn

Spec == Init /\ [][Next]_vars

(* load_config() goes on.                                                  *)
FairSpec == Spec /\ WF_vars(Resolves)

-----------------------------------------------------------------------------
(* The parameters of the jail as they are written, in the order of the     *)
(* file.                                                                   *)
Matches(name, wild) ==
  /\ Len(wild) <= Len(name)
  /\ \A i \in DOMAIN wild : wild[i] \in {name[i], "*"}
  /\ Len(wild) = Len(name) \/ Last(wild) = "*"
Written ==
  LET f == file.records
  IN  Collect(f, SelectSeq([i \in DOMAIN f |-> i],
                   LAMBDA r : r = file.self
                                \/ (IsWild(f[r].name) /\ Matches(f[file.self].name, f[r].name))),
              file.self)

UsedIn(string) == {string[i].t : i \in Vars(string)}
Uses(val) == UNION {UsedIn(val[i]) : i \in DOMAIN val}

Faulty(written) ==
  LET keys == {written.params[i].key : i \in DOMAIN written.params}
      val == [k \in keys |-> Value(written, k)]
  IN  \/ \E k \in keys : Uses(val[k]) \ keys # {}
      \/ \E loop \in SUBSET keys \ {{}} : \A k \in loop : Uses(val[k]) \cap loop # {}
      \/ \E k \in keys : \E i \in DOMAIN val[k] :
           Len(val[k][i]) > 1 /\ \E m \in UsedIn(val[k][i]) : Len(val[m]) > 1

(* load_config() fails a jail when one of its parameters uses a variable   *)
(* that is not there, one that leads back to itself, or an array among     *)
(* other text, and only then, in whatever order they are written.          *)
FailsRightly == at = "loaded" => (j.failed <=> Faulty(Written))

Resolved == at = "resolve" /\ cursor.p > Len(j.params)

(* Every other jail has the parameters that its part of the file, the      *)
(* globals and the wildcards that match it give it, the later after the    *)
(* earlier, with every variable replaced by the value of that name.        *)
Expands ==
  Resolved /\ ~j.failed =>
    LET written == Written
    IN  /\ Len(j.params) = Len(written.params)
        /\ \A n \in DOMAIN written.params :
             LET p == written.params[n]
             IN  Value(j, p.key) =
                   [i \in DOMAIN p.val |->
                     FlattenSeq([m \in DOMAIN p.val[i] |->
                       IF p.val[i][m].v THEN FlattenSeq(Value(j, p.val[i][m].t))
                                        ELSE <<p.val[i][m]>>])]

(* A configuration file is read only when no option has made a jail, which *)
(* has no name.                                                            *)
FileOrOptions == at = "load" => j.params = <<>>

(* What the file says of a parameter of the kernel, without variables, is  *)
(* what the kernel gets, the addresses without interface and netmask, also *)
(* the second time; unless a variable has the name of the parameter.       *)
KernelGets ==
  at = "run" /\ cmd.loaded /\ cmd.op # {"stop"} =>
    LET written == Written
    IN  \A n \in DOMAIN written.params :
          LET p == written.params[n]
              given == kernel[p.key]
          IN  p.key \notin Internal /\ "var" \notin p.flags /\ Uses(p.val) = {} =>
                /\ p.key \in DOMAIN kernel
                /\ p.key # "ip4.addr" =>
                     given = IF p.val = <<>> THEN <<>> ELSE <<Last(p.val)>>
                /\ p.key = "ip4.addr" =>
                     SubSeq(given, 1, Len(p.val)) = [i \in DOMAIN p.val |-> Strip(p.val[i])]

(* Checked twice, because the operation turned into another, a jail has    *)
(* each address of its host name once, and commands for each address and   *)
(* each line once; but for the addresses of one `interface`, and for the   *)
(* lines of a file system table, which it has twice.                       *)
CopiedOnce ==
  at = "run" =>
    LET addrs == Value(j, "ip4.addr")
        tables == Value(j, "mount.fstab")
    IN  /\ \A i \in DOMAIN Looked :
             Cardinality({m \in DOMAIN addrs : addrs[m] = Looked[i]}) <= 1
        /\ cmd.checks = 1 \/ Value(j, "interface") = <<>> =>
             Len(Value(j, "ip4.ifaddr")) <= Len(addrs)
        /\ cmd.checks = 1 \/ tables = <<>> =>
             Len(Value(j, "fstab.line")) =
               Len(FlattenSeq([i \in DOMAIN tables |->
                     IF tables[i] = <<>> THEN <<>> ELSE Lines[tables[i]]]))

(* load_config() ends, whatever loops the variables make.                  *)
LoadEnds == at = "resolve" ~> at # "resolve"
=============================================================================
