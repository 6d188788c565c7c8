------------------------- MODULE JailConfig_proofs -------------------------
(***************************************************************************)
(* For any configuration files, arguments and number of options: a file is *)
(* read only when no option has made the jail without a name.              *)
(***************************************************************************)
EXTENDS JailConfig, TLAPS

Words == [op : SUBSET {"start", "set", "stop"}, docf : BOOLEAN, R : BOOLEAN,
          d : BOOLEAN, options : Nat, loaded : BOOLEAN, checks : Nat]

(* While options are read, docf tells whether one of them set a parameter. *)
OptionsTold == at = "options" /\ cmd.docf => j.params = <<>>

IInv == cmd \in Words /\ OptionsTold /\ FileOrOptions

(* What is chosen keeps docf and the rest of the command line.             *)
LEMMA ChosenWords ==
  ASSUME cmd \in Words, NEW o
  PROVE  Chosen(o) \in Words /\ Chosen(o).docf = cmd.docf
<1> DEFINE more == CASE o = "c" -> {"start"} [] o = "m" -> {"set"}
                     [] o \in {"r", "R"} -> {"stop"} [] OTHER -> {}
           ops == cmd.op \cup more
           dies == cmd.d \/ o = "d"
           forced == cmd.R \/ o = "R"
<1>1. ops \in SUBSET {"start", "set", "stop"}
  BY DEF Words
<1>2. dies \in BOOLEAN /\ forced \in BOOLEAN
  OBVIOUS
<1>3. Chosen(o) = [cmd EXCEPT !.options = @ + 1, !.d = dies, !.R = forced, !.op = ops]
  BY DEF Chosen
<1>4. Chosen(o) = [op |-> ops, docf |-> cmd.docf, R |-> forced, d |-> dies,
                   options |-> cmd.options + 1, loaded |-> cmd.loaded, checks |-> cmd.checks]
  <2> HIDE DEF ops, dies, forced
  <2> QED
    BY <1>3 DEF Words
<1>5. cmd.docf \in BOOLEAN /\ cmd.loaded \in BOOLEAN /\ cmd.options + 1 \in Nat /\ cmd.checks \in Nat
  BY DEF Words
<1> HIDE DEF more, ops, dies, forced
<1> QED
  <2>1. Chosen(o).docf = cmd.docf
    BY <1>4
  <2>2. Chosen(o) \in Words
    BY <1>1, <1>2, <1>4, <1>5 DEF Words
  <2> QED
    BY <2>1, <2>2

(* An option sets a parameter and gives up the file, or does neither.      *)
LEMMA OptionInv ==
  IInv /\ ((\E o \in DOMAIN OptionParams : OptionSets(o))
             \/ \E o \in {"c", "m", "r", "R", "d"} : Option(o)) => IInv'
<1>1. ASSUME IInv, NEW o, OptionSets(o) PROVE IInv'
  <2>1. cmd' \in Words /\ cmd'.docf = FALSE
    BY <1>1, ChosenWords DEF IInv, OptionSets, Words
  <2> QED
    BY <1>1, <2>1 DEF IInv, OptionSets, OptionsTold, FileOrOptions
<1>2. ASSUME IInv, NEW o, Option(o) PROVE IInv'
  BY <1>2, ChosenWords DEF IInv, Option, OptionsTold, FileOrOptions
<1> QED
  BY <1>1, <1>2

(* Of the styles of command line, those that read a file ask docf first.   *)
LEMMA StyleInv ==
  IInv /\ (OldStyle \/ RemoveStyle \/ ArgumentStyle \/ FileStyle) => IInv'
<1>1. ASSUME IInv, at = "options", Usage PROVE IInv'
  BY <1>1 DEF IInv, Usage, Goes, OptionsTold, FileOrOptions, Words
<1>2. ASSUME IInv, OldStyle PROVE IInv'
  <2>1. CASE UNCHANGED cmd
    BY <1>1, <1>2, <2>1 DEF OldStyle, IInv, Goes, OptionsTold, FileOrOptions
  <2>2. CASE cmd' = [cmd EXCEPT !.op = {"start"}, !.docf = FALSE, !.options = 0] /\ Goes("check")
    <3>1. cmd' \in Words
      <4>1. {"start"} \in SUBSET {"start", "set", "stop"} /\ 0 \in Nat
        OBVIOUS
      <4> QED
        BY <1>2, <2>2, <4>1 DEF IInv, Words
    <3> QED
      BY <2>2, <3>1 DEF IInv, Goes, OptionsTold, FileOrOptions
  <2> QED
    BY <1>2, <2>1, <2>2 DEF OldStyle, Usage
<1>3. ASSUME IInv, RemoveStyle PROVE IInv'
  <2>1. CASE Usage
    BY <1>1, <1>3, <2>1 DEF RemoveStyle
  <2>2. ASSUME cmd.docf, UNCHANGED j, NEW there \in BOOLEAN, Goes(IF there THEN "load" ELSE "check"),
               cmd' = [cmd EXCEPT !.docf = there, !.loaded = there, !.options = 0]
        PROVE  IInv'
    BY <1>3, <2>2 DEF RemoveStyle, IInv, Words, Goes, OptionsTold, FileOrOptions
  <2> QED
    BY <1>3, <2>1, <2>2 DEF RemoveStyle
<1>4. ASSUME IInv, ArgumentStyle PROVE IInv'
  <2>1. CASE Usage
    BY <1>1, <1>4, <2>1 DEF ArgumentStyle
  <2>2. CASE cmd' = [cmd EXCEPT !.docf = FALSE, !.options = 0] /\ Goes("check")
    BY <1>4, <2>2 DEF IInv, Words, Goes, OptionsTold, FileOrOptions
  <2> QED
    BY <1>4, <2>1, <2>2 DEF ArgumentStyle
<1>5. ASSUME IInv, FileStyle PROVE IInv'
  <2>1. CASE Usage
    BY <1>1, <1>5, <2>1 DEF FileStyle
  <2>2. CASE cmd.docf /\ cmd' = [cmd EXCEPT !.loaded = TRUE, !.options = 0] /\ Goes("load")
             /\ UNCHANGED j
    BY <1>5, <2>2 DEF FileStyle, IInv, Words, Goes, OptionsTold, FileOrOptions
  <2> QED
    BY <1>5, <2>1, <2>2 DEF FileStyle
<1> QED
  BY <1>2, <1>3, <1>4, <1>5

(* Nothing that comes later goes back to the file or to the options.       *)
LEMMA LaterInv ==
  ASSUME IInv, LoadConfig \/ Resolves \/ Selected \/ Check \/ Import \/ Turn
  PROVE  IInv'
<1>1. at' \notin {"options", "load"}
  BY DEF LoadConfig, Resolves, NextString, NextParam, BadVar, ResolveFirst, Substitute,
         SubstituteNothing, FreeVariables, Selected, Check, Import, Turn, Good, AtVar, AtString
<1>2. cmd' \in Words
  <2>1. CASE LoadConfig \/ Resolves \/ Selected \/ Import
    <3>1. cmd' = cmd
      BY <2>1 DEF LoadConfig, Resolves, NextString, NextParam, BadVar, ResolveFirst,
                  Substitute, SubstituteNothing, FreeVariables, Selected, Import
    <3> QED
      BY <3>1 DEF IInv
  <2>2. CASE Check
    <3>1. cmd' = [cmd EXCEPT !.checks = @ + 1]
      BY <2>2 DEF Check
    <3> QED
      BY <3>1 DEF IInv, Words
  <2>3. CASE Turn
    BY <2>3 DEF IInv, Words, Turn
  <2> QED
    BY <2>1, <2>2, <2>3
<1> QED
  BY <1>1, <1>2 DEF IInv, OptionsTold, FileOrOptions

(* The inductive invariant.                                                *)
THEOREM Invariance == Spec => []IInv
<1>1. Init => IInv
  BY DEF Init, IInv, Words, OptionsTold, FileOrOptions, NoJail
<1>2. IInv /\ UNCHANGED vars => IInv'
  BY DEF vars, IInv, OptionsTold, FileOrOptions
<1>3. IInv /\ [Next]_vars => IInv'
  BY <1>2, OptionInv, StyleInv, LaterInv DEF Next
<1> QED
  BY <1>1, <1>3, PTL DEF Spec

(* load_config() is called only when there is no jail without a name: no   *)
(* option and no style of command line mixes the two.                      *)
THEOREM FileAlone == Spec => []FileOrOptions
<1>1. IInv => FileOrOptions
  BY DEF IInv
<1> QED
  BY <1>1, Invariance, PTL
=============================================================================
