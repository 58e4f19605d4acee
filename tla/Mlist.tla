------------------------------- MODULE Mlist --------------------------------
(***************************************************************************)
(* One activation of txc_mlist (packages/tex-core/core/layout.c): the Bin  *)
(* atoms of a list are resolved in place, the nodes its items will emit    *)
(* are counted, the children array is allocated at that size, and the      *)
(* items emit their nodes into it.                                         *)
(*                                                                         *)
(* A box of a nucleus or a script is made by a call that lays out lists of *)
(* its own, so such a call is one step that returns a box or fails.        *)
(***************************************************************************)
EXTENDS Styles, Sequences

CONSTANTS
  Lists,   (* the lists a parse may leave, as sequences of items           *)
  InStyles (* the styles they are laid out in                              *)

(* An item: an explicit space, or an atom with its class, the kind of its  *)
(* nucleus, the scripts it has, in written order, and the limits rule of   *)
(* an Op.  The parser gives every Op atom a nucleus.                       *)
Items ==
  {i \in [kind : {"ATOM", "SPACE"}, class : Classes, nucleus : {"EMPTY", "CHAR", "BOX"},
          scripts : {<< >>, <<"SUP">>, <<"SUB">>, <<"SUP", "SUB">>, <<"SUB", "SUP">>},
          limits : {"DISPLAY", "NEVER", "ALWAYS"}] :
     i.class = "OP" => i.nucleus # "EMPTY"}

ASSUME ListAssumption ==
  Lists \subseteq Seq(Items) /\ InStyles \subseteq MathStyles

VARIABLES
  given,     (* the list as the parser left it                             *)
  items,     (* the list, its classes rewritten in place                   *)
  style, math,  (* the arguments                                           *)
  pc,        (* the pass of txc_mlist                                      *)
  at,        (* the item the pass is at                                    *)
  previous,  (* previous_atom: an index into items, 0 for NULL             *)
  capacity,  (* child_capacity                                             *)
  tally,     (* history: child_capacity after each item counted            *)
  children   (* the nodes in children[0 .. index)                          *)

vars == <<given, items, style, math, pc, at, previous, capacity, tally, children>>

(* A text list, the only kind laid out with math false: the parser fills   *)
(* it with Ord characters and spaces, or takes a big operator alone.       *)
IsText(list) ==
  \A n \in DOMAIN list :
    list[n].kind = "ATOM" =>
      /\ list[n].class = "ORD" \/ (list[n].class = "OP" /\ Len(list) = 1)
      /\ list[n].nucleus = "CHAR" /\ list[n].scripts = << >>

Init ==
  /\ given \in Lists /\ items = given
  /\ style \in InStyles /\ math \in BOOLEAN /\ (~math => IsText(given))
  /\ pc = IF math THEN "resolve" ELSE "count"
  /\ at = 1 /\ previous = 0
  /\ capacity = 0 /\ tally = << >> /\ children = << >>

Here   == items[at]
IsAtom(n) == items[n].kind = "ATOM"
AtEnd  == at > Len(items)

(* The end of a pass: the next one starts from the head.                   *)
Rewind(next) == pc' = next /\ at' = 1 /\ previous' = 0

-----------------------------------------------------------------------------
(* txc_bin_demoting *)
Demoting == {"BIN", "OP", "REL", "OPEN", "PUNCT"}

DemotedBy(class) == class \in Demoting

Demote(n) == [items EXCEPT ![n].class = "ORD"]

(* A Bin that opens the list or follows what demotes it; one on the left   *)
(* of what undoes it.                                                      *)
OpensOperand ==
  IsAtom(at) /\ Here.class = "BIN"
    /\ (previous = 0 \/ DemotedBy(items[previous].class))

EndsNoOperand == FALSE                  (* mutant: the left one is not undone *)

EndsOperand ==
  IsAtom(at) /\ Here.class \in {"REL", "CLOSE", "PUNCT"}
    /\ previous # 0 /\ items[previous].class = "BIN"

(* txc_resolve_bin_atoms: one item.                                        *)
ResolveItem ==
  /\ pc = "resolve" /\ ~AtEnd /\ at' = at + 1
  /\ items' = CASE OpensOperand -> Demote(at)
                [] EndsOperand  -> Demote(previous)
                [] OTHER        -> items
  /\ previous' = IF IsAtom(at) THEN at ELSE previous
  /\ UNCHANGED <<given, style, math, pc, capacity, tally, children>>

(* Its end: a trailing Bin becomes Ord.                                    *)
ResolvedKeepingLast ==                  (* mutant: a trailing Bin stays       *)
  /\ pc = "resolve" /\ AtEnd /\ Rewind("count")
  /\ UNCHANGED <<given, items, style, math, capacity, tally, children>>

Resolved ==
  /\ pc = "resolve" /\ AtEnd /\ Rewind("count")
  /\ items' = IF previous # 0 /\ items[previous].class = "BIN"
              THEN Demote(previous) ELSE items
  /\ UNCHANGED <<given, style, math, capacity, tally, children>>

-----------------------------------------------------------------------------
(* txc_limits_active *)
LimitsActive(i) ==
  /\ i.class = "OP"
  /\ \/ i.limits = "ALWAYS"
     \/ i.limits = "DISPLAY" /\ style < Text

(* txc_atom_nodes *)
AtomNodesApart(i) ==                    (* mutant: limits counted as scripts  *)
  (IF i.nucleus = "EMPTY" THEN 0 ELSE 1) + Len(i.scripts)

AtomNodes(i) ==
  IF LimitsActive(i) /\ i.scripts # << >> THEN 1
  ELSE (IF i.nucleus = "EMPTY" THEN 0 ELSE 1) + Len(i.scripts)

Gap(left, right) == InterAtomWidth(Spacing(left.class, right.class), style)

(* The pair spaced before item n, when p is the atom before it.            *)
Spaced(p, n) ==
  math /\ IsAtom(n) /\ p # 0 /\ Gap(items[p], items[n]) # "NONE"

Cost(p, n) ==
  IF IsAtom(n) THEN AtomNodes(items[n]) + (IF Spaced(p, n) THEN 1 ELSE 0) ELSE 1

CountItem ==
  /\ pc = "count" /\ ~AtEnd /\ at' = at + 1
  /\ capacity' = capacity + Cost(previous, at)
  /\ tally' = Append(tally, capacity')
  /\ previous' = IF IsAtom(at) THEN at ELSE previous
  /\ UNCHANGED <<given, items, style, math, pc, children>>

Counted ==
  /\ pc = "count" /\ AtEnd /\ Rewind("build")
  /\ UNCHANGED <<given, items, style, math, capacity, tally, children>>

-----------------------------------------------------------------------------
(* What stands in a slot of the children array: the node of item n, and    *)
(* the style its material was laid out in.                                 *)
NodeOf(part, n, s) == [part |-> part, item |-> n, style |-> s, parts |-> << >>]

Emit(nodes) == children' = children \o nodes

BuildGap ==
  /\ pc = "build" /\ ~AtEnd /\ pc' = "item"
  /\ IF Spaced(previous, at)
     THEN Emit(<<NodeOf(Gap(items[previous], Here), at, style)>>)
     ELSE UNCHANGED children
  /\ UNCHANGED <<given, items, style, math, at, previous, capacity, tally>>

BuildSpace ==
  /\ pc = "item" /\ ~IsAtom(at) /\ pc' = "build" /\ at' = at + 1
  /\ Emit(<<NodeOf("SPACE", at, style)>>)
  /\ UNCHANGED <<given, items, style, math, previous, capacity, tally>>

(* txc_atom, its nucleus.                                                  *)
BuildNucleus ==
  /\ pc = "item" /\ IsAtom(at) /\ pc' = "scripts"
  /\ IF Here.nucleus = "EMPTY" THEN UNCHANGED children
     ELSE Emit(<<NodeOf("NUCLEUS", at, style)>>)
  /\ UNCHANGED <<given, items, style, math, at, previous, capacity, tally>>

ScriptStyle(script) == IF script = "SUP" THEN SupStyle(style) ELSE SubStyle(style)

ScriptNodes == [k \in DOMAIN Here.scripts |->
                  NodeOf(Here.scripts[k], at, ScriptStyle(Here.scripts[k]))]

AtomDone == pc' = "build" /\ at' = at + 1 /\ previous' = at

(* txc_atom, its scripts beside it: none, or in written order.             *)
BuildScripts ==
  /\ pc = "scripts" /\ (LimitsActive(Here) => Here.scripts = << >>)
  /\ Emit(ScriptNodes)
  /\ AtomDone
  /\ UNCHANGED <<given, items, style, math, capacity, tally>>

(* txc_atom, its scripts as limits: the node in the last slot is taken     *)
(* back and one box with it and the scripts takes the slot.                *)
BuildLimits ==
  /\ pc = "scripts" /\ LimitsActive(Here) /\ Here.scripts # << >>
  /\ LET index == Len(children) - 1 IN
       children' = Append(SubSeq(children, 1, index),
                          [NodeOf("LIMITS", at, style) EXCEPT
                             !.parts = <<children[index + 1]>> \o ScriptNodes])
  /\ AtomDone
  /\ UNCHANGED <<given, items, style, math, capacity, tally>>

Finish ==
  /\ pc = "build" /\ AtEnd /\ pc' = "done"
  /\ UNCHANGED <<given, items, style, math, at, previous, capacity, tally, children>>

(* Every step of the build allocates or lays out a box of its own, and     *)
(* either may fail; so may the allocation of the array.                    *)
Fail ==
  /\ \/ pc = "count" /\ AtEnd
     \/ pc = "build" /\ ~AtEnd /\ Spaced(previous, at)
     \/ pc = "item"  /\ (IsAtom(at) => Here.nucleus # "EMPTY")
     \/ pc = "scripts" /\ Here.scripts # << >>
  /\ pc' = "failed"
  /\ UNCHANGED <<given, items, style, math, at, previous, capacity, tally, children>>

Returned == pc \in {"done", "failed"} /\ UNCHANGED vars

Step ==
  \/ ResolveItem \/ Resolved \/ CountItem \/ Counted
  \/ BuildGap \/ BuildSpace \/ BuildNucleus \/ BuildScripts \/ BuildLimits
  \/ Finish

Next == Step \/ Fail \/ Returned

Spec == Init /\ [][Next]_vars

(* A call runs on by itself; that something fails is never to be counted   *)
(* on.                                                                     *)
FairSpec == Spec /\ WF_vars(Step)
=============================================================================
