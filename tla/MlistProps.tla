----------------------------- MODULE MlistProps -----------------------------
(***************************************************************************)
(* What txc_mlist owes its caller.                                         *)
(***************************************************************************)
EXTENDS Mlist

Parts == {"THIN", "MEDIUM", "THICK", "SPACE", "NUCLEUS", "SUP", "SUB", "LIMITS"}

Simple == [part : Parts, item : Nat, style : MathStyles, parts : {<< >>}]
Nodes  == [part : Parts, item : Nat, style : MathStyles, parts : Seq(Simple)]

Passes == {"resolve", "count", "build", "item", "scripts", "done", "failed"}

(* Types of the passes' variables.                                         *)
TypeOK ==
  /\ given \in Seq(Items) /\ items \in Seq(Items) /\ Len(items) = Len(given)
  /\ style \in MathStyles /\ math \in BOOLEAN /\ pc \in Passes
  /\ at \in 1 .. Len(items) + 1 /\ previous \in 0 .. at - 1
  /\ capacity \in Nat /\ tally \in Seq(Nat) /\ Len(tally) <= Len(items)
  /\ children \in Seq(Nodes)

Building == pc \in {"build", "item", "scripts", "done"}

(* "Nodes one atom contributes to its list ... Shared by the counting and  *)
(* building passes" (layout.c): the children array, sized by the count, is *)
(* never written past its end, and every slot of it is filled when the box *)
(* is published.                                                           *)
ExactCapacity ==
  /\ Building => Len(children) <= capacity
  /\ pc = "done" => Len(children) = capacity

(* The node the limits assembly takes back from the last slot is the       *)
(* nucleus of the same atom, never a node of an earlier item.              *)
TakesOwnNucleus ==
  pc = "scripts" /\ LimitsActive(Here) /\ Here.scripts # << >> =>
    /\ children # << >>
    /\ children[Len(children)].part = "NUCLEUS" /\ children[Len(children)].item = at

(* "The pairs the TeXbook marks impossible": after resolution no Bin       *)
(* stands where it would be demoted, so that the pair table is never read  *)
(* at a pair whose zero is a placeholder.                                  *)
Impossible ==
  [BIN |-> {"BIN", "REL", "CLOSE", "PUNCT"}, OP |-> {"BIN"}, REL |-> {"BIN"},
   OPEN |-> {"BIN"}, PUNCT |-> {"BIN"}]

NoImpossiblePair ==
  math /\ pc # "resolve" /\ ~AtEnd /\ IsAtom(at) =>
    /\ previous = 0 => Here.class # "BIN"
    /\ previous # 0 /\ items[previous].class \in DOMAIN Impossible =>
         Here.class \notin Impossible[items[previous].class]

(* Only Bin atoms ever change their class, only to Ord, and only before    *)
(* anything is counted: the two later passes read the same classes.        *)
DemotedOnce ==
  [][\A n \in DOMAIN items : items'[n] # items[n] =>
       /\ pc = "resolve" /\ tally = << >>
       /\ items[n].class = "BIN" /\ items'[n] = [items[n] EXCEPT !.class = "ORD"]]_items

(* Every call returns.                                                     *)
Terminates == <>(pc \in {"done", "failed"})

Promise == INSTANCE Typesetting WITH
             source <- given, inStyle <- style, inMath <- math,
             published <- CASE pc = "done"   -> <<"OK", children>>
                            [] pc = "failed" -> <<"FAILED", << >> >>
                            [] OTHER         -> << >>

(* The passes publish what TeX asks for, in one step and at the end: the   *)
(* Bin rule, the pair spaces "directly before the right atom", limits or   *)
(* scripts in their written order, each in its style. They change no class *)
(* on the way but as the rule says and before the count, and they return.  *)
PromiseKept == Promise!Spec /\ DemotedOnce /\ Terminates

(* The children array is written within its bounds, filled, and read back  *)
(* only where the atom's own nucleus is.                                   *)
ArrayFilled == TypeOK /\ ExactCapacity /\ TakesOwnNucleus
=============================================================================
