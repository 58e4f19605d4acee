---------------------------- MODULE Typesetting -----------------------------
(***************************************************************************)
(* What laying out one list promises, whatever the passes: nothing is      *)
(* published before the end, and then either a failure or, item by item,   *)
(* the nodes TeX asks for, in the written order.                           *)
(***************************************************************************)
EXTENDS Styles, SequencesExt

VARIABLES
  source,       (* the list as the parser left it                          *)
  inStyle, inMath,
  published     (* empty, then the status and the nodes                    *)

promise == <<source, inStyle, inMath, published>>

Atoms     == {n \in DOMAIN source : source[n].kind = "ATOM"}
Before(n) == {k \in Atoms : k < n}
After(n)  == {k \in Atoms : k > n}
Prior(n)  == CHOOSE k \in Before(n) : \A j \in Before(n) : j <= k
Following(n)  == CHOOSE k \in After(n) : \A j \in After(n) : k <= j

(* TeXbook, chapter 17: a Bin needs an operand on its left, which a Bin,   *)
(* an operator, a relation, an opening or a punctuation is not, and one on *)
(* its right, which the end, a relation, a closing or a punctuation is not.*)
Rightless(n) ==
  After(n) = {} \/ source[Following(n)].class \in {"REL", "CLOSE", "PUNCT"}

ClassOf ==
  LET class[n \in DOMAIN source] ==
        IF /\ inMath /\ source[n].class = "BIN" /\ n \in Atoms
           /\ \/ Before(n) = {} \/ Rightless(n)
              \/ class[Prior(n)] \in {"BIN", "OP", "REL", "OPEN", "PUNCT"}
        THEN "ORD" ELSE source[n].class
  IN  class

GapBefore(n) ==
  IF ~inMath \/ n \notin Atoms \/ Before(n) = {} THEN "NONE"
  ELSE InterAtomWidth(Spacing(ClassOf[Prior(n)], ClassOf[n]), inStyle)

Node(part, n, s, parts) == [part |-> part, item |-> n, style |-> s, parts |-> parts]

ScriptsOf(n) ==
  [k \in DOMAIN source[n].scripts |->
     Node(source[n].scripts[k], n,
          IF source[n].scripts[k] = "SUP" THEN SupStyle(inStyle) ELSE SubStyle(inStyle),
          << >>)]

Stacked(n) ==
  /\ source[n].class = "OP" /\ source[n].scripts # << >>
  /\ \/ source[n].limits = "ALWAYS"
     \/ source[n].limits = "DISPLAY" /\ inStyle \in {0, 1}

NodesOf(n) ==
  LET nucleus == IF source[n].nucleus = "EMPTY" THEN << >>
                 ELSE <<Node("NUCLEUS", n, inStyle, << >>)>>
      gap == IF GapBefore(n) = "NONE" THEN << >>
             ELSE <<Node(GapBefore(n), n, inStyle, << >>)>>
  IN  IF n \notin Atoms THEN <<Node("SPACE", n, inStyle, << >>)>>
      ELSE gap \o IF Stacked(n)
                  THEN <<Node("LIMITS", n, inStyle, nucleus \o ScriptsOf(n))>>
                  ELSE nucleus \o ScriptsOf(n)

Promised == FlattenSeq([n \in DOMAIN source |-> NodesOf(n)])

Begin == published = << >>

Deliver ==
  /\ published = << >>
  /\ published' \in {<<"FAILED", << >> >>, <<"OK", Promised>>}
  /\ UNCHANGED <<source, inStyle, inMath>>

Spec == Begin /\ [][Deliver]_promise
=============================================================================
