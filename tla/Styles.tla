------------------------------- MODULE Styles -------------------------------
(***************************************************************************)
(* The math styles of packages/tex-core/core/layout.c and what a list is   *)
(* spaced by: 0 display, 2 text, 4 script, 6 scriptscript, odd values      *)
(* cramped; the atom classes and the pair table.                           *)
(***************************************************************************)
EXTENDS Integers

MathStyles == 0 .. 7
Display    == 0
Text       == 2
Script     == 4
Scriptscript == 6

StyleSize(style) ==
  CASE style < Script -> "TEXT"
    [] style \in {4, 5} -> "SCRIPT"
    [] OTHER -> "SCRIPTSCRIPT"

SupStyle(style)     == 2 * (style \div 4) + Script + (style % 2)
SubStyle(style)     == 2 * (style \div 4) + Script + 1
NumStyle(style)     == style + 2 - 2 * (style \div 6)
CrampedStyle(style) == 2 * (style \div 2) + 1
DenomStyle(style)   == 2 * (style \div 2) + 1 + 2 - 2 * (style \div 6)

-----------------------------------------------------------------------------
Classes == {"ORD", "OP", "BIN", "REL", "OPEN", "CLOSE", "PUNCT", "INNER"}

(* TXC_MATH_SPACING by its nonzero entries, [left][right].                 *)
Pairs(left) ==
  CASE left \in {"ORD", "CLOSE"} -> [OP |-> 2, BIN |-> 3, REL |-> 4, INNER |-> 1]
    [] left = "OP"    -> [ORD |-> 2, OP |-> 2, REL |-> 4, INNER |-> 1]
    [] left = "BIN"   -> [ORD |-> 3, OP |-> 3, OPEN |-> 3, INNER |-> 3]
    [] left = "REL"   -> [ORD |-> 4, OP |-> 4, OPEN |-> 4, INNER |-> 4]
    [] left = "OPEN"  -> << >>
    [] left = "PUNCT" -> [ORD |-> 1, OP |-> 1, REL |-> 1, OPEN |-> 1, CLOSE |-> 1,
                          PUNCT |-> 1, INNER |-> 1]
    [] OTHER          -> [ORD |-> 1, OP |-> 2, BIN |-> 3, REL |-> 4, OPEN |-> 1,
                          PUNCT |-> 1, INNER |-> 1]

Spacing(left, right) == IF right \in DOMAIN Pairs(left) THEN Pairs(left)[right] ELSE 0

(* txc_inter_atom_width: 1 thin, 3 medium and 4 thick not in scripts, 2    *)
(* thin everywhere.                                                        *)
InterAtomWidth(digit, style) ==
  CASE digit = 2 -> "THIN"
    [] digit = 1 /\ style < Script -> "THIN"
    [] digit = 3 /\ style < Script -> "MEDIUM"
    [] digit = 4 /\ style < Script -> "THICK"
    [] OTHER -> "NONE"
=============================================================================
