------------------------------- MODULE MCDump -------------------------------
(* Instances of the dump for TLC: every ordered tree of up to MaxNodes     *)
(* nodes, leaves of either kind, with short lines and small capacities.    *)
EXTENDS DumpProps, FiniteSets

CONSTANT MaxNodes

Parents(n) == {p \in [2 .. n -> 1 .. n] : \A i \in 2 .. n : p[i] < i}

Tree(n, p, glyphs) ==
  LET kids(i) == {j \in 2 .. n : p[j] = i} IN
    [kids |-> [i \in 1 .. n |-> SetToSortSeq(kids(i), <)],
     kind |-> [i \in 1 .. n |-> IF i \in glyphs THEN "GLYPH" ELSE "HBOX"]]

AllTrees ==
  UNION {UNION {{Tree(n, p, g) : g \in SUBSET {i \in 1 .. n : \A j \in 2 .. n : p[j] # i}} :
                p \in Parents(n)} : n \in 1 .. MaxNodes}

ShortLines == [HBOX |-> 4, GLYPH |-> 3]
=============================================================================
