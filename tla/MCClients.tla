----------------------------- MODULE MCClients -----------------------------
(* Instances of the clients for TLC: every ordered tree of up to MaxNodes  *)
(* nodes, with leaves of every kind in the smaller ones, every style and   *)
(* family of a glyph, and a tree that is too large for SizeMax; every      *)
(* status of an error; every list of up to MaxWords arguments.             *)
EXTENDS ClientsProps, FiniteSets, SequencesExt

CONSTANTS MaxNodes, MaxWords

Parents(n) == {p \in [2 .. n -> 1 .. n] : \A i \in 2 .. n : p[i] < i}

Shaped(n, p, kinds) ==
  [kids   |-> [i \in 1 .. n |-> SetToSortSeq({j \in 2 .. n : p[j] = i}, <)],
   kind   |-> [i \in 1 .. n |-> IF i \in DOMAIN kinds THEN kinds[i] ELSE "HBOX"],
   style  |-> [i \in 1 .. n |-> Styles[1 + (i % 2)]],
   family |-> [i \in 1 .. n |-> Families[1 + i]]]

Leaves(n, p) == {i \in 2 .. n : \A j \in 2 .. n : p[j] # i}

Letters ==
  {[kids |-> <<<<2>>, << >>>>, kind |-> <<"HBOX", "GLYPH">>,
    style |-> <<"UPRIGHT", s>>, family |-> <<"MAIN", f>>] :
     s \in Members(Styles), f \in Members(Families)}

LeafKinds(n) == IF n < MaxNodes THEN Members(Kinds) ELSE {"HBOX", "GLYPH"}

TooLarge == Shaped(MaxNodes + 1, [i \in 2 .. MaxNodes + 1 |-> 1], << >>)

AllTrees ==
  Letters \cup {TooLarge} \cup
  UNION {UNION {{Shaped(n, p, k) : k \in [Leaves(n, p) -> LeafKinds(n)]} :
                p \in Parents(n)} : n \in 1 .. MaxNodes}

AllErrors ==
  {[status |-> s, message |-> IF r THEN 3 ELSE 0, ranged |-> r] :
     s \in Members(Statuses), r \in BOOLEAN}

AllWords ==
  BoundedSeq({"--help", "--mode", "--other", "document", "math-display", "file", "-", ""}, MaxWords)
=============================================================================
