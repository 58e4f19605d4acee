------------------------------ MODULE MCLeaves ------------------------------
(* Texts of every mix of blanks, letters and escapes, bytes around every   *)
(* bound of UTF-8, every table over a few names with common prefixes, and  *)
(* every fraction of a point.                                              *)
EXTENDS LeavesProps

CONSTANTS MaxText, MaxBytes

Upto(set, n) == UNION {[1 .. k -> set] : k \in 0 .. n}

Texts == Upto({Backslash, 97, 49, 32, LineFeed, CarriageReturn}, MaxText)

BoundaryBytes == {65, 128, 143, 144, 159, 160, 191, 193, 194, 224, 237, 239, 240, 244, 245}

Mixed == {<<Backslash>> \o s : s \in Upto(BoundaryBytes, MaxBytes - 1)}
           \cup {<<194, 160>> \o s : s \in Upto(BoundaryBytes \cup {Backslash}, 2)}

AllSources == Texts \cup Upto(BoundaryBytes, MaxBytes) \cup Mixed

SortedNames ==
  <<<<1>>, <<1, 1>>, <<1, 1, 2>>, <<1, 2>>, <<1, 2, 1>>, <<1, 2, 2>>, <<2>>, <<2, 1>>, <<2, 1, 1>>>>

Names == {SortedNames[k] : k \in DOMAIN SortedNames}

Among(name, set) == name \in set

AllTables == {SelectSeq(SortedNames, LAMBDA name : Among(name, set)) : set \in SUBSET Names}

AllFractions == 0 .. One - 1
=============================================================================
