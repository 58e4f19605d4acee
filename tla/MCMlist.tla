------------------------------ MODULE MCMlist -------------------------------
(* Lists for TLC: every list of plain atoms of all eight classes and       *)
(* spaces, and every list of atoms whose nodes differ in number.           *)
EXTENDS MlistProps

CONSTANTS MaxPlain, MaxScripted

Item(kind, class, nucleus, scripts, limits) ==
  [kind |-> kind, class |-> class, nucleus |-> nucleus, scripts |-> scripts,
   limits |-> limits]

Space_   == Item("SPACE", "ORD", "EMPTY", << >>, "DISPLAY")
Plain(c) == Item("ATOM", c, "CHAR", << >>, "DISPLAY")

PlainItems == {Plain(c) : c \in Classes} \cup {Space_}

ScriptedItems ==
  {Item("ATOM", "OP", "CHAR", <<"SUP", "SUB">>, "ALWAYS"),
   Item("ATOM", "OP", "CHAR", <<"SUB">>, "DISPLAY"),
   Item("ATOM", "OP", "BOX", <<"SUB", "SUP">>, "DISPLAY"),
   Item("ATOM", "OP", "BOX", <<"SUB", "SUP">>, "NEVER"),
   Item("ATOM", "ORD", "EMPTY", <<"SUP">>, "DISPLAY"),
   Item("ATOM", "INNER", "BOX", <<"SUB", "SUP">>, "DISPLAY"),
   Item("ATOM", "BIN", "CHAR", << >>, "DISPLAY"), Plain("PUNCT"), Space_}

Upto(set, n) == UNION {[1 .. k -> set] : k \in 0 .. n}

AllLists == Upto(PlainItems, MaxPlain) \cup Upto(ScriptedItems, MaxScripted)
=============================================================================
