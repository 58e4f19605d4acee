---------------------------- MODULE BoxesProofs ----------------------------
(***************************************************************************)
(* The geometry of BoxesProps, for every font and parameter table that is  *)
(* in order: what a step builds of a box with extents has extents again,   *)
(* and keeps its clearances.                                               *)
(***************************************************************************)
EXTENDS BoxesProps, WellFoundedInduction, TLAPS

(***************************************************************************)
(* Numbers, tables and lists.                                              *)
(***************************************************************************)

(* Induction over the naturals, for a set: what holds at zero and is kept  *)
(* by the successor holds everywhere.                                      *)
LEMMA SetInduction ==
  ASSUME NEW S, 0 \in S, \A n \in Nat : n \in S => n + 1 \in S
  PROVE  Nat \subseteq S
<1> DEFINE R == OpToRel(<, Nat)
           T == Nat \ S
<1>1. IsWellFoundedOn(R, Nat)  BY NatLessThanWellFounded, Zenon
<1>2. \A m, n \in Nat : m < n => <<m, n>> \in R  BY DEF OpToRel
<1> HIDE DEF R
<1> SUFFICES ASSUME T # {} PROVE FALSE  OBVIOUS
<1>3. T \subseteq Nat  OBVIOUS
<1> HIDE DEF T
<1>4. PICK x \in T : \A y \in T : ~(<<y, x>> \in R)  BY <1>1, <1>3, WFMin
<1>5. x \in Nat /\ x # 0 /\ x \notin S  BY <1>3, <1>4 DEF T
<1>6. x - 1 \in Nat /\ x - 1 < x /\ (x - 1) + 1 = x  BY <1>5
<1>7. <<x - 1, x>> \in R  BY <1>2, <1>5, <1>6
<1>8. x - 1 \in S  BY <1>4, <1>6, <1>7 DEF T
<1> QED  BY <1>5, <1>6, <1>8

(* A set of integers that are among finitely many has a largest one.       *)
Among(T, v, f, m) == \A x \in T : x = v \/ \E k \in 1 .. m : x = f[k]

LEMMA LargestOf ==
  ASSUME NEW n \in Nat, NEW f, \A k \in 1 .. n : f[k] \in Int, NEW v \in Int,
         NEW S, Among(S, v, f, n), S # {}
  PROVE  Largest(S) \in S /\ Largest(S) \in Int /\ \A k \in S : k <= Largest(S)
<1> DEFINE Topped(T) == \E m \in T : \A k \in T : k <= m
           I == {m \in Nat : m <= n => \A T : Among(T, v, f, m) /\ T # {} => Topped(T)}
<1>1. 0 \in I
  <2> SUFFICES ASSUME NEW T, Among(T, v, f, 0), T # {} PROVE Topped(T)
    OBVIOUS
  <2>1. \A x \in T : x = v  BY DEF Among
  <2> QED  BY <2>1
<1>2. ASSUME NEW m \in Nat, m \in I PROVE m + 1 \in I
  <2> SUFFICES ASSUME m + 1 <= n, NEW T, Among(T, v, f, m + 1), T # {}
               PROVE  Topped(T)
    OBVIOUS
  <2> DEFINE U == T \ {f[m + 1]}
  <2>1. Among(U, v, f, m)
    <3> SUFFICES ASSUME NEW x \in T, x # f[m + 1], x # v PROVE \E k \in 1 .. m : x = f[k]
      BY DEF Among
    <3>1. PICK k \in 1 .. m + 1 : x = f[k]  BY DEF Among
    <3>2. k \in 1 .. m  BY <3>1
    <3> QED  BY <3>1, <3>2
  <2>2. T \subseteq Int /\ f[m + 1] \in Int
    <3>1. \A k \in 1 .. m + 1 : k \in 1 .. n  OBVIOUS
    <3> QED  BY <3>1 DEF Among
  <2>3. CASE U = {}
    <3>1. T = {f[m + 1]}  BY <2>3
    <3> QED  BY <2>2, <3>1
  <2>4. CASE U # {}
    <3>1. m <= n  OBVIOUS
    <3>2. \A W : Among(W, v, f, m) /\ W # {} => Topped(W)  BY <1>2, <3>1
    <3>3. Topped(U)
      <4> HIDE DEF U, Topped
      <4> QED  BY <2>1, <2>4, <3>2
    <3>4. PICK top \in U : \A k \in U : k <= top  BY <3>3
    <3>5. top \in T /\ top \in Int /\ U \subseteq Int  BY <2>2
    <3>6. \A k \in T : k \in U \/ k = f[m + 1]  OBVIOUS
    <3> HIDE DEF U
    <3>7. CASE f[m + 1] \in T /\ top <= f[m + 1]
      <4>1. \A k \in T : k <= f[m + 1]  BY <2>2, <3>4, <3>5, <3>6, <3>7
      <4> QED  BY <3>7, <4>1
    <3>8. CASE ~(f[m + 1] \in T /\ top <= f[m + 1])
      <4>1. \A k \in T : k <= top  BY <2>2, <3>4, <3>5, <3>6, <3>8
      <4> QED  BY <3>5, <4>1
    <3> QED  BY <3>7, <3>8
  <2> QED  BY <2>3, <2>4
<1>3. n \in I
  <2> HIDE DEF I
  <2> QED  BY <1>1, <1>2, SetInduction
<1>4. \A T : Among(T, v, f, n) /\ T # {} => Topped(T)  BY <1>3
<1>5. Topped(S)
  <2> HIDE DEF Topped
  <2> QED  BY <1>4
<1>6. Largest(S) \in S /\ \A k \in S : k <= Largest(S)  BY <1>5 DEF Largest
<1>7. S \subseteq Int  BY DEF Among
<1> QED  BY <1>6, <1>7

LEMMA Concatenated ==
  ASSUME NEW S, NEW s \in Seq(S), NEW t \in Seq(S)
  PROVE  /\ s \o t \in Seq(S) /\ Len(s \o t) = Len(s) + Len(t)
         /\ \A k \in 1 .. Len(s) : (s \o t)[k] = s[k]
         /\ \A k \in 1 .. Len(t) : (s \o t)[Len(s) + k] = t[k]
  OBVIOUS

LEMMA Quotient ==
  ASSUME NEW a \in Int, NEW b \in Int, b > 0
  PROVE  /\ a \div b \in Int /\ (a >= 0 => a \div b >= 0)
         /\ b * (a \div b) <= a /\ a < b * (a \div b) + b
<1>1. b * (a \div b) <= a  OBVIOUS
<1>2. a < b * (a \div b) + b  OBVIOUS
<1> QED  BY <1>1, <1>2

LEMMA Halves ==
  ASSUME NEW v \in Int
  PROVE  Half(v) \in Int /\ (2 * Half(v) = v \/ 2 * Half(v) = v + 1)
  BY DEF Half

LEMMA LargerOf ==
  ASSUME NEW a \in Int, NEW b \in Int
  PROVE  /\ Larger(a, b) \in Int /\ Larger(a, b) >= a /\ Larger(a, b) >= b
         /\ Larger(a, b) \in {a, b}
  BY DEF Larger

LEMMA Tables ==
  ASSUME NEW s \in MathStyles
  PROVE  /\ StyleSize(s) \in Sizes
         /\ \A name \in Parameters : P(name, s) \in Nat
         /\ P("rule", s) \in Nat \ {0}
<1>1. StyleSize(s) \in Sizes  BY DEF StyleSize, Sizes
<1>2. Param \in [Sizes -> [Parameters -> Nat]] /\ \A z \in Sizes : Param[z]["rule"] > 0
  BY BoxesAssumption
<1>3. "rule" \in Parameters  BY DEF Parameters
<1> QED  BY <1>1, <1>2, <1>3 DEF P

-----------------------------------------------------------------------------
(***************************************************************************)
(* Nodes, and the boxes that are made of them.                             *)
(***************************************************************************)
Kinds == {"GLYPH", "HBOX", "KERN", "RULE"}

Roles ==
  {"LEFT", "RIGHT", "NUM", "DEN", "RULE", "BODY", "CHAR", "CLOSE", "ROW", "CELL", "INDEX",
   "SIGN", "RADICAND", "ACCENT", "NUCLEUS", "PIECE", "SUP", "SUB"}

NodeOf(Parts) ==
  {n \in [kind : Kinds, role : Roles, src : Int, x : Int, y : Int, width : Int, ascent : Int,
          descent : Int, italic : Int, parts : Parts] : n.kind = "KERN" \/ n.width >= 0}

Piece    == NodeOf({<< >>})
NodeType == NodeOf(Seq(Piece))

(* What a step may take of the box it is around.                           *)
Extents(b) ==
  b.width \in Nat /\ b.ascent \in Int /\ b.descent \in Int /\ b.ascent + b.descent >= 0

Formed(b) == Extents(b) /\ b.children \in Seq(NodeType)

LEMMA NodeFormed ==
  ASSUME NEW kind \in Kinds, NEW role \in Roles, NEW src \in Int,
         NEW width \in Int, NEW ascent \in Int, NEW descent \in Int, kind = "KERN" \/ width >= 0
  PROVE  /\ Node(kind, role, src, width, ascent, descent) \in NodeType
         /\ Node(kind, role, src, width, ascent, descent) \in Piece
<1>1. << >> \in Seq(Piece)  OBVIOUS
<1> QED  BY <1>1 DEF Node, NodeType, Piece, NodeOf

LEMMA PieceNode == Piece \subseteq NodeType
<1>1. << >> \in Seq(Piece)  OBVIOUS
<1> HIDE DEF Piece
<1> SUFFICES ASSUME NEW n \in Piece PROVE n \in NodeType  OBVIOUS
<1>2. n \in NodeOf({<< >>})  BY DEF Piece
<1> QED  BY <1>1, <1>2 DEF NodeType, NodeOf

LEMMA NodeFields ==
  ASSUME NEW n \in NodeType
  PROVE  /\ n.kind \in Kinds /\ n.role \in Roles /\ n.src \in Int /\ n.x \in Int /\ n.y \in Int
         /\ n.width \in Int /\ n.ascent \in Int /\ n.descent \in Int /\ n.italic \in Int
         /\ n.parts \in Seq(Piece) /\ (n.kind = "KERN" \/ n.width >= 0)
  BY DEF NodeType, NodeOf

LEMMA AtFormed ==
  ASSUME NEW n \in NodeType, NEW x \in Int, NEW y \in Int
  PROVE  /\ At(n, x, y) \in NodeType
         /\ n \in Piece => At(n, x, y) \in Piece
         /\ At(n, x, y).x = x /\ At(n, x, y).y = y
         /\ At(n, x, y).kind = n.kind /\ At(n, x, y).role = n.role /\ At(n, x, y).src = n.src
         /\ At(n, x, y).width = n.width /\ At(n, x, y).ascent = n.ascent
         /\ At(n, x, y).descent = n.descent /\ At(n, x, y).italic = n.italic
         /\ At(n, x, y).parts = n.parts
<1>1. At(n, x, y) \in NodeType  BY DEF NodeType, NodeOf, At
<1>2. n \in Piece => At(n, x, y) \in Piece  BY DEF Piece, NodeOf, At
<1> QED  BY <1>1, <1>2 DEF At, NodeType, NodeOf

(* The same of a node under a name of its own.                             *)
LEMMA AtPlaced ==
  ASSUME NEW n \in NodeType, NEW x \in Int, NEW y \in Int, NEW m, m = At(n, x, y)
  PROVE  /\ m \in NodeType /\ m.x = x /\ m.y = y
         /\ m.kind = n.kind /\ m.role = n.role /\ m.src = n.src
         /\ m.width = n.width /\ m.ascent = n.ascent /\ m.descent = n.descent
  BY AtFormed

LEMMA MovedFormed ==
  ASSUME NEW n \in NodeType, NEW x \in Int
  PROVE  /\ [n EXCEPT !.x = x] \in NodeType /\ [n EXCEPT !.x = x] = At(n, x, n.y)
  BY DEF NodeType, NodeOf, At

LEMMA SlantedFormed ==
  ASSUME NEW n \in NodeType, NEW italic \in Int
  PROVE  /\ [n EXCEPT !.italic = italic] \in NodeType
         /\ n \in Piece => [n EXCEPT !.italic = italic] \in Piece
         /\ \A g : g = [n EXCEPT !.italic = italic] =>
              /\ g.kind = n.kind /\ g.role = n.role /\ g.src = n.src /\ g.x = n.x /\ g.y = n.y
              /\ g.width = n.width /\ g.ascent = n.ascent /\ g.descent = n.descent
              /\ g.parts = n.parts /\ g.italic = italic
<1>1. [n EXCEPT !.italic = italic] \in NodeType  BY DEF NodeType, NodeOf
<1>2. n \in Piece => [n EXCEPT !.italic = italic] \in Piece  BY DEF Piece, NodeOf
<1> QED  BY <1>1, <1>2 DEF NodeType, NodeOf

LEMMA GlyphFormed ==
  ASSUME NEW m \in Metric, NEW role \in Roles, NEW src \in Int
  PROVE  LET g == GlyphNode(m, role, src) IN
         /\ g \in NodeType /\ g \in Piece /\ g.kind = "GLYPH" /\ g.role = role /\ g.src = src
         /\ g.x = 0 /\ g.y = 0 /\ g.width = m.width /\ g.ascent = m.ascent
         /\ g.descent = m.descent /\ g.italic = m.italic /\ g.parts = << >>
<1> DEFINE w == m.width
           up == m.ascent
           down == m.descent
           italic == m.italic
           n == Node("GLYPH", role, src, w, up, down)
           g == GlyphNode(m, role, src)
<1>1. w \in Nat /\ up \in Int /\ down \in Int /\ italic \in Int
  BY DEF Metric
<1>2. g = [n EXCEPT !.italic = italic]  BY DEF GlyphNode
<1>3. /\ n.kind = "GLYPH" /\ n.role = role /\ n.src = src /\ n.x = 0 /\ n.y = 0
      /\ n.width = w /\ n.ascent = up /\ n.descent = down /\ n.parts = << >>
  BY DEF Node
<1>4. n \in NodeType /\ n \in Piece
  <2> HIDE DEF w, up, down, italic
  <2> QED  BY <1>1, NodeFormed DEF Kinds
<1>5. w = m.width /\ up = m.ascent /\ down = m.descent /\ italic = m.italic  OBVIOUS
<1> HIDE DEF w, up, down, italic, n, g
<1> QED  BY <1>1, <1>2, <1>3, <1>4, <1>5, SlantedFormed DEF g

LEMMA KernFormed ==
  ASSUME NEW role \in Roles, NEW src \in Int, NEW width \in Int
  PROVE  LET k == Kern(role, src, width) IN
         /\ k \in NodeType /\ k.kind = "KERN" /\ k.role = role /\ k.src = src
         /\ k.x = 0 /\ k.y = 0 /\ k.width = width /\ k.ascent = 0 /\ k.descent = 0
         /\ k.parts = << >>
<1>1. Node("KERN", role, src, width, 0, 0) \in NodeType  BY NodeFormed DEF Kinds
<1> QED  BY <1>1 DEF Kern, Node

LEMMA ChildFormed ==
  ASSUME NEW b, Extents(b), NEW role \in Roles, NEW src \in Int, NEW x \in Int, NEW y \in Int
  PROVE  LET c == Child(b, role, src, x, y) IN
         /\ c \in NodeType /\ c \in Piece /\ c.kind = "HBOX" /\ c.role = role /\ c.src = src
         /\ c.x = x /\ c.y = y /\ c.width = b.width /\ c.ascent = b.ascent
         /\ c.descent = b.descent /\ c.italic = 0 /\ c.parts = << >>
<1>1. b.width \in Nat /\ b.ascent \in Int /\ b.descent \in Int  BY DEF Extents
<1> DEFINE n == Node("HBOX", role, src, b.width, b.ascent, b.descent)
<1> DEFINE w == b.width
           up == b.ascent
           down == b.descent
<1>2. n \in NodeType /\ n \in Piece
  <2>1. w \in Nat /\ up \in Int /\ down \in Int  BY <1>1
  <2> HIDE DEF w, up, down
  <2>2. /\ Node("HBOX", role, src, w, up, down) \in NodeType
        /\ Node("HBOX", role, src, w, up, down) \in Piece
    BY <2>1, NodeFormed DEF Kinds
  <2> QED  BY <2>2 DEF w, up, down
<1>3. /\ n.kind = "HBOX" /\ n.role = role /\ n.src = src /\ n.width = b.width
      /\ n.ascent = b.ascent /\ n.descent = b.descent /\ n.italic = 0 /\ n.parts = << >>
  BY DEF Node
<1>4. Child(b, role, src, x, y) = At(n, x, y)  BY DEF Child
<1> HIDE DEF n
<1> QED  BY <1>2, <1>3, <1>4, AtFormed

(* A list holds its ink, and its extents are not below the baseline.       *)
LEMMA ListFormed ==
  ASSUME NEW nodes \in Seq(NodeType), NEW width \in Nat
  PROVE  LET b == HList(nodes, width) IN
         /\ Formed(b) /\ b.width = width /\ b.children = nodes /\ b.slots = Len(nodes)
         /\ b.ascent >= 0 /\ b.descent >= 0
         /\ b.ascent = AscentOf(nodes) /\ b.descent = DescentOf(nodes)
         /\ \A n \in Ink(nodes) : Top(n) <= b.ascent /\ -Bottom(n) <= b.descent
<1>1. Len(nodes) \in Nat /\ DOMAIN nodes = 1 .. Len(nodes)  OBVIOUS
<1>2. \A k \in 1 .. Len(nodes) : nodes[k].y \in Int /\ nodes[k].ascent \in Int /\ nodes[k].descent \in Int
  BY <1>1, NodeFields
<1> DEFINE up   == [k \in 1 .. Len(nodes) |-> nodes[k].ascent + nodes[k].y]
           down == [k \in 1 .. Len(nodes) |-> nodes[k].descent - nodes[k].y]
           ups   == {n.ascent + n.y : n \in Ink(nodes)}
           downs == {n.descent - n.y : n \in Ink(nodes)}
<1>3. \A n \in Ink(nodes) : \E k \in 1 .. Len(nodes) : n = nodes[k]  BY <1>1 DEF Ink
<1>4. \A k \in 1 .. Len(nodes) : up[k] \in Int /\ down[k] \in Int  BY <1>2
<1>5. Among({0} \cup ups, 0, up, Len(nodes)) /\ Among({0} \cup downs, 0, down, Len(nodes))
  BY <1>3 DEF Among
<1> HIDE DEF up, down
<1>6. /\ AscentOf(nodes) \in Int /\ \A k \in {0} \cup ups : k <= AscentOf(nodes)
  <2>1. Largest({0} \cup ups) \in Int /\ \A k \in {0} \cup ups : k <= Largest({0} \cup ups)
    <3> DEFINE S == {0} \cup ups
    <3>1. S # {} /\ Among(S, 0, up, Len(nodes))  BY <1>5
    <3> HIDE DEF S
    <3>2. Largest(S) \in Int /\ \A k \in S : k <= Largest(S)  BY <1>1, <1>4, <3>1, LargestOf
    <3> QED  BY <3>2 DEF S
  <2> QED  BY <2>1 DEF AscentOf
<1>7. /\ DescentOf(nodes) \in Int /\ \A k \in {0} \cup downs : k <= DescentOf(nodes)
  <2>1. Largest({0} \cup downs) \in Int /\ \A k \in {0} \cup downs : k <= Largest({0} \cup downs)
    <3> DEFINE S == {0} \cup downs
    <3>1. S # {} /\ Among(S, 0, down, Len(nodes))  BY <1>5
    <3> HIDE DEF S
    <3>2. Largest(S) \in Int /\ \A k \in S : k <= Largest(S)  BY <1>1, <1>4, <3>1, LargestOf
    <3> QED  BY <3>2 DEF S
  <2> QED  BY <2>1 DEF DescentOf
<1>8. AscentOf(nodes) >= 0 /\ DescentOf(nodes) >= 0  BY <1>6, <1>7
<1>9. \A n \in Ink(nodes) : Top(n) <= AscentOf(nodes) /\ -Bottom(n) <= DescentOf(nodes)
  <2> TAKE n \in Ink(nodes)
  <2>1. n.y \in Int /\ n.ascent \in Int /\ n.descent \in Int  BY <1>2, <1>3
  <2>2. n.ascent + n.y <= AscentOf(nodes) /\ n.descent - n.y <= DescentOf(nodes)  BY <1>6, <1>7
  <2> QED  BY <1>6, <1>7, <2>1, <2>2 DEF Top, Bottom
<1>10. /\ HList(nodes, width).width = width /\ HList(nodes, width).children = nodes
       /\ HList(nodes, width).slots = Len(nodes)
       /\ HList(nodes, width).ascent = AscentOf(nodes)
       /\ HList(nodes, width).descent = DescentOf(nodes)
  BY DEF HList, Box
<1>11. Formed(HList(nodes, width))  BY <1>6, <1>7, <1>8, <1>10 DEF Formed, Extents
<1> QED  BY <1>6, <1>7, <1>8, <1>9, <1>10, <1>11

-----------------------------------------------------------------------------
(***************************************************************************)
(* Running sums, which place pieces, rows and columns.                     *)
(***************************************************************************)
Runs(f, n, v, d) == f = [k \in 1 .. n |-> IF k = 1 THEN v ELSE f[k - 1] + d[k]]

(* There is one, and its values are integers.                              *)
LEMMA RunExists ==
  ASSUME NEW n \in Nat, NEW v \in Int, NEW d, \A k \in 2 .. n : d[k] \in Int
  PROVE  \E f : Runs(f, n, v, d)
<1> DEFINE Step(g, m) == [k \in 1 .. m |-> IF k = 1 THEN v ELSE g[k - 1] + d[k]]
           I == {m \in Nat : \E f : f = Step(f, m)}
<1>1. 0 \in I
  <2>1. << >> = Step(<< >>, 0)  OBVIOUS
  <2> QED  BY <2>1
<1>2. ASSUME NEW m \in Nat, m \in I PROVE m + 1 \in I
  <2>1. PICK f : f = Step(f, m)  BY <1>2
  <2> DEFINE g == [k \in 1 .. m + 1 |-> IF k = 1 THEN v ELSE f[k - 1] + d[k]]
  <2>2. DOMAIN f = 1 .. m /\ \A k \in 1 .. m : f[k] = IF k = 1 THEN v ELSE f[k - 1] + d[k]
    BY <2>1
  <2>3. \A k \in 1 .. m : g[k] = f[k]  BY <2>2
  <2>4. \A k \in 1 .. m + 1 : g[k] = IF k = 1 THEN v ELSE g[k - 1] + d[k]
    <3> TAKE k \in 1 .. m + 1
    <3>1. CASE k = 1  BY <3>1
    <3>2. CASE k # 1
      <4>1. k - 1 \in 1 .. m  BY <3>2
      <4>2. g[k - 1] = f[k - 1]  BY <2>3, <4>1
      <4>3. g[k] = f[k - 1] + d[k]  BY <3>2
      <4> HIDE DEF g
      <4> QED  BY <3>2, <4>2, <4>3
    <3> QED  BY <3>1, <3>2
  <2>5. g = [k \in 1 .. m + 1 |-> g[k]]  OBVIOUS
  <2> HIDE DEF g
  <2>6. g = Step(g, m + 1)  BY <2>4, <2>5
  <2> QED  BY <2>6
<1>3. n \in I
  <2> HIDE DEF I
  <2> QED  BY <1>1, <1>2, SetInduction
<1> QED  BY <1>3 DEF Runs

LEMMA RunTyped ==
  ASSUME NEW n \in Nat, NEW v \in Int, NEW d, \A k \in 2 .. n : d[k] \in Int,
         NEW f, Runs(f, n, v, d)
  PROVE  /\ \A k \in 1 .. n : f[k] \in Int
         /\ n >= 1 => f[1] = v
         /\ \A k \in 2 .. n : f[k] = f[k - 1] + d[k]
<1>1. \A k \in 1 .. n : f[k] = IF k = 1 THEN v ELSE f[k - 1] + d[k]  BY DEF Runs
<1> DEFINE I == {m \in Nat : m \in 1 .. n => f[m] \in Int}
<1>2. 0 \in I  OBVIOUS
<1>3. ASSUME NEW m \in Nat, m \in I PROVE m + 1 \in I
  <2> SUFFICES ASSUME m + 1 \in 1 .. n PROVE f[m + 1] \in Int  OBVIOUS
  <2>1. CASE m = 0  BY <1>1, <2>1
  <2>2. CASE m # 0
    <3>1. m \in 1 .. n /\ m + 1 \in 2 .. n /\ (m + 1) - 1 = m  BY <2>2
    <3>2. f[m] \in Int /\ d[m + 1] \in Int  BY <1>3, <3>1
    <3>3. f[m + 1] = f[m] + d[m + 1]  BY <1>1, <3>1
    <3> QED  BY <3>2, <3>3
  <2> QED  BY <2>1, <2>2
<1>4. \A k \in 1 .. n : f[k] \in Int
  <2> HIDE DEF I
  <2>1. Nat \subseteq I  BY <1>2, <1>3, SetInduction
  <2> USE DEF I
  <2> QED  BY <2>1
<1> QED  BY <1>1, <1>4

(* Its steps bound how far it goes.                                        *)
LEMMA RunGrows ==
  ASSUME NEW n \in Nat, NEW v \in Int, NEW d, \A k \in 2 .. n : d[k] \in Nat,
         NEW f, Runs(f, n, v, d), NEW i \in 1 .. n
  PROVE  \A j \in i .. n : f[i] <= f[j]
<1>1. /\ \A k \in 1 .. n : f[k] \in Int
      /\ \A k \in 2 .. n : f[k] = f[k - 1] + d[k]
  <2>1. \A k \in 2 .. n : d[k] \in Int  OBVIOUS
  <2>2. \A k \in 1 .. n : f[k] \in Int  BY <2>1, RunTyped
  <2>3. \A k \in 2 .. n : f[k] = f[k - 1] + d[k]  BY <2>1, RunTyped
  <2> QED  BY <2>2, <2>3
<1> DEFINE I == {m \in Nat : i + m <= n => f[i] <= f[i + m]}
<1>2. 0 \in I  BY <1>1
<1>3. ASSUME NEW m \in Nat, m \in I PROVE m + 1 \in I
  <2> SUFFICES ASSUME i + (m + 1) <= n PROVE f[i] <= f[i + (m + 1)]  OBVIOUS
  <2>1. i + m <= n /\ i + m \in 1 .. n /\ i + (m + 1) \in 2 .. n /\ (i + (m + 1)) - 1 = i + m
    OBVIOUS
  <2>2. f[i] <= f[i + m]  BY <1>3, <2>1
  <2>3. f[i + (m + 1)] = f[i + m] + d[i + (m + 1)]  BY <1>1, <2>1
  <2>4. d[i + (m + 1)] \in Nat /\ f[i] \in Int /\ f[i + m] \in Int  BY <1>1, <2>1
  <2> QED  BY <2>2, <2>3, <2>4
<1>4. Nat \subseteq I
  <2> HIDE DEF I
  <2> QED  BY <1>2, <1>3, SetInduction
<1>5. ASSUME NEW j \in i .. n PROVE f[i] <= f[j]
  <2>1. j - i \in Nat /\ i + (j - i) = j /\ j <= n  OBVIOUS
  <2>2. j - i \in I  BY <1>4, <2>1
  <2> QED  BY <2>1, <2>2
<1> QED  BY <1>5

-----------------------------------------------------------------------------
(***************************************************************************)
(* The tables' entries.                                                    *)
(***************************************************************************)
LEMMA MetricFields ==
  ASSUME NEW m \in Metric
  PROVE  /\ m.width \in Nat /\ m.ascent \in Int /\ m.descent \in Int /\ m.italic \in Nat
         /\ Tall(m) \in Int /\ Tall(m) = m.ascent + m.descent
  BY DEF Metric, Tall

LEMMA LadderFields ==
  ASSUME NEW name \in DOMAIN Ladders
  PROVE  LET d == Ladders[name] IN
         /\ d.null \in BOOLEAN /\ d.ladder \in {"NEVER", "LARGE", "ALWAYS"}
         /\ \A z \in Sizes : d.small[z] \in Metric
         /\ d.faces \in Seq(Metric) /\ d.top \in Metric /\ d.repeat \in Metric
         /\ d.bottom \in Metric /\ d.middle \in Seq(Metric) /\ Len(d.middle) <= 1
         /\ d.ladder = "NEVER" => d.null \/ d.faces # << >>
         /\ d.ladder # "NEVER" => Tall(d.repeat) > 0
<1> DEFINE d == Ladders[name]
<1>1. d \in Ladder  BY BoxesAssumption
<1>2. Len(d.middle) <= 1  BY BoxesAssumption
<1>3. /\ d.ladder = "NEVER" => d.null \/ d.faces # << >>
      /\ d.ladder # "NEVER" => d.repeat.ascent + d.repeat.descent > 0
  BY BoxesAssumption
<1> HIDE DEF d
<1>4. /\ d.null \in BOOLEAN /\ d.ladder \in {"NEVER", "LARGE", "ALWAYS"}
      /\ \A z \in Sizes : d.small[z] \in Metric
      /\ d.faces \in Seq(Metric) /\ d.top \in Metric /\ d.repeat \in Metric
      /\ d.bottom \in Metric /\ d.middle \in Seq(Metric)
  BY <1>1 DEF Ladder, Glyph
<1> QED  BY <1>2, <1>3, <1>4 DEF d, Tall

LEMMA GlyphTable ==
  ASSUME NEW g \in Glyphs, NEW s \in MathStyles
  PROVE  g[StyleSize(s)] \in Metric
<1>1. g \in [Sizes -> Metric]  BY BoxesAssumption DEF Glyph
<1> QED  BY <1>1, Tables

-----------------------------------------------------------------------------
(***************************************************************************)
(* Characters and lists.                                                   *)
(***************************************************************************)
LEMMA CharFormed ==
  ASSUME NEW g \in Glyphs, NEW s \in MathStyles
  PROVE  Formed(CharBox(g, s))
<1> DEFINE m == g[StyleSize(s)]
           n == GlyphNode(m, "CHAR", 0)
<1>1. m \in Metric  BY GlyphTable
<1>2. CharBox(g, s) = Box(m.width, Larger(m.ascent, 0), Larger(m.descent, 0), 1, <<n>>)
  BY DEF CharBox
<1> HIDE DEF m
<1>3. m.width \in Nat /\ m.ascent \in Int /\ m.descent \in Int  BY <1>1, MetricFields
<1>4. n \in NodeType  BY <1>1, GlyphFormed DEF Roles
<1> HIDE DEF n
<1>5. Larger(m.ascent, 0) \in Nat /\ Larger(m.descent, 0) \in Nat
  <2>1. \A v \in Int : Larger(v, 0) \in Nat  BY DEF Larger
  <2> QED  BY <1>3, <2>1
<1>6. <<n>> \in Seq(NodeType)  BY <1>4
<1> QED  BY <1>2, <1>3, <1>5, <1>6 DEF Formed, Extents, Box

LEMMA CleanFormed ==
  ASSUME NEW b, Formed(b)
  PROVE  Extents(CleanBox(b))
<1>1. Extents(b) /\ b.children \in Seq(NodeType)  BY DEF Formed
<1>2. CASE Len(b.children) = 1 /\ b.children[1].kind = "GLYPH"
  <2>1. b.children[1] \in NodeType  BY <1>1, <1>2
  <2>2. b.children[1].width \in Nat  BY <1>2, <2>1, NodeFields
  <2>3. CleanBox(b) = [b EXCEPT !.width = b.children[1].width]  BY <1>2 DEF CleanBox
  <2>4. CleanBox(b).width \in {b.children[1].width, b.width}
        /\ CleanBox(b).ascent = b.ascent /\ CleanBox(b).descent = b.descent
    BY <2>3
  <2> QED  BY <1>1, <2>2, <2>4 DEF Extents
<1>3. CASE ~(Len(b.children) = 1 /\ b.children[1].kind = "GLYPH")
  BY <1>1, <1>3 DEF CleanBox
<1> QED  BY <1>2, <1>3

LEMMA GapMeasured ==
  ASSUME NEW digit, NEW s \in MathStyles, InterAtomWidth(digit, s) # "NONE"
  PROVE  P(InterAtomWidth(digit, s), s) \in Nat
<1>1. InterAtomWidth(digit, s) \in {"THIN", "MEDIUM", "THICK"}  BY DEF InterAtomWidth
<1> QED  BY <1>1, Tables DEF Parameters

-----------------------------------------------------------------------------
(***************************************************************************)
(* Delimiters.                                                             *)
(***************************************************************************)
(* Equal steps add up to their number.                                     *)
Times(count, step) == count * step

Level(d, i, j, r) == \A k \in i + 1 .. j : d[k] = r

LEMMA RunEven ==
  ASSUME NEW n \in Nat, NEW v \in Int, NEW d, \A k \in 2 .. n : d[k] \in Int,
         NEW f, Runs(f, n, v, d), NEW i \in 1 .. n, NEW j \in i .. n, NEW r \in Int,
         Level(d, i, j, r)
  PROVE  f[j] = f[i] + Times(j - i, r)
<1>1. \A k \in 1 .. n : f[k] \in Int  BY RunTyped
<1>2. \A k \in 2 .. n : f[k] = f[k - 1] + d[k]  BY RunTyped
<1> DEFINE I == {m \in Nat : i + m <= j => f[i + m] = f[i] + m * r}
<1>3. 0 \in I  BY <1>1
<1>4. ASSUME NEW m \in Nat, m \in I PROVE m + 1 \in I
  <2> SUFFICES ASSUME i + (m + 1) <= j PROVE f[i + (m + 1)] = f[i] + (m + 1) * r  OBVIOUS
  <2>1. i + (m + 1) \in 2 .. n /\ (i + (m + 1)) - 1 = i + m /\ i + (m + 1) \in i + 1 .. j
        /\ i + m \in 1 .. n /\ i + m <= j
    OBVIOUS
  <2>2. f[i + m] = f[i] + m * r  BY <1>4, <2>1
  <2>3. f[i + (m + 1)] = f[i + m] + r  BY <1>2, <2>1 DEF Level
  <2>4. m * r \in Int /\ (m + 1) * r = m * r + r  OBVIOUS
  <2> DEFINE p == m * r
             q == (m + 1) * r
  <2>5. p \in Int /\ q = p + r /\ f[i + m] = f[i] + p  BY <2>2, <2>4
  <2> HIDE DEF p, q
  <2>6. f[i] \in Int /\ f[i + m] \in Int  BY <1>1, <2>1
  <2>7. f[i + (m + 1)] = f[i] + q  BY <2>3, <2>5, <2>6
  <2> QED  BY <2>7 DEF q
<1>5. j - i \in I
  <2> HIDE DEF I
  <2>1. Nat \subseteq I  BY <1>3, <1>4, SetInduction
  <2>2. j - i \in Nat  OBVIOUS
  <2> QED  BY <2>1, <2>2
<1>6. i + (j - i) = j /\ j <= j  OBVIOUS
<1> QED  BY <1>5, <1>6 DEF Times

(* Every size of a delimiter that is tried is a glyph.                     *)
LEMMA CandidatesFormed ==
  ASSUME NEW name \in DOMAIN Ladders, NEW s \in MathStyles
  PROVE  LET d == Ladders[name] IN
         /\ Candidates(d, s) \in Seq(Metric) /\ Candidates(d, s) # << >>
         /\ d.ladder # "ALWAYS" /\ d.faces # << >> =>
              Candidates(d, s)[Len(Candidates(d, s))] = d.faces[Len(d.faces)]
<1> DEFINE d     == Ladders[name]
           sizes == SmallSizes(StyleSize(s))
           small == [k \in DOMAIN sizes |-> d.small[sizes[k]]]
           faces == IF d.ladder = "ALWAYS" THEN << >> ELSE d.faces
           c     == Candidates(d, s)
<1>1. /\ \A z \in Sizes : d.small[z] \in Metric
      /\ d.faces \in Seq(Metric)
  BY LadderFields
<1>2. sizes \in Seq(Sizes) /\ Len(sizes) \in 1 .. 3  
  <2>1. \/ sizes = <<"TEXT">> \/ sizes = <<"SCRIPT", "TEXT">>
        \/ sizes = <<"SCRIPTSCRIPT", "SCRIPT", "TEXT">>
    BY DEF SmallSizes
  <2> HIDE DEF sizes
  <2>2. "TEXT" \in Sizes /\ "SCRIPT" \in Sizes /\ "SCRIPTSCRIPT" \in Sizes  BY DEF Sizes
  <2>3. CASE sizes = <<"TEXT">>  BY <2>2, <2>3
  <2>4. CASE sizes = <<"SCRIPT", "TEXT">>  BY <2>2, <2>4
  <2>5. CASE sizes = <<"SCRIPTSCRIPT", "SCRIPT", "TEXT">>  BY <2>2, <2>5
  <2> QED  BY <2>1, <2>3, <2>4, <2>5
<1>3. c = small \o faces  BY DEF Candidates
<1> HIDE DEF sizes, c, d
<1>4. small \in Seq(Metric) /\ Len(small) >= 1
  <2>1. DOMAIN sizes = 1 .. Len(sizes) /\ \A k \in 1 .. Len(sizes) : sizes[k] \in Sizes  BY <1>2
  <2> QED  BY <1>1, <1>2, <2>1
<1>5. faces \in Seq(Metric)  BY <1>1
<1>6. d.ladder # "ALWAYS" => faces = d.faces  OBVIOUS
<1> HIDE DEF small, faces
<1>7. c \in Seq(Metric) /\ Len(c) = Len(small) + Len(faces) /\ c # << >>  BY <1>3, <1>4, <1>5
<1>8. faces # << >> => c[Len(c)] = faces[Len(faces)]  BY <1>3, <1>4, <1>5
<1> QED  BY <1>6, <1>7, <1>8 DEF c, d

(* The pieces of an assembly.                                              *)
LEMMA PiecesFormed ==
  ASSUME NEW name \in DOMAIN Ladders, NEW count \in Nat
  PROVE  LET d    == Ladders[name]
             plan == Pieces(d, count)
             n    == Len(plan)
         IN  /\ plan \in Seq(Metric)
             /\ d.middle = << >> =>
                  /\ n = 2 + count /\ plan[1] = d.top /\ plan[n] = d.bottom
                  /\ \A k \in 2 .. 1 + count : plan[k] = d.repeat
             /\ d.middle # << >> =>
                  /\ n = 3 + 2 * count /\ plan[1] = d.top /\ plan[n] = d.bottom
                  /\ plan[2 + count] = d.middle[1]
                  /\ \A k \in 2 .. 1 + count : plan[k] = d.repeat
                  /\ \A k \in 3 + count .. 2 + 2 * count : plan[k] = d.repeat
<1> DEFINE d      == Ladders[name]
           top    == d.top
           bottom == d.bottom
           again  == d.repeat
           middle == d.middle
           copies == [k \in 1 .. count |-> again]
           plan   == Pieces(d, count)
           n      == Len(plan)
<1>1. /\ top \in Metric /\ bottom \in Metric /\ again \in Metric
      /\ middle \in Seq(Metric) /\ Len(middle) <= 1
  BY LadderFields
<1>2. plan = <<top>> \o (IF middle = << >> THEN << >> ELSE copies \o middle) \o copies \o <<bottom>>
  BY DEF Pieces
<1> HIDE DEF top, bottom, again, middle, plan
<1>3. /\ copies \in Seq(Metric) /\ Len(copies) = count
      /\ \A k \in 1 .. count : copies[k] = again
  BY <1>1
<1> HIDE DEF copies
<1>4. CASE middle = << >>
  <2>1. plan = (<<top>> \o << >>) \o copies \o <<bottom>>  BY <1>2, <1>4
  <2>2. <<top>> \o << >> = <<top>>  BY <1>1
  <2>3. plan = <<top>> \o copies \o <<bottom>>  BY <2>1, <2>2
  <2>4. plan \in Seq(Metric) /\ Len(plan) = 2 + count  BY <1>1, <1>3, <2>3
  <2>5. plan[1] = top /\ plan[2 + count] = bottom  BY <1>1, <1>3, <2>3
  <2>6. \A k \in 2 .. 1 + count : plan[k] = copies[k - 1]  BY <1>1, <1>3, <2>3
  <2>7. \A k \in 2 .. 1 + count : plan[k] = again
    <3> TAKE k \in 2 .. 1 + count
    <3>1. k - 1 \in 1 .. count  OBVIOUS
    <3> QED  BY <1>3, <2>6, <3>1
  <2> QED  BY <1>4, <2>4, <2>5, <2>7 DEF top, bottom, again, middle, plan
<1>5. CASE middle # << >>
  <2>1. PICK waist \in Metric : middle = <<waist>>
    <3>0. \A m \in Seq(Metric) : m # << >> => Len(m) \in Nat /\ Len(m) >= 1  OBVIOUS
    <3>1. Len(middle) = 1 /\ middle[1] \in Metric  BY <1>1, <1>5, <3>0
    <3>2. middle = <<middle[1]>>  BY <1>1, <3>1
    <3> QED  BY <3>1, <3>2
  <2> DEFINE upper == <<top>> \o (copies \o <<waist>>)
  <2>2. plan = upper \o copies \o <<bottom>>  BY <1>2, <1>5, <2>1
  <2>3. /\ upper \in Seq(Metric) /\ Len(upper) = 2 + count
        /\ upper[1] = top /\ upper[2 + count] = waist
        /\ \A k \in 2 .. 1 + count : upper[k] = copies[k - 1]
    BY <1>1, <1>3, <2>1
  <2> HIDE DEF upper
  <2>4. plan \in Seq(Metric) /\ Len(plan) = 3 + 2 * count
    <3>1. plan \in Seq(Metric)  BY <1>1, <1>3, <2>2, <2>3
    <3> DEFINE most == upper \o copies
    <3>2. most \in Seq(Metric) /\ Len(most) = Len(upper) + Len(copies)
      BY <1>3, <2>3, Concatenated
    <3>3. plan = most \o <<bottom>>  BY <2>2
    <3> HIDE DEF most
    <3>4. Len(plan) = Len(most) + 1  BY <1>1, <3>2, <3>3
    <3> QED  BY <1>3, <2>3, <3>1, <3>2, <3>4
  <2>5. /\ \A k \in 1 .. 2 + count : plan[k] = upper[k]
        /\ \A k \in 3 + count .. 2 + 2 * count : plan[k] = copies[k - (2 + count)]
        /\ plan[3 + 2 * count] = bottom
    BY <1>1, <1>3, <2>2, <2>3, SMTT(30)
  <2>6. \A k \in 2 .. 1 + count : plan[k] = again
    <3> TAKE k \in 2 .. 1 + count
    <3>1. k - 1 \in 1 .. count /\ k \in 1 .. 2 + count  OBVIOUS
    <3> QED  BY <1>3, <2>3, <2>5, <3>1
  <2>7. \A k \in 3 + count .. 2 + 2 * count : plan[k] = again
    <3> TAKE k \in 3 + count .. 2 + 2 * count
    <3>1. k - (2 + count) \in 1 .. count  OBVIOUS
    <3> QED  BY <1>3, <2>5, <3>1
  <2>8. plan[1] = top /\ plan[2 + count] = waist /\ middle[1] = waist
    BY <2>1, <2>3, <2>5
  <2> QED  BY <1>5, <2>4, <2>5, <2>6, <2>7, <2>8 DEF top, bottom, again, middle, plan
<1> QED  BY <1>4, <1>5

(* Pieces stacked from the top abut, each on the one below it.             *)
Stacked(node, plan, total) ==
  /\ node.parts \in Seq(Piece) /\ Len(node.parts) = Len(plan)
  /\ \A k \in 1 .. Len(plan) : node.parts[k].width = plan[k].width
  /\ \E f : /\ Runs(f, Len(plan), total, [k \in 2 .. Len(plan) |-> -Tall(plan[k - 1])])
            /\ \A k \in 1 .. Len(plan) : /\ Top(node.parts[k]) = f[k]
                                         /\ Bottom(node.parts[k]) = f[k] - Tall(plan[k])

LEMMA StackFormed ==
  ASSUME NEW plan \in Seq(Metric), NEW total \in Int, NEW width \in Nat, NEW role \in Roles,
         NEW src \in Int
  PROVE  LET node == StackPieces(plan, total, width, role, src) IN
         /\ node \in NodeType /\ node.kind = "HBOX" /\ node.role = role /\ node.src = src
         /\ node.x = 0 /\ node.y = 0 /\ node.width = width /\ node.ascent = total
         /\ node.descent = 0 /\ node.italic = 0
         /\ Stacked(node, plan, total)
<1> DEFINE n == Len(plan)
           d == [k \in 2 .. n |-> -Tall(plan[k - 1])]
           cursor[k \in DOMAIN plan] ==
             IF k = 1 THEN total ELSE cursor[k - 1] - Tall(plan[k - 1])
           base == Node("HBOX", role, src, width, total, 0)
           parts == [k \in DOMAIN plan |->
                       At(GlyphNode(plan[k], "PIECE", src), 0, cursor[k] - plan[k].ascent)]
           node == StackPieces(plan, total, width, role, src)
<1>1. n \in Nat /\ DOMAIN plan = 1 .. n /\ \A k \in 1 .. n : plan[k] \in Metric  OBVIOUS
<1>2. \A k \in 1 .. n : Tall(plan[k]) \in Int  BY <1>1, MetricFields
<1>3. \A k \in 2 .. n : d[k] \in Int /\ d[k] = -Tall(plan[k - 1])
  <2> TAKE k \in 2 .. n
  <2>1. k - 1 \in 1 .. n  BY <1>1
  <2> QED  BY <1>2, <2>1
<1>4. Runs(cursor, n, total, d)
  <2> HIDE DEF d
  <2>1. PICK f : Runs(f, n, total, d)
    <3> HIDE DEF n
    <3> QED  BY <1>1, <1>3, RunExists
  <2>2. \A k \in 1 .. n : f[k] \in Int
    <3> HIDE DEF n
    <3> QED  BY <1>1, <1>3, <2>1, RunTyped
  <2>3. f = [k \in DOMAIN plan |-> IF k = 1 THEN total ELSE f[k - 1] - Tall(plan[k - 1])]
    <3>1. f = [k \in 1 .. n |-> IF k = 1 THEN total ELSE f[k - 1] + d[k]]  BY <2>1 DEF Runs
    <3>2. \A k \in 1 .. n : k # 1 => f[k - 1] + d[k] = f[k - 1] - Tall(plan[k - 1])
      <4> TAKE k \in 1 .. n
      <4> SUFFICES ASSUME k # 1 PROVE f[k - 1] + d[k] = f[k - 1] - Tall(plan[k - 1])  OBVIOUS
      <4>1. k - 1 \in 1 .. n /\ k \in 2 .. n  BY <1>1
      <4> QED  BY <1>2, <1>3, <2>2, <4>1
    <3> HIDE DEF n
    <3> QED  BY <1>1, <3>1, <3>2
  <2>4. cursor = CHOOSE g : g = [k \in DOMAIN plan |->
                                   IF k = 1 THEN total ELSE g[k - 1] - Tall(plan[k - 1])]
    BY DEF cursor
  <2> HIDE DEF cursor
  <2>5. cursor = [k \in DOMAIN plan |-> IF k = 1 THEN total ELSE cursor[k - 1] - Tall(plan[k - 1])]
    BY <2>3, <2>4, Zenon
  <2> DEFINE I == {m \in Nat : m \in 1 .. n => cursor[m] \in Int}
  <2>6. \A k \in 1 .. n : cursor[k] = IF k = 1 THEN total ELSE cursor[k - 1] - Tall(plan[k - 1])
    BY <1>1, <2>5
  <2>7. 0 \in I  OBVIOUS
  <2>8. ASSUME NEW m \in Nat, m \in I PROVE m + 1 \in I
    <3> SUFFICES ASSUME m + 1 \in 1 .. n PROVE cursor[m + 1] \in Int  OBVIOUS
    <3>1. CASE m = 0  BY <2>6, <3>1
    <3>2. CASE m # 0
      <4>1. m \in 1 .. n /\ (m + 1) - 1 = m  BY <1>1, <3>2
      <4>2. cursor[m] \in Int /\ Tall(plan[m]) \in Int  BY <1>2, <2>8, <4>1
      <4>3. cursor[m + 1] = cursor[m] - Tall(plan[m])  BY <2>6, <3>2, <4>1
      <4> QED  BY <4>2, <4>3
    <3> QED  BY <3>1, <3>2
  <2>9. \A k \in 1 .. n : cursor[k] \in Int
    <3> HIDE DEF I
    <3>1. Nat \subseteq I  BY <2>7, <2>8, SetInduction
    <3> USE DEF I
    <3> QED  BY <3>1
  <2>10. \A k \in 1 .. n : k # 1 => cursor[k - 1] + d[k] = cursor[k - 1] - Tall(plan[k - 1])
    <3> TAKE k \in 1 .. n
    <3> SUFFICES ASSUME k # 1 PROVE cursor[k - 1] + d[k] = cursor[k - 1] - Tall(plan[k - 1])
      OBVIOUS
    <3>1. k - 1 \in 1 .. n /\ k \in 2 .. n  BY <1>1
    <3> QED  BY <1>2, <1>3, <2>9, <3>1
  <2>11. cursor = [k \in 1 .. n |-> IF k = 1 THEN total ELSE cursor[k - 1] + d[k]]
    <3> HIDE DEF n
    <3> QED  BY <1>1, <2>5, <2>10
  <2> QED  BY <2>11 DEF Runs
<1>5. node = [base EXCEPT !.parts = parts]  BY DEF StackPieces
<1> HIDE DEF cursor
<1>6. \A k \in 1 .. n : cursor[k] \in Int
  <2> HIDE DEF n, d
  <2> QED  BY <1>1, <1>3, <1>4, RunTyped
<1>7. ASSUME NEW k \in 1 .. n
      PROVE  /\ parts[k] \in Piece /\ parts[k].width = plan[k].width
             /\ Top(parts[k]) = cursor[k] /\ Bottom(parts[k]) = cursor[k] - Tall(plan[k])
  <2> DEFINE m == plan[k]
             g == GlyphNode(m, "PIECE", src)
             y == cursor[k] - m.ascent
  <2>1. m \in Metric  BY <1>1
  <2>2. parts[k] = At(g, 0, y)  BY <1>1
  <2> HIDE DEF m
  <2>3. /\ m.ascent \in Int /\ m.descent \in Int /\ Tall(m) = m.ascent + m.descent
    BY <2>1, MetricFields
  <2>4. "PIECE" \in Roles  BY DEF Roles
  <2>5. /\ g \in NodeType /\ g \in Piece /\ g.width = m.width /\ g.ascent = m.ascent
        /\ g.descent = m.descent
    BY <2>1, <2>4, GlyphFormed
  <2>6. y \in Int  BY <1>6, <2>3
  <2> HIDE DEF g, y, parts
  <2>7. /\ parts[k] \in Piece /\ parts[k].width = m.width /\ parts[k].y = y
        /\ parts[k].ascent = m.ascent /\ parts[k].descent = m.descent
    BY <2>2, <2>5, <2>6, AtFormed
  <2>8. Top(parts[k]) = cursor[k] /\ Bottom(parts[k]) = cursor[k] - Tall(m)
    BY <1>6, <2>3, <2>7 DEF Top, Bottom, y
  <2> QED  BY <2>7, <2>8 DEF m
<1>8. parts \in Seq(Piece) /\ Len(parts) = n
  <2>1. DOMAIN parts = 1 .. n  BY <1>1
  <2> HIDE DEF parts
  <2>2. parts = [k \in 1 .. n |-> parts[k]]
    <3> USE DEF parts
    <3> QED  BY <1>1
  <2> HIDE DEF n
  <2> QED  BY <1>1, <1>7, <2>1, <2>2
<1>9. base \in NodeType  BY NodeFormed DEF Kinds
<1>10. /\ base.kind = "HBOX" /\ base.role = role /\ base.src = src /\ base.x = 0 /\ base.y = 0
       /\ base.width = width /\ base.ascent = total /\ base.descent = 0 /\ base.italic = 0
  BY DEF Node
<1> HIDE DEF base, parts, node, d, n
<1>11. /\ node \in NodeType /\ node.parts = parts
       /\ node.kind = base.kind /\ node.role = base.role /\ node.src = base.src
       /\ node.x = base.x /\ node.y = base.y /\ node.width = base.width
       /\ node.ascent = base.ascent /\ node.descent = base.descent /\ node.italic = base.italic
  BY <1>5, <1>8, <1>9 DEF NodeType, NodeOf
<1>12. Stacked(node, plan, total)
  BY <1>4, <1>7, <1>8, <1>11 DEF Stacked, n, d
<1> QED  BY <1>10, <1>11, <1>12 DEF node

LEMMA PieceWidths ==
  ASSUME NEW name \in DOMAIN Ladders
  PROVE  LET d == Ladders[name] IN
         /\ PieceWidth(d) \in Nat
         /\ d.top.width <= PieceWidth(d) /\ d.repeat.width <= PieceWidth(d)
         /\ d.bottom.width <= PieceWidth(d)
         /\ d.middle # << >> => d.middle[1].width <= PieceWidth(d)
<1> DEFINE d == Ladders[name]
           a == d.top.width
           b == d.repeat.width
           c == d.bottom.width
           waists == {d.middle[k].width : k \in DOMAIN d.middle}
           S == {a, b, c} \cup waists
<1>1. /\ d.top \in Metric /\ d.repeat \in Metric /\ d.bottom \in Metric
      /\ d.middle \in Seq(Metric) /\ Len(d.middle) <= 1
  BY LadderFields
<1>2. a \in Nat /\ b \in Nat /\ c \in Nat  BY <1>1, MetricFields
<1> HIDE DEF a, b, c
<1>3. DOMAIN d.middle = {} \/ (DOMAIN d.middle = {1} /\ d.middle[1] \in Metric)
  <2>1. ASSUME NEW m \in Seq(Metric), Len(m) <= 1
        PROVE  DOMAIN m = {} \/ (DOMAIN m = {1} /\ m[1] \in Metric)
    <3>1. DOMAIN m = 1 .. Len(m) /\ Len(m) \in Nat  OBVIOUS
    <3>2. CASE Len(m) = 0  BY <3>1, <3>2
    <3>3. CASE Len(m) = 1  BY <3>1, <3>3
    <3> QED  BY <2>1, <3>1, <3>2, <3>3
  <2> QED  BY <1>1, <2>1
<1> DEFINE w == d.middle[1].width
<1>4. waists \subseteq {w} /\ (waists # {} => w \in Nat)  BY <1>3, MetricFields
<1> DEFINE e == IF waists = {} THEN a ELSE w
           f == <<a, b, c, e>>
<1>5. e \in Nat  BY <1>2, <1>4
<1>6. f \in Seq(Int) /\ Len(f) = 4
  <2> HIDE DEF e
  <2> QED  BY <1>2, <1>5
<1>7. S \subseteq Int /\ S # {} /\ S \subseteq {a, b, c, e}
  <2>1. waists # {} => e = w  OBVIOUS
  <2>2. waists \subseteq {e}  BY <1>4, <2>1
  <2> HIDE DEF waists, e
  <2> QED  BY <1>2, <1>5, <2>2
<1>8. Among(S, a, f, 4)
  <2>1. f[1] = a /\ f[2] = b /\ f[3] = c /\ f[4] = e  OBVIOUS
  <2>2. 1 \in 1 .. 4 /\ 2 \in 1 .. 4 /\ 3 \in 1 .. 4 /\ 4 \in 1 .. 4  OBVIOUS
  <2> HIDE DEF f, S, e
  <2> QED  BY <1>7, <2>1, <2>2 DEF Among
<1>9. Largest(S) \in S /\ Largest(S) \in Int /\ \A k \in S : k <= Largest(S)
  <2> HIDE DEF S, f
  <2>0. \A q \in Seq(Int) : \A k \in 1 .. Len(q) : q[k] \in Int  OBVIOUS
  <2>1. \A k \in 1 .. 4 : f[k] \in Int  BY <1>6, <2>0
  <2>2. a \in Int /\ 4 \in Nat  BY <1>2
  <2> DEFINE n == 4
  <2>3. n \in Nat /\ Among(S, a, f, n) /\ \A k \in 1 .. n : f[k] \in Int  BY <1>8, <2>1
  <2> HIDE DEF n
  <2> QED  BY <1>7, <2>2, <2>3, LargestOf
<1>10. PieceWidth(d) = Largest(S)  BY DEF PieceWidth, a, b, c
<1>11. a \in S /\ b \in S /\ c \in S  OBVIOUS
<1>12. d.middle # << >> => w \in S
  <2>1. \A m \in Seq(Metric) : m # << >> => 1 \in DOMAIN m  OBVIOUS
  <2>2. d.middle # << >> => 1 \in DOMAIN d.middle  BY <1>1, <2>1
  <2> QED  BY <2>2
<1> HIDE DEF S, w
<1>13. PieceWidth(d) \in Nat  BY <1>2, <1>9, <1>10, <1>11
<1> QED  BY <1>9, <1>10, <1>11, <1>12, <1>13 DEF a, b, c, w

LEMMA RepeatsFormed ==
  ASSUME NEW name \in DOMAIN Ladders, Ladders[name].ladder # "NEVER", NEW target \in Int
  PROVE  LET d == Ladders[name]
             count == Repeats(d, target)
             fixed == FixedSize(d)
             step  == RepeatSize(d)
         IN  /\ count \in Nat /\ fixed \in Int /\ step \in Nat \ {0}
             /\ count * step \in Nat
             /\ fixed + count * step >= target
             /\ count > 0 => fixed + count * step - step < target
             /\ fixed = Tall(d.top) + Tall(d.bottom)
                          + (IF d.middle = << >> THEN 0 ELSE Tall(d.middle[1]))
             /\ step = (IF d.middle = << >> THEN 1 ELSE 2) * Tall(d.repeat)
<1> DEFINE d == Ladders[name]
           count == Repeats(d, target)
           fixed == FixedSize(d)
           step  == RepeatSize(d)
<1>1. /\ d.top \in Metric /\ d.repeat \in Metric /\ d.bottom \in Metric
      /\ d.middle \in Seq(Metric) /\ Tall(d.repeat) > 0
  BY LadderFields
<1>2. /\ Tall(d.top) \in Int /\ Tall(d.repeat) \in Int /\ Tall(d.bottom) \in Int
      /\ d.middle # << >> => Tall(d.middle[1]) \in Int
  <2>1. \A m \in Seq(Metric) : m # << >> => m[1] \in Metric  OBVIOUS
  <2>2. d.middle # << >> => d.middle[1] \in Metric  BY <1>1, <2>1
  <2> QED  BY <1>1, <2>2, MetricFields
<1>3. fixed = Tall(d.top) + Tall(d.bottom) + (IF d.middle = << >> THEN 0 ELSE Tall(d.middle[1]))
  BY DEF FixedSize
<1>4. step = (IF d.middle = << >> THEN 1 ELSE 2) * Tall(d.repeat)  BY DEF RepeatSize
<1>5. fixed \in Int
  <2> HIDE DEF fixed, d
  <2> QED  BY <1>2, <1>3
<1>6. step \in Nat /\ step > 0
  <2> DEFINE r == Tall(d.repeat)
  <2>1. r \in Int /\ r > 0  BY <1>1, <1>2
  <2>2. step = r \/ step = 2 * r
    <3> HIDE DEF r
    <3>1. step = (IF d.middle = << >> THEN 1 ELSE 2) * r  BY <1>4 DEF r
    <3> QED  BY <2>1, <3>1
  <2> HIDE DEF r, step
  <2> QED  BY <2>1, <2>2
<1>7. count = IF fixed < target THEN (target - fixed + step - 1) \div step ELSE 0
  BY DEF Repeats
<1> HIDE DEF count, fixed, step, d
<1>8. CASE fixed < target
  <2> DEFINE a == target - fixed + step - 1
             q == a \div step
  <2>1. a \in Nat /\ a >= step  BY <1>5, <1>6, <1>8
  <2>2. a = target - fixed + step - 1  OBVIOUS
  <2>3. count = q  BY <1>7, <1>8
  <2>4. q \in Nat /\ q * step <= a /\ a < q * step + step
    <3>1. a \in Int /\ step \in Int /\ step > 0  BY <1>6, <2>1
    <3> HIDE DEF a
    <3>2. q \in Int /\ q >= 0 /\ step * q <= a /\ a < step * q + step
      BY <2>1, <3>1, Quotient
    <3> HIDE DEF q
    <3>3. step * q = q * step  BY <3>1, <3>2
    <3> QED  BY <3>2, <3>3
  <2> DEFINE m == q * step
  <2>5. m \in Int  BY <1>6, <2>4
  <2>6. m <= a /\ a < m + step  BY <2>4
  <2> HIDE DEF m
  <2>7. m >= 0 /\ fixed + m >= target /\ fixed + m - step < target
    BY <1>5, <1>6, <1>8, <2>2, <2>5, <2>6 DEF a
  <2>8. m \in Nat  BY <2>5, <2>7
  <2> HIDE DEF a, q
  <2>9. count * step = m /\ count \in Nat  BY <2>3, <2>4 DEF m
  <2> QED  BY <1>3, <1>4, <1>5, <1>6, <2>7, <2>8, <2>9 DEF count, fixed, step, d
<1>9. CASE ~(fixed < target)
  <2>1. count = 0 /\ count * step = 0 /\ fixed >= target  BY <1>5, <1>6, <1>7, <1>9
  <2> QED  BY <1>3, <1>4, <1>5, <1>6, <2>1 DEF count, fixed, step, d
<1> QED  BY <1>8, <1>9

(* A set of indices that is not empty has a least one.                     *)
LEMMA LeastOf ==
  ASSUME NEW S, S \subseteq Nat, S # {}
  PROVE  FirstOf(S) \in S /\ \A j \in S : FirstOf(S) <= j
<1> DEFINE R == OpToRel(<, Nat)
<1>1. IsWellFoundedOn(R, Nat)  BY NatLessThanWellFounded, Zenon
<1>2. \A m, n \in Nat : m < n => <<m, n>> \in R  BY DEF OpToRel
<1> HIDE DEF R
<1>3. PICK x \in S : \A y \in S : ~(<<y, x>> \in R)  BY <1>1, WFMin
<1>4. ASSUME NEW j \in S PROVE x <= j
  <2>1. x \in Nat /\ j \in Nat  OBVIOUS
  <2>2. ~(j < x)  BY <1>2, <1>3, <2>1
  <2> QED  BY <2>1, <2>2
<1> QED  BY <1>3, <1>4 DEF FirstOf

(* What a delimiter that was asked for keeps, wherever it is moved.        *)
LadderHeld(node, a) ==
  LET permitted == Candidates(LadderOf(a), a.style)
      others == {Tall(permitted[k]) : k \in DOMAIN permitted}
  IN  IF Tall(node) >= a.target
      THEN \A h \in others : h >= a.target => node.kind = "GLYPH" /\ Tall(node) <= h
      ELSE LadderOf(a).ladder = "NEVER" /\ \A h \in others : h <= Tall(node)

PiecesTight(parts, ascent, width, d, target) ==
  /\ Len(parts) = PieceSlots(d, target)
  /\ Top(parts[1]) = ascent /\ Bottom(parts[Len(parts)]) = 0
  /\ \A k \in 1 .. Len(parts) - 1 : Bottom(parts[k]) = Top(parts[k + 1])
  /\ ascent >= target
  /\ ascent - RepeatSize(d) >= target => Len(parts) = 2 + Len(d.middle)
  /\ \A k \in DOMAIN parts : parts[k].width <= width
  /\ d.middle # << >> => Len(parts) % 2 = 1

LEMMA PiecesFit ==
  ASSUME NEW name \in DOMAIN Ladders, Ladders[name].ladder # "NEVER", NEW target \in Int,
         NEW node, NEW count, count = Repeats(Ladders[name], target),
         NEW total, total = FixedSize(Ladders[name]) + count * RepeatSize(Ladders[name]),
         Stacked(node, Pieces(Ladders[name], count), total)
  PROVE  PiecesTight(node.parts, total, PieceWidth(Ladders[name]), Ladders[name], target)
<1> DEFINE d     == Ladders[name]
           parts == node.parts
           width == PieceWidth(d)
           fixed == FixedSize(d)
           step  == RepeatSize(d)
           plan  == Pieces(d, count)
           n     == Len(plan)
           fall  == [k \in 2 .. n |-> -Tall(plan[k - 1])]
           top    == Tall(d.top)
           bottom == Tall(d.bottom)
           rep    == Tall(d.repeat)
           waist  == Tall(d.middle[1])
<1>1. /\ count \in Nat /\ fixed \in Int /\ step \in Nat \ {0} /\ count * step \in Nat
      /\ fixed + count * step >= target
      /\ count > 0 => fixed + count * step - step < target
      /\ fixed = top + bottom + (IF d.middle = << >> THEN 0 ELSE waist)
      /\ step = (IF d.middle = << >> THEN 1 ELSE 2) * rep
  BY RepeatsFormed
<1>2. /\ plan \in Seq(Metric)
      /\ d.middle = << >> =>
           /\ n = 2 + count /\ plan[1] = d.top /\ plan[n] = d.bottom
           /\ \A k \in 2 .. 1 + count : plan[k] = d.repeat
      /\ d.middle # << >> =>
           /\ n = 3 + 2 * count /\ plan[1] = d.top /\ plan[n] = d.bottom
           /\ plan[2 + count] = d.middle[1]
           /\ \A k \in 2 .. 1 + count : plan[k] = d.repeat
           /\ \A k \in 3 + count .. 2 + 2 * count : plan[k] = d.repeat
  BY <1>1, PiecesFormed
<1>3. n \in Nat /\ \A k \in 1 .. n : plan[k] \in Metric /\ Tall(plan[k]) \in Int
  <2>1. n \in Nat /\ \A k \in 1 .. n : plan[k] \in Metric  BY <1>2
  <2> HIDE DEF plan, n
  <2> QED  BY <2>1, MetricFields
<1>4. /\ d.middle \in Seq(Metric) /\ Len(d.middle) \in {0, 1}
      /\ d.middle = << >> <=> Len(d.middle) = 0
      /\ d.top \in Metric /\ d.bottom \in Metric /\ d.repeat \in Metric
  <2>1. ASSUME NEW m \in Seq(Metric), Len(m) <= 1
        PROVE  Len(m) \in {0, 1} /\ (m = << >> <=> Len(m) = 0)
    <3>1. Len(m) \in Nat /\ DOMAIN m = 1 .. Len(m)  OBVIOUS
    <3>2. m = << >> => Len(m) = 0  OBVIOUS
    <3>3. Len(m) = 0 => m = << >>  OBVIOUS
    <3> QED  BY <2>1, <3>1, <3>2, <3>3
  <2>2. /\ d.middle \in Seq(Metric) /\ Len(d.middle) <= 1
        /\ d.top \in Metric /\ d.bottom \in Metric /\ d.repeat \in Metric
    BY LadderFields
  <2> QED  BY <2>1, <2>2
<1>5. /\ top \in Int /\ bottom \in Int /\ rep \in Int
      /\ d.middle # << >> => waist \in Int
  <2>1. \A m \in Seq(Metric) : m # << >> => m[1] \in Metric  OBVIOUS
  <2>2. d.middle # << >> => d.middle[1] \in Metric  BY <1>4, <2>1
  <2> HIDE DEF d
  <2> QED  BY <1>4, <2>2, MetricFields
<1>6. PICK f : /\ Runs(f, n, total, fall)
               /\ \A k \in 1 .. n : Top(parts[k]) = f[k] /\ Bottom(parts[k]) = f[k] - Tall(plan[k])
  BY DEF Stacked
<1>7. /\ parts \in Seq(Piece) /\ Len(parts) = n
      /\ \A k \in 1 .. n : parts[k].width = plan[k].width
  BY DEF Stacked
<1>8. total = fixed + count * step  OBVIOUS
<1>9. \A k \in 2 .. n : fall[k] \in Int /\ fall[k] = -Tall(plan[k - 1])
  <2> TAKE k \in 2 .. n
  <2>1. k - 1 \in 1 .. n  BY <1>3
  <2> QED  BY <1>3, <2>1
<1>10. PieceSlots(d, target) = 2 + Len(d.middle) + (IF d.middle = << >> THEN 1 ELSE 2) * count
  BY DEF PieceSlots
<1>11. /\ width \in Nat /\ d.top.width <= width /\ d.repeat.width <= width
       /\ d.bottom.width <= width /\ (d.middle # << >> => d.middle[1].width <= width)
  BY PieceWidths
<1> DEFINE p == count * rep
<1>12. p \in Int  BY <1>1, <1>5
<1>13. count * step = IF d.middle = << >> THEN p ELSE 2 * p
  <2>2. CASE d.middle = << >>
    <3>1. step = rep  BY <1>1, <1>5, <2>2
    <3> QED  BY <2>2, <3>1
  <2>3. CASE d.middle # << >>
    <3>1. step = 2 * rep  BY <1>1, <2>3
    <3>2. ASSUME NEW a \in Int, NEW b \in Int PROVE a * (2 * b) = 2 * (a * b)  OBVIOUS
    <3>3. count * (2 * rep) = 2 * (count * rep)
      <4> HIDE DEF rep
      <4> QED  BY <1>1, <1>5, <3>2
    <3> QED  BY <2>3, <3>1, <3>3
  <2> QED  BY <2>2, <2>3
<1> HIDE DEF d, parts, width, fixed, step, plan, n, fall, top, bottom, rep, waist, p
<1>a. count \in Nat  BY <1>1
<1>b. /\ d.middle = << >> => n = 2 + count
      /\ d.middle # << >> => n = 3 + 2 * count
  BY <1>2
<1>14. total \in Int /\ total >= target  BY <1>1, <1>8
<1>15. n >= 2 /\ n = PieceSlots(d, target)
  <2>1. CASE d.middle = << >>  BY <1>a, <1>b, <1>4, <1>10, <2>1
  <2>2. CASE d.middle # << >>
    <3>1. (IF d.middle = << >> THEN 1 ELSE 2) = 2  BY <2>2
    <3> DEFINE copies == IF d.middle = << >> THEN 1 ELSE 2
    <3>2. copies = 2 /\ PieceSlots(d, target) = 2 + Len(d.middle) + copies * count
      BY <1>10, <3>1
    <3> HIDE DEF copies
    <3>3. Len(d.middle) = 1 /\ n = 3 + 2 * count  BY <1>b, <1>4, <2>2
    <3> QED  BY <1>a, <3>2, <3>3
  <2> QED  BY <2>1, <2>2
<1>16. /\ \A k \in 1 .. n : f[k] \in Int
       /\ f[1] = total
       /\ \A k \in 2 .. n : f[k] = f[k - 1] - Tall(plan[k - 1])
  <2>1. \A k \in 1 .. n : f[k] \in Int  BY <1>3, <1>6, <1>9, <1>14, RunTyped
  <2>2. f[1] = total  BY <1>3, <1>6, <1>9, <1>14, <1>15, RunTyped
  <2>3. \A k \in 2 .. n : f[k] = f[k - 1] + fall[k]  BY <1>3, <1>6, <1>9, <1>14, RunTyped
  <2>4. ASSUME NEW k \in 2 .. n PROVE f[k] = f[k - 1] - Tall(plan[k - 1])
    <3>1. k - 1 \in 1 .. n  BY <1>3
    <3>2. f[k - 1] \in Int /\ Tall(plan[k - 1]) \in Int  BY <1>3, <2>1, <3>1
    <3>3. f[k] = f[k - 1] + fall[k] /\ fall[k] = -Tall(plan[k - 1])  BY <1>9, <2>3
    <3> QED  BY <3>2, <3>3
  <2> QED  BY <2>1, <2>2, <2>4
<1>17. \A k \in 1 .. n - 1 : Bottom(parts[k]) = Top(parts[k + 1])
  <2> TAKE k \in 1 .. n - 1
  <2>1. k \in 1 .. n /\ k + 1 \in 2 .. n /\ k + 1 \in 1 .. n /\ (k + 1) - 1 = k  BY <1>3
  <2>2. f[k + 1] = f[k] - Tall(plan[k])  BY <1>16, <2>1
  <2> QED  BY <1>6, <2>1, <2>2
<1>18. f[n] - Tall(plan[n]) = 0
  <2>1. f[2] = total - top
    <3>1. 2 \in 2 .. n /\ 2 - 1 = 1  BY <1>3, <1>15
    <3>2. plan[1] = d.top  BY <1>2
    <3> QED  BY <1>16, <3>1, <3>2 DEF top
  <2>2. \A k \in 3 .. 2 + count : fall[k] = -rep
    <3> TAKE k \in 3 .. 2 + count
    <3>1. k - 1 \in 2 .. 1 + count /\ k \in 2 .. n  BY <1>a, <1>b, <1>3
    <3>2. plan[k - 1] = d.repeat  BY <1>2, <3>1
    <3> QED  BY <1>9, <3>1, <3>2 DEF rep
  <2>3. /\ n \in Nat /\ \A k \in 2 .. n : fall[k] \in Int
        /\ Runs(f, n, total, fall) /\ total \in Int /\ -rep \in Int
    BY <1>3, <1>5, <1>6, <1>9, <1>14
  <2>6. Times(count, -rep) = -p
    <3>1. ASSUME NEW a \in Int, NEW b \in Int PROVE a * (-b) = -(a * b)  OBVIOUS
    <3> QED  BY <1>a, <1>5, <3>1 DEF p, Times
  <2>7. f[2 + count] = f[2] - p
    <3> DEFINE i == 2
               j == 2 + count
               r == -rep
    <3>1. i \in 1 .. n /\ j \in i .. n /\ j - i = count  BY <1>a, <1>b, <1>3, <1>15
    <3>6. Level(fall, i, j, r)  BY <2>2 DEF Level
    <3>2. r \in Int /\ r = -rep  BY <2>3
    <3>3. f[i] \in Int  BY <1>16, <3>1
    <3>4. f[j] = f[i] + Times(j - i, r)
      <4> HIDE DEF i, j, r
      <4> QED  BY <2>3, <3>1, <3>2, <3>6, RunEven
    <3>5. f[j] = f[i] + -p  BY <2>6, <3>1, <3>2, <3>4
    <3> QED  BY <1>12, <3>3, <3>5
  <2>4. CASE d.middle = << >>
    <3>1. n = 2 + count /\ plan[n] = d.bottom  BY <1>2, <2>4
    <3>2. f[n] = total - top - p  BY <1>5, <1>12, <1>14, <2>1, <2>7, <3>1
    <3>3. total = top + bottom + p  BY <1>1, <1>5, <1>8, <1>12, <1>13, <2>4
    <3>4. Tall(plan[n]) = bottom  BY <3>1 DEF bottom
    <3> QED  BY <1>5, <1>12, <1>14, <3>2, <3>3, <3>4
  <2>5. CASE d.middle # << >>
    <3>1. n = 3 + 2 * count /\ plan[n] = d.bottom /\ plan[2 + count] = d.middle[1]  BY <1>2, <2>5
    <3>2. f[3 + count] = f[2 + count] - waist
      <4>1. 3 + count \in 2 .. n /\ (3 + count) - 1 = 2 + count  BY <1>a, <3>1
      <4> QED  BY <1>16, <3>1, <4>1 DEF waist
    <3>3. \A k \in 4 + count .. 3 + 2 * count : fall[k] = -rep
      <4> TAKE k \in 4 + count .. 3 + 2 * count
      <4>1. k - 1 \in 3 + count .. 2 + 2 * count /\ k \in 2 .. n  BY <1>a, <3>1
      <4>2. plan[k - 1] = d.repeat  BY <1>2, <2>5, <4>1
      <4> QED  BY <1>9, <4>1, <4>2 DEF rep
    <3>4. f[n] = f[3 + count] - p
      <4> DEFINE i == 3 + count
                 r == -rep
      <4>1. i \in 1 .. n /\ n \in i .. n  BY <1>a, <1>3, <3>1
      <4>7. n - i = count  BY <1>a, <3>1
      <4>2. Level(fall, i, n, r)  BY <1>a, <3>1, <3>3 DEF Level
      <4>3. r \in Int /\ r = -rep  BY <2>3
      <4>4. f[i] \in Int  BY <1>16, <4>1
      <4>5. f[n] = f[i] + Times(n - i, r)
        <5> HIDE DEF i, r
        <5> QED  BY <2>3, <4>1, <4>2, <4>3, RunEven
      <4>6. f[n] = f[i] + -p  BY <2>6, <4>3, <4>5, <4>7
      <4> QED  BY <1>12, <4>4, <4>6
    <3>5. f[n] = total - top - p - waist - p
      BY <1>5, <1>12, <1>14, <2>1, <2>5, <2>7, <3>2, <3>4
    <3>6. total = top + bottom + waist + 2 * p  BY <1>1, <1>5, <1>8, <1>12, <1>13, <2>5
    <3>7. Tall(plan[n]) = bottom  BY <3>1 DEF bottom
    <3> QED  BY <1>5, <1>12, <1>14, <2>5, <3>5, <3>6, <3>7, SMTT(30)
  <2> QED  BY <2>4, <2>5
<1>19. /\ Top(parts[1]) = total /\ Bottom(parts[n]) = 0
  <2>1. 1 \in 1 .. n /\ n \in 1 .. n  BY <1>3, <1>15
  <2> QED  BY <1>6, <1>16, <1>18, <2>1
<1>20. total - step >= target => n = 2 + Len(d.middle)
  <2>1. total - step >= target => count = 0  BY <1>1, <1>8
  <2>2. count = 0 => n = 2 + Len(d.middle)  BY <1>4, <1>10, <1>15
  <2> QED  BY <2>1, <2>2
<1>21. \A k \in 1 .. n : parts[k].width <= width
  <2> SUFFICES ASSUME NEW k \in 1 .. n PROVE plan[k].width <= width  BY <1>7
  <2>1. CASE d.middle = << >>
    <3>1. k = 1 \/ k \in 2 .. 1 + count \/ k = n  BY <1>a, <1>b, <2>1
    <3>2. plan[k] \in {d.top, d.repeat, d.bottom}  BY <1>2, <2>1, <3>1
    <3> QED  BY <1>11, <3>2
  <2>2. CASE d.middle # << >>
    <3>1. \/ k = 1 \/ k \in 2 .. 1 + count \/ k = 2 + count \/ k \in 3 + count .. 2 + 2 * count
          \/ k = n
      BY <1>a, <1>b, <2>2
    <3>2. plan[k] \in {d.top, d.repeat, d.middle[1], d.bottom}  BY <1>2, <2>2, <3>1
    <3> QED  BY <1>11, <2>2, <3>2
  <2> QED  BY <2>1, <2>2
<1>22. d.middle # << >> => n % 2 = 1  BY <1>1, <1>2
<1>23. DOMAIN parts = 1 .. n  BY <1>7
<1>24. PiecesTight(parts, total, width, d, target)
  BY <1>7, <1>14, <1>15, <1>17, <1>19, <1>20, <1>21, <1>22, <1>23 DEF PiecesTight, step
<1> QED  BY <1>24 DEF parts, width, d

LEMMA AssemblyFormed ==
  ASSUME NEW name \in DOMAIN Ladders, Ladders[name].ladder # "NEVER", NEW target \in Int,
         NEW role \in Roles, NEW src \in Int
  PROVE  LET d    == Ladders[name]
             node == Assembly(d, target, role, src)
         IN  /\ node \in NodeType /\ node.kind = "HBOX" /\ node.role = role /\ node.src = src
             /\ node.x = 0 /\ node.y = 0 /\ node.width \in Nat /\ node.ascent \in Nat
             /\ node.descent = 0 /\ node.ascent >= target
             /\ PiecesTight(node.parts, node.ascent, node.width, d, target)
<1> DEFINE d     == Ladders[name]
           count == Repeats(d, target)
           total == FixedSize(d) + count * RepeatSize(d)
           plan  == Pieces(d, count)
           width == PieceWidth(d)
           node  == Assembly(d, target, role, src)
<1>1. /\ count \in Nat /\ FixedSize(d) \in Int /\ count * RepeatSize(d) \in Nat /\ total >= target
      /\ FixedSize(d) = Tall(d.top) + Tall(d.bottom)
                          + (IF d.middle = << >> THEN 0 ELSE Tall(d.middle[1]))
  BY RepeatsFormed
<1>2. FixedSize(d) \in Nat
  <2>1. /\ d.middle \in Seq(Metric) /\ d.top \in Metric /\ d.bottom \in Metric
    BY LadderFields
  <2>2. \A m \in Metric : Tall(m) \in Nat  BY DEF Metric, Tall
  <2>3. \A m \in Seq(Metric) : m # << >> => m[1] \in Metric  OBVIOUS
  <2>4. d.middle # << >> => Tall(d.middle[1]) \in Nat  BY <2>1, <2>2, <2>3
  <2>5. Tall(d.top) \in Nat /\ Tall(d.bottom) \in Nat  BY <2>1, <2>2
  <2> HIDE DEF d
  <2> QED  BY <1>1, <2>4, <2>5
<1>3. total \in Nat  BY <1>1, <1>2
<1>4. width \in Nat  BY PieceWidths
<1>5. plan \in Seq(Metric)  BY <1>1, PiecesFormed
<1>6. node = StackPieces(plan, total, width, role, src)  BY DEF Assembly
<1>7. count = Repeats(d, target) /\ total = FixedSize(d) + count * RepeatSize(d)
      /\ plan = Pieces(Ladders[name], count) /\ width = PieceWidth(Ladders[name]) /\ d = Ladders[name]
  OBVIOUS
<1> HIDE DEF total, width, plan, count, node, d
<1>8. /\ node \in NodeType /\ node.kind = "HBOX" /\ node.role = role /\ node.src = src
      /\ node.x = 0 /\ node.y = 0 /\ node.width = width /\ node.ascent = total
      /\ node.descent = 0 /\ Stacked(node, plan, total)
  BY <1>3, <1>4, <1>5, <1>6, StackFormed, SMTT(30)
<1>9. PiecesTight(node.parts, total, PieceWidth(Ladders[name]), Ladders[name], target)
  BY <1>7, <1>8, PiecesFit
<1> QED  BY <1>1, <1>3, <1>4, <1>7, <1>8, <1>9 DEF node, d

(* The delimiter chosen for a target.                                      *)
Fits(node, a) ==
  /\ node.parts # << >> => PiecesTight(node.parts, node.ascent, node.width, LadderOf(a), a.target)
  /\ ~LadderOf(a).null => LadderHeld(node, a)

WidthTaken(node, c) == \E k \in DOMAIN c : node.width = c[k].width

LEMMA ChosenFormed ==
  ASSUME NEW name \in DOMAIN Ladders, ~Ladders[name].null, NEW s \in MathStyles,
         NEW target \in Int, NEW role \in Roles, NEW src \in Int
  PROVE  LET node == Chosen(Ladders[name], s, target, role, src) IN
         /\ node \in NodeType /\ node.kind # "KERN" /\ node.role = role /\ node.src = src
         /\ node.x = 0 /\ node.width \in Nat /\ node.ascent + node.descent >= 0
         /\ Fits(node, Asks(role, name, s, target))
         /\ Ladders[name].ladder = "NEVER" => WidthTaken(node, Candidates(Ladders[name], s))
<1> DEFINE d    == Ladders[name]
           c    == Candidates(d, s)
           fit  == Fitting(c, target)
           a    == Asks(role, name, s, target)
           node == Chosen(d, s, target, role, src)
<1>1. /\ c \in Seq(Metric) /\ c # << >>
      /\ d.ladder # "ALWAYS" /\ d.faces # << >> => c[Len(c)] = d.faces[Len(d.faces)]
  BY CandidatesFormed
<1>2. d.ladder \in {"NEVER", "LARGE", "ALWAYS"} /\ (d.ladder = "NEVER" => d.faces # << >>)
  BY LadderFields
<1>3. \A j, k \in DOMAIN c : j < k => Tall(c[j]) <= Tall(c[k])  BY TablesAscend
<1>4. a.target = target /\ a.style = s /\ LadderOf(a) = d /\ Candidates(LadderOf(a), a.style) = c
  BY DEF Asks, LadderOf
<1>5. node = IF fit # {} THEN GlyphNode(c[FirstOf(fit)], role, src)
             ELSE IF d.ladder = "NEVER" THEN GlyphNode(d.faces[Len(d.faces)], role, src)
             ELSE Assembly(d, target, role, src)
  BY DEF Chosen
<1>6. d = Ladders[name] /\ a = Asks(role, name, s, target)  OBVIOUS
<1> HIDE DEF a, c, node, d
<1>7. DOMAIN c = 1 .. Len(c) /\ Len(c) \in Nat /\ Len(c) >= 1 /\ \A k \in DOMAIN c : c[k] \in Metric
  BY <1>1
<1>8. \A k \in DOMAIN c : Tall(c[k]) \in Int  BY <1>7, MetricFields
<1>9. fit \subseteq DOMAIN c /\ \A k \in DOMAIN c : k \in fit <=> Tall(c[k]) >= target
  BY DEF Fitting
<1> HIDE DEF fit
<1>10. ASSUME NEW k \in DOMAIN c, node = GlyphNode(c[k], role, src)
       PROVE  /\ node \in NodeType /\ node.kind = "GLYPH" /\ node.role = role /\ node.src = src
              /\ node.x = 0 /\ node.width \in Nat /\ node.ascent + node.descent >= 0
              /\ Tall(node) = Tall(c[k]) /\ node.parts = << >> /\ node.width = c[k].width
  <2> DEFINE m == c[k]
  <2>1. m \in Metric  BY <1>7
  <2>2. node = GlyphNode(m, role, src)  BY <1>10
  <2> HIDE DEF m
  <2>3. /\ node \in NodeType /\ node.kind = "GLYPH" /\ node.role = role /\ node.src = src
        /\ node.x = 0 /\ node.width = m.width /\ node.ascent = m.ascent
        /\ node.descent = m.descent /\ node.parts = << >>
    BY <2>1, <2>2, GlyphFormed
  <2>4. m.width \in Nat /\ m.ascent + m.descent >= 0  BY <2>1 DEF Metric
  <2> QED  BY <2>3, <2>4 DEF Tall, m
<1>11. CASE fit # {}
  <2> DEFINE first == FirstOf(fit)
  <2>1. first \in fit /\ \A j \in fit : first <= j
    <3>1. fit \subseteq Nat  BY <1>7, <1>9
    <3> QED  BY <1>11, <3>1, LeastOf
  <2>2. first \in DOMAIN c /\ Tall(c[first]) >= target  BY <1>9, <2>1
  <2>3. node = GlyphNode(c[first], role, src)  BY <1>5, <1>11
  <2> HIDE DEF first
  <2>4. /\ node \in NodeType /\ node.kind = "GLYPH" /\ node.role = role /\ node.src = src
        /\ node.x = 0 /\ node.width \in Nat /\ node.ascent + node.descent >= 0
        /\ Tall(node) = Tall(c[first]) /\ node.parts = << >> /\ node.width = c[first].width
    BY <1>10, <2>2, <2>3
  <2>5. ASSUME NEW k \in DOMAIN c, Tall(c[k]) >= target PROVE Tall(node) <= Tall(c[k])
    <3>1. k \in fit  BY <1>9, <2>5
    <3>2. first <= k /\ first \in Int /\ k \in Int  BY <1>7, <2>1, <2>2, <3>1
    <3>3. CASE first = k  BY <1>8, <2>4, <3>3
    <3>4. CASE first < k  BY <1>3, <2>2, <2>4, <3>4
    <3> QED  BY <3>2, <3>3, <3>4
  <2>6. LadderHeld(node, a)  BY <1>4, <2>2, <2>4, <2>5 DEF LadderHeld
  <2>7. Fits(node, a)  BY <2>4, <2>6 DEF Fits
  <2> QED  BY <1>6, <2>2, <2>4, <2>7 DEF node, c, WidthTaken
<1>12. CASE fit = {} /\ d.ladder = "NEVER"
  <2> DEFINE last == Len(c)
  <2>1. last \in DOMAIN c /\ d.faces[Len(d.faces)] = c[last]  BY <1>1, <1>2, <1>7, <1>12
  <2>2. node = GlyphNode(c[last], role, src)  BY <1>5, <1>12, <2>1
  <2>3. /\ node \in NodeType /\ node.kind = "GLYPH" /\ node.role = role /\ node.src = src
        /\ node.x = 0 /\ node.width \in Nat /\ node.ascent + node.descent >= 0
        /\ Tall(node) = Tall(c[last]) /\ node.parts = << >> /\ node.width = c[last].width
    BY <1>10, <2>1, <2>2
  <2>4. ~(Tall(node) >= target)  BY <1>9, <1>12, <2>1, <2>3
  <2>5. ASSUME NEW k \in DOMAIN c PROVE Tall(c[k]) <= Tall(node)
    <3>1. k <= last /\ k \in Int /\ last \in Int  BY <1>7
    <3>2. CASE k = last  BY <1>8, <2>3, <3>2
    <3>3. CASE k < last  BY <1>3, <2>1, <2>3, <3>3
    <3> QED  BY <3>1, <3>2, <3>3
  <2>6. LadderHeld(node, a)  BY <1>4, <1>12, <2>4, <2>5 DEF LadderHeld
  <2>7. Fits(node, a)  BY <2>3, <2>6 DEF Fits
  <2> QED  BY <1>6, <2>1, <2>3, <2>7 DEF node, c, WidthTaken
<1>13. CASE fit = {} /\ d.ladder # "NEVER"
  <2>1. node = Assembly(d, target, role, src)  BY <1>5, <1>13
  <2>2. /\ node \in NodeType /\ node.kind = "HBOX" /\ node.role = role /\ node.src = src
        /\ node.x = 0 /\ node.width \in Nat /\ node.ascent \in Nat
        /\ node.descent = 0 /\ node.ascent >= target
        /\ PiecesTight(node.parts, node.ascent, node.width, d, target)
    BY <1>6, <1>13, <2>1, AssemblyFormed
  <2>3. Tall(node) = node.ascent  BY <2>2 DEF Tall
  <2>4. \A k \in DOMAIN c : ~(Tall(c[k]) >= target)  BY <1>9, <1>13
  <2>5. LadderHeld(node, a)  BY <1>4, <2>2, <2>3, <2>4 DEF LadderHeld
  <2>6. Fits(node, a)  BY <1>4, <2>2, <2>5 DEF Fits
  <2> QED  BY <1>6, <1>13, <2>2, <2>6 DEF node, c
<1> QED  BY <1>11, <1>12, <1>13

OnAxis(node, s) == Apart(Top(node) + Bottom(node), 2 * P("axis", s)) <= 1

(* The delimiter a construct asks for: a space, or it fits on the axis.    *)
Delimited(n, name, s, target, role, src) ==
  /\ n \in NodeType /\ n.role = role /\ n.src = src /\ n.x = 0
  /\ n.width \in Nat /\ n.ascent + n.descent >= 0
  /\ Fits(n, Asks(role, name, s, target))
  /\ IF Ladders[name].null THEN n.kind = "KERN" /\ n.parts = << >> /\ n.y = 0 /\ n.ascent = 0 /\ n.descent = 0
     ELSE n.kind # "KERN" /\ OnAxis(n, s)

LEMMA DelimiterFormed ==
  ASSUME NEW name \in DOMAIN Ladders, NEW s \in MathStyles, NEW target \in Int,
         NEW role \in Roles, NEW src \in Int
  PROVE  Delimited(DelimiterNode(name, s, target, role, src), name, s, target, role, src)
<1> DEFINE node == DelimiterNode(name, s, target, role, src)
           a    == Asks(role, name, s, target)
<1>1. CASE Ladders[name].null
  <2>1. node = Kern(role, src, NullDelimiterSpace)  BY <1>1 DEF DelimiterNode
  <2>2. NullDelimiterSpace \in Nat  BY BoxesAssumption
  <2> HIDE DEF node
  <2>3. /\ node \in NodeType /\ node.kind = "KERN" /\ node.role = role /\ node.src = src
        /\ node.x = 0 /\ node.y = 0 /\ node.width = NullDelimiterSpace /\ node.ascent = 0
        /\ node.descent = 0 /\ node.parts = << >>
    BY <2>1, <2>2, KernFormed
  <2>4. LadderOf(a) = Ladders[name]  BY DEF LadderOf, Asks
  <2>5. Fits(node, a)  BY <1>1, <2>3, <2>4 DEF Fits
  <2> QED  BY <1>1, <2>2, <2>3, <2>5 DEF Delimited, node
<1>2. CASE ~Ladders[name].null
  <2> DEFINE base == Chosen(Ladders[name], s, target, role, src)
             axis == P("axis", s)
             v    == base.ascent - base.descent
             y    == axis - Half(v)
  <2>1. node = At(base, 0, y)  BY <1>2 DEF DelimiterNode, Centred
  <2>2. /\ base \in NodeType /\ base.kind # "KERN" /\ base.role = role /\ base.src = src
        /\ base.x = 0 /\ base.width \in Nat /\ base.ascent + base.descent >= 0
        /\ Fits(base, a)
    BY <1>2, ChosenFormed
  <2> HIDE DEF base, node
  <2>3. base.ascent \in Int /\ base.descent \in Int  BY <2>2, NodeFields
  <2>4. axis \in Int  BY Tables DEF Parameters
  <2>5. v \in Int /\ v = base.ascent - base.descent  BY <2>3
  <2> HIDE DEF v
  <2>6. Half(v) \in Int /\ (2 * Half(v) = v \/ 2 * Half(v) = v + 1)  BY <2>5, Halves
  <2>7. y \in Int  BY <2>4, <2>6
  <2>8. y = axis - Half(v)  OBVIOUS
  <2> HIDE DEF y
  <2>9. /\ node \in NodeType /\ node.x = 0 /\ node.y = y
        /\ node.kind = base.kind /\ node.role = base.role /\ node.src = base.src
        /\ node.width = base.width /\ node.ascent = base.ascent
        /\ node.descent = base.descent /\ node.parts = base.parts
    BY <2>1, <2>2, <2>7, AtFormed
  <2>10. Fits(node, a)
    <3>1. Tall(node) = Tall(base)  BY <2>9 DEF Tall
    <3>2. LadderHeld(base, a) => LadderHeld(node, a)  BY <2>9, <3>1 DEF LadderHeld
    <3> QED  BY <2>2, <2>9, <3>2 DEF Fits
  <2>11. OnAxis(node, s)
    <3>1. Top(node) + Bottom(node) = 2 * axis - 2 * Half(v) + v
      BY <2>3, <2>4, <2>5, <2>6, <2>7, <2>8, <2>9 DEF Top, Bottom
    <3>2. Apart(Top(node) + Bottom(node), 2 * axis) <= 1  BY <2>4, <2>5, <2>6, <3>1 DEF Apart
    <3> QED  BY <3>2 DEF OnAxis
  <2>12. node.kind # "KERN" /\ node.role = role /\ node.src = src /\ node.width \in Nat
         /\ node.ascent + node.descent >= 0
    BY <2>2, <2>9
  <2> QED  BY <1>2, <2>9, <2>10, <2>11, <2>12 DEF Delimited, node
<1> QED  BY <1>1, <1>2

(* It answers what was asked of it, and does when it is moved sideways.     *)
Answers(n, a) ==
  Fits(n, a) /\ (a.role # "SIGN" /\ ~LadderOf(a).null => OnAxis(n, a.style))

LEMMA DelimitedAnswers ==
  ASSUME NEW n, NEW name, NEW s, NEW target, NEW role, NEW src,
         Delimited(n, name, s, target, role, src)
  PROVE  Answers(n, Asks(role, name, s, target))
<1>1. LadderOf(Asks(role, name, s, target)) = Ladders[name] /\ Asks(role, name, s, target).style = s
  BY DEF LadderOf, Asks
<1> QED  BY <1>1 DEF Answers, Delimited

LEMMA DelimitedMoved ==
  ASSUME NEW n, NEW name, NEW s, NEW target, NEW role, NEW src, NEW x \in Int,
         Delimited(n, name, s, target, role, src), NEW m, m = At(n, x, n.y)
  PROVE  /\ m \in NodeType /\ m.x = x /\ m.y = n.y /\ m.kind = n.kind /\ m.role = role
         /\ m.src = src /\ m.width = n.width /\ m.ascent = n.ascent /\ m.descent = n.descent
         /\ Answers(m, Asks(role, name, s, target))
<1>1. n \in NodeType /\ n.role = role /\ n.src = src /\ n.y \in Int  BY NodeFields DEF Delimited
<1>2. /\ m \in NodeType /\ m.x = x /\ m.y = n.y /\ m.kind = n.kind /\ m.role = n.role /\ m.src = n.src
      /\ m.width = n.width /\ m.ascent = n.ascent /\ m.descent = n.descent /\ m.parts = n.parts
  BY <1>1, AtFormed
<1> DEFINE a == Asks(role, name, s, target)
<1>3. Fits(m, a)
  <2>1. Tall(m) = Tall(n)  BY <1>2 DEF Tall
  <2>2. LadderHeld(n, a) => LadderHeld(m, a)  BY <1>2, <2>1 DEF LadderHeld
  <2> QED  BY <1>2, <2>2 DEF Fits, Delimited
<1>4. a.role # "SIGN" /\ ~LadderOf(a).null => OnAxis(m, a.style)
  <2>1. Top(m) = Top(n) /\ Bottom(m) = Bottom(n)  BY <1>2 DEF Top, Bottom
  <2>2. OnAxis(n, a.style) => OnAxis(m, a.style)  BY <2>1 DEF OnAxis
  <2>3. Answers(n, a)  BY DelimitedAnswers
  <2> QED  BY <2>2, <2>3 DEF Answers
<1>5. Answers(m, a)  BY <1>3, <1>4 DEF Answers
<1> QED  BY <1>1, <1>2, <1>5

-----------------------------------------------------------------------------
(***************************************************************************)
(* The children of a box, as a set and in their order.                     *)
(***************************************************************************)
Members(c) == {c[k] : k \in DOMAIN c}

Ordered(c) == \A k \in 1 .. Len(c) - 1 : c[k].src <= c[k + 1].src

HoldsInk(b) ==
  \A n \in Members(b.children) : n.kind # "KERN" =>
    /\ Top(n) <= b.ascent
    /\ -Bottom(n) <= b.descent \/ (n.role = "ACCENT" /\ Bottom(n) >= 0)

HoldsWidth(b) == \A n \in Members(b.children) : n.kind # "KERN" => Right(n) <= b.width

Whole(b) == Formed(b) /\ HoldsInk(b) /\ Ordered(b.children)

(* The one child of a role, and boxes whose delimiters answer their asks.  *)
Plays(c, n, role) ==
  n \in Members(c) /\ n.role = role /\ \A q \in Members(c) : q.role = role => q = n

Answered(b, asks) ==
  \A a \in asks : \E n : Plays(b.children, n, a.role) /\ Answers(n, a)

LEMMA InkOf ==
  ASSUME NEW c
  PROVE  Ink(c) = {n \in Members(c) : n.kind # "KERN"}
  BY DEF Ink, Members

LEMMA OneMember ==
  ASSUME NEW a
  PROVE  Members(<<a>>) = {a} /\ Ordered(<<a>>) /\ Len(<<a>>) = 1
  BY DEF Members, Ordered

LEMMA NoMember == Members(<< >>) = {} /\ Ordered(<< >>) /\ Len(<< >>) = 0
  BY DEF Members, Ordered

LEMMA MembersTyped ==
  ASSUME NEW c \in Seq(NodeType)
  PROVE  Members(c) \subseteq NodeType
  BY DEF Members

LEMMA Joined ==
  ASSUME NEW s \in Seq(NodeType), NEW t \in Seq(NodeType)
  PROVE  /\ s \o t \in Seq(NodeType) /\ Len(s \o t) = Len(s) + Len(t)
         /\ Members(s \o t) = Members(s) \cup Members(t)
         /\ Ordered(s) /\ Ordered(t) /\ (\A m \in Members(s), n \in Members(t) : m.src <= n.src)
              => Ordered(s \o t)
<1> DEFINE c == s \o t
           l == Len(s)
           m == Len(t)
<1>1. /\ c \in Seq(NodeType) /\ Len(c) = l + m /\ l \in Nat /\ m \in Nat
      /\ DOMAIN s = 1 .. l /\ DOMAIN t = 1 .. m /\ DOMAIN c = 1 .. l + m
  OBVIOUS
<1>2. /\ \A k \in 1 .. l : c[k] = s[k]
      /\ \A k \in l + 1 .. l + m : c[k] = t[k - l]
  OBVIOUS
<1>3. Members(c) = Members(s) \cup Members(t)
  <2> HIDE DEF c, l, m
  <2>1. ASSUME NEW n \in Members(c) PROVE n \in Members(s) \cup Members(t)
    <3>1. PICK k \in 1 .. l + m : n = c[k]  BY <1>1 DEF Members
    <3>2. CASE k <= l
      <4>1. k \in 1 .. l  BY <1>1, <3>2
      <4> QED  BY <1>1, <1>2, <3>1, <4>1 DEF Members
    <3>3. CASE ~(k <= l)
      <4>1. k - l \in 1 .. m /\ k \in l + 1 .. l + m  BY <1>1, <3>3
      <4> QED  BY <1>1, <1>2, <3>1, <4>1 DEF Members
    <3> QED  BY <3>2, <3>3
  <2>2. ASSUME NEW n \in Members(s) PROVE n \in Members(c)
    <3>1. PICK k \in 1 .. l : n = s[k]  BY <1>1 DEF Members
    <3>2. k \in 1 .. l + m  BY <1>1
    <3> QED  BY <1>1, <1>2, <3>1, <3>2 DEF Members
  <2>3. ASSUME NEW n \in Members(t) PROVE n \in Members(c)
    <3>1. PICK k \in 1 .. m : n = t[k]  BY <1>1 DEF Members
    <3>2. l + k \in 1 .. l + m /\ l + k \in l + 1 .. l + m /\ (l + k) - l = k  BY <1>1
    <3>3. c[l + k] = t[k]  BY <1>2, <3>2
    <3> QED  BY <1>1, <3>1, <3>2, <3>3 DEF Members
  <2> QED  BY <2>1, <2>2, <2>3
<1>4. ASSUME Ordered(s), Ordered(t), \A a \in Members(s), n \in Members(t) : a.src <= n.src
      PROVE  Ordered(c)
  <2> SUFFICES ASSUME NEW k \in 1 .. Len(c) - 1 PROVE c[k].src <= c[k + 1].src  BY DEF Ordered
  <2> HIDE DEF c, l, m
  <2>1. k \in 1 .. l + m /\ k + 1 \in 1 .. l + m  BY <1>1
  <2>2. CASE k + 1 <= l
    <3>1. k \in 1 .. l - 1 /\ k \in 1 .. l /\ k + 1 \in 1 .. l  BY <1>1, <2>2
    <3>2. s[k].src <= s[k + 1].src  BY <1>4, <3>1 DEF Ordered, l
    <3> QED  BY <1>2, <3>1, <3>2
  <2>3. CASE k = l
    <3>1. k \in 1 .. l /\ k + 1 \in l + 1 .. l + m /\ (k + 1) - l = 1 /\ 1 \in 1 .. m
      BY <1>1, <2>1, <2>3
    <3>2. c[k] = s[k] /\ c[k + 1] = t[1]  BY <1>2, <3>1
    <3>3. s[k] \in Members(s) /\ t[1] \in Members(t)  BY <1>1, <3>1 DEF Members
    <3> QED  BY <1>4, <3>2, <3>3
  <2>4. CASE k > l
    <3>1. /\ k \in l + 1 .. l + m /\ k + 1 \in l + 1 .. l + m /\ k - l \in 1 .. m - 1
          /\ (k + 1) - l = (k - l) + 1
      BY <1>1, <2>1, <2>4
    <3>2. t[k - l].src <= t[(k - l) + 1].src  BY <1>4, <3>1 DEF Ordered, m
    <3>3. c[k] = t[k - l] /\ c[k + 1] = t[(k + 1) - l]  BY <1>2, <3>1
    <3> QED  BY <3>1, <3>2, <3>3
  <2>5. k \in Int /\ l \in Int  BY <1>1
  <2> QED  BY <2>2, <2>3, <2>4, <2>5
<1> QED  BY <1>1, <1>3, <1>4

LEMMA Pair ==
  ASSUME NEW a \in NodeType, NEW b \in NodeType
  PROVE  /\ <<a, b>> \in Seq(NodeType) /\ Len(<<a, b>>) = 2 /\ Members(<<a, b>>) = {a, b}
         /\ a.src <= b.src => Ordered(<<a, b>>)
<1>1. <<a, b>> \in Seq(NodeType) /\ Len(<<a, b>>) = 2  OBVIOUS
<1>2. Members(<<a, b>>) = {a, b}
  <2>1. DOMAIN <<a, b>> = {1, 2}  OBVIOUS
  <2> QED  BY <2>1 DEF Members
<1>3. a.src <= b.src => Ordered(<<a, b>>)
  <2>1. 1 .. Len(<<a, b>>) - 1 = {1}  OBVIOUS
  <2> QED  BY <2>1 DEF Ordered
<1> QED  BY <1>1, <1>2, <1>3

LEMMA Triple ==
  ASSUME NEW a \in NodeType, NEW b \in NodeType, NEW c \in NodeType
  PROVE  /\ <<a, b, c>> \in Seq(NodeType) /\ Len(<<a, b, c>>) = 3
         /\ Members(<<a, b, c>>) = {a, b, c}
         /\ a.src <= b.src /\ b.src <= c.src => Ordered(<<a, b, c>>)
<1>1. <<a, b, c>> \in Seq(NodeType) /\ Len(<<a, b, c>>) = 3  OBVIOUS
<1>2. Members(<<a, b, c>>) = {a, b, c}
  <2>1. DOMAIN <<a, b, c>> = {1, 2, 3}  OBVIOUS
  <2> QED  BY <2>1 DEF Members
<1>3. a.src <= b.src /\ b.src <= c.src => Ordered(<<a, b, c>>)
  <2>1. 1 .. Len(<<a, b, c>>) - 1 = {1, 2}  OBVIOUS
  <2> QED  BY <2>1 DEF Ordered
<1> QED  BY <1>1, <1>2, <1>3

(* A list of nodes is whole.                                               *)
LEMMA ListWhole ==
  ASSUME NEW nodes \in Seq(NodeType), NEW width \in Nat, Ordered(nodes)
  PROVE  Whole(HList(nodes, width))
<1> DEFINE b == HList(nodes, width)
<1>1. /\ Formed(b) /\ b.children = nodes
      /\ \A n \in Ink(nodes) : Top(n) <= b.ascent /\ -Bottom(n) <= b.descent
  BY ListFormed
<1>2. HoldsInk(b)
  <2> HIDE DEF b
  <2> QED  BY <1>1, InkOf DEF HoldsInk
<1> QED  BY <1>1, <1>2 DEF Whole

-----------------------------------------------------------------------------
(***************************************************************************)
(* Lists of one atom, sized delimiters and accents.                        *)
(***************************************************************************)
(* What a nucleus is: one node at the origin's column, or none.            *)
Nucleate(n) ==
  /\ n.width \in Nat /\ n.italic \in Nat /\ n.up \in Int /\ n.down \in Int
  /\ n.nodes \in Seq(NodeType) /\ Len(n.nodes) <= 1
  /\ \A g \in Members(n.nodes) :
       /\ g.kind # "KERN" /\ g.role = "NUCLEUS" /\ g.src = 0 /\ g.x = 0 /\ g.width = n.width
       /\ g.ascent + g.descent >= 0

LEMMA DropTables ==
  ASSUME NEW s \in MathStyles
  PROVE  /\ Param[DropSize(s)]["supDrop"] \in Nat /\ Param[DropSize(s)]["subDrop"] \in Nat
<1>1. DropSize(s) \in Sizes  BY DEF DropSize, Sizes
<1>2. "supDrop" \in Parameters /\ "subDrop" \in Parameters  BY DEF Parameters
<1>3. Param \in [Sizes -> [Parameters -> Nat]]  BY BoxesAssumption
<1> QED  BY <1>1, <1>2, <1>3

LEMMA NucleusOfNode ==
  ASSUME NEW g \in NodeType, g.kind # "KERN", g.role = "NUCLEUS", g.src = 0, g.x = 0,
         g.ascent + g.descent >= 0, NEW italic \in Nat, NEW s \in MathStyles
  PROVE  /\ Nucleate(BoxedNucleus(g, italic, s)) /\ BoxedNucleus(g, italic, s).nodes = <<g>>
         /\ BoxedNucleus(g, italic, s).italic = italic
<1> DEFINE n == BoxedNucleus(g, italic, s)
<1>1. /\ g.width \in Nat /\ g.ascent \in Int /\ g.descent \in Int /\ g.y \in Int
  BY NodeFields
<1>2. Param[DropSize(s)]["supDrop"] \in Nat /\ Param[DropSize(s)]["subDrop"] \in Nat
  BY DropTables
<1>3. /\ n.nodes = <<g>> /\ n.width = g.width /\ n.italic = italic
      /\ n.up = g.ascent + g.y - Param[DropSize(s)]["supDrop"]
      /\ n.down = g.descent - g.y + Param[DropSize(s)]["subDrop"]
  BY DEF BoxedNucleus, Nucleus
<1> HIDE DEF n
<1>4. n.up \in Int /\ n.down \in Int  BY <1>1, <1>2, <1>3
<1>5. n.nodes \in Seq(NodeType) /\ Len(n.nodes) = 1 /\ Members(n.nodes) = {g}
  BY <1>3, OneMember
<1>6. Nucleate(n)  BY <1>1, <1>3, <1>4, <1>5 DEF Nucleate
<1> QED  BY <1>3, <1>6 DEF n

LEMMA CharNucleate ==
  ASSUME NEW g \in Glyphs, NEW s \in MathStyles
  PROVE  Nucleate(CharNucleus(g, s)) /\ CharNucleus(g, s).nodes # << >>
<1> DEFINE m == g[StyleSize(s)]
           node == GlyphNode(m, "NUCLEUS", 0)
           n == CharNucleus(g, s)
<1>1. m \in Metric  BY GlyphTable
<1>2. n.nodes = <<node>> /\ n.width = m.width /\ n.italic = m.italic /\ n.up = 0 /\ n.down = 0
  BY DEF CharNucleus, Nucleus
<1> HIDE DEF m, n
<1>3. /\ node \in NodeType /\ node.kind = "GLYPH" /\ node.role = "NUCLEUS" /\ node.src = 0
      /\ node.x = 0 /\ node.width = m.width /\ node.ascent = m.ascent /\ node.descent = m.descent
  BY <1>1, GlyphFormed DEF Roles
<1>4. m.width \in Nat /\ m.italic \in Nat /\ m.ascent + m.descent >= 0  BY <1>1 DEF Metric
<1> HIDE DEF node
<1>5. n.nodes \in Seq(NodeType) /\ Len(n.nodes) = 1 /\ Members(n.nodes) = {node}
  BY <1>2, <1>3, OneMember
<1>6. Nucleate(n)  BY <1>2, <1>3, <1>4, <1>5 DEF Nucleate
<1> QED  BY <1>2, <1>6 DEF n

LEMMA OperatorNucleate ==
  ASSUME NEW o \in Operators, NEW s \in MathStyles
  PROVE  Nucleate(OperatorNucleus(o, s)) /\ OperatorNucleus(o, s).nodes # << >>
<1> DEFINE m == IF s < Text THEN o.size2 ELSE o.size1
           base == GlyphNode(m, "NUCLEUS", 0)
           y == P("axis", s) - Half(m.ascent - m.descent)
           node == At(base, 0, y)
<1>1. m \in Metric  BY BoxesAssumption
<1>2. OperatorNucleus(o, s) = BoxedNucleus(node, m.italic, s)  BY DEF OperatorNucleus
<1> HIDE DEF m
<1>3. m.ascent \in Int /\ m.descent \in Int /\ m.italic \in Nat /\ m.ascent + m.descent >= 0
  BY <1>1 DEF Metric
<1>4. /\ base \in NodeType /\ base.kind = "GLYPH" /\ base.role = "NUCLEUS" /\ base.src = 0
      /\ base.ascent = m.ascent /\ base.descent = m.descent
  BY <1>1, GlyphFormed DEF Roles
<1>5. y \in Int
  <2>1. P("axis", s) \in Int  BY Tables DEF Parameters
  <2> QED  BY <1>3, <2>1, Halves
<1> HIDE DEF base, y
<1>6. /\ node \in NodeType /\ node.kind = "GLYPH" /\ node.role = "NUCLEUS" /\ node.src = 0
      /\ node.x = 0 /\ node.ascent = m.ascent /\ node.descent = m.descent
  BY <1>4, <1>5, AtFormed
<1> DEFINE italic == m.italic
<1>7. italic \in Nat /\ node.ascent + node.descent >= 0  BY <1>3, <1>6
<1> HIDE DEF node, italic
<1>8. Nucleate(BoxedNucleus(node, italic, s)) /\ BoxedNucleus(node, italic, s).nodes = <<node>>
  BY <1>6, <1>7, NucleusOfNode
<1> QED  BY <1>2, <1>8 DEF italic

LEMMA ListNucleate ==
  ASSUME NEW b, Extents(b), NEW s \in MathStyles
  PROVE  Nucleate(ListNucleus(b, s)) /\ ListNucleus(b, s).nodes # << >>
<1> DEFINE node == Child(b, "NUCLEUS", 0, 0, 0)
<1>1. /\ node \in NodeType /\ node.kind = "HBOX" /\ node.role = "NUCLEUS" /\ node.src = 0
      /\ node.x = 0 /\ node.ascent = b.ascent /\ node.descent = b.descent
  BY ChildFormed DEF Roles
<1>2. node.ascent + node.descent >= 0  BY <1>1 DEF Extents
<1>3. ListNucleus(b, s) = BoxedNucleus(node, 0, s)  BY DEF ListNucleus
<1> HIDE DEF node
<1>4. Nucleate(BoxedNucleus(node, 0, s)) /\ BoxedNucleus(node, 0, s).nodes = <<node>>
  <2> DEFINE italic == 0
  <2>1. italic \in Nat  OBVIOUS
  <2> HIDE DEF italic
  <2>2. Nucleate(BoxedNucleus(node, italic, s)) /\ BoxedNucleus(node, italic, s).nodes = <<node>>
    BY <1>1, <1>2, <2>1, NucleusOfNode
  <2> QED  BY <2>2 DEF italic
<1> QED  BY <1>3, <1>4

LEMMA EmptyNucleate ==
  ASSUME NEW s \in MathStyles
  PROVE  Nucleate(EmptyNucleus(s))
<1> DEFINE n == EmptyNucleus(s)
<1>1. Param[DropSize(s)]["supDrop"] \in Nat /\ Param[DropSize(s)]["subDrop"] \in Nat
  BY DropTables
<1>2. /\ n.nodes = << >> /\ n.width = 0 /\ n.italic = 0
      /\ n.up = -Param[DropSize(s)]["supDrop"] /\ n.down = Param[DropSize(s)]["subDrop"]
  BY DEF EmptyNucleus, Nucleus
<1> HIDE DEF n
<1>3. n.up \in Int /\ n.down \in Int  BY <1>1, <1>2
<1> QED  BY <1>2, <1>3, NoMember DEF Nucleate, n

LEMMA BareWhole ==
  ASSUME NEW n, Nucleate(n)
  PROVE  LET b == BareBox(n) IN
         Whole(b) /\ HoldsWidth(b) /\ b.slots = Len(b.children) /\ b.children = n.nodes
<1> DEFINE b == BareBox(n)
           nodes == n.nodes
           width == n.width + n.italic
<1>1. b = HList(nodes, width)  BY DEF BareBox
<1>2. n.width \in Nat /\ n.italic \in Nat  BY DEF Nucleate
<1>3. nodes \in Seq(NodeType) /\ width \in Nat  BY <1>2 DEF Nucleate
<1>4. Ordered(nodes)
  <2>1. Len(nodes) \in Nat /\ Len(nodes) <= 1  BY <1>3 DEF Nucleate
  <2>2. 1 .. Len(nodes) - 1 = {}  BY <2>1
  <2> QED  BY <2>2 DEF Ordered
<1>5. \A g \in Members(nodes) : g.x = 0 /\ g.width = n.width  BY DEF Nucleate
<1>6. width = n.width + n.italic /\ nodes = n.nodes  OBVIOUS
<1> HIDE DEF b, nodes, width
<1>7. Whole(b)  BY <1>1, <1>3, <1>4, ListWhole
<1>8. b.children = nodes /\ b.width = width /\ b.slots = Len(nodes)  BY <1>1, <1>3, ListFormed
<1>9. HoldsWidth(b)
  <2> SUFFICES ASSUME NEW g \in Members(nodes) PROVE Right(g) <= b.width
    BY <1>8 DEF HoldsWidth
  <2>1. g.x = 0 /\ g.width = n.width  BY <1>5
  <2> QED  BY <1>2, <1>6, <1>8, <2>1 DEF Right
<1> QED  BY <1>6, <1>7, <1>8, <1>9 DEF b

LEMMA SizedWhole ==
  ASSUME NEW d \in DOMAIN Ladders, NEW s \in MathStyles, NEW target \in Int
  PROVE  LET b == SizedBox(d, s, target) IN
         /\ Whole(b) /\ HoldsWidth(b) /\ b.slots = 1 /\ Len(b.children) = 1
         /\ Answered(b, {Asks("BODY", d, s, target)})
<1> DEFINE node == DelimiterNode(d, s, target, "BODY", 0)
           b == SizedBox(d, s, target)
<1>1. Delimited(node, d, s, target, "BODY", 0)  BY DelimiterFormed DEF Roles
<1>2. b = Box(node.width, Larger(node.y + node.ascent, 0), Larger(node.descent - node.y, 0), 1, <<node>>)
  BY DEF SizedBox
<1> HIDE DEF node
<1>3. /\ node \in NodeType /\ node.x = 0 /\ node.width \in Nat /\ node.y \in Int
      /\ node.ascent \in Int /\ node.descent \in Int
  BY <1>1, NodeFields DEF Delimited
<1> DEFINE up   == node.y + node.ascent
           down == node.descent - node.y
<1>4. up \in Int /\ down \in Int  BY <1>3
<1>5. /\ b.width = node.width /\ b.ascent = Larger(up, 0) /\ b.descent = Larger(down, 0)
      /\ b.slots = 1 /\ b.children = <<node>>
  BY <1>2 DEF Box
<1>6. up = node.y + node.ascent /\ down = node.descent - node.y  OBVIOUS
<1> HIDE DEF b, up, down
<1>7. b.ascent \in Nat /\ b.descent \in Nat /\ b.ascent >= up /\ b.descent >= down
  BY <1>4, <1>5 DEF Larger
<1>8. Members(b.children) = {node} /\ Ordered(b.children) /\ Len(b.children) = 1
  BY <1>5, OneMember
<1>9. Formed(b)  BY <1>3, <1>5, <1>7 DEF Formed, Extents
<1>10. HoldsInk(b)
  <2>1. Top(node) <= b.ascent /\ -Bottom(node) <= b.descent
    BY <1>3, <1>4, <1>6, <1>7 DEF Top, Bottom
  <2> QED  BY <1>8, <2>1 DEF HoldsInk
<1>11. HoldsWidth(b)  BY <1>3, <1>5, <1>8 DEF HoldsWidth, Right
<1>12. Answered(b, {Asks("BODY", d, s, target)})
  <2>1. Plays(b.children, node, "BODY")  BY <1>1, <1>8 DEF Plays, Delimited
  <2>2. Answers(node, Asks("BODY", d, s, target))
    BY <1>1, DelimitedAnswers
  <2>3. Asks("BODY", d, s, target).role = "BODY"  BY DEF Asks
  <2> QED  BY <2>1, <2>2, <2>3 DEF Answered
<1> QED  BY <1>5, <1>8, <1>9, <1>10, <1>11, <1>12 DEF Whole, b

(* The glyph of an accent: the first step that is wide enough, the widest. *)
AccentHeld(width, a, over, s) ==
  /\ a.wide =>
       LET widths == {a.main["TEXT"].width} \cup {a.steps[k].width : k \in DOMAIN a.steps} IN
       /\ width \in widths
       /\ \A w \in widths : IF width >= over THEN w < width => w < over ELSE w <= width
  /\ ~a.wide => width = a.main[StyleSize(s)].width

LEMMA AccentChosen ==
  ASSUME NEW a \in Accents, NEW over \in Nat, NEW s \in MathStyles
  PROVE  /\ AccentGlyph(a, over, s) \in Metric /\ AccentGlyph(a, over, s).descent <= 0
         /\ AccentHeld(AccentGlyph(a, over, s).width, a, over, s)
<1> DEFINE first == a.main["TEXT"]
           more  == a.steps
           steps == <<first>> \o more
           fit   == {k \in DOMAIN steps : steps[k].width >= over}
           m     == AccentGlyph(a, over, s)
           widths == {first.width} \cup {more[k].width : k \in DOMAIN more}
<1>1. a.wide \in BOOLEAN /\ more \in Seq(Metric) /\ \A z \in Sizes : a.main[z] \in Metric
  BY BoxesAssumption DEF Glyph
<1>2. first \in Metric /\ a.main[StyleSize(s)] \in Metric
  <2>1. "TEXT" \in Sizes  BY DEF Sizes
  <2> QED  BY <1>1, <2>1, Tables
<1>3. /\ \A j, k \in DOMAIN steps : j < k => steps[j].width <= steps[k].width
      /\ \A k \in DOMAIN steps : steps[k].descent <= 0
      /\ \A z \in Sizes : a.main[z].descent <= 0
  BY TablesAscend
<1>4. m = IF ~a.wide THEN a.main[StyleSize(s)]
          ELSE IF fit = {} THEN steps[Len(steps)] ELSE steps[FirstOf(fit)]
  BY DEF AccentGlyph
<1>5. CASE ~a.wide
  <2>1. m = a.main[StyleSize(s)]  BY <1>4, <1>5
  <2> HIDE DEF m
  <2>2. AccentHeld(m.width, a, over, s)  BY <1>5, <2>1 DEF AccentHeld
  <2>3. m.descent <= 0  BY <1>3, <2>1, Tables
  <2> QED  BY <1>2, <2>1, <2>2, <2>3 DEF m
<1>6. CASE a.wide
  <2> HIDE DEF first, more
  <2>1. /\ steps \in Seq(Metric) /\ Len(steps) = 1 + Len(more) /\ Len(more) \in Nat
        /\ DOMAIN steps = 1 .. Len(steps) /\ DOMAIN more = 1 .. Len(more)
        /\ steps[1] = first /\ \A k \in 1 .. Len(more) : steps[1 + k] = more[k]
    BY <1>1, <1>2
  <2> HIDE DEF steps
  <2>2. \A k \in DOMAIN steps : steps[k] \in Metric /\ steps[k].width \in Nat
    <3>1. \A k \in DOMAIN steps : steps[k] \in Metric  BY <2>1
    <3> QED  BY <3>1, MetricFields
  <2>3. widths = {steps[k].width : k \in DOMAIN steps}
    <3>1. ASSUME NEW k \in DOMAIN steps PROVE steps[k].width \in widths
      <4>1. CASE k = 1  BY <2>1, <4>1
      <4>2. CASE k # 1
        <5>1. k - 1 \in 1 .. Len(more) /\ 1 + (k - 1) = k  BY <2>1, <4>2
        <5>2. steps[k] = more[k - 1]  BY <2>1, <5>1
        <5> QED  BY <2>1, <5>1, <5>2
      <4> QED  BY <4>1, <4>2
    <3>2. first.width \in {steps[k].width : k \in DOMAIN steps}
      <4>1. 1 \in DOMAIN steps  BY <2>1
      <4> QED  BY <2>1, <4>1
    <3>3. ASSUME NEW k \in DOMAIN more PROVE more[k].width \in {steps[j].width : j \in DOMAIN steps}
      <4>1. 1 + k \in DOMAIN steps /\ steps[1 + k] = more[k]  BY <2>1
      <4> QED  BY <4>1
    <3> QED  BY <3>1, <3>2, <3>3
  <2> HIDE DEF widths
  <2>4. fit \subseteq DOMAIN steps /\ \A k \in DOMAIN steps : k \in fit <=> steps[k].width >= over
    OBVIOUS
  <2> HIDE DEF fit
  <2>5. PICK p \in DOMAIN steps :
          /\ m = steps[p]
          /\ \A k \in DOMAIN steps :
               IF steps[p].width >= over THEN steps[k].width < steps[p].width => steps[k].width < over
               ELSE steps[k].width <= steps[p].width
    <3>1. CASE fit = {}
      <4> DEFINE p == Len(steps)
      <4>1. p \in DOMAIN steps /\ m = steps[p]  BY <1>4, <1>6, <2>1, <3>1
      <4>2. ~(steps[p].width >= over)  BY <2>4, <3>1, <4>1
      <4>3. ASSUME NEW k \in DOMAIN steps PROVE steps[k].width <= steps[p].width
        <5>1. k <= p /\ k \in Int /\ p \in Int  BY <2>1
        <5>2. CASE k = p  BY <2>2, <5>2
        <5>3. CASE k < p  BY <1>3, <4>1, <5>3
        <5> QED  BY <5>1, <5>2, <5>3
      <4> QED  BY <4>1, <4>2, <4>3
    <3>2. CASE fit # {}
      <4> DEFINE p == FirstOf(fit)
      <4>1. p \in fit /\ \A j \in fit : p <= j
        <5>1. fit \subseteq Nat  BY <2>1, <2>4
        <5> QED  BY <3>2, <5>1, LeastOf
      <4>2. m = steps[p]  BY <1>4, <1>6, <3>2
      <4>3. p \in DOMAIN steps /\ steps[p].width >= over  BY <2>4, <4>1
      <4> HIDE DEF p
      <4>4. ASSUME NEW k \in DOMAIN steps, steps[k].width < steps[p].width
            PROVE  steps[k].width < over
        <5> SUFFICES ASSUME steps[k].width >= over PROVE FALSE  BY <2>2
        <5>1. k \in fit /\ p <= k /\ k \in Int /\ p \in Int  BY <2>1, <2>4, <4>1, <4>3
        <5>2. k # p  BY <2>2, <4>4
        <5>3. steps[p].width <= steps[k].width  BY <1>3, <4>3, <5>1, <5>2
        <5> QED  BY <2>2, <4>3, <4>4, <5>3
      <4> QED  BY <4>2, <4>3, <4>4
    <3> QED  BY <3>1, <3>2
  <2> HIDE DEF m
  <2>6. m \in Metric /\ m.descent <= 0  BY <1>3, <2>2, <2>5
  <2>7. /\ m.width \in widths
        /\ \A w \in widths : IF m.width >= over THEN w < m.width => w < over ELSE w <= m.width
    BY <2>3, <2>5
  <2>8. AccentHeld(m.width, a, over, s)  BY <1>6, <2>7 DEF AccentHeld, widths, first, more
  <2> QED  BY <2>6, <2>8 DEF m
<1> QED  BY <1>1, <1>5, <1>6

AccentKept(b, a, s) ==
  \E accent, nucleus :
    /\ Plays(b.children, accent, "ACCENT") /\ Plays(b.children, nucleus, "NUCLEUS")
    /\ accent.y >= nucleus.ascent - P("xHeight", s) /\ accent.y >= 0
    /\ AccentHeld(accent.width, a, nucleus.width, s)

LEMMA AccentWhole ==
  ASSUME NEW nucleus, Extents(nucleus), NEW skew \in Int, NEW a \in Accents, NEW s \in MathStyles
  PROVE  LET b == AccentBox(nucleus, skew, a, s) IN
         Whole(b) /\ b.slots = 2 /\ Len(b.children) = 2 /\ AccentKept(b, a, s)
<1> DEFINE m      == AccentGlyph(a, nucleus.width, s)
           glyph  == GlyphNode(m, "ACCENT", 0)
           height == P("xHeight", s)
           x      == skew + Half(nucleus.width - glyph.width)
           y      == Larger(nucleus.ascent - height, 0)
           placed == At(glyph, x, y)
           child  == Child(nucleus, "NUCLEUS", 1, 0, 0)
           b      == AccentBox(nucleus, skew, a, s)
<1>1. /\ nucleus.width \in Nat /\ nucleus.ascent \in Int /\ nucleus.descent \in Int
      /\ nucleus.ascent + nucleus.descent >= 0
  BY DEF Extents
<1>2. b = Box(nucleus.width, Larger(nucleus.ascent, placed.y + placed.ascent), nucleus.descent, 2,
              <<placed, child>>)
  BY DEF AccentBox
<1>3. m \in Metric /\ m.descent <= 0 /\ AccentHeld(m.width, a, nucleus.width, s)
  <2> DEFINE over == nucleus.width
  <2>1. over \in Nat  BY <1>1
  <2> HIDE DEF over
  <2>2. /\ AccentGlyph(a, over, s) \in Metric /\ AccentGlyph(a, over, s).descent <= 0
        /\ AccentHeld(AccentGlyph(a, over, s).width, a, over, s)
    BY <2>1, AccentChosen
  <2> QED  BY <2>2 DEF over
<1> HIDE DEF m
<1>4. /\ glyph \in NodeType /\ glyph.kind = "GLYPH" /\ glyph.role = "ACCENT" /\ glyph.src = 0
      /\ glyph.width = m.width /\ glyph.ascent = m.ascent /\ glyph.descent = m.descent
  BY <1>3, GlyphFormed DEF Roles
<1>5. m.width \in Nat /\ m.ascent \in Int /\ m.descent \in Int /\ m.ascent + m.descent >= 0
  BY <1>3 DEF Metric
<1>6. height \in Nat  BY Tables DEF Parameters
<1>7. x \in Int
  <2>1. nucleus.width - glyph.width \in Int  BY <1>1, <1>4, <1>5
  <2> QED  BY <2>1, Halves
<1>8. y \in Int /\ y >= nucleus.ascent - height /\ y >= 0
  <2>1. nucleus.ascent - height \in Int  BY <1>1, <1>6
  <2> QED  BY <2>1, LargerOf
<1>9. /\ child \in NodeType /\ child.role = "NUCLEUS" /\ child.src = 1 /\ child.y = 0
      /\ child.width = nucleus.width /\ child.ascent = nucleus.ascent
      /\ child.descent = nucleus.descent
  BY ChildFormed DEF Roles
<1> HIDE DEF glyph, x, y, child
<1>10. /\ placed \in NodeType /\ placed.role = "ACCENT" /\ placed.src = 0 /\ placed.y = y
       /\ placed.width = m.width /\ placed.ascent = m.ascent /\ placed.descent = m.descent
  <2>1. /\ placed \in NodeType /\ placed.y = y /\ placed.role = glyph.role
        /\ placed.src = glyph.src /\ placed.width = glyph.width
        /\ placed.ascent = glyph.ascent /\ placed.descent = glyph.descent
    <3>1. glyph \in NodeType /\ x \in Int /\ y \in Int  BY <1>4, <1>7, <1>8
    <3>2. placed = At(glyph, x, y)  OBVIOUS
    <3> HIDE DEF placed
    <3> QED  BY ONLY <3>1, <3>2, AtPlaced, SMTT(30)
  <2>2. /\ glyph.role = "ACCENT" /\ glyph.src = 0 /\ glyph.width = m.width
        /\ glyph.ascent = m.ascent /\ glyph.descent = m.descent
    BY <1>4
  <2> HIDE DEF placed
  <2> QED  BY ONLY <2>1, <2>2, Zenon
<1>11. /\ b.width = nucleus.width /\ b.ascent = Larger(nucleus.ascent, placed.y + placed.ascent)
       /\ b.descent = nucleus.descent /\ b.slots = 2 /\ b.children = <<placed, child>>
  BY <1>2 DEF Box
<1> HIDE DEF placed, b
<1>12. /\ b.ascent \in Int /\ b.ascent >= nucleus.ascent /\ b.ascent >= y + m.ascent
  <2>1. placed.y + placed.ascent \in Int /\ placed.y + placed.ascent = y + m.ascent
    BY <1>5, <1>8, <1>10
  <2> DEFINE top == placed.y + placed.ascent
             up  == nucleus.ascent
  <2>2. top \in Int /\ up \in Int /\ b.ascent = Larger(up, top)  BY <1>1, <1>11, <2>1
  <2>3. top = y + m.ascent /\ up = nucleus.ascent  BY <2>1
  <2> HIDE DEF top, up
  <2> QED  BY <2>2, <2>3, LargerOf
<1>13. Members(b.children) = {placed, child} /\ Ordered(b.children) /\ Len(b.children) = 2
       /\ b.children \in Seq(NodeType)
  BY <1>9, <1>10, <1>11, Pair
<1>14. Formed(b)  BY <1>1, <1>11, <1>12, <1>13 DEF Formed, Extents
<1>15. HoldsInk(b)
  <2>1. Top(placed) <= b.ascent /\ Bottom(placed) >= 0
    BY <1>3, <1>5, <1>8, <1>10, <1>12 DEF Top, Bottom
  <2>2. Top(child) <= b.ascent /\ -Bottom(child) <= b.descent
    BY <1>1, <1>9, <1>11, <1>12 DEF Top, Bottom
  <2> QED  BY <1>10, <1>13, <2>1, <2>2 DEF HoldsInk
<1>16. AccentKept(b, a, s)
  <2>1. Plays(b.children, placed, "ACCENT") /\ Plays(b.children, child, "NUCLEUS")
    BY <1>9, <1>10, <1>13 DEF Plays
  <2>2. /\ placed.y >= child.ascent - P("xHeight", s) /\ placed.y >= 0
        /\ AccentHeld(placed.width, a, child.width, s)
    BY <1>3, <1>8, <1>9, <1>10, <1>11
  <2> QED  BY <2>1, <2>2 DEF AccentKept
<1> QED  BY <1>11, <1>13, <1>14, <1>15, <1>16 DEF Whole, b

-----------------------------------------------------------------------------
(***************************************************************************)
(* Fractions.                                                              *)
(***************************************************************************)
(* The shifts of a fraction with a bar keep both clearances.               *)
LEMMA BarClear ==
  ASSUME NEW depth \in Int, NEW height \in Int, NEW s \in MathStyles,
         NEW up \in Int, NEW down \in Int
  PROVE  \E u, d \in Int :
           /\ BarShifts(depth, height, s, up, down) = [up |-> u, down |-> d]
           /\ u - depth - (P("axis", s) + Half(P("rule", s)))
                >= (IF s < Text THEN 3 ELSE 1) * P("rule", s)
           /\ P("axis", s) + Half(P("rule", s)) - P("rule", s) - (height - d)
                >= (IF s < Text THEN 3 ELSE 1) * P("rule", s)
<1> DEFINE rule  == P("rule", s)
           axis  == P("axis", s)
           half  == Half(rule)
           clear == (IF s < Text THEN 3 ELSE 1) * rule
           u     == up + Larger(clear - ((up - depth) - (axis + half)), 0)
           d     == down + Larger(clear - ((axis - half) - (height - down)), 0)
<1>1. rule \in Nat /\ axis \in Nat  BY Tables DEF Parameters
<1>2. half \in Int /\ (2 * half = rule \/ 2 * half = rule + 1)  BY <1>1, Halves
<1>3. clear \in Int  BY <1>1
<1>4. BarShifts(depth, height, s, up, down) = [up |-> u, down |-> d]  BY DEF BarShifts
<1> HIDE DEF rule, axis, half, clear
<1>5. /\ u \in Int /\ d \in Int
      /\ u - depth - (axis + half) >= clear
      /\ axis + half - rule - (height - d) >= clear
  BY <1>1, <1>2, <1>3 DEF Larger
<1> HIDE DEF u, d
<1> QED  BY <1>4, <1>5 DEF rule, axis, half, clear

(* Without one they keep the clearance between them.                       *)
LEMMA BinomialClear ==
  ASSUME NEW depth \in Int, NEW height \in Int, NEW s \in MathStyles,
         NEW up \in Int, NEW down \in Int
  PROVE  \E u, d \in Int :
           /\ BinomialShifts(depth, height, s, up, down) = [up |-> u, down |-> d]
           /\ (u - depth) - (height - d) >= (IF s < Text THEN 7 ELSE 3) * P("rule", s)
<1> DEFINE clear == (IF s < Text THEN 7 ELSE 3) * P("rule", s)
           gap   == (up - depth) - (height - down)
           push  == Larger(Half(clear - gap), 0)
<1>1. clear \in Int  BY Tables DEF Parameters
<1>2. BinomialShifts(depth, height, s, up, down) = [up |-> up + push, down |-> down + push]
  BY DEF BinomialShifts
<1> HIDE DEF clear
<1>3. Half(clear - gap) \in Int /\ 2 * Half(clear - gap) >= clear - gap  BY <1>1, Halves
<1>4. push \in Int /\ 2 * push >= clear - gap  BY <1>1, <1>3 DEF Larger
<1> HIDE DEF push
<1>5. /\ up + push \in Int /\ down + push \in Int
      /\ ((up + push) - depth) - (height - (down + push)) >= clear
  BY <1>1, <1>4 DEF gap
<1> QED  BY <1>2, <1>5 DEF clear

LEMMA LargestOne ==
  ASSUME NEW a \in Int
  PROVE  Largest({a}) = a
  BY DEF Largest

LEMMA LargestThree ==
  ASSUME NEW a \in Int, NEW b \in Int, NEW c \in Int, NEW S, S = {a, b, c}
  PROVE  Largest(S) \in Int /\ Largest(S) >= a /\ Largest(S) >= b /\ Largest(S) >= c
<1> DEFINE m == IF a >= b /\ a >= c THEN a ELSE IF b >= c THEN b ELSE c
<1>1. m \in {a, b, c} /\ \A k \in {a, b, c} : k <= m  OBVIOUS
<1>2. Largest(S) \in S /\ \A k \in S : k <= Largest(S)
  BY <1>1 DEF Largest
<1> QED  BY <1>2

LEMMA Quadruple ==
  ASSUME NEW a \in NodeType, NEW b \in NodeType, NEW c \in NodeType, NEW d \in NodeType
  PROVE  /\ <<a, b, c, d>> \in Seq(NodeType) /\ Len(<<a, b, c, d>>) = 4
         /\ Members(<<a, b, c, d>>) = {a, b, c, d}
<1>1. DOMAIN <<a, b, c, d>> = {1, 2, 3, 4}  OBVIOUS
<1>2. <<a, b, c, d>> \in Seq(NodeType) /\ Len(<<a, b, c, d>>) = 4  OBVIOUS
<1> QED  BY <1>1, <1>2 DEF Members

LEMMA Quintuple ==
  ASSUME NEW a \in NodeType, NEW b \in NodeType, NEW c \in NodeType, NEW d \in NodeType,
         NEW e \in NodeType
  PROVE  /\ <<a, b, c, d, e>> \in Seq(NodeType) /\ Len(<<a, b, c, d, e>>) = 5
         /\ Members(<<a, b, c, d, e>>) = {a, b, c, d, e}
<1>1. DOMAIN <<a, b, c, d, e>> = {1, 2, 3, 4, 5}  OBVIOUS
<1>2. <<a, b, c, d, e>> \in Seq(NodeType) /\ Len(<<a, b, c, d, e>>) = 5  OBVIOUS
<1> QED  BY <1>1, <1>2 DEF Members

(* The parts of a fraction are centred over its bar.                       *)
LEMMA CentredPart ==
  ASSUME NEW width \in Int, NEW wide \in Int, width <= wide, NEW x \in Int
  PROVE  LET at == x + Half(wide - width) IN
         /\ at \in Int
         /\ x <= at /\ at + width <= x + wide
         /\ Apart(at - x, (x + wide) - (at + width)) <= 1
<1>1. wide - width \in Int /\ wide - width >= 0  OBVIOUS
<1>2. PICK half \in Int : /\ half = Half(wide - width)
                          /\ 2 * half = wide - width \/ 2 * half = wide - width + 1
  BY <1>1, Halves
<1>3. half >= 0 /\ half <= wide - width  BY <1>1, <1>2
<1> QED  BY <1>1, <1>2, <1>3 DEF Apart

BarParts(bar, top, bottom, s) ==
  /\ LET clear == IF s < Text THEN 3 * P("rule", s) ELSE P("rule", s) IN
     Bottom(top) - Top(bar) >= clear /\ Bottom(bar) - Top(bottom) >= clear
  /\ Apart(Top(bar) + Bottom(bar), 2 * P("axis", s)) <= 1
  /\ \A n \in {top, bottom} :
       /\ bar.x <= n.x /\ Right(n) <= Right(bar)
       /\ Apart(n.x - bar.x, Right(bar) - Right(n)) <= 1

BarKept(b, s) ==
  \E bar, top, bottom :
    /\ Plays(b.children, bar, "RULE") /\ Plays(b.children, top, "NUM")
    /\ Plays(b.children, bottom, "DEN")
    /\ BarParts(bar, top, bottom, s)

LEMMA BarredFraction ==
  ASSUME NEW num, Extents(num), NEW den, Extents(den), NEW s \in MathStyles
  PROVE  LET b == FractionBox(num, den, s, FALSE) IN
         /\ Whole(b) /\ HoldsWidth(b) /\ b.slots = 5 /\ Len(b.children) = 5
         /\ BarKept(b, s)
<1> DEFINE rule  == P("rule", s)
           axis  == P("axis", s)
           clear == (IF s < Text THEN 3 ELSE 1) * rule
           wide  == Larger(num.width, den.width)
           lead  == NullDelimiterSpace
           edge  == Kern("RIGHT", 3, NullDelimiterSpace)
           left  == Kern("LEFT", 0, NullDelimiterSpace)
           base  == Node("RULE", "RULE", 0, wide, rule, 0)
           bar   == At(base, left.width, axis + Half(rule) - rule)
           b     == FractionBox(num, den, s, FALSE)
<1>1. rule \in Nat /\ axis \in Nat /\ lead \in Nat /\ clear \in Int
  <2>1. rule \in Nat /\ axis \in Nat  BY Tables DEF Parameters
  <2>2. lead \in Nat  BY BoxesAssumption
  <2> QED  BY <2>1, <2>2
<1>2. Half(rule) \in Int /\ (2 * Half(rule) = rule \/ 2 * Half(rule) = rule + 1)  BY <1>1, Halves
<1>3. /\ num.width \in Nat /\ den.width \in Nat /\ num.ascent \in Int /\ num.descent \in Int
      /\ den.ascent \in Int /\ den.descent \in Int
      /\ num.ascent + num.descent >= 0 /\ den.ascent + den.descent >= 0
  BY DEF Extents
<1>4. wide \in Nat /\ num.width <= wide /\ den.width <= wide
  <2>1. num.width \in Int /\ den.width \in Int  BY <1>3
  <2>2. wide \in Int /\ num.width <= wide /\ den.width <= wide  BY <2>1, LargerOf
  <2> QED  BY <1>3, <2>2
<1>5. \E u, d \in Int :
        /\ Shifts(num, den, s, FALSE) = [up |-> u, down |-> d]
        /\ u - num.descent - (axis + Half(rule)) >= clear
        /\ axis + Half(rule) - rule - (den.ascent - d) >= clear
  <2>1. /\ P(IF s < Text THEN "num1" ELSE "num2", s) \in Int
        /\ P(IF s < Text THEN "denom1" ELSE "denom2", s) \in Int
    BY Tables DEF Parameters
  <2> DEFINE up   == P(IF s < Text THEN "num1" ELSE "num2", s)
             down == P(IF s < Text THEN "denom1" ELSE "denom2", s)
  <2>2. Shifts(num, den, s, FALSE) = BarShifts(num.descent, den.ascent, s, up, down)  BY DEF Shifts
  <2>3. up \in Int /\ down \in Int  BY <2>1
  <2> DEFINE depth  == num.descent
             height == den.ascent
  <2>4. depth \in Int /\ height \in Int  BY <1>3
  <2>5. Shifts(num, den, s, FALSE) = BarShifts(depth, height, s, up, down)  BY <2>2
  <2> HIDE DEF up, down, depth, height
  <2>6. \E u, d \in Int :
          /\ BarShifts(depth, height, s, up, down) = [up |-> u, down |-> d]
          /\ u - depth - (axis + Half(rule)) >= clear
          /\ axis + Half(rule) - rule - (height - d) >= clear
    BY <2>3, <2>4, BarClear
  <2> QED  BY <2>5, <2>6 DEF depth, height
<1>6. PICK u \in Int, d \in Int :
        /\ Shifts(num, den, s, FALSE) = [up |-> u, down |-> d]
        /\ u - num.descent - (axis + Half(rule)) >= clear
        /\ axis + Half(rule) - rule - (den.ascent - d) >= clear
  BY <1>5
<1> DEFINE top    == Child(num, "NUM", 1, lead + Half(wide - num.width), u)
           bottom == Child(den, "DEN", 2, lead + Half(wide - den.width), -d)
           right  == [edge EXCEPT !.x = left.width + wide]
<1>7. left.width = lead /\ left.role = "LEFT" /\ right.role = "RIGHT"
  BY DEF Kern, Node
<1>8. /\ b.children = <<left, bar, top, bottom, right>> /\ b.slots = 5
      /\ b.width = left.width + wide + right.width
      /\ b.ascent = Largest({u + num.ascent}) /\ b.descent = Largest({d + den.descent})
  <2> DEFINE shift == Shifts(num, den, s, FALSE)
  <2>1. b = DrawFraction(num, den, s, FALSE, shift, left, edge)  BY DEF FractionBox
  <2>2. shift = [up |-> u, down |-> d]  BY <1>6
  <2> HIDE DEF shift
  <2>3. shift.up = u /\ shift.down = d  BY <2>2
  <2> DEFINE upper == Largest({shift.up + num.ascent} \cup {n.y + n.ascent : n \in {}})
             lower == Largest({shift.down + den.descent} \cup {n.descent - n.y : n \in {}})
             across == left.width + wide + right.width
             nodes == <<left, bar, Child(num, "NUM", 1, left.width + Half(wide - num.width), shift.up),
                        Child(den, "DEN", 2, left.width + Half(wide - den.width), -shift.down), right>>
  <2>6. b = Box(across, upper, lower, 5, nodes)  BY <2>1 DEF DrawFraction
  <2>7. upper = Largest({shift.up + num.ascent} \cup {n.y + n.ascent : n \in {}})
        /\ lower = Largest({shift.down + den.descent} \cup {n.descent - n.y : n \in {}})
        /\ across = left.width + wide + right.width
        /\ nodes = <<left, bar, Child(num, "NUM", 1, left.width + Half(wide - num.width), shift.up),
                     Child(den, "DEN", 2, left.width + Half(wide - den.width), -shift.down), right>>
    OBVIOUS
  <2> HIDE DEF upper, lower, across, nodes, b
  <2>4. /\ b.children = nodes /\ b.slots = 5 /\ b.width = across /\ b.ascent = upper
        /\ b.descent = lower
    BY <2>6 DEF Box
  <2>5. /\ {shift.up + num.ascent} \cup {n.y + n.ascent : n \in {}} = {u + num.ascent}
        /\ {shift.down + den.descent} \cup {n.descent - n.y : n \in {}} = {d + den.descent}
    BY <2>3
  <2> QED  BY <1>7, <2>3, <2>4, <2>5, <2>7
<1> HIDE DEF b
<1>20. b.ascent = u + num.ascent /\ b.descent = d + den.descent
  <2>1. u + num.ascent \in Int /\ d + den.descent \in Int  BY <1>3
  <2> QED  BY <1>8, <2>1, LargestOne
<1>21. /\ left \in NodeType /\ left.kind = "KERN" /\ left.src = 0 /\ left.x = 0
  <2>1. "LEFT" \in Roles /\ lead \in Int  BY <1>1 DEF Roles
  <2>2. left = Kern("LEFT", 0, lead)  OBVIOUS
  <2> HIDE DEF lead, left
  <2> QED  BY <2>1, <2>2, KernFormed
<1>22. /\ right \in NodeType /\ right.kind = "KERN" /\ right.src = 3 /\ right.width = lead
  <2>1. edge \in NodeType /\ edge.kind = "KERN" /\ edge.src = 3 /\ edge.width = lead
    <3>1. "RIGHT" \in Roles /\ lead \in Int  BY <1>1 DEF Roles
    <3>2. edge = Kern("RIGHT", 3, lead)  OBVIOUS
    <3> HIDE DEF lead, edge
    <3> QED  BY <3>1, <3>2, KernFormed
  <2>2. left.width + wide \in Int  BY <1>1, <1>4, <1>7
  <2> DEFINE x == left.width + wide
  <2>3. right = [edge EXCEPT !.x = x] /\ x \in Int  BY <2>2
  <2> HIDE DEF edge, left, x, right
  <2> QED  BY <2>1, <2>3, MovedFormed DEF NodeType, NodeOf
<1>9. /\ bar \in NodeType /\ bar.kind = "RULE" /\ bar.src = 0
      /\ bar.role = "RULE" /\ bar.x = lead /\ bar.width = wide
      /\ bar.y = axis + Half(rule) - rule /\ bar.ascent = rule /\ bar.descent = 0
  <2>1. base \in NodeType  BY <1>1, <1>4, NodeFormed DEF Kinds, Roles
  <2>2. /\ base.kind = "RULE" /\ base.role = "RULE" /\ base.src = 0 /\ base.width = wide
        /\ base.ascent = rule /\ base.descent = 0
    BY DEF Node
  <2> DEFINE x == left.width
             y == axis + Half(rule) - rule
  <2>3. x \in Int /\ y \in Int  BY <1>1, <1>2, <1>7
  <2>4. x = lead /\ bar = At(base, x, y)  BY <1>7
  <2> HIDE DEF base, x, bar
  <2>5. y = axis + Half(rule) - rule  OBVIOUS
  <2> HIDE DEF y
  <2>6. /\ bar \in NodeType /\ bar.x = x /\ bar.y = y /\ bar.kind = base.kind /\ bar.role = base.role
        /\ bar.src = base.src /\ bar.width = base.width /\ bar.ascent = base.ascent
        /\ bar.descent = base.descent
    BY <2>1, <2>3, <2>4, AtFormed
  <2> QED  BY <2>2, <2>4, <2>5, <2>6
<1>10. /\ top \in NodeType /\ top.src = 1
       /\ top.role = "NUM" /\ top.x = lead + Half(wide - num.width) /\ top.y = u
       /\ top.width = num.width /\ top.descent = num.descent /\ top.ascent = num.ascent
  <2> DEFINE x == lead + Half(wide - num.width)
             y == u
  <2>1. x \in Int /\ y \in Int  BY <1>1, <1>3, <1>4, Halves
  <2>2. x = lead + Half(wide - num.width) /\ top = Child(num, "NUM", 1, x, y) /\ y = u  OBVIOUS
  <2>3. "NUM" \in Roles  BY DEF Roles
  <2> HIDE DEF x, y, top
  <2>4. /\ top \in NodeType /\ top.src = 1 /\ top.role = "NUM" /\ top.x = x /\ top.y = y
        /\ top.width = num.width /\ top.descent = num.descent /\ top.ascent = num.ascent
    BY <2>1, <2>2, <2>3, ChildFormed
  <2> QED  BY <2>2, <2>4
<1>11. /\ bottom \in NodeType /\ bottom.src = 2
       /\ bottom.role = "DEN" /\ bottom.x = lead + Half(wide - den.width) /\ bottom.y = -d
       /\ bottom.width = den.width /\ bottom.descent = den.descent /\ bottom.ascent = den.ascent
  <2> DEFINE x == lead + Half(wide - den.width)
             y == -d
  <2>1. x \in Int /\ y \in Int  BY <1>1, <1>3, <1>4, Halves
  <2>2. x = lead + Half(wide - den.width) /\ bottom = Child(den, "DEN", 2, x, y) /\ y = -d  OBVIOUS
  <2>3. "DEN" \in Roles  BY DEF Roles
  <2> HIDE DEF x, y, bottom
  <2>4. /\ bottom \in NodeType /\ bottom.src = 2 /\ bottom.role = "DEN" /\ bottom.x = x
        /\ bottom.y = y /\ bottom.width = den.width /\ bottom.descent = den.descent
        /\ bottom.ascent = den.ascent
    BY <2>1, <2>2, <2>3, ChildFormed, SMTT(30)
  <2> QED  BY <2>2, <2>4
<1> HIDE DEF left, bar, top, bottom, right, wide, rule, axis, lead
<1>23. /\ Members(b.children) = {left, bar, top, bottom, right} /\ Len(b.children) = 5
       /\ b.children \in Seq(NodeType)
  BY <1>8, <1>9, <1>10, <1>11, <1>21, <1>22, Quintuple
<1>24. Ordered(b.children)
  <2> SUFFICES ASSUME NEW k \in 1 .. Len(b.children) - 1
               PROVE  b.children[k].src <= b.children[k + 1].src
    BY DEF Ordered
  <2>1. k = 1 \/ k = 2 \/ k = 3 \/ k = 4  BY <1>23
  <2>2. /\ b.children[1] = left /\ b.children[2] = bar /\ b.children[3] = top
        /\ b.children[4] = bottom /\ b.children[5] = right
    BY <1>8
  <2> QED  BY <1>9, <1>10, <1>11, <1>21, <1>22, <2>1, <2>2
<1>12. /\ Bottom(top) - Top(bar) >= clear /\ Bottom(bar) - Top(bottom) >= clear
       /\ Apart(Top(bar) + Bottom(bar), 2 * axis) <= 1
  BY <1>1, <1>2, <1>3, <1>6, <1>9, <1>10, <1>11 DEF Bottom, Top, Apart
<1>13. /\ bar.x <= top.x /\ Right(top) <= Right(bar)
       /\ Apart(top.x - bar.x, Right(bar) - Right(top)) <= 1
  BY <1>1, <1>3, <1>4, <1>9, <1>10, CentredPart DEF Right
<1>14. /\ bar.x <= bottom.x /\ Right(bottom) <= Right(bar)
       /\ Apart(bottom.x - bar.x, Right(bar) - Right(bottom)) <= 1
  BY <1>1, <1>3, <1>4, <1>9, <1>11, CentredPart DEF Right
<1>15. clear = (IF s < Text THEN 3 * rule ELSE rule)  BY <1>1
<1>16. BarParts(bar, top, bottom, s)
  <2>1. clear = (IF s < Text THEN 3 * P("rule", s) ELSE P("rule", s))  BY <1>15 DEF rule
  <2>2. 2 * axis = 2 * P("axis", s)  BY DEF axis
  <2> HIDE DEF clear
  <2> QED  BY <1>12, <1>13, <1>14, <2>1, <2>2 DEF BarParts
<1>17. Formed(b)
  <2>1. b.width \in Nat  BY <1>1, <1>4, <1>7, <1>8, <1>22
  <2>2. b.ascent \in Int /\ b.descent \in Int /\ b.ascent + b.descent >= 0
    BY <1>1, <1>2, <1>3, <1>6, <1>15, <1>20
  <2> QED  BY <1>23, <2>1, <2>2 DEF Formed, Extents
<1>25. clear >= 0  BY <1>1, <1>15
<1> HIDE DEF clear
<1>18. HoldsInk(b)
  <2>1. Top(bar) <= b.ascent /\ -Bottom(bar) <= b.descent
    BY <1>1, <1>2, <1>3, <1>6, <1>9, <1>20, <1>25 DEF Top, Bottom
  <2>2. Top(top) <= b.ascent /\ -Bottom(top) <= b.descent
    BY <1>1, <1>2, <1>3, <1>6, <1>10, <1>20, <1>25 DEF Top, Bottom
  <2>3. Top(bottom) <= b.ascent /\ -Bottom(bottom) <= b.descent
    BY <1>1, <1>2, <1>3, <1>6, <1>11, <1>20, <1>25 DEF Top, Bottom
  <2> QED  BY <1>21, <1>22, <1>23, <2>1, <2>2, <2>3 DEF HoldsInk
<1>19. HoldsWidth(b)
  <2>1. b.width = lead + wide + lead  BY <1>7, <1>8, <1>22
  <2>2. Right(bar) = lead + wide /\ Right(bar) <= b.width  BY <1>1, <1>4, <1>9, <2>1 DEF Right
  <2>3. Right(top) <= b.width
    <3>1. Right(top) \in Int  BY <1>1, <1>3, <1>4, <1>10, Halves DEF Right
    <3> QED  BY <1>1, <1>4, <1>13, <2>1, <2>2, <3>1
  <2>4. Right(bottom) <= b.width
    <3>1. Right(bottom) \in Int  BY <1>1, <1>3, <1>4, <1>11, Halves DEF Right
    <3> QED  BY <1>1, <1>4, <1>14, <2>1, <2>2, <3>1
  <2> QED  BY <1>21, <1>22, <1>23, <2>2, <2>3, <2>4 DEF HoldsWidth
<1>26. BarKept(b, s)
  <2>1. left.role = "LEFT" /\ right.role = "RIGHT"  BY <1>7
  <2>2. /\ Plays(b.children, bar, "RULE") /\ Plays(b.children, top, "NUM")
        /\ Plays(b.children, bottom, "DEN")
    BY <1>9, <1>10, <1>11, <1>23, <2>1 DEF Plays
  <2> QED  BY <1>16, <2>2 DEF BarKept
<1> QED  BY <1>8, <1>17, <1>18, <1>19, <1>23, <1>24, <1>26 DEF Whole, b

(* A binomial keeps the clearance between its parts, and its delimiters    *)
(* answer what it asked of them.                                           *)
BinomialKept(b, s) ==
  \E top, bottom :
    /\ Plays(b.children, top, "NUM") /\ Plays(b.children, bottom, "DEN")
    /\ \A n \in Members(b.children) : n.role # "RULE"
    /\ Bottom(top) - Top(bottom) >= (IF s < Text THEN 7 ELSE 3) * P("rule", s)

ParenAsks(s) ==
  {Asks("LEFT", Parens[1], s, BinomialTarget(s)), Asks("RIGHT", Parens[2], s, BinomialTarget(s))}

LEMMA ParenLadders == Parens[1] \in DOMAIN Ladders /\ Parens[2] \in DOMAIN Ladders
  BY BoxesAssumption

(* Two fences answer, when they are the only ones.                         *)
LEMMA FencesAnswer ==
  ASSUME NEW b, NEW left, NEW right, NEW l, NEW r, NEW s, NEW target,
         Answers(left, Asks("LEFT", l, s, target)), Answers(right, Asks("RIGHT", r, s, target)),
         Plays(b.children, left, "LEFT"), Plays(b.children, right, "RIGHT")
  PROVE  Answered(b, {Asks("LEFT", l, s, target), Asks("RIGHT", r, s, target)})
<1>1. /\ Asks("LEFT", l, s, target).role = "LEFT" /\ Asks("RIGHT", r, s, target).role = "RIGHT"
  BY DEF Asks
<1> QED  BY <1>1 DEF Answered

LEMMA BinomialFraction ==
  ASSUME NEW num, Extents(num), NEW den, Extents(den), NEW s \in MathStyles
  PROVE  LET b == FractionBox(num, den, s, TRUE) IN
         /\ Whole(b) /\ HoldsWidth(b) /\ b.slots = 4 /\ Len(b.children) = 4
         /\ BinomialKept(b, s) /\ Answered(b, ParenAsks(s))
<1> DEFINE clear  == (IF s < Text THEN 7 ELSE 3) * P("rule", s)
           wide   == Larger(num.width, den.width)
           target == BinomialTarget(s)
           left   == DelimiterNode(Parens[1], s, target, "LEFT", 0)
           edge   == DelimiterNode(Parens[2], s, target, "RIGHT", 0)
           lead   == left.width
           right  == [edge EXCEPT !.x = lead + wide]
           b      == FractionBox(num, den, s, TRUE)
<1>1. /\ num.width \in Nat /\ den.width \in Nat /\ num.ascent \in Int /\ num.descent \in Int
      /\ den.ascent \in Int /\ den.descent \in Int
      /\ num.ascent + num.descent >= 0 /\ den.ascent + den.descent >= 0
  BY DEF Extents
<1>2. \E u, d \in Int :
        /\ Shifts(num, den, s, TRUE) = [up |-> u, down |-> d]
        /\ (u - num.descent) - (den.ascent - d) >= clear
  <2> DEFINE up   == P(IF s < Text THEN "num1" ELSE "num3", s)
             down == P(IF s < Text THEN "denom1" ELSE "denom2", s)
             depth  == num.descent
             height == den.ascent
  <2>1. up \in Int /\ down \in Int  BY Tables DEF Parameters
  <2>2. depth \in Int /\ height \in Int  BY <1>1
  <2>3. Shifts(num, den, s, TRUE) = BinomialShifts(depth, height, s, up, down)  BY DEF Shifts
  <2> HIDE DEF up, down, depth, height
  <2>4. \E u, d \in Int :
          /\ BinomialShifts(depth, height, s, up, down) = [up |-> u, down |-> d]
          /\ (u - depth) - (height - d) >= clear
    BY <2>1, <2>2, BinomialClear
  <2> QED  BY <2>3, <2>4 DEF depth, height
<1>3. PICK u \in Int, d \in Int :
        /\ Shifts(num, den, s, TRUE) = [up |-> u, down |-> d]
        /\ (u - num.descent) - (den.ascent - d) >= clear
  BY <1>2
<1>4. wide \in Nat /\ num.width <= wide /\ den.width <= wide
  <2>1. num.width \in Int /\ den.width \in Int  BY <1>1
  <2>2. wide \in Int /\ num.width <= wide /\ den.width <= wide  BY <2>1, LargerOf
  <2> QED  BY <1>1, <2>2
<1>5. target \in Int  BY Tables DEF Parameters, BinomialTarget
<1>6. clear >= 0 /\ clear \in Int
  <2>1. P("rule", s) \in Nat  BY Tables
  <2> QED  BY <2>1
<1> DEFINE top    == Child(num, "NUM", 1, lead + Half(wide - num.width), u)
           bottom == Child(den, "DEN", 2, lead + Half(wide - den.width), -d)
<1>7. /\ b.children = <<left, right, top, bottom>> /\ b.slots = 4
      /\ b.width = lead + wide + right.width
      /\ b.ascent = Largest({u + num.ascent, left.y + left.ascent, right.y + right.ascent})
      /\ b.descent = Largest({d + den.descent, left.descent - left.y, right.descent - right.y})
  <2> DEFINE shift == Shifts(num, den, s, TRUE)
  <2>1. b = DrawFraction(num, den, s, TRUE, shift, left, edge)  BY DEF FractionBox
  <2>2. shift = [up |-> u, down |-> d]  BY <1>3
  <2> HIDE DEF shift
  <2>3. shift.up = u /\ shift.down = d  BY <2>2
  <2> HIDE DEF left, edge
  <2> DEFINE ups   == {shift.up + num.ascent} \cup {n.y + n.ascent : n \in {left, right}}
             downs == {shift.down + den.descent} \cup {n.descent - n.y : n \in {left, right}}
             upper == Largest(ups)
             lower == Largest(downs)
             across == lead + wide + right.width
             nodes == <<left, right, Child(num, "NUM", 1, lead + Half(wide - num.width), shift.up),
                        Child(den, "DEN", 2, lead + Half(wide - den.width), -shift.down)>>
  <2>4. b = Box(across, upper, lower, 4, nodes)  BY <2>1 DEF DrawFraction
  <2>5. /\ ups = {u + num.ascent, left.y + left.ascent, right.y + right.ascent}
        /\ downs = {d + den.descent, left.descent - left.y, right.descent - right.y}
    <3> HIDE DEF right
    <3> QED  BY <2>3
  <2>6. nodes = <<left, right, top, bottom>>  BY <2>3
  <2>7. upper = Largest(ups) /\ lower = Largest(downs) /\ across = lead + wide + right.width
    OBVIOUS
  <2> HIDE DEF upper, lower, across, nodes, b, ups, downs
  <2>8. /\ b.children = nodes /\ b.slots = 4 /\ b.width = across /\ b.ascent = upper
        /\ b.descent = lower
    BY <2>4 DEF Box
  <2> QED  BY <2>5, <2>6, <2>7, <2>8
<1> HIDE DEF b
<1>8. /\ Delimited(left, Parens[1], s, target, "LEFT", 0)
      /\ Delimited(edge, Parens[2], s, target, "RIGHT", 0)
  <2>1. "LEFT" \in Roles /\ "RIGHT" \in Roles  BY DEF Roles
  <2> HIDE DEF target
  <2> QED  BY <1>5, <2>1, ParenLadders, DelimiterFormed
<1>9. /\ left \in NodeType /\ left.role = "LEFT" /\ left.src = 0 /\ left.x = 0 /\ left.width \in Nat
      /\ left.y \in Int /\ left.ascent \in Int /\ left.descent \in Int
      /\ Answers(left, Asks("LEFT", Parens[1], s, target))
  <2> HIDE DEF left, target
  <2>1. /\ left \in NodeType /\ left.role = "LEFT" /\ left.src = 0 /\ left.x = 0 /\ left.width \in Nat
    BY <1>8 DEF Delimited
  <2>2. Answers(left, Asks("LEFT", Parens[1], s, target))  BY <1>8, DelimitedAnswers
  <2> QED  BY <2>1, <2>2, NodeFields
<1>10. /\ right \in NodeType /\ right.role = "RIGHT" /\ right.src = 0 /\ right.x = lead + wide
       /\ right.width \in Nat /\ right.y \in Int /\ right.ascent \in Int /\ right.descent \in Int
       /\ Answers(right, Asks("RIGHT", Parens[2], s, target))
  <2> DEFINE x == lead + wide
  <2> HIDE DEF left
  <2>1. x \in Int /\ x = lead + wide  BY <1>4, <1>9
  <2>3. edge.width \in Nat /\ edge \in NodeType  BY <1>8 DEF Delimited
  <2>2. right = At(edge, x, edge.y)
    <3> HIDE DEF edge
    <3> QED  BY <2>1, <2>3, MovedFormed
  <2> HIDE DEF x, edge, target, right
  <2>4. /\ right \in NodeType /\ right.x = x /\ right.role = "RIGHT"
        /\ right.src = 0 /\ right.width = edge.width
        /\ Answers(right, Asks("RIGHT", Parens[2], s, target))
    BY <1>8, <2>1, <2>2, DelimitedMoved
  <2> QED  BY <2>1, <2>3, <2>4, NodeFields
<1> HIDE DEF left, right, edge
<1>11. /\ top \in NodeType /\ top.src = 1 /\ top.kind = "HBOX"
       /\ top.role = "NUM" /\ top.x = lead + Half(wide - num.width) /\ top.y = u
       /\ top.width = num.width /\ top.descent = num.descent /\ top.ascent = num.ascent
  <2> DEFINE x == lead + Half(wide - num.width)
             y == u
  <2>1. x \in Int /\ y \in Int  BY <1>1, <1>4, <1>9, Halves
  <2>2. x = lead + Half(wide - num.width) /\ top = Child(num, "NUM", 1, x, y) /\ y = u  OBVIOUS
  <2>3. "NUM" \in Roles  BY DEF Roles
  <2> HIDE DEF x, y, top
  <2>4. /\ top \in NodeType /\ top.src = 1 /\ top.role = "NUM" /\ top.x = x /\ top.y = y
        /\ top.width = num.width /\ top.descent = num.descent /\ top.ascent = num.ascent
        /\ top.kind = "HBOX"
    BY <2>1, <2>2, <2>3, ChildFormed
  <2> QED  BY <2>2, <2>4
<1>12. /\ bottom \in NodeType /\ bottom.src = 2 /\ bottom.kind = "HBOX"
       /\ bottom.role = "DEN" /\ bottom.x = lead + Half(wide - den.width) /\ bottom.y = -d
       /\ bottom.width = den.width /\ bottom.descent = den.descent /\ bottom.ascent = den.ascent
  <2> DEFINE x == lead + Half(wide - den.width)
             y == -d
  <2>1. x \in Int /\ y \in Int  BY <1>1, <1>4, <1>9, Halves
  <2>2. x = lead + Half(wide - den.width) /\ bottom = Child(den, "DEN", 2, x, y) /\ y = -d  OBVIOUS
  <2>3. "DEN" \in Roles  BY DEF Roles
  <2> HIDE DEF x, y, bottom
  <2>4. /\ bottom \in NodeType /\ bottom.src = 2 /\ bottom.role = "DEN" /\ bottom.x = x
        /\ bottom.y = y /\ bottom.width = den.width /\ bottom.descent = den.descent
        /\ bottom.ascent = den.ascent /\ bottom.kind = "HBOX"
    BY <2>1, <2>2, <2>3, ChildFormed
  <2> QED  BY <2>2, <2>4
<1>13. lead \in Nat /\ lead = left.width  BY <1>9
<1>14. clear = (IF s < Text THEN 7 ELSE 3) * P("rule", s)
       /\ ParenAsks(s) = {Asks("LEFT", Parens[1], s, target), Asks("RIGHT", Parens[2], s, target)}
  BY DEF ParenAsks
<1> HIDE DEF top, bottom, wide, lead, clear, target
<1>15. /\ Members(b.children) = {left, right, top, bottom} /\ Len(b.children) = 4
       /\ b.children \in Seq(NodeType)
  BY <1>7, <1>9, <1>10, <1>11, <1>12, Quadruple
<1>16. Ordered(b.children)
  <2> SUFFICES ASSUME NEW k \in 1 .. Len(b.children) - 1
               PROVE  b.children[k].src <= b.children[k + 1].src
    BY DEF Ordered
  <2>1. k = 1 \/ k = 2 \/ k = 3  BY <1>15
  <2>2. /\ b.children[1] = left /\ b.children[2] = right /\ b.children[3] = top
        /\ b.children[4] = bottom
    BY <1>7
  <2> QED  BY <1>9, <1>10, <1>11, <1>12, <2>1, <2>2
<1>17. /\ b.ascent \in Int /\ b.ascent >= u + num.ascent
       /\ b.ascent >= Top(left) /\ b.ascent >= Top(right)
  <2>1. u + num.ascent \in Int /\ Top(left) \in Int /\ Top(right) \in Int
    BY <1>1, <1>9, <1>10 DEF Top
  <2> DEFINE a == u + num.ascent
             p == Top(left)
             q == Top(right)
  <2>2. b.ascent = Largest({a, p, q})  BY <1>7 DEF Top
  <2>3. a \in Int /\ p \in Int /\ q \in Int  BY <2>1
  <2>4. a = u + num.ascent /\ p = Top(left) /\ q = Top(right)  OBVIOUS
  <2> HIDE DEF a, p, q
  <2>5. b.ascent \in Int /\ b.ascent >= a /\ b.ascent >= p /\ b.ascent >= q
    <3> DEFINE S == {a, p, q}
    <3>1. S = {a, p, q} /\ b.ascent = Largest(S)  BY <2>2
    <3> HIDE DEF S
    <3> QED  BY <2>3, <3>1, LargestThree
  <2> QED  BY <2>4, <2>5
<1>18. /\ b.descent \in Int /\ b.descent >= d + den.descent
       /\ b.descent >= -Bottom(left) /\ b.descent >= -Bottom(right)
  <2>1. d + den.descent \in Int /\ -Bottom(left) \in Int /\ -Bottom(right) \in Int
    BY <1>1, <1>9, <1>10 DEF Bottom
  <2>2. left.descent - left.y = -Bottom(left) /\ right.descent - right.y = -Bottom(right)
    BY <1>9, <1>10 DEF Bottom
  <2> DEFINE a == d + den.descent
             p == -Bottom(left)
             q == -Bottom(right)
  <2>3. b.descent = Largest({a, p, q})  BY <1>7, <2>2
  <2>4. a \in Int /\ p \in Int /\ q \in Int  BY <2>1
  <2>5. a = d + den.descent /\ p = -Bottom(left) /\ q = -Bottom(right)  OBVIOUS
  <2> HIDE DEF a, p, q
  <2>6. b.descent \in Int /\ b.descent >= a /\ b.descent >= p /\ b.descent >= q
    <3> DEFINE S == {a, p, q}
    <3>1. S = {a, p, q} /\ b.descent = Largest(S)  BY <2>3
    <3> HIDE DEF S
    <3>2. Largest(S) \in Int /\ Largest(S) >= a /\ Largest(S) >= p /\ Largest(S) >= q
      BY <2>4, <3>1, LargestThree
    <3> QED  BY <3>1, <3>2
  <2> QED  BY <2>5, <2>6
<1>19. Formed(b)
  <2>1. b.width \in Nat  BY <1>4, <1>7, <1>10, <1>13
  <2>2. b.ascent + b.descent >= 0  BY <1>1, <1>3, <1>6, <1>17, <1>18
  <2> QED  BY <1>15, <1>17, <1>18, <2>1, <2>2 DEF Formed, Extents
<1>20. HoldsInk(b)
  <2>1. Top(top) <= b.ascent /\ -Bottom(top) <= b.descent
    BY <1>1, <1>3, <1>6, <1>11, <1>17, <1>18 DEF Top, Bottom
  <2>2. Top(bottom) <= b.ascent /\ -Bottom(bottom) <= b.descent
    BY <1>1, <1>3, <1>6, <1>12, <1>17, <1>18 DEF Top, Bottom
  <2> QED  BY <1>15, <1>17, <1>18, <2>1, <2>2 DEF HoldsInk
<1>21. HoldsWidth(b)
  <2>1. Right(left) <= b.width  BY <1>4, <1>7, <1>9, <1>10, <1>13 DEF Right
  <2>2. Right(right) <= b.width  BY <1>4, <1>7, <1>10, <1>13 DEF Right
  <2>3. Half(wide - num.width) + num.width <= wide /\ Half(wide - den.width) + den.width <= wide
        /\ Half(wide - num.width) \in Int /\ Half(wide - den.width) \in Int
    <3> DEFINE p == wide - num.width
               q == wide - den.width
    <3>1. p \in Nat /\ q \in Nat /\ p = wide - num.width /\ q = wide - den.width  BY <1>1, <1>4
    <3> HIDE DEF p, q
    <3>2. Half(p) \in Int /\ (2 * Half(p) = p \/ 2 * Half(p) = p + 1)  BY <3>1, Halves
    <3>3. Half(q) \in Int /\ (2 * Half(q) = q \/ 2 * Half(q) = q + 1)  BY <3>1, Halves
    <3>4. Half(p) + num.width <= wide /\ Half(q) + den.width <= wide
      BY <1>1, <1>4, <3>1, <3>2, <3>3
    <3> QED  BY <3>1, <3>2, <3>3, <3>4
  <2>4. Right(top) <= b.width  BY <1>1, <1>4, <1>7, <1>10, <1>11, <1>13, <2>3 DEF Right
  <2>5. Right(bottom) <= b.width  BY <1>1, <1>4, <1>7, <1>10, <1>12, <1>13, <2>3 DEF Right
  <2> QED  BY <1>15, <2>1, <2>2, <2>4, <2>5 DEF HoldsWidth
<1>22. /\ Plays(b.children, left, "LEFT") /\ Plays(b.children, right, "RIGHT")
       /\ Plays(b.children, top, "NUM") /\ Plays(b.children, bottom, "DEN")
  BY <1>9, <1>10, <1>11, <1>12, <1>15 DEF Plays
<1>23. BinomialKept(b, s)
  <2>1. Bottom(top) - Top(bottom) >= clear
    <3>1. Bottom(top) = u - num.descent /\ Top(bottom) = -d + den.ascent
      BY <1>11, <1>12 DEF Bottom, Top
    <3> QED  BY <1>1, <1>3, <3>1
  <2>2. \A n \in Members(b.children) : n.role # "RULE"  BY <1>9, <1>10, <1>11, <1>12, <1>15
  <2> QED  BY <1>14, <1>22, <2>1, <2>2 DEF BinomialKept
<1>24. Answered(b, ParenAsks(s))  BY <1>9, <1>10, <1>14, <1>22, FencesAnswer
<1> QED  BY <1>7, <1>15, <1>16, <1>19, <1>20, <1>21, <1>23, <1>24 DEF Whole, b

-----------------------------------------------------------------------------
(***************************************************************************)
(* Lists, and what is fenced.                                              *)
(***************************************************************************)

(* A list of the atoms of a body, on the baseline and in its width.        *)
Listed(b) ==
  /\ Formed(b) /\ b.ascent >= 0 /\ b.descent >= 0
  /\ \A n \in Members(b.children) :
       /\ n.role = "BODY" /\ n.src = 1
       /\ n.kind # "KERN" =>
            Top(n) <= b.ascent /\ -Bottom(n) <= b.descent /\ Right(n) <= b.width

LEMMA OneListed ==
  ASSUME NEW nodes \in Seq(NodeType), NEW width \in Nat,
         \A n \in Members(nodes) : /\ n.role = "BODY" /\ n.src = 1
                                   /\ n.kind # "KERN" => Right(n) <= width
  PROVE  Listed(HList(nodes, width))
<1> DEFINE b == HList(nodes, width)
<1>1. /\ Formed(b) /\ b.children = nodes /\ b.width = width /\ b.ascent >= 0 /\ b.descent >= 0
      /\ \A n \in Ink(nodes) : Top(n) <= b.ascent /\ -Bottom(n) <= b.descent
  BY ListFormed
<1> HIDE DEF b
<1>2. Listed(b)  BY <1>1, InkOf DEF Listed
<1> QED  BY <1>2 DEF b

LEMMA MlistListed ==
  ASSUME NEW b, Extents(b), NEW class, NEW tail \in Tails, NEW s \in MathStyles
  PROVE  Listed(Mlist(b, class, tail, s))
<1> DEFINE body == Child(b, "BODY", 1, 0, 0)
           w    == b.width
<1>1. w \in Nat /\ w = b.width  BY DEF Extents
<1>2. /\ body \in NodeType /\ body.role = "BODY" /\ body.src = 1 /\ body.x = 0 /\ body.width = w
  BY ChildFormed DEF Roles
<1>3. body.kind # "KERN" => Right(body) = w  BY <1>1, <1>2 DEF Right
<1>4. CASE tail = << >>
  <2>1. Mlist(b, class, tail, s) = HList(<<body>>, w)  BY <1>4 DEF Mlist
  <2> HIDE DEF body, w
  <2>2. <<body>> \in Seq(NodeType) /\ Members(<<body>>) = {body}  BY <1>2, OneMember
  <2> DEFINE nodes == <<body>>
  <2>3. nodes \in Seq(NodeType) /\ Members(nodes) = {body}  BY <2>2
  <2>4. Mlist(b, class, tail, s) = HList(nodes, w)  BY <2>1
  <2> HIDE DEF nodes
  <2>5. \A n \in Members(nodes) : n.role = "BODY" /\ n.src = 1 /\ (n.kind # "KERN" => Right(n) <= w)
    BY <1>1, <1>2, <1>3, <2>3
  <2> QED  BY <1>1, <2>3, <2>4, <2>5, OneListed
<1>5. CASE tail # << >>
  <2>1. PICK g \in Glyphs : \E c : tail = <<[class |-> c, glyph |-> g]>>  BY <1>5 DEF Tails
  <2>2. PICK c : tail = <<[class |-> c, glyph |-> g]>>  BY <2>1
  <2> DEFINE gap   == InterAtomWidth(Spacing(class, c), s)
             width == IF gap = "NONE" THEN 0 ELSE P(gap, s)
             space == IF gap = "NONE" THEN << >> ELSE <<At(Kern("BODY", 1, P(gap, s)), w, 0)>>
             m     == g[StyleSize(s)]
             last  == GlyphNode(m, "BODY", 1)
             after == w + width
             end   == At(last, after, 0)
             nodes == <<body>> \o space \o <<end>>
             total == after + last.width + last.italic
  <2>3. Mlist(b, class, tail, s) = HList(nodes, total)
    <3>1. tail[1].class = c /\ tail[1].glyph = g /\ tail # << >>  BY <2>2
    <3> QED  BY <3>1 DEF Mlist
  <2>4. width \in Nat
    <3>1. gap # "NONE" => P(gap, s) \in Nat  BY GapMeasured
    <3> QED  BY <3>1
  <2>5. m \in Metric  BY GlyphTable
  <2>6. last \in NodeType /\ last.width \in Nat /\ last.italic \in Nat /\ last.src = 1
        /\ last.role = "BODY"
    <3>1. "BODY" \in Roles  BY DEF Roles
    <3> HIDE DEF m
    <3>2. /\ last \in NodeType /\ last.width = m.width /\ last.italic = m.italic /\ last.src = 1
          /\ last.role = "BODY"
      BY <2>5, <3>1, GlyphFormed
    <3> QED  BY <2>5, <3>2, MetricFields
  <2>7. after \in Nat /\ after >= w  BY <1>1, <2>4
  <2>8. /\ space \in Seq(NodeType)
        /\ \A n \in Members(space) : n.role = "BODY" /\ n.src = 1 /\ n.kind = "KERN"
    <3>1. CASE gap = "NONE"
      <4>1. space = << >>  BY <3>1
      <4> QED  BY <4>1, NoMember
    <3>2. CASE gap # "NONE"
      <4> DEFINE p == P(gap, s)
                 kern == Kern("BODY", 1, p)
                 set == At(kern, w, 0)
      <4>1. p \in Int  BY <3>2, GapMeasured
      <4>2. w \in Int  BY <1>1
      <4>3. kern \in NodeType /\ kern.src = 1 /\ kern.role = "BODY" /\ kern.kind = "KERN"
        <5> HIDE DEF p
        <5>1. "BODY" \in Roles  BY DEF Roles
        <5> QED  BY <4>1, <5>1, KernFormed
      <4>4. space = <<set>>  BY <3>2
      <4> HIDE DEF kern, w, p, set, space
      <4>5. set \in NodeType /\ set.src = 1 /\ set.role = "BODY" /\ set.kind = "KERN"
        BY <4>2, <4>3, AtFormed DEF set
      <4>6. <<set>> \in Seq(NodeType) /\ Members(<<set>>) = {set}  BY <4>5, OneMember
      <4> QED  BY <4>4, <4>5, <4>6
    <3> QED  BY <3>1, <3>2
  <2>9. end \in NodeType /\ end.src = 1 /\ end.role = "BODY" /\ end.x = after
        /\ end.width = last.width
    <3> HIDE DEF last, after
    <3> QED  BY <2>6, <2>7, AtFormed
  <2>10. total \in Nat /\ total >= w /\ total >= Right(end)
    BY <1>1, <2>6, <2>7, <2>9 DEF Right
  <2> HIDE DEF last, after, width, body, space, end, total, w
  <2>11. <<body>> \in Seq(NodeType) /\ <<end>> \in Seq(NodeType)
         /\ Members(<<body>>) = {body} /\ Members(<<end>>) = {end}
    BY <1>2, <2>9, OneMember
  <2>12. /\ nodes \in Seq(NodeType)
         /\ Members(nodes) = {body} \cup Members(space) \cup {end}
    <3> DEFINE one == <<body>>
               two == one \o space
               three == <<end>>
    <3>1. one \in Seq(NodeType) /\ Members(one) = {body} /\ three \in Seq(NodeType)
          /\ Members(three) = {end} /\ nodes = two \o three /\ two = one \o space
      BY <2>11
    <3> HIDE DEF one, two, three, nodes
    <3>2. two \in Seq(NodeType) /\ Members(two) = {body} \cup Members(space)
      BY <2>8, <3>1, Joined
    <3> QED  BY <3>1, <3>2, Joined
  <2> HIDE DEF nodes
  <2>13. \A n \in Members(nodes) :
           n.role = "BODY" /\ n.src = 1 /\ (n.kind # "KERN" => Right(n) <= total)
    <3> TAKE n \in Members(nodes)
    <3>1. CASE n = body
      <4>1. Right(n) = w  BY <1>1, <1>2, <3>1 DEF Right
      <4> QED  BY <1>2, <2>10, <3>1, <4>1
    <3>2. CASE n \in Members(space)  BY <2>8, <3>2
    <3>3. CASE n = end  BY <2>9, <2>10, <3>3
    <3> QED  BY <2>12, <3>1, <3>2, <3>3
  <2>14. Listed(HList(nodes, total))  BY <2>10, <2>12, <2>13, OneListed
  <2> QED  BY <2>3, <2>14
<1> QED  BY <1>4, <1>5

LEMMA GroupFormed ==
  ASSUME NEW b, Extents(b), NEW class, NEW s \in MathStyles
  PROVE  Formed(Mlist(b, class, << >>, s))
<1>1. << >> \in Tails  BY DEF Tails
<1> QED  BY <1>1, MlistListed DEF Listed

LEMMA ArgumentExtents ==
  ASSUME Formed(box), style \in MathStyles
  PROVE  Extents(Argument)
<1>1. Extents(box)  BY DEF Formed
<1>2. CASE made.by = "LIMITS"  BY <1>1, <1>2, GroupFormed DEF Argument, Formed
<1>3. CASE made.by # "LIMITS"  BY <1>3, CleanFormed DEF Argument
<1> QED  BY <1>2, <1>3

(* What stands between fences reaches no further than they were asked for. *)
Covered(b, s, asks) ==
  \E reach \in Int :
    /\ reach >= P("axis", s)
    /\ \A n \in Members(b.children) : n.kind # "KERN" /\ n.role \notin {"LEFT", "RIGHT"} =>
         Top(n) - P("axis", s) <= reach /\ P("axis", s) - Bottom(n) <= reach
    /\ \A a \in asks :
         a.target = DelimiterTarget(reach) /\ a.style = s /\ a.role \in {"LEFT", "RIGHT"}

FenceAsks(l, r, s, target) == {Asks("LEFT", l, s, target), Asks("RIGHT", r, s, target)}

LEMMA TargetTyped ==
  ASSUME NEW reach \in Int
  PROVE  DelimiterTarget(reach) \in Int
<1> DEFINE q == reach \div 500
<1>1. q \in Int /\ DelimiterShortfall \in Nat  BY BoxesAssumption
<1>2. DelimiterTarget(reach) = Larger(q * 901, 2 * reach - DelimiterShortfall)
  BY DEF DelimiterTarget
<1> HIDE DEF q
<1> QED  BY <1>1, <1>2 DEF Larger

LEMMA ReachHeld ==
  ASSUME NEW up \in Int, NEW down \in Int, NEW s \in MathStyles
  PROVE  LET reach == Larger(up - P("axis", s), down + P("axis", s)) IN
         /\ reach \in Int /\ up - P("axis", s) <= reach /\ down + P("axis", s) <= reach
         /\ P("axis", s) \in Nat
<1>1. P("axis", s) \in Nat  BY Tables DEF Parameters
<1> DEFINE a == up - P("axis", s)
           c == down + P("axis", s)
<1>2. a \in Int /\ c \in Int  BY <1>1
<1> HIDE DEF a, c
<1>3. Larger(a, c) \in Int /\ Larger(a, c) >= a /\ Larger(a, c) >= c  BY <1>2, LargerOf
<1> QED  BY <1>1, <1>2, <1>3 DEF a, c

(* A list whose nodes have all been moved sideways.                        *)
Sideways(c, dx) == [k \in DOMAIN c |-> [c[k] EXCEPT !.x = @ + dx]]

LEMMA Shifted ==
  ASSUME NEW c \in Seq(NodeType), NEW dx \in Int, NEW body, body = Sideways(c, dx)
  PROVE  /\ body \in Seq(NodeType) /\ Len(body) = Len(c)
         /\ \A n \in Members(body) : \E q \in Members(c) : n = At(q, q.x + dx, q.y)
<1>1. \A n \in NodeType : [n EXCEPT !.x = @ + dx] = At(n, n.x + dx, n.y)
  BY DEF NodeType, NodeOf, At
<1>2. \A k \in DOMAIN c : c[k] \in NodeType /\ c[k].x \in Int /\ c[k].y \in Int
  BY NodeFields
<1>3. \A k \in DOMAIN c : body[k] = At(c[k], c[k].x + dx, c[k].y)  BY <1>1, <1>2 DEF Sideways
<1>4. \A k \in DOMAIN c : body[k] \in NodeType
  <2> TAKE k \in DOMAIN c
  <2> DEFINE n == c[k]
             x == n.x + dx
             y == n.y
  <2>1. n \in NodeType /\ x \in Int /\ y \in Int  BY <1>2
  <2>2. body[k] = At(n, x, y)  BY <1>3
  <2> HIDE DEF n, x, y
  <2>3. At(n, x, y) \in NodeType  BY <2>1, AtFormed
  <2> QED  BY <2>2, <2>3
<1>5. DOMAIN body = DOMAIN c /\ DOMAIN c = 1 .. Len(c) /\ Len(c) \in Nat  BY DEF Sideways
<1>6. body = [k \in 1 .. Len(c) |-> body[k]]  BY <1>5 DEF Sideways
<1>7. body \in Seq(NodeType) /\ Len(body) = Len(c)  BY <1>4, <1>5, <1>6
<1>8. ASSUME NEW n \in Members(body) PROVE \E q \in Members(c) : n = At(q, q.x + dx, q.y)
  <2>1. PICK k \in DOMAIN c : n = body[k]  BY <1>5 DEF Members
  <2>2. c[k] \in Members(c)  BY DEF Members
  <2> QED  BY <1>3, <2>1, <2>2
<1> QED  BY <1>7, <1>8

(* A node moved aside keeps its ink.                                       *)
LEMMA MovedAside ==
  ASSUME NEW q \in NodeType, NEW d \in Int, NEW n, n = At(q, q.x + d, q.y)
  PROVE  /\ n \in NodeType /\ n.role = q.role /\ n.src = q.src /\ n.kind = q.kind
         /\ Top(n) = Top(q) /\ Bottom(n) = Bottom(q) /\ Right(n) = Right(q) + d
<1> DEFINE x == q.x + d
           y == q.y
<1>1. q.x \in Int /\ q.y \in Int /\ q.width \in Int  BY NodeFields
<1>2. x \in Int /\ y \in Int /\ x = q.x + d /\ y = q.y  BY <1>1
<1>3. q \in NodeType /\ n = At(q, x, y)  OBVIOUS
<1> HIDE DEF x, y
<1>4. /\ n \in NodeType /\ n.role = q.role /\ n.src = q.src /\ n.kind = q.kind /\ n.y = y
      /\ n.x = x /\ n.width = q.width /\ n.ascent = q.ascent /\ n.descent = q.descent
  BY ONLY <1>2, <1>3, AtPlaced, SMTT(30)
<1> QED  BY <1>1, <1>2, <1>4 DEF Top, Bottom, Right

LEMMA FencedWhole ==
  ASSUME NEW left, NEW edge, NEW l, NEW r, NEW s \in MathStyles, NEW target,
         Delimited(left, l, s, target, "LEFT", 0), Delimited(edge, r, s, target, "RIGHT", 2),
         NEW inner, Listed(inner), NEW space \in Nat
  PROVE  LET b == DrawFenced(left, edge, inner, space) IN
         /\ Whole(b) /\ HoldsWidth(b) /\ b.slots = Len(b.children)
         /\ Answered(b, FenceAsks(l, r, s, target))
         /\ \A n \in Members(b.children) : n.kind # "KERN" /\ n.role \notin {"LEFT", "RIGHT"} =>
              Top(n) <= inner.ascent /\ -Bottom(n) <= inner.descent
<1> DEFINE lead  == left.width
           body  == [k \in DOMAIN inner.children |-> [inner.children[k] EXCEPT !.x = @ + lead]]
           after == lead + inner.width
           kern  == Kern("CLOSE", 1, space)
           close == IF space = 0 THEN << >> ELSE <<At(kern, after, 0)>>
           x     == after + space
           right == [edge EXCEPT !.x = x]
           width == x + edge.width
           one   == <<left>>
           four  == <<right>>
           two   == one \o body
           three == two \o close
           nodes == three \o four
           list  == HList(nodes, width)
           b     == DrawFenced(left, edge, inner, space)
<1>1. /\ left \in NodeType /\ left.role = "LEFT" /\ left.src = 0 /\ left.x = 0 /\ lead \in Nat
  BY DEF Delimited
<1>2. edge \in NodeType /\ edge.width \in Nat /\ edge.y \in Int  BY NodeFields DEF Delimited
<1>3. inner.width \in Nat /\ inner.children \in Seq(NodeType)  BY DEF Listed, Formed, Extents
<1>4. after \in Nat /\ x \in Nat /\ width \in Nat /\ after >= lead + inner.width /\ x >= after
      /\ width = x + edge.width
  <2> DEFINE w == inner.width
             v == edge.width
  <2>1. w \in Nat /\ v \in Nat /\ lead \in Nat /\ after = lead + w /\ x = after + space /\ width = x + v
    BY <1>1, <1>2, <1>3
  <2> HIDE DEF w, v, lead, after, x, width
  <2>2. after \in Nat /\ x \in Nat /\ width \in Nat /\ after >= lead + w /\ x >= after /\ width = x + v
    BY <2>1
  <2> QED  BY <2>2 DEF w, v
<1>5. b = [list EXCEPT !.slots = 2 + Len(inner.children) + (IF space = 0 THEN 0 ELSE 1)]
  BY DEF DrawFenced
<1>6. /\ body \in Seq(NodeType) /\ Len(body) = Len(inner.children)
      /\ \A n \in Members(body) : \E q \in Members(inner.children) : n = At(q, q.x + lead, q.y)
  <2> DEFINE c == inner.children
  <2>1. c \in Seq(NodeType) /\ lead \in Int  BY <1>1, <1>3
  <2>2. body = Sideways(c, lead)  BY DEF Sideways
  <2> HIDE DEF c, lead, body
  <2>3. /\ body \in Seq(NodeType) /\ Len(body) = Len(c)
        /\ \A n \in Members(body) : \E q \in Members(c) : n = At(q, q.x + lead, q.y)
    BY <2>1, <2>2, Shifted
  <2> QED  BY <2>3 DEF c
<1>7. \A n \in Members(body) :
        /\ n \in NodeType /\ n.role = "BODY" /\ n.src = 1
        /\ n.kind # "KERN" =>
             Top(n) <= inner.ascent /\ -Bottom(n) <= inner.descent /\ Right(n) <= after
  <2> TAKE n \in Members(body)
  <2>1. PICK q \in Members(inner.children) : n = At(q, q.x + lead, q.y)  BY <1>6
  <2>2. q \in NodeType  BY <1>3, MembersTyped
  <2>3. /\ q.role = "BODY" /\ q.src = 1
        /\ q.kind # "KERN" =>
             Top(q) <= inner.ascent /\ -Bottom(q) <= inner.descent /\ Right(q) <= inner.width
    BY DEF Listed
  <2>4. q.x \in Int /\ q.y \in Int /\ q.width \in Int  BY <2>2, NodeFields
  <2>5. lead \in Int  BY <1>1
  <2> HIDE DEF lead, after, body
  <2>7. n \in NodeType /\ n.role = q.role /\ n.src = q.src /\ n.kind = q.kind
    BY <2>1, <2>2, <2>5, MovedAside
  <2>8. Top(n) = Top(q) /\ Bottom(n) = Bottom(q) /\ Right(n) = Right(q) + lead
    BY <2>1, <2>2, <2>5, MovedAside
  <2>9. Right(q) \in Int  BY <2>4 DEF Right
  <2> QED  BY <1>1, <1>3, <1>4, <2>3, <2>7, <2>8, <2>9
<1>8. /\ close \in Seq(NodeType) /\ Len(close) = (IF space = 0 THEN 0 ELSE 1)
      /\ \A n \in Members(close) : n \in NodeType /\ n.role = "CLOSE" /\ n.src = 1 /\ n.kind = "KERN"
      /\ Ordered(close)
  <2>1. CASE space = 0
    <3>1. close = << >>  BY <2>1
    <3> QED  BY <2>1, <3>1, NoMember
  <2>2. CASE space # 0
    <3> DEFINE set == At(kern, after, 0)
    <3>1. "CLOSE" \in Roles /\ space \in Int /\ after \in Int  BY <1>4 DEF Roles
    <3>2. kern \in NodeType /\ kern.kind = "KERN" /\ kern.role = "CLOSE" /\ kern.src = 1
      BY <3>1, KernFormed
    <3>3. close = <<set>>  BY <2>2
    <3> HIDE DEF kern, after, close
    <3>4. set \in NodeType /\ set.kind = "KERN" /\ set.role = "CLOSE" /\ set.src = 1
      BY <3>1, <3>2, AtFormed
    <3> HIDE DEF set
    <3>5. <<set>> \in Seq(NodeType)  BY <3>4
    <3> QED  BY <2>2, <3>3, <3>4, <3>5, OneMember
  <2> QED  BY <2>1, <2>2
<1>9. /\ right \in NodeType /\ right.role = "RIGHT" /\ right.src = 2 /\ right.x = x
      /\ right.width = edge.width /\ Answers(right, Asks("RIGHT", r, s, target))
  <2>1. x \in Int  BY <1>4
  <2> HIDE DEF x
  <2>2. right = At(edge, x, edge.y)  BY <1>2, <2>1, MovedFormed
  <2> HIDE DEF right
  <2> QED  BY <2>1, <2>2, DelimitedMoved
<1>10. Answers(left, Asks("LEFT", l, s, target))  BY DelimitedAnswers
<1> HIDE DEF right, body, close, after, x, lead, width, b
<1>11. /\ one \in Seq(NodeType) /\ Members(one) = {left} /\ Ordered(one) /\ Len(one) = 1
       /\ four \in Seq(NodeType) /\ Members(four) = {right} /\ Ordered(four) /\ Len(four) = 1
  BY <1>1, <1>9, OneMember
<1>12. Ordered(body)
  <2>1. DOMAIN body = 1 .. Len(body) /\ Len(body) \in Nat  BY <1>6
  <2>2. \A k \in 1 .. Len(body) : body[k].src = 1  BY <1>7, <2>1 DEF Members
  <2> SUFFICES ASSUME NEW k \in 1 .. Len(body) - 1 PROVE body[k].src <= body[k + 1].src
    BY DEF Ordered
  <2>3. k \in 1 .. Len(body) /\ k + 1 \in 1 .. Len(body)  BY <2>1
  <2> QED  BY <2>2, <2>3
<1> HIDE DEF one, four
<1>13. /\ two \in Seq(NodeType) /\ Len(two) = 1 + Len(body)
       /\ Members(two) = {left} \cup Members(body) /\ Ordered(two)
  <2>1. \A m \in Members(one), n \in Members(body) : m.src <= n.src  BY <1>1, <1>7, <1>11
  <2> QED  BY <1>6, <1>11, <1>12, <2>1, Joined, ZenonT(30)
<1> HIDE DEF two
<1>14. /\ three \in Seq(NodeType) /\ Len(three) = 1 + Len(body) + Len(close)
       /\ Members(three) = {left} \cup Members(body) \cup Members(close) /\ Ordered(three)
  <2>1. \A m \in Members(two), n \in Members(close) : m.src <= n.src  BY <1>1, <1>7, <1>8, <1>13
  <2> QED  BY <1>8, <1>13, <2>1, Joined
<1> HIDE DEF three
<1>15. /\ nodes \in Seq(NodeType) /\ Len(nodes) = 2 + Len(body) + Len(close)
       /\ Members(nodes) = {left, right} \cup Members(body) \cup Members(close) /\ Ordered(nodes)
  <2>1. \A m \in Members(three), n \in Members(four) : m.src <= n.src
    BY <1>1, <1>7, <1>8, <1>9, <1>11, <1>14
  <2>2. Len(body) \in Nat /\ Len(close) \in Nat  BY <1>6, <1>8
  <2>3. nodes \in Seq(NodeType) /\ Len(nodes) = Len(three) + 1 /\ Members(nodes) = Members(three) \cup {right}
    <3>1. nodes \in Seq(NodeType) /\ Len(nodes) = Len(three) + Len(four)
          /\ Members(nodes) = Members(three) \cup Members(four)
      BY <1>11, <1>14, Joined
    <3>2. Len(four) = 1 /\ Members(four) = {right}  BY <1>11
    <3> HIDE DEF nodes
    <3> QED  BY <3>1, <3>2
  <2>4. Ordered(nodes)  BY <1>11, <1>14, <2>1, Joined
  <2> QED  BY <1>14, <2>2, <2>3, <2>4
<1> HIDE DEF nodes
<1>16. /\ Whole(list) /\ list.children = nodes /\ list.width = width
  BY <1>4, <1>15, ListFormed, ListWhole
<1>17. /\ b.children = nodes /\ b.width = width /\ b.ascent = list.ascent
       /\ b.descent = list.descent /\ b.slots = Len(nodes)
  <2>1. list = [width |-> list.width, ascent |-> list.ascent, descent |-> list.descent,
                slots |-> list.slots, children |-> list.children]
    BY DEF HList, Box
  <2> HIDE DEF list
  <2>2. /\ b.children = list.children /\ b.width = list.width /\ b.ascent = list.ascent
        /\ b.descent = list.descent
        /\ b.slots = 2 + Len(inner.children) + (IF space = 0 THEN 0 ELSE 1)
    BY <1>5, <2>1
  <2>3. Len(nodes) = 2 + Len(inner.children) + (IF space = 0 THEN 0 ELSE 1)
    BY <1>6, <1>8, <1>15
  <2> QED  BY <1>16, <2>2, <2>3
<1> HIDE DEF list
<1>18. Whole(b)  BY <1>16, <1>17 DEF Whole, Formed, Extents, HoldsInk
<1>19. HoldsWidth(b)
  <2> SUFFICES ASSUME NEW n \in Members(nodes), n.kind # "KERN" PROVE Right(n) <= width
    BY <1>17 DEF HoldsWidth
  <2>1. CASE n = left
    <3>1. lead = left.width  BY DEF lead
    <3> QED  BY <1>1, <1>2, <1>3, <1>4, <2>1, <3>1 DEF Right
  <2>2. CASE n = right  BY <1>2, <1>4, <1>9, <2>2 DEF Right
  <2>3. CASE n \in Members(body)
    <3>1. n \in NodeType /\ Right(n) <= after  BY <1>7, <2>3
    <3>2. Right(n) \in Int  BY <3>1, NodeFields DEF Right
    <3> QED  BY <1>2, <1>4, <3>1, <3>2
  <2>4. CASE n \in Members(close)  BY <1>8, <2>4
  <2> QED  BY <1>15, <2>1, <2>2, <2>3, <2>4
<1>20. Answered(b, FenceAsks(l, r, s, target))
  <2>1. Plays(b.children, left, "LEFT") /\ Plays(b.children, right, "RIGHT")
    BY <1>1, <1>7, <1>8, <1>9, <1>15, <1>17 DEF Plays
  <2> QED  BY <1>9, <1>10, <2>1, FencesAnswer DEF FenceAsks
<1>21. \A n \in Members(b.children) : n.kind # "KERN" /\ n.role \notin {"LEFT", "RIGHT"} =>
         Top(n) <= inner.ascent /\ -Bottom(n) <= inner.descent
  BY <1>1, <1>7, <1>8, <1>9, <1>15, <1>17
<1> QED  BY <1>17, <1>18, <1>19, <1>20, <1>21 DEF b

LEMMA FencedKept ==
  ASSUME NEW l \in Delimiters, NEW r \in Delimiters, NEW inner, Listed(inner), NEW last,
         NEW s \in MathStyles
  PROVE  LET b == FencedBox(l, r, inner, last, s)
             asks == FenceAsks(l, r, s, DelimiterTarget(Reach(inner, s)))
         IN  /\ Whole(b) /\ HoldsWidth(b) /\ b.slots = Len(b.children)
             /\ Answered(b, asks) /\ Covered(b, s, asks)
<1> DEFINE reach  == Reach(inner, s)
           target == DelimiterTarget(reach)
           gap    == InterAtomWidth(Spacing(last, "CLOSE"), s)
           space  == IF gap = "NONE" THEN 0 ELSE P(gap, s)
           left   == DelimiterNode(l, s, target, "LEFT", 0)
           edge   == DelimiterNode(r, s, target, "RIGHT", 2)
           b      == FencedBox(l, r, inner, last, s)
           axis   == P("axis", s)
           asks   == FenceAsks(l, r, s, target)
<1>1. b = DrawFenced(left, edge, inner, space)  BY DEF FencedBox
<1>2. /\ inner.ascent \in Int /\ inner.descent \in Int /\ inner.descent >= 0
  BY DEF Listed, Formed, Extents
<1>3. /\ reach \in Int /\ axis \in Nat /\ inner.ascent - axis <= reach /\ inner.descent + axis <= reach
  <2> DEFINE up == inner.ascent
             down == inner.descent
  <2>1. up \in Int /\ down \in Int /\ reach = Larger(up - axis, down + axis)  BY <1>2 DEF Reach
  <2> HIDE DEF up, down, reach
  <2>2. /\ reach \in Int /\ axis \in Nat /\ up - axis <= reach /\ down + axis <= reach
    BY <2>1, ReachHeld
  <2> QED  BY <2>2 DEF up, down
<1>4. target \in Int  BY <1>3, TargetTyped
<1>5. space \in Nat
  <2>1. gap # "NONE" => P(gap, s) \in Nat  BY GapMeasured
  <2> QED  BY <2>1
<1>6. l \in DOMAIN Ladders /\ r \in DOMAIN Ladders  BY BoxesAssumption
<1>7. target = DelimiterTarget(reach)  OBVIOUS
<1> HIDE DEF target, reach, space
<1>8. /\ Delimited(left, l, s, target, "LEFT", 0) /\ Delimited(edge, r, s, target, "RIGHT", 2)
  <2>1. "LEFT" \in Roles /\ "RIGHT" \in Roles  BY DEF Roles
  <2> QED  BY <1>4, <1>6, <2>1, DelimiterFormed
<1> HIDE DEF left, edge, b
<1>9. /\ Whole(b) /\ HoldsWidth(b) /\ b.slots = Len(b.children)
      /\ Answered(b, asks)
      /\ \A n \in Members(b.children) : n.kind # "KERN" /\ n.role \notin {"LEFT", "RIGHT"} =>
           Top(n) <= inner.ascent /\ -Bottom(n) <= inner.descent
  BY <1>1, <1>5, <1>8, FencedWhole
<1>10. Covered(b, s, asks)
  <2>1. reach >= axis  BY <1>2, <1>3
  <2>2. ASSUME NEW n \in Members(b.children), n.kind # "KERN", n.role \notin {"LEFT", "RIGHT"}
        PROVE  Top(n) - axis <= reach /\ axis - Bottom(n) <= reach
    <3>1. Top(n) <= inner.ascent /\ -Bottom(n) <= inner.descent  BY <1>9, <2>2
    <3>2. n \in NodeType  BY <1>9, MembersTyped DEF Whole, Formed
    <3>3. Top(n) \in Int /\ Bottom(n) \in Int  BY <3>2, NodeFields DEF Top, Bottom
    <3> QED  BY <1>2, <1>3, <3>1, <3>3
  <2>3. \A a \in asks :
         a.target = DelimiterTarget(reach) /\ a.style = s /\ a.role \in {"LEFT", "RIGHT"}
    <3>1. \A role, name : /\ Asks(role, name, s, target).target = target
                          /\ Asks(role, name, s, target).style = s
                          /\ Asks(role, name, s, target).role = role
      BY DEF Asks
    <3> QED  BY <1>7, <3>1 DEF FenceAsks
  <2> HIDE DEF asks
  <2> QED  BY <1>3, <2>1, <2>2, <2>3 DEF Covered
<1> QED  BY <1>9, <1>10 DEF b, target, reach

-----------------------------------------------------------------------------
(***************************************************************************)
(* Scripts.                                                                *)
(***************************************************************************)
Absent(c, role) == \A q \in Members(c) : q.role # role

Single(c, role) == Absent(c, role) \/ \E n : Plays(c, n, role)

(* A script: a box with extents, or none.                                  *)
Optional(o) == o = << >> \/ \E b : o = <<b>> /\ Extents(b)

ScriptsKept(b, s) ==
  LET x == P("xHeight", s)
      c == b.children
  IN  /\ Single(c, "SUP") /\ Single(c, "SUB")
      /\ \A sup : Plays(c, sup, "SUP") => Bottom(sup) >= x \div 4
      /\ \A sub : Plays(c, sub, "SUB") /\ Absent(c, "SUP") => Top(sub) <= (4 * x) \div 5
      /\ \A sup, sub : Plays(c, sup, "SUP") /\ Plays(c, sub, "SUB") =>
           Bottom(sup) - Top(sub) >= 4 * P("rule", s) /\ sub.x <= sup.x

(* Two scripts stay four rule thicknesses apart, and moving them apart     *)
(* never lowers the superscript.                                           *)
LEMMA BothClear ==
  ASSUME NEW depth \in Int, NEW height \in Int, NEW s \in MathStyles,
         NEW up \in Int, NEW down \in Int
  PROVE  \E u, d \in Int :
           /\ BothShifts(up, down, depth, height, s) = [up |-> u, down |-> d]
           /\ u >= up
           /\ (u - depth) - (height - d) >= 4 * P("rule", s)
<1> DEFINE clear == 4 * P("rule", s)
           least == (4 * P("xHeight", s)) \div 5
           short == clear - ((up - depth) - (height - down))
           raise == Larger(least - (up - depth), 0)
           u == IF short > 0 THEN up + raise ELSE up
           d == IF short > 0 THEN down + short - raise ELSE down
<1>1. clear \in Int /\ least \in Int  BY Tables DEF Parameters
<1>2. BothShifts(up, down, depth, height, s) = [up |-> u, down |-> d]  BY DEF BothShifts
<1> HIDE DEF clear, least
<1>3. u \in Int /\ d \in Int /\ u >= up /\ (u - depth) - (height - d) >= clear
  BY <1>1 DEF Larger
<1> HIDE DEF u, d
<1> QED  BY <1>2, <1>3 DEF clear

(* What the shifts of one script, and of two, keep.                        *)
Lifted(u, depth, s) == u - depth >= P("xHeight", s) \div 4

LEMMA SupClear ==
  ASSUME NEW n, Nucleate(n), NEW b, Extents(b), NEW s \in MathStyles
  PROVE  SupShift(n, b, s) \in Int /\ Lifted(SupShift(n, b, s), b.descent, s)
<1> DEFINE least == CASE (s % 2) = 1 -> "sup3" [] (s % 2) = 0 /\ s < Text -> "sup1" [] OTHER -> "sup2"
           a == n.up
           p == P(least, s)
           q == P("xHeight", s) \div 4
           depth == b.descent
<1>1. SupShift(n, b, s) = Larger(Larger(a, p), depth + q)  BY DEF SupShift
<1>2. a \in Int /\ p \in Int /\ q \in Int /\ depth \in Int
  <2>1. P(least, s) \in Nat /\ P("xHeight", s) \in Nat  BY Tables DEF Parameters
  <2>2. a \in Int /\ depth \in Int  BY DEF Nucleate, Extents
  <2> QED  BY <2>1, <2>2
<1>3. q = P("xHeight", s) \div 4 /\ depth = b.descent  OBVIOUS
<1> HIDE DEF a, p, q, depth
<1>4. Larger(Larger(a, p), depth + q) \in Int /\ Larger(Larger(a, p), depth + q) - depth >= q
  BY <1>2 DEF Larger
<1> QED  BY <1>1, <1>3, <1>4 DEF Lifted

LEMMA SubClear ==
  ASSUME NEW n, Nucleate(n), NEW b, Extents(b), NEW s \in MathStyles
  PROVE  SubShift(n, b, s) \in Int /\ b.ascent - SubShift(n, b, s) <= (4 * P("xHeight", s)) \div 5
<1> DEFINE a == n.down
           p == P("sub1", s)
           q == (4 * P("xHeight", s)) \div 5
           height == b.ascent
<1>1. SubShift(n, b, s) = Larger(Larger(a, p), height - q)  BY DEF SubShift
<1>2. a \in Int /\ p \in Int /\ q \in Int /\ height \in Int
  <2>1. P("sub1", s) \in Nat /\ P("xHeight", s) \in Nat  BY Tables DEF Parameters
  <2>2. a \in Int /\ height \in Int  BY DEF Nucleate, Extents
  <2> QED  BY <2>1, <2>2
<1>3. q = (4 * P("xHeight", s)) \div 5 /\ height = b.ascent  OBVIOUS
<1> HIDE DEF a, p, q, height
<1>4. Larger(Larger(a, p), height - q) \in Int /\ height - Larger(Larger(a, p), height - q) <= q
  BY <1>2 DEF Larger
<1> QED  BY <1>1, <1>3, <1>4

(* The nodes of a list with scripts, in any number and order.              *)
LEMMA ScriptsPlaced ==
  ASSUME NEW n, Nucleate(n), NEW tail \in Seq(NodeType), Ordered(tail),
         NEW width \in Nat, n.width <= width,
         \A q \in Members(tail) :
           q.src \in {1, 2} /\ Right(q) <= width /\ q.role \in {"SUP", "SUB"}
  PROVE  LET b == HList(n.nodes \o tail, width) IN
         /\ Whole(b) /\ HoldsWidth(b) /\ b.slots = Len(b.children)
         /\ Members(b.children) = Members(n.nodes) \cup Members(tail)
<1> DEFINE head  == n.nodes
           nodes == head \o tail
           b     == HList(nodes, width)
<1>1. /\ n.width \in Nat /\ head \in Seq(NodeType) /\ Len(head) <= 1
      /\ \A g \in Members(head) : g.role = "NUCLEUS" /\ g.src = 0 /\ g.x = 0 /\ g.width = n.width
  BY DEF Nucleate
<1>2. Ordered(head)
  <2>1. Len(head) \in Nat /\ Len(head) <= 1  BY <1>1
  <2>2. 1 .. Len(head) - 1 = {}  BY <2>1
  <2> QED  BY <2>2 DEF Ordered
<1>3. head = n.nodes  OBVIOUS
<1> HIDE DEF head
<1>4. /\ nodes \in Seq(NodeType) /\ Members(nodes) = Members(head) \cup Members(tail)
      /\ Ordered(nodes)
  <2>1. \A m \in Members(head), q \in Members(tail) : m.src <= q.src  BY <1>1
  <2> QED  BY <1>1, <1>2, <2>1, Joined
<1>5. nodes = n.nodes \o tail  BY <1>3
<1> HIDE DEF nodes, b
<1>6. /\ Whole(b) /\ b.children = nodes /\ b.width = width /\ b.slots = Len(nodes)
  BY <1>4, ListFormed, ListWhole DEF b
<1>7. HoldsWidth(b)
  <2> SUFFICES ASSUME NEW q \in Members(nodes) PROVE Right(q) <= width
    BY <1>6 DEF HoldsWidth
  <2>1. CASE q \in Members(head)
    <3>1. q.x = 0 /\ q.width = n.width  BY <1>1, <2>1
    <3> QED  BY <1>1, <3>1 DEF Right
  <2>2. CASE q \in Members(tail)  BY <2>2
  <2> QED  BY <1>4, <2>1, <2>2
<1> QED  BY <1>3, <1>4, <1>5, <1>6, <1>7 DEF b

(* At most one of each, in either order.                                   *)
LEMMA InOrderPlaced ==
  ASSUME NEW high \in Seq(NodeType), NEW low \in Seq(NodeType), NEW subFirst \in BOOLEAN,
         Ordered(high), Ordered(low),
         \A p \in Members(high), q \in Members(low) :
           IF subFirst THEN q.src <= p.src ELSE p.src <= q.src
  PROVE  LET tail == InOrder(high, low, subFirst) IN
         /\ tail \in Seq(NodeType) /\ Ordered(tail) /\ Len(tail) = Len(high) + Len(low)
         /\ Members(tail) = Members(high) \cup Members(low)
<1>0. Len(high) \in Nat /\ Len(low) \in Nat  OBVIOUS
<1>1. CASE subFirst
  <2>1. InOrder(high, low, subFirst) = low \o high  BY <1>1 DEF InOrder
  <2>2. \A q \in Members(low), p \in Members(high) : q.src <= p.src  BY <1>1
  <2>3. /\ low \o high \in Seq(NodeType) /\ Len(low \o high) = Len(low) + Len(high)
        /\ Members(low \o high) = Members(low) \cup Members(high) /\ Ordered(low \o high)
    BY <2>2, Joined
  <2> QED  BY <1>0, <2>1, <2>3
<1>2. CASE ~subFirst
  <2>1. InOrder(high, low, subFirst) = high \o low  BY <1>2 DEF InOrder
  <2>2. \A p \in Members(high), q \in Members(low) : p.src <= q.src  BY <1>2
  <2>3. /\ high \o low \in Seq(NodeType) /\ Len(high \o low) = Len(high) + Len(low)
        /\ Members(high \o low) = Members(high) \cup Members(low) /\ Ordered(high \o low)
    BY <2>2, Joined
  <2> QED  BY <1>0, <2>1, <2>3
<1> QED  BY <1>1, <1>2

(* One script, or none: a node that stands for the box.                    *)
Stands(c, o, role, src, x, y) ==
  /\ c \in Seq(NodeType) /\ Ordered(c) /\ Len(c) <= 1
  /\ o = << >> => Members(c) = {} /\ Len(c) = 0
  /\ o # << >> => \E n :
       /\ Members(c) = {n} /\ Len(c) = 1 /\ n \in NodeType /\ n.kind = "HBOX" /\ n.role = role
       /\ n.src = src /\ n.x = x /\ n.y = y /\ n.width = o[1].width /\ n.ascent = o[1].ascent
       /\ n.descent = o[1].descent

LEMMA StandsFor ==
  ASSUME NEW o, Optional(o), NEW role \in Roles, NEW src \in Int, NEW x, NEW y,
         o # << >> => x \in Int /\ y \in Int,
         NEW c, c = IF o = << >> THEN << >> ELSE <<Child(o[1], role, src, x, y)>>
  PROVE  Stands(c, o, role, src, x, y)
<1>1. CASE o = << >>
  <2>1. c = << >>  BY <1>1
  <2>2. << >> \in Seq(NodeType) /\ Len(<< >>) = 0  OBVIOUS
  <2> QED  BY <1>1, <2>1, <2>2, NoMember DEF Stands
<1>2. CASE o # << >>
  <2>1. PICK b : o = <<b>> /\ Extents(b)  BY <1>2 DEF Optional
  <2>2. o[1] = b  BY <2>1
  <2> DEFINE n == Child(b, role, src, x, y)
  <2>3. x \in Int /\ y \in Int  BY <1>2
  <2>4. /\ n \in NodeType /\ n.kind = "HBOX" /\ n.role = role /\ n.src = src /\ n.x = x
        /\ n.y = y /\ n.width = b.width /\ n.ascent = b.ascent /\ n.descent = b.descent
    BY <2>1, <2>3, ChildFormed
  <2>5. c = <<n>>  BY <1>2, <2>2
  <2> HIDE DEF n
  <2>6. c \in Seq(NodeType) /\ Members(c) = {n} /\ Ordered(c) /\ Len(c) = 1
    BY <2>4, <2>5, OneMember
  <2> QED  BY <1>2, <2>2, <2>4, <2>6 DEF Stands
<1> QED  BY <1>1, <1>2

LEMMA ShiftsClear ==
  ASSUME NEW n, Nucleate(n), NEW sup, Optional(sup), NEW sub, Optional(sub), NEW s \in MathStyles,
         sup # << >> \/ sub # << >>
  PROVE  \E u, d \in Int :
           /\ ScriptShifts(n, sup, sub, s).up = u /\ ScriptShifts(n, sup, sub, s).down = d
           /\ sup # << >> => Lifted(u, sup[1].descent, s)
           /\ sub # << >> /\ sup = << >> => sub[1].ascent - d <= (4 * P("xHeight", s)) \div 5
           /\ sup # << >> /\ sub # << >> =>
                (u - sup[1].descent) - (sub[1].ascent - d) >= 4 * P("rule", s)
<1>1. n.up \in Int /\ n.down \in Int  BY DEF Nucleate
<1>2. \A o : Optional(o) /\ o # << >> => Extents(o[1])
  BY DEF Optional
<1>3. CASE sub = << >>
  <2> DEFINE u == SupShift(n, sup[1], s)
  <2>1. ScriptShifts(n, sup, sub, s) = [up |-> u, down |-> n.down]  BY <1>3 DEF ScriptShifts
  <2>2. Extents(sup[1])  BY <1>2, <1>3
  <2>3. u \in Int /\ Lifted(u, sup[1].descent, s)  BY <2>2, SupClear
  <2> HIDE DEF u
  <2>4. ScriptShifts(n, sup, sub, s).up = u /\ ScriptShifts(n, sup, sub, s).down = n.down
    BY <2>1
  <2> QED  BY <1>1, <1>3, <2>3, <2>4
<1>4. CASE sub # << >> /\ sup = << >>
  <2> DEFINE d == SubShift(n, sub[1], s)
  <2>1. ScriptShifts(n, sup, sub, s) = [up |-> n.up, down |-> d]  BY <1>4 DEF ScriptShifts
  <2>2. Extents(sub[1])  BY <1>2, <1>4
  <2>3. d \in Int /\ sub[1].ascent - d <= (4 * P("xHeight", s)) \div 5  BY <2>2, SubClear
  <2> HIDE DEF d
  <2>4. ScriptShifts(n, sup, sub, s).up = n.up /\ ScriptShifts(n, sup, sub, s).down = d
    BY <2>1
  <2> QED  BY <1>1, <1>4, <2>3, <2>4
<1>5. CASE sub # << >> /\ sup # << >>
  <2> DEFINE up == SupShift(n, sup[1], s)
             down == Larger(n.down, P("sub2", s))
             depth == sup[1].descent
             height == sub[1].ascent
  <2>1. ScriptShifts(n, sup, sub, s) = BothShifts(up, down, depth, height, s)
    BY <1>5 DEF ScriptShifts
  <2>2. Extents(sup[1]) /\ Extents(sub[1])  BY <1>2, <1>5
  <2>3. up \in Int /\ Lifted(up, sup[1].descent, s)  BY <2>2, SupClear
  <2>4. down \in Int
    <3>1. P("sub2", s) \in Int  BY Tables DEF Parameters
    <3> QED  BY <1>1, <3>1, LargerOf
  <2>5. depth \in Int /\ height \in Int  BY <2>2 DEF Extents
  <2>6. depth = sup[1].descent /\ height = sub[1].ascent  OBVIOUS
  <2> HIDE DEF up, down, depth, height
  <2>7. PICK u \in Int, d \in Int :
          /\ BothShifts(up, down, depth, height, s) = [up |-> u, down |-> d]
          /\ u >= up
          /\ (u - depth) - (height - d) >= 4 * P("rule", s)
    BY <2>3, <2>4, <2>5, BothClear
  <2>8. ScriptShifts(n, sup, sub, s).up = u /\ ScriptShifts(n, sup, sub, s).down = d
    BY <2>1, <2>7
  <2>9. Lifted(u, depth, s)
    <3>1. P("xHeight", s) \div 4 \in Int
      <4>1. P("xHeight", s) \in Nat  BY Tables DEF Parameters
      <4> QED  BY <4>1
    <3> QED  BY <2>3, <2>5, <2>6, <2>7, <3>1 DEF Lifted
  <2> QED  BY <1>5, <2>6, <2>7, <2>8, <2>9
<1> QED  BY <1>3, <1>4, <1>5

LEMMA ScriptsWhole ==
  ASSUME NEW n, Nucleate(n), NEW sup, Optional(sup), NEW sub, Optional(sub), NEW s \in MathStyles,
         sup # << >> \/ sub # << >>, NEW subFirst \in BOOLEAN
  PROVE  LET b == ScriptsBox(n, sup, sub, subFirst, s) IN
         /\ Whole(b) /\ HoldsWidth(b) /\ b.slots = Len(b.children) /\ ScriptsKept(b, s)
<1> DEFINE shift == ScriptShifts(n, sup, sub, s)
           first == IF subFirst THEN "SUB" ELSE "SUP"
           Place(role) == IF role = first THEN 1 ELSE 2
           above == Place("SUP")
           below == Place("SUB")
           aside == n.width + n.italic
           over  == n.width
           high  == IF sup = << >> THEN << >> ELSE <<Child(sup[1], "SUP", above, aside, shift.up)>>
           low   == IF sub = << >> THEN << >> ELSE <<Child(sub[1], "SUB", below, over, -shift.down)>>
           tail  == InOrder(high, low, subFirst)
           width == n.width + CASE sub = << >> -> n.italic + sup[1].width
                                [] sup = << >> -> sub[1].width
                                [] OTHER -> Larger(n.italic + sup[1].width, sub[1].width)
           b     == ScriptsBox(n, sup, sub, subFirst, s)
<1>1. b = HList(n.nodes \o tail, width)  BY DEF ScriptsBox
<1>2. PICK u \in Int, d \in Int :
        /\ shift.up = u /\ shift.down = d
        /\ sup # << >> => Lifted(u, sup[1].descent, s)
        /\ sub # << >> /\ sup = << >> => sub[1].ascent - d <= (4 * P("xHeight", s)) \div 5
        /\ sup # << >> /\ sub # << >> =>
             (u - sup[1].descent) - (sub[1].ascent - d) >= 4 * P("rule", s)
  BY ShiftsClear
<1>3. \A o : Optional(o) /\ o # << >> => Extents(o[1])  BY DEF Optional
<1>4. /\ sup # << >> => sup[1].width \in Nat /\ sup[1].ascent \in Int /\ sup[1].descent \in Int
      /\ sub # << >> => sub[1].width \in Nat /\ sub[1].ascent \in Int /\ sub[1].descent \in Int
  BY <1>3 DEF Extents
<1>5. over \in Nat /\ n.italic \in Nat /\ aside \in Nat /\ aside = over + n.italic /\ over = n.width
  BY DEF Nucleate
<1>6. /\ width \in Nat /\ over <= width
      /\ sup # << >> => aside + sup[1].width <= width
      /\ sub # << >> => over + sub[1].width <= width
  <2>1. CASE sub = << >>
    <3>1. width = over + (n.italic + sup[1].width)  BY <2>1
    <3> HIDE DEF width, over, aside
    <3> QED  BY <1>4, <1>5, <2>1, <3>1, SMTT(30)
  <2>2. CASE sub # << >> /\ sup = << >>
    <3>1. width = over + sub[1].width  BY <2>2
    <3> HIDE DEF width, over, aside
    <3> QED  BY <1>4, <1>5, <2>2, <3>1
  <2>3. CASE sub # << >> /\ sup # << >>
    <3> DEFINE p == n.italic + sup[1].width
               q == sub[1].width
    <3>1. width = over + Larger(p, q)  BY <2>3
    <3>2. p \in Nat /\ q \in Nat /\ p = n.italic + sup[1].width /\ q = sub[1].width
      BY <1>4, <1>5, <2>3
    <3> HIDE DEF p, q, width, over, aside
    <3>3. Larger(p, q) \in Nat /\ Larger(p, q) >= p /\ Larger(p, q) >= q  BY <3>2 DEF Larger
    <3>4. width \in Nat /\ over <= width /\ over + p <= width /\ over + q <= width
      BY <1>5, <3>1, <3>2, <3>3, SMTT(30)
    <3>5. aside + sup[1].width = over + p
      <4> DEFINE w == sup[1].width
                 i == n.italic
      <4>1. w \in Nat /\ i \in Nat /\ aside = over + i /\ p = i + w /\ over \in Nat
        BY <1>4, <1>5, <2>3, <3>2
      <4> HIDE DEF w, i
      <4>2. aside + w = over + p  BY <4>1
      <4> QED  BY <4>2 DEF w
    <3> QED  BY <3>2, <3>4, <3>5
  <2> QED  BY <2>1, <2>2, <2>3
<1>7. /\ above \in {1, 2} /\ below \in {1, 2} /\ (IF subFirst THEN below <= above ELSE above <= below)
  OBVIOUS
<1> HIDE DEF width, over, aside, above, below
<1>8. Stands(high, sup, "SUP", above, aside, u)
  <2>1. "SUP" \in Roles /\ above \in Int /\ aside \in Int  BY <1>5, <1>7 DEF Roles
  <2>2. high = IF sup = << >> THEN << >> ELSE <<Child(sup[1], "SUP", above, aside, u)>>  BY <1>2
  <2> HIDE DEF high
  <2> QED  BY <2>1, <2>2, StandsFor
<1>9. Stands(low, sub, "SUB", below, over, -d)
  <2> DEFINE y == -d
  <2>1. "SUB" \in Roles /\ below \in Int /\ over \in Int /\ y \in Int  BY <1>5, <1>7 DEF Roles
  <2>2. low = IF sub = << >> THEN << >> ELSE <<Child(sub[1], "SUB", below, over, y)>>  BY <1>2
  <2> HIDE DEF low, y
  <2>3. Stands(low, sub, "SUB", below, over, y)  BY <2>1, <2>2, StandsFor
  <2> QED  BY <2>3 DEF y
<1> HIDE DEF high, low
<1>10. /\ tail \in Seq(NodeType) /\ Ordered(tail)
       /\ Members(tail) = Members(high) \cup Members(low)
  <2>1. /\ high \in Seq(NodeType) /\ low \in Seq(NodeType) /\ Ordered(high) /\ Ordered(low)
    BY <1>8, <1>9 DEF Stands
  <2>2. (\A p \in Members(high) : p.src = above) /\ (\A q \in Members(low) : q.src = below)
    BY <1>8, <1>9 DEF Stands
  <2>3. \A p \in Members(high), q \in Members(low) :
          IF subFirst THEN q.src <= p.src ELSE p.src <= q.src
    BY <1>7, <2>2
  <2> QED  BY <2>1, <2>3, InOrderPlaced
<1> HIDE DEF tail
<1>11. \A q \in Members(high) :
         /\ sup # << >> /\ Members(high) = {q}
         /\ q.role = "SUP" /\ q.src = above /\ q.x = aside /\ q.y = u
         /\ q.width = sup[1].width /\ q.ascent = sup[1].ascent /\ q.descent = sup[1].descent
  BY <1>8 DEF Stands
<1>12. \A q \in Members(low) :
         /\ sub # << >> /\ Members(low) = {q}
         /\ q.role = "SUB" /\ q.src = below /\ q.x = over /\ q.y = -d
         /\ q.width = sub[1].width /\ q.ascent = sub[1].ascent /\ q.descent = sub[1].descent
  BY <1>9 DEF Stands
<1>13. \A q \in Members(tail) :
         q.src \in {1, 2} /\ Right(q) <= width /\ q.role \in {"SUP", "SUB"}
  BY <1>6, <1>7, <1>10, <1>11, <1>12 DEF Right
<1> HIDE DEF b
<1>14. /\ Whole(b) /\ HoldsWidth(b) /\ b.slots = Len(b.children)
       /\ Members(b.children) = Members(n.nodes) \cup Members(tail)
  BY <1>1, <1>5, <1>6, <1>10, <1>13, ScriptsPlaced, SMTT(30)
<1>15. \A q \in Members(n.nodes) : q.role = "NUCLEUS"  BY DEF Nucleate
<1>16. /\ \A q : Plays(b.children, q, "SUP") => q \in Members(high)
       /\ \A q : Plays(b.children, q, "SUB") => q \in Members(low)
  BY <1>10, <1>11, <1>12, <1>14, <1>15 DEF Plays
<1>17. /\ \A q \in Members(high) : Plays(b.children, q, "SUP")
       /\ \A q \in Members(low) : Plays(b.children, q, "SUB")
  BY <1>10, <1>11, <1>12, <1>14, <1>15 DEF Plays
<1>18. /\ Members(high) = {} => Absent(b.children, "SUP")
       /\ Members(low) = {} => Absent(b.children, "SUB")
  BY <1>10, <1>11, <1>12, <1>14, <1>15 DEF Absent
<1>19. Single(b.children, "SUP") /\ Single(b.children, "SUB")
  BY <1>17, <1>18 DEF Single
<1>20. \A q : Plays(b.children, q, "SUP") => Bottom(q) >= P("xHeight", s) \div 4
  BY <1>2, <1>11, <1>16 DEF Bottom, Lifted
<1>21. \A q : Plays(b.children, q, "SUB") /\ Absent(b.children, "SUP") =>
         Top(q) <= (4 * P("xHeight", s)) \div 5
  <2> SUFFICES ASSUME NEW q \in Members(low), Absent(b.children, "SUP")
               PROVE  Top(q) <= (4 * P("xHeight", s)) \div 5
    BY <1>16
  <2>1. sup = << >>
    <3> SUFFICES ASSUME sup # << >> PROVE FALSE  OBVIOUS
    <3>1. PICK p : p \in Members(high)  BY <1>8 DEF Stands
    <3> QED  BY <1>17, <3>1 DEF Plays, Absent
  <2>2. sub # << >> /\ q.y = -d /\ q.ascent = sub[1].ascent  BY <1>12
  <2>3. Top(q) = sub[1].ascent - d
    <3> DEFINE h == sub[1].ascent
    <3>1. h \in Int  BY <1>4, <2>2
    <3>2. q.ascent = h /\ h = sub[1].ascent  BY <2>2
    <3> HIDE DEF h
    <3> QED  BY <2>2, <3>1, <3>2 DEF Top
  <2> QED  BY <1>2, <2>1, <2>2, <2>3
<1>22. \A p, q : Plays(b.children, p, "SUP") /\ Plays(b.children, q, "SUB") =>
         Bottom(p) - Top(q) >= 4 * P("rule", s) /\ q.x <= p.x
  <2> SUFFICES ASSUME NEW p \in Members(high), NEW q \in Members(low)
               PROVE  Bottom(p) - Top(q) >= 4 * P("rule", s) /\ q.x <= p.x
    BY <1>16
  <2>1. p.y = u /\ p.x = aside /\ p.descent = sup[1].descent /\ sup # << >>  BY <1>11
  <2>2. q.y = -d /\ q.x = over /\ q.ascent = sub[1].ascent /\ sub # << >>  BY <1>12
  <2> DEFINE depth == sup[1].descent
             height == sub[1].ascent
             clear == 4 * P("rule", s)
  <2>3. depth \in Int /\ height \in Int /\ (u - depth) - (height - d) >= clear
    BY <1>2, <1>4, <2>1, <2>2
  <2>4. p.descent = depth /\ q.ascent = height /\ clear \in Int
    <3>1. P("rule", s) \in Nat  BY Tables
    <3> QED  BY <2>1, <2>2, <3>1
  <2>5. q.x <= p.x  BY <1>5, <2>1, <2>2
  <2> HIDE DEF depth, height, clear
  <2>6. Bottom(p) = u - depth /\ Top(q) = -d + height  BY <2>1, <2>2, <2>4 DEF Bottom, Top
  <2>7. Bottom(p) - Top(q) >= clear  BY <2>3, <2>4, <2>6
  <2> QED  BY <2>5, <2>7 DEF clear
<1>23. ScriptsKept(b, s)  BY <1>19, <1>20, <1>21, <1>22 DEF ScriptsKept
<1> QED  BY <1>14, <1>23 DEF b

-----------------------------------------------------------------------------
(***************************************************************************)
(* Limits.                                                                 *)
(***************************************************************************)
LimitsKept(b, s) ==
  LET c == b.children
      Least(name, distance) == distance >= P(name, s)
  IN  \E op :
        /\ Plays(c, op, "NUCLEUS") /\ Single(c, "SUP") /\ Single(c, "SUB")
        /\ \A sup : Plays(c, sup, "SUP") =>
             /\ Least("space1", Bottom(sup) - Top(op)) /\ Least("space3", sup.y - Top(op))
             /\ Least("space5", b.ascent - Top(sup))
        /\ \A sub : Plays(c, sub, "SUB") =>
             /\ Least("space2", Bottom(op) - Top(sub)) /\ Least("space4", Bottom(op) - sub.y)
             /\ Least("space5", Bottom(sub) + b.descent)
        /\ \A sup, sub : Plays(c, sup, "SUP") /\ Plays(c, sub, "SUB") =>
             sub.x + sub.width \div 2 <= sup.x + sup.width \div 2 + 1

(* Scripts as sequences.                                                   *)
Abut(sup, sub, both) == both = sup \o sub

Abutted(sup, sub, both) ==
  /\ Len(both) \in Nat /\ DOMAIN both = 1 .. Len(both)
  /\ \A k \in DOMAIN both :
       (sup # << >> /\ both[k] = sup[1]) \/ (sub # << >> /\ both[k] = sub[1])
  /\ sup # << >> => \E k \in DOMAIN both : both[k] = sup[1]
  /\ sub # << >> => \E k \in DOMAIN both : both[k] = sub[1]

Widths(S, w, both) == S = {w} \cup {both[k].width : k \in DOMAIN both}

LEMMA TwoOptional ==
  ASSUME NEW sup, Optional(sup), NEW sub, Optional(sub), NEW both, Abut(sup, sub, both)
  PROVE  Abutted(sup, sub, both)
<1> DEFINE S == {sup[1], sub[1]}
<1>1. /\ sup \in Seq(S) /\ (sup # << >> => Len(sup) = 1) /\ (sup = << >> => Len(sup) = 0)
      /\ sub \in Seq(S) /\ (sub # << >> => Len(sub) = 1) /\ (sub = << >> => Len(sub) = 0)
  <2>1. \A o : Optional(o) => /\ o # << >> => Len(o) = 1 /\ o = <<o[1]>>
                              /\ o = << >> => Len(o) = 0
    BY DEF Optional
  <2>2. \A v \in S : <<v>> \in Seq(S)  OBVIOUS
  <2>3. << >> \in Seq(S)  OBVIOUS
  <2>4. sup[1] \in S /\ sub[1] \in S  OBVIOUS
  <2> HIDE DEF S
  <2> QED  BY <2>1, <2>2, <2>3, <2>4
<1>2. S = {sup[1], sub[1]}  OBVIOUS
<1> HIDE DEF S
<1>3. /\ both \in Seq(S) /\ Len(both) = Len(sup) + Len(sub)
      /\ \A k \in 1 .. Len(sup) : both[k] = sup[k]
      /\ \A k \in 1 .. Len(sub) : both[Len(sup) + k] = sub[k]
  BY <1>1, Concatenated DEF Abut
<1>4. Len(both) \in Nat /\ DOMAIN both = 1 .. Len(both)  BY <1>3
<1>5. \A k \in DOMAIN both :
        (sup # << >> /\ both[k] = sup[1]) \/ (sub # << >> /\ both[k] = sub[1])
  <2> TAKE k \in DOMAIN both
  <2>1. CASE k \in 1 .. Len(sup)
    <3>1. Len(sup) \in Nat /\ Len(sup) # 0 /\ k \in Int /\ 1 <= k /\ k <= Len(sup)
      <4>1. Len(sup) \in Nat  BY <1>1
      <4> QED  BY <2>1, <4>1
    <3>2. sup # << >>  BY <1>1, <3>1
    <3>4. Len(sup) = 1  BY <1>1, <3>2
    <3>3. k = 1  BY <3>1, <3>4
    <3> QED  BY <1>3, <2>1, <3>2, <3>3
  <2>2. CASE ~(k \in 1 .. Len(sup))
    <3>1. sub # << >> /\ k = Len(sup) + 1 /\ 1 \in 1 .. Len(sub)  BY <1>1, <1>3, <1>4, <2>2
    <3> QED  BY <1>3, <3>1
  <2> QED  BY <2>1, <2>2
<1>6. sup # << >> => \E k \in DOMAIN both : both[k] = sup[1]
  <2> SUFFICES ASSUME sup # << >> PROVE \E k \in DOMAIN both : both[k] = sup[1]  OBVIOUS
  <2>1. 1 \in 1 .. Len(sup) /\ 1 \in DOMAIN both  BY <1>1, <1>3, <1>4
  <2> QED  BY <1>3, <2>1
<1>7. sub # << >> => \E k \in DOMAIN both : both[k] = sub[1]
  <2> SUFFICES ASSUME sub # << >> PROVE \E k \in DOMAIN both : both[k] = sub[1]  OBVIOUS
  <2>1. 1 \in 1 .. Len(sub) /\ Len(sup) + 1 \in DOMAIN both  BY <1>1, <1>3, <1>4
  <2> QED  BY <1>3, <2>1
<1> QED  BY <1>4, <1>5, <1>6, <1>7 DEF Abutted

(* The box is as wide as the widest of its parts.                          *)
LEMMA WidestPart ==
  ASSUME NEW w \in Nat, NEW sup, Optional(sup), NEW sub, Optional(sub),
         NEW both, Abut(sup, sub, both), NEW S, Widths(S, w, both)
  PROVE  /\ Largest(S) \in Nat /\ w <= Largest(S)
         /\ sup # << >> => sup[1].width \in Nat /\ sup[1].width <= Largest(S)
         /\ sub # << >> => sub[1].width \in Nat /\ sub[1].width <= Largest(S)
<1> DEFINE f == [k \in DOMAIN both |-> both[k].width]
<1>1. \A o : Optional(o) /\ o # << >> => o[1].width \in Nat  BY DEF Optional, Extents
<1>2. /\ Len(both) \in Nat /\ DOMAIN both = 1 .. Len(both)
      /\ \A k \in DOMAIN both :
           (sup # << >> /\ both[k] = sup[1]) \/ (sub # << >> /\ both[k] = sub[1])
      /\ sup # << >> => \E k \in DOMAIN both : both[k] = sup[1]
      /\ sub # << >> => \E k \in DOMAIN both : both[k] = sub[1]
  BY TwoOptional DEF Abutted
<1>3. S = {w} \cup {both[k].width : k \in DOMAIN both}  BY DEF Widths
<1> DEFINE m == Len(both)
<1>4. \A k \in 1 .. m : f[k] \in Nat /\ f[k] = both[k].width
  <2> TAKE k \in 1 .. m
  <2>1. k \in DOMAIN both /\ f[k] = both[k].width  BY <1>2
  <2> QED  BY <1>1, <1>2, <2>1
<1> HIDE DEF f
<1>5. Among(S, w, f, m) /\ S # {} /\ w \in S /\ m \in Nat
  <2>1. \A x \in S : x = w \/ \E k \in 1 .. m : x = f[k]
    <3> TAKE x \in S
    <3>1. x = w \/ \E k \in DOMAIN both : x = both[k].width  BY <1>3
    <3> QED  BY <1>2, <1>4, <3>1
  <2>2. w \in S  BY <1>3
  <2> HIDE DEF m
  <2>3. Among(S, w, f, m)  BY <2>1 DEF Among
  <2>4. m \in Nat  BY <1>2 DEF m
  <2> QED  BY <2>2, <2>3, <2>4
<1>6. \A k \in 1 .. m : f[k] \in Int  BY <1>4
<1>7. Largest(S) \in S /\ Largest(S) \in Int /\ \A k \in S : k <= Largest(S)
  <2>1. m \in Nat  BY <1>5
  <2>2. w \in Int  OBVIOUS
  <2>3. Among(S, w, f, m) /\ S # {}  BY <1>5
  <2> HIDE DEF m
  <2> QED  BY <2>1, <2>2, <2>3, <1>6, LargestOf
<1>8. sup # << >> => sup[1].width \in S  BY <1>2, <1>3
<1>9. sub # << >> => sub[1].width \in S  BY <1>2, <1>3
<1>10. w <= Largest(S)  BY <1>5, <1>7
<1>14. Largest(S) \in Int  BY <1>7
<1>11. Largest(S) \in Nat  BY <1>10, <1>14
<1>12. sup # << >> => sup[1].width \in Nat /\ sup[1].width <= Largest(S)  BY <1>1, <1>7, <1>8
<1>13. sub # << >> => sub[1].width \in Nat /\ sub[1].width <= Largest(S)  BY <1>1, <1>7, <1>9
<1> QED  BY <1>10, <1>11, <1>12, <1>13

LEMMA LimitsWhole ==
  ASSUME NEW n, Nucleate(n), n.nodes # << >>, NEW sup, Optional(sup), NEW sub, Optional(sub),
         NEW s \in MathStyles, NEW subFirst \in BOOLEAN
  PROVE  LET b == LimitsBox(n, sup, sub, subFirst, s) IN
         Whole(b) /\ Len(b.children) <= b.slots /\ LimitsKept(b, s)
<1> DEFINE node   == n.nodes[1]
           W      == {n.width} \cup {(sup \o sub)[k].width : k \in DOMAIN (sup \o sub)}
           width  == Largest(W)
           top    == node.ascent + node.y
           bottom == node.descent - node.y
           nudge  == Half(n.italic)
           first  == IF subFirst THEN "SUB" ELSE "SUP"
           Place(role) == IF role = first THEN 1 ELSE 2
           over   == Place("SUP")
           under  == Place("SUB")
           above  == LimitClearance(P("space1", s), P("space3", s), sup[1].descent)
           below  == LimitClearance(P("space2", s), P("space4", s), sub[1].ascent)
           hx     == Half(width - sup[1].width) + nudge
           hy     == top + above + sup[1].descent
           lx     == Half(width - sub[1].width) - nudge
           ly     == -(bottom + below + sub[1].ascent)
           high   == IF sup = << >> THEN << >> ELSE <<Child(sup[1], "SUP", over, hx, hy)>>
           low    == IF sub = << >> THEN << >> ELSE <<Child(sub[1], "SUB", under, lx, ly)>>
           tail   == InOrder(high, low, subFirst)
           nx     == Half(width - n.width)
           op     == At(node, nx, node.y)
           pad    == P("space5", s)
           ascent  == IF sup = << >> THEN top ELSE high[1].y + high[1].ascent + pad
           descent == IF sub = << >> THEN bottom ELSE low[1].descent - low[1].y + pad
           nodes  == <<op>> \o tail
           b      == LimitsBox(n, sup, sub, subFirst, s)
<1>1. b = Box(width, ascent, descent, 3, nodes)  BY DEF LimitsBox
<1>2. /\ b.width = width /\ b.ascent = ascent /\ b.descent = descent /\ b.slots = 3
      /\ b.children = nodes
  <2> HIDE DEF width, ascent, descent, nodes, b
  <2> QED  BY <1>1 DEF Box
<1> HIDE DEF b
<1>3. /\ node \in NodeType /\ node.kind # "KERN" /\ node.role = "NUCLEUS" /\ node.src = 0
      /\ node.width = n.width /\ node.ascent + node.descent >= 0 /\ n.width \in Nat
      /\ n.italic \in Nat
  <2>1. n.nodes \in Seq(NodeType)  BY DEF Nucleate
  <2>2. 1 \in DOMAIN n.nodes  BY <2>1
  <2>3. node \in Members(n.nodes) /\ node \in NodeType  BY <2>1, <2>2 DEF Members
  <2> QED  BY <2>3 DEF Nucleate
<1>4. node.ascent \in Int /\ node.descent \in Int /\ node.y \in Int  BY <1>3, NodeFields
<1>5. top \in Int /\ bottom \in Int /\ top + bottom >= 0
      /\ top = node.ascent + node.y /\ bottom = node.descent - node.y
  BY <1>3, <1>4, SMTT(30)
<1>6. /\ width \in Nat /\ n.width <= width
      /\ sup # << >> => sup[1].width \in Nat /\ sup[1].width <= width
      /\ sub # << >> => sub[1].width \in Nat /\ sub[1].width <= width
  <2> DEFINE w == n.width
  <2>1. w \in Nat  BY <1>3
  <2> DEFINE both == sup \o sub
  <2>3. Abut(sup, sub, both) /\ Widths(W, w, both)  BY DEF Abut, Widths
  <2> HIDE DEF w, W, both
  <2>2. /\ width \in Nat /\ w <= width
        /\ sup # << >> => sup[1].width \in Nat /\ sup[1].width <= width
        /\ sub # << >> => sub[1].width \in Nat /\ sub[1].width <= width
    BY <2>1, <2>3, WidestPart
  <2> QED  BY <2>2 DEF w
<1> HIDE DEF W, width
<1>7. \A o : Optional(o) /\ o # << >> =>
        o[1].ascent \in Int /\ o[1].descent \in Int /\ o[1].ascent + o[1].descent >= 0
  BY DEF Optional, Extents
<1>8. /\ P("space1", s) \in Nat /\ P("space2", s) \in Nat /\ P("space3", s) \in Nat
      /\ P("space4", s) \in Nat /\ pad \in Nat
  BY Tables DEF Parameters
<1>9. nudge \in Int /\ nudge >= 0
  <2> DEFINE i == n.italic
  <2>1. i \in Nat  BY <1>3
  <2> HIDE DEF i
  <2>3. i \in Int  BY <2>1
  <2>4. Half(i) \in Int /\ (2 * Half(i) = i \/ 2 * Half(i) = i + 1)  BY <2>3, Halves
  <2>2. Half(i) \in Int /\ Half(i) >= 0  BY <2>1, <2>4
  <2> QED  BY <2>2 DEF i
<1>10. sup # << >> =>
         /\ above \in Int /\ above >= P("space1", s) /\ above + sup[1].descent >= P("space3", s)
         /\ hx \in Int /\ hy \in Int /\ hy = top + above + sup[1].descent
         /\ 2 * (hx - nudge) >= width - sup[1].width
  <2> SUFFICES ASSUME sup # << >>
               PROVE  /\ above \in Int /\ above >= P("space1", s)
                      /\ above + sup[1].descent >= P("space3", s)
                      /\ hx \in Int /\ hy \in Int /\ hy = top + above + sup[1].descent
                      /\ 2 * (hx - nudge) >= width - sup[1].width
    OBVIOUS
  <2> DEFINE p == P("space1", s)
             q == P("space3", s)
             d == sup[1].descent
             v == width - sup[1].width
  <2>1. p \in Nat /\ q \in Nat /\ d \in Int /\ v \in Int  BY <1>6, <1>7, <1>8
  <2>2. above = Larger(p, q - d) /\ hx = Half(v) + nudge /\ hy = top + above + d
    BY DEF LimitClearance
  <2> HIDE DEF p, q, d, v, above, hx, hy, nudge, top
  <2>3. above \in Int /\ above >= p /\ above + d >= q  BY <2>1, <2>2 DEF Larger
  <2>4. Half(v) \in Int /\ 2 * Half(v) >= v  BY <2>1, Halves, SMTT(30)
  <2>6. nudge \in Int /\ top \in Int  BY <1>5, <1>9
  <2>7. hy \in Int  BY <2>1, <2>2, <2>3, <2>6
  <2>8. hx \in Int /\ hx - nudge = Half(v)  BY <2>2, <2>4, <2>6
  <2>5. hx \in Int /\ hy \in Int /\ 2 * (hx - nudge) >= v  BY <2>4, <2>7, <2>8
  <2> QED  BY <2>2, <2>3, <2>5 DEF p, q, d, v
<1>11. sub # << >> =>
         /\ below \in Int /\ below >= P("space2", s) /\ below + sub[1].ascent >= P("space4", s)
         /\ lx \in Int /\ ly \in Int /\ ly = -(bottom + below + sub[1].ascent)
         /\ 2 * (lx + nudge) <= width - sub[1].width + 1
  <2> SUFFICES ASSUME sub # << >>
               PROVE  /\ below \in Int /\ below >= P("space2", s)
                      /\ below + sub[1].ascent >= P("space4", s)
                      /\ lx \in Int /\ ly \in Int /\ ly = -(bottom + below + sub[1].ascent)
                      /\ 2 * (lx + nudge) <= width - sub[1].width + 1
    OBVIOUS
  <2> DEFINE p == P("space2", s)
             q == P("space4", s)
             d == sub[1].ascent
             v == width - sub[1].width
  <2>1. p \in Nat /\ q \in Nat /\ d \in Int /\ v \in Int  BY <1>6, <1>7, <1>8
  <2>2. below = Larger(p, q - d) /\ lx = Half(v) - nudge /\ ly = -(bottom + below + d)
    BY DEF LimitClearance
  <2> HIDE DEF p, q, d, v, below, lx, ly, nudge, bottom
  <2>3. below \in Int /\ below >= p /\ below + d >= q  BY <2>1, <2>2 DEF Larger
  <2>9. Half(v) \in Int /\ (2 * Half(v) = v \/ 2 * Half(v) = v + 1)  BY <2>1, Halves
  <2>4. Half(v) \in Int /\ 2 * Half(v) <= v + 1  BY <2>1, <2>9
  <2>6. nudge \in Int /\ bottom \in Int  BY <1>5, <1>9
  <2>7. ly \in Int  BY <2>1, <2>2, <2>3, <2>6
  <2>8. lx \in Int /\ lx + nudge = Half(v)  BY <2>2, <2>4, <2>6
  <2>5. lx \in Int /\ ly \in Int /\ 2 * (lx + nudge) <= v + 1  BY <2>4, <2>7, <2>8
  <2> QED  BY <2>2, <2>3, <2>5 DEF p, q, d, v
<1>12. nx \in Int
  <2> DEFINE v == width - n.width
  <2>1. v \in Int  BY <1>3, <1>6
  <2> HIDE DEF v
  <2>2. Half(v) \in Int  BY <2>1, Halves
  <2> QED  BY <2>2 DEF v
<1>13. /\ over \in {1, 2} /\ under \in {1, 2} /\ (IF subFirst THEN under <= over ELSE over <= under)
  OBVIOUS
<1> HIDE DEF hx, hy, lx, ly, over, under, nx, above, below, nudge
<1>14. Stands(high, sup, "SUP", over, hx, hy)
  <2>1. "SUP" \in Roles /\ over \in Int  BY <1>13 DEF Roles
  <2>2. high = IF sup = << >> THEN << >> ELSE <<Child(sup[1], "SUP", over, hx, hy)>>  OBVIOUS
  <2>3. sup # << >> => hx \in Int /\ hy \in Int  BY <1>10
  <2> HIDE DEF high
  <2> QED  BY <2>1, <2>2, <2>3, StandsFor
<1>15. Stands(low, sub, "SUB", under, lx, ly)
  <2>1. "SUB" \in Roles /\ under \in Int  BY <1>13 DEF Roles
  <2>2. low = IF sub = << >> THEN << >> ELSE <<Child(sub[1], "SUB", under, lx, ly)>>  OBVIOUS
  <2>3. sub # << >> => lx \in Int /\ ly \in Int  BY <1>11
  <2> HIDE DEF low
  <2> QED  BY <2>1, <2>2, <2>3, StandsFor
<1>16. ascent = (IF sup = << >> THEN top ELSE hy + sup[1].ascent + pad)
  <2>1. CASE sup = << >>  BY <2>1
  <2>2. CASE sup # << >>
    <3> DEFINE c == Child(sup[1], "SUP", over, hx, hy)
    <3>1. high = <<c>> /\ ascent = high[1].y + high[1].ascent + pad  BY <2>2
    <3>2. c.y = hy /\ c.ascent = sup[1].ascent  BY DEF Child, At, Node
    <3> HIDE DEF c, high, ascent
    <3>3. high[1] = c  BY <3>1
    <3> QED  BY <2>2, <3>1, <3>2, <3>3
  <2> QED  BY <2>1, <2>2
<1>17. descent = (IF sub = << >> THEN bottom ELSE sub[1].descent - ly + pad)
  <2>1. CASE sub = << >>  BY <2>1
  <2>2. CASE sub # << >>
    <3> DEFINE c == Child(sub[1], "SUB", under, lx, ly)
    <3>1. low = <<c>> /\ descent = low[1].descent - low[1].y + pad  BY <2>2
    <3>2. c.y = ly /\ c.descent = sub[1].descent  BY DEF Child, At, Node
    <3> HIDE DEF c, low, descent
    <3>3. low[1] = c  BY <3>1
    <3> QED  BY <2>2, <3>1, <3>2, <3>3
  <2> QED  BY <2>1, <2>2
<1> HIDE DEF high, low, ascent, descent
<1>18. /\ op \in NodeType /\ op.kind # "KERN" /\ op.role = "NUCLEUS" /\ op.src = 0
       /\ op.ascent = node.ascent /\ op.descent = node.descent /\ op.y = node.y
  <2> DEFINE y == node.y
  <2>1. y \in Int /\ y = node.y  BY <1>4
  <2>2. op = At(node, nx, y)  OBVIOUS
  <2> HIDE DEF y, node, op
  <2>3. /\ op \in NodeType /\ op.kind = node.kind /\ op.role = node.role /\ op.src = node.src
        /\ op.ascent = node.ascent /\ op.descent = node.descent /\ op.y = y
    BY <1>3, <1>12, <2>1, <2>2, AtFormed
  <2> QED  BY <1>3, <2>1, <2>3
<1>19. Top(op) = top /\ Bottom(op) = -bottom  BY <1>4, <1>5, <1>18, SMTT(30) DEF Top, Bottom
<1> HIDE DEF op, top, bottom, pad, node
<1>20. /\ tail \in Seq(NodeType) /\ Ordered(tail) /\ Len(tail) <= 2 /\ Len(tail) \in Nat
       /\ Members(tail) = Members(high) \cup Members(low)
  <2>1. /\ high \in Seq(NodeType) /\ low \in Seq(NodeType) /\ Ordered(high) /\ Ordered(low)
        /\ Len(high) <= 1 /\ Len(low) <= 1
    BY <1>14, <1>15 DEF Stands
  <2>2. (\A p \in Members(high) : p.src = over) /\ (\A q \in Members(low) : q.src = under)
    BY <1>14, <1>15 DEF Stands
  <2>3. \A p \in Members(high), q \in Members(low) :
          IF subFirst THEN q.src <= p.src ELSE p.src <= q.src
    BY <1>13, <2>2
  <2>4. Len(high) \in Nat /\ Len(low) \in Nat  BY <2>1
  <2>5. /\ tail \in Seq(NodeType) /\ Ordered(tail) /\ Len(tail) = Len(high) + Len(low)
        /\ Members(tail) = Members(high) \cup Members(low)
    BY <2>1, <2>3, InOrderPlaced
  <2> QED  BY <2>1, <2>4, <2>5
<1> HIDE DEF tail
<1>21. \A q \in Members(high) :
         /\ sup # << >> /\ Members(high) = {q}
         /\ q.role = "SUP" /\ q.src = over /\ q.x = hx /\ q.y = hy
         /\ q.width = sup[1].width /\ q.ascent = sup[1].ascent /\ q.descent = sup[1].descent
  BY <1>14 DEF Stands
<1>22. \A q \in Members(low) :
         /\ sub # << >> /\ Members(low) = {q}
         /\ q.role = "SUB" /\ q.src = under /\ q.x = lx /\ q.y = ly
         /\ q.width = sub[1].width /\ q.ascent = sub[1].ascent /\ q.descent = sub[1].descent
  BY <1>15 DEF Stands
<1>23. /\ nodes \in Seq(NodeType) /\ Len(nodes) <= 3
       /\ Members(nodes) = {op} \cup Members(high) \cup Members(low) /\ Ordered(nodes)
  <2> DEFINE one == <<op>>
  <2>1. one \in Seq(NodeType) /\ Members(one) = {op} /\ Ordered(one) /\ Len(one) = 1
    BY <1>18, OneMember
  <2>2. nodes = one \o tail  OBVIOUS
  <2> HIDE DEF one, nodes
  <2>3. \A p \in Members(one), q \in Members(tail) : p.src <= q.src
    BY <1>13, <1>18, <1>20, <1>21, <1>22, <2>1
  <2>4. /\ nodes \in Seq(NodeType) /\ Len(nodes) = Len(one) + Len(tail)
        /\ Members(nodes) = Members(one) \cup Members(tail)
    BY <1>20, <2>1, <2>2, Joined
  <2>5. Ordered(nodes)  BY <1>20, <2>1, <2>2, <2>3, Joined
  <2> QED  BY <1>20, <2>1, <2>4, <2>5
<1> HIDE DEF nodes
<1>24. ascent \in Int /\ ascent >= top
  <2>1. CASE sup = << >>  BY <1>5, <1>16, <2>1
  <2>2. CASE sup # << >>
    <3> DEFINE u == sup[1].ascent
               d == sup[1].descent
    <3>1. u \in Int /\ d \in Int /\ u + d >= 0  BY <1>7, <2>2
    <3>2. ascent = hy + u + pad /\ hy = top + above + d /\ above \in Int /\ above >= 0
      BY <1>8, <1>10, <1>16, <2>2
    <3>3. pad \in Nat /\ top \in Int  BY <1>5, <1>8
    <3> HIDE DEF u, d
    <3> QED  BY <3>1, <3>2, <3>3
  <2> QED  BY <2>1, <2>2
<1>25. descent \in Int /\ descent >= bottom
  <2>1. CASE sub = << >>  BY <1>5, <1>17, <2>1
  <2>2. CASE sub # << >>
    <3> DEFINE u == sub[1].ascent
               d == sub[1].descent
    <3>1. u \in Int /\ d \in Int /\ u + d >= 0  BY <1>7, <2>2
    <3>2. descent = d - ly + pad /\ ly = -(bottom + below + u) /\ below \in Int /\ below >= 0
      BY <1>8, <1>11, <1>17, <2>2
    <3>3. pad \in Nat /\ bottom \in Int  BY <1>5, <1>8
    <3> HIDE DEF u, d
    <3>4. -ly = bottom + below + u  BY <3>1, <3>2, <3>3
    <3>5. descent = d + bottom + below + u + pad  BY <3>1, <3>2, <3>3, <3>4
    <3> QED  BY <3>1, <3>2, <3>3, <3>5
  <2> QED  BY <2>1, <2>2
<1>26. \A q \in Members(high) :
         /\ Bottom(q) - top = above /\ q.y - top = above + sup[1].descent
         /\ ascent - Top(q) = pad /\ Bottom(q) >= top /\ Top(q) <= ascent
  <2> TAKE q \in Members(high)
  <2> DEFINE u == sup[1].ascent
             d == sup[1].descent
  <2>1. /\ q.y = hy /\ q.ascent = u /\ q.descent = d /\ sup # << >>  BY <1>21
  <2>2. u \in Int /\ d \in Int  BY <1>7, <2>1
  <2>3. ascent = hy + u + pad /\ hy = top + above + d /\ above \in Int /\ above >= 0
    BY <1>8, <1>10, <1>16, <2>1
  <2> HIDE DEF u, d
  <2>4. Bottom(q) = hy - d /\ Top(q) = hy + u  BY <2>1 DEF Bottom, Top
  <2>6. pad \in Nat /\ top \in Int /\ q.y = hy  BY <1>5, <1>8, <2>1
  <2>7. Bottom(q) - top = above /\ Bottom(q) >= top  BY <2>2, <2>3, <2>4, <2>6
  <2>8. q.y - top = above + d  BY <2>2, <2>3, <2>6
  <2>9. ascent - Top(q) = pad /\ Top(q) <= ascent  BY <2>2, <2>3, <2>4, <2>6
  <2>5. Bottom(q) - top = above /\ q.y - top = above + d /\ ascent - Top(q) = pad
        /\ Bottom(q) >= top /\ Top(q) <= ascent
    BY <2>7, <2>8, <2>9
  <2> QED  BY <2>5 DEF d
<1>27. \A q \in Members(low) :
         /\ -bottom - Top(q) = below /\ -bottom - q.y = below + sub[1].ascent
         /\ Bottom(q) + descent = pad /\ Top(q) <= -bottom /\ -Bottom(q) <= descent
  <2> TAKE q \in Members(low)
  <2> DEFINE u == sub[1].ascent
             d == sub[1].descent
  <2>1. /\ q.y = ly /\ q.ascent = u /\ q.descent = d /\ sub # << >>  BY <1>22
  <2>2. u \in Int /\ d \in Int  BY <1>7, <2>1
  <2>3. descent = d - ly + pad /\ ly = -(bottom + below + u) /\ below \in Int /\ below >= 0
    BY <1>8, <1>11, <1>17, <2>1
  <2> HIDE DEF u, d
  <2>4. Bottom(q) = ly - d /\ Top(q) = ly + u  BY <2>1 DEF Bottom, Top
  <2>6. pad \in Nat /\ bottom \in Int /\ q.y = ly  BY <1>5, <1>8, <2>1
  <2>10. ly \in Int /\ ly = -bottom - below - u  BY <2>2, <2>3, <2>6
  <2>7. -bottom - Top(q) = below /\ Top(q) <= -bottom  BY <2>2, <2>3, <2>4, <2>6, <2>10
  <2>8. -bottom - q.y = below + u  BY <2>2, <2>3, <2>6, <2>10
  <2>9. Bottom(q) + descent = pad /\ -Bottom(q) <= descent
    BY <2>2, <2>3, <2>4, <2>6, <2>10, SMTT(30)
  <2>5. -bottom - Top(q) = below /\ -bottom - q.y = below + u /\ Bottom(q) + descent = pad
        /\ Top(q) <= -bottom /\ -Bottom(q) <= descent
    BY <2>7, <2>8, <2>9
  <2> QED  BY <2>5 DEF u
<1>28. Formed(b)
  <2>1. ascent + descent >= 0  BY <1>5, <1>24, <1>25
  <2> QED  BY <1>2, <1>6, <1>23, <1>24, <1>25, <2>1 DEF Formed, Extents
<1>29. HoldsInk(b)
  <2> SUFFICES ASSUME NEW q \in Members(nodes) PROVE Top(q) <= ascent /\ -Bottom(q) <= descent
    BY <1>2 DEF HoldsInk
  <2>0. q \in NodeType  BY <1>23, MembersTyped
  <2>1. Top(q) \in Int /\ Bottom(q) \in Int  BY <2>0, NodeFields DEF Top, Bottom
  <2>2. CASE q = op  BY <1>5, <1>19, <1>24, <1>25, <2>2
  <2>3. CASE q \in Members(high)
    <3>1. Bottom(q) >= top /\ Top(q) <= ascent  BY <1>26, <2>3
    <3> QED  BY <1>5, <1>25, <2>1, <3>1
  <2>4. CASE q \in Members(low)
    <3>1. Top(q) <= -bottom /\ -Bottom(q) <= descent  BY <1>27, <2>4
    <3> QED  BY <1>5, <1>24, <2>1, <3>1
  <2> QED  BY <1>23, <2>2, <2>3, <2>4
<1>30. /\ \A q : Plays(b.children, q, "SUP") => q \in Members(high)
       /\ \A q : Plays(b.children, q, "SUB") => q \in Members(low)
       /\ Plays(b.children, op, "NUCLEUS")
  BY <1>2, <1>18, <1>21, <1>22, <1>23 DEF Plays
<1>31. Single(b.children, "SUP") /\ Single(b.children, "SUB")
  <2>1. /\ Members(high) = {} \/ \E p : Members(high) = {p}
        /\ Members(low) = {} \/ \E p : Members(low) = {p}
    BY <1>14, <1>15 DEF Stands
  <2>2. /\ Members(high) = {} => Absent(b.children, "SUP")
        /\ Members(low) = {} => Absent(b.children, "SUB")
    BY <1>2, <1>18, <1>21, <1>22, <1>23 DEF Absent
  <2>3. /\ \A q \in Members(high) : Plays(b.children, q, "SUP")
        /\ \A q \in Members(low) : Plays(b.children, q, "SUB")
    BY <1>2, <1>18, <1>21, <1>22, <1>23 DEF Plays
  <2> QED  BY <2>1, <2>2, <2>3 DEF Single
<1>32. \A q \in Members(high) :
         /\ Bottom(q) - Top(op) >= P("space1", s) /\ q.y - Top(op) >= P("space3", s)
         /\ b.ascent - Top(q) >= P("space5", s)
  <2> TAKE q \in Members(high)
  <2>1. sup # << >>  BY <1>21
  <2>2. Bottom(q) - top >= P("space1", s) /\ q.y - top >= P("space3", s)  BY <1>10, <1>26, <2>1
  <2>3. ascent - Top(q) >= P("space5", s)  BY <1>8, <1>26 DEF pad
  <2> QED  BY <1>2, <1>19, <2>2, <2>3
<1>33. \A q \in Members(low) :
         /\ Bottom(op) - Top(q) >= P("space2", s) /\ Bottom(op) - q.y >= P("space4", s)
         /\ Bottom(q) + b.descent >= P("space5", s)
  <2> TAKE q \in Members(low)
  <2>1. sub # << >>  BY <1>22
  <2>2. -bottom - Top(q) >= P("space2", s) /\ -bottom - q.y >= P("space4", s)
    BY <1>11, <1>27, <2>1
  <2>3. Bottom(q) + descent >= P("space5", s)  BY <1>8, <1>27 DEF pad
  <2> QED  BY <1>2, <1>19, <2>2, <2>3
<1>34. \A p \in Members(high), q \in Members(low) :
         q.x + q.width \div 2 <= p.x + p.width \div 2 + 1
  <2> TAKE p \in Members(high), q \in Members(low)
  <2> DEFINE pw == sup[1].width
             qw == sub[1].width
  <2>1. /\ p.x = hx /\ p.width = pw /\ sup # << >> /\ q.x = lx /\ q.width = qw /\ sub # << >>
    BY <1>21, <1>22
  <2>2. pw \in Nat /\ qw \in Nat  BY <1>6, <2>1
  <2>3. hx \in Int /\ lx \in Int /\ 2 * (hx - nudge) >= width - pw /\ 2 * (lx + nudge) <= width - qw + 1
    BY <1>10, <1>11, <2>1
  <2> HIDE DEF pw, qw
  <2>4. lx + qw \div 2 <= hx + pw \div 2 + 1  BY <1>6, <1>9, <2>2, <2>3
  <2> QED  BY <2>1, <2>4
<1>35. LimitsKept(b, s)  BY <1>30, <1>31, <1>32, <1>33, <1>34 DEF LimitsKept
<1> QED  BY <1>2, <1>23, <1>28, <1>29, <1>35 DEF Whole, b

-----------------------------------------------------------------------------
(***************************************************************************)
(* Radicals.                                                               *)
(***************************************************************************)
SignAsks(s, target) == {Asks("SIGN", Sign, s, target)}

SignOver(sign, bar, radicand, s, target) ==
  LET spare == Bottom(bar) - Top(radicand) - RadicalClearance(s) IN
  /\ Top(sign) = Top(bar) /\ Right(sign) = bar.x
  /\ radicand.x = bar.x /\ radicand.width = bar.width
  /\ spare >= 0
  /\ Tall(sign) >= target =>
       Bottom(sign) <= Bottom(radicand) /\ Apart(Bottom(radicand) - Bottom(sign), spare) <= 1

RadicalKept(b, s, target) ==
  \E sign, bar, radicand :
    /\ Plays(b.children, sign, "SIGN") /\ Plays(b.children, bar, "RULE")
    /\ Plays(b.children, radicand, "RADICAND")
    /\ SignOver(sign, bar, radicand, s, target)

(* The sign as it is taken from its ladder.                                *)
Signed(n, s, target) ==
  /\ n \in NodeType /\ n.kind # "KERN" /\ n.role = "SIGN" /\ n.src = 0
  /\ n.width \in Nat /\ n.width >= P("kernAfter", s) /\ n.ascent + n.descent >= 0
  /\ Fits(n, Asks("SIGN", Sign, s, target))

LEMMA SmallestTaken ==
  ASSUME NEW name \in DOMAIN Ladders, ~Ladders[name].null, Ladders[name].ladder = "NEVER",
         NEW s \in MathStyles, NEW target \in Int, NEW role \in Roles, NEW src \in Int
  PROVE  WidthTaken(Chosen(Ladders[name], s, target, role, src), Candidates(Ladders[name], s))
  BY ChosenFormed

LEMMA SignFormed ==
  ASSUME NEW s \in MathStyles, NEW target \in Int
  PROVE  Signed(DelimiterNode(Sign, s, target, "SIGN", 0), s, target)
<1> DEFINE n    == DelimiterNode(Sign, s, target, "SIGN", 0)
           base == Chosen(Ladders[Sign], s, target, "SIGN", 0)
           y    == P("axis", s) - Half(base.ascent - base.descent)
<1>1. Sign \in DOMAIN Ladders  BY BoxesAssumption
<1>2. "SIGN" \in Roles  BY DEF Roles
<1>3. ~Ladders[Sign].null /\ Ladders[Sign].ladder = "NEVER"  BY TablesAscend
<1>4. Delimited(n, Sign, s, target, "SIGN", 0)
  <2> HIDE DEF n
  <2> QED  BY <1>1, <1>2, DelimiterFormed DEF n
<1>5. n = At(base, 0, y)  BY <1>3 DEF DelimiterNode, Centred
<1>6. base.width >= P("kernAfter", s)
  <2> DEFINE c == Candidates(Ladders[Sign], s)
  <2>1. \E k \in DOMAIN c : base.width = c[k].width
    <3> DEFINE name == Sign
    <3>1. /\ name \in DOMAIN Ladders /\ ~Ladders[name].null /\ Ladders[name].ladder = "NEVER"
          /\ name = Sign
      BY <1>1, <1>3
    <3> HIDE DEF name
    <3>2. WidthTaken(Chosen(Ladders[name], s, target, "SIGN", 0), Candidates(Ladders[name], s))
      BY <1>2, <3>1, SmallestTaken
    <3> QED  BY <3>1, <3>2 DEF WidthTaken
  <2>2. \A k \in DOMAIN c : c[k].width >= P("kernAfter", s)  BY TablesAscend
  <2> QED  BY <2>1, <2>2
<1>7. n.width = base.width
  <2> HIDE DEF base, y, n
  <2> QED  BY <1>5 DEF At
<1> HIDE DEF n, base
<1>8. Signed(n, s, target)  BY <1>3, <1>4, <1>6, <1>7 DEF Delimited, Signed
<1> QED  BY <1>8 DEF n

LEMMA SignMoved ==
  ASSUME NEW s, NEW target, NEW n, Signed(n, s, target), NEW x \in Int, NEW y \in Int,
         NEW m, m = At(n, x, y)
  PROVE  /\ m \in NodeType /\ m.x = x /\ m.y = y /\ m.kind # "KERN" /\ m.role = "SIGN"
         /\ m.src = 0 /\ m.width = n.width /\ m.ascent = n.ascent /\ m.descent = n.descent
         /\ Answers(m, Asks("SIGN", Sign, s, target))
<1> DEFINE a == Asks("SIGN", Sign, s, target)
<1>1. n \in NodeType /\ n.kind # "KERN" /\ n.role = "SIGN" /\ n.src = 0 /\ Fits(n, a)
  BY DEF Signed
<1>2. /\ m \in NodeType /\ m.x = x /\ m.y = y /\ m.kind = n.kind /\ m.role = n.role
      /\ m.src = n.src /\ m.width = n.width /\ m.ascent = n.ascent /\ m.descent = n.descent
      /\ m.parts = n.parts
  BY <1>1, AtFormed
<1>3. Fits(m, a)
  <2>1. Tall(m) = Tall(n)  BY <1>2 DEF Tall
  <2>2. LadderHeld(n, a) => LadderHeld(m, a)  BY <1>2, <2>1 DEF LadderHeld
  <2> QED  BY <1>1, <1>2, <2>2 DEF Fits
<1>4. a.role = "SIGN"  BY DEF Asks
<1>5. Answers(m, a)  BY <1>3, <1>4 DEF Answers
<1> QED  BY <1>1, <1>2, <1>5

(* The index and the kerns on its two sides.                               *)
Indexed(c, index, x) ==
  /\ c \in Seq(NodeType) /\ Ordered(c)
  /\ \A n \in Members(c) : n.role = "INDEX" /\ n.src = 1
  /\ index = << >> => Ink(c) = {} /\ Len(c) = 0 /\ c = << >>
  /\ index # << >> => /\ Len(c) = 3 /\ c # << >>
                      /\ \E n \in NodeType : /\ Ink(c) = {n} /\ n.x = x
                                             /\ n.width = index[1].width

LEMMA IndexDrawn ==
  ASSUME NEW index, Optional(index), NEW s \in MathStyles, NEW raise \in Int
  PROVE  Indexed(DrawIndex(index, s, raise), index, P("kernBefore", s))
<1> DEFINE c  == DrawIndex(index, s, raise)
           kb == P("kernBefore", s)
           ka == P("kernAfter", s)
<1>1. kb \in Nat /\ ka \in Nat  BY Tables DEF Parameters
<1>2. "INDEX" \in Roles  BY DEF Roles
<1>3. CASE index = << >>
  <2>1. c = << >>  BY <1>3 DEF DrawIndex
  <2> HIDE DEF c
  <2>2. Members(c) = {} /\ Ordered(c) /\ Len(c) = 0 /\ c \in Seq(NodeType)  BY <2>1, NoMember
  <2>3. Ink(c) = {}  BY <2>2, InkOf
  <2>4. Indexed(c, index, kb)  BY <1>3, <2>1, <2>2, <2>3 DEF Indexed
  <2> QED  BY <2>4 DEF c
<1>4. CASE index # << >>
  <2> DEFINE b == index[1]
             w == b.width
             p == Kern("INDEX", 1, kb)
             n == Child(b, "INDEX", 1, kb, raise)
             k == Kern("INDEX", 1, -ka)
             q == At(k, kb + w, 0)
  <2>1. c = <<p, n, q>>  BY <1>4 DEF DrawIndex
  <2>2. Extents(b) /\ w \in Nat  BY <1>4 DEF Optional, Extents
  <2> HIDE DEF b
  <2>3. p \in NodeType /\ p.kind = "KERN" /\ p.role = "INDEX" /\ p.src = 1
    <3>1. kb \in Int  BY <1>1
    <3> QED  BY <1>2, <3>1, KernFormed
  <2>4. /\ n \in NodeType /\ n.kind = "HBOX" /\ n.role = "INDEX" /\ n.src = 1 /\ n.x = kb
        /\ n.width = w
    <3>1. kb \in Int  BY <1>1
    <3> QED  BY <1>2, <2>2, <3>1, ChildFormed
  <2>5. q \in NodeType /\ q.kind = "KERN" /\ q.role = "INDEX" /\ q.src = 1
    <3> DEFINE v == -ka
               x == kb + w
    <3>1. v \in Int /\ x \in Int  BY <1>1, <2>2
    <3> HIDE DEF v, x
    <3>2. k \in NodeType /\ k.kind = "KERN" /\ k.role = "INDEX" /\ k.src = 1
      BY <1>2, <3>1, KernFormed DEF v
    <3> HIDE DEF k
    <3> QED  BY <3>1, <3>2, AtFormed DEF x
  <2> HIDE DEF p, n, q, c
  <2>6. c \in Seq(NodeType) /\ Len(c) = 3 /\ Members(c) = {p, n, q} /\ Ordered(c)
    <3>1. p.src <= n.src /\ n.src <= q.src  BY <2>3, <2>4, <2>5
    <3> QED  BY <2>1, <2>3, <2>4, <2>5, <3>1, Triple
  <2>7. Ink(c) = {n}  BY <2>3, <2>4, <2>5, <2>6, InkOf
  <2>8. c # << >>  BY <2>6
  <2>9. \A m \in Members(c) : m.role = "INDEX" /\ m.src = 1  BY <2>3, <2>4, <2>5, <2>6
  <2>10. Indexed(c, index, kb)  BY <1>4, <2>4, <2>6, <2>7, <2>8, <2>9 DEF Indexed, w, b
  <2> QED  BY <2>10 DEF c
<1> QED  BY <1>3, <1>4

(* Extents around at most one node of ink.                                 *)
LEMMA InkAround ==
  ASSUME NEW c, Ink(c) = {} \/ \E n \in NodeType : Ink(c) = {n}, NEW v \in Int
  PROVE  /\ LET u == Largest({v} \cup {n.y + n.ascent : n \in Ink(c)}) IN
            u \in Int /\ v <= u /\ \A n \in Ink(c) : Top(n) <= u
         /\ LET d == Largest({v} \cup {n.descent - n.y : n \in Ink(c)}) IN
            d \in Int /\ v <= d /\ \A n \in Ink(c) : -Bottom(n) <= d
<1> DEFINE U == {v} \cup {n.y + n.ascent : n \in Ink(c)}
           D == {v} \cup {n.descent - n.y : n \in Ink(c)}
<1>1. CASE Ink(c) = {}
  <2>1. U = {v} /\ D = {v}  BY <1>1
  <2>2. Largest({v}) = v  BY LargestOne
  <2> QED  BY <1>1, <2>1, <2>2
<1>2. CASE \E n \in NodeType : Ink(c) = {n}
  <2>1. PICK n \in NodeType : Ink(c) = {n}  BY <1>2
  <2> DEFINE t == n.y + n.ascent
             l == n.descent - n.y
  <2>2. n.y \in Int /\ n.ascent \in Int /\ n.descent \in Int  BY NodeFields
  <2>3. t \in Int /\ l \in Int /\ Top(n) = t /\ -Bottom(n) = l  BY <2>2 DEF Top, Bottom
  <2>4. U = {v, t, t} /\ D = {v, l, l}  BY <2>1
  <2> HIDE DEF t, l, U, D
  <2>5. Largest(U) \in Int /\ Largest(U) >= v /\ Largest(U) >= t  BY <2>3, <2>4, LargestThree
  <2>6. Largest(D) \in Int /\ Largest(D) >= v /\ Largest(D) >= l  BY <2>3, <2>4, LargestThree
  <2>7. Largest(U) \in Int /\ v <= Largest(U) /\ \A m \in Ink(c) : Top(m) <= Largest(U)
    BY <2>1, <2>3, <2>5
  <2>8. Largest(D) \in Int /\ v <= Largest(D) /\ \A m \in Ink(c) : -Bottom(m) <= Largest(D)
    BY <2>1, <2>3, <2>6
  <2> QED  BY <2>7, <2>8 DEF U, D
<1> QED  BY <1>1, <1>2

(* Half of the excess of the sign joins the clearance.                     *)
LEMMA ExcessShared ==
  ASSUME NEW v \in Int
  PROVE  LET h == Larger(Half(v), 0) IN
         /\ h \in Nat
         /\ v >= 0 => h <= v /\ Apart(v - h, h) <= 1
<1> DEFINE g == Half(v)
<1>1. g \in Int /\ (2 * g = v \/ 2 * g = v + 1)  BY Halves
<1> HIDE DEF g
<1>2. LET h == Larger(g, 0) IN /\ h \in Nat
                               /\ v >= 0 => h <= v /\ Apart(v - h, h) <= 1
  BY <1>1 DEF Larger, Apart
<1> QED  BY <1>2 DEF g

LEMMA RadicalDrawn ==
  ASSUME NEW radicand, Extents(radicand), NEW index, Optional(index), NEW s \in MathStyles,
         NEW sign, Signed(sign, s, RadicalTarget(radicand, s))
  PROVE  LET b == RadicalAround(radicand, index, sign, s) IN
         /\ Whole(b) /\ HoldsWidth(b) /\ b.slots = Len(b.children)
         /\ RadicalKept(b, s, RadicalTarget(radicand, s))
         /\ Answered(b, SignAsks(s, RadicalTarget(radicand, s)))
<1> DEFINE target  == RadicalTarget(radicand, s)
           ra      == radicand.ascent
           rd      == radicand.descent
           rw      == radicand.width
           sa      == sign.ascent
           sd      == sign.descent
           sw      == sign.width
           cl      == RadicalClearance(s)
           ru      == P("rule", s)
           kb      == P("kernBefore", s)
           ka      == P("kernAfter", s)
           half    == Larger(Half(Tall(sign) - target), 0)
           bottom  == RadicalBar(radicand, sign, s)
           top     == bottom + ru
           raise   == RadicalRaise(radicand, sign, top)
           aside   == DrawIndex(index, s, raise)
           lead    == IF index = << >> THEN 0 ELSE kb + index[1].width - ka
           content == lead + sw
           sy      == top - sa
           below   == Larger(rd, sd - sy)
           upper   == Largest({top} \cup {n.y + n.ascent : n \in Ink(aside)})
           lower   == Largest({below} \cup {n.descent - n.y : n \in Ink(aside)})
           slots   == IF aside = << >> THEN 3 ELSE 6
           sg      == At(sign, lead, sy)
           plain   == Node("RULE", "RULE", 0, rw, ru, 0)
           bar     == At(plain, content, bottom)
           rad     == Child(radicand, "RADICAND", 2, content, 0)
           nodes   == <<sg, bar>> \o aside \o <<rad>>
           width   == content + rw
           b       == RadicalAround(radicand, index, sign, s)
<1>1. b = Box(width, upper, lower, slots, nodes)  BY DEF RadicalAround, DrawRadical
<1>2. /\ b.width = width /\ b.ascent = upper /\ b.descent = lower /\ b.slots = slots
      /\ b.children = nodes
  <2> HIDE DEF width, upper, lower, slots, nodes, b
  <2> QED  BY <1>1 DEF Box
<1> HIDE DEF b
<1>3. ra \in Int /\ rd \in Int /\ rw \in Nat /\ ra + rd >= 0  BY DEF Extents
<1>4. /\ sign \in NodeType /\ sa \in Int /\ sd \in Int /\ sw \in Nat /\ sa + sd >= 0
      /\ sw >= ka
  BY NodeFields DEF Signed
<1>5. ru \in Nat \ {0} /\ kb \in Nat /\ ka \in Nat /\ cl \in Nat
  <2>1. ru \in Nat \ {0} /\ kb \in Nat /\ ka \in Nat /\ P("xHeight", s) \in Nat
    BY Tables DEF Parameters
  <2> DEFINE v == IF s < Text THEN P("xHeight", s) ELSE ru
  <2>2. v \in Int /\ v >= 0  BY <2>1
  <2>3. cl = ru + v \div 4  BY DEF RadicalClearance
  <2> HIDE DEF v, ru
  <2>4. v \div 4 \in Int /\ v \div 4 >= 0  BY <2>2
  <2> QED  BY <2>1, <2>3, <2>4
<1>6. target = ra + rd + cl + ru /\ target \in Int
  <2>1. target = ra + rd + cl + ru  BY DEF RadicalTarget
  <2> HIDE DEF target, ra, rd, cl, ru
  <2> QED  BY <1>3, <1>5, <2>1
<1>7. Tall(sign) = sa + sd /\ Tall(sign) \in Int
  <2>1. Tall(sign) = sa + sd  BY DEF Tall
  <2> HIDE DEF sa, sd
  <2> QED  BY <1>4, <2>1
<1>8. /\ half \in Nat
      /\ Tall(sign) >= target =>
           half <= Tall(sign) - target /\ Apart((Tall(sign) - target) - half, half) <= 1
  <2> DEFINE v == Tall(sign) - target
  <2>1. v \in Int /\ (Tall(sign) >= target => v >= 0)
    <3> HIDE DEF target
    <3> QED  BY <1>6, <1>7
  <2> HIDE DEF v
  <2>2. LET h == Larger(Half(v), 0) IN
        h \in Nat /\ (v >= 0 => h <= v /\ Apart(v - h, h) <= 1)
    BY <2>1, ExcessShared
  <2> QED  BY <2>1, <2>2 DEF v
<1>9. bottom = ra + cl + half  BY DEF RadicalBar
<1> HIDE DEF half, bottom, target, ra, rd, rw, sa, sd, sw, cl, ru, kb, ka
<1>10. /\ bottom \in Int /\ top \in Int /\ top = bottom + ru /\ sy \in Int /\ sy = top - sa
  BY <1>3, <1>4, <1>5, <1>8, <1>9
<1> HIDE DEF top
<1>11. /\ below \in Int /\ below >= rd /\ below >= sd - sy
  <2> DEFINE v == sd - sy
  <2>1. v \in Int  BY <1>4, <1>10
  <2> HIDE DEF v
  <2>2. below = Larger(rd, v) /\ rd \in Int  BY <1>3 DEF v
  <2>3. below \in Int /\ below >= rd /\ below >= v  BY <2>1, <2>2, LargerOf
  <2> QED  BY <2>3 DEF v
<1>12. raise \in Int
  <2> DEFINE v == top - below
             u == Raise * v
  <2>1. raise = u \div Unit  BY DEF RadicalRaise, Em, rd, sd, sa
  <2>2. Raise \in Nat /\ Unit \in Nat \ {0}  BY BoxesAssumption
  <2>3. v \in Int  BY <1>10, <1>11
  <2> HIDE DEF v
  <2>4. u \in Int  BY <2>2, <2>3
  <2> HIDE DEF u
  <2> QED  BY <2>1, <2>2, <2>4, Quotient
<1>13. Indexed(aside, index, kb)
  <2> HIDE DEF raise
  <2> QED  BY <1>12, IndexDrawn DEF kb
<1>14. /\ lead \in Int /\ content \in Nat /\ content = lead + sw
       /\ index # << >> => kb + index[1].width <= content
  <2>1. CASE index = << >>  BY <1>4, <2>1
  <2>2. CASE index # << >>
    <3> DEFINE iw == index[1].width
    <3>1. iw \in Nat  BY <2>2 DEF Optional, Extents
    <3>2. lead = kb + iw - ka  BY <2>2
    <3> HIDE DEF iw, lead
    <3>3. lead \in Int /\ content \in Nat /\ kb + iw <= content  BY <1>4, <1>5, <3>1, <3>2
    <3> QED  BY <3>3 DEF iw
  <2> QED  BY <2>1, <2>2
<1> HIDE DEF lead, content, sy, below, aside, raise
<1>15. /\ sg \in NodeType /\ sg.x = lead /\ sg.y = sy /\ sg.kind # "KERN" /\ sg.role = "SIGN"
       /\ sg.src = 0 /\ sg.width = sw /\ sg.ascent = sa /\ sg.descent = sd
       /\ Answers(sg, Asks("SIGN", Sign, s, target))
  <2>1. Signed(sign, s, target)  BY DEF target
  <2>2. sg = At(sign, lead, sy)  OBVIOUS
  <2> HIDE DEF sg
  <2> QED  BY <1>10, <1>14, <2>1, <2>2, SignMoved DEF sw, sa, sd
<1>16. /\ bar \in NodeType /\ bar.x = content /\ bar.y = bottom /\ bar.kind = "RULE"
       /\ bar.role = "RULE" /\ bar.src = 0 /\ bar.width = rw /\ bar.ascent = ru /\ bar.descent = 0
  <2>1. "RULE" \in Roles /\ "RULE" \in Kinds  BY DEF Roles, Kinds
  <2>2. rw \in Int /\ rw >= 0 /\ ru \in Int  BY <1>3, <1>5
  <2>3. plain \in NodeType  BY <2>1, <2>2, NodeFormed
  <2>4. /\ plain.kind = "RULE" /\ plain.role = "RULE" /\ plain.src = 0 /\ plain.width = rw
        /\ plain.ascent = ru /\ plain.descent = 0
    BY DEF Node
  <2> HIDE DEF plain
  <2>5. content \in Int  BY <1>14
  <2> QED  BY <1>10, <2>3, <2>4, <2>5, AtFormed
<1>17. /\ rad \in NodeType /\ rad.x = content /\ rad.y = 0 /\ rad.kind = "HBOX"
       /\ rad.role = "RADICAND" /\ rad.src = 2 /\ rad.width = rw /\ rad.ascent = ra
       /\ rad.descent = rd
  <2>1. "RADICAND" \in Roles  BY DEF Roles
  <2>2. content \in Int  BY <1>14
  <2> QED  BY <2>1, <2>2, ChildFormed DEF rw, ra, rd
<1> HIDE DEF sg, bar, rad
<1>18. /\ nodes \in Seq(NodeType) /\ Members(nodes) = {sg, bar, rad} \cup Members(aside)
       /\ Ordered(nodes) /\ Len(nodes) = 3 + Len(aside) /\ aside \in Seq(NodeType)
       /\ \A n \in Members(aside) : n.role = "INDEX" /\ n.src = 1
  <2> DEFINE one  == <<sg, bar>>
             two  == one \o aside
             last == <<rad>>
  <2>1. one \in Seq(NodeType) /\ Len(one) = 2 /\ Members(one) = {sg, bar} /\ Ordered(one)
    <3>1. sg.src <= bar.src  BY <1>15, <1>16
    <3> QED  BY <1>15, <1>16, <3>1, Pair
  <2>2. last \in Seq(NodeType) /\ Len(last) = 1 /\ Members(last) = {rad} /\ Ordered(last)
    BY <1>17, OneMember
  <2>3. /\ aside \in Seq(NodeType) /\ Ordered(aside) /\ Len(aside) \in Nat
        /\ \A n \in Members(aside) : n.role = "INDEX" /\ n.src = 1
    BY <1>13 DEF Indexed
  <2>4. nodes = two \o last /\ two = one \o aside  OBVIOUS
  <2> HIDE DEF one, two, last, nodes
  <2>5. \A m \in Members(one), n \in Members(aside) : m.src <= n.src
    BY <1>15, <1>16, <2>1, <2>3
  <2>6. /\ two \in Seq(NodeType) /\ Len(two) = 2 + Len(aside)
        /\ Members(two) = {sg, bar} \cup Members(aside) /\ Ordered(two)
    BY <2>1, <2>3, <2>4, <2>5, Joined
  <2>7. \A m \in Members(two), n \in Members(last) : m.src <= n.src
    BY <1>15, <1>16, <1>17, <2>2, <2>3, <2>6
  <2>8. /\ nodes \in Seq(NodeType) /\ Len(nodes) = Len(two) + 1
        /\ Members(nodes) = Members(two) \cup {rad} /\ Ordered(nodes)
    BY <2>2, <2>4, <2>6, <2>7, Joined, ZenonT(30)
  <2> QED  BY <2>3, <2>6, <2>8
<1> HIDE DEF nodes
<1>19. slots = Len(nodes)
  <2>1. CASE index = << >>
    <3>1. aside = << >> /\ Len(aside) = 0  BY <1>13, <2>1 DEF Indexed
    <3> QED  BY <1>18, <3>1
  <2>2. CASE index # << >>
    <3>1. aside # << >> /\ Len(aside) = 3  BY <1>13, <2>2 DEF Indexed
    <3> QED  BY <1>18, <3>1
  <2> QED  BY <2>1, <2>2
<1>20. Ink(aside) = {} \/ \E n \in NodeType : Ink(aside) = {n}
  BY <1>13 DEF Indexed
<1>21. /\ upper \in Int /\ top <= upper /\ \A n \in Ink(aside) : Top(n) <= upper
       /\ lower \in Int /\ below <= lower /\ \A n \in Ink(aside) : -Bottom(n) <= lower
  BY <1>10, <1>11, <1>20, InkAround
<1> HIDE DEF upper, lower, slots
<1>22. top >= ra /\ bottom >= ra  BY <1>3, <1>5, <1>8, <1>9, <1>10
<1>23. Formed(b)
  <2>1. width \in Nat  BY <1>3, <1>14
  <2>2. upper + lower >= 0  BY <1>3, <1>10, <1>11, <1>21, <1>22
  <2> QED  BY <1>2, <1>18, <1>21, <2>1, <2>2 DEF Formed, Extents
<1>24. /\ Top(sg) = top /\ Bottom(sg) = top - (sa + sd) /\ -Bottom(sg) = sd - sy
       /\ Right(sg) = content
  BY <1>4, <1>10, <1>14, <1>15 DEF Top, Bottom, Right
<1>25. Top(bar) = top /\ Bottom(bar) = bottom /\ Right(bar) = width
  BY <1>3, <1>5, <1>10, <1>14, <1>16 DEF Top, Bottom, Right
<1>26. Top(rad) = ra /\ Bottom(rad) = -rd /\ Right(rad) = width
  BY <1>3, <1>14, <1>17 DEF Top, Bottom, Right
<1>27. \A n \in Ink(aside) : Right(n) <= content
  <2> SUFFICES ASSUME NEW n \in Ink(aside) PROVE Right(n) <= content  OBVIOUS
  <2>1. index # << >> /\ n.x = kb /\ n.width = index[1].width  BY <1>13 DEF Indexed
  <2> QED  BY <1>14, <2>1 DEF Right
<1>28. \A n \in Members(nodes) : n \in {sg, bar, rad} \/ n \in Members(aside)
  BY <1>18
<1>29. \A n \in Members(aside) : n.kind # "KERN" => n \in Ink(aside)  BY InkOf
<1>30. HoldsInk(b)
  <2> SUFFICES ASSUME NEW n \in Members(nodes), n.kind # "KERN"
               PROVE  Top(n) <= upper /\ -Bottom(n) <= lower
    BY <1>2 DEF HoldsInk
  <2>1. CASE n = sg  BY <1>4, <1>10, <1>11, <1>21, <1>24, <2>1
  <2>2. CASE n = bar  BY <1>3, <1>10, <1>11, <1>21, <1>22, <1>25, <2>2
  <2>3. CASE n = rad  BY <1>3, <1>10, <1>11, <1>21, <1>22, <1>26, <2>3
  <2>4. CASE n \in Members(aside)  BY <1>21, <1>29, <2>4
  <2> QED  BY <1>28, <2>1, <2>2, <2>3, <2>4
<1>31. HoldsWidth(b)
  <2> SUFFICES ASSUME NEW n \in Members(nodes), n.kind # "KERN" PROVE Right(n) <= width
    BY <1>2 DEF HoldsWidth
  <2>1. content <= width /\ width \in Int /\ content \in Int  BY <1>3, <1>14
  <2>2. CASE n \in {sg, bar, rad}  BY <1>24, <1>25, <1>26, <2>1, <2>2
  <2>3. CASE n \in Members(aside)
    <3>1. Right(n) <= content /\ n \in Ink(aside)  BY <1>27, <1>29, <2>3
    <3>2. n \in NodeType  BY <1>18, <2>3, MembersTyped
    <3>3. Right(n) \in Int  BY <3>2, NodeFields DEF Right
    <3> QED  BY <2>1, <3>1, <3>3
  <2> QED  BY <1>28, <2>2, <2>3
<1>32. /\ Plays(b.children, sg, "SIGN") /\ Plays(b.children, bar, "RULE")
       /\ Plays(b.children, rad, "RADICAND")
  BY <1>2, <1>15, <1>16, <1>17, <1>18 DEF Plays
<1>33. SignOver(sg, bar, rad, s, target)
  <2>1. Tall(sg) = Tall(sign)  BY <1>7, <1>15 DEF Tall
  <2>2. Bottom(bar) - Top(rad) - cl = half /\ half >= 0
    BY <1>3, <1>5, <1>8, <1>9, <1>25, <1>26
  <2>3. Bottom(rad) - Bottom(sg) = (Tall(sign) - target) - half
    BY <1>3, <1>4, <1>5, <1>6, <1>7, <1>8, <1>9, <1>10, <1>24, <1>26
  <2>4. Tall(sign) >= target => Bottom(sg) <= Bottom(rad)
    <3> SUFFICES ASSUME Tall(sign) >= target PROVE Bottom(sg) <= Bottom(rad)  OBVIOUS
    <3>1. half <= Tall(sign) - target  BY <1>8
    <3>2. Bottom(rad) \in Int /\ Bottom(sg) \in Int
      BY <1>3, <1>4, <1>10, <1>24, <1>26
    <3> QED  BY <1>6, <1>7, <1>8, <2>3, <3>1, <3>2
  <2>5. Tall(sign) >= target => Apart(Bottom(rad) - Bottom(sg), half) <= 1  BY <1>8, <2>3
  <2>6. Top(sg) = Top(bar) /\ Right(sg) = bar.x /\ rad.x = bar.x /\ rad.width = bar.width
    BY <1>16, <1>17, <1>24, <1>25
  <2> QED  BY <2>1, <2>2, <2>4, <2>5, <2>6 DEF SignOver, cl
<1>34. RadicalKept(b, s, target)  BY <1>32, <1>33 DEF RadicalKept
<1>35. Answered(b, SignAsks(s, target))
  <2>1. Asks("SIGN", Sign, s, target).role = "SIGN"  BY DEF Asks
  <2> QED  BY <1>15, <1>32, <2>1 DEF Answered, SignAsks
<1> QED  BY <1>2, <1>18, <1>19, <1>23, <1>30, <1>31, <1>34, <1>35 DEF Whole, target, b

LEMMA RadicalWhole ==
  ASSUME NEW radicand, Extents(radicand), NEW index, Optional(index), NEW s \in MathStyles
  PROVE  LET b == RadicalBox(radicand, index, s)
             target == RadicalTarget(radicand, s)
         IN  /\ Whole(b) /\ HoldsWidth(b) /\ b.slots = Len(b.children)
             /\ RadicalKept(b, s, target) /\ Answered(b, SignAsks(s, target))
<1> DEFINE target == RadicalTarget(radicand, s)
           sign   == DelimiterNode(Sign, s, target, "SIGN", 0)
<1>1. target \in Int
  <2>1. P("rule", s) \in Int /\ P("xHeight", s) \in Int  BY Tables DEF Parameters
  <2>2. RadicalClearance(s) \in Int  BY <2>1 DEF RadicalClearance
  <2> QED  BY <2>1, <2>2 DEF RadicalTarget, Extents
<1>2. Signed(sign, s, target)
  <2> HIDE DEF target
  <2> QED  BY <1>1, SignFormed
<1>3. RadicalBox(radicand, index, s) = RadicalAround(radicand, index, sign, s)
  BY DEF RadicalBox
<1> HIDE DEF sign
<1> QED  BY <1>2, <1>3, RadicalDrawn

-----------------------------------------------------------------------------
(***************************************************************************)
(* The rows and the columns of an alignment.                               *)
(***************************************************************************)
(* Cells in rows, none of them empty.                                      *)
Gridded(grid) ==
  /\ Len(grid) \in Nat \ {0} /\ DOMAIN grid = 1 .. Len(grid)
  /\ \A r \in 1 .. Len(grid) :
       /\ Len(grid[r]) \in Nat \ {0} /\ DOMAIN grid[r] = 1 .. Len(grid[r])
       /\ \A c \in 1 .. Len(grid[r]) : Extents(grid[r][c])

(* The largest of a floor and some integers.                               *)
Floored(S, v, f, n) == S = {v} \cup {f[k] : k \in 1 .. n}

LEMMA FlooredLargest ==
  ASSUME NEW n \in Nat, NEW f, \A k \in 1 .. n : f[k] \in Int, NEW v \in Nat,
         NEW S, Floored(S, v, f, n)
  PROVE  Largest(S) \in Nat /\ v <= Largest(S) /\ \A k \in 1 .. n : f[k] <= Largest(S)
<1>1. Among(S, v, f, n) /\ v \in S /\ \A k \in 1 .. n : f[k] \in S  BY DEF Floored, Among
<1>2. v \in Int /\ S # {}  BY <1>1
<1>3. Largest(S) \in S /\ Largest(S) \in Int /\ \A k \in S : k <= Largest(S)
  BY <1>1, <1>2, LargestOf
<1>4. v <= Largest(S)  BY <1>1, <1>3
<1>5. Largest(S) \in Int  BY <1>3
<1>6. Largest(S) \in Nat  BY <1>4, <1>5
<1>7. \A k \in 1 .. n : f[k] <= Largest(S)  BY <1>1, <1>3
<1> QED  BY <1>4, <1>6, <1>7

(* A row holds its strut and its cells.                                    *)
RowHeld(row, cells, e) ==
  /\ row.ascent \in Nat /\ row.descent \in Nat
  /\ e.strutAscent <= row.ascent /\ e.strutDescent <= row.descent
  /\ \A c \in 1 .. Len(cells) : cells[c].ascent <= row.ascent /\ cells[c].descent <= row.descent

LEMMA EnvironmentFields ==
  ASSUME NEW e \in Environments
  PROVE  /\ e.strutAscent \in Nat /\ e.strutDescent \in Nat /\ e.gap \in Nat \ {0}
         /\ e.baselineskip \in Nat /\ e.lineskip \in Nat /\ e.limit \in Nat
         /\ e.delimited \in BOOLEAN /\ e.left \in DOMAIN Ladders /\ e.right \in DOMAIN Ladders
<1>1. e \in Environment /\ Delimiters \subseteq DOMAIN Ladders  BY BoxesAssumption
<1> QED  BY <1>1 DEF Environment

LEMMA RowsFormed ==
  ASSUME NEW grid, Gridded(grid), NEW e \in Environments
  PROVE  LET rows == RowExtents(grid, e) IN
         /\ DOMAIN rows = 1 .. Len(grid) /\ Len(rows) = Len(grid)
         /\ \A r \in 1 .. Len(grid) : RowHeld(rows[r], grid[r], e)
<1> DEFINE rows == RowExtents(grid, e)
           n    == Len(grid)
<1>1. n \in Nat /\ DOMAIN grid = 1 .. n  BY DEF Gridded
<1>2. ASSUME NEW r \in 1 .. n PROVE RowHeld(rows[r], grid[r], e)
  <2> DEFINE cells == grid[r]
             m == Len(cells)
             u == [c \in 1 .. m |-> cells[c].ascent]
             d == [c \in 1 .. m |-> cells[c].descent]
             U == {e.strutAscent} \cup {cells[c].ascent : c \in DOMAIN cells}
             D == {e.strutDescent} \cup {cells[c].descent : c \in DOMAIN cells}
             sa == e.strutAscent
             sd == e.strutDescent
  <2>1. rows[r] = [ascent |-> Largest(U), descent |-> Largest(D)]  BY <1>1 DEF RowExtents
  <2>2. m \in Nat /\ DOMAIN cells = 1 .. m /\ \A c \in 1 .. m : Extents(cells[c])
    BY DEF Gridded
  <2>3. \A c \in 1 .. m : cells[c].ascent \in Int /\ cells[c].descent \in Int
    BY <2>2 DEF Extents
  <2>4. sa \in Nat /\ sd \in Nat  BY EnvironmentFields
  <2> HIDE DEF cells, m
  <2>5. Floored(U, sa, u, m) /\ Floored(D, sd, d, m)  BY <2>2 DEF Floored
  <2>6. \A c \in 1 .. m : u[c] \in Int /\ d[c] \in Int  BY <2>3
  <2>7. \A c \in 1 .. m : u[c] = cells[c].ascent /\ d[c] = cells[c].descent  OBVIOUS
  <2>8. sa = e.strutAscent /\ sd = e.strutDescent  OBVIOUS
  <2> HIDE DEF U, D, u, d, sa, sd
  <2>9. Largest(U) \in Nat /\ sa <= Largest(U) /\ \A k \in 1 .. m : u[k] <= Largest(U)
    BY <2>2, <2>4, <2>5, <2>6, FlooredLargest
  <2>10. Largest(D) \in Nat /\ sd <= Largest(D) /\ \A k \in 1 .. m : d[k] <= Largest(D)
    BY <2>2, <2>4, <2>5, <2>6, FlooredLargest
  <2> DEFINE row == rows[r]
             top == Largest(U)
             low == Largest(D)
  <2>11. row.ascent = top /\ row.descent = low  BY <2>1
  <2> HIDE DEF row
  <2>12. RowHeld(row, cells, e)  BY <2>7, <2>8, <2>9, <2>10, <2>11 DEF RowHeld, m
  <2> QED  BY <2>12 DEF row, cells
<1>3. DOMAIN rows = 1 .. n  BY <1>1 DEF RowExtents
<1>4. Len(rows) = n
  <2>1. rows = [r \in 1 .. n |-> rows[r]]  BY <1>1 DEF RowExtents
  <2> HIDE DEF rows, n
  <2> QED  BY <1>1, <2>1
<1> QED  BY <1>2, <1>3, <1>4

(* A column is as wide as its widest cell.                                 *)
ColumnsHeld(columns, grid) ==
  /\ Len(columns) \in Nat \ {0} /\ DOMAIN columns = 1 .. Len(columns)
  /\ \A c \in 1 .. Len(columns) : columns[c] \in Nat
  /\ \A r \in 1 .. Len(grid) : /\ Len(grid[r]) <= Len(columns)
                               /\ \A c \in 1 .. Len(grid[r]) : grid[r][c].width <= columns[c]

LEMMA ColumnsFormed ==
  ASSUME NEW grid, Gridded(grid)
  PROVE  ColumnsHeld(ColumnWidths(grid), grid)
<1> DEFINE columns == ColumnWidths(grid)
           n == Len(grid)
           l == [r \in 1 .. n |-> Len(grid[r])]
           L == {Len(grid[r]) : r \in DOMAIN grid}
           m == Largest(L)
<1>1. n \in Nat \ {0} /\ DOMAIN grid = 1 .. n  BY DEF Gridded
<1>2. \A r \in 1 .. n : /\ Len(grid[r]) \in Nat \ {0} /\ DOMAIN grid[r] = 1 .. Len(grid[r])
                        /\ \A c \in 1 .. Len(grid[r]) : grid[r][c].width \in Nat
  BY DEF Gridded, Extents
<1>3. m \in Nat \ {0} /\ \A r \in 1 .. n : Len(grid[r]) <= m
  <2> DEFINE v == Len(grid[1])
  <2>1. v \in Nat \ {0} /\ 1 \in 1 .. n  BY <1>1, <1>2
  <2>2. L = {l[r] : r \in 1 .. n} /\ \A r \in 1 .. n : l[r] = Len(grid[r]) /\ l[r] \in Int
    BY <1>1, <1>2
  <2>3. v = l[1]  BY <2>1, <2>2
  <2> HIDE DEF v, l, L
  <2>4. Floored(L, v, l, n)  BY <2>1, <2>2, <2>3 DEF Floored
  <2>5. v \in Nat /\ n \in Nat  BY <1>1, <2>1
  <2>6. Largest(L) \in Nat /\ v <= Largest(L) /\ \A k \in 1 .. n : l[k] <= Largest(L)
    BY <2>2, <2>4, <2>5, FlooredLargest
  <2> QED  BY <2>1, <2>2, <2>6
<1> HIDE DEF m, L
<1>4. columns = [c \in 1 .. m |->
        Largest({0} \cup {grid[r][c].width : r \in {q \in DOMAIN grid : c \in DOMAIN grid[q]}})]
  BY DEF ColumnWidths, m, L
<1>5. ASSUME NEW c \in 1 .. m
      PROVE  /\ columns[c] \in Nat
             /\ \A r \in 1 .. n : c \in 1 .. Len(grid[r]) => grid[r][c].width <= columns[c]
  <2> DEFINE W == {0} \cup {grid[r][c].width : r \in {q \in DOMAIN grid : c \in DOMAIN grid[q]}}
             w == [r \in 1 .. n |-> IF c \in DOMAIN grid[r] THEN grid[r][c].width ELSE 0]
  <2>1. columns[c] = Largest(W)  BY <1>4
  <2>2. \A r \in 1 .. n : w[r] \in Int
    <3> TAKE r \in 1 .. n
    <3>1. w[r] = IF c \in DOMAIN grid[r] THEN grid[r][c].width ELSE 0  OBVIOUS
    <3> QED  BY <1>2, <3>1
  <2>3. \A r \in 1 .. n : w[r] = IF c \in DOMAIN grid[r] THEN grid[r][c].width ELSE 0  OBVIOUS
  <2>4. Floored(W, 0, w, n)
    <3>1. ASSUME NEW x \in W PROVE x \in {0} \cup {w[k] : k \in 1 .. n}
      <4>1. CASE x = 0  BY <4>1
      <4>2. CASE x # 0
        <5>1. PICK r \in DOMAIN grid : c \in DOMAIN grid[r] /\ x = grid[r][c].width
          BY <3>1, <4>2
        <5>2. r \in 1 .. n /\ w[r] = x  BY <1>1, <5>1
        <5> HIDE DEF w
        <5> QED  BY <5>2
      <4> QED  BY <4>1, <4>2
    <3>2. ASSUME NEW k \in 1 .. n PROVE w[k] \in W
      <4>1. CASE c \in DOMAIN grid[k]
        <5>1. w[k] = grid[k][c].width /\ k \in DOMAIN grid  BY <1>1, <4>1
        <5> HIDE DEF w
        <5> QED  BY <4>1, <5>1
      <4>2. CASE ~(c \in DOMAIN grid[k])
        <5>1. w[k] = 0  BY <4>2
        <5> QED  BY <5>1
      <4> QED  BY <4>1, <4>2
    <3>3. 0 \in W  OBVIOUS
    <3> HIDE DEF W, w
    <3> QED  BY <3>1, <3>2, <3>3 DEF Floored
  <2> HIDE DEF W, w
  <2>5. n \in Nat /\ 0 \in Nat  BY <1>1
  <2>6. Largest(W) \in Nat /\ \A k \in 1 .. n : w[k] <= Largest(W)
    <3> HIDE DEF n
    <3> QED  BY <2>2, <2>4, <2>5, FlooredLargest
  <2>7. \A r \in 1 .. n : c \in 1 .. Len(grid[r]) => grid[r][c].width = w[r]  BY <1>2, <2>3
  <2> QED  BY <2>1, <2>6, <2>7
<1>6. DOMAIN columns = 1 .. m  BY <1>4
<1>7. Len(columns) = m
  <2>1. columns = [c \in 1 .. m |-> columns[c]]  BY <1>4
  <2> HIDE DEF columns
  <2> QED  BY <1>3, <2>1
<1>8. \A r \in 1 .. n : \A c \in 1 .. Len(grid[r]) : c \in 1 .. m
  <2> TAKE r \in 1 .. n
  <2> TAKE c \in 1 .. Len(grid[r])
  <2>1. Len(grid[r]) \in Nat /\ Len(grid[r]) <= m  BY <1>2, <1>3
  <2> QED  BY <1>3, <2>1
<1> HIDE DEF columns
<1>9. ColumnsHeld(columns, grid)  BY <1>3, <1>5, <1>6, <1>7, <1>8 DEF ColumnsHeld
<1> QED  BY <1>9 DEF columns

(* The baselines, as a running sum of skips that leave room for the rows.  *)
Skips(rows, e) == [r \in 2 .. Len(rows) |-> BaselineSkip(rows[r - 1], rows[r], e)]

LEMMA SkipRoom ==
  ASSUME NEW above, NEW below, NEW e \in Environments, above.descent \in Nat, below.ascent \in Nat
  PROVE  BaselineSkip(above, below, e) \in Nat
         /\ BaselineSkip(above, below, e) >= above.descent + below.ascent
<1> DEFINE d == above.descent
           a == below.ascent
           skip == e.baselineskip
           line == e.lineskip
           least == e.limit
           k == BaselineSkip(above, below, e)
<1>1. skip \in Nat /\ line \in Nat /\ least \in Nat  BY EnvironmentFields
<1>2. k = IF skip - (d + a) < least THEN (d + a) + line ELSE skip  BY DEF BaselineSkip
<1>3. d \in Nat /\ a \in Nat  OBVIOUS
<1> HIDE DEF d, a, skip, line, least, k
<1>4. k \in Nat /\ k >= d + a  BY <1>1, <1>2, <1>3
<1> QED  BY <1>4 DEF d, a, k

LEMMA BaselinesRun ==
  ASSUME NEW rows, NEW e, NEW n \in Nat, DOMAIN rows = 1 .. n, Len(rows) = n,
         \A r \in 2 .. n : Skips(rows, e)[r] \in Int
  PROVE  Runs(Baselines(rows, e), n, 0, Skips(rows, e))
<1> DEFINE d == Skips(rows, e)
           below[r \in DOMAIN rows] ==
             IF r = 1 THEN 0 ELSE below[r - 1] + BaselineSkip(rows[r - 1], rows[r], e)
<1>1. \A r \in 2 .. n : d[r] = BaselineSkip(rows[r - 1], rows[r], e)  BY DEF Skips
<1>2. \A r \in 1 .. n : r # 1 => r \in 2 .. n  OBVIOUS
<1>3. \A r \in 2 .. n : d[r] \in Int  OBVIOUS
<1> HIDE DEF d
<1>4. PICK f : Runs(f, n, 0, d)  BY <1>3, RunExists
<1>5. f = [r \in DOMAIN rows |->
             IF r = 1 THEN 0 ELSE f[r - 1] + BaselineSkip(rows[r - 1], rows[r], e)]
  <2>1. f = [r \in 1 .. n |-> IF r = 1 THEN 0 ELSE f[r - 1] + d[r]]  BY <1>4 DEF Runs
  <2>2. \A r \in 1 .. n : r # 1 =>
          f[r - 1] + d[r] = f[r - 1] + BaselineSkip(rows[r - 1], rows[r], e)
    BY <1>1, <1>2
  <2> QED  BY <2>1, <2>2
<1>6. below = CHOOSE g : g = [r \in DOMAIN rows |->
                IF r = 1 THEN 0 ELSE g[r - 1] + BaselineSkip(rows[r - 1], rows[r], e)]
  BY DEF below
<1>7. Baselines(rows, e) = below  BY DEF Baselines
<1> HIDE DEF below
<1>8. below = [r \in DOMAIN rows |->
                IF r = 1 THEN 0 ELSE below[r - 1] + BaselineSkip(rows[r - 1], rows[r], e)]
  BY <1>5, <1>6, Zenon
<1>9. below = [r \in 1 .. n |-> IF r = 1 THEN 0 ELSE below[r - 1] + d[r]]
  <2>1. \A r \in 1 .. n : r # 1 =>
          below[r - 1] + d[r] = below[r - 1] + BaselineSkip(rows[r - 1], rows[r], e)
    BY <1>1, <1>2
  <2> QED  BY <1>8, <2>1
<1> QED  BY <1>7, <1>9 DEF Runs, d

(* And the starts of the columns.                                          *)
Widen(columns, e) == [c \in 2 .. Len(columns) + 1 |-> columns[c - 1] + e.gap]

LEMMA StartsRun ==
  ASSUME NEW columns, NEW e, NEW m \in Nat, m = Len(columns) + 1,
         \A c \in 2 .. m : Widen(columns, e)[c] \in Int
  PROVE  Runs(ColumnStarts(columns, e), m, 0, Widen(columns, e))
<1> DEFINE d == Widen(columns, e)
           start[c \in 1 .. Len(columns) + 1] ==
             IF c = 1 THEN 0 ELSE start[c - 1] + (columns[c - 1] + e.gap)
<1>1. \A c \in 2 .. m : d[c] = columns[c - 1] + e.gap  BY DEF Widen
<1>2. \A c \in 1 .. m : c # 1 => c \in 2 .. m  OBVIOUS
<1>3. \A c \in 2 .. m : d[c] \in Int  OBVIOUS
<1> HIDE DEF d
<1>4. PICK f : Runs(f, m, 0, d)  BY <1>3, RunExists
<1>5. f = [c \in 1 .. m |-> IF c = 1 THEN 0 ELSE f[c - 1] + (columns[c - 1] + e.gap)]
  <2>1. f = [c \in 1 .. m |-> IF c = 1 THEN 0 ELSE f[c - 1] + d[c]]  BY <1>4 DEF Runs
  <2>2. \A c \in 1 .. m : c # 1 => f[c - 1] + d[c] = f[c - 1] + (columns[c - 1] + e.gap)
    BY <1>1, <1>2
  <2> QED  BY <2>1, <2>2
<1>6. start = CHOOSE g : g = [c \in 1 .. Len(columns) + 1 |->
                IF c = 1 THEN 0 ELSE g[c - 1] + (columns[c - 1] + e.gap)]
  BY DEF start
<1>7. ColumnStarts(columns, e) = start  BY DEF ColumnStarts
<1> HIDE DEF start
<1>8. start = CHOOSE g : g = [c \in 1 .. m |->
                IF c = 1 THEN 0 ELSE g[c - 1] + (columns[c - 1] + e.gap)]
  BY <1>6
<1>9. start = [c \in 1 .. m |-> IF c = 1 THEN 0 ELSE start[c - 1] + (columns[c - 1] + e.gap)]
  BY <1>5, <1>8, Zenon
<1>10. start = [c \in 1 .. m |-> IF c = 1 THEN 0 ELSE start[c - 1] + d[c]]
  <2>1. \A c \in 1 .. m : c # 1 => start[c - 1] + d[c] = start[c - 1] + (columns[c - 1] + e.gap)
    BY <1>1, <1>2
  <2> QED  BY <1>9, <2>1
<1> QED  BY <1>7, <1>10 DEF Runs, d

(* No row reaches into the next, however far apart the two are.            *)
RowsTyped(rows, n) ==
  /\ n \in Nat \ {0} /\ DOMAIN rows = 1 .. n /\ Len(rows) = n
  /\ \A r \in 1 .. n : rows[r].ascent \in Nat /\ rows[r].descent \in Nat

RowsClear(rows, below, n) ==
  /\ \A r \in 1 .. n : below[r] \in Nat
  /\ below[1] = 0
  /\ \A j, k \in 1 .. n : j < k => below[k] >= below[j] + rows[j].descent + rows[k].ascent

LEMMA BaselinesClear ==
  ASSUME NEW rows, NEW n, RowsTyped(rows, n), NEW e \in Environments
  PROVE  RowsClear(rows, Baselines(rows, e), n)
<1> DEFINE below == Baselines(rows, e)
           d     == Skips(rows, e)
<1>1. n \in Nat \ {0} /\ DOMAIN rows = 1 .. n /\ Len(rows) = n  BY DEF RowsTyped
<1>2. \A r \in 1 .. n : rows[r].ascent \in Nat /\ rows[r].descent \in Nat  BY DEF RowsTyped
<1>3. \A r \in 2 .. n : d[r] \in Nat /\ d[r] >= rows[r - 1].descent + rows[r].ascent
  <2> TAKE r \in 2 .. n
  <2> DEFINE p == rows[r - 1]
             q == rows[r]
  <2>1. r - 1 \in 1 .. n /\ r \in 1 .. n  BY <1>1
  <2>2. p.descent \in Nat /\ q.ascent \in Nat  BY <1>2, <2>1
  <2>3. d[r] = BaselineSkip(p, q, e)  BY <1>1 DEF Skips
  <2> HIDE DEF p, q
  <2>4. BaselineSkip(p, q, e) \in Nat /\ BaselineSkip(p, q, e) >= p.descent + q.ascent
    BY <2>2, SkipRoom
  <2> QED  BY <2>3, <2>4 DEF p, q
<1>4. Runs(below, n, 0, d)
  <2>1. n \in Nat /\ \A r \in 2 .. n : d[r] \in Int  BY <1>1, <1>3
  <2> QED  BY <1>1, <2>1, BaselinesRun
<1> HIDE DEF below, d
<1>5. /\ \A r \in 1 .. n : below[r] \in Int
      /\ below[1] = 0
      /\ \A r \in 2 .. n : below[r] = below[r - 1] + d[r]
  <2>1. n \in Nat /\ \A r \in 2 .. n : d[r] \in Int  BY <1>1, <1>3
  <2>2. n >= 1 /\ 0 \in Int  BY <1>1
  <2>3. \A r \in 1 .. n : below[r] \in Int  BY <1>4, <2>1, RunTyped
  <2>4. below[1] = 0  BY <1>4, <2>1, <2>2, RunTyped
  <2>5. \A r \in 2 .. n : below[r] = below[r - 1] + d[r]  BY <1>4, <2>1, RunTyped
  <2> QED  BY <2>3, <2>4, <2>5
<1>6. ASSUME NEW j \in 1 .. n, NEW k \in j .. n PROVE below[j] <= below[k]
  <2>1. n \in Nat /\ \A r \in 2 .. n : d[r] \in Nat  BY <1>1, <1>3
  <2> QED  BY <1>4, <2>1, RunGrows
<1>7. \A r \in 1 .. n : below[r] \in Nat
  <2> TAKE r \in 1 .. n
  <2>1. 1 \in 1 .. n /\ r \in 1 .. n  BY <1>1
  <2>2. below[1] <= below[r]  BY <1>1, <1>6, <2>1
  <2> QED  BY <1>5, <2>2
<1>8. ASSUME NEW j \in 1 .. n, NEW k \in 1 .. n, j < k
      PROVE  below[k] >= below[j] + rows[j].descent + rows[k].ascent
  <2> DEFINE dj == rows[j].descent
             aj == rows[j + 1].ascent
             dk == rows[k - 1].descent
             ak == rows[k].ascent
             bj == below[j]
             bn == below[j + 1]
             bp == below[k - 1]
             bk == below[k]
  <2>1. j + 1 \in 2 .. n /\ j + 1 \in 1 .. n /\ k \in 2 .. n /\ k - 1 \in 1 .. n /\ (j + 1) - 1 = j
    BY <1>1, <1>8
  <2>2. dj \in Nat /\ aj \in Nat /\ dk \in Nat /\ ak \in Nat  BY <1>2, <2>1
  <2>3. bj \in Int /\ bn \in Int /\ bp \in Int /\ bk \in Int  BY <1>5, <2>1
  <2>4. bn >= bj + dj + aj
    <3>1. bn = bj + d[j + 1] /\ d[j + 1] >= dj + aj /\ d[j + 1] \in Nat  BY <1>3, <1>5, <2>1
    <3> HIDE DEF bn, bj, dj, aj
    <3> QED  BY <2>2, <2>3, <3>1
  <2>5. bk >= bp + dk + ak
    <3>1. bk = bp + d[k] /\ d[k] >= dk + ak /\ d[k] \in Nat  BY <1>3, <1>5, <2>1
    <3> HIDE DEF bk, bp, dk, ak
    <3> QED  BY <2>2, <2>3, <3>1
  <2>6. CASE k = j + 1
    <3>1. bn = bk /\ aj = ak  BY <2>6
    <3>2. bk >= bj + dj + ak
      <4> HIDE DEF bn, bj, dj, aj, bk, ak
      <4> QED  BY <2>4, <3>1
    <3> QED  BY <3>2
  <2>7. CASE k # j + 1
    <3>1. k - 1 \in j + 1 .. n  BY <1>1, <1>8, <2>1, <2>7
    <3>2. bn <= bp  BY <1>6, <2>1, <3>1
    <3>3. bk >= bj + dj + ak
      <4> HIDE DEF bn, bj, dj, aj, bk, ak, bp, dk
      <4> QED  BY <2>2, <2>3, <2>4, <2>5, <3>2
    <3> QED  BY <3>3
  <2> QED  BY <2>6, <2>7
<1>9. RowsClear(rows, below, n)  BY <1>5, <1>7, <1>8 DEF RowsClear
<1> QED  BY <1>9 DEF below

(* Every column ends before the next begins, and within the width.         *)
ColumnsClear(start, columns, width) ==
  /\ width \in Nat
  /\ \A c \in 1 .. Len(columns) : start[c] \in Nat /\ start[c] + columns[c] <= width
  /\ \A c, d \in 1 .. Len(columns) : c < d => start[c] + columns[c] < start[d]

LEMMA StartsClear ==
  ASSUME NEW columns, NEW grid, ColumnsHeld(columns, grid), NEW e \in Environments
  PROVE  ColumnsClear(ColumnStarts(columns, e), columns, ArrayWidth(columns, e))
<1> DEFINE m     == Len(columns)
           k     == m + 1
           gap   == e.gap
           start == ColumnStarts(columns, e)
           d     == Widen(columns, e)
           width == ArrayWidth(columns, e)
<1>1. m \in Nat \ {0} /\ k \in Nat /\ k = m + 1 /\ (\A c \in 1 .. m : columns[c] \in Nat)
  BY DEF ColumnsHeld
<1>2. gap \in Nat \ {0}  BY EnvironmentFields
<1>3. \A c \in 2 .. k : d[c] \in Nat /\ d[c] = columns[c - 1] + gap
  <2> TAKE c \in 2 .. k
  <2>1. c - 1 \in 1 .. m  BY <1>1
  <2>2. d[c] = columns[c - 1] + gap  BY DEF Widen
  <2> HIDE DEF d, gap
  <2> QED  BY <1>1, <1>2, <2>1, <2>2
<1>4. width = start[k] - 0 \/ width = start[k] - gap
  <2> DEFINE cut == IF e.gapAfterFirst /\ Len(columns) = 1 THEN 0 ELSE gap
  <2>1. width = start[k] - cut  BY DEF ArrayWidth
  <2>2. cut = 0 \/ cut = gap  OBVIOUS
  <2> HIDE DEF cut, width, start, gap, k
  <2> QED  BY <2>1, <2>2
<1>5. Runs(start, k, 0, d)
  <2>1. \A c \in 2 .. k : d[c] \in Int  BY <1>3
  <2> HIDE DEF m
  <2> QED  BY <1>1, <2>1, StartsRun DEF m
<1> HIDE DEF start, d, width, gap, k
<1>6. /\ \A c \in 1 .. k : start[c] \in Int
      /\ start[1] = 0
      /\ \A c \in 2 .. k : start[c] = start[c - 1] + d[c]
  <2>1. k \in Nat /\ 0 \in Int /\ \A c \in 2 .. k : d[c] \in Int  BY <1>1, <1>3
  <2>2. k >= 1  BY <1>1
  <2>3. \A c \in 1 .. k : start[c] \in Int  BY <1>5, <2>1, RunTyped
  <2>4. start[1] = 0  BY <1>5, <2>1, <2>2, RunTyped
  <2>5. \A c \in 2 .. k : start[c] = start[c - 1] + d[c]  BY <1>5, <2>1, RunTyped
  <2> QED  BY <2>3, <2>4, <2>5
<1>7. ASSUME NEW c \in 1 .. k, NEW j \in c .. k PROVE start[c] <= start[j]
  <2>1. k \in Nat /\ 0 \in Int /\ \A i \in 2 .. k : d[i] \in Nat  BY <1>1, <1>3
  <2> QED  BY <1>5, <2>1, RunGrows
<1> HIDE DEF m
<1>8. ASSUME NEW c \in 1 .. m
      PROVE  /\ c \in 1 .. k /\ c + 1 \in 1 .. k /\ start[c] \in Nat
             /\ start[c + 1] = start[c] + columns[c] + gap
  <2>1. c \in 1 .. k /\ c + 1 \in 2 .. k /\ c + 1 \in 1 .. k /\ 1 \in 1 .. k /\ (c + 1) - 1 = c
    BY <1>1
  <2>2. start[1] <= start[c]  BY <1>7, <2>1
  <2>3. start[c + 1] = start[c] + (columns[c] + gap)  BY <1>3, <1>6, <2>1
  <2>4. start[c] \in Int /\ columns[c] \in Nat  BY <1>1, <1>6, <2>1
  <2>5. start[c] \in Nat  BY <1>6, <2>2, <2>4
  <2> QED  BY <1>2, <2>1, <2>3, <2>4, <2>5
<1>9. ASSUME NEW c \in 1 .. m PROVE start[c] + columns[c] <= width
  <2>1. k \in c + 1 .. k  BY <1>1
  <2>2. start[c + 1] <= start[k]  BY <1>7, <1>8, <2>1
  <2>3. k \in 1 .. k  BY <1>1
  <2>4. start[c] \in Nat /\ columns[c] \in Nat /\ start[k] \in Int  BY <1>1, <1>6, <1>8, <2>3
  <2>5. start[c] + columns[c] + gap <= start[k]  BY <1>8, <2>2
  <2>6. width = start[k] \/ width = start[k] - gap
    <3>1. k \in 1 .. k  BY <1>1
    <3> QED  BY <1>4, <1>6, <3>1
  <2> QED  BY <1>2, <2>4, <2>5, <2>6
<1>10. ASSUME NEW c \in 1 .. m, NEW j \in 1 .. m, c < j PROVE start[c] + columns[c] < start[j]
  <2>1. j \in c + 1 .. k  BY <1>1, <1>10
  <2>2. start[c + 1] <= start[j]  BY <1>7, <1>8, <2>1
  <2>3. start[c] \in Nat /\ columns[c] \in Nat /\ start[j] \in Nat  BY <1>1, <1>8
  <2>4. start[c] + columns[c] + gap <= start[j]  BY <1>8, <2>2
  <2> QED  BY <1>2, <2>3, <2>4
<1>11. width \in Nat
  <2>1. 1 \in 1 .. m /\ k \in 1 .. k  BY <1>1
  <2>2. start[1] + columns[1] <= width  BY <1>9, <2>1
  <2>3. width = start[k] \/ width = start[k] - gap
    <3>1. k \in 1 .. k  BY <1>1
    <3> QED  BY <1>4, <1>6, <3>1
  <2>4. start[k] \in Int /\ columns[1] \in Nat  BY <1>1, <1>6, <2>1
  <2>5. width \in Int  BY <1>2, <2>3, <2>4
  <2>6. start[1] = 0  BY <1>6
  <2> QED  BY <2>2, <2>4, <2>5, <2>6
<1>12. ColumnsClear(start, columns, width)
  <2>1. \A c \in 1 .. m : start[c] \in Nat /\ start[c] + columns[c] <= width  BY <1>8, <1>9
  <2>2. \A c, j \in 1 .. m : c < j => start[c] + columns[c] < start[j]  BY <1>10
  <2> QED  BY <1>11, <2>1, <2>2 DEF ColumnsClear, m
<1> QED  BY <1>12 DEF start, width

(* The stack is centred on the axis, and holds every row.                  *)
StackHeld(stack, rows, below, n, delta, s) ==
  /\ delta \in Nat /\ delta = rows[1].ascent + below[n] + rows[n].descent
  /\ stack.ascent \in Int /\ stack.descent \in Int
  /\ stack.ascent + stack.descent = delta
  /\ Apart(stack.ascent - stack.descent, 2 * P("axis", s)) <= 1
  /\ 2 * (stack.ascent - P("axis", s)) >= delta
  /\ stack.rows = rows
  /\ \A r \in 1 .. n : stack.at[r] \in Int /\ stack.at[r] = stack.ascent - rows[1].ascent - below[r]

LEMMA StackCentred ==
  ASSUME NEW rows, NEW n, RowsTyped(rows, n), NEW below, RowsClear(rows, below, n),
         NEW s \in MathStyles
  PROVE  \E delta : StackHeld(Centre(rows, below, P("axis", s)), rows, below, n, delta, s)
<1> DEFINE first == rows[1].ascent
           last  == rows[n].descent
           low   == below[n]
           delta == first + low + last
           axis  == P("axis", s)
           half  == Half(delta)
           stack == Centre(rows, below, axis)
<1>1. n \in Nat \ {0} /\ DOMAIN rows = 1 .. n /\ Len(rows) = n /\ 1 \in 1 .. n /\ n \in 1 .. n
  BY DEF RowsTyped
<1>2. first \in Nat /\ last \in Nat  BY <1>1 DEF RowsTyped
<1>3. low \in Nat /\ \A r \in 1 .. n : below[r] \in Nat  BY <1>1 DEF RowsClear
<1>4. axis \in Nat  BY Tables DEF Parameters
<1>5. delta \in Nat /\ delta = first + low + last
  <2>1. delta = first + low + last  OBVIOUS
  <2> HIDE DEF first, last, low, delta
  <2> QED  BY <1>2, <1>3, <2>1
<1>6. /\ stack.rows = rows /\ stack.ascent = axis + half /\ stack.descent = delta - (axis + half)
      /\ \A r \in 1 .. n : stack.at[r] = (axis + half) - first - below[r]
  BY <1>1 DEF Centre
<1> HIDE DEF first, last, low, delta, axis, stack
<1>7. half \in Int /\ (2 * half = delta \/ 2 * half = delta + 1)
  <2>1. delta \in Int  BY <1>5
  <2> QED  BY <2>1, Halves
<1> HIDE DEF half
<1>8. /\ stack.ascent \in Int /\ stack.descent \in Int /\ stack.ascent + stack.descent = delta
      /\ 2 * (stack.ascent - axis) >= delta
  BY <1>4, <1>5, <1>6, <1>7
<1>9. Apart(stack.ascent - stack.descent, 2 * axis) <= 1
  <2>1. stack.ascent - stack.descent = 2 * axis + 2 * half - delta  BY <1>4, <1>5, <1>6, <1>7
  <2>2. \/ stack.ascent - stack.descent = 2 * axis
        \/ stack.ascent - stack.descent = 2 * axis + 1
    BY <1>4, <1>5, <1>7, <2>1
  <2> QED  BY <1>4, <2>2 DEF Apart
<1>10. \A r \in 1 .. n :
         stack.at[r] \in Int /\ stack.at[r] = stack.ascent - first - below[r]
  <2> TAKE r \in 1 .. n
  <2>1. stack.at[r] = stack.ascent - first - below[r] /\ below[r] \in Nat  BY <1>3, <1>6
  <2> QED  BY <1>2, <1>8, <2>1
<1>11. StackHeld(stack, rows, below, n, delta, s)
  BY <1>5, <1>6, <1>8, <1>9, <1>10 DEF StackHeld, first, last, low, axis
<1> QED  BY <1>11 DEF stack, axis

-----------------------------------------------------------------------------
(***************************************************************************)
(* Alignments, drawn.                                                      *)
(***************************************************************************)
RowNode(r, width, ascent, descent, x, y, parts) ==
  [At(Node("HBOX", "ROW", r, width, ascent, descent), x, y) EXCEPT !.parts = parts]

LEMMA RowFormed ==
  ASSUME NEW r \in Int, NEW width \in Nat, NEW ascent \in Int, NEW descent \in Int,
         NEW x \in Int, NEW y \in Int, NEW parts \in Seq(Piece), NEW node,
         node = RowNode(r, width, ascent, descent, x, y, parts)
  PROVE  /\ node \in NodeType /\ node.kind = "HBOX" /\ node.role = "ROW" /\ node.src = r
         /\ node.x = x /\ node.y = y /\ node.width = width /\ node.ascent = ascent
         /\ node.descent = descent /\ node.parts = parts
<1> DEFINE base == Node("HBOX", "ROW", r, width, ascent, descent)
           at   == At(base, x, y)
<1>1. "ROW" \in Roles /\ "HBOX" \in Kinds  BY DEF Roles, Kinds
<1>2. base \in NodeType  BY <1>1, NodeFormed
<1>3. /\ base.kind = "HBOX" /\ base.role = "ROW" /\ base.src = r /\ base.width = width
      /\ base.ascent = ascent /\ base.descent = descent
  BY DEF Node
<1>4. node = [at EXCEPT !.parts = parts]  BY DEF RowNode
<1> HIDE DEF base
<1>5. /\ at \in NodeType /\ at.kind = "HBOX" /\ at.role = "ROW" /\ at.src = r /\ at.width = width
      /\ at.ascent = ascent /\ at.descent = descent /\ at.x = x /\ at.y = y
  BY <1>2, <1>3, AtFormed
<1> HIDE DEF at
<1>6. node \in NodeType  BY <1>4, <1>5 DEF NodeType, NodeOf
<1>7. /\ node.kind = at.kind /\ node.role = at.role /\ node.src = at.src /\ node.x = at.x
      /\ node.y = at.y /\ node.width = at.width /\ node.ascent = at.ascent
      /\ node.descent = at.descent /\ node.parts = parts
  BY <1>4, <1>5 DEF NodeType, NodeOf
<1> QED  BY <1>5, <1>6, <1>7

(* The cells of a row stand in their columns.                              *)
CellsOf(grid, e, columns, start, r) ==
  [c \in DOMAIN grid[r] |->
    Child(grid[r][c], "CELL", c,
          start[c] + (IF e.leftAligned THEN 0 ELSE Half(columns[c] - grid[r][c].width)), 0)]

InColumns(parts, columns, start, row) ==
  \A c \in DOMAIN parts :
    /\ c \in 1 .. Len(columns)
    /\ parts[c] \in Piece
    /\ start[c] <= parts[c].x /\ Right(parts[c]) <= start[c] + columns[c]
    /\ parts[c].ascent <= row.ascent /\ parts[c].descent <= row.descent

LEMMA CellsFormed ==
  ASSUME NEW grid, Gridded(grid), NEW e \in Environments, NEW columns, ColumnsHeld(columns, grid),
         NEW start, NEW width, ColumnsClear(start, columns, width), NEW r \in 1 .. Len(grid),
         NEW row, RowHeld(row, grid[r], e)
  PROVE  /\ CellsOf(grid, e, columns, start, r) \in Seq(Piece)
         /\ InColumns(CellsOf(grid, e, columns, start, r), columns, start, row)
<1> DEFINE parts == CellsOf(grid, e, columns, start, r)
           cells == grid[r]
           m == Len(cells)
           l == Len(columns)
<1>1. m \in Nat /\ DOMAIN cells = 1 .. m /\ \A c \in 1 .. m : Extents(cells[c])  BY DEF Gridded
<1>2. l \in Nat /\ m <= l /\ (\A c \in 1 .. l : columns[c] \in Nat)
      /\ \A c \in 1 .. m : cells[c].width <= columns[c]
  BY DEF ColumnsHeld
<1>3. \A c \in 1 .. l : start[c] \in Nat  BY DEF ColumnsClear
<1>4. \A c \in 1 .. m : cells[c].ascent <= row.ascent /\ cells[c].descent <= row.descent
  BY DEF RowHeld
<1>5. parts = [c \in 1 .. m |->
         Child(cells[c], "CELL", c,
               start[c] + (IF e.leftAligned THEN 0 ELSE Half(columns[c] - cells[c].width)), 0)]
  BY <1>1 DEF CellsOf
<1> HIDE DEF parts, cells, m, l
<1>6. ASSUME NEW c \in 1 .. m
      PROVE  /\ c \in 1 .. l /\ parts[c] \in Piece
             /\ start[c] <= parts[c].x /\ Right(parts[c]) <= start[c] + columns[c]
             /\ parts[c].ascent <= row.ascent /\ parts[c].descent <= row.descent
  <2> DEFINE b == cells[c]
             w == b.width
             wide == columns[c]
             slack == IF e.leftAligned THEN 0 ELSE Half(wide - w)
             from == start[c]
             x == from + slack
             node == Child(b, "CELL", c, x, 0)
  <2>1. c \in 1 .. l /\ c \in Int  BY <1>1, <1>2
  <2>2. w \in Nat /\ wide \in Nat /\ w <= wide /\ Extents(b) /\ from \in Nat
    BY <1>1, <1>2, <1>3, <2>1 DEF Extents
  <2>3. parts[c] = node  BY <1>5
  <2>4. b.ascent <= row.ascent /\ b.descent <= row.descent /\ w = b.width  BY <1>4
  <2> HIDE DEF b, w, wide, from
  <2>5. slack \in Int /\ 0 <= slack /\ w + slack <= wide
    <3>1. wide - w \in Int /\ wide - w >= 0  BY <2>2
    <3>2. Half(wide - w) \in Int /\ (2 * Half(wide - w) = wide - w \/ 2 * Half(wide - w) = (wide - w) + 1)
      BY <3>1, Halves
    <3>3. slack = 0 \/ slack = Half(wide - w)  OBVIOUS
    <3> HIDE DEF slack
    <3> DEFINE h == Half(wide - w)
    <3> HIDE DEF h
    <3>4. h \in Int /\ (2 * h = wide - w \/ 2 * h = (wide - w) + 1) /\ (slack = 0 \/ slack = h)
      BY <3>2, <3>3 DEF h
    <3> QED  BY <2>2, <3>4
  <2> HIDE DEF slack
  <2>6. x \in Int /\ x = from + slack  BY <2>2, <2>5
  <2> HIDE DEF x
  <2>7. "CELL" \in Roles /\ 0 \in Int  BY DEF Roles
  <2>8. /\ node \in Piece /\ node.x = x /\ node.width = b.width /\ node.ascent = b.ascent
        /\ node.descent = b.descent
    BY <2>1, <2>2, <2>6, <2>7, ChildFormed
  <2> HIDE DEF node
  <2>9. from <= node.x /\ Right(node) <= from + wide  BY <2>2, <2>4, <2>5, <2>6, <2>8 DEF Right
  <2> QED  BY <2>1, <2>3, <2>4, <2>8, <2>9 DEF from, wide
<1>7. DOMAIN parts = 1 .. m  BY <1>5
<1>8. parts = [c \in 1 .. m |-> parts[c]]  BY <1>5, <1>7
<1>9. parts \in Seq(Piece)  BY <1>1, <1>6, <1>8
<1>10. InColumns(parts, columns, start, row)  BY <1>6, <1>7 DEF InColumns, l
<1> QED  BY <1>9, <1>10 DEF parts

(* Rows, one above the other, in the columns of all of them.               *)
LineDrawn(node, r, width, row, x, y, columns, start) ==
  /\ node \in NodeType /\ node.kind = "HBOX" /\ node.role = "ROW" /\ node.src = r
  /\ node.x = x /\ node.y = y /\ node.width = width
  /\ node.ascent = row.ascent /\ node.descent = row.descent
  /\ InColumns(node.parts, columns, start, row)

Laid(lines, n, x, width, up, down, axis) ==
  /\ n \in Nat \ {0} /\ lines \in Seq(NodeType) /\ Len(lines) = n
  /\ \A r \in 1 .. n :
       /\ lines[r].kind = "HBOX" /\ lines[r].role = "ROW" /\ lines[r].src = r
       /\ lines[r].x = x /\ lines[r].width = width
       /\ Top(lines[r]) <= up /\ -Bottom(lines[r]) <= down
       /\ \A c \in DOMAIN lines[r].parts :
            /\ lines[r].parts[c].ascent <= lines[r].ascent
            /\ lines[r].parts[c].descent <= lines[r].descent
            /\ 0 <= lines[r].parts[c].x /\ Right(lines[r].parts[c]) <= width
  /\ \A j, k \in 1 .. n : j < k => Bottom(lines[j]) >= Top(lines[k])
  /\ Apart(Top(lines[1]) + Bottom(lines[n]), 2 * axis) <= 1
  /\ \A q, r \in 1 .. n : \A c \in DOMAIN lines[q].parts : \A d \in DOMAIN lines[r].parts :
       c < d => Right(lines[q].parts[c]) < lines[r].parts[d].x

LEMMA LinesLaid ==
  ASSUME NEW n, NEW rows, RowsTyped(rows, n), NEW below, RowsClear(rows, below, n),
         NEW s \in MathStyles, NEW stack, NEW delta, StackHeld(stack, rows, below, n, delta, s),
         NEW columns, (\A c \in 1 .. Len(columns) : columns[c] \in Nat),
         NEW start, NEW width, ColumnsClear(start, columns, width), NEW x,
         NEW lines, lines = [r \in 1 .. n |-> lines[r]],
         \A r \in 1 .. n : LineDrawn(lines[r], r, width, rows[r], x, stack.at[r], columns, start)
  PROVE  Laid(lines, n, x, width, stack.ascent, stack.descent, P("axis", s))
<1> DEFINE up    == stack.ascent
           down  == stack.descent
           first == rows[1].ascent
           last  == rows[n].descent
           axis  == P("axis", s)
<1>1. n \in Nat \ {0} /\ 1 \in 1 .. n /\ n \in 1 .. n
      /\ \A r \in 1 .. n : rows[r].ascent \in Nat /\ rows[r].descent \in Nat
  BY DEF RowsTyped
<1>2. /\ \A r \in 1 .. n : below[r] \in Nat
      /\ below[1] = 0
      /\ \A j, k \in 1 .. n : j < k => below[k] >= below[j] + rows[j].descent + rows[k].ascent
  BY DEF RowsClear
<1>3. /\ up \in Int /\ down \in Int /\ up + down = first + below[n] + last
      /\ Apart(up - down, 2 * axis) <= 1
      /\ \A r \in 1 .. n : stack.at[r] = up - first - below[r]
  BY DEF StackHeld
<1>4. first \in Nat /\ last \in Nat /\ below[n] \in Nat  BY <1>1, <1>2
<1>5. /\ width \in Nat
      /\ \A c \in 1 .. Len(columns) : start[c] \in Nat /\ start[c] + columns[c] <= width
      /\ \A c, d \in 1 .. Len(columns) : c < d => start[c] + columns[c] < start[d]
  BY DEF ColumnsClear
<1> HIDE DEF up, down, first, last, axis
<1>6. ASSUME NEW r \in 1 .. n
      PROVE  /\ Top(lines[r]) = up - first - below[r] + rows[r].ascent
             /\ Bottom(lines[r]) = up - first - below[r] - rows[r].descent
  <2>1. lines[r].y = stack.at[r] /\ lines[r].ascent = rows[r].ascent /\ lines[r].descent = rows[r].descent
    BY DEF LineDrawn
  <2> QED  BY <1>3, <2>1 DEF Top, Bottom
<1>7. ASSUME NEW j \in 1 .. n, NEW k \in 1 .. n, j < k PROVE Bottom(lines[j]) >= Top(lines[k])
  <2> DEFINE bj == below[j]
             bk == below[k]
             dj == rows[j].descent
             ak == rows[k].ascent
  <2>1. bj \in Nat /\ bk \in Nat /\ dj \in Nat /\ ak \in Nat /\ bk >= bj + dj + ak
    BY <1>1, <1>2, <1>7
  <2>2. Bottom(lines[j]) = up - first - bj - dj /\ Top(lines[k]) = up - first - bk + ak  BY <1>6
  <2> HIDE DEF bj, bk, dj, ak
  <2> QED  BY <1>3, <1>4, <2>1, <2>2, SMTT(30)
<1>8. ASSUME NEW r \in 1 .. n PROVE Top(lines[r]) <= up /\ -Bottom(lines[r]) <= down
  <2> DEFINE b == below[r]
             a == rows[r].ascent
             d == rows[r].descent
             low == below[n]
  <2>1. b \in Nat /\ a \in Nat /\ d \in Nat /\ low \in Nat  BY <1>1, <1>2
  <2>2. Top(lines[r]) = up - first - b + a /\ Bottom(lines[r]) = up - first - b - d  BY <1>6
  <2>3. a <= first + b
    <3>1. CASE r = 1
      <4>1. a = first  BY <3>1 DEF first
      <4> HIDE DEF a, b
      <4> QED  BY <1>4, <2>1, <4>1
    <3>2. CASE r # 1
      <4>1. 1 < r  BY <1>1, <3>2
      <4>2. b >= 0 + rows[1].descent + a /\ rows[1].descent \in Nat  BY <1>1, <1>2, <4>1
      <4> HIDE DEF a, b
      <4> QED  BY <1>4, <2>1, <4>2
    <3> QED  BY <3>1, <3>2
  <2>4. b + d <= low + last
    <3>1. CASE r = n
      <4>1. d = last /\ b = low  BY <3>1 DEF last
      <4> HIDE DEF d, b, low
      <4> QED  BY <1>4, <2>1, <4>1
    <3>2. CASE r # n
      <4>1. r < n  BY <1>1, <3>2
      <4>2. low >= b + d + rows[n].ascent /\ rows[n].ascent \in Nat  BY <1>1, <1>2, <4>1
      <4> HIDE DEF d, b, low
      <4> QED  BY <1>4, <2>1, <4>2
    <3> QED  BY <3>1, <3>2
  <2>5. up + down = first + low + last  BY <1>3
  <2> DEFINE t == Top(lines[r])
             u == Bottom(lines[r])
  <2>6. t = up - first - b + a /\ u = up - first - b - d  BY <2>2
  <2>7. up \in Int /\ down \in Int /\ first \in Nat /\ last \in Nat  BY <1>3, <1>4
  <2> HIDE DEF a, b, d, low, t, u
  <2>8. t \in Int /\ u \in Int  BY <2>1, <2>6, <2>7
  <2>9. t <= up  BY <2>1, <2>3, <2>6, <2>7
  <2>10. -u <= down  BY <2>1, <2>4, <2>5, <2>6, <2>7, SMTT(30)
  <2> QED  BY <2>9, <2>10 DEF t, u
<1>9. Apart(Top(lines[1]) + Bottom(lines[n]), 2 * axis) <= 1
  <2>1. Top(lines[1]) = up - first - below[1] + first /\ below[1] = 0  BY <1>1, <1>2, <1>6 DEF first
  <2>2. Bottom(lines[n]) = up - first - below[n] - last  BY <1>1, <1>6 DEF last
  <2> DEFINE low == below[n]
  <2>3. low \in Nat /\ Bottom(lines[n]) = up - first - low - last /\ up + down = first + low + last
    BY <1>3, <1>4, <2>2
  <2> DEFINE t == Top(lines[1])
             u == Bottom(lines[n])
             z == below[1]
  <2>5. t = up - first - z + first /\ z = 0 /\ u = up - first - low - last  BY <2>1, <2>3
  <2>6. up \in Int /\ down \in Int /\ first \in Nat /\ last \in Nat  BY <1>3, <1>4
  <2> HIDE DEF low, t, u, z
  <2>7. t = up  BY <2>5, <2>6
  <2>8. u = -down
    <3>1. u = up - first - low - last /\ up + down = first + low + last /\ low \in Nat  BY <2>3, <2>5
    <3> QED  BY ONLY <2>6, <3>1, SMTT(30)
  <2>4. t + u = up - down  BY <2>6, <2>7, <2>8
  <2> QED  BY <1>3, <2>4 DEF t, u
<1>10. ASSUME NEW r \in 1 .. n, NEW c \in DOMAIN lines[r].parts
       PROVE  /\ c \in 1 .. Len(columns)
              /\ start[c] \in Nat /\ columns[c] \in Nat /\ start[c] + columns[c] <= width
              /\ start[c] <= lines[r].parts[c].x
              /\ Right(lines[r].parts[c]) <= start[c] + columns[c]
              /\ lines[r].parts[c].x \in Int /\ Right(lines[r].parts[c]) \in Int
              /\ lines[r].parts[c].ascent <= lines[r].ascent
              /\ lines[r].parts[c].descent <= lines[r].descent
  <2> DEFINE p == lines[r].parts[c]
  <2>1. InColumns(lines[r].parts, columns, start, rows[r])
        /\ lines[r].ascent = rows[r].ascent /\ lines[r].descent = rows[r].descent
    BY DEF LineDrawn
  <2>2. /\ c \in 1 .. Len(columns) /\ p \in Piece /\ start[c] <= p.x
        /\ Right(p) <= start[c] + columns[c]
        /\ p.ascent <= rows[r].ascent /\ p.descent <= rows[r].descent
    BY <2>1 DEF InColumns
  <2>3. p.x \in Int /\ p.width \in Int
    <3> HIDE DEF p
    <3>1. p \in NodeType  BY <2>2, PieceNode
    <3> QED  BY <3>1, NodeFields
  <2>4. Right(p) \in Int  BY <2>3 DEF Right
  <2> QED  BY <1>5, <2>1, <2>2, <2>3, <2>4
<1>11. \A q, r \in 1 .. n : \A c \in DOMAIN lines[q].parts : \A d \in DOMAIN lines[r].parts :
         c < d => Right(lines[q].parts[c]) < lines[r].parts[d].x
  <2> SUFFICES ASSUME NEW q \in 1 .. n, NEW r \in 1 .. n, NEW c \in DOMAIN lines[q].parts,
                      NEW d \in DOMAIN lines[r].parts, c < d
               PROVE  Right(lines[q].parts[c]) < lines[r].parts[d].x
    OBVIOUS
  <2> DEFINE right == Right(lines[q].parts[c])
             left  == lines[r].parts[d].x
             from  == start[c]
             wide  == columns[c]
             next  == start[d]
  <2>1. /\ c \in 1 .. Len(columns) /\ right <= from + wide /\ from \in Nat /\ wide \in Nat
        /\ right \in Int
    BY <1>10
  <2>2. d \in 1 .. Len(columns) /\ next <= left /\ next \in Nat /\ left \in Int  BY <1>10
  <2>3. from + wide < next  BY <1>5, <2>1, <2>2
  <2> HIDE DEF right, left, from, wide, next
  <2>4. right < left  BY <2>1, <2>2, <2>3
  <2> QED  BY <2>4 DEF right, left
<1>12. ASSUME NEW r \in 1 .. n
       PROVE  /\ lines[r].kind = "HBOX" /\ lines[r].role = "ROW" /\ lines[r].src = r
              /\ lines[r].x = x /\ lines[r].width = width /\ lines[r] \in NodeType
  BY DEF LineDrawn
<1>13. ASSUME NEW r \in 1 .. n, NEW c \in DOMAIN lines[r].parts
       PROVE  0 <= lines[r].parts[c].x /\ Right(lines[r].parts[c]) <= width
  <2> DEFINE p == lines[r].parts[c]
             left == p.x
             right == Right(p)
             from == start[c]
             wide == columns[c]
  <2>1. /\ from \in Nat /\ wide \in Nat /\ from + wide <= width /\ from <= left
        /\ right <= from + wide /\ left \in Int /\ right \in Int
    BY <1>10
  <2> HIDE DEF left, right, from, wide
  <2>2. 0 <= left /\ right <= width  BY <1>5, <2>1
  <2> QED  BY <2>2 DEF left, right
<1>14. lines \in Seq(NodeType) /\ Len(lines) = n
  BY <1>1, <1>12
<1>15. Laid(lines, n, x, width, up, down, axis)
  BY <1>1, <1>7, <1>8, <1>9, <1>10, <1>11, <1>12, <1>13, <1>14 DEF Laid
<1> QED  BY <1>15 DEF up, down, axis

(* Wherever in the children the rows are, they are aligned.                *)
GridKept(b, s) ==
  LET row(k) == b.children[k]
      Rows == {k \in DOMAIN b.children : row(k).role = "ROW"}
      Lines == {n \in Members(b.children) : n.role = "ROW"}
  IN  /\ \A j, k \in Rows : j < k => Bottom(row(j)) >= Top(row(k))
      /\ \A j, k \in Rows : (\A i \in Rows : j <= i /\ i <= k) =>
           Apart(Top(row(j)) + Bottom(row(k)), 2 * P("axis", s)) <= 1
      /\ \A r \in Rows : \A c \in DOMAIN row(r).parts :
           LET cell == row(r).parts[c] IN
           /\ cell.ascent <= row(r).ascent /\ cell.descent <= row(r).descent
           /\ 0 <= cell.x /\ Right(cell) <= row(r).width
      /\ \A q, r \in Lines : \A c \in DOMAIN q.parts : \A d \in DOMAIN r.parts :
           c < d => Right(q.parts[c]) < r.parts[d].x

RowsFrom(c, lines, n, o) ==
  /\ \A k \in DOMAIN c : c[k].role = "ROW" => k \in Int /\ k - o \in 1 .. n /\ c[k] = lines[k - o]
  /\ \A r \in 1 .. n : r + o \in DOMAIN c /\ c[r + o] = lines[r]

LEMMA GridFrom ==
  ASSUME NEW b, NEW lines, NEW n, NEW x, NEW width, NEW up, NEW down, NEW s,
         Laid(lines, n, x, width, up, down, P("axis", s)), NEW o \in Nat,
         RowsFrom(b.children, lines, n, o)
  PROVE  GridKept(b, s)
<1> DEFINE c == b.children
           Rows == {k \in DOMAIN c : c[k].role = "ROW"}
           axis == P("axis", s)
<1>1. /\ \A r \in 1 .. n :
           /\ lines[r].role = "ROW" /\ lines[r].width = width
           /\ \A d \in DOMAIN lines[r].parts :
                /\ lines[r].parts[d].ascent <= lines[r].ascent
                /\ lines[r].parts[d].descent <= lines[r].descent
                /\ 0 <= lines[r].parts[d].x /\ Right(lines[r].parts[d]) <= width
      /\ \A j, k \in 1 .. n : j < k => Bottom(lines[j]) >= Top(lines[k])
      /\ Apart(Top(lines[1]) + Bottom(lines[n]), 2 * axis) <= 1
      /\ n \in Nat \ {0}
  BY DEF Laid
<1>2. \A q, r \in 1 .. n : \A d \in DOMAIN lines[q].parts : \A f \in DOMAIN lines[r].parts :
        d < f => Right(lines[q].parts[d]) < lines[r].parts[f].x
  BY DEF Laid
<1>3. \A k \in Rows : k \in Int /\ k - o \in 1 .. n /\ c[k] = lines[k - o]  BY DEF RowsFrom
<1>4. \A r \in 1 .. n : r + o \in Rows /\ c[r + o] = lines[r]  BY <1>1 DEF RowsFrom
<1> HIDE DEF c, axis
<1>5. \A j, k \in Rows : j < k => Bottom(c[j]) >= Top(c[k])
  <2> SUFFICES ASSUME NEW j \in Rows, NEW k \in Rows, j < k PROVE Bottom(c[j]) >= Top(c[k])
    OBVIOUS
  <2> DEFINE p == j - o
             q == k - o
  <2>1. p \in 1 .. n /\ q \in 1 .. n /\ c[j] = lines[p] /\ c[k] = lines[q]  BY <1>3
  <2>2. p < q
    <3>1. j \in Int /\ k \in Int  BY <1>3
    <3> QED  BY <3>1
  <2> HIDE DEF p, q
  <2> QED  BY <1>1, <2>1, <2>2
<1>6. \A j, k \in Rows : (\A i \in Rows : j <= i /\ i <= k) =>
        Apart(Top(c[j]) + Bottom(c[k]), 2 * axis) <= 1
  <2> SUFFICES ASSUME NEW j \in Rows, NEW k \in Rows, \A i \in Rows : j <= i /\ i <= k
               PROVE  Apart(Top(c[j]) + Bottom(c[k]), 2 * axis) <= 1
    OBVIOUS
  <2> DEFINE p == j - o
             q == k - o
  <2>1. p \in 1 .. n /\ q \in 1 .. n /\ c[j] = lines[p] /\ c[k] = lines[q] /\ j \in Int /\ k \in Int
    BY <1>3
  <2>2. 1 + o \in Rows /\ n + o \in Rows
    <3>1. 1 \in 1 .. n /\ n \in 1 .. n  BY <1>1
    <3> QED  BY <1>4, <3>1
  <2>3. j <= 1 + o /\ n + o <= k  BY <2>2
  <2>4. p = 1 /\ q = n  BY <1>1, <2>1, <2>3
  <2> HIDE DEF p, q
  <2> QED  BY <1>1, <2>1, <2>4
<1>7. \A r \in Rows : \A d \in DOMAIN c[r].parts :
        /\ c[r].parts[d].ascent <= c[r].ascent /\ c[r].parts[d].descent <= c[r].descent
        /\ 0 <= c[r].parts[d].x /\ Right(c[r].parts[d]) <= c[r].width
  <2> SUFFICES ASSUME NEW r \in Rows, NEW d \in DOMAIN c[r].parts
               PROVE  /\ c[r].parts[d].ascent <= c[r].ascent /\ c[r].parts[d].descent <= c[r].descent
                      /\ 0 <= c[r].parts[d].x /\ Right(c[r].parts[d]) <= c[r].width
    OBVIOUS
  <2> DEFINE p == r - o
  <2>1. p \in 1 .. n /\ c[r] = lines[p]  BY <1>3
  <2> HIDE DEF p
  <2> QED  BY <1>1, <2>1
<1>8. ASSUME NEW q \in Members(c), NEW r \in Members(c), q.role = "ROW", r.role = "ROW"
      PROVE  \A d \in DOMAIN q.parts : \A f \in DOMAIN r.parts :
               d < f => Right(q.parts[d]) < r.parts[f].x
  <2>1. PICK j \in Rows : q = c[j]  BY <1>8 DEF Members
  <2>2. PICK k \in Rows : r = c[k]  BY <1>8 DEF Members
  <2> DEFINE u == j - o
             v == k - o
  <2>3. u \in 1 .. n /\ v \in 1 .. n /\ q = lines[u] /\ r = lines[v]  BY <1>3, <2>1, <2>2
  <2> HIDE DEF u, v
  <2> QED  BY <1>2, <2>3
<1> QED  BY <1>5, <1>6, <1>7, <1>8 DEF GridKept, c, axis

(* The stack of an alignment, which holds a strut at least.                *)
LEMMA ArrayStacked ==
  ASSUME NEW grid, Gridded(grid), NEW e \in Environments, NEW s \in MathStyles
  PROVE  LET n == Len(grid)
             rows == RowExtents(grid, e)
             below == Baselines(rows, e)
         IN  /\ RowsTyped(rows, n) /\ RowsClear(rows, below, n)
             /\ \E delta : /\ StackHeld(Stack(grid, e, s), rows, below, n, delta, s)
                           /\ delta >= e.strutAscent + e.strutDescent
<1> DEFINE n == Len(grid)
           rows == RowExtents(grid, e)
           below == Baselines(rows, e)
           axis == P("axis", s)
           stack == Stack(grid, e, s)
<1>1. n \in Nat \ {0} /\ 1 \in 1 .. n /\ n \in 1 .. n  BY DEF Gridded
<1>2. DOMAIN rows = 1 .. n /\ Len(rows) = n /\ \A r \in 1 .. n : RowHeld(rows[r], grid[r], e)
  BY RowsFormed
<1>3. stack = Centre(rows, below, axis)  BY DEF Stack
<1> HIDE DEF rows, n
<1>4. RowsTyped(rows, n)  BY <1>1, <1>2 DEF RowsTyped, RowHeld
<1>5. RowsClear(rows, below, n)  BY <1>4, BaselinesClear
<1> HIDE DEF below
<1>6. PICK delta : StackHeld(Centre(rows, below, axis), rows, below, n, delta, s)
  BY <1>4, <1>5, StackCentred
<1>7. StackHeld(stack, rows, below, n, delta, s)  BY <1>3, <1>6
<1>8. delta >= e.strutAscent + e.strutDescent
  <2> DEFINE first == rows[1].ascent
             last == rows[n].descent
             low == below[n]
             a == e.strutAscent
             d == e.strutDescent
  <2>1. delta = first + low + last  BY <1>6 DEF StackHeld
  <2>2. first \in Nat /\ last \in Nat /\ a <= first /\ d <= last  BY <1>1, <1>2 DEF RowHeld
  <2>3. low \in Nat  BY <1>1, <1>5 DEF RowsClear
  <2>4. a \in Nat /\ d \in Nat  BY EnvironmentFields
  <2> HIDE DEF first, last, low, a, d
  <2>5. delta >= a + d  BY <2>1, <2>2, <2>3, <2>4
  <2> QED  BY <2>5 DEF a, d
<1> QED  BY <1>4, <1>5, <1>7, <1>8 DEF n, rows, below, stack

(* What of it the drawing needs.                                           *)
Upright(stack, s, e) ==
  /\ stack.ascent \in Int /\ stack.descent \in Int /\ stack.ascent + stack.descent \in Nat
  /\ e.delimited => stack.ascent - P("axis", s) >= P("axis", s)

LEMMA StackUpright ==
  ASSUME NEW grid, Gridded(grid), NEW e \in Environments, NEW s \in MathStyles
  PROVE  Upright(Stack(grid, e, s), s, e)
<1> DEFINE stack == Stack(grid, e, s)
           up == stack.ascent
           down == stack.descent
           axis == P("axis", s)
           a == e.strutAscent
           d == e.strutDescent
<1>1. PICK delta : /\ \E rows, below, n : StackHeld(stack, rows, below, n, delta, s)
                   /\ delta >= a + d
  BY ArrayStacked
<1>2. /\ delta \in Nat /\ up \in Int /\ down \in Int /\ up + down = delta /\ 2 * (up - axis) >= delta
  BY <1>1 DEF StackHeld
<1>3. axis \in Nat  BY Tables DEF Parameters
<1>4. a \in Nat /\ d \in Nat  BY EnvironmentFields
<1>5. e.delimited => a + d >= 2 * axis  BY TablesAscend
<1>6. delta >= a + d  BY <1>1
<1> HIDE DEF up, down, axis, a, d
<1>7. e.delimited => up - axis >= axis
  <2> SUFFICES ASSUME e.delimited PROVE up - axis >= axis  OBVIOUS
  <2>1. 2 * (up - axis) >= 2 * axis  BY <1>2, <1>3, <1>4, <1>5, <1>6
  <2> QED  BY <1>2, <1>3, <2>1
<1>8. up + down \in Nat  BY <1>2
<1> QED  BY <1>2, <1>7, <1>8 DEF Upright, up, down, axis

LEMMA RowsDrawn ==
  ASSUME NEW grid, Gridded(grid), NEW e \in Environments, NEW s \in MathStyles, NEW lead \in Int,
         NEW columns, columns = ColumnWidths(grid), NEW width, width = ArrayWidth(columns, e),
         NEW stack, stack = Stack(grid, e, s), NEW lines,
         lines = DrawRows(grid, e, stack, columns, ColumnStarts(columns, e), width, lead)
  PROVE  Laid(lines, Len(grid), lead, width, stack.ascent, stack.descent, P("axis", s))
<1> DEFINE n == Len(grid)
           rows == RowExtents(grid, e)
           below == Baselines(rows, e)
           start == ColumnStarts(columns, e)
<1>1. n \in Nat \ {0} /\ DOMAIN grid = 1 .. n  BY DEF Gridded
<1>2. RowsTyped(rows, n) /\ RowsClear(rows, below, n)  BY ArrayStacked
<1>3. PICK delta : StackHeld(stack, rows, below, n, delta, s)  BY ArrayStacked
<1>4. ColumnsHeld(columns, grid)  BY ColumnsFormed
<1>5. ColumnsClear(start, columns, width)  BY <1>4, StartsClear
<1>6. \A r \in 1 .. n : RowHeld(rows[r], grid[r], e)  BY RowsFormed
<1>7. stack.rows = rows  BY <1>3 DEF StackHeld
<1>8. lines = [r \in 1 .. n |->
         RowNode(r, width, stack.rows[r].ascent, stack.rows[r].descent, lead, stack.at[r],
                 CellsOf(grid, e, columns, start, r))]
  BY <1>1 DEF DrawRows, RowNode, CellsOf
<1> HIDE DEF n, rows, below, start
<1>9. ASSUME NEW r \in 1 .. n
      PROVE  LineDrawn(lines[r], r, width, rows[r], lead, stack.at[r], columns, start)
  <2> DEFINE row == rows[r]
             y == stack.at[r]
             parts == CellsOf(grid, e, columns, start, r)
             a == row.ascent
             d == row.descent
             node == lines[r]
  <2>1. RowHeld(row, grid[r], e) /\ r \in 1 .. Len(grid) /\ r \in Int  BY <1>1, <1>6 DEF n
  <2>2. a \in Int /\ d \in Int  BY <2>1 DEF RowHeld
  <2>3. y \in Int  BY <1>3 DEF StackHeld
  <2>4. width \in Nat  BY <1>5 DEF ColumnsClear
  <2>5. node = RowNode(r, width, a, d, lead, y, parts)  BY <1>7, <1>8
  <2> HIDE DEF row, y, node
  <2>6. parts \in Seq(Piece) /\ InColumns(parts, columns, start, row)
    BY <1>4, <1>5, <2>1, CellsFormed
  <2>7. parts \in Seq(Piece)  BY <2>6
  <2>8. a = row.ascent /\ d = row.descent  OBVIOUS
  <2> HIDE DEF parts, a, d
  <2>9. /\ node \in NodeType /\ node.kind = "HBOX" /\ node.role = "ROW" /\ node.src = r
        /\ node.x = lead /\ node.y = y /\ node.width = width /\ node.ascent = a
        /\ node.descent = d /\ node.parts = parts
    BY <2>1, <2>2, <2>3, <2>4, <2>5, <2>7, RowFormed
  <2>10. LineDrawn(node, r, width, row, lead, y, columns, start)
    BY <2>6, <2>8, <2>9 DEF LineDrawn
  <2> QED  BY <2>10 DEF node, row, y
<1>10. lines = [r \in 1 .. n |-> lines[r]]  BY <1>8
<1>11. \A c \in 1 .. Len(columns) : columns[c] \in Nat  BY <1>4 DEF ColumnsHeld
<1>12. Laid(lines, n, lead, width, stack.ascent, stack.descent, P("axis", s))
  BY <1>2, <1>3, <1>5, <1>9, <1>10, <1>11, LinesLaid, ZenonT(30)
<1> QED  BY <1>12 DEF n

(* The lines as children.                                                  *)
LinesOf(lines, n, right, up, down) ==
  /\ lines \in Seq(NodeType) /\ Len(lines) = n /\ n \in Nat \ {0} /\ Ordered(lines)
  /\ \A m \in Members(lines) :
       /\ m \in NodeType /\ m.kind = "HBOX" /\ m.role = "ROW" /\ m.src \in 1 .. n
       /\ Top(m) <= up /\ -Bottom(m) <= down /\ Right(m) = right

LEMMA LinesKept ==
  ASSUME NEW lines, NEW n, NEW x, NEW width, NEW up, NEW down, NEW axis,
         Laid(lines, n, x, width, up, down, axis), NEW right, right = x + width
  PROVE  LinesOf(lines, n, right, up, down)
<1>1. /\ n \in Nat \ {0} /\ lines \in Seq(NodeType) /\ Len(lines) = n
      /\ \A r \in 1 .. n :
           /\ lines[r].kind = "HBOX" /\ lines[r].role = "ROW" /\ lines[r].src = r
           /\ lines[r].x = x /\ lines[r].width = width
           /\ Top(lines[r]) <= up /\ -Bottom(lines[r]) <= down
  BY DEF Laid
<1>2. DOMAIN lines = 1 .. n  BY <1>1
<1>3. \A m \in Members(lines) : \E r \in 1 .. n : m = lines[r]  BY <1>2 DEF Members
<1>4. Members(lines) \subseteq NodeType  BY <1>1, MembersTyped
<1>5. Ordered(lines)
  <2> SUFFICES ASSUME NEW k \in 1 .. Len(lines) - 1 PROVE lines[k].src <= lines[k + 1].src
    BY DEF Ordered
  <2>1. k \in 1 .. n /\ k + 1 \in 1 .. n  BY <1>1
  <2> QED  BY <1>1, <2>1
<1>6. ASSUME NEW m \in Members(lines)
      PROVE  /\ m \in NodeType /\ m.kind = "HBOX" /\ m.role = "ROW" /\ m.src \in 1 .. n
             /\ Top(m) <= up /\ -Bottom(m) <= down /\ Right(m) = right
  <2>1. PICK r \in 1 .. n : m = lines[r]  BY <1>3
  <2> QED  BY <1>1, <1>4, <2>1 DEF Right
<1> QED  BY <1>1, <1>5, <1>6 DEF LinesOf

(* An alignment without fences.                                            *)
LEMMA PlainArray ==
  ASSUME NEW lines, NEW n, NEW x \in Nat, NEW width \in Nat, NEW up \in Int, NEW down \in Int,
         up + down \in Nat, NEW s \in MathStyles,
         Laid(lines, n, x, width, up, down, P("axis", s)),
         NEW b, b = Box(x + width + x, up, down, n, lines)
  PROVE  /\ Whole(b) /\ HoldsWidth(b) /\ b.slots = Len(b.children) /\ GridKept(b, s)
         /\ Answered(b, {}) /\ Covered(b, s, {})
<1> DEFINE axis == P("axis", s)
           w == x + width + x
<1>1. /\ lines \in Seq(NodeType) /\ Len(lines) = n /\ n \in Nat \ {0} /\ Ordered(lines)
      /\ \A m \in Members(lines) :
           /\ m \in NodeType /\ m.kind = "HBOX" /\ m.role = "ROW" /\ m.src \in 1 .. n
           /\ Top(m) <= up /\ -Bottom(m) <= down /\ Right(m) = x + width
  <2> DEFINE right == x + width
  <2>1. right = x + width  OBVIOUS
  <2>2. Laid(lines, n, x, width, up, down, axis)  OBVIOUS
  <2> HIDE DEF axis, right
  <2>3. LinesOf(lines, n, right, up, down)  BY <2>1, <2>2, LinesKept
  <2> QED  BY <2>1, <2>3 DEF LinesOf
<1>2. w \in Nat /\ w >= x + width  OBVIOUS
<1>3. b.width = w /\ b.ascent = up /\ b.descent = down /\ b.slots = n /\ b.children = lines
  BY DEF Box
<1> HIDE DEF w
<1>4. Whole(b)
  <2>1. Formed(b)  BY <1>1, <1>2, <1>3 DEF Formed, Extents
  <2>2. HoldsInk(b)  BY <1>1, <1>3 DEF HoldsInk
  <2> QED  BY <1>1, <1>3, <2>1, <2>2 DEF Whole
<1>5. HoldsWidth(b)  BY <1>1, <1>2, <1>3 DEF HoldsWidth
<1>6. GridKept(b, s)
  <2>1. RowsFrom(lines, lines, n, 0)
    <3>1. DOMAIN lines = 1 .. n  BY <1>1
    <3>2. \A k \in 1 .. n : k \in Int /\ k - 0 \in 1 .. n /\ k - 0 = k /\ k + 0 = k  BY <1>1
    <3> QED  BY <3>1, <3>2 DEF RowsFrom
  <2>2. 0 \in Nat /\ RowsFrom(b.children, lines, n, 0)  BY <1>3, <2>1
  <2> QED  BY <2>2, GridFrom
<1>7. Answered(b, {})  BY DEF Answered
<1>8. Covered(b, s, {})
  <2> DEFINE reach == Larger(axis, Larger(up - axis, down + axis))
  <2>1. axis \in Nat  BY Tables DEF Parameters
  <2> HIDE DEF axis
  <2>2. /\ reach \in Int /\ reach >= axis /\ up - axis <= reach /\ down + axis <= reach
    BY <2>1 DEF Larger
  <2> HIDE DEF reach
  <2>3. ASSUME NEW m \in Members(lines) PROVE Top(m) - axis <= reach /\ axis - Bottom(m) <= reach
    <3>1. m \in NodeType /\ Top(m) <= up /\ -Bottom(m) <= down  BY <1>1
    <3>2. Top(m) \in Int /\ Bottom(m) \in Int  BY <3>1, NodeFields DEF Top, Bottom
    <3> QED  BY <2>1, <2>2, <3>1, <3>2
  <2> QED  BY <1>3, <2>2, <2>3 DEF Covered, axis
<1> QED  BY <1>1, <1>3, <1>4, <1>5, <1>6, <1>7, <1>8

(* And one between fences.                                                 *)
LEMMA FencedArray ==
  ASSUME NEW stack, NEW e, NEW s \in MathStyles, Upright(stack, s, e), e.delimited,
         NEW padding \in Nat, NEW width \in Nat, NEW n, NEW left, NEW right, NEW l, NEW r,
         NEW target, target = DelimiterTarget(Reach(stack, s)), NEW lines,
         Laid(lines, n, padding + left.width, width, stack.ascent, stack.descent, P("axis", s)),
         Delimited(left, l, s, target, "LEFT", 0), Delimited(right, r, s, target, "RIGHT", n + 1),
         NEW b, b = DrawFences(stack, lines, width, padding, left, right)
  PROVE  /\ Whole(b) /\ HoldsWidth(b) /\ b.slots = Len(b.children) /\ GridKept(b, s)
         /\ Answered(b, FenceAsks(l, r, s, target)) /\ Covered(b, s, FenceAsks(l, r, s, target))
<1> DEFINE up == stack.ascent
           down == stack.descent
           axis == P("axis", s)
           u == left.width
           v == right.width
           lead == padding + u
           x == lead + width
           first == [left EXCEPT !.x = padding]
           last == [right EXCEPT !.x = x]
           one == <<first>>
           four == <<last>>
           two == one \o lines
           nodes == two \o four
           w == x + v + padding
           tops == Larger(left.y + left.ascent, right.y + right.ascent)
           lows == Larger(left.descent - left.y, right.descent - right.y)
           asc == Larger(up, tops)
           desc == Larger(down, lows)
           slots == 2 + Len(lines)
           asks == FenceAsks(l, r, s, target)
           reach == Reach(stack, s)
<1>1. up \in Int /\ down \in Int /\ up + down \in Nat /\ up - axis >= axis
  BY DEF Upright
<1>2. /\ left \in NodeType /\ left.role = "LEFT" /\ left.src = 0 /\ u \in Nat
      /\ right \in NodeType /\ right.role = "RIGHT" /\ right.src = n + 1 /\ v \in Nat
  BY DEF Delimited
<1>3. /\ left.y \in Int /\ left.ascent \in Int /\ left.descent \in Int
      /\ right.y \in Int /\ right.ascent \in Int /\ right.descent \in Int
  BY <1>2, NodeFields
<1>4. /\ lead \in Nat /\ lead = padding + u /\ x \in Nat /\ x = lead + width
      /\ w \in Nat /\ w = x + v + padding
  <2>1. lead = padding + u /\ x = lead + width /\ w = x + v + padding  OBVIOUS
  <2> HIDE DEF u, v, lead, x, w
  <2> QED  BY <1>2, <2>1
<1>5. b = Box(w, asc, desc, slots, nodes)  BY DEF DrawFences
<1>6. /\ first \in NodeType /\ first.x = padding /\ first.y = left.y /\ first.kind = left.kind
      /\ first.role = "LEFT" /\ first.src = 0 /\ first.width = u /\ first.ascent = left.ascent
      /\ first.descent = left.descent /\ Answers(first, Asks("LEFT", l, s, target))
  <2>1. first = At(left, padding, left.y) /\ padding \in Int  BY <1>2, MovedFormed
  <2> HIDE DEF first
  <2> QED  BY <2>1, DelimitedMoved
<1>7. /\ last \in NodeType /\ last.x = x /\ last.y = right.y /\ last.kind = right.kind
      /\ last.role = "RIGHT" /\ last.src = n + 1 /\ last.width = v /\ last.ascent = right.ascent
      /\ last.descent = right.descent /\ Answers(last, Asks("RIGHT", r, s, target))
  <2>1. x \in Int  BY <1>4
  <2> HIDE DEF x
  <2>2. last = At(right, x, right.y)  BY <1>2, <2>1, MovedFormed
  <2> HIDE DEF last
  <2> QED  BY <2>1, <2>2, DelimitedMoved
<1>8. /\ lines \in Seq(NodeType) /\ Len(lines) = n /\ n \in Nat \ {0} /\ Ordered(lines)
      /\ \A m \in Members(lines) :
           /\ m \in NodeType /\ m.kind = "HBOX" /\ m.role = "ROW" /\ m.src \in 1 .. n
           /\ Top(m) <= up /\ -Bottom(m) <= down /\ Right(m) = lead + width
  <2> DEFINE edge == lead + width
  <2>1. Laid(lines, n, lead, width, up, down, axis)  OBVIOUS
  <2>2. edge = lead + width  OBVIOUS
  <2> HIDE DEF lead, up, down, axis, edge
  <2>3. LinesOf(lines, n, edge, up, down)  BY <2>1, <2>2, LinesKept
  <2> QED  BY <2>2, <2>3 DEF LinesOf
<1> HIDE DEF first, last, x, lead, w
<1>9. /\ one \in Seq(NodeType) /\ Members(one) = {first} /\ Ordered(one) /\ Len(one) = 1
      /\ one[1] = first
      /\ four \in Seq(NodeType) /\ Members(four) = {last} /\ Ordered(four) /\ Len(four) = 1
      /\ four[1] = last
  <2>1. one \in Seq(NodeType) /\ four \in Seq(NodeType) /\ one[1] = first /\ four[1] = last
    BY <1>6, <1>7
  <2>2. Members(one) = {first} /\ Ordered(one) /\ Len(one) = 1  BY OneMember
  <2>3. Members(four) = {last} /\ Ordered(four) /\ Len(four) = 1  BY OneMember
  <2> QED  BY <2>1, <2>2, <2>3
<1> HIDE DEF one, four
<1>10. /\ two \in Seq(NodeType) /\ Len(two) = 1 + n
       /\ Members(two) = {first} \cup Members(lines) /\ Ordered(two)
  <2>1. \A m \in Members(one), k \in Members(lines) : m.src <= k.src  BY <1>6, <1>8, <1>9
  <2>2. two \in Seq(NodeType) /\ Len(two) = Len(one) + Len(lines)
        /\ Members(two) = Members(one) \cup Members(lines)
    BY <1>8, <1>9, Joined
  <2>3. Ordered(two)  BY <1>8, <1>9, <2>1, Joined
  <2> QED  BY <1>8, <1>9, <2>2, <2>3
<1>11. /\ two[1] = first /\ \A k \in 1 .. n : two[1 + k] = lines[k]
  <2>3. one \in Seq(NodeType) /\ lines \in Seq(NodeType)  BY <1>8, <1>9
  <2>1. /\ \A k \in 1 .. Len(one) : two[k] = one[k]
        /\ \A k \in 1 .. Len(lines) : two[Len(one) + k] = lines[k]
    BY <2>3, Concatenated
  <2>2. 1 \in 1 .. Len(one)  BY <1>9
  <2> QED  BY <1>8, <1>9, <2>1, <2>2
<1> HIDE DEF two
<1>12. /\ nodes \in Seq(NodeType) /\ Len(nodes) = n + 2
       /\ Members(nodes) = {first, last} \cup Members(lines) /\ Ordered(nodes)
  <2>1. \A m \in Members(two), k \in Members(four) : m.src <= k.src
    BY <1>6, <1>7, <1>8, <1>9, <1>10
  <2>2. nodes \in Seq(NodeType) /\ Len(nodes) = Len(two) + Len(four)
        /\ Members(nodes) = Members(two) \cup Members(four)
    BY <1>9, <1>10, Joined
  <2>3. Ordered(nodes)  BY <1>9, <1>10, <2>1, Joined
  <2>4. Len(nodes) = n + 2
    <3> HIDE DEF nodes
    <3> QED  BY <1>8, <1>9, <1>10, <2>2
  <2>5. Members(nodes) = {first, last} \cup Members(lines)
    <3> HIDE DEF nodes
    <3> QED  BY <1>9, <1>10, <2>2
  <2> QED  BY <2>2, <2>3, <2>4, <2>5
<1>13. /\ nodes[1] = first /\ nodes[n + 2] = last /\ \A k \in 1 .. n : nodes[1 + k] = lines[k]
  <2>1. /\ \A k \in 1 .. Len(two) : nodes[k] = two[k]
        /\ \A k \in 1 .. Len(four) : nodes[Len(two) + k] = four[k]
    BY <1>9, <1>10, Concatenated
  <2> HIDE DEF nodes
  <2>2. 1 \in 1 .. Len(two) /\ \A k \in 1 .. n : 1 + k \in 1 .. Len(two)  BY <1>8, <1>10
  <2>3. 1 \in 1 .. Len(four) /\ Len(two) + 1 = n + 2  BY <1>8, <1>9, <1>10
  <2> QED  BY <1>9, <1>11, <2>1, <2>2, <2>3
<1> HIDE DEF nodes
<1>14. /\ tops \in Int /\ lows \in Int
       /\ asc \in Int /\ desc \in Int /\ up <= asc /\ down <= desc
       /\ left.y + left.ascent <= asc /\ right.y + right.ascent <= asc
       /\ left.descent - left.y <= desc /\ right.descent - right.y <= desc
  <2> DEFINE lt == left.y + left.ascent
             rt == right.y + right.ascent
             lb == left.descent - left.y
             rb == right.descent - right.y
  <2>1. lt \in Int /\ rt \in Int /\ lb \in Int /\ rb \in Int  BY <1>3
  <2> HIDE DEF lt, rt, lb, rb
  <2>2. /\ Larger(lt, rt) \in Int /\ Larger(lt, rt) >= lt /\ Larger(lt, rt) >= rt
        /\ Larger(lb, rb) \in Int /\ Larger(lb, rb) >= lb /\ Larger(lb, rb) >= rb
    BY <2>1, LargerOf
  <2>3. tops = Larger(lt, rt) /\ lows = Larger(lb, rb)  BY DEF lt, rt, lb, rb
  <2> HIDE DEF tops, lows, up, down
  <2>4. tops \in Int /\ lows \in Int  BY <2>2, <2>3
  <2>5. /\ asc \in Int /\ asc >= up /\ asc >= tops /\ desc \in Int /\ desc >= down /\ desc >= lows
    BY <1>1, <2>4, LargerOf
  <2> HIDE DEF asc, desc
  <2>6. lt <= asc /\ rt <= asc /\ lb <= desc /\ rb <= desc  BY <2>1, <2>2, <2>3, <2>4, <2>5
  <2> QED  BY <2>4, <2>5, <2>6 DEF lt, rt, lb, rb
<1>15. slots \in Nat /\ slots = n + 2  BY <1>8
<1> HIDE DEF asc, desc, slots, tops, lows
<1>16. b.width = w /\ b.ascent = asc /\ b.descent = desc /\ b.slots = slots /\ b.children = nodes
  BY <1>5 DEF Box
<1>17. Extents(b) /\ Formed(b)
  <2>1. w \in Nat /\ asc + desc >= 0  BY <1>1, <1>4, <1>14
  <2> QED  BY <1>12, <1>14, <1>16, <2>1 DEF Formed, Extents
<1>18. HoldsInk(b)
  <2> SUFFICES ASSUME NEW m \in Members(nodes) PROVE Top(m) <= asc /\ -Bottom(m) <= desc
    BY <1>16 DEF HoldsInk
  <2>1. CASE m = first
    <3>1. Top(m) = left.y + left.ascent /\ Bottom(m) = left.y - left.descent
      BY <1>6, <2>1 DEF Top, Bottom
    <3> QED  BY <1>3, <1>14, <3>1
  <2>2. CASE m = last
    <3>1. Top(m) = right.y + right.ascent /\ Bottom(m) = right.y - right.descent
      BY <1>7, <2>2 DEF Top, Bottom
    <3> QED  BY <1>3, <1>14, <3>1
  <2>3. CASE m \in Members(lines)
    <3>1. m \in NodeType /\ Top(m) <= up /\ -Bottom(m) <= down  BY <1>8, <2>3
    <3>2. Top(m) \in Int /\ Bottom(m) \in Int  BY <3>1, NodeFields DEF Top, Bottom
    <3> HIDE DEF up, down
    <3> QED  BY <1>1, <1>14, <3>1, <3>2
  <2> QED  BY <1>12, <2>1, <2>2, <2>3
<1>19. HoldsWidth(b)
  <2> SUFFICES ASSUME NEW m \in Members(nodes) PROVE Right(m) <= w
    BY <1>16 DEF HoldsWidth
  <2>1. CASE m = first
    <3>1. Right(m) = padding + u  BY <1>6, <2>1 DEF Right
    <3> HIDE DEF u, v
    <3> QED  BY <1>2, <1>4, <3>1
  <2>2. CASE m = last
    <3>1. Right(m) = x + v  BY <1>7, <2>2 DEF Right
    <3> HIDE DEF u, v
    <3> QED  BY <1>2, <1>4, <3>1
  <2>3. CASE m \in Members(lines)
    <3>1. Right(m) = lead + width  BY <1>8, <2>3
    <3> HIDE DEF u, v
    <3> QED  BY <1>2, <1>4, <3>1
  <2> QED  BY <1>12, <2>1, <2>2, <2>3
<1>20. GridKept(b, s)
  <2>1. RowsFrom(nodes, lines, n, 1)
    <3>1. DOMAIN nodes = 1 .. n + 2  BY <1>8, <1>12
    <3>2. ASSUME NEW k \in 1 .. n + 2, nodes[k].role = "ROW"
          PROVE  k \in Int /\ k - 1 \in 1 .. n /\ nodes[k] = lines[k - 1]
      <4>1. k # 1 /\ k # n + 2  BY <1>6, <1>7, <1>13, <3>2
      <4>2. k \in Int /\ k - 1 \in 1 .. n /\ 1 + (k - 1) = k  BY <1>8, <4>1
      <4> QED  BY <1>13, <4>2
    <3>3. ASSUME NEW k \in 1 .. n PROVE k + 1 \in 1 .. n + 2 /\ nodes[k + 1] = lines[k]
      <4>1. k + 1 \in 1 .. n + 2 /\ k + 1 = 1 + k  BY <1>8
      <4> QED  BY <1>13, <4>1
    <3> QED  BY <3>1, <3>2, <3>3 DEF RowsFrom
  <2>2. 1 \in Nat /\ RowsFrom(b.children, lines, n, 1)  BY <1>16, <2>1
  <2>3. Laid(lines, n, lead, width, up, down, P("axis", s))  BY DEF lead
  <2> HIDE DEF up, down
  <2> QED  BY <2>2, <2>3, GridFrom
<1>21. Answered(b, asks)
  <2>1. Plays(b.children, first, "LEFT")
    BY <1>6, <1>7, <1>8, <1>12, <1>16 DEF Plays
  <2>2. Plays(b.children, last, "RIGHT")
    BY <1>6, <1>7, <1>8, <1>12, <1>16 DEF Plays
  <2> QED  BY <1>6, <1>7, <2>1, <2>2, FencesAnswer DEF FenceAsks
<1>22. Covered(b, s, asks)
  <2>1. /\ reach \in Int /\ up - axis <= reach /\ down + axis <= reach /\ axis \in Nat
    <3>1. reach = Larger(up - axis, down + axis)  BY DEF Reach
    <3> HIDE DEF up, down, reach
    <3> QED  BY <1>1, <3>1, ReachHeld
  <2>5. target = DelimiterTarget(reach)  OBVIOUS
  <2> HIDE DEF up, down, reach
  <2>2. reach >= axis  BY <1>1, <2>1
  <2>3. ASSUME NEW m \in Members(b.children), m.kind # "KERN", m.role \notin {"LEFT", "RIGHT"}
        PROVE  Top(m) - axis <= reach /\ axis - Bottom(m) <= reach
    <3>1. m \in Members(lines)  BY <1>6, <1>7, <1>12, <1>16, <2>3
    <3>2. m \in NodeType /\ Top(m) <= up /\ -Bottom(m) <= down  BY <1>8, <3>1
    <3>3. Top(m) \in Int /\ Bottom(m) \in Int  BY <3>2, NodeFields DEF Top, Bottom
    <3> QED  BY <1>1, <2>1, <3>2, <3>3
  <2>4. \A a \in asks :
         a.target = DelimiterTarget(reach) /\ a.style = s /\ a.role \in {"LEFT", "RIGHT"}
    <3>1. \A role, name : /\ Asks(role, name, s, target).target = target
                          /\ Asks(role, name, s, target).style = s
                          /\ Asks(role, name, s, target).role = role
      BY DEF Asks
    <3> QED  BY <2>5, <3>1 DEF FenceAsks
  <2> HIDE DEF asks
  <2> QED  BY <2>1, <2>2, <2>3, <2>4 DEF Covered
<1> QED  BY <1>12, <1>15, <1>16, <1>17, <1>18, <1>19, <1>20, <1>21, <1>22 DEF Whole

ArrayAsks(grid, e, s) ==
  IF ~e.delimited THEN {} ELSE FenceAsks(e.left, e.right, s, ArrayTarget(grid, e, s))

LEMMA ArrayWhole ==
  ASSUME NEW grid, Gridded(grid), NEW e \in Environments, NEW s \in MathStyles
  PROVE  LET b == ArrayBox(grid, e, s)
             asks == ArrayAsks(grid, e, s)
         IN  /\ Whole(b) /\ HoldsWidth(b) /\ b.slots = Len(b.children) /\ GridKept(b, s)
             /\ Answered(b, asks) /\ Covered(b, s, asks)
<1> DEFINE stack == Stack(grid, e, s)
           columns == ColumnWidths(grid)
           width == ArrayWidth(columns, e)
           padding == IF e.thinPadding THEN P("THIN", s) ELSE 0
           Lines(lead) == DrawRows(grid, e, stack, columns, ColumnStarts(columns, e), width, lead)
           n == Len(grid)
           b == ArrayBox(grid, e, s)
           up == stack.ascent
           down == stack.descent
<1>1. Upright(stack, s, e)  BY StackUpright
<1>2. width \in Nat
  <2>1. ColumnsHeld(columns, grid)  BY ColumnsFormed
  <2> HIDE DEF columns
  <2>2. ColumnsClear(ColumnStarts(columns, e), columns, width)  BY <2>1, StartsClear
  <2> QED  BY <2>2 DEF ColumnsClear
<1>3. padding \in Nat
  <2>1. P("THIN", s) \in Nat  BY Tables DEF Parameters
  <2> QED  BY <2>1
<1>4. ASSUME NEW lead \in Int PROVE Laid(Lines(lead), n, lead, width, up, down, P("axis", s))
  <2> HIDE DEF columns, width, stack
  <2> DEFINE lines == Lines(lead)
  <2>1. columns = ColumnWidths(grid) /\ width = ArrayWidth(columns, e) /\ stack = Stack(grid, e, s)
    BY DEF columns, width, stack
  <2>2. lines = DrawRows(grid, e, stack, columns, ColumnStarts(columns, e), width, lead)  OBVIOUS
  <2> HIDE DEF lines
  <2> QED  BY <2>1, <2>2, RowsDrawn DEF lines
<1>5. n \in Nat  BY DEF Gridded
<1>6. up \in Int /\ down \in Int /\ up + down \in Nat  BY <1>1 DEF Upright
<1>7. CASE ~e.delimited
  <2> DEFINE lines == Lines(padding)
  <2>1. b = Box(padding + width + padding, up, down, n, lines)  BY <1>7 DEF ArrayBox
  <2>2. padding \in Int  BY <1>3
  <2>3. Laid(lines, n, padding, width, up, down, P("axis", s))  BY <1>4, <2>2
  <2> HIDE DEF lines, width, padding, up, down, b, n
  <2>4. /\ Whole(b) /\ HoldsWidth(b) /\ b.slots = Len(b.children) /\ GridKept(b, s)
        /\ Answered(b, {}) /\ Covered(b, s, {})
    BY <1>2, <1>3, <1>6, <2>1, <2>3, PlainArray
  <2>5. ArrayAsks(grid, e, s) = {}  BY <1>7 DEF ArrayAsks
  <2> QED  BY <2>4, <2>5 DEF b
<1>8. CASE e.delimited
  <2> DEFINE target == ArrayTarget(grid, e, s)
             left == DelimiterNode(e.left, s, target, "LEFT", 0)
             last == n + 1
             right == DelimiterNode(e.right, s, target, "RIGHT", last)
             lead == padding + left.width
             lines == Lines(lead)
             l == e.left
             r == e.right
  <2>1. b = DrawFences(stack, lines, width, padding, left, right)  BY <1>8 DEF ArrayBox
  <2>2. target = DelimiterTarget(Reach(stack, s))  BY DEF ArrayTarget
  <2>3. target \in Int
    <3>1. Reach(stack, s) = Larger(up - P("axis", s), down + P("axis", s))  BY DEF Reach
    <3> HIDE DEF stack, target, up, down
    <3>2. Reach(stack, s) \in Int  BY <1>6, <3>1, ReachHeld
    <3> QED  BY <2>2, <3>2, TargetTyped
  <2>4. l \in DOMAIN Ladders /\ r \in DOMAIN Ladders /\ l = e.left /\ r = e.right
    BY EnvironmentFields
  <2>5. last \in Int  BY <1>5
  <2>6. left = DelimiterNode(l, s, target, "LEFT", 0) /\ right = DelimiterNode(r, s, target, "RIGHT", last)
    OBVIOUS
  <2> HIDE DEF left, right, target, last, l, r
  <2>7. Delimited(left, l, s, target, "LEFT", 0) /\ Delimited(right, r, s, target, "RIGHT", last)
    <3>1. "LEFT" \in Roles /\ "RIGHT" \in Roles /\ 0 \in Int  BY DEF Roles
    <3> QED  BY <2>3, <2>4, <2>5, <2>6, <3>1, DelimiterFormed
  <2>8. left.width \in Nat  BY <2>7 DEF Delimited
  <2>9. lead \in Int
    <3> DEFINE v == left.width
    <3> HIDE DEF padding, v
    <3> QED  BY <1>3, <2>8 DEF v
  <2>10. Laid(lines, n, lead, width, up, down, P("axis", s))  BY <1>4, <2>9
  <2>11. Laid(lines, n, padding + left.width, width, stack.ascent, stack.descent, P("axis", s))
    BY <2>10
  <2>12. Delimited(right, r, s, target, "RIGHT", n + 1)  BY <2>7 DEF last
  <2> HIDE DEF lines, stack, width, padding, b, n
  <2>13. /\ Whole(b) /\ HoldsWidth(b) /\ b.slots = Len(b.children) /\ GridKept(b, s)
         /\ Answered(b, FenceAsks(l, r, s, target)) /\ Covered(b, s, FenceAsks(l, r, s, target))
    <3>1. s \in MathStyles /\ Delimited(left, l, s, target, "LEFT", 0)  BY <2>7
    <3> QED
      BY ONLY <1>1, <1>2, <1>3, <1>8, <2>1, <2>2, <2>11, <2>12, <3>1, FencedArray, ZenonT(30)
  <2>14. ArrayAsks(grid, e, s) = FenceAsks(l, r, s, target)
    BY <1>8 DEF ArrayAsks, target, l, r
  <2> QED  BY <2>13, <2>14 DEF b
<1>9. e.delimited \in BOOLEAN  BY EnvironmentFields
<1> QED  BY <1>7, <1>8, <1>9

-----------------------------------------------------------------------------
(***************************************************************************)
(* The inductive invariant: the box made last is whole, its delimiters     *)
(* answer what was asked of them, and the parts of its construct keep what *)
(* its rule demands.                                                       *)
(***************************************************************************)
Filled(b, by) ==
  IF by = "LIMITS" THEN Len(b.children) <= b.slots ELSE Len(b.children) = b.slots

PartsKept(b, m) ==
  /\ m.by = "FRACTION" => BarKept(b, m.style) \/ BinomialKept(b, m.style)
  /\ m.by \in {"FENCED", "ARRAY"} => Covered(b, m.style, m.asks)
  /\ m.by = "ARRAY" => GridKept(b, m.style)
  /\ m.by = "RADICAL" =>
       \E target : m.asks = SignAsks(m.style, target) /\ RadicalKept(b, m.style, target)
  /\ m.by = "ACCENT" => \E a \in Accents : AccentKept(b, a, m.style)
  /\ m.by = "SCRIPTS" => ScriptsKept(b, m.style)
  /\ m.by = "LIMITS" => LimitsKept(b, m.style)

Kept(b, m) ==
  /\ Whole(b) /\ Filled(b, m.by)
  /\ m.by \notin {"ACCENT", "LIMITS"} => HoldsWidth(b)
  /\ Answered(b, m.asks)
  /\ PartsKept(b, m)
  /\ m.class \in Classes /\ m.style \in MathStyles

IInv ==
  /\ Kept(box, made)
  /\ style \in MathStyles /\ nested \in 0 .. MaxNested

LEMMA MadeFields ==
  ASSUME NEW by, NEW s, NEW class, NEW asks, NEW m, m = Made(by, s, class, asks)
  PROVE  m.by = by /\ m.style = s /\ m.class = class /\ m.asks = asks
  BY DEF Made

LEMMA Unasked ==
  ASSUME NEW b
  PROVE  Answered(b, {})
  BY DEF Answered

(* The kinds of constructs, one by one.                                    *)
LEMMA ListKept ==
  ASSUME NEW n, Nucleate(n), NEW s \in MathStyles
  PROVE  Kept(BareBox(n), Made("LIST", s, "ORD", {}))
<1> DEFINE b == BareBox(n)
           m == Made("LIST", s, "ORD", {})
<1>1. Whole(b) /\ HoldsWidth(b) /\ b.slots = Len(b.children)  BY BareWhole
<1>2. m.by = "LIST" /\ m.style = s /\ m.class = "ORD" /\ m.asks = {}  BY MadeFields
<1> HIDE DEF b, m
<1>3. Filled(b, m.by)  BY <1>1, <1>2 DEF Filled
<1>4. PartsKept(b, m)  BY <1>2 DEF PartsKept
<1>5. Answered(b, m.asks)  BY <1>2, Unasked
<1>6. Kept(b, m)  BY <1>1, <1>2, <1>3, <1>4, <1>5 DEF Kept, Classes
<1> QED  BY <1>6 DEF b, m

LEMMA DelimiterKept ==
  ASSUME NEW d \in Delimiters, NEW s \in MathStyles, NEW t \in BigTargets
  PROVE  Kept(SizedBox(d, s, t), Made("DELIMITER", s, "ORD", {Asks("BODY", d, s, t)}))
<1> DEFINE b == SizedBox(d, s, t)
           asks == {Asks("BODY", d, s, t)}
           m == Made("DELIMITER", s, "ORD", asks)
<1>1. d \in DOMAIN Ladders /\ t \in Int  BY BoxesAssumption
<1>2. Whole(b) /\ HoldsWidth(b) /\ b.slots = 1 /\ Len(b.children) = 1 /\ Answered(b, asks)
  BY <1>1, SizedWhole
<1> HIDE DEF asks
<1>3. m.by = "DELIMITER" /\ m.style = s /\ m.class = "ORD" /\ m.asks = asks  BY MadeFields
<1> HIDE DEF b, m
<1>4. Filled(b, m.by)  BY <1>2, <1>3 DEF Filled
<1>5. PartsKept(b, m)  BY <1>3 DEF PartsKept
<1>6. Kept(b, m)  BY <1>2, <1>3, <1>4, <1>5 DEF Kept, Classes
<1> QED  BY <1>6 DEF b, m, asks

LEMMA AccentStep ==
  ASSUME NEW nucleus, Extents(nucleus), NEW skew \in Int, NEW a \in Accents, NEW s \in MathStyles
  PROVE  Kept(AccentBox(nucleus, skew, a, s), Made("ACCENT", s, "ORD", {}))
<1> DEFINE b == AccentBox(nucleus, skew, a, s)
           m == Made("ACCENT", s, "ORD", {})
<1>1. Whole(b) /\ b.slots = 2 /\ Len(b.children) = 2 /\ AccentKept(b, a, s)  BY AccentWhole
<1>2. m.by = "ACCENT" /\ m.style = s /\ m.class = "ORD" /\ m.asks = {}  BY MadeFields
<1> HIDE DEF b, m
<1>3. Filled(b, m.by)  BY <1>1, <1>2 DEF Filled
<1>4. PartsKept(b, m)  BY <1>1, <1>2 DEF PartsKept
<1>5. Answered(b, m.asks)  BY <1>2, Unasked
<1>6. Kept(b, m)  BY <1>1, <1>2, <1>3, <1>4, <1>5 DEF Kept, Classes
<1> QED  BY <1>6 DEF b, m

FractionAsks(s, binom) ==
  IF ~binom THEN {}
  ELSE {Asks(role, Parens[IF role = "LEFT" THEN 1 ELSE 2], s, BinomialTarget(s)) :
          role \in {"LEFT", "RIGHT"}}

LEMMA FractionKept ==
  ASSUME NEW num, Extents(num), NEW den, Extents(den), NEW s \in MathStyles,
         NEW binom \in BOOLEAN
  PROVE  Kept(FractionBox(num, den, s, binom), Made("FRACTION", s, "INNER", FractionAsks(s, binom)))
<1> DEFINE b == FractionBox(num, den, s, binom)
           asks == FractionAsks(s, binom)
           m == Made("FRACTION", s, "INNER", asks)
<1>1. /\ Whole(b) /\ HoldsWidth(b) /\ Len(b.children) = b.slots /\ Answered(b, asks)
      /\ BarKept(b, s) \/ BinomialKept(b, s)
  <2>1. CASE ~binom
    <3>1. /\ Whole(b) /\ HoldsWidth(b) /\ b.slots = 5 /\ Len(b.children) = 5 /\ BarKept(b, s)
      <4>1. b = FractionBox(num, den, s, FALSE)  BY <2>1
      <4> HIDE DEF b
      <4> QED  BY <4>1, BarredFraction
    <3>2. asks = {}  BY <2>1 DEF FractionAsks
    <3> HIDE DEF b, asks
    <3> QED  BY <3>1, <3>2, Unasked
  <2>2. CASE binom
    <3>1. /\ Whole(b) /\ HoldsWidth(b) /\ b.slots = 4 /\ Len(b.children) = 4
          /\ BinomialKept(b, s) /\ Answered(b, ParenAsks(s))
      <4>1. b = FractionBox(num, den, s, TRUE)  BY <2>2
      <4> HIDE DEF b
      <4> QED  BY <4>1, BinomialFraction
    <3>2. asks = ParenAsks(s)
      <4> DEFINE l == Asks("LEFT", Parens[1], s, BinomialTarget(s))
                 r == Asks("RIGHT", Parens[2], s, BinomialTarget(s))
                 F(role) == Asks(role, Parens[IF role = "LEFT" THEN 1 ELSE 2], s, BinomialTarget(s))
      <4>1. asks = {F(role) : role \in {"LEFT", "RIGHT"}}  BY <2>2 DEF FractionAsks
      <4>2. F("LEFT") = l /\ F("RIGHT") = r  OBVIOUS
      <4>3. ParenAsks(s) = {l, r}  BY DEF ParenAsks
      <4> HIDE DEF F, l, r, asks
      <4> QED  BY <4>1, <4>2, <4>3
    <3> HIDE DEF b, asks
    <3> QED  BY <3>1, <3>2
  <2> QED  BY <2>1, <2>2
<1> HIDE DEF asks
<1>2. m.by = "FRACTION" /\ m.style = s /\ m.class = "INNER" /\ m.asks = asks  BY MadeFields
<1> HIDE DEF b, m
<1>3. Filled(b, m.by)  BY <1>1, <1>2 DEF Filled
<1>4. PartsKept(b, m)  BY <1>1, <1>2 DEF PartsKept
<1>5. Kept(b, m)  BY <1>1, <1>2, <1>3, <1>4 DEF Kept, Classes
<1> QED  BY <1>5 DEF b, m, asks

LEMMA FencesKept ==
  ASSUME NEW l \in Delimiters, NEW r \in Delimiters, NEW inner, Listed(inner), NEW last,
         NEW s \in MathStyles, NEW target, target = DelimiterTarget(Reach(inner, s))
  PROVE  Kept(FencedBox(l, r, inner, last, s),
              Made("FENCED", s, "INNER", {Asks("LEFT", l, s, target), Asks("RIGHT", r, s, target)}))
<1> DEFINE b == FencedBox(l, r, inner, last, s)
           asks == FenceAsks(l, r, s, target)
           m == Made("FENCED", s, "INNER", asks)
<1>1. /\ Whole(b) /\ HoldsWidth(b) /\ b.slots = Len(b.children)
      /\ Answered(b, asks) /\ Covered(b, s, asks)
  BY FencedKept
<1>2. asks = {Asks("LEFT", l, s, target), Asks("RIGHT", r, s, target)}  BY DEF FenceAsks
<1> HIDE DEF asks
<1>3. m.by = "FENCED" /\ m.style = s /\ m.class = "INNER" /\ m.asks = asks  BY MadeFields
<1> HIDE DEF b, m
<1>4. Filled(b, m.by)  BY <1>1, <1>3 DEF Filled
<1>5. PartsKept(b, m)  BY <1>1, <1>3 DEF PartsKept
<1>6. Kept(b, m)  BY <1>1, <1>3, <1>4, <1>5 DEF Kept, Classes
<1> QED  BY <1>2, <1>6 DEF b, m

LEMMA ArrayKept ==
  ASSUME NEW grid, Gridded(grid), NEW e \in Environments, NEW s \in MathStyles,
         NEW class \in Classes
  PROVE  Kept(ArrayBox(grid, e, s), Made("ARRAY", s, class, ArrayAsks(grid, e, s)))
<1> DEFINE b == ArrayBox(grid, e, s)
           asks == ArrayAsks(grid, e, s)
           m == Made("ARRAY", s, class, asks)
<1>1. /\ Whole(b) /\ HoldsWidth(b) /\ b.slots = Len(b.children) /\ GridKept(b, s)
      /\ Answered(b, asks) /\ Covered(b, s, asks)
  BY ArrayWhole
<1> HIDE DEF asks
<1>2. m.by = "ARRAY" /\ m.style = s /\ m.class = class /\ m.asks = asks  BY MadeFields
<1> HIDE DEF b, m
<1>3. Filled(b, m.by)  BY <1>1, <1>2 DEF Filled
<1>4. PartsKept(b, m)  BY <1>1, <1>2 DEF PartsKept
<1>5. Kept(b, m)  BY <1>1, <1>2, <1>3, <1>4 DEF Kept
<1> QED  BY <1>5 DEF b, m, asks

LEMMA RootKept ==
  ASSUME NEW radicand, Extents(radicand), NEW index, Optional(index), NEW s \in MathStyles
  PROVE  Kept(RadicalBox(radicand, index, s),
              Made("RADICAL", s, "ORD", {Asks("SIGN", Sign, s, RadicalTarget(radicand, s))}))
<1> DEFINE b == RadicalBox(radicand, index, s)
           target == RadicalTarget(radicand, s)
           asks == SignAsks(s, target)
           m == Made("RADICAL", s, "ORD", asks)
<1>1. /\ Whole(b) /\ HoldsWidth(b) /\ b.slots = Len(b.children)
      /\ RadicalKept(b, s, target) /\ Answered(b, asks)
  BY RadicalWhole
<1>2. asks = {Asks("SIGN", Sign, s, target)} /\ asks = SignAsks(s, target)  BY DEF SignAsks
<1> HIDE DEF asks, target
<1>3. m.by = "RADICAL" /\ m.style = s /\ m.class = "ORD" /\ m.asks = asks  BY MadeFields
<1> HIDE DEF b, m
<1>4. Filled(b, m.by)  BY <1>1, <1>3 DEF Filled
<1>5. PartsKept(b, m)  BY <1>1, <1>2, <1>3 DEF PartsKept
<1>6. Kept(b, m)  BY <1>1, <1>3, <1>4, <1>5 DEF Kept, Classes
<1> QED  BY <1>2, <1>6 DEF b, m, target

LEMMA ScriptsStep ==
  ASSUME NEW n, Nucleate(n), NEW sup, Optional(sup), NEW sub, Optional(sub),
         sup # << >> \/ sub # << >>, NEW s \in MathStyles, NEW subFirst \in BOOLEAN
  PROVE  Kept(ScriptsBox(n, sup, sub, subFirst, s), Made("SCRIPTS", s, "ORD", {}))
<1> DEFINE b == ScriptsBox(n, sup, sub, subFirst, s)
           m == Made("SCRIPTS", s, "ORD", {})
<1>1. Whole(b) /\ HoldsWidth(b) /\ b.slots = Len(b.children) /\ ScriptsKept(b, s)
  BY ScriptsWhole
<1>2. m.by = "SCRIPTS" /\ m.style = s /\ m.class = "ORD" /\ m.asks = {}  BY MadeFields
<1> HIDE DEF b, m
<1>3. Filled(b, m.by)  BY <1>1, <1>2 DEF Filled
<1>4. PartsKept(b, m)  BY <1>1, <1>2 DEF PartsKept
<1>5. Answered(b, m.asks)  BY <1>2, Unasked
<1>6. Kept(b, m)  BY <1>1, <1>2, <1>3, <1>4, <1>5 DEF Kept, Classes
<1> QED  BY <1>6 DEF b, m

LEMMA LimitsStep ==
  ASSUME NEW n, Nucleate(n), n.nodes # << >>, NEW sup, Optional(sup), NEW sub, Optional(sub),
         NEW s \in MathStyles, NEW subFirst \in BOOLEAN
  PROVE  Kept(LimitsBox(n, sup, sub, subFirst, s), Made("LIMITS", s, "OP", {}))
<1> DEFINE b == LimitsBox(n, sup, sub, subFirst, s)
           m == Made("LIMITS", s, "OP", {})
<1>1. Whole(b) /\ Len(b.children) <= b.slots /\ LimitsKept(b, s)  BY LimitsWhole
<1>2. m.by = "LIMITS" /\ m.style = s /\ m.class = "OP" /\ m.asks = {}  BY MadeFields
<1> HIDE DEF b, m
<1>3. Filled(b, m.by)  BY <1>1, <1>2 DEF Filled
<1>4. PartsKept(b, m)  BY <1>1, <1>2 DEF PartsKept
<1>5. Answered(b, m.asks)  BY <1>2, Unasked
<1>6. Kept(b, m)  BY <1>1, <1>2, <1>3, <1>4, <1>5 DEF Kept, Classes
<1> QED  BY <1>6 DEF b, m

(* What a construct is put around, and its parts.                          *)
LEMMA StylesKept ==
  ASSUME NEW s \in MathStyles, NEW forced
  PROVE  /\ FractionStyle(forced, s) \in MathStyles
         /\ NumStyle(s) \in MathStyles /\ DenomStyle(s) \in MathStyles
         /\ CrampedStyle(s) \in MathStyles /\ SupStyle(s) \in MathStyles /\ SubStyle(s) \in MathStyles
<1>1. FractionStyle(forced, s) \in MathStyles
  BY DEF FractionStyle, MathStyles, Display, Text
<1>2. NumStyle(s) \in MathStyles /\ DenomStyle(s) \in MathStyles /\ CrampedStyle(s) \in MathStyles
  BY DEF MathStyles, NumStyle, DenomStyle, CrampedStyle
<1>3. SupStyle(s) \in MathStyles /\ SubStyle(s) \in MathStyles
  BY DEF MathStyles, SupStyle, SubStyle, Script
<1> QED  BY <1>1, <1>2, <1>3

LEMMA CharExtents ==
  ASSUME NEW g \in Glyphs, NEW s \in MathStyles
  PROVE  Extents(CharBox(g, s))
  BY CharFormed DEF Formed

LEMMA BareExtents ==
  ASSUME NEW n, Nucleate(n)
  PROVE  Extents(BareBox(n))
  BY BareWhole DEF Whole, Formed

LEMMA OptionalKept ==
  ASSUME NEW o, Optional(o)
  PROVE  /\ Optional([k \in DOMAIN o |-> o[k]]) /\ Optional([k \in DOMAIN o |-> ScriptBox(o[k])])
         /\ o # << >> => [k \in DOMAIN o |-> o[k]] # << >> /\ [k \in DOMAIN o |-> ScriptBox(o[k])] # << >>
<1>1. CASE o = << >>
  <2>1. [k \in DOMAIN o |-> o[k]] = << >> /\ [k \in DOMAIN o |-> ScriptBox(o[k])] = << >>
    BY <1>1
  <2> QED  BY <1>1, <2>1 DEF Optional
<1>2. CASE o # << >>
  <2>1. PICK b : o = <<b>> /\ Extents(b)  BY <1>2 DEF Optional
  <2> DEFINE c == ScriptBox(b)
  <2>2. Extents(c)
    <3>1. c = [b EXCEPT !.width = b.width + ScriptSpace]  BY DEF ScriptBox
    <3>2. /\ b.width \in Nat /\ b.ascent \in Int /\ b.descent \in Int /\ b.ascent + b.descent >= 0
          /\ ScriptSpace \in Nat
      BY <2>1, BoxesAssumption DEF Extents
    <3> DEFINE w == b.width
               v == w + ScriptSpace
    <3>3. v \in Nat /\ c = [b EXCEPT !.width = v]  BY <3>1, <3>2
    <3> HIDE DEF c, v
    <3>4. c.width \in {b.width, v} /\ c.ascent = b.ascent /\ c.descent = b.descent  BY <3>3
    <3> QED  BY <3>2, <3>3, <3>4 DEF Extents
  <2> HIDE DEF c
  <2>3. DOMAIN o = {1} /\ o[1] = b  BY <2>1
  <2>4. [k \in DOMAIN o |-> o[k]] = <<b>>  BY <2>1, <2>3
  <2>5. [k \in DOMAIN o |-> ScriptBox(o[k])] = <<c>>
    <3>1. [k \in DOMAIN o |-> ScriptBox(o[k])] = [k \in {1} |-> c]  BY <2>3 DEF c
    <3> QED  BY <3>1
  <2> QED  BY <2>1, <2>2, <2>4, <2>5 DEF Optional
<1> QED  BY <1>1, <1>2

(* A step that wraps what is kept keeps the invariant.                     *)
LEMMA Wrapped ==
  ASSUME nested \in 0 .. MaxNested, NEW by, NEW b, NEW s \in MathStyles, NEW parameters, NEW class,
         NEW asks, Wrap(by, b, s, parameters, class, asks), Kept(b, Made(by, parameters, class, asks))
  PROVE  IInv'
<1>1. nested < MaxNested /\ nested' = nested + 1 /\ box' = b /\ style' = s
      /\ made' = Made(by, parameters, class, asks)
  BY DEF Wrap
<1>2. MaxNested \in Nat  BY BoxesAssumption
<1>3. nested' \in 0 .. MaxNested  BY <1>1, <1>2
<1>4. Kept(box', made')  BY <1>1
<1> QED  BY <1>1, <1>3, <1>4 DEF IInv

LEMMA InitKept ==
  ASSUME Init
  PROVE  IInv
<1>1. style \in MathStyles /\ nested \in 0 .. MaxNested  BY BoxesAssumption DEF Init
<1>2. CASE \E n \in {CharNucleus(g, style) : g \in Glyphs}
                      \cup {OperatorNucleus(o, style) : o \in Operators} :
             box = BareBox(n) /\ made = Made("LIST", style, "ORD", {})
  <2>1. PICK n : /\ n \in {CharNucleus(g, style) : g \in Glyphs}
                            \cup {OperatorNucleus(o, style) : o \in Operators}
                 /\ box = BareBox(n) /\ made = Made("LIST", style, "ORD", {})
    BY <1>2
  <2>2. Nucleate(n)
    <3>1. CASE \E g \in Glyphs : n = CharNucleus(g, style)  BY <1>1, <3>1, CharNucleate
    <3>2. CASE \E o \in Operators : n = OperatorNucleus(o, style)
      BY <1>1, <3>2, OperatorNucleate
    <3> QED  BY <2>1, <3>1, <3>2
  <2>3. Kept(box, made)  BY <1>1, <2>1, <2>2, ListKept
  <2> QED  BY <1>1, <2>3 DEF IInv
<1>3. CASE \E d \in Delimiters, t \in BigTargets :
             /\ box = SizedBox(d, style, t)
             /\ made = Made("DELIMITER", style, "ORD", {Asks("BODY", d, style, t)})
  <2>1. PICK d \in Delimiters, t \in BigTargets :
          /\ box = SizedBox(d, style, t)
          /\ made = Made("DELIMITER", style, "ORD", {Asks("BODY", d, style, t)})
    BY <1>3
  <2>2. Kept(SizedBox(d, style, t), Made("DELIMITER", style, "ORD", {Asks("BODY", d, style, t)}))
    BY <1>1, DelimiterKept
  <2>3. Kept(box, made)  BY <2>1, <2>2
  <2> QED  BY <1>1, <2>3 DEF IInv
<1>4. CASE \E a \in Accents, g \in Glyphs :
             /\ box = AccentBox(CharBox(g, CrampedStyle(style)), g[StyleSize(style)].skew, a, style)
             /\ made = Made("ACCENT", style, "ORD", {})
  <2>1. PICK a \in Accents, g \in Glyphs :
          /\ box = AccentBox(CharBox(g, CrampedStyle(style)), g[StyleSize(style)].skew, a, style)
          /\ made = Made("ACCENT", style, "ORD", {})
    BY <1>4
  <2> DEFINE nucleus == CharBox(g, CrampedStyle(style))
             skew == g[StyleSize(style)].skew
  <2>2. Extents(nucleus)  BY <1>1, StylesKept, CharExtents
  <2>3. skew \in Int
    <3>1. g[StyleSize(style)] \in Metric  BY <1>1, GlyphTable
    <3> QED  BY <3>1 DEF Metric
  <2>4. box = AccentBox(nucleus, skew, a, style)  BY <2>1
  <2> HIDE DEF nucleus, skew
  <2>5. Kept(AccentBox(nucleus, skew, a, style), Made("ACCENT", style, "ORD", {}))
    BY <1>1, <2>2, <2>3, AccentStep
  <2>6. Kept(box, made)  BY <2>1, <2>4, <2>5
  <2> QED  BY <1>1, <2>6 DEF IInv
<1> QED  BY <1>2, <1>3, <1>4 DEF Init

LEMMA Taken ==
  ASSUME IInv
  PROVE  /\ Formed(box) /\ Extents(box) /\ Extents(Argument) /\ Extents(List)
         /\ style \in MathStyles /\ nested \in 0 .. MaxNested /\ made.class \in Classes
<1>1. Formed(box) /\ style \in MathStyles /\ nested \in 0 .. MaxNested /\ made.class \in Classes
  BY DEF IInv, Kept, Whole
<1>2. Extents(box)  BY <1>1 DEF Formed
<1>3. Extents(Argument)  BY <1>1, ArgumentExtents
<1>4. Extents(List)
  <2> DEFINE class == made.class
  <2>1. Formed(Mlist(box, class, << >>, style))  BY <1>1, <1>2, GroupFormed
  <2> QED  BY <2>1 DEF List, Formed
<1> QED  BY <1>1, <1>2, <1>3, <1>4

LEMMA FractionSteps ==
  ASSUME IInv, BuildFraction
  PROVE  IInv'
<1>1. PICK s \in MathStyles, forced \in {"NONE", "DISPLAY", "TEXT"}, binom \in BOOLEAN, g \in Glyphs :
        LET fs   == FractionStyle(forced, s)
            asks == IF ~binom THEN {}
                    ELSE {Asks(role, Parens[IF role = "LEFT" THEN 1 ELSE 2], fs, BinomialTarget(fs)) :
                            role \in {"LEFT", "RIGHT"}}
            Make(num, den) == Wrap("FRACTION", FractionBox(num, den, fs, binom), s, fs, "INNER", asks)
        IN  /\ forced = "NONE" \/ s \in InStyles
            /\ \/ style = NumStyle(fs) /\ Make(Argument, CharBox(g, DenomStyle(fs)))
               \/ style = DenomStyle(fs) /\ Make(CharBox(g, NumStyle(fs)), Argument)
  BY Zenon DEF BuildFraction
<1> DEFINE fs == FractionStyle(forced, s)
           asks == FractionAsks(fs, binom)
           up == CharBox(g, NumStyle(fs))
           down == CharBox(g, DenomStyle(fs))
           around == Argument
<1>2. Extents(around) /\ nested \in 0 .. MaxNested  BY Taken
<1>3. fs \in MathStyles  BY StylesKept
<1>4. Extents(up) /\ Extents(down)
  <2> HIDE DEF fs
  <2>1. NumStyle(fs) \in MathStyles /\ DenomStyle(fs) \in MathStyles  BY <1>3, StylesKept
  <2> QED  BY <2>1, CharExtents
<1>5. \/ Wrap("FRACTION", FractionBox(around, down, fs, binom), s, fs, "INNER", asks)
      \/ Wrap("FRACTION", FractionBox(up, around, fs, binom), s, fs, "INNER", asks)
  BY <1>1, Zenon DEF FractionAsks
<1> HIDE DEF fs, asks, up, down, around
<1>6. ASSUME NEW num, Extents(num), NEW den, Extents(den)
      PROVE  Kept(FractionBox(num, den, fs, binom), Made("FRACTION", fs, "INNER", asks))
  BY <1>3, <1>6, FractionKept DEF asks
<1>7. Kept(FractionBox(around, down, fs, binom), Made("FRACTION", fs, "INNER", asks))
  BY <1>2, <1>4, <1>6
<1>8. Kept(FractionBox(up, around, fs, binom), Made("FRACTION", fs, "INNER", asks))
  BY <1>2, <1>4, <1>6
<1>9. CASE Wrap("FRACTION", FractionBox(around, down, fs, binom), s, fs, "INNER", asks)
  <2> DEFINE b == FractionBox(around, down, fs, binom)
  <2>1. Wrap("FRACTION", b, s, fs, "INNER", asks) /\ Kept(b, Made("FRACTION", fs, "INNER", asks))
    BY <1>7, <1>9
  <2> HIDE DEF b
  <2> QED  BY <1>2, <2>1, Wrapped
<1>10. CASE Wrap("FRACTION", FractionBox(up, around, fs, binom), s, fs, "INNER", asks)
  <2> DEFINE b == FractionBox(up, around, fs, binom)
  <2>1. Wrap("FRACTION", b, s, fs, "INNER", asks) /\ Kept(b, Made("FRACTION", fs, "INNER", asks))
    BY <1>8, <1>10
  <2> HIDE DEF b
  <2> QED  BY <1>2, <2>1, Wrapped
<1> QED  BY <1>5, <1>9, <1>10

LEMMA FencedSteps ==
  ASSUME IInv, BuildFenced
  PROVE  IInv'
<1>1. PICK l, r \in Delimiters, tail \in Tails :
        LET inner  == Mlist(box, made.class, tail, style)
            target == DelimiterTarget(Reach(inner, style))
            last   == IF tail = << >> THEN made.class ELSE tail[1].class
        IN  Wrap("FENCED", FencedBox(l, r, inner, last, style), style, style, "INNER",
                 {Asks("LEFT", l, style, target), Asks("RIGHT", r, style, target)})
  BY Zenon DEF BuildFenced
<1> DEFINE class  == made.class
           inner  == Mlist(box, class, tail, style)
           target == DelimiterTarget(Reach(inner, style))
           last   == IF tail = << >> THEN class ELSE tail[1].class
           b      == FencedBox(l, r, inner, last, style)
           asks   == {Asks("LEFT", l, style, target), Asks("RIGHT", r, style, target)}
<1>2. Extents(box) /\ nested \in 0 .. MaxNested /\ style \in MathStyles  BY Taken
<1>3. Wrap("FENCED", b, style, style, "INNER", asks)  BY <1>1, Zenon
<1>4. Listed(inner)
  <2> HIDE DEF class
  <2> QED  BY <1>2, MlistListed
<1>5. target = DelimiterTarget(Reach(inner, style))  OBVIOUS
<1> HIDE DEF inner, target, last
<1>6. Kept(b, Made("FENCED", style, "INNER", asks))  BY <1>2, <1>4, <1>5, FencesKept
<1> HIDE DEF b, asks
<1> QED  BY <1>2, <1>3, <1>6, Wrapped

(* The shapes of the alignments.                                           *)
Shaped(shape) ==
  /\ Len(shape) \in Nat \ {0} /\ DOMAIN shape = 1 .. Len(shape)
  /\ \A r \in 1 .. Len(shape) :
       Len(shape[r]) \in Nat \ {0} /\ DOMAIN shape[r] = 1 .. Len(shape[r])

LEMMA ShapesShaped ==
  ASSUME NEW shape \in Shapes
  PROVE  Shaped(shape)
<1>1. shape \in Seq(Row) /\ shape # << >>  BY ShapesAssumption
<1>2. Len(shape) \in Nat \ {0} /\ DOMAIN shape = 1 .. Len(shape)  BY <1>1
<1>3. ASSUME NEW r \in 1 .. Len(shape)
      PROVE  Len(shape[r]) \in Nat \ {0} /\ DOMAIN shape[r] = 1 .. Len(shape[r])
  <2>1. shape[r] \in Row  BY <1>1
  <2> DEFINE row == shape[r]
  <2>2. row \in Seq({"BOX", "CHAR", "EMPTY"}) /\ row # << >>  BY <2>1 DEF Row
  <2> HIDE DEF row
  <2>3. Len(row) \in Nat \ {0} /\ DOMAIN row = 1 .. Len(row)  BY <2>2
  <2> QED  BY <2>3 DEF row
<1> QED  BY <1>2, <1>3 DEF Shaped

LEMMA ShapeFilled ==
  ASSUME NEW shape, Shaped(shape), NEW grid,
         grid = [r \in DOMAIN shape |-> [c \in DOMAIN shape[r] |-> grid[r][c]]],
         \A r \in DOMAIN shape : \A c \in DOMAIN shape[r] : Extents(grid[r][c])
  PROVE  Gridded(grid)
<1> DEFINE n == Len(shape)
<1>1. /\ n \in Nat \ {0} /\ DOMAIN shape = 1 .. n
      /\ \A r \in 1 .. n : Len(shape[r]) \in Nat \ {0} /\ DOMAIN shape[r] = 1 .. Len(shape[r])
  BY DEF Shaped
<1> HIDE DEF n
<1>2. grid = [r \in 1 .. n |-> grid[r]] /\ DOMAIN grid = 1 .. n
  <2> DEFINE row(r) == [c \in DOMAIN shape[r] |-> grid[r][c]]
  <2>1. grid = [r \in DOMAIN shape |-> row(r)]  OBVIOUS
  <2> HIDE DEF row
  <2> QED  BY <1>1, <2>1
<1>3. Len(grid) = n  BY <1>1, <1>2
<1>4. ASSUME NEW r \in 1 .. n
      PROVE  /\ Len(grid[r]) \in Nat \ {0} /\ DOMAIN grid[r] = 1 .. Len(grid[r])
             /\ \A c \in 1 .. Len(grid[r]) : Extents(grid[r][c])
  <2> DEFINE row == grid[r]
             m == Len(shape[r])
  <2>1. m \in Nat \ {0} /\ DOMAIN shape[r] = 1 .. m  BY <1>1
  <2>2. row = [c \in 1 .. m |-> row[c]]
    <3>1. r \in DOMAIN shape  BY <1>1
    <3>2. grid[r] = [c \in DOMAIN shape[r] |-> grid[r][c]]  BY <3>1
    <3> QED  BY <2>1, <3>2
  <2>3. \A c \in 1 .. m : Extents(row[c])  BY <1>1, <2>1
  <2> HIDE DEF row, m
  <2>4. DOMAIN row = 1 .. m /\ Len(row) = m  BY <2>1, <2>2
  <2> QED  BY <2>1, <2>3, <2>4 DEF row
<1>5. Gridded(grid)  BY <1>1, <1>2, <1>3, <1>4 DEF Gridded
<1> QED  BY <1>5

LEMMA ArraySteps ==
  ASSUME IInv, BuildArray
  PROVE  IInv'
<1>1. PICK e \in Environments, s \in InStyles, g \in Glyphs, shape \in Shapes :
        LET Cell(what) ==
              CASE what = "BOX"   -> List
                [] what = "EMPTY" -> HList(<< >>, 0)
                [] OTHER          -> BareBox(CharNucleus(g, e.cellStyle))
        IN  /\ style = e.cellStyle
            /\ MakeArray([r \in DOMAIN shape |-> [c \in DOMAIN shape[r] |-> Cell(shape[r][c])]], e, s)
  BY Zenon DEF BuildArray
<1> DEFINE letter == BareBox(CharNucleus(g, e.cellStyle))
           empty == HList(<< >>, 0)
           list == List
           Cell(what) ==
             CASE what = "BOX"   -> list
               [] what = "EMPTY" -> empty
               [] OTHER          -> letter
           grid == [r \in DOMAIN shape |-> [c \in DOMAIN shape[r] |-> Cell(shape[r][c])]]
<1>2. MakeArray(grid, e, s) /\ style = e.cellStyle  BY <1>1
<1>3. Extents(list) /\ nested \in 0 .. MaxNested /\ s \in MathStyles /\ style \in MathStyles
  BY Taken, BoxesAssumption
<1>4. Extents(empty)
  <2> DEFINE none == << >>
  <2>1. none \in Seq(NodeType) /\ 0 \in Nat  OBVIOUS
  <2> HIDE DEF none
  <2>2. Formed(HList(none, 0))  BY <2>1, ListFormed
  <2> QED  BY <2>2 DEF Formed, none
<1>5. Extents(letter)
  <2>1. Nucleate(CharNucleus(g, style))  BY <1>3, CharNucleate
  <2> DEFINE n == CharNucleus(g, style)
  <2>2. letter = BareBox(n)  BY <1>2
  <2> HIDE DEF n, letter
  <2> QED  BY <2>1, <2>2, BareExtents DEF n
<1> HIDE DEF letter, empty, list
<1>6. \A what : Extents(Cell(what))  BY <1>3, <1>4, <1>5
<1> HIDE DEF Cell
<1>7. grid = [r \in DOMAIN shape |-> [c \in DOMAIN shape[r] |-> grid[r][c]]]
  <2> DEFINE row(r) == [c \in DOMAIN shape[r] |-> Cell(shape[r][c])]
  <2>1. grid = [r \in DOMAIN shape |-> row(r)]  OBVIOUS
  <2>2. \A r \in DOMAIN shape : grid[r] = row(r)  BY <2>1
  <2>3. \A r \in DOMAIN shape : row(r) = [c \in DOMAIN shape[r] |-> grid[r][c]]
    <3> SUFFICES ASSUME NEW r \in DOMAIN shape
                 PROVE  row(r) = [c \in DOMAIN shape[r] |-> grid[r][c]]
      OBVIOUS
    <3>1. \A c \in DOMAIN shape[r] : grid[r][c] = Cell(shape[r][c])  BY <2>2
    <3> HIDE DEF grid
    <3> QED  BY <3>1
  <2> HIDE DEF row, grid
  <2> QED  BY <2>1, <2>3
<1>8. \A r \in DOMAIN shape : \A c \in DOMAIN shape[r] : Extents(grid[r][c])  BY <1>6
<1> HIDE DEF grid
<1>9. Gridded(grid)  BY <1>7, <1>8, ShapesShaped, ShapeFilled
<1> DEFINE asks == ArrayAsks(grid, e, s)
           class == IF e.delimited THEN "INNER" ELSE "ORD"
           b == ArrayBox(grid, e, s)
<1>10. Wrap("ARRAY", b, s, s, class, asks)
  <2>1. asks = (IF ~e.delimited THEN {}
                ELSE {Asks("LEFT", e.left, s, ArrayTarget(grid, e, s)),
                      Asks("RIGHT", e.right, s, ArrayTarget(grid, e, s))})
    BY DEF ArrayAsks, FenceAsks
  <2> HIDE DEF asks
  <2> QED  BY <1>2, <2>1, Zenon DEF MakeArray
<1>11. class \in Classes  BY DEF Classes
<1> HIDE DEF class
<1>12. Kept(b, Made("ARRAY", s, class, asks))  BY <1>3, <1>9, <1>11, ArrayKept
<1> HIDE DEF b, asks
<1> QED  BY <1>3, <1>10, <1>12, Wrapped

LEMMA RadicalSteps ==
  ASSUME IInv, BuildRadical
  PROVE  IInv'
<1>1. PICK s \in MathStyles, g \in Glyphs :
        LET Make(radicand, index) ==
              Wrap("RADICAL", RadicalBox(radicand, index, s), s, s, "ORD",
                   {Asks("SIGN", Sign, s, RadicalTarget(radicand, s))})
        IN  \/ /\ style = CrampedStyle(s)
               /\ \E index \in {<< >>, <<BareBox(CharNucleus(g, Scriptscript))>>} : Make(Argument, index)
            \/ /\ style = Scriptscript /\ s \in InStyles
               /\ Make(CharBox(g, CrampedStyle(s)), <<List>>)
  BY Zenon DEF BuildRadical
<1> DEFINE Rooted(radicand, index) ==
             Wrap("RADICAL", RadicalBox(radicand, index, s), s, s, "ORD",
                  {Asks("SIGN", Sign, s, RadicalTarget(radicand, s))})
           small == BareBox(CharNucleus(g, Scriptscript))
           letter == CharBox(g, CrampedStyle(s))
           around == Argument
           list == List
<1>2. \/ Rooted(around, << >>) \/ Rooted(around, <<small>>)
      \/ Rooted(letter, <<list>>)
  BY <1>1
<1>3. Extents(around) /\ Extents(list) /\ nested \in 0 .. MaxNested  BY Taken
<1>4. Extents(small)
  <2> DEFINE n == CharNucleus(g, Scriptscript)
  <2>1. Scriptscript \in MathStyles  BY DEF Scriptscript, MathStyles
  <2>2. Nucleate(n)  BY <2>1, CharNucleate
  <2> HIDE DEF n
  <2>3. Extents(BareBox(n))  BY <2>2, BareExtents
  <2> QED  BY <2>3 DEF n
<1>5. Extents(letter)  BY StylesKept, CharExtents
<1> HIDE DEF small, letter, around, list
<1>6. ASSUME NEW radicand, Extents(radicand), NEW index, Optional(index), Rooted(radicand, index)
      PROVE  IInv'
  <2> DEFINE b == RadicalBox(radicand, index, s)
             asks == {Asks("SIGN", Sign, s, RadicalTarget(radicand, s))}
  <2>1. Wrap("RADICAL", b, s, s, "ORD", asks)  BY <1>6
  <2>2. Kept(b, Made("RADICAL", s, "ORD", asks))  BY <1>6, RootKept
  <2> HIDE DEF b, asks
  <2> QED  BY <1>3, <2>1, <2>2, Wrapped
<1>7. Optional(<< >>) /\ Optional(<<small>>) /\ Optional(<<list>>)
  BY <1>3, <1>4 DEF Optional
<1> HIDE DEF Rooted
<1>8. CASE Rooted(around, << >>)  BY <1>3, <1>6, <1>7, <1>8
<1>9. CASE Rooted(around, <<small>>)  BY <1>3, <1>6, <1>7, <1>9
<1>10. CASE Rooted(letter, <<list>>)  BY <1>5, <1>6, <1>7, <1>10
<1> QED  BY <1>2, <1>8, <1>9, <1>10

LEMMA AccentSteps ==
  ASSUME IInv, BuildAccent
  PROVE  IInv'
<1>1. PICK s \in MathStyles, a \in Accents :
        Wrap("ACCENT", AccentBox(Argument, 0, a, s), s, s, "ORD", {})
  BY DEF BuildAccent
<1> DEFINE around == Argument
           b == AccentBox(around, 0, a, s)
           asks == {}
<1>2. Extents(around) /\ nested \in 0 .. MaxNested  BY Taken
<1>3. Wrap("ACCENT", b, s, s, "ORD", asks)  BY <1>1
<1> HIDE DEF around
<1>4. Kept(b, Made("ACCENT", s, "ORD", asks))  BY <1>2, AccentStep
<1> HIDE DEF b, asks
<1> QED  BY <1>2, <1>3, <1>4, Wrapped

(* A construct with scripts, or with limits.                               *)
LEMMA MadeScripts ==
  ASSUME IInv, NEW n, Nucleate(n), NEW sup, Optional(sup), NEW sub, Optional(sub),
         sup # << >> \/ sub # << >>, NEW subFirst \in BOOLEAN, NEW limits \in BOOLEAN,
         limits => n.nodes # << >>, NEW s \in MathStyles,
         MakeScripts(n, sup, sub, subFirst, limits, s)
  PROVE  IInv'
<1>1. nested \in 0 .. MaxNested  BY Taken
<1>2. CASE limits
  <2> DEFINE high == [k \in DOMAIN sup |-> sup[k]]
             low == [k \in DOMAIN sub |-> sub[k]]
             b == LimitsBox(n, high, low, subFirst, s)
             asks == {}
  <2>1. Wrap("LIMITS", b, s, s, "OP", asks)  BY <1>2 DEF MakeScripts
  <2>2. Optional(high) /\ Optional(low)  BY OptionalKept
  <2> HIDE DEF high, low
  <2>3. Kept(b, Made("LIMITS", s, "OP", asks))  BY <1>2, <2>2, LimitsStep
  <2> HIDE DEF b, asks
  <2> QED  BY <1>1, <2>1, <2>3, Wrapped
<1>3. CASE ~limits
  <2> DEFINE high == [k \in DOMAIN sup |-> ScriptBox(sup[k])]
             low == [k \in DOMAIN sub |-> ScriptBox(sub[k])]
             b == ScriptsBox(n, high, low, subFirst, s)
             asks == {}
  <2>1. Wrap("SCRIPTS", b, s, s, "ORD", asks)  BY <1>3 DEF MakeScripts
  <2>2. Optional(high) /\ Optional(low)  BY OptionalKept
  <2>3. high # << >> \/ low # << >>  BY OptionalKept
  <2> HIDE DEF high, low
  <2>4. Kept(b, Made("SCRIPTS", s, "ORD", asks))  BY <2>2, <2>3, ScriptsStep
  <2> HIDE DEF b, asks
  <2> QED  BY <1>1, <2>1, <2>4, Wrapped
<1> QED  BY <1>2, <1>3

LEMMA ScriptsSteps ==
  ASSUME IInv, BuildScripts
  PROVE  IInv'
<1>1. PICK s \in MathStyles, subFirst \in BOOLEAN, limits \in BOOLEAN, g \in Glyphs :
        LET up   == SupStyle(s)
            down == SubStyle(s)
            Char(at) == CharBox(g, at)
            Make(n, sup, sub) == MakeScripts(n, sup, sub, subFirst, limits, s)
            Nuclei == {OperatorNucleus(o, s) : o \in Operators}
                        \cup (IF limits THEN {} ELSE {CharNucleus(h, s) : h \in Glyphs}
                                                       \cup {EmptyNucleus(s)})
        IN  \/ /\ style = s /\ (limits => made.by = "LIST")
               /\ \E sup \in {<< >>, <<Char(up)>>}, sub \in {<< >>, <<Char(down)>>} :
                    sup \o sub # << >> /\ Make(ListNucleus(box, s), sup, sub)
            \/ \E n \in Nuclei :
                 \/ style = up /\ \E sub \in {<< >>, <<Char(down)>>} : Make(n, <<Argument>>, sub)
                 \/ style = down /\ \E sup \in {<< >>, <<Char(up)>>} : Make(n, sup, <<Argument>>)
  BY Zenon DEF BuildScripts
<1> DEFINE high == CharBox(g, SupStyle(s))
           low == CharBox(g, SubStyle(s))
           around == Argument
           list == ListNucleus(box, s)
           Scripted(n, sup, sub) == MakeScripts(n, sup, sub, subFirst, limits, s)
           Nuclei == {OperatorNucleus(o, s) : o \in Operators}
                       \cup (IF limits THEN {} ELSE {CharNucleus(h, s) : h \in Glyphs}
                                                      \cup {EmptyNucleus(s)})
<1>2. \/ \E sup \in {<< >>, <<high>>}, sub \in {<< >>, <<low>>} :
           sup \o sub # << >> /\ Scripted(list, sup, sub)
      \/ \E n \in Nuclei :
           \/ \E sub \in {<< >>, <<low>>} : Scripted(n, <<around>>, sub)
           \/ \E sup \in {<< >>, <<high>>} : Scripted(n, sup, <<around>>)
  BY <1>1, Zenon
<1>3. Extents(around) /\ Extents(box)  BY Taken
<1>4. Extents(high) /\ Extents(low)
  <2> DEFINE up == SupStyle(s)
             down == SubStyle(s)
  <2>1. up \in MathStyles /\ down \in MathStyles  BY StylesKept
  <2> HIDE DEF up, down
  <2>2. Extents(CharBox(g, up)) /\ Extents(CharBox(g, down))  BY <2>1, CharExtents
  <2> QED  BY <2>2 DEF up, down
<1>5. Nucleate(list) /\ list.nodes # << >>  BY <1>3, ListNucleate
<1>6. \A n \in Nuclei : Nucleate(n) /\ (limits => n.nodes # << >>)
  <2> TAKE n \in Nuclei
  <2>1. CASE \E o \in Operators : n = OperatorNucleus(o, s)  BY <2>1, OperatorNucleate
  <2>2. CASE ~limits /\ \E h \in Glyphs : n = CharNucleus(h, s)  BY <2>2, CharNucleate
  <2>3. CASE ~limits /\ n = EmptyNucleus(s)  BY <2>3, EmptyNucleate
  <2> QED  BY <2>1, <2>2, <2>3
<1> HIDE DEF high, low, around, list, Nuclei
<1>7. Optional(<< >>) /\ Optional(<<high>>) /\ Optional(<<low>>) /\ Optional(<<around>>)
  BY <1>3, <1>4 DEF Optional
<1>8. ASSUME NEW n, Nucleate(n), limits => n.nodes # << >>, NEW sup, Optional(sup),
             NEW sub, Optional(sub), sup # << >> \/ sub # << >>, Scripted(n, sup, sub)
      PROVE  IInv'
  BY <1>8, MadeScripts
<1> HIDE DEF Scripted
<1>9. CASE \E sup \in {<< >>, <<high>>}, sub \in {<< >>, <<low>>} :
             sup \o sub # << >> /\ Scripted(list, sup, sub)
  <2>1. PICK sup \in {<< >>, <<high>>}, sub \in {<< >>, <<low>>} :
               sup \o sub # << >> /\ Scripted(list, sup, sub)
    BY <1>9
  <2>2. Optional(sup) /\ Optional(sub)  BY <1>7
  <2>3. sup # << >> \/ sub # << >>  BY <2>1
  <2> QED  BY <1>5, <1>8, <2>1, <2>2, <2>3
<1>10. ASSUME NEW n \in Nuclei, NEW sub \in {<< >>, <<low>>}, Scripted(n, <<around>>, sub)
       PROVE  IInv'
  <2> DEFINE sup == <<around>>
  <2>1. Optional(sup) /\ Optional(sub) /\ sup # << >>  BY <1>7
  <2>2. Scripted(n, sup, sub)  BY <1>10
  <2> HIDE DEF sup
  <2> QED  BY <1>6, <1>8, <2>1, <2>2
<1>11. ASSUME NEW n \in Nuclei, NEW sup \in {<< >>, <<high>>}, Scripted(n, sup, <<around>>)
       PROVE  IInv'
  <2> DEFINE sub == <<around>>
  <2>1. Optional(sup) /\ Optional(sub) /\ sub # << >>  BY <1>7
  <2>2. Scripted(n, sup, sub)  BY <1>11
  <2> HIDE DEF sub
  <2> QED  BY <1>6, <1>8, <2>1, <2>2
<1> QED  BY <1>2, <1>9, <1>10, <1>11

LEMMA StepKept ==
  ASSUME IInv, [Next]_vars
  PROVE  IInv'
<1>1. CASE BuildFraction  BY <1>1, FractionSteps
<1>2. CASE BuildFenced  BY <1>2, FencedSteps
<1>3. CASE BuildArray  BY <1>3, ArraySteps
<1>4. CASE BuildRadical  BY <1>4, RadicalSteps
<1>5. CASE BuildAccent  BY <1>5, AccentSteps
<1>6. CASE BuildScripts  BY <1>6, ScriptsSteps
<1>7. CASE UNCHANGED vars
  BY <1>7, Zenon DEF vars, IInv
<1> QED  BY <1>1, <1>2, <1>3, <1>4, <1>5, <1>6, <1>7, Zenon DEF Next, Build, Returned

THEOREM Inductive == Spec => []IInv
<1>1. Init => IInv  BY InitKept
<1>2. IInv /\ [Next]_vars => IInv'  BY StepKept
<1> QED  BY <1>1, <1>2, PTL DEF Spec

-----------------------------------------------------------------------------
(***************************************************************************)
(* What the invariant says of the box made last.                           *)
(***************************************************************************)
LEMMA PartOf ==
  ASSUME NEW n, NEW role, Plays(box.children, n, role)
  PROVE  Part(role) = n /\ Has(role)
<1>1. n \in Children /\ n.role = role /\ \A q \in Children : q.role = role => q = n
  BY DEF Plays, Members, Children
<1> QED  BY <1>1 DEF Part, Has

LEMMA AbsentPart ==
  ASSUME NEW role, Has(role), Single(box.children, role)
  PROVE  Plays(box.children, Part(role), role)
<1>1. ~Absent(box.children, role)  BY DEF Has, Absent, Members, Children
<1>2. PICK n : Plays(box.children, n, role)  BY <1>1 DEF Single
<1> QED  BY <1>2, PartOf

LEMMA ChildrenTyped ==
  ASSUME IInv
  PROVE  /\ box.children \in Seq(NodeType) /\ Children \subseteq NodeType
         /\ Children = Members(box.children)
<1>1. box.children \in Seq(NodeType)  BY DEF IInv, Kept, Whole, Formed
<1>2. Children = Members(box.children)  BY DEF Children, Members
<1> QED  BY <1>1, <1>2, MembersTyped

LEMMA AskedPart ==
  ASSUME IInv, NEW a \in made.asks
  PROVE  /\ Part(a.role) \in NodeType /\ Fits(Part(a.role), a)
         /\ a.role # "SIGN" /\ ~LadderOf(a).null => OnAxis(Part(a.role), a.style)
<1>1. PICK n : Plays(box.children, n, a.role) /\ Answers(n, a)  BY DEF IInv, Kept, Answered
<1>2. Part(a.role) = n  BY <1>1, PartOf
<1>3. n \in NodeType  BY <1>1, ChildrenTyped DEF Plays
<1> QED  BY <1>1, <1>2, <1>3 DEF Answers

LEMMA TypedState ==
  ASSUME IInv
  PROVE  TypeOK
<1>1. Extents(box) /\ made.class \in Classes /\ made.style \in MathStyles
      /\ style \in MathStyles /\ nested \in 0 .. MaxNested
  BY DEF IInv, Kept, Whole, Formed
<1>2. box.width \in Int /\ box.ascent \in Int /\ box.descent \in Int  BY <1>1 DEF Extents
<1>3. \A n \in Children : {n.x, n.y, n.width, n.ascent, n.descent, n.italic} \subseteq Int
  <2> TAKE n \in Children
  <2>1. n \in NodeType  BY ChildrenTyped
  <2> QED  BY <2>1, NodeFields
<1> QED  BY <1>1, <1>2, <1>3 DEF TypeOK

LEMMA FilledState ==
  ASSUME IInv
  PROVE  SlotsFilled
<1>1. IF made.by = "LIMITS" THEN Len(box.children) <= box.slots
      ELSE Len(box.children) = box.slots
  BY DEF IInv, Kept, Filled
<1>2. ASSUME NEW a \in made.asks, Part(a.role).parts # << >>
      PROVE  Len(Part(a.role).parts) = PieceSlots(LadderOf(a), a.target)
  BY <1>2, AskedPart DEF Fits, PiecesTight
<1> QED  BY <1>1, <1>2 DEF SlotsFilled

LEMMA InkState ==
  ASSUME IInv
  PROVE  InkInside
<1>1. Ink(box.children) = {n \in Members(box.children) : n.kind # "KERN"}  BY InkOf
<1>2. HoldsInk(box) /\ (made.by \notin {"ACCENT", "LIMITS"} => HoldsWidth(box))
  BY DEF IInv, Kept, Whole
<1> QED  BY <1>1, <1>2 DEF InkInside, HoldsInk, HoldsWidth

LEMMA FractionState ==
  ASSUME IInv
  PROVE  FractionClear
<1> SUFFICES ASSUME made.by = "FRACTION" PROVE FractionClear  BY DEF FractionClear
<1>1. BarKept(box, made.style) \/ BinomialKept(box, made.style)  BY DEF IInv, Kept, PartsKept
<1>2. CASE BarKept(box, made.style)
  <2>1. PICK bar, top, bottom :
          /\ Plays(box.children, bar, "RULE") /\ Plays(box.children, top, "NUM")
          /\ Plays(box.children, bottom, "DEN")
          /\ BarParts(bar, top, bottom, made.style)
    BY <1>2 DEF BarKept
  <2>2. /\ Part("RULE") = bar /\ Has("RULE") /\ Part("NUM") = top /\ Part("DEN") = bottom
    BY <2>1, PartOf
  <2> QED  BY <2>1, <2>2 DEF FractionClear, BarParts, Rule, Axis
<1>3. CASE BinomialKept(box, made.style)
  <2>1. PICK top, bottom :
          /\ Plays(box.children, top, "NUM") /\ Plays(box.children, bottom, "DEN")
          /\ \A n \in Members(box.children) : n.role # "RULE"
          /\ Bottom(top) - Top(bottom) >= (IF made.style < Text THEN 7 ELSE 3) * P("rule", made.style)
    BY <1>3 DEF BinomialKept
  <2>2. Part("NUM") = top /\ Part("DEN") = bottom  BY <2>1, PartOf
  <2>3. ~Has("RULE")  BY <2>1, ChildrenTyped DEF Has
  <2> QED  BY <2>1, <2>2, <2>3 DEF FractionClear, Rule
<1> QED  BY <1>1, <1>2, <1>3

LEMMA ScriptsState ==
  ASSUME IInv
  PROVE  ScriptsApart
<1> SUFFICES ASSUME made.by = "SCRIPTS" PROVE ScriptsApart  BY DEF ScriptsApart
<1> DEFINE c == box.children
<1>1. ScriptsKept(box, made.style)  BY DEF IInv, Kept, PartsKept
<1>2. Single(c, "SUP") /\ Single(c, "SUB")  BY <1>1 DEF ScriptsKept
<1>3. Has("SUP") => Plays(c, Part("SUP"), "SUP")  BY <1>2, AbsentPart
<1>4. Has("SUB") => Plays(c, Part("SUB"), "SUB")  BY <1>2, AbsentPart
<1>5. ~Has("SUP") => Absent(c, "SUP")  BY DEF Has, Absent, Members, Children
<1> DEFINE sup == Part("SUP")
           sub == Part("SUB")
<1> HIDE DEF sup, sub
<1>6. /\ Has("SUP") => Bottom(sup) >= P("xHeight", made.style) \div 4
      /\ Has("SUB") /\ ~Has("SUP") => Top(sub) <= (4 * P("xHeight", made.style)) \div 5
      /\ Has("SUB") /\ Has("SUP") =>
           Bottom(sup) - Top(sub) >= 4 * P("rule", made.style) /\ sub.x <= sup.x
  BY <1>1, <1>3, <1>4, <1>5 DEF ScriptsKept, sup, sub
<1> QED  BY <1>6 DEF ScriptsApart, Rule, sup, sub

LEMMA LimitsState ==
  ASSUME IInv
  PROVE  LimitsApart
<1> SUFFICES ASSUME made.by = "LIMITS" PROVE LimitsApart  BY DEF LimitsApart
<1> DEFINE c == box.children
<1>1. LimitsKept(box, made.style)  BY DEF IInv, Kept, PartsKept
<1>2. Single(c, "SUP") /\ Single(c, "SUB")  BY <1>1 DEF LimitsKept
<1>3. Has("SUP") => Plays(c, Part("SUP"), "SUP")  BY <1>2, AbsentPart
<1>4. Has("SUB") => Plays(c, Part("SUB"), "SUB")  BY <1>2, AbsentPart
<1>5. Plays(c, Part("NUCLEUS"), "NUCLEUS")  BY <1>1, PartOf DEF LimitsKept
<1>6. \A n : Plays(c, n, "NUCLEUS") => n = Part("NUCLEUS")  BY PartOf
<1> QED  BY <1>1, <1>3, <1>4, <1>5, <1>6 DEF LimitsKept, LimitsApart

LEMMA RadicalState ==
  ASSUME IInv
  PROVE  RadicalCovers
<1> SUFFICES ASSUME made.by = "RADICAL" PROVE RadicalCovers  BY DEF RadicalCovers
<1>1. PICK target : made.asks = SignAsks(made.style, target) /\ RadicalKept(box, made.style, target)
  BY DEF IInv, Kept, PartsKept
<1>2. PICK sign, bar, radicand :
        /\ Plays(box.children, sign, "SIGN") /\ Plays(box.children, bar, "RULE")
        /\ Plays(box.children, radicand, "RADICAND")
        /\ SignOver(sign, bar, radicand, made.style, target)
  BY <1>1 DEF RadicalKept
<1>3. Part("SIGN") = sign /\ Part("RULE") = bar /\ Part("RADICAND") = radicand  BY <1>2, PartOf
<1>4. \A a \in made.asks : a.target = target  BY <1>1 DEF SignAsks, Asks
<1> QED  BY <1>2, <1>3, <1>4 DEF RadicalCovers, SignOver

LEMMA AccentState ==
  ASSUME IInv
  PROVE  AccentFits
<1> SUFFICES ASSUME made.by = "ACCENT" PROVE AccentFits  BY DEF AccentFits
<1>1. PICK a \in Accents : AccentKept(box, a, made.style)  BY DEF IInv, Kept, PartsKept
<1>2. PICK accent, nucleus :
        /\ Plays(box.children, accent, "ACCENT") /\ Plays(box.children, nucleus, "NUCLEUS")
        /\ accent.y >= nucleus.ascent - P("xHeight", made.style) /\ accent.y >= 0
        /\ AccentHeld(accent.width, a, nucleus.width, made.style)
  BY <1>1 DEF AccentKept
<1>3. Part("ACCENT") = accent /\ Part("NUCLEUS") = nucleus  BY <1>2, PartOf
<1> QED  BY <1>2, <1>3 DEF AccentFits, AccentHeld

LEMMA LadderState ==
  ASSUME IInv
  PROVE  LadderKept
<1> SUFFICES ASSUME NEW a \in made.asks, ~LadderOf(a).null
             PROVE  /\ a.role # "SIGN" => OnAxis(Part(a.role), a.style)
                    /\ LadderHeld(Part(a.role), a)
  BY Zenon DEF LadderKept, OnAxis, LadderHeld
<1> QED  BY AskedPart DEF Fits

LEMMA AssemblyState ==
  ASSUME IInv
  PROVE  AssemblyTight
<1> SUFFICES ASSUME NEW a \in made.asks, Part(a.role).parts # << >>
             PROVE  LET node == Part(a.role) IN
                    PiecesTight(node.parts, node.ascent, node.width, LadderOf(a), a.target)
  BY DEF AssemblyTight, PiecesTight
<1> QED  BY AskedPart DEF Fits

LEMMA GridState ==
  ASSUME IInv
  PROVE  GridAligned
<1> SUFFICES ASSUME made.by = "ARRAY" PROVE GridAligned
  BY DEF GridAligned, RowsStacked, ColumnsApart
<1>1. GridKept(box, made.style)  BY DEF IInv, Kept, PartsKept
<1>2. RowsStacked  BY <1>1 DEF GridKept, RowsStacked, Axis
<1>3. ColumnsApart  BY <1>1, ChildrenTyped DEF GridKept, ColumnsApart
<1> QED  BY <1>2, <1>3 DEF GridAligned

(* Fences as tall as was asked of them cover what they enclose, but for    *)
(* the part of the shortfall above and below.                              *)
LEMMA HalvedReach ==
  ASSUME NEW axis \in Nat, NEW reach \in Int, reach >= axis, NEW shortfall \in Nat,
         NEW top \in Int, NEW bottom \in Int, top - bottom >= 2 * reach - shortfall,
         Apart(top + bottom, 2 * axis) <= 1, NEW above \in Int, above - axis <= reach,
         NEW below \in Int, axis - below <= reach
  PROVE  /\ above <= top + Half(shortfall) + 1
         /\ below >= bottom - Half(shortfall) - 1
<1>1. PICK h \in Int : h = Half(shortfall) /\ (2 * h = shortfall \/ 2 * h = shortfall + 1)
  BY Halves
<1>2. top + bottom <= 2 * axis + 1 /\ top + bottom >= 2 * axis - 1  BY DEF Apart
<1>3. 2 * top >= 2 * axis + 2 * reach - shortfall - 1  BY <1>2
<1>4. 2 * bottom <= 2 * axis - 2 * reach + shortfall + 1  BY <1>2
<1>5. 2 * above <= 2 * top + 2 * h + 2  BY <1>1, <1>3
<1>6. 2 * below >= 2 * bottom - 2 * h - 2  BY <1>1, <1>4
<1> QED  BY <1>1, <1>5, <1>6

LEMMA TargetReached ==
  ASSUME NEW reach \in Int, NEW tall \in Int, tall >= DelimiterTarget(reach)
  PROVE  /\ tall >= 2 * reach - DelimiterShortfall
         /\ 500 * tall >= 901 * (reach - 499)
<1> DEFINE q == reach \div 500
           share == q * 901
           rest == 2 * reach - DelimiterShortfall
<1>1. q \in Int /\ reach < 500 * q + 500  BY Quotient
<1>2. DelimiterShortfall \in Nat  BY BoxesAssumption
<1>3. DelimiterTarget(reach) = Larger(share, rest)  BY DEF DelimiterTarget
<1> HIDE DEF q
<1>4. share \in Int /\ rest \in Int  BY <1>1, <1>2
<1>5. share = q * 901  OBVIOUS
<1> HIDE DEF share
<1>6. tall >= share /\ tall >= rest
  <2> HIDE DEF rest
  <2>1. Larger(share, rest) \in Int /\ Larger(share, rest) >= share /\ Larger(share, rest) >= rest
    BY <1>4, LargerOf
  <2> QED  BY <1>3, <1>4, <2>1
<1>7. 500 * tall >= 901 * (500 * q)  BY <1>1, <1>4, <1>5, <1>6
<1>8. 500 * q >= reach - 499  BY <1>1
<1> QED  BY <1>1, <1>6, <1>7, <1>8

(* The reach of what is enclosed is at most what was covered.              *)
LEMMA ReachBounded ==
  ASSUME NEW c \in Seq(NodeType), NEW inside, inside \subseteq Members(c), NEW axis \in Nat,
         NEW bound \in Int, bound >= axis,
         \A n \in inside : Top(n) - axis <= bound /\ axis - Bottom(n) <= bound,
         NEW S, S = {axis, 0} \cup {Top(n) - axis : n \in inside}
                              \cup {axis - Bottom(n) : n \in inside}
  PROVE  Largest(S) \in Int /\ Largest(S) <= bound
<1> DEFINE n == Len(c)
           up == [k \in 1 .. n |-> Top(c[k]) - axis]
           down == [k \in 1 .. n |-> axis - Bottom(c[k])]
           f == [k \in 1 .. 2 * n + 1 |->
                  IF k <= n THEN up[k] ELSE IF k <= 2 * n THEN down[k - n] ELSE axis]
<1>1. n \in Nat /\ DOMAIN c = 1 .. n  OBVIOUS
<1>2. \A k \in 1 .. n : up[k] \in Int /\ down[k] \in Int
  <2> TAKE k \in 1 .. n
  <2>1. c[k] \in NodeType  BY <1>1
  <2>2. Top(c[k]) \in Int /\ Bottom(c[k]) \in Int  BY <2>1, NodeFields DEF Top, Bottom
  <2> QED  BY <2>2
<1>3. \A m \in inside : \E k \in 1 .. n : Top(m) - axis = up[k] /\ axis - Bottom(m) = down[k]
  <2> TAKE m \in inside
  <2>1. PICK k \in 1 .. n : m = c[k]  BY <1>1 DEF Members
  <2> QED  BY <2>1
<1> HIDE DEF up, down, n
<1>4. /\ \A k \in 1 .. n : k \in 1 .. 2 * n + 1 /\ n + k \in 1 .. 2 * n + 1
      /\ 2 * n + 1 \in 1 .. 2 * n + 1 /\ 2 * n + 1 \in Nat
  BY <1>1
<1>5. /\ \A k \in 1 .. n : f[k] = up[k] /\ f[n + k] = down[k]
      /\ f[2 * n + 1] = axis
  <2>1. ASSUME NEW k \in 1 .. n PROVE f[k] = up[k] /\ f[n + k] = down[k]
    <3>1. k <= n /\ ~(n + k <= n) /\ n + k <= 2 * n /\ (n + k) - n = k  BY <1>1
    <3> QED  BY <1>4, <3>1
  <2>2. ~(2 * n + 1 <= n) /\ ~(2 * n + 1 <= 2 * n)  BY <1>1
  <2> QED  BY <1>4, <2>1, <2>2
<1>6. \A k \in 1 .. 2 * n + 1 : f[k] \in Int
  <2> TAKE k \in 1 .. 2 * n + 1
  <2>1. k <= n => k \in 1 .. n  BY <1>1
  <2>2. ~(k <= n) /\ k <= 2 * n => k - n \in 1 .. n  BY <1>1
  <2> QED  BY <1>2, <2>1, <2>2
<1> HIDE DEF f
<1>7. Among(S, 0, f, 2 * n + 1)
  <2> SUFFICES ASSUME NEW x \in S, x # 0 PROVE \E k \in 1 .. 2 * n + 1 : x = f[k]
    BY DEF Among
  <2>1. CASE x = axis  BY <1>4, <1>5, <2>1
  <2>2. CASE \E m \in inside : x = Top(m) - axis
    <3>1. PICK k \in 1 .. n : x = up[k]  BY <1>3, <2>2
    <3> QED  BY <1>4, <1>5, <3>1
  <2>3. CASE \E m \in inside : x = axis - Bottom(m)
    <3>1. PICK k \in 1 .. n : x = down[k]  BY <1>3, <2>3
    <3> QED  BY <1>4, <1>5, <3>1
  <2> QED  BY <2>1, <2>2, <2>3
<1>8. S # {}  OBVIOUS
<1>9. \A x \in S : x <= bound  OBVIOUS
<1> DEFINE last == 2 * n + 1
           zero == 0
<1>10. /\ last \in Nat /\ (\A k \in 1 .. last : f[k] \in Int) /\ zero \in Int
       /\ Among(S, zero, f, last)
  BY <1>4, <1>6, <1>7
<1> HIDE DEF last, zero
<1>11. Largest(S) \in S /\ Largest(S) \in Int  BY ONLY <1>8, <1>10, LargestOf
<1> QED  BY <1>9, <1>11

LEMMA CoverState ==
  ASSUME IInv
  PROVE  FencesCover
<1> SUFFICES ASSUME made.by \in {"FENCED", "ARRAY"} PROVE FencesCover  BY DEF FencesCover
<1> DEFINE inside == {n \in Ink(box.children) : n.role \notin {"LEFT", "RIGHT"}}
           S == {Axis, 0} \cup {Top(n) - Axis : n \in inside} \cup {Axis - Bottom(n) : n \in inside}
           reach == Largest(S)
<1>1. Covered(box, made.style, made.asks)  BY DEF IInv, Kept, PartsKept
<1>2. PICK bound \in Int :
        /\ bound >= Axis
        /\ \A n \in Members(box.children) : n.kind # "KERN" /\ n.role \notin {"LEFT", "RIGHT"} =>
             Top(n) - Axis <= bound /\ Axis - Bottom(n) <= bound
        /\ \A a \in made.asks :
             a.target = DelimiterTarget(bound) /\ a.style = made.style /\ a.role \in {"LEFT", "RIGHT"}
  BY <1>1 DEF Covered, Axis
<1>3. Axis \in Nat
  <2>1. made.style \in MathStyles  BY DEF IInv, Kept
  <2> QED  BY <2>1, Tables DEF Axis, Parameters
<1>4. inside \subseteq Members(box.children) /\ box.children \in Seq(NodeType)
  BY InkOf, ChildrenTyped
<1>5. \A n \in inside : Top(n) - Axis <= bound /\ Axis - Bottom(n) <= bound  BY <1>2, InkOf
<1>6. DelimiterShortfall \in Nat  BY BoxesAssumption
<1>7. S = {Axis, 0} \cup {Top(n) - Axis : n \in inside} \cup {Axis - Bottom(n) : n \in inside}
  OBVIOUS
<1>8. \A n \in inside : Top(n) \in Int /\ Bottom(n) \in Int
  <2> TAKE n \in inside
  <2>1. n \in NodeType  BY <1>4, MembersTyped
  <2> QED  BY <2>1, NodeFields DEF Top, Bottom
<1> HIDE DEF inside, S
<1> DEFINE axis == Axis
<1>9. reach \in Int /\ reach <= bound
  <2>1. /\ axis \in Nat /\ bound >= axis
        /\ \A n \in inside : Top(n) - axis <= bound /\ axis - Bottom(n) <= bound
        /\ S = {axis, 0} \cup {Top(n) - axis : n \in inside} \cup {axis - Bottom(n) : n \in inside}
    BY <1>2, <1>3, <1>5, <1>7
  <2> HIDE DEF axis
  <2> QED  BY <1>4, <2>1, ReachBounded
<1> HIDE DEF reach
<1>10. ASSUME NEW a \in made.asks, ~LadderOf(a).null, Tall(Part(a.role)) >= a.target
       PROVE  LET fence == Part(a.role) IN
              /\ \A n \in inside : /\ Top(n) <= Top(fence) + Half(DelimiterShortfall) + 1
                                   /\ Bottom(n) >= Bottom(fence) - Half(DelimiterShortfall) - 1
              /\ 500 * Tall(fence) >= 901 * (reach - 499)
  <2> DEFINE fence == Part(a.role)
             tall == Tall(fence)
             top == Top(fence)
             bottom == Bottom(fence)
             shortfall == DelimiterShortfall
  <2>1. a.role # "SIGN" /\ a.target = DelimiterTarget(bound) /\ a.style = made.style  BY <1>2
  <2>2. fence \in NodeType /\ OnAxis(fence, made.style)  BY <1>10, <2>1, AskedPart
  <2>3. tall >= DelimiterTarget(bound)  BY <1>10, <2>1
  <2>4. fence.y \in Int /\ fence.ascent \in Int /\ fence.descent \in Int  BY <2>2, NodeFields
  <2> HIDE DEF fence
  <2>5. tall \in Int /\ top \in Int /\ bottom \in Int /\ top - bottom = tall
    BY <2>4 DEF Tall, Top, Bottom
  <2>6. Apart(top + bottom, 2 * axis) <= 1  BY <2>2 DEF OnAxis, Axis
  <2>7. axis \in Nat /\ bound >= axis /\ shortfall \in Nat  BY <1>2, <1>3, <1>6
  <2> HIDE DEF tall, top, bottom, axis
  <2>8. tall >= 2 * bound - shortfall /\ 500 * tall >= 901 * (bound - 499)
    BY <2>3, <2>5, TargetReached
  <2> HIDE DEF shortfall
  <2>9. top - bottom >= 2 * bound - shortfall  BY <2>5, <2>8
  <2>10. ASSUME NEW n \in inside
         PROVE  Top(n) <= top + Half(shortfall) + 1 /\ Bottom(n) >= bottom - Half(shortfall) - 1
    <3> DEFINE above == Top(n)
               below == Bottom(n)
    <3>1. above \in Int /\ below \in Int /\ above - axis <= bound /\ axis - below <= bound
      BY <1>5, <1>8 DEF axis
    <3> HIDE DEF above, below
    <3>2. above <= top + Half(shortfall) + 1 /\ below >= bottom - Half(shortfall) - 1
      BY <2>5, <2>6, <2>7, <2>9, <3>1, HalvedReach
    <3> QED  BY <3>2 DEF above, below
  <2>11. 500 * tall >= 901 * (reach - 499)  BY <1>9, <2>5, <2>8
  <2> QED  BY <2>10, <2>11 DEF fence, tall, top, bottom, shortfall
<1> QED  BY <1>10, ZenonT(30) DEF FencesCover, inside, reach, S

(***************************************************************************)
(* The theorems.                                                           *)
(***************************************************************************)
(* Every box has integer extents and children, whatever it is built of:    *)
(* the layout of a construct leaves no measure undefined.                  *)
THEOREM TypeCorrect == Spec => []TypeOK
  BY Inductive, TypedState, PTL

(* A construct fills the array it allocated for its children, and its box  *)
(* holds their ink and their advance.                                      *)
THEOREM WholeBoxes == Spec => []BoxWhole
<1>1. IInv => BoxWhole  BY TypedState, FilledState, InkState DEF BoxWhole
<1> QED  BY <1>1, Inductive, PTL

(* Children keep the order of the source: an index before its radicand, a  *)
(* script where it was written, rows from the first to the last.           *)
THEOREM SourceOrdered == Spec => []SourceOrder
<1>1. IInv => SourceOrder  BY DEF IInv, Kept, Whole, Ordered, SourceOrder
<1> QED  BY <1>1, Inductive, PTL

(* Rule 15: numerator and denominator keep their clearances from the bar,  *)
(* or from one another, whatever is rounded on the way.                    *)
THEOREM FractionsClear == Spec => []FractionClear
  BY Inductive, FractionState, PTL

(* Rules 11, 12, 13a and 18: scripts, limits, radicands and accents keep   *)
(* their distances.                                                        *)
THEOREM ClearancesKept == Spec => []Clearances
<1>1. IInv => Clearances
  BY ScriptsState, LimitsState, RadicalState, AccentState DEF Clearances
<1> QED  BY <1>1, Inductive, PTL

(* Rule 19: a delimiter is the first rung of its ladder that is tall       *)
(* enough, an assembly has neither gaps nor pieces to spare, and fences    *)
(* cover what they enclose.                                                *)
THEOREM DelimitersFitted == Spec => []DelimitersFit
<1>1. IInv => DelimitersFit  BY LadderState, CoverState, AssemblyState DEF DelimitersFit
<1> QED  BY <1>1, Inductive, PTL

(* The rows of an alignment do not overlap and are centred on the axis,    *)
(* and its columns stay apart.                                             *)
THEOREM GridsAligned == Spec => []GridAligned
  BY Inductive, GridState, PTL
=============================================================================
