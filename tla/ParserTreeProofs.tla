-------------------------- MODULE ParserTreeProofs --------------------------
(***************************************************************************)
(* Proofs about the tree the parser builds: who owns its items.            *)
(***************************************************************************)
EXTENDS ParserProofs, FiniteSetTheorems

-----------------------------------------------------------------------------
(***************************************************************************)
(* Who owns the items: a place is where a list may be, and every item is   *)
(* in one list at one place.  `loose` is the list of the construct a       *)
(* handler holds and has not yet delivered.                                *)
(***************************************************************************)
FrameParts == {"frame", "cells", "rows"}
ItemParts  == {"nucleus", "sup", "sub"}
NodeParts  == {"first", "last", "fence", "array"}
Parts      == FrameParts \cup ItemParts \cup NodeParts \cup {"loose"}
Places     == Parts \X Nat \X Nat \X Nat

(* The list at row r and cell c of rows.                                   *)
CellAt(rows, r, c) ==
  IF r \in DOMAIN rows /\ c \in DOMAIN rows[r] THEN rows[r][c].list ELSE << >>

Single(q, list) == IF q[3] = 0 /\ q[4] = 0 THEN list ELSE << >>

OfFrame(f, q) ==
  IF q[1] = "frame" THEN Single(q, f.list)
  ELSE IF q[1] = "cells" THEN CellAt(<<f.cells>>, q[3], q[4])
  ELSE CellAt(f.rows, q[3], q[4])

PartList(item, part) ==
  IF part = "nucleus" THEN item.nucleus.list
  ELSE IF part = "sup" THEN item.sup.list ELSE item.sub.list

SlotList(node, part) ==
  IF part = "first" THEN node.first.list
  ELSE IF part = "last" THEN node.last.list ELSE node.list

OfItem(item, q) == Single(q, PartList(item, q[1]))

OfNode(node, q) ==
  IF q[1] = "array" THEN CellAt(node.rows, q[3], q[4]) ELSE Single(q, SlotList(node, q[1]))

FramesAt(stk, q) == IF q[2] \in DOMAIN stk THEN OfFrame(stk[q[2]], q) ELSE << >>
ItemsAt(its, q)  == IF q[2] \in DOMAIN its THEN OfItem(its[q[2]], q) ELSE << >>
NodesAt(nds, q)  == IF q[2] \in DOMAIN nds THEN OfNode(nds[q[2]], q) ELSE << >>

Loose == <<"loose", 0, 0, 0>>

Shelf(stk, its, nds, loose) ==
  [q \in Places |-> IF q[1] \in FrameParts THEN FramesAt(stk, q)
                    ELSE IF q[1] \in ItemParts THEN ItemsAt(its, q)
                    ELSE IF q[1] \in NodeParts THEN NodesAt(nds, q)
                    ELSE IF q = Loose THEN loose ELSE << >>]

(* Every item up to n is in one list, once.                                *)
Shelved(shelf, n) ==
  /\ \A q \in Places : shelf[q] \in Seq(1 .. n)
  /\ \A i \in 1 .. n : \E q \in Places : \E j \in DOMAIN shelf[q] : shelf[q][j] = i
  /\ \A p, q \in Places : \A j \in DOMAIN shelf[p], k \in DOMAIN shelf[q] :
       shelf[p][j] = shelf[q][k] => p = q /\ j = k

(* An empty field has no list, and only an environment has cells.          *)
Hollow(fields) == \A f \in fields : f.kind = "EMPTY" => f.list = << >>

Cellless(f) == f.role # "CELL" => f.cells = << >> /\ f.rows = << >>

Owned(stk, its, nds, loose) ==
  /\ \A i \in DOMAIN stk : Cellless(stk[i])
  /\ \A k \in DOMAIN its : Hollow(FieldsOf(its[k]))
  /\ \A k \in DOMAIN nds : Hollow(NodeFields(nds[k]))
  /\ Shelved(Shelf(stk, its, nds, loose), Len(its))

(* A place is its four parts.                                              *)
LEMMA PlaceIs ==
  /\ \A q \in Places : q[1] \in Parts /\ q[2] \in Nat /\ q[3] \in Nat /\ q[4] \in Nat
  /\ \A p, q \in Places : p[1] = q[1] /\ p[2] = q[2] /\ p[3] = q[3] /\ p[4] = q[4] => p = q
  /\ Loose \in Places /\ Loose[1] = "loose"
  /\ \A w \in Parts : \A k, r, c \in Nat :
       /\ <<w, k, r, c>> \in Places
       /\ <<w, k, r, c>>[1] = w /\ <<w, k, r, c>>[2] = k
       /\ <<w, k, r, c>>[3] = r /\ <<w, k, r, c>>[4] = c
<1> HIDE DEF Parts
<1>1. \A q \in Places : q[1] \in Parts /\ q[2] \in Nat /\ q[3] \in Nat /\ q[4] \in Nat
  BY DEF Places
<1>2. \A p, q \in Places :
        p[1] = q[1] /\ p[2] = q[2] /\ p[3] = q[3] /\ p[4] = q[4] => p = q
  BY DEF Places
<1>3. \A w \in Parts : \A k, r, c \in Nat :
       /\ <<w, k, r, c>> \in Places
       /\ <<w, k, r, c>>[1] = w /\ <<w, k, r, c>>[2] = k
       /\ <<w, k, r, c>>[3] = r /\ <<w, k, r, c>>[4] = c
  BY DEF Places
<1>4. "loose" \in Parts BY DEF Parts
<1> QED BY <1>1, <1>2, <1>3, <1>4 DEF Loose

(* The lists of one shelf are those of another, at other places.           *)
Moved(O, H, H2) ==
  \A q \in Places : O[q] \in Places /\ O[O[q]] = q /\ H2[q] = H[O[q]]

(* Lists that change places are still owned.                               *)
LEMMA MovedShelved ==
  ASSUME NEW n \in Nat, NEW H, Shelved(H, n), NEW H2, NEW O, Moved(O, H, H2)
  PROVE  Shelved(H2, n)
<1> USE DEF Moved
<1> HIDE DEF Places
<1>1. \A q \in Places : H2[q] \in Seq(1 .. n) BY DEF Shelved
<1>2. ASSUME NEW i \in 1 .. n
      PROVE  \E q \in Places : \E j \in DOMAIN H2[q] : H2[q][j] = i
  <2>1. PICK q \in Places : \E j \in DOMAIN H[q] : H[q][j] = i BY DEF Shelved
  <2>2. H2[O[q]] = H[q] /\ O[q] \in Places OBVIOUS
  <2> QED BY <2>1, <2>2
<1>3. ASSUME NEW p \in Places, NEW q \in Places, NEW j \in DOMAIN H2[p], NEW k \in DOMAIN H2[q],
             H2[p][j] = H2[q][k]
      PROVE  p = q /\ j = k
  <2>1. /\ O[p] \in Places /\ O[q] \in Places /\ j \in DOMAIN H[O[p]] /\ k \in DOMAIN H[O[q]]
        /\ H[O[p]][j] = H[O[q]][k]
    BY <1>3
  <2>2. \A x, y \in Places : \A u \in DOMAIN H[x], v \in DOMAIN H[y] :
          H[x][u] = H[y][v] => x = y /\ u = v
    BY DEF Shelved
  <2>3. O[p] = O[q] /\ j = k BY <2>1, <2>2
  <2> QED BY <2>3
<1> QED BY <1>1, <1>2, <1>3 DEF Shelved

(* Two lists change places.                                                *)
LEMMA SwappedShelved ==
  ASSUME NEW n \in Nat, NEW H, Shelved(H, n), NEW H2, NEW a \in Places, NEW b \in Places,
         H2[a] = H[b], H2[b] = H[a],
         \A q \in Places : q # a /\ q # b => H2[q] = H[q]
  PROVE  Shelved(H2, n)
<1> DEFINE O == [q \in Places |-> IF q = a THEN b ELSE IF q = b THEN a ELSE q]
<1> HIDE DEF Places
<1>1. Moved(O, H, H2) BY DEF Moved
<1> HIDE DEF O
<1> QED BY <1>1, MovedShelved

(* A new item at the end of a list.                                        *)
LEMMA AppendedShelved ==
  ASSUME NEW n \in Nat, NEW H, Shelved(H, n), NEW H2, NEW a \in Places,
         H2[a] = Append(H[a], n + 1), \A q \in Places : q # a => H2[q] = H[q]
  PROVE  Shelved(H2, n + 1)
<1> HIDE DEF Places
<1>1. H[a] \in Seq(1 .. n) BY DEF Shelved
<1> DEFINE m == Len(H[a])
<1>2. /\ m \in Nat /\ DOMAIN H[a] = 1 .. m /\ DOMAIN H2[a] = 1 .. m + 1
      /\ H2[a] \in Seq(1 .. n + 1)
      /\ H2[a][m + 1] = n + 1 /\ \A j \in 1 .. m : H2[a][j] = H[a][j]
  <2>1. 1 .. n \subseteq 1 .. n + 1 OBVIOUS
  <2>2. H[a] \in Seq(1 .. n + 1) BY <1>1, <2>1
  <2> QED BY <1>1, <2>2
<1> HIDE DEF m
<1>3. ASSUME NEW q \in Places PROVE H2[q] \in Seq(1 .. n + 1)
  <2>1. CASE q = a BY <1>2, <2>1
  <2>2. CASE q # a
    <3>1. H2[q] = H[q] /\ H[q] \in Seq(1 .. n) BY <2>2 DEF Shelved
    <3>2. 1 .. n \subseteq 1 .. n + 1 OBVIOUS
    <3> QED BY <3>1, <3>2
  <2> QED BY <2>1, <2>2
<1>4. ASSUME NEW i \in 1 .. n + 1
      PROVE  \E q \in Places : \E j \in DOMAIN H2[q] : H2[q][j] = i
  <2>1. CASE i = n + 1
    <3>1. m + 1 \in DOMAIN H2[a] /\ H2[a][m + 1] = i BY <1>2, <2>1
    <3> QED BY <3>1
  <2>2. CASE i # n + 1
    <3>1. i \in 1 .. n BY <2>2
    <3>2. PICK q \in Places : \E j \in DOMAIN H[q] : H[q][j] = i BY <3>1 DEF Shelved
    <3>3. PICK j \in DOMAIN H[q] : H[q][j] = i BY <3>2
    <3>4. j \in DOMAIN H2[q] /\ H2[q][j] = i
      <4>1. CASE q = a
        <5>1. j \in 1 .. m /\ H[a][j] = i BY <1>2, <3>3, <4>1
        <5>2. j \in 1 .. m + 1 BY <1>2, <5>1
        <5>3. j \in DOMAIN H2[a] /\ H2[a][j] = i BY <1>2, <5>1, <5>2
        <5> QED BY <4>1, <5>3
      <4>2. CASE q # a BY <3>3, <4>2
      <4> QED BY <4>1, <4>2
    <3> QED BY <3>4
  <2> QED BY <2>1, <2>2
<1>5. ASSUME NEW q \in Places, NEW j \in DOMAIN H2[q]
      PROVE  \/ q = a /\ j = m + 1 /\ H2[q][j] = n + 1
             \/ j \in DOMAIN H[q] /\ H2[q][j] = H[q][j] /\ H[q][j] \in 1 .. n
  <2>1. CASE q = a
    <3>1. j \in 1 .. m + 1 BY <1>2, <1>5, <2>1
    <3>2. CASE j = m + 1 BY <1>2, <2>1, <3>2
    <3>3. CASE j # m + 1
      <4>1. j \in 1 .. m BY <1>2, <3>1, <3>3
      <4>2. j \in DOMAIN H[a] /\ H2[a][j] = H[a][j] BY <1>2, <4>1
      <4>3. H[a][j] \in 1 .. n BY <1>1, <4>2
      <4> QED BY <2>1, <4>2, <4>3
    <3> QED BY <3>2, <3>3
  <2>2. CASE q # a
    <3>1. H2[q] = H[q] /\ H[q] \in Seq(1 .. n) BY <2>2 DEF Shelved
    <3> QED BY <1>5, <3>1
  <2> QED BY <2>1, <2>2
<1>6. ASSUME NEW p \in Places, NEW q \in Places, NEW j \in DOMAIN H2[p], NEW k \in DOMAIN H2[q],
             H2[p][j] = H2[q][k]
      PROVE  p = q /\ j = k
  <2>1. n + 1 \notin 1 .. n OBVIOUS
  <2>2. CASE p = a /\ j = m + 1 /\ H2[p][j] = n + 1 BY <1>5, <1>6, <2>1, <2>2
  <2>3. CASE j \in DOMAIN H[p] /\ H2[p][j] = H[p][j] /\ H[p][j] \in 1 .. n
    <3>1. k \in DOMAIN H[q] /\ H2[q][k] = H[q][k] BY <1>5, <1>6, <2>1, <2>3
    <3>2. \A x, y \in Places : \A u \in DOMAIN H[x], v \in DOMAIN H[y] :
            H[x][u] = H[y][v] => x = y /\ u = v
      BY DEF Shelved
    <3>3. H[p][j] = H[q][k] BY <1>6, <2>3, <3>1
    <3> QED BY <2>3, <3>1, <3>2, <3>3
  <2> QED BY <1>5, <2>2, <2>3
<1> QED BY <1>3, <1>4, <1>5, <1>6 DEF Shelved

(* What a shelf holds, part by part.                                       *)
LEMMA ShelfIs ==
  ASSUME NEW stk, NEW its, NEW nds, NEW loose
  PROVE  /\ \A q \in Places :
              /\ q[1] \in FrameParts => Shelf(stk, its, nds, loose)[q] = FramesAt(stk, q)
              /\ q[1] \in ItemParts => Shelf(stk, its, nds, loose)[q] = ItemsAt(its, q)
              /\ q[1] \in NodeParts => Shelf(stk, its, nds, loose)[q] = NodesAt(nds, q)
              /\ q[1] = "loose" /\ q # Loose => Shelf(stk, its, nds, loose)[q] = << >>
              /\ \/ q[1] \in FrameParts \/ q[1] \in ItemParts \/ q[1] \in NodeParts
                 \/ q[1] = "loose"
         /\ Shelf(stk, its, nds, loose)[Loose] = loose
<1> HIDE DEF Places
<1>1. Loose \in Places /\ Loose[1] = "loose" BY PlaceIs
<1>2. \A q \in Places : q[1] \in Parts BY PlaceIs
<1>3. "loose" \notin FrameParts /\ "loose" \notin ItemParts /\ "loose" \notin NodeParts
      /\ FrameParts \cap ItemParts = {} /\ FrameParts \cap NodeParts = {}
      /\ ItemParts \cap NodeParts = {}
  BY DEF FrameParts, ItemParts, NodeParts
<1>4. \A q \in Places : q[1] \in FrameParts \/ q[1] \in ItemParts \/ q[1] \in NodeParts
                          \/ q[1] = "loose"
  BY <1>2 DEF Parts
<1> HIDE DEF FrameParts, ItemParts, NodeParts, Parts, FramesAt, ItemsAt, NodesAt, Loose
<1> QED BY <1>1, <1>3, <1>4 DEF Shelf

(* The lists of the frames, when the top one is replaced.                  *)
LEMMA FramesTop ==
  ASSUME NEW stk \in Seq(FrameType), stk # << >>, NEW g, NEW q
  PROVE  /\ FramesAt(SetTop(stk, g), q) = IF q[2] = Len(stk) THEN OfFrame(g, q)
                                         ELSE FramesAt(stk, q)
         /\ q[2] = Len(stk) => FramesAt(stk, q) = OfFrame(stk[Len(stk)], q)
<1> HIDE DEF FrameType
<1>1. Len(stk) \in DOMAIN stk OBVIOUS
<1>2. /\ DOMAIN SetTop(stk, g) = DOMAIN stk /\ SetTop(stk, g)[Len(stk)] = g
      /\ \A i \in DOMAIN stk : i # Len(stk) => SetTop(stk, g)[i] = stk[i]
  BY <1>1 DEF SetTop
<1> HIDE DEF OfFrame, SetTop
<1> QED BY <1>1, <1>2 DEF FramesAt

(* When a frame is pushed.                                                 *)
LEMMA FramesPushed ==
  ASSUME NEW stk \in Seq(FrameType), NEW f, NEW q, q[2] \in Nat
  PROVE  /\ FramesAt(Append(stk, f), q) = IF q[2] = Len(stk) + 1 THEN OfFrame(f, q)
                                         ELSE FramesAt(stk, q)
         /\ q[2] = Len(stk) + 1 => FramesAt(stk, q) = << >>
<1> HIDE DEF FrameType
<1> DEFINE n == Len(stk)
           new == Append(stk, f)
<1>1. /\ n \in Nat /\ DOMAIN stk = 1 .. n /\ DOMAIN new = 1 .. n + 1
      /\ new[n + 1] = f /\ \A i \in 1 .. n : new[i] = stk[i]
  OBVIOUS
<1> HIDE DEF n, new, OfFrame
<1>2. FramesAt(new, q) = IF q[2] = n + 1 THEN OfFrame(f, q) ELSE FramesAt(stk, q)
  <2>1. CASE q[2] = n + 1 BY <1>1, <2>1 DEF FramesAt
  <2>2. CASE q[2] # n + 1
    <3>1. q[2] \in 1 .. n + 1 <=> q[2] \in 1 .. n BY <1>1, <2>2
    <3> QED BY <1>1, <2>2, <3>1 DEF FramesAt
  <2> QED BY <2>1, <2>2
<1>3. q[2] = n + 1 => FramesAt(stk, q) = << >> BY <1>1 DEF FramesAt
<1> QED BY <1>2, <1>3 DEF n, new

(* When the top frame is popped.                                           *)
LEMMA FramesPopped ==
  ASSUME NEW stk \in Seq(FrameType), Len(stk) >= 1, NEW q, q[2] \in Nat
  PROVE  /\ FramesAt(Below(stk), q) = IF q[2] = Len(stk) THEN << >> ELSE FramesAt(stk, q)
         /\ q[2] = Len(stk) => FramesAt(stk, q) = OfFrame(stk[Len(stk)], q)
<1> HIDE DEF FrameType
<1> DEFINE n == Len(stk)
           new == Below(stk)
<1>1. /\ n \in Nat /\ n >= 1 /\ DOMAIN stk = 1 .. n /\ DOMAIN new = 1 .. n - 1
      /\ \A i \in 1 .. n - 1 : new[i] = stk[i]
  BY DEF Below
<1> HIDE DEF n, new, OfFrame
<1>2. FramesAt(new, q) = IF q[2] = n THEN << >> ELSE FramesAt(stk, q)
  <2>1. CASE q[2] = n BY <1>1, <2>1 DEF FramesAt
  <2>2. CASE q[2] # n
    <3>1. q[2] \in 1 .. n <=> q[2] \in 1 .. n - 1 BY <1>1, <2>2
    <3> QED BY <1>1, <2>2, <3>1 DEF FramesAt
  <2> QED BY <2>1, <2>2
<1>3. q[2] = n => FramesAt(stk, q) = OfFrame(stk[n], q) BY <1>1 DEF FramesAt
<1> QED BY <1>2, <1>3 DEF n, new

(* When an item is replaced, or appended.                                  *)
LEMMA ItemsSet ==
  ASSUME NEW its, NEW k \in DOMAIN its, NEW v, NEW q
  PROVE  /\ ItemsAt([its EXCEPT ![k] = v], q) = IF q[2] = k THEN OfItem(v, q)
                                               ELSE ItemsAt(its, q)
         /\ q[2] = k => ItemsAt(its, q) = OfItem(its[k], q)
<1> DEFINE its2 == [its EXCEPT ![k] = v]
<1>1. /\ DOMAIN its2 = DOMAIN its /\ its2[k] = v
      /\ \A i \in DOMAIN its : i # k => its2[i] = its[i]
  OBVIOUS
<1> HIDE DEF its2, OfItem
<1>2. /\ ItemsAt(its2, q) = IF q[2] = k THEN OfItem(v, q) ELSE ItemsAt(its, q)
      /\ q[2] = k => ItemsAt(its, q) = OfItem(its[k], q)
  BY <1>1 DEF ItemsAt
<1> QED BY <1>2 DEF its2

(* One item more is one more holder of fields.                             *)
LEMMA ItemsGrown ==
  ASSUME NEW its \in Seq(Item), NEW v, NEW q, q[2] \in Nat
  PROVE  /\ ItemsAt(Append(its, v), q) = IF q[2] = Len(its) + 1 THEN OfItem(v, q)
                                        ELSE ItemsAt(its, q)
         /\ q[2] = Len(its) + 1 => ItemsAt(its, q) = << >>
<1> HIDE DEF Item
<1> DEFINE n == Len(its)
           new == Append(its, v)
<1>1. /\ n \in Nat /\ DOMAIN its = 1 .. n /\ DOMAIN new = 1 .. n + 1
      /\ new[n + 1] = v /\ \A i \in 1 .. n : new[i] = its[i]
  OBVIOUS
<1> HIDE DEF n, new, OfItem
<1>2. ItemsAt(new, q) = IF q[2] = n + 1 THEN OfItem(v, q) ELSE ItemsAt(its, q)
  <2>1. CASE q[2] = n + 1 BY <1>1, <2>1 DEF ItemsAt
  <2>2. CASE q[2] # n + 1
    <3>1. q[2] \in 1 .. n + 1 <=> q[2] \in 1 .. n BY <1>1, <2>2
    <3> QED BY <1>1, <2>2, <3>1 DEF ItemsAt
  <2> QED BY <2>1, <2>2
<1>3. q[2] = n + 1 => ItemsAt(its, q) = << >> BY <1>1 DEF ItemsAt
<1> QED BY <1>2, <1>3 DEF n, new

(* When a construct is replaced, or appended.                              *)
LEMMA NodesSet ==
  ASSUME NEW nds, NEW k \in DOMAIN nds, NEW v, NEW q
  PROVE  /\ NodesAt([nds EXCEPT ![k] = v], q) = IF q[2] = k THEN OfNode(v, q)
                                               ELSE NodesAt(nds, q)
         /\ q[2] = k => NodesAt(nds, q) = OfNode(nds[k], q)
<1> DEFINE nds2 == [nds EXCEPT ![k] = v]
<1>1. /\ DOMAIN nds2 = DOMAIN nds /\ nds2[k] = v
      /\ \A i \in DOMAIN nds : i # k => nds2[i] = nds[i]
  OBVIOUS
<1> HIDE DEF nds2, OfNode
<1>2. /\ NodesAt(nds2, q) = IF q[2] = k THEN OfNode(v, q) ELSE NodesAt(nds, q)
      /\ q[2] = k => NodesAt(nds, q) = OfNode(nds[k], q)
  BY <1>1 DEF NodesAt
<1> QED BY <1>2 DEF nds2

(* One construct more is one more holder of fields.                        *)
LEMMA NodesGrown ==
  ASSUME NEW nds \in Seq(Built), NEW v, NEW q, q[2] \in Nat
  PROVE  /\ NodesAt(Append(nds, v), q) = IF q[2] = Len(nds) + 1 THEN OfNode(v, q)
                                        ELSE NodesAt(nds, q)
         /\ q[2] = Len(nds) + 1 => NodesAt(nds, q) = << >>
<1> HIDE DEF Built
<1> DEFINE n == Len(nds)
           new == Append(nds, v)
<1>1. /\ n \in Nat /\ DOMAIN nds = 1 .. n /\ DOMAIN new = 1 .. n + 1
      /\ new[n + 1] = v /\ \A i \in 1 .. n : new[i] = nds[i]
  OBVIOUS
<1> HIDE DEF n, new, OfNode
<1>2. NodesAt(new, q) = IF q[2] = n + 1 THEN OfNode(v, q) ELSE NodesAt(nds, q)
  <2>1. CASE q[2] = n + 1 BY <1>1, <2>1 DEF NodesAt
  <2>2. CASE q[2] # n + 1
    <3>1. q[2] \in 1 .. n + 1 <=> q[2] \in 1 .. n BY <1>1, <2>2
    <3> QED BY <1>1, <2>2, <3>1 DEF NodesAt
  <2> QED BY <2>1, <2>2
<1>3. q[2] = n + 1 => NodesAt(nds, q) = << >> BY <1>1 DEF NodesAt
<1> QED BY <1>2, <1>3 DEF n, new

(* A frame without cells has one list.                                     *)
LEMMA OfBare ==
  ASSUME NEW f, f.cells = << >>, f.rows = << >>, NEW q, q[1] \in FrameParts
  PROVE  OfFrame(f, q) = IF q[1] = "frame" THEN Single(q, f.list) ELSE << >>
<1>1. CellAt(<<f.cells>>, q[3], q[4]) = << >> BY DEF CellAt
<1>2. CellAt(f.rows, q[3], q[4]) = << >> BY DEF CellAt
<1> HIDE DEF CellAt, Single
<1> QED BY <1>1, <1>2 DEF OfFrame, FrameParts

-----------------------------------------------------------------------------
(***************************************************************************)
(* What a handler does to the lists.                                       *)
(***************************************************************************)

(* A stack with the lists it had.                                          *)
LEMMA OwnedStill ==
  ASSUME NEW stk \in Seq(FrameType), stk # << >>, NEW its, NEW nds, NEW loose,
         Owned(stk, its, nds, loose),
         NEW g, LET f == stk[Len(stk)] IN /\ g.role = f.role /\ g.list = f.list
                                          /\ g.cells = f.cells /\ g.rows = f.rows
  PROVE  Owned(SetTop(stk, g), its, nds, loose)
<1> DEFINE f == stk[Len(stk)]
           H == Shelf(stk, its, nds, loose)
           H2 == Shelf(SetTop(stk, g), its, nds, loose)
<1>1. stk \in Seq(FrameType) /\ stk # << >> OBVIOUS
<1>2. g.role = f.role /\ g.list = f.list /\ g.cells = f.cells /\ g.rows = f.rows OBVIOUS
<1> HIDE DEF f
<1>3. \A q : OfFrame(g, q) = OfFrame(f, q) BY <1>2 DEF OfFrame
<1>4. \A q : FramesAt(SetTop(stk, g), q) = FramesAt(stk, q) BY <1>1, <1>3, FramesTop DEF f
<1>5. H2 = H BY <1>4 DEF Shelf
<1>6. \A i \in DOMAIN SetTop(stk, g) : Cellless(SetTop(stk, g)[i])
  <2>1. Cellless(f) BY <1>1 DEF f, Owned
  <2>2. Cellless(g) BY <1>2, <2>1 DEF Cellless
  <2> QED BY <1>1, <2>2 DEF Owned, SetTop
<1> HIDE DEF H, H2
<1>7. Shelved(H, Len(its)) BY DEF Owned, H
<1> QED BY <1>5, <1>6, <1>7 DEF Owned, H2

(* A frame pushed without any list.                                        *)
LEMMA OwnedPushed ==
  ASSUME NEW stk \in Seq(FrameType), stk # << >>, NEW its, NEW nds, NEW loose,
         Owned(stk, its, nds, loose),
         NEW f, f.list = << >>, f.cells = << >>, f.rows = << >>
  PROVE  Owned(Append(stk, f), its, nds, loose)
<1> DEFINE H == Shelf(stk, its, nds, loose)
           H2 == Shelf(Append(stk, f), its, nds, loose)
<1>1. stk \in Seq(FrameType) OBVIOUS
<1>2. ASSUME NEW q \in Places, q[1] \in FrameParts PROVE OfFrame(f, q) = << >>
  BY <1>2, OfBare DEF Single
<1>3. ASSUME NEW q \in Places, q[1] \in FrameParts
      PROVE  FramesAt(Append(stk, f), q) = FramesAt(stk, q)
  BY <1>1, <1>2, <1>3, PlaceIs, FramesPushed
<1> HIDE DEF Places, FrameParts
<1>4. H2 = H BY <1>3 DEF Shelf
<1>5. \A i \in DOMAIN Append(stk, f) : Cellless(Append(stk, f)[i])
  <2>1. Cellless(f) BY DEF Cellless
  <2> DEFINE new == Append(stk, f)
  <2>2. \A i \in DOMAIN new : (i \in DOMAIN stk /\ new[i] = stk[i]) \/ new[i] = f
    <3> HIDE DEF FrameType
    <3> QED BY <1>1
  <2> HIDE DEF new
  <2>3. \A i \in DOMAIN new : Cellless(new[i]) BY <2>1, <2>2 DEF Owned
  <2> QED BY <2>3 DEF new
<1> HIDE DEF H, H2
<1>6. Shelved(H, Len(its)) BY DEF Owned, H
<1> QED BY <1>4, <1>5, <1>6 DEF Owned, H2

(* A group, a script or a fence closed: its list is in the handler's hand. *)
LEMMA OwnedPopped ==
  ASSUME NEW stk \in Seq(FrameType), stk # << >>, NEW its \in Seq(Item), NEW nds,
         Owned(stk, its, nds, << >>),
         stk[Len(stk)].role # "CELL"
  PROVE  Owned(Below(stk), its, nds, stk[Len(stk)].list)
<1> DEFINE n == Len(stk)
           f == stk[n]
           a == <<"frame", n, 0, 0>>
           H == Shelf(stk, its, nds, << >>)
           H2 == Shelf(Below(stk), its, nds, f.list)
<1>1. stk \in Seq(FrameType) /\ stk # << >> /\ n \in Nat /\ n >= 1 /\ DOMAIN stk = 1 .. n
      /\ its \in Seq(Item) /\ Len(its) \in Nat
  OBVIOUS
<1>2. f.cells = << >> /\ f.rows = << >> BY <1>1 DEF Owned, Cellless
<1>3. /\ a \in Places /\ a[1] = "frame" /\ a[2] = n /\ a[3] = 0 /\ a[4] = 0
      /\ a[1] \in FrameParts
  BY <1>1, PlaceIs DEF Parts, FrameParts
<1> HIDE DEF a, Places, f, n
<1>4. OfFrame(f, a) = f.list BY <1>2, <1>3, OfBare DEF Single
<1>5. ASSUME NEW q \in Places, q[1] \in FrameParts, q[2] = n, q # a PROVE OfFrame(f, q) = << >>
  <2>1. ~(q[1] = "frame" /\ q[3] = 0 /\ q[4] = 0) BY <1>3, <1>5, PlaceIs
  <2> QED BY <1>2, <1>5, <2>1, OfBare DEF Single
<1>6. ASSUME NEW q \in Places
      PROVE  /\ FramesAt(Below(stk), q) = IF q[2] = n THEN << >> ELSE FramesAt(stk, q)
             /\ q[2] = n => FramesAt(stk, q) = OfFrame(f, q)
  BY <1>1, PlaceIs, FramesPopped DEF n, f
<1> HIDE DEF FrameParts
<1>7. H[a] = f.list /\ H2[a] = << >> BY <1>3, <1>4, <1>6, ShelfIs
<1>8. H[Loose] = << >> /\ H2[Loose] = f.list BY ShelfIs
<1>9. ASSUME NEW q \in Places, q # a, q # Loose PROVE H2[q] = H[q]
  <2>1. q[1] \in FrameParts => FramesAt(Below(stk), q) = FramesAt(stk, q)
    BY <1>5, <1>6, <1>9
  <2> HIDE DEF FramesAt, ItemsAt, NodesAt, ItemParts, NodeParts
  <2> QED BY <1>9, <2>1, ShelfIs
<1> HIDE DEF H, H2
<1>10. Shelved(H, Len(its)) BY DEF Owned, H
<1>11. Loose \in Places BY PlaceIs
<1>12. Shelved(H2, Len(its)) BY <1>1, <1>3, <1>7, <1>8, <1>9, <1>10, <1>11, SwappedShelved
<1>13. \A i \in DOMAIN Below(stk) : i \in DOMAIN stk /\ Below(stk)[i] = stk[i]
  <2> HIDE DEF FrameType
  <2> QED BY <1>1 DEF Below
<1> QED BY <1>12, <1>13 DEF Owned, H2, f, n

(* A new item that takes the list in hand as its nucleus.                  *)
LEMMA ItemShelved ==
  ASSUME NEW stk, NEW its \in Seq(Item), NEW nds, NEW loose, Owned(stk, its, nds, loose),
         NEW item, item.nucleus.list = loose, item.sup.list = << >>, item.sub.list = << >>
  PROVE  Shelved(Shelf(stk, Append(its, item), nds, << >>), Len(its))
<1> DEFINE n == Len(its)
           a == <<"nucleus", n + 1, 0, 0>>
           H == Shelf(stk, its, nds, loose)
           H2 == Shelf(stk, Append(its, item), nds, << >>)
<1>1. its \in Seq(Item) /\ n \in Nat OBVIOUS
<1>2. /\ a \in Places /\ a[1] = "nucleus" /\ a[2] = n + 1 /\ a[3] = 0 /\ a[4] = 0
      /\ a[1] \in ItemParts
  BY <1>1, PlaceIs DEF Parts, ItemParts
<1> HIDE DEF a, Places, n
<1>3. OfItem(item, a) = loose BY <1>2 DEF OfItem, PartList, Single
<1>4. ASSUME NEW q \in Places, q[1] \in ItemParts, q[2] = n + 1, q # a
      PROVE  OfItem(item, q) = << >>
  <2>1. ~(q[1] = "nucleus" /\ q[3] = 0 /\ q[4] = 0) BY <1>2, <1>4, PlaceIs
  <2> QED BY <1>4, <2>1 DEF OfItem, PartList, Single
<1>5. ASSUME NEW q \in Places
      PROVE  /\ ItemsAt(Append(its, item), q) = IF q[2] = n + 1 THEN OfItem(item, q)
                                               ELSE ItemsAt(its, q)
             /\ q[2] = n + 1 => ItemsAt(its, q) = << >>
  BY <1>1, PlaceIs, ItemsGrown DEF n
<1> HIDE DEF ItemParts
<1>6. H[a] = << >> /\ H2[a] = loose BY <1>2, <1>3, <1>5, ShelfIs
<1>7. H[Loose] = loose /\ H2[Loose] = << >> BY ShelfIs
<1>8. ASSUME NEW q \in Places, q # a, q # Loose PROVE H2[q] = H[q]
  <2>1. q[1] \in ItemParts => ItemsAt(Append(its, item), q) = ItemsAt(its, q)
    BY <1>4, <1>5, <1>8
  <2> HIDE DEF FramesAt, ItemsAt, NodesAt, FrameParts, NodeParts
  <2> QED BY <1>8, <2>1, ShelfIs
<1> HIDE DEF H, H2
<1>9. Shelved(H, n) BY DEF Owned, H, n
<1>10. Loose \in Places BY PlaceIs
<1>11. Shelved(H2, n) BY <1>1, <1>2, <1>6, <1>7, <1>8, <1>9, <1>10, SwappedShelved
<1> QED BY <1>11 DEF H2, n

(* The items after one more.                                               *)
LEMMA HollowGrown ==
  ASSUME NEW its \in Seq(Item), \A k \in DOMAIN its : Hollow(FieldsOf(its[k])),
         NEW item, Hollow(FieldsOf(item))
  PROVE  /\ \A k \in DOMAIN Append(its, item) : Hollow(FieldsOf(Append(its, item)[k]))
         /\ Len(its) \in Nat /\ Len(Append(its, item)) = Len(its) + 1
<1> HIDE DEF Item
<1> DEFINE new == Append(its, item)
<1>1. \A k \in DOMAIN new : (k \in DOMAIN its /\ new[k] = its[k]) \/ new[k] = item OBVIOUS
<1>2. Len(its) \in Nat /\ Len(new) = Len(its) + 1 OBVIOUS
<1> HIDE DEF new
<1>3. \A k \in DOMAIN new : Hollow(FieldsOf(new[k])) BY <1>1
<1> QED BY <1>2, <1>3 DEF new

(* A list of one.                                                          *)
LEMMA ListOfOne == ASSUME NEW x \in Nat PROVE Append(<< >>, x) = <<x>>
<1> DEFINE a == Append(<< >>, x)
           b == <<x>>
<1>1. << >> \in Seq(Nat) /\ Len(<< >>) = 0 OBVIOUS
<1>2. a \in Seq(Nat) /\ Len(a) = 1 /\ a[1] = x BY <1>1
<1>3. b \in Seq(Nat) /\ Len(b) = 1 /\ b[1] = x OBVIOUS
<1> HIDE DEF a, b
<1>4. a = b BY <1>2, <1>3
<1> QED BY <1>4 DEF a, b

(* The item is in hand, ...                                                *)
LEMMA OwnedInHand ==
  ASSUME NEW stk, NEW its \in Seq(Item), NEW nds, NEW loose, Owned(stk, its, nds, loose),
         NEW item, item.nucleus.list = loose, item.sup.list = << >>, item.sub.list = << >>,
         Hollow(FieldsOf(item))
  PROVE  Owned(stk, Append(its, item), nds, <<Len(its) + 1>>)
<1> DEFINE n  == Len(its)
           H  == Shelf(stk, Append(its, item), nds, << >>)
           H2 == Shelf(stk, Append(its, item), nds, <<n + 1>>)
<1>1. /\ \A k \in DOMAIN Append(its, item) : Hollow(FieldsOf(Append(its, item)[k]))
      /\ n \in Nat /\ Len(Append(its, item)) = n + 1
  BY HollowGrown DEF Owned
<1>2. Shelved(H, n) BY ItemShelved
<1> HIDE DEF n, Places
<1>3. H[Loose] = << >> /\ H2[Loose] = <<n + 1>> BY ShelfIs
<1>5. ASSUME NEW q \in Places, q # Loose PROVE H2[q] = H[q] BY <1>5 DEF Shelf
<1>6. Loose \in Places BY PlaceIs
<1> HIDE DEF H, H2
<1>4. H2[Loose] = Append(H[Loose], n + 1)
  <2>1. n + 1 \in Nat BY <1>1
  <2> QED BY <1>3, <2>1, ListOfOne
<1>7. Shelved(H2, n + 1) BY <1>1, <1>2, <1>4, <1>5, <1>6, AppendedShelved
<1> QED BY <1>1, <1>7 DEF Owned, H2, n

(* ... or linked to the frame.                                             *)
LEMMA OwnedLinked ==
  ASSUME NEW stk \in Seq(FrameType), stk # << >>, NEW its \in Seq(Item), NEW nds, NEW loose,
         Owned(stk, its, nds, loose),
         NEW item, item.nucleus.list = loose, item.sup.list = << >>, item.sub.list = << >>,
         Hollow(FieldsOf(item))
  PROVE  Owned(Linked(stk, its), Append(its, item), nds, << >>)
<1> DEFINE n  == Len(its)
           f  == stk[Len(stk)]
           g  == [f EXCEPT !.list = Append(@, n + 1)]
           a  == <<"frame", Len(stk), 0, 0>>
           H  == Shelf(stk, Append(its, item), nds, << >>)
           H2 == Shelf(SetTop(stk, g), Append(its, item), nds, << >>)
<1>1. /\ \A k \in DOMAIN Append(its, item) : Hollow(FieldsOf(Append(its, item)[k]))
      /\ n \in Nat /\ Len(Append(its, item)) = n + 1
  BY HollowGrown DEF Owned
<1>2. Shelved(H, n) BY ItemShelved
<1>3. stk \in Seq(FrameType) /\ stk # << >> /\ Len(stk) \in Nat /\ f \in FrameType
  OBVIOUS
<1>4. Linked(stk, its) = SetTop(stk, g) BY DEF Linked
<1>5. g.list = Append(f.list, n + 1) /\ g.role = f.role /\ g.cells = f.cells /\ g.rows = f.rows
  <2> HIDE DEF f, n
  <2> QED BY <1>3 DEF FrameType
<1> HIDE DEF g
<1>6. /\ a \in Places /\ a[1] = "frame" /\ a[2] = Len(stk) /\ a[3] = 0 /\ a[4] = 0
      /\ a[1] \in FrameParts
  BY <1>3, PlaceIs DEF Parts, FrameParts
<1> HIDE DEF a, Places, n, f
<1>7. OfFrame(f, a) = f.list /\ OfFrame(g, a) = g.list BY <1>6 DEF OfFrame, Single
<1>8. ASSUME NEW q \in Places, q[1] \in FrameParts, q[2] = Len(stk), q # a
      PROVE  OfFrame(g, q) = OfFrame(f, q)
  <2>1. ~(q[1] = "frame" /\ q[3] = 0 /\ q[4] = 0) BY <1>6, <1>8, PlaceIs
  <2> QED BY <1>5, <1>8, <2>1 DEF OfFrame, Single
<1>9. \A q : /\ FramesAt(SetTop(stk, g), q) = IF q[2] = Len(stk) THEN OfFrame(g, q)
                                              ELSE FramesAt(stk, q)
             /\ q[2] = Len(stk) => FramesAt(stk, q) = OfFrame(f, q)
  BY <1>3, FramesTop DEF f
<1> HIDE DEF FrameParts
<1>10. H[a] = f.list /\ H2[a] = g.list BY <1>6, <1>7, <1>9, ShelfIs
<1>11. ASSUME NEW q \in Places, q # a PROVE H2[q] = H[q]
  <2>1. q[1] \in FrameParts => FramesAt(SetTop(stk, g), q) = FramesAt(stk, q)
    BY <1>8, <1>9, <1>11
  <2> HIDE DEF FramesAt, ItemsAt, NodesAt, ItemParts, NodeParts
  <2> QED BY <2>1 DEF Shelf
<1> HIDE DEF H, H2
<1>12. Shelved(H2, n + 1) BY <1>1, <1>2, <1>5, <1>6, <1>10, <1>11, AppendedShelved
<1>13. \A i \in DOMAIN SetTop(stk, g) : Cellless(SetTop(stk, g)[i])
  <2>1. Cellless(f) BY <1>3 DEF f, Owned
  <2>2. Cellless(g) BY <1>5, <2>1 DEF Cellless
  <2> QED BY <1>3, <2>2 DEF Owned, SetTop
<1> QED BY <1>1, <1>4, <1>12, <1>13 DEF Owned, H2

(* The list in hand is written into a part of an item that was empty.      *)
LEMMA OwnedFilled ==
  ASSUME NEW stk, NEW its \in Seq(Item), NEW nds, NEW loose, Owned(stk, its, nds, loose),
         NEW k \in DOMAIN its, NEW v, NEW part \in ItemParts, Hollow(FieldsOf(v)),
         PartList(its[k], part) = << >>, PartList(v, part) = loose,
         \A w \in ItemParts : w # part => PartList(v, w) = PartList(its[k], w)
  PROVE  Owned(stk, [its EXCEPT ![k] = v], nds, << >>)
<1> DEFINE its2 == [its EXCEPT ![k] = v]
           a == <<part, k, 0, 0>>
           H == Shelf(stk, its, nds, loose)
           H2 == Shelf(stk, its2, nds, << >>)
<1>1. its \in Seq(Item) /\ k \in Nat /\ Len(its) \in Nat OBVIOUS
<1>15. part \in ItemParts OBVIOUS
<1>2. /\ a \in Places /\ a[1] = part /\ a[2] = k /\ a[3] = 0 /\ a[4] = 0
      /\ a[1] \in ItemParts
  <2> HIDE DEF Places, ItemParts, NodeParts, FrameParts
  <2>1. part \in Parts BY <1>15 DEF Parts
  <2> QED BY <1>1, <1>15, <2>1, PlaceIs
<1>3. DOMAIN its2 = DOMAIN its /\ its2[k] = v /\ Len(its2) = Len(its)
      /\ \A i \in DOMAIN its : i # k => its2[i] = its[i]
  <2> HIDE DEF Item
  <2> QED BY <1>1
<1>4. ASSUME NEW q \in Places
      PROVE  /\ ItemsAt(its2, q) = IF q[2] = k THEN OfItem(v, q) ELSE ItemsAt(its, q)
             /\ q[2] = k => ItemsAt(its, q) = OfItem(its[k], q)
  BY ItemsSet
<1> HIDE DEF a, Places, its2, ItemParts
<1>5. OfItem(v, a) = loose /\ OfItem(its[k], a) = << >> BY <1>2 DEF OfItem, Single
<1>6. ASSUME NEW q \in Places, q[1] \in ItemParts, q[2] = k, q # a
      PROVE  OfItem(v, q) = OfItem(its[k], q)
  <2>1. ~(q[1] = part /\ q[3] = 0 /\ q[4] = 0) BY <1>2, <1>6, PlaceIs
  <2> QED BY <1>6, <2>1 DEF OfItem, Single
<1>7. H[a] = << >> /\ H2[a] = loose BY <1>2, <1>4, <1>5, ShelfIs
<1>8. H[Loose] = loose /\ H2[Loose] = << >> BY ShelfIs
<1>9. ASSUME NEW q \in Places, q # a, q # Loose PROVE H2[q] = H[q]
  <2>1. q[1] \in ItemParts => ItemsAt(its2, q) = ItemsAt(its, q) BY <1>4, <1>6, <1>9
  <2> HIDE DEF FramesAt, ItemsAt, NodesAt, FrameParts, NodeParts
  <2> QED BY <1>9, <2>1, ShelfIs
<1> HIDE DEF H, H2
<1>10. Shelved(H, Len(its)) BY DEF Owned, H
<1>11. Loose \in Places BY PlaceIs
<1>12. Shelved(H2, Len(its)) BY <1>1, <1>2, <1>7, <1>8, <1>9, <1>10, <1>11, SwappedShelved
<1>13. \A i \in DOMAIN its2 : Hollow(FieldsOf(its2[i])) BY <1>3 DEF Owned
<1>14. Owned(stk, its2, nds, << >>) BY <1>3, <1>12, <1>13 DEF Owned, H2
<1> QED BY <1>14 DEF its2

(* ... or into an argument of a construct.                                 *)
LEMMA OwnedStored ==
  ASSUME NEW stk, NEW its \in Seq(Item), NEW nds \in Seq(Built), NEW loose,
         Owned(stk, its, nds, loose),
         NEW k \in DOMAIN nds, NEW v, NEW part \in {"first", "last"}, Hollow(NodeFields(v)),
         SlotList(nds[k], part) = << >>, SlotList(v, part) = loose, v.rows = nds[k].rows,
         \A w \in {"first", "last", "fence"} : w # part => SlotList(v, w) = SlotList(nds[k], w)
  PROVE  Owned(stk, its, [nds EXCEPT ![k] = v], << >>)
<1> DEFINE nds2 == [nds EXCEPT ![k] = v]
           a == <<part, k, 0, 0>>
           H == Shelf(stk, its, nds, loose)
           H2 == Shelf(stk, its, nds2, << >>)
<1>1. nds \in Seq(Built) /\ k \in Nat /\ its \in Seq(Item) /\ Len(its) \in Nat
  OBVIOUS
<1>2. /\ a \in Places /\ a[1] = part /\ a[2] = k /\ a[3] = 0 /\ a[4] = 0
      /\ a[1] \in NodeParts
  <2>1. part \in NodeParts BY DEF NodeParts
  <2> HIDE DEF Places, ItemParts, NodeParts, FrameParts
  <2>2. part \in Parts BY <2>1 DEF Parts
  <2> QED BY <1>1, <2>1, <2>2, PlaceIs
<1>3. DOMAIN nds2 = DOMAIN nds /\ nds2[k] = v /\ \A i \in DOMAIN nds : i # k => nds2[i] = nds[i]
  OBVIOUS
<1>4. ASSUME NEW q \in Places
      PROVE  /\ NodesAt(nds2, q) = IF q[2] = k THEN OfNode(v, q) ELSE NodesAt(nds, q)
             /\ q[2] = k => NodesAt(nds, q) = OfNode(nds[k], q)
  BY NodesSet
<1> HIDE DEF a, Places, nds2
<1>5. OfNode(v, a) = loose /\ OfNode(nds[k], a) = << >> BY <1>2 DEF OfNode, Single
<1>6. ASSUME NEW q \in Places, q[1] \in NodeParts, q[2] = k, q # a
      PROVE  OfNode(v, q) = OfNode(nds[k], q)
  <2>1. ~(q[1] = part /\ q[3] = 0 /\ q[4] = 0) BY <1>2, <1>6, PlaceIs
  <2>2. q[1] = "array" \/ q[1] \in {"first", "last", "fence"} BY <1>6 DEF NodeParts
  <2> HIDE DEF SlotList, CellAt
  <2> QED BY <1>6, <2>1, <2>2 DEF OfNode, Single
<1> HIDE DEF NodeParts
<1>7. H[a] = << >> /\ H2[a] = loose BY <1>2, <1>4, <1>5, ShelfIs
<1>8. H[Loose] = loose /\ H2[Loose] = << >> BY ShelfIs
<1>9. ASSUME NEW q \in Places, q # a, q # Loose PROVE H2[q] = H[q]
  <2>1. q[1] \in NodeParts => NodesAt(nds2, q) = NodesAt(nds, q) BY <1>4, <1>6, <1>9
  <2> HIDE DEF FramesAt, ItemsAt, NodesAt, FrameParts, ItemParts
  <2> QED BY <1>9, <2>1, ShelfIs
<1> HIDE DEF H, H2
<1>10. Shelved(H, Len(its)) BY DEF Owned, H
<1>11. Loose \in Places BY PlaceIs
<1>12. Shelved(H2, Len(its)) BY <1>1, <1>2, <1>7, <1>8, <1>9, <1>10, <1>11, SwappedShelved
<1>13. \A i \in DOMAIN nds2 : Hollow(NodeFields(nds2[i])) BY <1>3 DEF Owned
<1>14. Owned(stk, its, nds2, << >>) BY <1>12, <1>13 DEF Owned, H2
<1> QED BY <1>14 DEF nds2

(* The constructs after one more.                                          *)
LEMMA HollowNodes ==
  ASSUME NEW nds \in Seq(Built), \A k \in DOMAIN nds : Hollow(NodeFields(nds[k])),
         NEW node, Hollow(NodeFields(node))
  PROVE  \A k \in DOMAIN Append(nds, node) : Hollow(NodeFields(Append(nds, node)[k]))
<1> HIDE DEF Built
<1> DEFINE new == Append(nds, node)
<1>1. \A k \in DOMAIN new : (k \in DOMAIN nds /\ new[k] = nds[k]) \/ new[k] = node OBVIOUS
<1> HIDE DEF new
<1>2. \A k \in DOMAIN new : Hollow(NodeFields(new[k])) BY <1>1
<1> QED BY <1>2 DEF new

(* A construct allocated, a fence with the list in hand.                   *)
LEMMA OwnedBuilt ==
  ASSUME NEW stk, NEW its \in Seq(Item), NEW nds \in Seq(Built), NEW loose,
         Owned(stk, its, nds, loose),
         NEW node, node.list = loose, node.rows = << >>,
         node.first.list = << >>, node.last.list = << >>, Hollow(NodeFields(node))
  PROVE  Owned(stk, its, Append(nds, node), << >>)
<1> DEFINE n == Len(nds)
           a == <<"fence", n + 1, 0, 0>>
           nds2 == Append(nds, node)
           H == Shelf(stk, its, nds, loose)
           H2 == Shelf(stk, its, nds2, << >>)
<1>1. nds \in Seq(Built) /\ n \in Nat /\ its \in Seq(Item) /\ Len(its) \in Nat
  OBVIOUS
<1>2. /\ a \in Places /\ a[1] = "fence" /\ a[2] = n + 1 /\ a[3] = 0 /\ a[4] = 0
      /\ a[1] \in NodeParts
  BY <1>1, PlaceIs DEF Parts, NodeParts
<1>3. ASSUME NEW q \in Places
      PROVE  /\ NodesAt(nds2, q) = IF q[2] = n + 1 THEN OfNode(node, q) ELSE NodesAt(nds, q)
             /\ q[2] = n + 1 => NodesAt(nds, q) = << >>
  BY <1>1, PlaceIs, NodesGrown
<1>4. \A k \in DOMAIN nds2 : Hollow(NodeFields(nds2[k])) BY <1>1, HollowNodes DEF Owned
<1> HIDE DEF a, Places, n, nds2
<1>5. OfNode(node, a) = loose BY <1>2 DEF OfNode, SlotList, Single
<1>6. ASSUME NEW q \in Places, q[1] \in NodeParts, q # a
      PROVE  q[2] = n + 1 => OfNode(node, q) = << >>
  <2> SUFFICES ASSUME q[2] = n + 1 PROVE OfNode(node, q) = << >> OBVIOUS
  <2>1. ~(q[1] = "fence" /\ q[3] = 0 /\ q[4] = 0) BY <1>2, <1>6, PlaceIs
  <2>2. q[1] = "array" \/ q[1] \in {"first", "last", "fence"} BY <1>6 DEF NodeParts
  <2>3. CellAt(node.rows, q[3], q[4]) = << >> BY DEF CellAt
  <2> HIDE DEF CellAt
  <2> QED BY <2>1, <2>2, <2>3 DEF OfNode, SlotList, Single
<1> HIDE DEF NodeParts
<1>7. H[a] = << >> /\ H2[a] = loose BY <1>2, <1>3, <1>5, ShelfIs
<1>8. H[Loose] = loose /\ H2[Loose] = << >> BY ShelfIs
<1>9. ASSUME NEW q \in Places, q # a, q # Loose PROVE H2[q] = H[q]
  <2>1. q[1] \in NodeParts => NodesAt(nds2, q) = NodesAt(nds, q) BY <1>3, <1>6, <1>9
  <2> HIDE DEF FramesAt, ItemsAt, NodesAt, FrameParts, ItemParts
  <2> QED BY <1>9, <2>1, ShelfIs
<1> HIDE DEF H, H2
<1>10. Shelved(H, Len(its)) BY DEF Owned, H
<1>11. Loose \in Places BY PlaceIs
<1>12. Shelved(H2, Len(its)) BY <1>1, <1>2, <1>7, <1>8, <1>9, <1>10, <1>11, SwappedShelved
<1>13. Owned(stk, its, nds2, << >>) BY <1>4, <1>12 DEF Owned, H2
<1> QED BY <1>13 DEF nds2

(* An environment popped: its rows are those of the array.                 *)
LEMMA OwnedArray ==
  ASSUME NEW stk \in Seq(FrameType), stk # << >>, NEW its \in Seq(Item),
         NEW nds \in Seq(Built), Owned(stk, its, nds, << >>),
         LET f == stk[Len(stk)] IN f.list = << >> /\ f.cells = << >>,
         NEW node, node.rows = stk[Len(stk)].rows, node.list = << >>,
         node.first.list = << >>, node.last.list = << >>, Hollow(NodeFields(node))
  PROVE  Owned(Below(stk), its, Append(nds, node), << >>)
<1> DEFINE n == Len(stk)
           m == Len(nds)
           f == stk[n]
           nds2 == Append(nds, node)
           H == Shelf(stk, its, nds, << >>)
           H2 == Shelf(Below(stk), its, nds2, << >>)
           O == [q \in Places |-> IF q[1] = "rows" /\ q[2] = n THEN <<"array", m + 1, q[3], q[4]>>
                                  ELSE IF q[1] = "array" /\ q[2] = m + 1 THEN <<"rows", n, q[3], q[4]>>
                                  ELSE q]
<1>1. /\ stk \in Seq(FrameType) /\ stk # << >> /\ n \in Nat /\ n >= 1 /\ DOMAIN stk = 1 .. n
      /\ its \in Seq(Item) /\ Len(its) \in Nat /\ nds \in Seq(Built) /\ m \in Nat
  OBVIOUS
<1>2. \A k \in DOMAIN nds2 : Hollow(NodeFields(nds2[k])) BY <1>1, HollowNodes DEF Owned
<1>3. ASSUME NEW q \in Places
      PROVE  /\ FramesAt(Below(stk), q) = IF q[2] = n THEN << >> ELSE FramesAt(stk, q)
             /\ q[2] = n => FramesAt(stk, q) = OfFrame(f, q)
             /\ NodesAt(nds2, q) = IF q[2] = m + 1 THEN OfNode(node, q) ELSE NodesAt(nds, q)
             /\ q[2] = m + 1 => NodesAt(nds, q) = << >>
  BY <1>1, PlaceIs, FramesPopped, NodesGrown
<1>4. \A r, c \in Nat : /\ <<"rows", n, r, c>> \in Places /\ <<"array", m + 1, r, c>> \in Places
                        /\ <<"rows", n, r, c>>[1] = "rows" /\ <<"rows", n, r, c>>[2] = n
                        /\ <<"rows", n, r, c>>[3] = r /\ <<"rows", n, r, c>>[4] = c
                        /\ <<"array", m + 1, r, c>>[1] = "array"
                        /\ <<"array", m + 1, r, c>>[2] = m + 1
                        /\ <<"array", m + 1, r, c>>[3] = r /\ <<"array", m + 1, r, c>>[4] = c
  <2>1. "rows" \in Parts /\ "array" \in Parts BY DEF Parts, FrameParts, NodeParts
  <2>2. m + 1 \in Nat BY <1>1
  <2> HIDE DEF Parts, Places, n, m
  <2> QED BY <1>1, <2>1, <2>2, PlaceIs
<1>5. f.list = << >> /\ f.cells = << >> /\ node.rows = f.rows OBVIOUS
<1>6. \A i \in DOMAIN Below(stk) : i \in DOMAIN stk /\ Below(stk)[i] = stk[i]
  <2> HIDE DEF FrameType
  <2> QED BY <1>1 DEF Below
<1> HIDE DEF Places, n, m, nds2, f, O
<1>7. ASSUME NEW q \in Places, q[1] \in FrameParts
      PROVE  OfFrame(f, q) = IF q[1] = "rows" THEN CellAt(f.rows, q[3], q[4]) ELSE << >>
  <2>1. CellAt(<<f.cells>>, q[3], q[4]) = << >> BY <1>5 DEF CellAt
  <2> QED BY <1>5, <1>7, <2>1 DEF OfFrame, Single, FrameParts
<1>8. ASSUME NEW q \in Places, q[1] \in NodeParts
      PROVE  OfNode(node, q) = IF q[1] = "array" THEN CellAt(f.rows, q[3], q[4]) ELSE << >>
  BY <1>5, <1>8 DEF OfNode, SlotList, Single, NodeParts
<1>9. "rows" \in FrameParts /\ "array" \in NodeParts BY DEF FrameParts, NodeParts
<1>14. FrameParts \cap NodeParts = {} BY DEF FrameParts, NodeParts
<1> HIDE DEF FrameParts, NodeParts, FramesAt, NodesAt, OfFrame, OfNode, ItemsAt, ItemParts
<1>10. ASSUME NEW q \in Places PROVE O[q] \in Places /\ O[O[q]] = q /\ H2[q] = H[O[q]]
  <2>1. q[3] \in Nat /\ q[4] \in Nat BY PlaceIs
  <2>2. CASE q[1] = "rows" /\ q[2] = n
    <3> DEFINE p == <<"array", m + 1, q[3], q[4]>>
    <3>1. p \in Places /\ p[1] = "array" /\ p[2] = m + 1 /\ p[3] = q[3] /\ p[4] = q[4]
      BY <1>4, <2>1
    <3>2. O[q] = p BY <2>2 DEF O
    <3> DEFINE back == <<"rows", n, p[3], p[4]>>
    <3>3. back \in Places /\ back[1] = "rows" /\ back[2] = n /\ back[3] = q[3] /\ back[4] = q[4]
      BY <1>4, <2>1, <3>1
    <3> HIDE DEF p
    <3>4. O[p] = back BY <3>1 DEF O
    <3> HIDE DEF back
    <3>5. back = q BY <2>2, <3>3, PlaceIs
    <3>6. H[p] = << >> BY <1>3, <1>9, <3>1, ShelfIs
    <3>7. H2[q] = << >> BY <1>3, <1>9, <2>2, ShelfIs
    <3> QED BY <3>1, <3>2, <3>4, <3>5, <3>6, <3>7
  <2>3. CASE q[1] = "array" /\ q[2] = m + 1
    <3> DEFINE p == <<"rows", n, q[3], q[4]>>
    <3>1. p \in Places /\ p[1] = "rows" /\ p[2] = n /\ p[3] = q[3] /\ p[4] = q[4]
      BY <1>4, <2>1
    <3>2. O[q] = p BY <2>3 DEF O
    <3> DEFINE back == <<"array", m + 1, p[3], p[4]>>
    <3>3. /\ back \in Places /\ back[1] = "array" /\ back[2] = m + 1
          /\ back[3] = q[3] /\ back[4] = q[4]
      BY <1>4, <2>1, <3>1
    <3> HIDE DEF p
    <3>4. O[p] = back BY <3>1 DEF O
    <3> HIDE DEF back
    <3>5. back = q BY <2>3, <3>3, PlaceIs
    <3>6. H[p] = CellAt(f.rows, q[3], q[4]) BY <1>3, <1>7, <1>9, <3>1, ShelfIs
    <3>7. H2[q] = CellAt(f.rows, q[3], q[4]) BY <1>3, <1>8, <1>9, <2>3, ShelfIs
    <3> QED BY <3>1, <3>2, <3>4, <3>5, <3>6, <3>7
  <2>4. CASE ~(q[1] = "rows" /\ q[2] = n) /\ ~(q[1] = "array" /\ q[2] = m + 1)
    <3>1. O[q] = q BY <2>4 DEF O
    <3>2. q[1] \in FrameParts => FramesAt(Below(stk), q) = FramesAt(stk, q)
      BY <1>3, <1>7, <2>4
    <3>3. q[1] \in NodeParts => NodesAt(nds2, q) = NodesAt(nds, q)
      BY <1>3, <1>8, <2>4
    <3>4. H2[q] = H[q] BY <3>2, <3>3 DEF Shelf
    <3> QED BY <3>1, <3>4
  <2> QED BY <2>2, <2>3, <2>4
<1> HIDE DEF H, H2
<1>11. Shelved(H, Len(its)) BY DEF Owned, H
<1>15. Moved(O, H, H2) BY <1>10 DEF Moved
<1>12. Shelved(H2, Len(its)) BY <1>1, <1>11, <1>15, MovedShelved
<1>13. Owned(Below(stk), its, nds2, << >>) BY <1>2, <1>6, <1>12 DEF Owned, H2
<1> QED BY <1>13 DEF nds2

(* A cell closed: the list of the frame becomes that of the cell.          *)
LEMMA OwnedCell ==
  ASSUME NEW stk \in Seq(FrameType), stk # << >>, NEW its \in Seq(Item), NEW nds, NEW loose,
         Owned(stk, its, nds, loose),
         stk[Len(stk)].role = "CELL",
         NEW g, g.role = "CELL", NEW cell, cell.list = stk[Len(stk)].list, g.list = << >>,
         g.cells = Append(stk[Len(stk)].cells, cell), g.rows = stk[Len(stk)].rows
  PROVE  Owned(SetTop(stk, g), its, nds, loose)
<1> DEFINE n == Len(stk)
           f == stk[n]
           m == Len(f.cells)
           a == <<"frame", n, 0, 0>>
           b == <<"cells", n, 1, m + 1>>
           H == Shelf(stk, its, nds, loose)
           H2 == Shelf(SetTop(stk, g), its, nds, loose)
<1>1. /\ stk \in Seq(FrameType) /\ stk # << >> /\ n \in Nat /\ f \in FrameType
      /\ its \in Seq(Item) /\ Len(its) \in Nat
  OBVIOUS
<1>2. f.cells \in Seq(Cell) BY <1>1 DEF FrameType
<1>3. /\ g.role = "CELL" /\ cell.list = f.list /\ g.list = << >> /\ g.rows = f.rows
      /\ g.cells = Append(f.cells, cell)
  OBVIOUS
<1>4. /\ m \in Nat /\ DOMAIN f.cells = 1 .. m /\ DOMAIN g.cells = 1 .. m + 1
      /\ g.cells[m + 1] = cell /\ \A c \in 1 .. m : g.cells[c] = f.cells[c]
  <2> HIDE DEF f, Cell
  <2> QED BY <1>2, <1>3
<1>5. /\ a \in Places /\ a[1] = "frame" /\ a[2] = n /\ a[3] = 0 /\ a[4] = 0
      /\ b \in Places /\ b[1] = "cells" /\ b[2] = n /\ b[3] = 1 /\ b[4] = m + 1
      /\ a[1] \in FrameParts /\ b[1] \in FrameParts
  <2>1. /\ "frame" \in Parts /\ "cells" \in Parts
        /\ "frame" \in FrameParts /\ "cells" \in FrameParts
    BY DEF Parts, FrameParts
  <2>2. m + 1 \in Nat BY <1>4
  <2> HIDE DEF Parts, Places, FrameParts, n, m
  <2> QED BY <1>1, <1>4, <2>1, <2>2, PlaceIs
<1>6. ASSUME NEW q \in Places
      PROVE  /\ FramesAt(SetTop(stk, g), q) = IF q[2] = n THEN OfFrame(g, q) ELSE FramesAt(stk, q)
             /\ q[2] = n => FramesAt(stk, q) = OfFrame(f, q)
  BY <1>1, FramesTop
<1> HIDE DEF a, b, Places, n, f, m
<1>7. OfFrame(f, a) = f.list /\ OfFrame(g, a) = << >> BY <1>3, <1>5 DEF OfFrame, Single
<1>8. ASSUME NEW q \in Places, q[1] = "cells"
      PROVE  /\ OfFrame(f, q) = IF q[3] = 1 /\ q[4] \in 1 .. m THEN f.cells[q[4]].list ELSE << >>
             /\ OfFrame(g, q) = IF q[3] = 1 /\ q[4] \in 1 .. m + 1 THEN g.cells[q[4]].list ELSE << >>
  <2>1. DOMAIN <<f.cells>> = {1} /\ <<f.cells>>[1] = f.cells
        /\ DOMAIN <<g.cells>> = {1} /\ <<g.cells>>[1] = g.cells
    OBVIOUS
  <2>2. \A c : /\ c \in 1 .. m <=> c \in DOMAIN f.cells
               /\ c \in 1 .. m + 1 <=> c \in DOMAIN g.cells
    BY <1>4
  <2>3. /\ OfFrame(f, q) = CellAt(<<f.cells>>, q[3], q[4])
        /\ OfFrame(g, q) = CellAt(<<g.cells>>, q[3], q[4])
    BY <1>8 DEF OfFrame
  <2> QED BY <2>1, <2>2, <2>3 DEF CellAt
<1>9. OfFrame(f, b) = << >> /\ OfFrame(g, b) = f.list
  <2>1. m + 1 \notin 1 .. m /\ m + 1 \in 1 .. m + 1 BY <1>4
  <2> QED BY <1>3, <1>4, <1>5, <1>8, <2>1
<1>10. ASSUME NEW q \in Places, q[1] \in FrameParts, q[2] = n, q # a, q # b
       PROVE  OfFrame(g, q) = OfFrame(f, q)
  <2>1. ~(q[1] = "frame" /\ q[3] = 0 /\ q[4] = 0) BY <1>5, <1>10, PlaceIs
  <2>2. ~(q[1] = "cells" /\ q[3] = 1 /\ q[4] = m + 1) BY <1>5, <1>10, PlaceIs
  <2>3. CASE q[1] = "frame" BY <2>1, <2>3 DEF OfFrame, Single
  <2>4. CASE q[1] = "cells"
    <3>1. q[4] \in Nat BY PlaceIs
    <3>2. q[3] = 1 => (q[4] \in 1 .. m + 1 <=> q[4] \in 1 .. m) BY <1>4, <2>2, <2>4, <3>1
    <3> QED BY <1>4, <1>8, <2>4, <3>2
  <2>5. CASE q[1] = "rows" BY <1>3, <2>5 DEF OfFrame
  <2> QED BY <1>10, <2>3, <2>4, <2>5 DEF FrameParts
<1> HIDE DEF FrameParts
<1>11. H[a] = f.list /\ H2[a] = << >> /\ H[b] = << >> /\ H2[b] = f.list
  BY <1>5, <1>6, <1>7, <1>9, ShelfIs
<1>12. ASSUME NEW q \in Places, q # a, q # b PROVE H2[q] = H[q]
  <2>1. q[1] \in FrameParts => FramesAt(SetTop(stk, g), q) = FramesAt(stk, q)
    BY <1>6, <1>10, <1>12
  <2> HIDE DEF FramesAt, ItemsAt, NodesAt, ItemParts, NodeParts
  <2> QED BY <2>1 DEF Shelf
<1> HIDE DEF H, H2
<1>13. Shelved(H, Len(its)) BY DEF Owned, H
<1>14. Shelved(H2, Len(its)) BY <1>1, <1>5, <1>11, <1>12, <1>13, SwappedShelved
<1>15. \A i \in DOMAIN SetTop(stk, g) : Cellless(SetTop(stk, g)[i])
  <2>1. Cellless(g) BY DEF Cellless
  <2> QED BY <1>1, <2>1 DEF Owned, SetTop
<1> QED BY <1>14, <1>15 DEF Owned, H2

(* A row closed: its cells move to the rows.                               *)
LEMMA OwnedRow ==
  ASSUME NEW stk \in Seq(FrameType), stk # << >>, NEW its \in Seq(Item), NEW nds, NEW loose,
         Owned(stk, its, nds, loose),
         stk[Len(stk)].role = "CELL",
         NEW g, g.role = "CELL", g.list = stk[Len(stk)].list, g.cells = << >>,
         g.rows = Append(stk[Len(stk)].rows, stk[Len(stk)].cells)
  PROVE  Owned(SetTop(stk, g), its, nds, loose)
<1> DEFINE n == Len(stk)
           f == stk[n]
           m == Len(f.rows)
           H == Shelf(stk, its, nds, loose)
           H2 == Shelf(SetTop(stk, g), its, nds, loose)
           O == [q \in Places |->
                   IF q[1] = "cells" /\ q[2] = n /\ q[3] = 1 THEN <<"rows", n, m + 1, q[4]>>
                   ELSE IF q[1] = "rows" /\ q[2] = n /\ q[3] = m + 1 THEN <<"cells", n, 1, q[4]>>
                   ELSE q]
<1>1. /\ stk \in Seq(FrameType) /\ stk # << >> /\ n \in Nat /\ f \in FrameType
      /\ its \in Seq(Item) /\ Len(its) \in Nat
  OBVIOUS
<1>2. f.rows \in Seq(Seq(Cell)) BY <1>1 DEF FrameType
<1>3. /\ g.role = "CELL" /\ g.list = f.list /\ g.cells = << >> /\ g.rows = Append(f.rows, f.cells)
  OBVIOUS
<1>4. /\ m \in Nat /\ DOMAIN f.rows = 1 .. m /\ DOMAIN g.rows = 1 .. m + 1
      /\ g.rows[m + 1] = f.cells /\ \A r \in 1 .. m : g.rows[r] = f.rows[r]
  <2> HIDE DEF f, Cell
  <2> QED BY <1>2, <1>3
<1>5. \A c \in Nat : /\ <<"cells", n, 1, c>> \in Places /\ <<"rows", n, m + 1, c>> \in Places
                     /\ <<"cells", n, 1, c>>[1] = "cells" /\ <<"cells", n, 1, c>>[2] = n
                     /\ <<"cells", n, 1, c>>[3] = 1 /\ <<"cells", n, 1, c>>[4] = c
                     /\ <<"rows", n, m + 1, c>>[1] = "rows" /\ <<"rows", n, m + 1, c>>[2] = n
                     /\ <<"rows", n, m + 1, c>>[3] = m + 1 /\ <<"rows", n, m + 1, c>>[4] = c
  <2>1. "rows" \in Parts /\ "cells" \in Parts BY DEF Parts, FrameParts
  <2>2. m + 1 \in Nat BY <1>4
  <2> HIDE DEF Parts, Places, n, m
  <2> QED BY <1>1, <2>1, <2>2, PlaceIs
<1>6. ASSUME NEW q \in Places
      PROVE  /\ FramesAt(SetTop(stk, g), q) = IF q[2] = n THEN OfFrame(g, q) ELSE FramesAt(stk, q)
             /\ q[2] = n => FramesAt(stk, q) = OfFrame(f, q)
  BY <1>1, FramesTop
<1> HIDE DEF Places, n, f, m, O
<1>7. ASSUME NEW q \in Places, q[1] = "cells"
      PROVE  /\ OfFrame(f, q) = IF q[3] = 1 /\ q[4] \in DOMAIN f.cells THEN f.cells[q[4]].list
                                ELSE << >>
             /\ OfFrame(g, q) = << >>
  <2>1. DOMAIN <<f.cells>> = {1} /\ <<f.cells>>[1] = f.cells OBVIOUS
  <2>2. CellAt(<<g.cells>>, q[3], q[4]) = << >> BY <1>3 DEF CellAt
  <2>3. /\ OfFrame(f, q) = CellAt(<<f.cells>>, q[3], q[4])
        /\ OfFrame(g, q) = CellAt(<<g.cells>>, q[3], q[4])
    BY <1>7 DEF OfFrame
  <2>4. CellAt(<<f.cells>>, q[3], q[4]) = IF q[3] = 1 /\ q[4] \in DOMAIN f.cells
                                         THEN f.cells[q[4]].list ELSE << >>
    BY <2>1 DEF CellAt
  <2> QED BY <2>2, <2>3, <2>4
<1>8. ASSUME NEW q \in Places, q[1] = "rows"
      PROVE  /\ q[3] = m + 1 =>
                  /\ OfFrame(f, q) = << >>
                  /\ OfFrame(g, q) = IF q[4] \in DOMAIN f.cells THEN f.cells[q[4]].list ELSE << >>
             /\ q[3] # m + 1 => OfFrame(g, q) = OfFrame(f, q)
  <2>1. OfFrame(f, q) = CellAt(f.rows, q[3], q[4]) /\ OfFrame(g, q) = CellAt(g.rows, q[3], q[4])
    BY <1>8 DEF OfFrame
  <2>2. m + 1 \notin DOMAIN f.rows /\ m + 1 \in DOMAIN g.rows BY <1>4
  <2>3. q[3] \in Nat BY PlaceIs
  <2>4. q[3] # m + 1 => (q[3] \in DOMAIN g.rows <=> q[3] \in DOMAIN f.rows) BY <1>4, <2>3
  <2>5. q[3] \in DOMAIN f.rows => g.rows[q[3]] = f.rows[q[3]] BY <1>4
  <2>6. g.rows[m + 1] = f.cells BY <1>4
  <2>7. CASE q[3] = m + 1 BY ONLY <2>1, <2>2, <2>6, <2>7 DEF CellAt
  <2>8. CASE q[3] # m + 1 BY ONLY <2>1, <2>4, <2>5, <2>8 DEF CellAt
  <2> QED BY <2>7, <2>8
<1>9. ASSUME NEW q \in Places, q[1] = "frame" PROVE OfFrame(g, q) = OfFrame(f, q)
  BY <1>3, <1>9 DEF OfFrame
<1>10. /\ "cells" \in FrameParts /\ "rows" \in FrameParts
       /\ \A w \in FrameParts : w = "frame" \/ w = "cells" \/ w = "rows"
  BY DEF FrameParts
<1> HIDE DEF FrameParts, NodeParts, FramesAt, NodesAt, OfFrame, OfNode, ItemsAt, ItemParts
<1>11. ASSUME NEW q \in Places PROVE O[q] \in Places /\ O[O[q]] = q /\ H2[q] = H[O[q]]
  <2>1. q[3] \in Nat /\ q[4] \in Nat BY PlaceIs
  <2>2. CASE q[1] = "cells" /\ q[2] = n /\ q[3] = 1
    <3> DEFINE p == <<"rows", n, m + 1, q[4]>>
    <3>1. p \in Places /\ p[1] = "rows" /\ p[2] = n /\ p[3] = m + 1 /\ p[4] = q[4]
      BY <1>5, <2>1
    <3>2. O[q] = p BY <2>2 DEF O
    <3> DEFINE back == <<"cells", n, 1, p[4]>>
    <3>3. back \in Places /\ back[1] = "cells" /\ back[2] = n /\ back[3] = 1 /\ back[4] = q[4]
      BY <1>5, <2>1, <3>1
    <3> HIDE DEF p
    <3>4. O[p] = back BY <3>1 DEF O
    <3> HIDE DEF back
    <3>5. back = q BY <2>2, <3>3, PlaceIs
    <3>6. H[p] = << >> BY <1>6, <1>8, <1>10, <3>1, ShelfIs
    <3>7. H2[q] = << >> BY <1>6, <1>7, <1>10, <2>2, ShelfIs
    <3> QED BY <3>1, <3>2, <3>4, <3>5, <3>6, <3>7
  <2>3. CASE q[1] = "rows" /\ q[2] = n /\ q[3] = m + 1
    <3> DEFINE p == <<"cells", n, 1, q[4]>>
    <3>1. p \in Places /\ p[1] = "cells" /\ p[2] = n /\ p[3] = 1 /\ p[4] = q[4]
      BY <1>5, <2>1
    <3>2. O[q] = p BY <2>3 DEF O
    <3> DEFINE back == <<"rows", n, m + 1, p[4]>>
    <3>3. back \in Places /\ back[1] = "rows" /\ back[2] = n /\ back[3] = m + 1 /\ back[4] = q[4]
      BY <1>5, <2>1, <3>1
    <3> HIDE DEF p
    <3>4. O[p] = back BY <3>1 DEF O
    <3> HIDE DEF back
    <3>5. back = q BY <2>3, <3>3, PlaceIs
    <3>6. H[p] = IF q[4] \in DOMAIN f.cells THEN f.cells[q[4]].list ELSE << >>
      BY <1>6, <1>7, <1>10, <3>1, ShelfIs
    <3>7. H2[q] = IF q[4] \in DOMAIN f.cells THEN f.cells[q[4]].list ELSE << >>
      BY <1>6, <1>8, <1>10, <2>3, ShelfIs
    <3> QED BY <3>1, <3>2, <3>4, <3>5, <3>6, <3>7
  <2>4. CASE ~(q[1] = "cells" /\ q[2] = n /\ q[3] = 1) /\ ~(q[1] = "rows" /\ q[2] = n /\ q[3] = m + 1)
    <3>1. O[q] = q BY <2>4 DEF O
    <3>2. q[1] \in FrameParts => FramesAt(SetTop(stk, g), q) = FramesAt(stk, q)
      BY <1>6, <1>7, <1>8, <1>9, <1>10, <2>4
    <3>3. H2[q] = H[q] BY <3>2 DEF Shelf
    <3> QED BY <3>1, <3>3
  <2> QED BY <2>2, <2>3, <2>4
<1> HIDE DEF H, H2
<1>12. Shelved(H, Len(its)) BY DEF Owned, H
<1>13. Moved(O, H, H2) BY <1>11 DEF Moved
<1>14. Shelved(H2, Len(its)) BY <1>1, <1>12, <1>13, MovedShelved
<1>15. \A i \in DOMAIN SetTop(stk, g) : Cellless(SetTop(stk, g)[i])
  <2>1. Cellless(g) BY DEF Cellless
  <2> QED BY <1>1, <2>1 DEF Owned, SetTop
<1> QED BY <1>14, <1>15 DEF Owned, H2

(* A frame changed elsewhere has the lists it had.                         *)
LEMMA ListsKept ==
  ASSUME NEW f \in FrameType
  PROVE  /\ \A c : LET g == [f EXCEPT !.collect = c] IN
              g.role = f.role /\ g.list = f.list /\ g.cells = f.cells /\ g.rows = f.rows
         /\ \A s : LET g == [f EXCEPT !.pending = s] IN
              g.role = f.role /\ g.list = f.list /\ g.cells = f.cells /\ g.rows = f.rows
         /\ \A w : LET g == [f EXCEPT !.wait = w] IN
              g.role = f.role /\ g.list = f.list /\ g.cells = f.cells /\ g.rows = f.rows
         /\ \A s, c : LET g == [f EXCEPT !.pending = s, !.collect = c] IN
              g.role = f.role /\ g.list = f.list /\ g.cells = f.cells /\ g.rows = f.rows
BY DEF FrameType

(* A script is written.                                                    *)
LEMMA FillOwned ==
  ASSUME NEW stk, NEW its \in Seq(Item), NEW nds, NEW script, NEW field \in Field,
         field.kind # "EMPTY", script.target \in DOMAIN its,
         ScriptField(its[script.target], script.kind).kind = "EMPTY",
         Owned(stk, its, nds, field.list)
  PROVE  Owned(stk, FillScript(its, script, field), nds, << >>)
<1> DEFINE k     == script.target
           it    == its[k]
           v     == Scripted(it, script, field)
           whole == [field EXCEPT !.begin = script.mark]
           part  == IF script.kind = "SUP" THEN "sup" ELSE "sub"
<1>1. k \in DOMAIN its /\ it \in Item /\ FillScript(its, script, field) = [its EXCEPT ![k] = v]
  BY DEF FillScript
<1>2. whole.kind = field.kind /\ whole.list = field.list BY DEF Field
<1>3. Hollow(FieldsOf(it)) BY <1>1 DEF Owned
<1>4. IF script.kind = "SUP" THEN it.sup.kind = "EMPTY" ELSE it.sub.kind = "EMPTY"
  BY DEF ScriptField
<1> HIDE DEF it, whole
<1>5. /\ v.nucleus = it.nucleus
      /\ script.kind = "SUP" => v.sup = whole /\ v.sub = it.sub
      /\ script.kind # "SUP" => v.sub = whole /\ v.sup = it.sup
  BY <1>1 DEF Scripted, Item, whole
<1> HIDE DEF v
<1>6. Hollow(FieldsOf(v)) BY <1>2, <1>3, <1>5 DEF Hollow, FieldsOf
<1>7. part \in ItemParts /\ PartList(it, part) = << >> /\ PartList(v, part) = field.list
      /\ \A w \in ItemParts : w # part => PartList(v, w) = PartList(it, w)
  BY <1>2, <1>3, <1>4, <1>5 DEF PartList, ItemParts, Hollow, FieldsOf
<1> HIDE DEF part, k
<1>8. Owned(stk, [its EXCEPT ![k] = v], nds, << >>) BY <1>1, <1>6, <1>7, OwnedFilled DEF it
<1> QED BY <1>1, <1>8

(* What a collector stages lands.                                          *)
LEMMA LandOwned ==
  ASSUME NEW stk, NEW its \in Seq(Item), NEW nds, NEW f, Aimed(f, its), Collecting(f),
         f.list # << >> => Tail1(f) \in DOMAIN its,
         NEW staged \in Field, staged.kind # "EMPTY", Owned(stk, its, nds, staged.list)
  PROVE  Owned(stk, Landed(its, f.collect, staged), nds, << >>)
<1> DEFINE c == f.collect
           k == Tail1(f)
<1>1. CASE c.item = 0 BY <1>1, FillOwned DEF Landed, Aimed, OpenFor
<1>2. CASE c.item # 0
  <2> DEFINE nucleus == [staged EXCEPT !.begin = c.begin]
             at == staged.end
             it == its[k]
             v  == [it EXCEPT !.nucleus = nucleus, !.sup = Empty(at), !.sub = Empty(at),
                              !.begin = c.begin, !.end = at]
  <2>1. /\ f.list # << >> /\ c.item = k /\ it.nucleus.kind = "EMPTY"
        /\ it.sup.kind = "EMPTY" /\ it.sub.kind = "EMPTY"
    BY <1>2 DEF Aimed, Bare
  <2>2. Landed(its, c, staged) = [its EXCEPT ![k] = v] BY <1>2, <2>1 DEF Landed
  <2>3. it \in Item /\ k \in DOMAIN its BY <2>1
  <2>4. nucleus.kind = staged.kind /\ nucleus.list = staged.list BY DEF Field
  <2>5. Empty(at).list = << >> BY DEF Empty
  <2>6. Hollow(FieldsOf(it)) BY <2>3 DEF Owned
  <2>7. v.nucleus = nucleus /\ v.sup = Empty(at) /\ v.sub = Empty(at)
    <3> HIDE DEF it, nucleus, at
    <3> QED BY <2>3 DEF Item
  <2>8. it.nucleus.list = << >> /\ it.sup.list = << >> /\ it.sub.list = << >>
    BY <2>1, <2>6 DEF Hollow, FieldsOf
  <2> HIDE DEF v, nucleus, it, k
  <2>9. Hollow(FieldsOf(v)) BY <2>4, <2>5, <2>7 DEF Hollow, FieldsOf
  <2>10. /\ "nucleus" \in ItemParts /\ PartList(it, "nucleus") = << >>
         /\ PartList(v, "nucleus") = staged.list
         /\ \A w \in ItemParts : w # "nucleus" => PartList(v, w) = PartList(it, w)
    BY <2>4, <2>5, <2>7, <2>8 DEF PartList, ItemParts
  <2>11. Owned(stk, [its EXCEPT ![k] = v], nds, << >>)
    BY <2>3, <2>9, <2>10, OwnedFilled DEF it
  <2> QED BY <2>2, <2>11
<1> QED BY <1>1, <1>2

(* Stamping a face leaves the list, ...                                    *)
LEMMA StampedList ==
  ASSUME NEW f, NEW field \in Field
  PROVE  Stamped(f, field).list = field.list
BY DEF Stamped, Field

(* ... and staging an argument leaves it to a style and has none otherwise. *)
LEMMA StagedList ==
  ASSUME NEW c \in Collect, NEW field \in Field
  PROVE  Staged(c, field).list = IF c.kind = "STYLE" THEN field.list ELSE << >>
<1>1. CASE c.kind # "STYLE" BY <1>1 DEF Staged, NodeField, Empty
<1>2. CASE c.kind = "STYLE" BY <1>2 DEF Staged, TextArgument, Field
<1> QED BY <1>1, <1>2

(* An argument of a construct is written.                                  *)
LEMMA StoreOwned ==
  ASSUME NEW stk, NEW its \in Seq(Item), NEW nds \in Seq(Built), NEW n \in DOMAIN nds,
         NEW field \in Field, field.kind # "EMPTY", Owned(stk, its, nds, field.list)
  PROVE  /\ nds[n].first.kind = "EMPTY" =>
              Owned(stk, its, [nds EXCEPT ![n] = [@ EXCEPT !.first = field]], << >>)
         /\ nds[n].last.kind = "EMPTY" =>
              Owned(stk, its, [nds EXCEPT ![n] = [@ EXCEPT !.last = field]], << >>)
<1> DEFINE nd == nds[n]
           u  == [nd EXCEPT !.first = field]
           v  == [nd EXCEPT !.last = field]
<1>1. nd \in Built /\ Hollow(NodeFields(nd)) BY DEF Owned
<1> HIDE DEF nd
<1>2. /\ u.first = field /\ u.last = nd.last /\ u.list = nd.list /\ u.rows = nd.rows
      /\ v.last = field /\ v.first = nd.first /\ v.list = nd.list /\ v.rows = nd.rows
  BY <1>1 DEF Built
<1> HIDE DEF u, v
<1>3. Hollow(NodeFields(u)) /\ Hollow(NodeFields(v)) BY <1>1, <1>2 DEF Hollow, NodeFields
<1>4. ASSUME nd.first.kind = "EMPTY" PROVE Owned(stk, its, [nds EXCEPT ![n] = u], << >>)
  <2>1. SlotList(nd, "first") = << >> BY <1>1, <1>4 DEF SlotList, Hollow, NodeFields
  <2>2. SlotList(u, "first") = field.list
        /\ \A w \in {"first", "last", "fence"} : w # "first" => SlotList(u, w) = SlotList(nd, w)
    BY <1>2 DEF SlotList
  <2> QED BY <1>2, <1>3, <2>1, <2>2, OwnedStored DEF nd
<1>5. ASSUME nd.last.kind = "EMPTY" PROVE Owned(stk, its, [nds EXCEPT ![n] = v], << >>)
  <2>1. SlotList(nd, "last") = << >> BY <1>1, <1>5 DEF SlotList, Hollow, NodeFields
  <2>2. SlotList(v, "last") = field.list
        /\ \A w \in {"first", "last", "fence"} : w # "last" => SlotList(v, w) = SlotList(nd, w)
    BY <1>2 DEF SlotList
  <2> QED BY <1>2, <1>3, <2>1, <2>2, OwnedStored DEF nd
<1> QED BY <1>4, <1>5 DEF nd, u, v

(* Between two steps no list is in hand.                                   *)
OwnedNow == Owned(stack, items, nodes, << >>)

(* txc_deliver: the list in hand goes where the construct goes.            *)
LEMMA DeliverOwned ==
  ASSUME OwnedNow, NEW stk, NEW its, NEW nds, NEW q, NEW n, Ready(stk, its, nds, q, n),
         NEW construct \in Field, construct.kind # "EMPTY", NEW class,
         Owned(stk, its, nds, construct.list), Deliver(stk, its, nds, construct, class)
  PROVE  OwnedNow'
<1> DEFINE f     == stk[Len(stk)]
           c     == f.collect
           field == Stamped(f, construct)
           part1 == [nds EXCEPT ![c.node] = [@ EXCEPT !.first = field]]
           part2 == [nds EXCEPT ![c.node] = [@ EXCEPT !.last = field]]
           g1    == [f EXCEPT !.collect.second = TRUE]
           g2    == [f EXCEPT !.collect = NoCollect]
           g3    == [f EXCEPT !.pending = NoScript]
           staged == Staged(c, field)
           its2  == Landed(its, c, staged)
           its3  == FillScript(its, f.pending, field)
           atom  == Atom(class, field)
<1>1. \/ c.kind = "FRACTION" /\ ~c.second /\ Becomes(SetTop(stk, g1), its, part1)
      \/ /\ Collecting(f) /\ ~(c.kind = "FRACTION" /\ ~c.second)
         /\ Becomes(SetTop(stk, g2), its2, IF c.kind = "STYLE" THEN nds ELSE part2)
      \/ ~Collecting(f) /\ Pending(f) /\ Becomes(SetTop(stk, g3), its3, nds)
      \/ Idle(f) /\ OutOfMemory
      \/ Idle(f) /\ Becomes(Linked(stk, its), Append(its, atom), nds)
  BY DEF Deliver
<1>2. /\ Good(stk, its, nds) /\ Sound(stk, its, nds, q) /\ stk \in Seq(FrameType) /\ stk # << >>
      /\ its \in Seq(Item) /\ nds \in Seq(Built)
  BY DEF Ready, Good, Typed
<1>3. /\ f \in FrameType /\ Steady(f) /\ Firm(f, its, nds, q) /\ c \in Collect
      /\ f.list # << >> => Tail1(f) \in DOMAIN its
  BY <1>2, TopFirm
<1>4. field \in Field /\ field.kind # "EMPTY" /\ field.list = construct.list
  BY <1>3, StampedTyped, StampedHolds, StampedList
<1> HIDE DEF field
<1>5. Owned(stk, its, nds, field.list) BY <1>4
<1>6. ASSUME NEW stk2, NEW its4, NEW nds2, Becomes(stk2, its4, nds2),
             Owned(stk2, its4, nds2, << >>)
      PROVE  OwnedNow'
  BY <1>6 DEF Becomes, OwnedNow
<1>7. /\ Owned(SetTop(stk, g1), its, nds, field.list)
      /\ Owned(SetTop(stk, g2), its, nds, field.list)
      /\ Owned(SetTop(stk, g3), its, nds, field.list)
  <2>1. \A x : LET g == [f EXCEPT !.collect = x] IN
              g.role = f.role /\ g.list = f.list /\ g.cells = f.cells /\ g.rows = f.rows
    BY <1>3, ListsKept
  <2>2. \A x : LET g == [f EXCEPT !.pending = x] IN
              g.role = f.role /\ g.list = f.list /\ g.cells = f.cells /\ g.rows = f.rows
    BY <1>3, ListsKept
  <2> DEFINE half == [c EXCEPT !.second = TRUE]
  <2>3. g1 = [f EXCEPT !.collect = half] OBVIOUS
  <2>4. /\ g1.role = f.role /\ g1.list = f.list /\ g1.cells = f.cells /\ g1.rows = f.rows
        /\ g2.role = f.role /\ g2.list = f.list /\ g2.cells = f.cells /\ g2.rows = f.rows
        /\ g3.role = f.role /\ g3.list = f.list /\ g3.cells = f.cells /\ g3.rows = f.rows
    <3> HIDE DEF half, f
    <3> QED BY <2>1, <2>2, <2>3
  <2> HIDE DEF g1, g2, g3
  <2> QED BY <1>2, <1>5, <2>4, OwnedStill
<1> HIDE DEF g1, g2, g3
<1>8. CASE c.kind = "FRACTION" /\ ~c.second /\ Becomes(SetTop(stk, g1), its, part1)
  <2>1. Collecting(f) /\ c.kind # "STYLE" BY <1>8 DEF Collecting
  <2>2. c.node \in DOMAIN nds /\ nds[c.node].first.kind = "EMPTY"
    BY <1>3, <1>8, <2>1 DEF Firm, Begun, Building
  <2>3. Owned(SetTop(stk, g1), its, part1, << >>) BY <1>2, <1>4, <1>7, <2>2, StoreOwned
  <2> QED BY <1>6, <1>8, <2>3
<1>9. CASE /\ Collecting(f) /\ ~(c.kind = "FRACTION" /\ ~c.second)
           /\ Becomes(SetTop(stk, g2), its2, IF c.kind = "STYLE" THEN nds ELSE part2)
  <2>1. c.kind # "NONE" BY <1>9 DEF Collecting
  <2>2. /\ staged \in Field /\ staged.kind # "EMPTY"
        /\ staged.list = IF c.kind = "STYLE" THEN field.list ELSE << >>
    BY <1>3, <1>4, <2>1, StagedTyped, StagedHolds, StagedList
  <2> HIDE DEF staged
  <2>3. Aimed(f, its) BY <1>3 DEF Firm
  <2> DEFINE nds2 == IF c.kind = "STYLE" THEN nds ELSE part2
  <2>4. Owned(SetTop(stk, g2), its, nds2, staged.list)
    <3>1. CASE c.kind = "STYLE" BY <1>7, <2>2, <3>1
    <3>2. CASE c.kind # "STYLE"
      <4>1. c.node \in DOMAIN nds /\ nds[c.node].last.kind = "EMPTY"
        BY <1>3, <1>9, <3>2 DEF Firm, Begun, Building
      <4>2. Owned(SetTop(stk, g2), its, part2, << >>) BY <1>2, <1>4, <1>7, <4>1, StoreOwned
      <4> QED BY <2>2, <3>2, <4>2
    <3> QED BY <3>1, <3>2
  <2> HIDE DEF nds2, f
  <2>5. Owned(SetTop(stk, g2), its2, nds2, << >>)
    BY <1>2, <1>3, <1>9, <2>2, <2>3, <2>4, LandOwned
  <2> QED BY <1>6, <1>9, <2>5 DEF nds2
<1>10. CASE ~Collecting(f) /\ Pending(f) /\ Becomes(SetTop(stk, g3), its3, nds)
  <2>1. OpenFor(f, f.pending, its) BY <1>3, <1>10 DEF Firm, Aimed
  <2>2. /\ f.pending.target \in DOMAIN its
        /\ ScriptField(its[f.pending.target], f.pending.kind).kind = "EMPTY"
    BY <1>3, <2>1 DEF OpenFor
  <2> HIDE DEF f
  <2>3. Owned(SetTop(stk, g3), its3, nds, << >>) BY <1>2, <1>4, <1>7, <2>2, FillOwned
  <2> QED BY <1>6, <1>10, <2>3
<1>11. CASE OutOfMemory BY <1>11 DEF OutOfMemory, Stop, OwnedNow
<1>12. CASE Idle(f) /\ Becomes(Linked(stk, its), Append(its, atom), nds)
  <2>1. /\ atom.nucleus = field /\ atom.sup.list = << >> /\ atom.sub.list = << >>
        /\ atom.sup.kind = "EMPTY" /\ atom.sub.kind = "EMPTY"
    BY DEF Atom, Empty
  <2> HIDE DEF atom
  <2>2. Hollow(FieldsOf(atom)) BY <1>4, <2>1 DEF Hollow, FieldsOf
  <2>3. Owned(Linked(stk, its), Append(its, atom), nds, << >>)
    BY <1>2, <1>5, <2>1, <2>2, OwnedLinked
  <2> QED BY <1>6, <1>12, <2>3
<1> QED BY <1>1, <1>8, <1>9, <1>10, <1>11, <1>12

(* A handler that leaves the stack and the arenas.                         *)
LEMMA FixedOwned ==
  ASSUME OwnedNow, UNCHANGED <<stack, items, nodes>> PROVE OwnedNow'
BY DEF OwnedNow

(* A handler that stops the parse.                                         *)
LEMMA StoppedOwned ==
  ASSUME OwnedNow, \/ OutOfMemory
                   \/ \E what, b, e : Refuse(what, b, e)
                   \/ \E what : Fail(what)
                   \/ \E at : Malformed(at)
                   \/ BadName
  PROVE  OwnedNow'
<1>1. ASSUME NEW status, NEW what, NEW b, NEW e, Stop(status, what, b, e) PROVE OwnedNow'
  BY <1>1, FixedOwned DEF Stop
<1> QED BY <1>1 DEF OutOfMemory, Refuse, Fail, Malformed, BadName

(* A handler that leaves what is owned.                                    *)
LEMMA BecomesOwned ==
  ASSUME NEW stk, NEW its, NEW nds, Becomes(stk, its, nds), Owned(stk, its, nds, << >>)
  PROVE  OwnedNow'
BY DEF Becomes, OwnedNow

(* The top frame waits, marks or collects: its lists are what they were.   *)
LEMMA TurnedOwned ==
  ASSUME IInv, NEW its, NEW nds, NEW loose, Owned(stack, its, nds, loose), NEW g,
         g.role = Top.role, g.list = Top.list, g.cells = Top.cells, g.rows = Top.rows
  PROVE  Owned(SetTop(stack, g), its, nds, loose)
BY TopParts, OwnedStill

(* A frame pushed has no list yet.                                         *)
LEMMA OpenedOwned ==
  ASSUME OwnedNow, NEW stk \in Seq(FrameType), stk # << >>, Owned(stk, items, nodes, << >>),
         NEW f, f.list = << >>, f.cells = << >>, f.rows = << >>,
         NEW b, NEW e, Open(stk, f, b, e)
  PROVE  OwnedNow'
<1>1. CASE OutOfMemory \/ \E what, x, y : Refuse(what, x, y) BY <1>1, StoppedOwned
<1>2. CASE Becomes(Append(stk, f), items, nodes) BY <1>2, OwnedPushed, BecomesOwned
<1> QED BY <1>1, <1>2 DEF Open

(* A space or a text glyph has no list.                                    *)
LEMMA AppendedOwned ==
  ASSUME IInv, OwnedNow, NEW item, item.nucleus.list = << >>,
         item.sup.list = << >>, item.sub.list = << >>, AppendItem(stack, item)
  PROVE  OwnedNow'
<1>1. Hollow(FieldsOf(item)) BY DEF Hollow, FieldsOf
<1>2. CASE OutOfMemory BY <1>2, StoppedOwned
<1>3. CASE Becomes(Linked(stack, items), Append(items, item), nodes)
  <2>1. Owned(Linked(stack, items), Append(items, item), nodes, << >>)
    BY <1>1, TopParts, OwnedLinked DEF OwnedNow
  <2> QED BY <1>3, <2>1, BecomesOwned
<1> QED BY <1>2, <1>3 DEF AppendItem

(* Blanks, spaces and the glyphs of the document rules.                    *)
LEMMA TextOwned ==
  ASSUME Standing, OwnedNow,
         \/ MathBlank \/ WordSpace
         \/ \E t \in Alphabet : TextGlyph(t) \/ SpacingCommand(t)
  PROVE  OwnedNow'
<1>1. IInv BY DEF Standing
<1>2. /\ Space(pos, pos + 1).nucleus.list = << >> /\ Space(pos, pos + 1).sup.list = << >>
      /\ Space(pos, pos + 1).sub.list = << >>
  BY DEF Space, Atom, Empty
<1>3. ASSUME NEW t
      PROVE  LET a == Atom("ORD", Glyph(t, "FIXED")) IN
               a.nucleus.list = << >> /\ a.sup.list = << >> /\ a.sub.list = << >>
  BY DEF Atom, Glyph, CharField, Empty
<1>4. CASE MathBlank BY <1>4, FixedOwned DEF MathBlank
<1>5. CASE WordSpace BY <1>1, <1>2, <1>5, AppendedOwned DEF WordSpace
<1>6. ASSUME NEW t \in Alphabet, TextGlyph(t) PROVE OwnedNow'
  BY <1>1, <1>3, <1>6, AppendedOwned DEF TextGlyph
<1>7. ASSUME NEW t \in Alphabet, SpacingCommand(t) PROVE OwnedNow'
  BY <1>1, <1>2, <1>7, AppendedOwned DEF SpacingCommand
<1> QED BY <1>4, <1>5, <1>6, <1>7

(* Handlers that only stop the parse.                                      *)
LEMMA RefusedOwned ==
  ASSUME OwnedNow,
         \/ Accept \/ EndTooEarly \/ ScanError \/ ParagraphBreak \/ UnmatchedBrace
         \/ MisplacedRow
         \/ \E t \in Alphabet : MissingDelimiter(t) \/ MissingArgument(t) \/ Unsupported(t)
  PROVE  OwnedNow'
<1>1. CASE Accept BY <1>1, FixedOwned DEF Accept, Stop
<1>2. CASE EndTooEarly
  <2>1. \E what, b, e : Refuse(what, b, e) BY <1>2 DEF EndTooEarly
  <2> QED BY <2>1, StoppedOwned
<1>3. CASE ScanError BY <1>3, StoppedOwned DEF ScanError
<1>4. CASE ParagraphBreak \/ UnmatchedBrace \/ MisplacedRow
  <2>1. \E what : Fail(what) BY <1>4 DEF ParagraphBreak, UnmatchedBrace, MisplacedRow
  <2> QED BY <2>1, StoppedOwned
<1>5. ASSUME NEW t \in Alphabet, MissingDelimiter(t) \/ MissingArgument(t) \/ Unsupported(t)
      PROVE  OwnedNow'
  <2>1. \E what : Fail(what) BY <1>5 DEF MissingDelimiter, MissingArgument, Unsupported
  <2> QED BY <2>1, StoppedOwned
<1> QED BY <1>1, <1>2, <1>3, <1>4, <1>5

(* The frames that are pushed.                                             *)
LEMMA FramesOpenBare ==
  /\ \A role, open : LET f == Inside(role, Top, open) IN
       f.list = << >> /\ f.cells = << >> /\ f.rows = << >>
  /\ LET f == GroupFrame(Top) IN f.list = << >> /\ f.cells = << >> /\ f.rows = << >>
  /\ \A name : LET f == [Inside("CELL", Top, pos) EXCEPT
                           !.env = name, !.stretched = @ \/ Stretches(name),
                           !.cellStart = pos + 2]
               IN f.list = << >> /\ f.cells = << >> /\ f.rows = << >>
BY DEF Inside, Frame, GroupFrame

(* The top frame served, marked or taken of its mark has its lists.        *)
LEMMA ServedLists ==
  ASSUME IInv
  PROVE  LET p == [Top EXCEPT !.pending = NoScript] IN
         /\ Served.role = Top.role /\ Served.list = Top.list
         /\ Served.cells = Top.cells /\ Served.rows = Top.rows /\ Served \in FrameType
         /\ p.role = Top.role /\ p.list = Top.list
         /\ p.cells = Top.cells /\ p.rows = Top.rows /\ p \in FrameType
<1>1. Top \in FrameType BY TopParts
<1>2. NoWait \in Wait BY Absent DEF NoWait
<1>3. NoScript \in Script BY Absent
<1> DEFINE f == Top
<1>4. Served = [f EXCEPT !.wait = NoWait] BY DEF Served
<1> HIDE DEF f
<1>5. f \in FrameType BY <1>1 DEF f
<1>6. [f EXCEPT !.wait = NoWait] \in FrameType /\ [f EXCEPT !.pending = NoScript] \in FrameType
  BY <1>2, <1>3, <1>5, WaitSet, PendingSet
<1> QED BY <1>4, <1>5, <1>6, ListsKept DEF f

(* Constructs opened.                                                      *)
LEMMA OpenOwned ==
  ASSUME Standing, OwnedNow,
         \/ OpenIndex \/ OpenGroup \/ \E t \in Alphabet : OpenFence(t)
         \/ \E name \in Named : BeginEnvironment(name)
  PROVE  OwnedNow'
<1>1. IInv BY DEF Standing
<1>2. stack \in Seq(FrameType) /\ stack # << >> /\ Owned(stack, items, nodes, << >>)
  BY <1>1, TopParts DEF OwnedNow
<1> DEFINE p == [Top EXCEPT !.pending = NoScript]
<1>3. \A g \in {Served, p} :
        /\ SetTop(stack, g) \in Seq(FrameType) /\ SetTop(stack, g) # << >>
        /\ Owned(SetTop(stack, g), items, nodes, << >>)
  BY <1>1, <1>2, ServedLists, TurnedOwned, SetTopTyped
<1>4. CASE OpenIndex BY <1>2, <1>4, FramesOpenBare, OpenedOwned DEF OpenIndex
<1>5. CASE OpenGroup BY <1>3, <1>5, FramesOpenBare, OpenedOwned DEF OpenGroup
<1>6. ASSUME NEW t \in Alphabet, OpenFence(t) PROVE OwnedNow'
  BY <1>3, <1>6, FramesOpenBare, OpenedOwned DEF OpenFence
<1>7. ASSUME NEW name \in Named, BeginEnvironment(name) PROVE OwnedNow'
  <2> DEFINE f == [Inside("CELL", Top, pos) EXCEPT
                     !.env = name, !.stretched = @ \/ Stretches(name), !.cellStart = pos + 2]
  <2>1. \/ \E what : Fail(what)
        \/ BadName
        \/ \E what, b, e : Refuse(what, b, e)
        \/ Open(stack, f, pos, pos + 2)
    BY <1>7 DEF BeginEnvironment
  <2>2. f.list = << >> /\ f.cells = << >> /\ f.rows = << >> BY FramesOpenBare
  <2> HIDE DEF f
  <2> QED BY <1>2, <2>1, <2>2, OpenedOwned, StoppedOwned
<1> QED BY <1>4, <1>5, <1>6, <1>7

(* What a frame popped had is in hand.                                     *)
LEMMA PoppedOwned ==
  ASSUME IInv, OwnedNow, Top.role # "CELL"
  PROVE  Owned(Below(stack), items, nodes, Top.list)
BY TopParts, OwnedPopped DEF OwnedNow

(* A delimiter is asked for, or served and delivered.                      *)
LEMMA DelimiterOwned ==
  ASSUME Standing, OwnedNow, NEW t \in Alphabet, AskForDelimiter(t) \/ SizedDelimiter(t)
  PROVE  OwnedNow'
<1>1. IInv BY DEF Standing
<1>2. stack \in Seq(FrameType) /\ stack # << >> /\ Owned(stack, items, nodes, << >>)
  BY <1>1, TopParts DEF OwnedNow
<1>3. CASE AskForDelimiter(t)
  <2> DEFINE w == [kind |-> CASE t = "\\left" -> "LEFT" [] t = "\\right" -> "RIGHT"
                             [] OTHER -> "EXPLICIT",
                   at |-> pos, class |-> ClassOf(t)]
             f == Top
             g == [f EXCEPT !.wait = w]
  <2>1. (\E what : Fail(what)) \/ Becomes(SetTop(stack, g), items, nodes)
    BY <1>3 DEF AskForDelimiter
  <2> HIDE DEF w
  <2>2. f \in FrameType BY <1>1, TopParts
  <2> HIDE DEF f
  <2>3. g.role = f.role /\ g.list = f.list /\ g.cells = f.cells /\ g.rows = f.rows
    BY <2>2, ListsKept
  <2> HIDE DEF g
  <2>4. Owned(SetTop(stack, g), items, nodes, << >>) BY <1>1, <1>2, <2>3, TurnedOwned DEF f
  <2> QED BY <2>1, <2>4, BecomesOwned, StoppedOwned
<1>4. CASE SizedDelimiter(t)
  <2> DEFINE stk   == SetTop(stack, Served)
             field == NodeField("DELIMITER", 0, Top.wait.at, pos + 1)
  <2>1. /\ Scan(t) /\ MathRules(Top)
        /\ Deliver(stk, items, nodes, field, Top.wait.class)
    BY <1>4 DEF SizedDelimiter, AwaitsDelimiter
  <2>2. Poised /\ text'[pos'] # "END" BY <2>1, AlphabetRead, TokenPoised
  <2>3. /\ Good(stk, items, nodes) /\ Sound(stk, items, nodes, pos')
        /\ Complete(stk, items, nodes, 0)
        /\ stk[Len(stk)] = Served /\ Same(Top, Served)
    BY <2>1, <2>2, ServedFits
  <2>4. field \in Field /\ field.kind # "EMPTY" /\ field.list = << >>
    <3>1. "DELIMITER" \in FieldKinds /\ 0 \in Nat BY DEF FieldKinds
    <3>2. field \in Field BY <1>1, <3>1, TopParts, NodeFieldTyped
    <3> QED BY <3>2 DEF NodeField, Empty
  <2>5. 0 \notin DOMAIN nodes
    <3>1. nodes \in Seq(Built) BY <1>1, TopParts
    <3> QED BY <3>1
  <2>6. Owned(stk, items, nodes, << >>) BY <1>1, <1>2, ServedLists, TurnedOwned
  <2> HIDE DEF stk, field
  <2>7. MathRules(stk[Len(stk)]) BY <2>1, <2>3 DEF MathRules, Same
  <2>8. Ready(stk, items, nodes, pos', 0) BY <2>3, <2>5, <2>7 DEF Ready
  <2>9. Owned(stk, items, nodes, field.list) BY <2>4, <2>6
  <2> QED BY <2>1, <2>4, <2>8, <2>9, DeliverOwned
<1> QED BY <1>3, <1>4

(* A glyph has no list.                                                    *)
LEMMA GlyphOwned ==
  ASSUME Standing, OwnedNow, NEW t \in Alphabet, GlyphToken(t) PROVE OwnedNow'
<1> DEFINE glyph == Glyph(t, FaceOfGlyph(t))
<1>1. Scan(t) /\ MathRules(Top) /\ Deliver(stack, items, nodes, glyph, ClassOf(t))
  BY DEF GlyphToken, Allowed, MathToken
<1>2. Poised BY <1>1, AlphabetRead, TokenPoised
<1>3. FaceOfGlyph(t) \in Faces BY DEF FaceOfGlyph, Faces
<1>4. glyph \in Field BY <1>3, GlyphTyped DEF Standing
<1>5. glyph.kind # "EMPTY" /\ glyph.list = << >> BY DEF Glyph, CharField, Empty
<1>6. 0 \notin DOMAIN nodes
  <2>1. nodes \in Seq(Built) BY <1>2, PoisedParts DEF Good, Typed
  <2> QED BY <2>1
<1>7. Ready(stack, items, nodes, pos', 0) BY <1>1, <1>2, <1>6, PoisedParts DEF Ready
<1> HIDE DEF glyph
<1>8. Owned(stack, items, nodes, glyph.list) BY <1>5 DEF OwnedNow
<1> QED BY <1>1, <1>4, <1>5, <1>7, <1>8, DeliverOwned

(* A group handed down with its list.                                      *)
LEMMA GroupOwned ==
  ASSUME OwnedNow, Poised, Math, Idle(Top), Top.role = "GROUP",
         Deliver(Below(stack), items, nodes, GroupList, "ORD")
  PROVE  OwnedNow'
<1>1. Ready(Below(stack), items, nodes, pos', 0) BY ClosedReady
<1>2. IInv BY PoisedParts
<1>3. GroupList \in Field /\ GroupList.kind # "EMPTY" BY <1>2, GroupListFilled
<1>4. GroupList.list = Top.list BY DEF GroupList, ListField, Empty
<1>5. Owned(Below(stack), items, nodes, GroupList.list) BY <1>2, <1>4, PoppedOwned
<1> QED BY <1>1, <1>3, <1>5, DeliverOwned

(* A closing brace hands the list of a group down, or fills a script.      *)
LEMMA BraceOwned ==
  ASSUME Standing, OwnedNow, CloseText \/ CloseGroup \/ CloseScript PROVE OwnedNow'
<1>1. "}" \in Source BY AlphabetRead
<1>2. CASE CloseText
  <2>1. /\ Scan("}") /\ Math /\ Top.text
        /\ Deliver(Below(stack), items, nodes, GroupList, "ORD")
    BY <1>2 DEF CloseText
  <2>2. Poised BY <1>1, <2>1, TokenPoised
  <2>3. Idle(Top) BY <2>1, <2>2, TextIdle DEF MathRules
  <2>4. Top.role = "GROUP" BY <2>1, <2>2, PoisedParts, BelowGood DEF PushedOn
  <2> QED BY <2>1, <2>2, <2>3, <2>4, GroupOwned
<1>3. CASE CloseGroup
  <2>1. /\ Allowed("}") /\ Top.role = "GROUP"
        /\ Deliver(Below(stack), items, nodes, GroupList, "ORD")
    BY <1>3 DEF CloseGroup
  <2>2. Scan("}") /\ Math /\ Idle(Top) BY <2>1, BraceIdle
  <2>3. Poised BY <1>1, <2>2, TokenPoised
  <2> QED BY <2>1, <2>2, <2>3, GroupOwned
<1>4. CASE CloseScript
  <2> DEFINE its == FillScript(items, Top.script, GroupList)
             stk == Below(stack)
             b   == stk[Len(stk)]
  <2>1. Allowed("}") /\ Top.role = "SCRIPT" /\ Becomes(stk, its, nodes) BY <1>4 DEF CloseScript
  <2>2. Scan("}") BY <2>1, BraceIdle
  <2>3. Poised BY <1>1, <2>2, TokenPoised
  <2>4. /\ Good(stack, items, nodes) /\ Sound(stack, items, nodes, pos')
        /\ stack \in Seq(FrameType) /\ Top = stack[Len(stack)] /\ pos' \in Nat
        /\ IInv /\ items \in Seq(Item)
    BY <2>3, PoisedParts, TopGood
  <2>5. Good(stk, items, nodes) /\ Len(stack) >= 2 /\ b \in FrameType
    BY <2>1, <2>4, BelowGood
  <2>6. Sound(stk, items, nodes, pos') /\ Owed(b, Top, items) BY <2>4, <2>5, SoundPop
  <2>7. OpenFor(b, Top.script, items) BY <2>1, <2>6 DEF Owed
  <2>8. b.list # << >> => Tail1(b) \in DOMAIN items BY <2>5, <2>6, TopFirm
  <2>9. GroupList \in Field /\ GroupList.kind # "EMPTY" BY <2>4, GroupListFilled
  <2>10. GroupList.list = Top.list BY DEF GroupList, ListField, Empty
  <2>11. Owned(stk, items, nodes, GroupList.list) BY <2>1, <2>4, <2>10, PoppedOwned
  <2> DEFINE script == Top.script
  <2> HIDE DEF stk, b
  <2>12. /\ script.target \in DOMAIN items
         /\ ScriptField(items[script.target], script.kind).kind = "EMPTY"
    BY <2>7, <2>8 DEF OpenFor
  <2> HIDE DEF script
  <2>13. Owned(stk, FillScript(items, script, GroupList), nodes, << >>)
    BY <2>4, <2>9, <2>11, <2>12, FillOwned
  <2> QED BY <2>1, <2>13, BecomesOwned DEF script
<1> QED BY <1>2, <1>3, <1>4

(* The list of an index goes to its radical.                               *)
LEMMA IndexOwned == ASSUME Standing, OwnedNow, CloseIndex PROVE OwnedNow'
<1> DEFINE stk    == Below(stack)
           b      == stack[Len(stack) - 1]
           c      == b.collect
           index  == ListField(Top.list, Top.open, pos + 1)
           half   == [c EXCEPT !.second = TRUE]
           g      == [b EXCEPT !.collect = half]
           nds    == [nodes EXCEPT ![c.node] = [@ EXCEPT !.first = index]]
<1>1. Allowed("]") /\ Top.role = "INDEX" /\ Becomes(SetTop(stk, g), items, nds)
  BY DEF CloseIndex
<1>2. Scan("]") /\ MathRules(Top) /\ Idle(Top)
  BY <1>1 DEF Allowed, MathToken, Refused
<1>3. "]" \in Source BY AlphabetRead
<1>4. Poised BY <1>2, <1>3, TokenPoised
<1>5. /\ Good(stack, items, nodes) /\ Sound(stack, items, nodes, pos')
      /\ stack \in Seq(FrameType) /\ Top = stack[Len(stack)] /\ pos' \in Nat /\ IInv
  BY <1>4, PoisedParts
<1>6. Len(stack) >= 2 /\ Good(stk, items, nodes) BY <1>1, <1>5, BelowGood
<1>7. stk[Len(stk)] = b
  <2>1. /\ Len(stk) = Len(stack) - 1 /\ \A i \in 1 .. Len(stack) - 1 : stk[i] = stack[i]
    BY <1>5, <1>6, BelowTyped
  <2>2. Len(stack) - 1 \in 1 .. Len(stack) - 1 BY <1>5, <1>6
  <2> QED BY <2>1, <2>2
<1>8. PushedOn(b, Top) /\ b \in FrameType BY <1>1, <1>5, <1>7, BelowGood
<1>9. Sound(stk, items, nodes, pos') BY <1>5, <1>6, SoundPop
<1>10. Firm(b, items, nodes, pos') BY <1>6, <1>7, <1>9, TopFirm
<1>11. nodes \in Seq(Built) /\ items \in Seq(Item) /\ stk \in Seq(FrameType) /\ stk # << >>
  BY <1>5, <1>6, TopParts, BelowTyped
<1>12. Owned(stk, items, nodes, Top.list) BY <1>1, <1>5, PoppedOwned
<1> HIDE DEF stk, b
<1>13. c.kind = "RADICAL" /\ ~c.second BY <1>1, <1>8 DEF PushedOn, Collects
<1>14. Building(b) BY <1>13 DEF Building, Collecting
<1>15. c.node \in DOMAIN nodes /\ nodes[c.node].first.kind = "EMPTY"
  BY <1>10, <1>13, <1>14 DEF Firm, Begun
<1>16. index \in Field /\ index.kind # "EMPTY" /\ index.list = Top.list
  <2>1. index \in Field BY <1>5, TopParts, ListTyped
  <2> QED BY <2>1 DEF ListField, Empty
<1> HIDE DEF c, index, half
<1>17. g.role = b.role /\ g.list = b.list /\ g.cells = b.cells /\ g.rows = b.rows
  BY <1>8, ListsKept
<1> HIDE DEF g
<1>18. Owned(SetTop(stk, g), items, nodes, index.list)
  BY <1>7, <1>11, <1>12, <1>16, <1>17, OwnedStill
<1>19. Owned(SetTop(stk, g), items, nds, << >>)
  BY <1>11, <1>15, <1>16, <1>18, StoreOwned
<1> QED BY <1>1, <1>19, BecomesOwned

(* The list of a fence goes to its construct.                              *)
LEMMA FenceOwned ==
  ASSUME Standing, OwnedNow, NEW t \in Alphabet, CloseFence(t) PROVE OwnedNow'
<1> DEFINE base  == Node("FENCED", Top.open)
           node  == [base EXCEPT !.list = Top.list]
           field == NodeField("FENCED", Len(nodes) + 1, Top.open, pos + 1)
           nds   == Append(nodes, node)
<1>1. /\ Scan(t) /\ MathRules(Top) /\ t \in Delimiters /\ Top.wait.kind = "RIGHT"
      /\ OutOfMemory \/ Deliver(Below(stack), items, nds, field, "INNER")
  BY DEF CloseFence, AwaitsDelimiter
<1>2. Poised BY <1>1, AlphabetRead, TokenPoised
<1>3. Top.role = "FENCED" /\ Idle(Top) BY <1>1, <1>2, PoisedParts DEF Steady
<1>4. IInv BY DEF Standing
<1>5. base \in Built BY <1>4, TopParts, NodeTyped
<1>6. /\ base.kind = "FENCED" /\ base.first.list = << >> /\ base.last.list = << >>
      /\ base.rows = << >>
      /\ base.first.kind = "EMPTY" /\ base.last.kind = "EMPTY"
  BY DEF Node, Empty
<1> HIDE DEF base
<1>7. /\ node \in Built /\ node.kind = "FENCED" /\ node.list = Top.list /\ node.rows = << >>
      /\ node.first = base.first /\ node.last = base.last
  BY <1>4, <1>5, <1>6, TopParts DEF Built
<1> HIDE DEF node
<1>8. Hollow(NodeFields(node)) /\ Finished(node)
  BY <1>6, <1>7 DEF Hollow, NodeFields, Finished
<1>9. field \in Field /\ field.kind # "EMPTY" /\ field.list = << >>
  <2>1. "FENCED" \in FieldKinds /\ Len(nodes) + 1 \in Nat BY <1>4, TopParts DEF FieldKinds
  <2>2. field \in Field BY <1>4, <2>1, TopParts, NodeFieldTyped
  <2> QED BY <2>2 DEF NodeField, Empty
<1> HIDE DEF field
<1>10. Ready(Below(stack), items, nodes, pos', 0)
  BY <1>1, <1>2, <1>3, ClosedReady DEF MathRules
<1>11. pos' \in Nat BY <1>2, PoisedParts
<1>12. Ready(Below(stack), items, nds, pos', Len(nodes) + 1)
  BY <1>7, <1>8, <1>10, <1>11, LooseReady
<1>13. Owned(Below(stack), items, nodes, Top.list) BY <1>3, <1>4, PoppedOwned
<1>14. Owned(Below(stack), items, nds, << >>)
  BY <1>4, <1>6, <1>7, <1>8, <1>13, TopParts, OwnedBuilt
<1> HIDE DEF nds
<1>15. Owned(Below(stack), items, nds, field.list) BY <1>9, <1>14
<1>16. CASE Deliver(Below(stack), items, nds, field, "INNER")
  BY <1>9, <1>12, <1>15, <1>16, DeliverOwned
<1> QED BY <1>1, <1>16, StoppedOwned

(* The cell that is open is closed, ...                                    *)
LEMMA CellOwned ==
  ASSUME IInv, OwnedNow, Top.role = "CELL", NEW start \in Nat
  PROVE  LET g == WithCell(Top, start) IN
           /\ g \in FrameType /\ g.role = "CELL" /\ g.list = << >> /\ g.rows = Top.rows
           /\ g.cells = Append(Top.cells, CellOf(Top))
           /\ Owned(SetTop(stack, g), items, nodes, << >>)
<1> DEFINE cell  == CellOf(Top)
           cells == Append(Top.cells, cell)
           f     == Top
           g     == WithCell(Top, start)
<1>1. g \in FrameType /\ g.list = << >> BY WithCellTyped
<1>2. g = [f EXCEPT !.cells = cells, !.list = << >>, !.cellStart = start] BY DEF WithCell
<1>3. f \in FrameType /\ f = stack[Len(stack)] /\ f.role = "CELL" BY TopParts
<1>4. cell.list = f.list BY DEF CellOf
<1>5. stack \in Seq(FrameType) /\ stack # << >> /\ items \in Seq(Item) BY TopParts
<1>6. cells = Append(f.cells, cell) OBVIOUS
<1> HIDE DEF cells, cell, f, g
<1>7. g.role = f.role /\ g.rows = f.rows /\ g.cells = cells BY <1>2, <1>3 DEF FrameType
<1>8. Owned(SetTop(stack, g), items, nodes, << >>)
  BY <1>1, <1>3, <1>4, <1>5, <1>6, <1>7, OwnedCell DEF OwnedNow
<1> QED BY <1>1, <1>3, <1>6, <1>7, <1>8 DEF f, g, cells, cell

(* ... and the row with it.                                                *)
LEMMA RowOwned ==
  ASSUME IInv, OwnedNow, Top.role = "CELL", NEW start \in Nat
  PROVE  LET g == WithRow(Top, start) IN
           /\ g \in FrameType /\ g.role = "CELL" /\ g.list = << >> /\ g.cells = << >>
           /\ Owned(SetTop(stack, g), items, nodes, << >>)
<1> DEFINE row  == Append(Top.cells, CellOf(Top))
           f    == WithCell(Top, start)
           rows == Append(f.rows, row)
           g    == WithRow(Top, start)
           stk  == SetTop(stack, f)
<1>1. /\ f \in FrameType /\ f.role = "CELL" /\ f.list = << >> /\ f.cells = row
      /\ Owned(stk, items, nodes, << >>)
  BY CellOwned
<1>2. stack \in Seq(FrameType) /\ stack # << >> /\ items \in Seq(Item) BY TopParts
<1>3. g \in FrameType BY WithRowTyped
<1>4. g = [f EXCEPT !.rows = rows, !.cells = << >>] BY DEF WithRow
<1>5. rows = Append(f.rows, row) OBVIOUS
<1> HIDE DEF row, f, rows, g
<1>6. /\ stk \in Seq(FrameType) /\ stk # << >> /\ Len(stk) = Len(stack) /\ stk[Len(stack)] = f
  BY <1>1, <1>2, SetTopTyped
<1>7. stk[Len(stk)] = f BY <1>6
<1>8. g.role = f.role /\ g.list = f.list /\ g.cells = << >> /\ g.rows = rows
  BY <1>1, <1>4 DEF FrameType
<1>9. SetTop(stk, g) = SetTop(stack, g) BY <1>1, <1>2, <1>3, SetTopTwice
<1> HIDE DEF stk
<1>10. Owned(SetTop(stk, g), items, nodes, << >>)
  BY <1>1, <1>2, <1>5, <1>6, <1>7, <1>8, OwnedRow
<1> QED BY <1>1, <1>3, <1>8, <1>9, <1>10 DEF g

(* An alignment tab.                                                       *)
LEMMA TabOwned == ASSUME Standing, OwnedNow, AlignmentTab PROVE OwnedNow'
<1> DEFINE g == WithCell(Top, pos + 1)
<1>1. \/ \E what : Fail(what)
      \/ OutOfMemory
      \/ Top.role = "CELL" /\ Becomes(SetTop(stack, g), items, nodes)
  BY DEF AlignmentTab
<1>2. IInv /\ pos + 1 \in Nat BY TopParts DEF Standing
<1> HIDE DEF g
<1>3. CASE Top.role = "CELL" /\ Becomes(SetTop(stack, g), items, nodes)
  BY <1>2, <1>3, CellOwned, BecomesOwned DEF g
<1> QED BY <1>1, <1>3, StoppedOwned

(* A row terminator.                                                       *)
LEMMA TerminatorOwned == ASSUME Standing, OwnedNow, RowTerminator PROVE OwnedNow'
<1>1. PICK seen, consumed, look : RowEnded(seen, consumed, look) /\ pos' = consumed
  BY DEF RowTerminator, RowEnded
<1>2. \/ OutOfMemory
      \/ \E at : Malformed(at)
      \/ \E what, b, e : Refuse(what, b, e)
      \/ Becomes(SetTop(stack, WithRow(Top, consumed)), items, nodes)
  BY <1>1 DEF RowEnded
<1>3. IInv /\ Top.role = "CELL" BY DEF Standing, RowTerminator
<1>4. consumed \in Nat
  <2>1. Poised BY RowTerminatorMoves
  <2> QED BY <1>1, <2>1, PoisedParts
<1>5. CASE Becomes(SetTop(stack, WithRow(Top, consumed)), items, nodes)
  BY <1>3, <1>4, <1>5, RowOwned, BecomesOwned
<1> QED BY <1>2, <1>5, StoppedOwned

(* What is under a top frame, whatever the frame.                          *)
LEMMA BelowTop ==
  ASSUME NEW stk \in Seq(FrameType), stk # << >>, NEW g \in FrameType
  PROVE  Below(SetTop(stk, g)) = Below(stk)
<1> DEFINE n == Len(stk)
           s == SetTop(stk, g)
<1>1. s \in Seq(FrameType) /\ Len(s) = n /\ \A i \in 1 .. n - 1 : s[i] = stk[i] BY SetTopTyped
<1>2. n \in Nat /\ n > 0 OBVIOUS
<1> HIDE DEF s
<1>3. Below(s) = [i \in 1 .. n - 1 |-> s[i]] BY <1>1, <1>2 DEF Below
<1>4. Below(stk) = [i \in 1 .. n - 1 |-> stk[i]] BY <1>2 DEF Below
<1> HIDE DEF n
<1>5. [i \in 1 .. n - 1 |-> s[i]] = [i \in 1 .. n - 1 |-> stk[i]] BY <1>1
<1> QED BY <1>3, <1>4, <1>5 DEF s

(* The rows of an environment go to its array.                             *)
LEMMA EnvironmentOwned ==
  ASSUME Standing, OwnedNow, NEW name \in Named, EndEnvironment(name) PROVE OwnedNow'
<1> DEFINE last  == LastRow(Top)
           rows  == last.rows
           strut == Strut(Top)
           base  == Node("ARRAY", Top.open)
           node  == [base EXCEPT !.rows = rows, !.strut = strut]
           field == NodeField("ARRAY", Len(nodes) + 1, Top.open, pos + 2)
           nds   == Append(nodes, node)
<1>1. /\ ScanNamed("\\end", name) /\ MathRules(Top) /\ Idle(Top)
      /\ \/ \E what : Fail(what)
         \/ BadName
         \/ \E what, b, e : Refuse(what, b, e)
         \/ OutOfMemory
         \/ /\ Top.role = "CELL"
            /\ \E class : Deliver(Below(stack), items, nds, field, class)
  BY DEF EndEnvironment
<1>2. CASE /\ Top.role = "CELL"
           /\ \E class : Deliver(Below(stack), items, nds, field, class)
  <2>0. IInv /\ Poised BY <1>1, NamedEntered DEF Standing
  <2>1. /\ stack \in Seq(FrameType) /\ stack # << >> /\ items \in Seq(Item)
        /\ nodes \in Seq(Built) /\ Top \in FrameType /\ Top = stack[Len(stack)]
    BY <2>0, TopParts
  <2>2. Top.cellStart \in Nat BY <2>1 DEF FrameType
  <2>3. /\ last \in FrameType /\ last.list = << >> /\ last.cells = << >>
        /\ Owned(SetTop(stack, last), items, nodes, << >>)
    <3>1. CASE Top.cells # << >> \/ Top.list # << >>
      BY <1>2, <2>0, <2>2, <3>1, RowOwned DEF LastRow
    <3>2. CASE Top.cells = << >> /\ Top.list = << >>
      <4>1. last = Top BY <3>2 DEF LastRow
      <4>2. SetTop(stack, Top) = stack BY <2>1, TopStill
      <4> QED BY <2>1, <3>2, <4>1, <4>2 DEF OwnedNow
    <3> QED BY <3>1, <3>2
  <2> HIDE DEF last
  <2>4. rows \in Seq(Seq(Cell)) BY <2>3 DEF FrameType
  <2>5. strut \in Struts BY DEF Strut, Struts
  <2>6. /\ base \in Built /\ base.kind = "ARRAY" /\ base.list = << >>
        /\ base.first.list = << >> /\ base.last.list = << >>
    <3>1. base \in Built BY <2>0, TopParts, NodeTyped
    <3> QED BY <3>1 DEF Node, Empty
  <2>7. field \in Field /\ field.kind # "EMPTY" /\ field.list = << >>
    <3>1. "ARRAY" \in FieldKinds /\ Len(nodes) + 1 \in Nat BY <2>0, TopParts DEF FieldKinds
    <3>2. field \in Field BY <2>0, <3>1, TopParts, NodeFieldTyped
    <3> QED BY <3>2 DEF NodeField, Empty
  <2> HIDE DEF rows, strut, base, field
  <2>8. /\ node \in Built /\ node.kind = "ARRAY" /\ node.rows = rows /\ node.list = << >>
        /\ node.first = base.first /\ node.last = base.last
    BY <2>4, <2>5, <2>6 DEF Built
  <2> HIDE DEF node
  <2>9. Hollow(NodeFields(node)) /\ Finished(node)
    BY <2>6, <2>8 DEF Hollow, NodeFields, Finished
  <2>10. Ready(Below(stack), items, nodes, pos', 0)
    BY <1>1, <1>2, <2>0, ClosedReady DEF MathRules
  <2>11. pos' \in Nat BY <2>0, PoisedParts
  <2>12. Ready(Below(stack), items, nds, pos', Len(nodes) + 1)
    BY <2>8, <2>9, <2>10, <2>11, LooseReady
  <2> DEFINE stk == SetTop(stack, last)
  <2>13. /\ stk \in Seq(FrameType) /\ stk # << >> /\ stk[Len(stk)] = last
    <3>1. /\ stk \in Seq(FrameType) /\ stk # << >> /\ Len(stk) = Len(stack)
          /\ stk[Len(stack)] = last
      BY <2>1, <2>3, SetTopTyped
    <3> QED BY <3>1
  <2>14. Below(stk) = Below(stack) BY <2>1, <2>3, BelowTop
  <2> HIDE DEF stk
  <2>15. Owned(Below(stk), items, nds, << >>)
    BY <2>1, <2>3, <2>6, <2>8, <2>9, <2>13, OwnedArray DEF stk, rows
  <2> HIDE DEF nds
  <2>16. Owned(Below(stack), items, nds, field.list) BY <2>7, <2>14, <2>15
  <2> QED BY <1>2, <2>7, <2>12, <2>16, DeliverOwned
<1> QED BY <1>1, <1>2, StoppedOwned

(* An item without a list is linked.                                       *)
LEMMA BareLinked ==
  ASSUME Poised, NEW its \in Seq(Item), NEW nds, NEW loose, Owned(stack, its, nds, loose),
         NEW item, item.nucleus.list = loose, item.sup.list = << >>, item.sub.list = << >>,
         item.nucleus.kind = "EMPTY" => loose = << >>
  PROVE  Owned(Linked(stack, its), Append(its, item), nds, << >>)
<1>1. Hollow(FieldsOf(item)) BY DEF Hollow, FieldsOf
<1>2. stack \in Seq(FrameType) /\ stack # << >> BY PoisedParts
<1> QED BY <1>1, <1>2, OwnedLinked

(* The top frame with one more item, turned.                               *)
LEMMA LinkedTurned ==
  ASSUME Poised, NEW its, NEW nds, Owned(Linked(stack, items), its, nds, << >>),
         NEW g, LET f == [Top EXCEPT !.list = Append(@, Len(items) + 1)] IN
                  g.role = f.role /\ g.list = f.list /\ g.cells = f.cells /\ g.rows = f.rows
  PROVE  Owned(SetTop(Linked(stack, items), g), its, nds, << >>)
<1> DEFINE f == [Top EXCEPT !.list = Append(@, Len(items) + 1)]
           stk == Linked(stack, items)
<1>1. stk = SetTop(stack, f) /\ stk[Len(stk)] = f /\ f \in FrameType BY LinkedTop
<1>2. stk \in Seq(FrameType) /\ stk # << >> BY <1>1, PoisedParts, SetTopTyped
<1>3. g.role = f.role /\ g.list = f.list /\ g.cells = f.cells /\ g.rows = f.rows OBVIOUS
<1> HIDE DEF f, stk
<1>4. Owned(stk, its, nds, << >>) BY DEF stk
<1>5. Owned(SetTop(stk, g), its, nds, << >>) BY <1>1, <1>2, <1>3, <1>4, OwnedStill
<1> QED BY <1>5 DEF stk

(* A script mark.                                                          *)
LEMMA MarkOwned ==
  ASSUME Standing, OwnedNow, NEW t \in Alphabet, ScriptMark(t) PROVE OwnedNow'
<1> DEFINE kind == IF t = "^" THEN "SUP" ELSE "SUB"
           m(target) == [kind |-> kind, target |-> target, mark |-> pos]
           atom == Atom("ORD", Empty(pos))
           f    == Top
           f2   == [Top EXCEPT !.list = Append(@, Len(items) + 1)]
           g1   == [f EXCEPT !.pending = m(Tail1(Top))]
           g2   == [f2 EXCEPT !.pending = m(Len(items) + 1)]
           stk  == Linked(stack, items)
<1>1. Scan(t) BY DEF ScriptMark, Allowed, MathToken
<1>2. Poised BY <1>1, AlphabetRead, TokenPoised
<1>3. stk[Len(stk)] = f2 /\ f2 \in FrameType BY <1>2, LinkedTop
<1>4. \/ \E what : Fail(what)
      \/ Becomes(SetTop(stack, g1), items, nodes)
      \/ OutOfMemory
      \/ Becomes(SetTop(stk, g2), Append(items, atom), nodes)
  BY <1>3 DEF ScriptMark, Top
<1>5. f \in FrameType /\ IInv /\ items \in Seq(Item) BY <1>2, PoisedParts, TopParts
<1>6. /\ atom.nucleus.list = << >> /\ atom.sup.list = << >> /\ atom.sub.list = << >>
  BY DEF Atom, Empty
<1> HIDE DEF atom, f, f2, m, kind
<1>7. /\ g1.role = f.role /\ g1.list = f.list /\ g1.cells = f.cells /\ g1.rows = f.rows
      /\ g2.role = f2.role /\ g2.list = f2.list /\ g2.cells = f2.cells /\ g2.rows = f2.rows
  BY <1>3, <1>5, ListsKept
<1> HIDE DEF g1, g2
<1>8. CASE Becomes(SetTop(stack, g1), items, nodes)
  <2>1. Owned(SetTop(stack, g1), items, nodes, << >>)
    BY <1>5, <1>7, TurnedOwned DEF OwnedNow, f
  <2> QED BY <1>8, <2>1, BecomesOwned
<1>9. CASE Becomes(SetTop(stk, g2), Append(items, atom), nodes)
  <2>1. Owned(stk, Append(items, atom), nodes, << >>)
    BY <1>2, <1>5, <1>6, BareLinked DEF OwnedNow
  <2>2. Owned(SetTop(stk, g2), Append(items, atom), nodes, << >>)
    BY <1>2, <1>7, <2>1, LinkedTurned DEF f2
  <2> QED BY <1>9, <2>2, BecomesOwned
<1> QED BY <1>4, <1>8, <1>9, StoppedOwned

(* A command starts to collect.                                            *)
LEMMA CollectOwned ==
  ASSUME Poised, NEW kind, NEW face, NEW node, NEW nds, Owned(stack, items, nds, << >>),
         CollectBegin(kind, face, node, nds)
  PROVE  OwnedNow'
<1> DEFINE collect == [NoCollect EXCEPT !.kind = kind, !.begin = pos, !.node = node,
                                        !.face = face]
           class   == IF kind = "FRACTION" THEN "INNER" ELSE "ORD"
           atom    == Atom(class, Empty(pos))
           eager   == [atom EXCEPT !.sup = Empty(pos + 1), !.sub = Empty(pos + 1),
                                   !.end = pos + 1]
           f       == Top
           f2      == [Top EXCEPT !.list = Append(@, Len(items) + 1)]
           c1      == [collect EXCEPT !.script = Top.pending]
           c2      == [collect EXCEPT !.item = Len(items) + 1]
           g1      == [f EXCEPT !.pending = NoScript, !.collect = c1]
           g2      == [f2 EXCEPT !.collect = c2]
           stk     == Linked(stack, items)
<1>1. stk[Len(stk)] = f2 /\ f2 \in FrameType BY LinkedTop
<1>2. \/ Becomes(SetTop(stack, g1), items, nds)
      \/ Becomes(SetTop(stk, g2), Append(items, eager), nds)
  BY <1>1 DEF CollectBegin
<1>3. f \in FrameType /\ IInv /\ items \in Seq(Item) BY PoisedParts, TopParts
<1>4. eager.nucleus.list = << >> /\ eager.sup.list = << >> /\ eager.sub.list = << >>
  BY DEF Atom, Empty
<1> HIDE DEF eager, f, f2, c1, c2
<1>5. /\ g1.role = f.role /\ g1.list = f.list /\ g1.cells = f.cells /\ g1.rows = f.rows
      /\ g2.role = f2.role /\ g2.list = f2.list /\ g2.cells = f2.cells /\ g2.rows = f2.rows
  BY <1>1, <1>3, ListsKept
<1> HIDE DEF g1, g2
<1>6. CASE Becomes(SetTop(stack, g1), items, nds)
  <2>1. Owned(SetTop(stack, g1), items, nds, << >>) BY <1>3, <1>5, TurnedOwned DEF f
  <2> QED BY <1>6, <2>1, BecomesOwned
<1>7. CASE Becomes(SetTop(stk, g2), Append(items, eager), nds)
  <2>1. Owned(stk, Append(items, eager), nds, << >>) BY <1>3, <1>4, BareLinked
  <2>2. Owned(SetTop(stk, g2), Append(items, eager), nds, << >>)
    BY <1>5, <2>1, LinkedTurned DEF f2
  <2> QED BY <1>7, <2>2, BecomesOwned
<1> QED BY <1>2, <1>6, <1>7

(* A style switch or a construct begins.                                   *)
LEMMA CommandOwned ==
  ASSUME Standing, OwnedNow, NEW t \in Alphabet, StyleCommand(t) \/ ConstructCommand(t)
  PROVE  OwnedNow'
<1>1. Scan(t) BY DEF StyleCommand, ConstructCommand, Allowed, MathToken
<1>2. Poised BY <1>1, AlphabetRead, TokenPoised
<1>3. CASE StyleCommand(t)
  <2>1. OutOfMemory \/ CollectBegin("STYLE", FaceOf(t), 0, nodes) BY <1>3 DEF StyleCommand
  <2> QED BY <1>2, <2>1, CollectOwned, StoppedOwned DEF OwnedNow
<1>4. CASE ConstructCommand(t)
  <2> DEFINE node == Node(CollectorOf(t), pos + 1)
             nds  == Append(nodes, node)
  <2>1. OutOfMemory \/ CollectBegin(CollectorOf(t), "NONE", Len(nodes) + 1, nds)
    BY <1>4 DEF ConstructCommand
  <2>2. /\ node.list = << >> /\ node.rows = << >>
        /\ node.first.list = << >> /\ node.last.list = << >>
    BY DEF Node, Empty
  <2> HIDE DEF node
  <2>3. Hollow(NodeFields(node)) BY <2>2 DEF Hollow, NodeFields
  <2>4. items \in Seq(Item) /\ nodes \in Seq(Built) BY <1>2, PoisedParts, TopParts
  <2>5. Owned(stack, items, nds, << >>) BY <2>2, <2>3, <2>4, OwnedBuilt DEF OwnedNow
  <2> HIDE DEF nds
  <2> QED BY <1>2, <2>1, <2>5, CollectOwned, StoppedOwned
<1> QED BY <1>3, <1>4

(* An item whose fields stay owns what it owned.                           *)
LEMMA OwnedAmended ==
  ASSUME NEW stk, NEW its \in Seq(Item), NEW nds, NEW loose, Owned(stk, its, nds, loose),
         NEW k \in DOMAIN its, NEW v,
         v.nucleus = its[k].nucleus, v.sup = its[k].sup, v.sub = its[k].sub
  PROVE  Owned(stk, [its EXCEPT ![k] = v], nds, loose)
<1> DEFINE its2 == [its EXCEPT ![k] = v]
           H == Shelf(stk, its, nds, loose)
           H2 == Shelf(stk, its2, nds, loose)
<1>1. \A q : OfItem(v, q) = OfItem(its[k], q) BY DEF OfItem, PartList
<1>2. \A q : ItemsAt(its2, q) = ItemsAt(its, q) BY <1>1, ItemsSet
<1>3. H2 = H BY <1>2 DEF Shelf
<1>4. FieldsOf(v) = FieldsOf(its[k]) BY DEF FieldsOf
<1>5. \A i \in DOMAIN its2 : Hollow(FieldsOf(its2[i]))
  <2>1. \A i \in DOMAIN its : Hollow(FieldsOf(its[i])) BY DEF Owned
  <2> QED BY <1>4, <2>1
<1>6. Len(its2) = Len(its) OBVIOUS
<1> HIDE DEF H, H2, its2
<1>7. Shelved(H, Len(its)) BY DEF Owned, H
<1>8. Shelved(H2, Len(its2)) BY <1>3, <1>6, <1>7
<1>9. Owned(stk, its2, nds, loose) BY <1>5, <1>8 DEF Owned, H2
<1> QED BY <1>9 DEF its2

(* \limits and \nolimits change no list.                                   *)
LEMMA LimitsOwned ==
  ASSUME Standing, OwnedNow, NEW t \in Alphabet, LimitsCommand(t) PROVE OwnedNow'
<1> DEFINE k    == Tail1(Top)
           old  == items[k]
           item == [old EXCEPT !.limits = LimitsOf(t), !.end = pos + 1]
<1>1. \/ \E what : Fail(what)
      \/ HasAtomTail(Top) /\ Becomes(stack, [items EXCEPT ![k] = item], nodes)
  BY DEF LimitsCommand
<1>2. IInv BY DEF Standing
<1>3. items \in Seq(Item) /\ \A j \in DOMAIN Top.list : Top.list[j] \in DOMAIN items
  BY <1>2, TopParts
<1>4. CASE HasAtomTail(Top) /\ Becomes(stack, [items EXCEPT ![k] = item], nodes)
  <2>1. k \in DOMAIN items
    <3>1. Top.list # << >> /\ Top.list \in Seq(Nat) BY <1>2, <1>4, TopParts DEF HasAtomTail
    <3>2. Len(Top.list) \in DOMAIN Top.list BY <3>1
    <3> QED BY <1>3, <3>2 DEF Tail1
  <2>2. old \in Item BY <1>3, <2>1
  <2> HIDE DEF k, old
  <2>3. item.nucleus = old.nucleus /\ item.sup = old.sup /\ item.sub = old.sub
    BY <2>2 DEF Item
  <2> HIDE DEF item
  <2>4. Owned(stack, [items EXCEPT ![k] = item], nodes, << >>)
    BY <1>3, <2>1, <2>3, OwnedAmended DEF OwnedNow, old
  <2> QED BY <1>4, <2>4, BecomesOwned
<1> QED BY <1>1, <1>4, StoppedOwned

(* An operator, and the letter a function name is a list of.               *)
LEMMA OperatorOwned ==
  ASSUME Standing, OwnedNow, NEW t \in Alphabet, Operator(t) PROVE OwnedNow'
<1> DEFINE glyph   == Glyph(t, "FIXED")
           letter  == Atom("ORD", glyph)
           its     == IF t \in Functions THEN Append(items, letter) ELSE items
           nucleus == IF t \in Functions THEN ListField(<<Len(its)>>, pos, pos + 1) ELSE glyph
           base    == Atom("OP", nucleus)
           op      == [base EXCEPT !.limits = LimitsOf(t)]
           arg     == ListField(<<Len(its) + 1>>, pos, pos + 1)
<1>1. /\ Scan(t) /\ MathRules(Top)
      /\ \/ OutOfMemory
         \/ ~Idle(Top) /\ Deliver(stack, Append(its, op), nodes, arg, "ORD")
         \/ Idle(Top) /\ Becomes(Linked(stack, its), Append(its, op), nodes)
  BY DEF Operator, Allowed, MathToken
<1>2. Poised BY <1>1, AlphabetRead, TokenPoised
<1>3. IInv BY DEF Standing
<1>4. "FIXED" \in Faces /\ "ORD" \in Classes /\ "OP" \in Classes BY DEF Faces, Classes
<1>5. glyph \in Field BY <1>3, <1>4, GlyphTyped
<1>6. glyph.kind # "EMPTY" /\ glyph.list = << >> BY DEF Glyph, CharField, Empty
<1> HIDE DEF glyph
<1>7. /\ letter \in Item /\ letter.nucleus = glyph
      /\ letter.sup.list = << >> /\ letter.sub.list = << >>
      /\ letter.sup.kind = "EMPTY" /\ letter.sub.kind = "EMPTY"
  <2>1. letter \in Item BY <1>4, <1>5, AtomTyped
  <2> QED BY <2>1 DEF Atom, Empty
<1> HIDE DEF letter
<1>8. /\ Whole(letter) /\ Hollow(FieldsOf(letter)) /\ letter.nucleus.list = << >>
  BY <1>6, <1>7 DEF Whole, Hollow, FieldsOf
<1>9. 0 \notin DOMAIN nodes /\ pos' \in Nat /\ items \in Seq(Item) /\ nodes \in Seq(Built)
  <2>1. nodes \in Seq(Built) BY <1>3, TopParts
  <2> QED BY <1>2, <1>3, <2>1, PoisedParts, TopParts
<1>10. Ready(stack, items, nodes, pos', 0) BY <1>1, <1>2, <1>9, PoisedParts DEF Ready
<1>11. Ready(stack, its, nodes, pos', 0) BY <1>7, <1>8, <1>9, <1>10, LooseItems
<1>12. its \in Seq(Item) /\ Owned(stack, its, nodes, nucleus.list)
  <2>1. CASE t \in Functions
    <3>1. Len(Append(items, letter)) = Len(items) + 1 /\ Append(items, letter) \in Seq(Item)
      BY <1>7, <1>9
    <3>2. nucleus.list = <<Len(its)>> BY <2>1 DEF ListField, Empty
    <3>3. Owned(stack, Append(items, letter), nodes, <<Len(items) + 1>>)
      BY <1>7, <1>8, <1>9, OwnedInHand DEF OwnedNow
    <3> QED BY <2>1, <3>1, <3>2, <3>3
  <2>2. CASE t \notin Functions BY <1>6, <1>9, <2>2 DEF OwnedNow
  <2> QED BY <2>1, <2>2
<1> HIDE DEF its
<1>13. Len(its) \in Nat /\ <<Len(its)>> \in Seq(Nat) /\ <<Len(its) + 1>> \in Seq(Nat)
  <2>1. Len(its) \in Nat /\ Len(its) + 1 \in Nat BY <1>12
  <2> QED BY <2>1
<1>14. /\ nucleus \in Field /\ nucleus.kind # "EMPTY"
       /\ arg \in Field /\ arg.kind # "EMPTY" /\ arg.list = <<Len(its) + 1>>
  <2>1. ListField(<<Len(its)>>, pos, pos + 1) \in Field BY <1>3, <1>13, TopParts, ListTyped
  <2>2. ListField(<<Len(its)>>, pos, pos + 1).kind = "LIST" BY DEF ListField, Empty
  <2>3. arg \in Field BY <1>3, <1>13, TopParts, ListTyped
  <2>4. arg.kind = "LIST" /\ arg.list = <<Len(its) + 1>> BY DEF ListField, Empty
  <2> QED BY <1>5, <1>6, <2>1, <2>2, <2>3, <2>4
<1> HIDE DEF nucleus, arg
<1>15. /\ base \in Item /\ base.nucleus = nucleus
       /\ base.sup.list = << >> /\ base.sub.list = << >>
       /\ base.sup.kind = "EMPTY" /\ base.sub.kind = "EMPTY"
  <2>1. base \in Item BY <1>4, <1>14, AtomTyped
  <2> QED BY <2>1 DEF Atom, Empty
<1> HIDE DEF base
<1>16. op \in Item /\ op.nucleus = nucleus /\ op.sup = base.sup /\ op.sub = base.sub
  <2>1. LimitsOf(t) \in {"DISPLAY", "ALWAYS", "NEVER"} BY DEF LimitsOf
  <2> QED BY <1>15, <2>1 DEF Item
<1> HIDE DEF op
<1>17. /\ Whole(op) /\ Hollow(FieldsOf(op)) /\ op.nucleus.list = nucleus.list
       /\ op.sup.list = << >> /\ op.sub.list = << >>
  BY <1>14, <1>15, <1>16 DEF Whole, Hollow, FieldsOf
<1>18. CASE Deliver(stack, Append(its, op), nodes, arg, "ORD")
  <2>1. Ready(stack, Append(its, op), nodes, pos', 0)
    BY <1>9, <1>11, <1>16, <1>17, LooseItems
  <2>2. Owned(stack, Append(its, op), nodes, arg.list)
    BY <1>12, <1>14, <1>17, OwnedInHand
  <2> QED BY <1>14, <1>18, <2>1, <2>2, DeliverOwned
<1>19. CASE Becomes(Linked(stack, its), Append(its, op), nodes)
  <2>1. stack \in Seq(FrameType) /\ stack # << >> BY <1>2, PoisedParts
  <2>2. Owned(Linked(stack, its), Append(its, op), nodes, << >>)
    BY <1>12, <1>17, <2>1, OwnedLinked
  <2> QED BY <1>19, <2>2, BecomesOwned
<1> QED BY <1>1, <1>18, <1>19, StoppedOwned

(* Every handler keeps who owns what.                                      *)
LEMMA NextOwned == ASSUME Standing, OwnedNow, Next PROVE OwnedNow'
<1>1. CASE \/ Accept \/ EndTooEarly \/ ScanError \/ ParagraphBreak \/ UnmatchedBrace
           \/ MisplacedRow
           \/ \E t \in Alphabet : MissingDelimiter(t) \/ MissingArgument(t) \/ Unsupported(t)
  BY <1>1, RefusedOwned
<1>2. CASE \/ MathBlank \/ WordSpace
           \/ \E t \in Alphabet : TextGlyph(t) \/ SpacingCommand(t)
  BY <1>2, TextOwned
<1>3. CASE \/ OpenIndex \/ OpenGroup \/ \E t \in Alphabet : OpenFence(t)
           \/ \E name \in Named : BeginEnvironment(name)
  BY <1>3, OpenOwned
<1>4. CASE CloseText \/ CloseGroup \/ CloseScript BY <1>4, BraceOwned
<1>5. CASE CloseIndex BY <1>5, IndexOwned
<1>6. CASE AlignmentTab BY <1>6, TabOwned
<1>7. CASE RowTerminator BY <1>7, TerminatorOwned
<1>8. ASSUME NEW name \in Named, EndEnvironment(name) PROVE OwnedNow'
  BY <1>8, EnvironmentOwned
<1>9. ASSUME NEW t \in Alphabet, CloseFence(t) PROVE OwnedNow' BY <1>9, FenceOwned
<1>10. ASSUME NEW t \in Alphabet, AskForDelimiter(t) \/ SizedDelimiter(t) PROVE OwnedNow'
  BY <1>10, DelimiterOwned
<1>11. ASSUME NEW t \in Alphabet, ScriptMark(t) PROVE OwnedNow' BY <1>11, MarkOwned
<1>12. ASSUME NEW t \in Alphabet, StyleCommand(t) \/ ConstructCommand(t) PROVE OwnedNow'
  BY <1>12, CommandOwned
<1>13. ASSUME NEW t \in Alphabet, Operator(t) PROVE OwnedNow' BY <1>13, OperatorOwned
<1>14. ASSUME NEW t \in Alphabet, LimitsCommand(t) PROVE OwnedNow' BY <1>14, LimitsOwned
<1>15. ASSUME NEW t \in Alphabet, GlyphToken(t) PROVE OwnedNow' BY <1>15, GlyphOwned
<1> QED
  BY <1>1, <1>2, <1>3, <1>4, <1>5, <1>6, <1>7, <1>8, <1>9, <1>10, <1>11, <1>12, <1>13,
     <1>14, <1>15
  DEF Next

(* The parse starts with no item.                                          *)
LEMMA InitOwned == Init => OwnedNow
<1> SUFFICES ASSUME Init PROVE OwnedNow OBVIOUS
<1> DEFINE f == Frame("ROOT", "NONE", FALSE, 0)
           H == Shelf(stack, items, nodes, << >>)
<1>1. stack = <<f>> /\ items = << >> /\ nodes = << >> BY DEF Init
<1>2. f.list = << >> /\ f.cells = << >> /\ f.rows = << >> BY DEF Frame
<1> HIDE DEF f
<1>3. \A i \in DOMAIN stack : stack[i] = f BY <1>1
<1>4. ASSUME NEW q, q[1] \in FrameParts PROVE FramesAt(stack, q) = << >>
  <2>1. OfFrame(f, q) = << >> BY <1>2, <1>4, OfBare DEF Single
  <2> QED BY <1>3, <2>1 DEF FramesAt
<1>5. \A q : ItemsAt(items, q) = << >> /\ NodesAt(nodes, q) = << >>
  BY <1>1 DEF ItemsAt, NodesAt
<1>6. ASSUME NEW q \in Places PROVE H[q] = << >>
  <2> HIDE DEF H
  <2>1. CASE q[1] \in FrameParts BY <1>4, <2>1, ShelfIs DEF H
  <2>2. CASE q[1] \in ItemParts BY <1>5, <2>2, ShelfIs DEF H
  <2>3. CASE q[1] \in NodeParts BY <1>5, <2>3, ShelfIs DEF H
  <2>4. CASE q[1] = "loose" BY <2>4, ShelfIs DEF H
  <2> QED BY <2>1, <2>2, <2>3, <2>4, ShelfIs
<1> HIDE DEF H, Places
<1>7. Shelved(H, 0)
  <2>0. << >> \in Seq(1 .. 0) OBVIOUS
  <2>1. \A q \in Places : H[q] \in Seq(1 .. 0)
    <3> HIDE DEF H
    <3> QED BY <1>6, <2>0, ZenonT(20)
  <2>2. \A q \in Places : DOMAIN H[q] = {} BY <1>6
  <2>3. 1 .. 0 = {} OBVIOUS
  <2> QED BY <2>1, <2>2, <2>3 DEF Shelved
<1>8. Len(items) = 0 /\ DOMAIN items = {} /\ DOMAIN nodes = {} BY <1>1
<1>9. \A i \in DOMAIN stack : Cellless(stack[i]) BY <1>2, <1>3 DEF Cellless
<1> QED BY <1>7, <1>8, <1>9 DEF OwnedNow, Owned, H

(* The lists of rows, by their places.                                     *)
LEMMA RowListsIs ==
  ASSUME NEW w \in Parts, NEW k \in Nat, NEW rows \in Seq(Seq(Cell))
  PROVE  /\ \A l \in RowLists(w, k, rows) :
              /\ l.at \in Places /\ l.at[1] = w /\ l.at[2] = k
              /\ l.list = CellAt(rows, l.at[3], l.at[4])
         /\ \A q \in Places :
              q[1] = w /\ q[2] = k /\ CellAt(rows, q[3], q[4]) # << >> =>
                \E l \in RowLists(w, k, rows) :
                  l.at = q /\ l.list = CellAt(rows, q[3], q[4])
<1>1. \A r \in DOMAIN rows : r \in Nat /\ rows[r] \in Seq(Cell) OBVIOUS
<1>2. \A r \in DOMAIN rows : \A c \in DOMAIN rows[r] : c \in Nat
  <2> SUFFICES ASSUME NEW r \in DOMAIN rows, NEW c \in DOMAIN rows[r] PROVE c \in Nat OBVIOUS
  <2>1. rows[r] \in Seq(Cell) BY <1>1
  <2> QED BY <2>1
<1> HIDE DEF Parts, Places
<1>3. ASSUME NEW l \in RowLists(w, k, rows)
      PROVE  /\ l.at \in Places /\ l.at[1] = w /\ l.at[2] = k
             /\ l.list = CellAt(rows, l.at[3], l.at[4])
  <2>1. PICK rc \in CellsOf(rows) :
          l = [at |-> <<w, k, rc[1], rc[2]>>, list |-> rows[rc[1]][rc[2]].list]
    BY <1>3 DEF RowLists
  <2>2. PICK r \in DOMAIN rows : \E c \in DOMAIN rows[r] : rc = <<r, c>>
    BY <2>1 DEF CellsOf
  <2>3. PICK c \in DOMAIN rows[r] : rc = <<r, c>> BY <2>2
  <2>4. l.at = <<w, k, r, c>> /\ l.list = rows[r][c].list BY <2>1, <2>3
  <2>5. r \in Nat /\ c \in Nat BY <1>1, <1>2
  <2>6. /\ l.at \in Places /\ l.at[1] = w /\ l.at[2] = k /\ l.at[3] = r /\ l.at[4] = c
    BY <2>4, <2>5, PlaceIs
  <2> QED BY <2>4, <2>6 DEF CellAt
<1>4. ASSUME NEW q \in Places, q[1] = w, q[2] = k, CellAt(rows, q[3], q[4]) # << >>
      PROVE  \E l \in RowLists(w, k, rows) : l.at = q /\ l.list = CellAt(rows, q[3], q[4])
  <2> DEFINE r == q[3]
             c == q[4]
             l == [at |-> <<w, k, r, c>>, list |-> rows[r][c].list]
  <2>1. r \in DOMAIN rows /\ c \in DOMAIN rows[r] /\ CellAt(rows, r, c) = rows[r][c].list
    BY <1>4 DEF CellAt
  <2>2. <<r, c>> \in CellsOf(rows) BY <2>1 DEF CellsOf
  <2>3. <<r, c>>[1] = r /\ <<r, c>>[2] = c OBVIOUS
  <2>4. r \in Nat /\ c \in Nat BY <1>1, <1>2, <2>1
  <2>5. <<w, k, r, c>> = q
    <3> DEFINE a == <<w, k, r, c>>
    <3>1. a \in Places /\ a[1] = w /\ a[2] = k /\ a[3] = r /\ a[4] = c
      <4> HIDE DEF r, c
      <4> QED BY <2>4, PlaceIs
    <3> HIDE DEF a
    <3>2. a = q BY <1>4, <3>1, PlaceIs
    <3> QED BY <3>2 DEF a
  <2>6. l \in RowLists(w, k, rows) BY <2>2, <2>3 DEF RowLists
  <2> QED BY <2>1, <2>5, <2>6
<1> QED BY <1>3, <1>4

(* The list of a field, by its place.                                      *)
LEMMA FieldListIs ==
  ASSUME NEW w \in Parts, NEW k \in Nat, NEW field
  PROVE  LET l == FieldList(w, k, field) IN
           /\ l.at \in Places /\ l.at[1] = w /\ l.at[2] = k
           /\ l.list = Single(l.at, field.list)
           /\ \A q \in Places :
                q[1] = w /\ q[2] = k /\ Single(q, field.list) # << >> =>
                  l.at = q /\ l.list = Single(q, field.list)
<1> DEFINE a == <<w, k, 0, 0>>
           l == FieldList(w, k, field)
<1> HIDE DEF Parts, Places
<1>1. a \in Places /\ a[1] = w /\ a[2] = k /\ a[3] = 0 /\ a[4] = 0 BY PlaceIs
<1>2. l.at = a /\ l.list = field.list BY DEF FieldList
<1> HIDE DEF a, l
<1>3. l.list = Single(l.at, field.list) BY <1>1, <1>2 DEF Single
<1>4. ASSUME NEW q \in Places, q[1] = w, q[2] = k, Single(q, field.list) # << >>
      PROVE  l.at = q /\ l.list = Single(q, field.list)
  <2>1. q[3] = 0 /\ q[4] = 0 BY <1>4 DEF Single
  <2>2. q = a BY <1>1, <1>4, <2>1, PlaceIs
  <2> QED BY <1>2, <1>3, <2>2
<1> QED BY <1>1, <1>2, <1>3, <1>4 DEF l

(* The lists the parser holds, by kind.                                    *)
LEMMA ListsAre ==
  \A l : l \in Lists <=>
    \/ \E k \in DOMAIN stack :
         \/ l = FieldList("frame", k, stack[k])
         \/ l \in RowLists("cells", k, <<stack[k].cells>>)
         \/ l \in RowLists("rows", k, stack[k].rows)
    \/ \E k \in DOMAIN items :
         \/ l = FieldList("nucleus", k, items[k].nucleus)
         \/ l = FieldList("sup", k, items[k].sup)
         \/ l = FieldList("sub", k, items[k].sub)
    \/ \E k \in DOMAIN nodes :
         \/ l = FieldList("first", k, nodes[k].first)
         \/ l = FieldList("last", k, nodes[k].last)
         \/ l = FieldList("fence", k, nodes[k])
         \/ l \in RowLists("array", k, nodes[k].rows)
<1> DEFINE A(k) == {FieldList("frame", k, stack[k])} \cup RowLists("cells", k, <<stack[k].cells>>)
                     \cup RowLists("rows", k, stack[k].rows)
           B(k) == {FieldList("nucleus", k, items[k].nucleus), FieldList("sup", k, items[k].sup),
                    FieldList("sub", k, items[k].sub)}
           C(k) == {FieldList("first", k, nodes[k].first), FieldList("last", k, nodes[k].last),
                    FieldList("fence", k, nodes[k])} \cup RowLists("array", k, nodes[k].rows)
           a == UNION {A(k) : k \in DOMAIN stack}
           b == UNION {B(k) : k \in DOMAIN items}
           c == UNION {C(k) : k \in DOMAIN nodes}
<1>1. Lists = a \cup (b \cup c) BY DEF Lists
<1>2. \A k, l : l \in A(k) <=> \/ l = FieldList("frame", k, stack[k])
                              \/ l \in RowLists("cells", k, <<stack[k].cells>>)
                              \/ l \in RowLists("rows", k, stack[k].rows)
  OBVIOUS
<1>3. \A k, l : l \in B(k) <=> \/ l = FieldList("nucleus", k, items[k].nucleus)
                              \/ l = FieldList("sup", k, items[k].sup)
                              \/ l = FieldList("sub", k, items[k].sub)
  OBVIOUS
<1>4. \A k, l : l \in C(k) <=> \/ l = FieldList("first", k, nodes[k].first)
                              \/ l = FieldList("last", k, nodes[k].last)
                              \/ l = FieldList("fence", k, nodes[k])
                              \/ l \in RowLists("array", k, nodes[k].rows)
  OBVIOUS
<1> HIDE DEF A, B, C
<1>5. ASSUME NEW l
      PROVE  l \in Lists <=>
               \/ \E k \in DOMAIN stack : l \in A(k)
               \/ \E k \in DOMAIN items : l \in B(k)
               \/ \E k \in DOMAIN nodes : l \in C(k)
  <2>1. l \in a <=> \E k \in DOMAIN stack : l \in A(k) OBVIOUS
  <2>2. l \in b <=> \E k \in DOMAIN items : l \in B(k) OBVIOUS
  <2>3. l \in c <=> \E k \in DOMAIN nodes : l \in C(k) OBVIOUS
  <2> HIDE DEF a, b, c, Lists
  <2>4. l \in Lists <=> l \in a \/ l \in b \/ l \in c BY <1>1
  <2> QED BY ONLY <2>1, <2>2, <2>3, <2>4
<1> TAKE l
<1>6. (\E k \in DOMAIN stack : l \in A(k)) <=>
        \E k \in DOMAIN stack :
          \/ l = FieldList("frame", k, stack[k])
          \/ l \in RowLists("cells", k, <<stack[k].cells>>)
          \/ l \in RowLists("rows", k, stack[k].rows)
  BY <1>2
<1>7. (\E k \in DOMAIN items : l \in B(k)) <=>
        \E k \in DOMAIN items :
          \/ l = FieldList("nucleus", k, items[k].nucleus)
          \/ l = FieldList("sup", k, items[k].sup)
          \/ l = FieldList("sub", k, items[k].sub)
  BY <1>3
<1>8. (\E k \in DOMAIN nodes : l \in C(k)) <=>
        \E k \in DOMAIN nodes :
          \/ l = FieldList("first", k, nodes[k].first)
          \/ l = FieldList("last", k, nodes[k].last)
          \/ l = FieldList("fence", k, nodes[k])
          \/ l \in RowLists("array", k, nodes[k].rows)
  BY <1>4
<1>9. l \in Lists <=>
        \/ \E k \in DOMAIN stack : l \in A(k)
        \/ \E k \in DOMAIN items : l \in B(k)
        \/ \E k \in DOMAIN nodes : l \in C(k)
  BY <1>5
<1> QED BY ONLY <1>6, <1>7, <1>8, <1>9

(* The names of the places.                                                *)
LEMMA PartsAre ==
  /\ \A w \in FrameParts \cup ItemParts \cup NodeParts : w \in Parts
  /\ FrameParts = {"frame", "cells", "rows"} /\ ItemParts = {"nucleus", "sup", "sub"}
  /\ NodeParts = {"first", "last", "fence", "array"}
BY DEF FrameParts, ItemParts, NodeParts, Parts

(* What the rows and cells of the parser are.                              *)
LEMMA RowsTyped ==
  ASSUME IInv
  PROVE  /\ \A k \in DOMAIN stack : k \in Nat /\ <<stack[k].cells>> \in Seq(Seq(Cell))
                                   /\ stack[k].rows \in Seq(Seq(Cell))
         /\ \A k \in DOMAIN items : k \in Nat
         /\ \A k \in DOMAIN nodes : k \in Nat /\ nodes[k].rows \in Seq(Seq(Cell))
<1>1. stack \in Seq(FrameType) /\ items \in Seq(Item) /\ nodes \in Seq(Built) BY TopParts
<1>2. ASSUME NEW k \in DOMAIN stack
      PROVE  k \in Nat /\ <<stack[k].cells>> \in Seq(Seq(Cell)) /\ stack[k].rows \in Seq(Seq(Cell))
  <2>1. k \in Nat /\ stack[k] \in FrameType BY <1>1
  <2>2. stack[k].cells \in Seq(Cell) /\ stack[k].rows \in Seq(Seq(Cell)) BY <2>1 DEF FrameType
  <2> DEFINE cells == stack[k].cells
  <2> HIDE DEF cells
  <2>3. cells \in Seq(Cell) => <<cells>> \in Seq(Seq(Cell)) OBVIOUS
  <2> QED BY <2>1, <2>2, <2>3 DEF cells
<1>3. ASSUME NEW k \in DOMAIN nodes PROVE k \in Nat /\ nodes[k].rows \in Seq(Seq(Cell))
  <2>1. k \in Nat /\ nodes[k] \in Built BY <1>1
  <2> QED BY <2>1 DEF Built
<1>4. \A k \in DOMAIN items : k \in Nat BY <1>1
<1> QED BY <1>2, <1>3, <1>4

(* Every list is on the shelf at its place, ...                            *)
LEMMA ListPlaced ==
  ASSUME IInv, NEW l \in Lists
  PROVE  l.at \in Places /\ Shelf(stack, items, nodes, << >>)[l.at] = l.list
<1> DEFINE H == Shelf(stack, items, nodes, << >>)
           q == l.at
<1>1. \/ \E k \in DOMAIN stack :
           \/ l = FieldList("frame", k, stack[k])
           \/ l \in RowLists("cells", k, <<stack[k].cells>>)
           \/ l \in RowLists("rows", k, stack[k].rows)
      \/ \E k \in DOMAIN items :
           \/ l = FieldList("nucleus", k, items[k].nucleus)
           \/ l = FieldList("sup", k, items[k].sup)
           \/ l = FieldList("sub", k, items[k].sub)
      \/ \E k \in DOMAIN nodes :
           \/ l = FieldList("first", k, nodes[k].first)
           \/ l = FieldList("last", k, nodes[k].last)
           \/ l = FieldList("fence", k, nodes[k])
           \/ l \in RowLists("array", k, nodes[k].rows)
  BY ListsAre
<1> HIDE DEF H
<1>2. /\ {"frame", "cells", "rows", "nucleus", "sup", "sub", "first", "last", "fence", "array"}
           \subseteq Parts
  BY PartsAre
<1> HIDE DEF Places, Parts
<1>3. ASSUME NEW k \in DOMAIN stack,
             \/ l = FieldList("frame", k, stack[k])
             \/ l \in RowLists("cells", k, <<stack[k].cells>>)
             \/ l \in RowLists("rows", k, stack[k].rows)
      PROVE  q \in Places /\ H[q] = l.list
  <2>1. k \in Nat /\ <<stack[k].cells>> \in Seq(Seq(Cell)) /\ stack[k].rows \in Seq(Seq(Cell))
    BY RowsTyped
  <2>2. /\ q \in Places /\ q[2] = k /\ q[1] \in {"frame", "cells", "rows"}
        /\ q[1] = "frame" => l.list = Single(q, stack[k].list)
        /\ q[1] = "cells" => l.list = CellAt(<<stack[k].cells>>, q[3], q[4])
        /\ q[1] = "rows" => l.list = CellAt(stack[k].rows, q[3], q[4])
    <3>1. CASE l = FieldList("frame", k, stack[k]) BY <1>2, <2>1, <3>1, FieldListIs
    <3>2. CASE l \in RowLists("cells", k, <<stack[k].cells>>)
      <4> DEFINE rows == <<stack[k].cells>>
      <4>1. rows \in Seq(Seq(Cell)) /\ l \in RowLists("cells", k, rows) BY <2>1, <3>2
      <4>2. "cells" \in Parts BY <1>2
      <4> HIDE DEF rows
      <4>3. /\ q \in Places /\ q[1] = "cells" /\ q[2] = k
            /\ l.list = CellAt(rows, q[3], q[4])
        BY <2>1, <4>1, <4>2, RowListsIs
      <4> QED BY <4>3 DEF rows
    <3>3. CASE l \in RowLists("rows", k, stack[k].rows) BY <1>2, <2>1, <3>3, RowListsIs
    <3> QED BY <1>3, <3>1, <3>2, <3>3
  <2>3. l.list = OfFrame(stack[k], q) BY <2>2 DEF OfFrame
  <2>4. H[q] = FramesAt(stack, q) BY <2>2, PartsAre, ShelfIs DEF H
  <2> QED BY <2>2, <2>3, <2>4 DEF FramesAt
<1>4. ASSUME NEW k \in DOMAIN items,
             \/ l = FieldList("nucleus", k, items[k].nucleus)
             \/ l = FieldList("sup", k, items[k].sup)
             \/ l = FieldList("sub", k, items[k].sub)
      PROVE  q \in Places /\ H[q] = l.list
  <2>1. k \in Nat BY RowsTyped
  <2>2. /\ q \in Places /\ q[2] = k /\ q[1] \in {"nucleus", "sup", "sub"}
        /\ q[1] = "nucleus" => l.list = Single(q, items[k].nucleus.list)
        /\ q[1] = "sup" => l.list = Single(q, items[k].sup.list)
        /\ q[1] = "sub" => l.list = Single(q, items[k].sub.list)
    BY <1>2, <1>4, <2>1, FieldListIs
  <2>3. l.list = OfItem(items[k], q) BY <2>2 DEF OfItem, PartList
  <2>4. H[q] = ItemsAt(items, q) BY <2>2, PartsAre, ShelfIs DEF H
  <2> QED BY <2>2, <2>3, <2>4 DEF ItemsAt
<1>5. ASSUME NEW k \in DOMAIN nodes,
             \/ l = FieldList("first", k, nodes[k].first)
             \/ l = FieldList("last", k, nodes[k].last)
             \/ l = FieldList("fence", k, nodes[k])
             \/ l \in RowLists("array", k, nodes[k].rows)
      PROVE  q \in Places /\ H[q] = l.list
  <2>1. k \in Nat /\ nodes[k].rows \in Seq(Seq(Cell)) BY RowsTyped
  <2>2. /\ q \in Places /\ q[2] = k /\ q[1] \in {"first", "last", "fence", "array"}
        /\ q[1] = "first" => l.list = Single(q, nodes[k].first.list)
        /\ q[1] = "last" => l.list = Single(q, nodes[k].last.list)
        /\ q[1] = "fence" => l.list = Single(q, nodes[k].list)
        /\ q[1] = "array" => l.list = CellAt(nodes[k].rows, q[3], q[4])
    <3>1. CASE l \in RowLists("array", k, nodes[k].rows) BY <1>2, <2>1, <3>1, RowListsIs
    <3>2. CASE \/ l = FieldList("first", k, nodes[k].first)
               \/ l = FieldList("last", k, nodes[k].last)
               \/ l = FieldList("fence", k, nodes[k])
      BY <1>2, <2>1, <3>2, FieldListIs
    <3> QED BY <1>5, <3>1, <3>2
  <2>3. l.list = OfNode(nodes[k], q) BY <2>2 DEF OfNode, SlotList
  <2>4. H[q] = NodesAt(nodes, q) BY <2>2, PartsAre, ShelfIs DEF H
  <2> QED BY <2>2, <2>3, <2>4 DEF NodesAt
<1> QED BY <1>1, <1>3, <1>4, <1>5 DEF H

(* ... and what is on the shelf is a list of the parser.                   *)
LEMMA PlaceListed ==
  ASSUME IInv, NEW q \in Places, Shelf(stack, items, nodes, << >>)[q] # << >>
  PROVE  \E l \in Lists : l.at = q /\ l.list = Shelf(stack, items, nodes, << >>)[q]
<1> DEFINE H == Shelf(stack, items, nodes, << >>)
           k == q[2]
<1> HIDE DEF H
<1>1. H[q] # << >> BY DEF H
<1>2. /\ {"frame", "cells", "rows", "nucleus", "sup", "sub", "first", "last", "fence", "array"}
           \subseteq Parts
  BY PartsAre
<1> HIDE DEF Places, Parts, FieldList, RowLists
<1>3. CASE q[1] \in FrameParts
  <2>1. H[q] = FramesAt(stack, q) BY <1>3, ShelfIs DEF H
  <2>2. k \in DOMAIN stack /\ H[q] = OfFrame(stack[k], q) BY <1>1, <2>1 DEF FramesAt
  <2>3. k \in Nat /\ <<stack[k].cells>> \in Seq(Seq(Cell)) /\ stack[k].rows \in Seq(Seq(Cell))
    BY <2>2, RowsTyped
  <2>4. CASE q[1] = "frame"
    <3>1. H[q] = Single(q, stack[k].list) BY <2>2, <2>4 DEF OfFrame
    <3>2. LET l == FieldList("frame", k, stack[k]) IN l.at = q /\ l.list = H[q]
      BY <1>1, <1>2, <2>3, <2>4, <3>1, FieldListIs
    <3> QED BY <2>2, <3>2, ListsAre DEF H
  <2>5. CASE q[1] = "cells"
    <3>1. H[q] = CellAt(<<stack[k].cells>>, q[3], q[4]) BY <2>2, <2>5 DEF OfFrame
    <3>2. \E l \in RowLists("cells", k, <<stack[k].cells>>) : l.at = q /\ l.list = H[q]
      <4> DEFINE rows == <<stack[k].cells>>
      <4>1. rows \in Seq(Seq(Cell)) /\ H[q] = CellAt(rows, q[3], q[4]) BY <2>3, <3>1
      <4>2. "cells" \in Parts /\ k = q[2] BY <1>2
      <4> HIDE DEF rows, k
      <4>3. \E l \in RowLists("cells", k, rows) : l.at = q /\ l.list = CellAt(rows, q[3], q[4])
        BY <1>1, <2>3, <2>5, <4>1, <4>2, RowListsIs
      <4> QED BY <4>1, <4>3 DEF rows
    <3> QED BY <2>2, <3>2, ListsAre DEF H
  <2>6. CASE q[1] = "rows"
    <3>1. H[q] = CellAt(stack[k].rows, q[3], q[4]) BY <2>2, <2>6 DEF OfFrame
    <3>2. \E l \in RowLists("rows", k, stack[k].rows) : l.at = q /\ l.list = H[q]
      BY <1>1, <1>2, <2>3, <2>6, <3>1, RowListsIs
    <3> QED BY <2>2, <3>2, ListsAre DEF H
  <2> QED BY <1>3, <2>4, <2>5, <2>6, PartsAre
<1>4. CASE q[1] \in ItemParts
  <2>1. H[q] = ItemsAt(items, q) BY <1>4, ShelfIs DEF H
  <2>2. k \in DOMAIN items /\ H[q] = OfItem(items[k], q) BY <1>1, <2>1 DEF ItemsAt
  <2>3. k \in Nat BY <2>2, RowsTyped
  <2>4. CASE q[1] = "nucleus"
    <3>1. H[q] = Single(q, items[k].nucleus.list) BY <2>2, <2>4 DEF OfItem, PartList
    <3>2. LET l == FieldList("nucleus", k, items[k].nucleus) IN l.at = q /\ l.list = H[q]
      BY <1>1, <1>2, <2>3, <2>4, <3>1, FieldListIs
    <3> QED BY <2>2, <3>2, ListsAre DEF H
  <2>5. CASE q[1] = "sup"
    <3>1. H[q] = Single(q, items[k].sup.list) BY <2>2, <2>5 DEF OfItem, PartList
    <3>2. LET l == FieldList("sup", k, items[k].sup) IN l.at = q /\ l.list = H[q]
      BY <1>1, <1>2, <2>3, <2>5, <3>1, FieldListIs
    <3> QED BY <2>2, <3>2, ListsAre DEF H
  <2>6. CASE q[1] = "sub"
    <3>1. H[q] = Single(q, items[k].sub.list) BY <2>2, <2>6 DEF OfItem, PartList
    <3>2. LET l == FieldList("sub", k, items[k].sub) IN l.at = q /\ l.list = H[q]
      BY <1>1, <1>2, <2>3, <2>6, <3>1, FieldListIs
    <3> QED BY <2>2, <3>2, ListsAre DEF H
  <2> QED BY <1>4, <2>4, <2>5, <2>6, PartsAre
<1>5. CASE q[1] \in NodeParts
  <2>1. H[q] = NodesAt(nodes, q) BY <1>5, ShelfIs DEF H
  <2>2. k \in DOMAIN nodes /\ H[q] = OfNode(nodes[k], q) BY <1>1, <2>1 DEF NodesAt
  <2>3. k \in Nat /\ nodes[k].rows \in Seq(Seq(Cell)) BY <2>2, RowsTyped
  <2>4. CASE q[1] = "first"
    <3>1. H[q] = Single(q, nodes[k].first.list) BY <2>2, <2>4 DEF OfNode, SlotList
    <3>2. LET l == FieldList("first", k, nodes[k].first) IN l.at = q /\ l.list = H[q]
      BY <1>1, <1>2, <2>3, <2>4, <3>1, FieldListIs
    <3> QED BY <2>2, <3>2, ListsAre DEF H
  <2>5. CASE q[1] = "last"
    <3>1. H[q] = Single(q, nodes[k].last.list) BY <2>2, <2>5 DEF OfNode, SlotList
    <3>2. LET l == FieldList("last", k, nodes[k].last) IN l.at = q /\ l.list = H[q]
      BY <1>1, <1>2, <2>3, <2>5, <3>1, FieldListIs
    <3> QED BY <2>2, <3>2, ListsAre DEF H
  <2>6. CASE q[1] = "fence"
    <3>1. H[q] = Single(q, nodes[k].list) BY <2>2, <2>6 DEF OfNode, SlotList
    <3>2. LET l == FieldList("fence", k, nodes[k]) IN l.at = q /\ l.list = H[q]
      BY <1>1, <1>2, <2>3, <2>6, <3>1, FieldListIs
    <3> QED BY <2>2, <3>2, ListsAre DEF H
  <2>7. CASE q[1] = "array"
    <3>1. H[q] = CellAt(nodes[k].rows, q[3], q[4]) BY <2>2, <2>7 DEF OfNode
    <3>2. \E l \in RowLists("array", k, nodes[k].rows) : l.at = q /\ l.list = H[q]
      BY <1>1, <1>2, <2>3, <2>7, <3>1, RowListsIs
    <3> QED BY <2>2, <3>2, ListsAre DEF H
  <2> QED BY <1>5, <2>4, <2>5, <2>6, <2>7, PartsAre
<1>6. CASE q[1] = "loose"
  <2>1. H[q] = << >> BY <1>6, ShelfIs DEF H
  <2> QED BY <1>1, <2>1
<1> QED BY <1>3, <1>4, <1>5, <1>6, ShelfIs

(* Owned items are linked once.                                            *)
LEMMA OwnedOnce == ASSUME IInv, OwnedNow PROVE OneOwner
<1> SUFFICES ASSUME NEW i \in DOMAIN items PROVE Cardinality(Links(i)) = 1 BY DEF OneOwner
<1> DEFINE H == Shelf(stack, items, nodes, << >>)
<1>1. Shelved(H, Len(items)) BY DEF OwnedNow, Owned
<1> HIDE DEF H, Places, Lists
<1>2. i \in 1 .. Len(items)
  <2>1. items \in Seq(Item) BY TopParts
  <2> QED BY <2>1
<1>3. PICK q \in Places : \E j \in DOMAIN H[q] : H[q][j] = i BY <1>1, <1>2 DEF Shelved
<1>4. PICK j \in DOMAIN H[q] : H[q][j] = i BY <1>3
<1>5. H[q] # << >> BY <1>4
<1>6. PICK l \in Lists : l.at = q /\ l.list = H[q] BY <1>5, PlaceListed DEF H
<1>7. \A m \in Lists : m.at \in Places /\ H[m.at] = m.list BY ListPlaced DEF H
<1>8. <<q, j>> \in Links(i) BY <1>4, <1>6 DEF Links
<1>9. ASSUME NEW x \in Links(i) PROVE x = <<q, j>>
  <2>1. PICK m \in Lists : \E k \in DOMAIN m.list : m.list[k] = i /\ x = <<m.at, k>>
    BY <1>9 DEF Links
  <2>2. PICK k \in DOMAIN m.list : m.list[k] = i /\ x = <<m.at, k>> BY <2>1
  <2>3. \A u, v \in Places : \A a \in DOMAIN H[u], b \in DOMAIN H[v] :
          H[u][a] = H[v][b] => u = v /\ a = b
    BY <1>1 DEF Shelved
  <2>4. m.at = q /\ k = j BY <1>4, <1>7, <2>2, <2>3
  <2> QED BY <2>2, <2>4
<1>10. Links(i) = {<<q, j>>} BY <1>8, <1>9
<1> QED BY <1>10, FS_Singleton

(* Lists are copied by value from frames into fields, cells, rows and      *)
(* arrays: every item allocated stays linked exactly once, so nothing      *)
(* parsed is dropped and no two lists share a tail.                        *)
THEOREM SingleOwner == Spec => []OneOwner
<1>1. Init => Standing /\ OwnedNow BY InitStanding, InitOwned
<1>2. Standing /\ OwnedNow /\ [Next \/ Returned]_vars => (Standing /\ OwnedNow)'
  <2>1. ASSUME Standing, OwnedNow, Next PROVE Standing' /\ OwnedNow'
    <3>1. IInv' BY <2>1, NextKept DEF Standing
    <3>2. Standing' BY <2>1, <3>1, NextMoves, TurnKept
    <3> QED BY <2>1, <3>2, NextOwned
  <2>2. ASSUME Standing, OwnedNow, UNCHANGED vars PROVE Standing' /\ OwnedNow'
    BY <2>2, StandingStill, FixedOwned DEF vars
  <2> QED BY <2>1, <2>2 DEF Returned
<1>3. Standing /\ OwnedNow => OneOwner BY OwnedOnce DEF Standing
<1> QED BY <1>1, <1>2, <1>3, PTL DEF Spec

-----------------------------------------------------------------------------
(***************************************************************************)
(* What stays when the item at the end of the top frame's list changes.    *)
(***************************************************************************)

(* A shelf holds every list there is, in its place.                        *)
ListsOn(H, stk, its, nds, loose) ==
  /\ \A k \in DOMAIN its : \A f \in FieldsOf(its[k]) :
       \E q \in Places : q[1] \in ItemParts /\ H[q] = f.list
  /\ \A n \in DOMAIN nds : \A f \in NodeFields(nds[n]) :
       \E q \in Places : q[1] \in NodeParts /\ H[q] = f.list
  /\ \A n \in DOMAIN nds : \E q \in Places : q[1] \in NodeParts /\ H[q] = nds[n].list
  /\ \A n \in DOMAIN nds : \A r \in DOMAIN nds[n].rows :
       \A c \in DOMAIN nds[n].rows[r] :
         \E q \in Places : q[1] \in NodeParts /\ H[q] = nds[n].rows[r][c].list
  /\ \A i \in DOMAIN stk : \E q \in Places :
       q[1] = "frame" /\ q[2] = i /\ H[q] = stk[i].list
  /\ \A i \in DOMAIN stk : \A c \in DOMAIN stk[i].cells :
       \E q \in Places : q[1] = "cells" /\ H[q] = stk[i].cells[c].list
  /\ \A i \in DOMAIN stk : \A r \in DOMAIN stk[i].rows :
       \A c \in DOMAIN stk[i].rows[r] :
         \E q \in Places : q[1] = "rows" /\ H[q] = stk[i].rows[r][c].list
  /\ H[Loose] = loose

(* Where the lists are.                                                    *)
LEMMA ListsShelved ==
  ASSUME NEW stk \in Seq(FrameType), NEW its \in Seq(Item), NEW nds \in Seq(Built), NEW loose
  PROVE  ListsOn(Shelf(stk, its, nds, loose), stk, its, nds, loose)
<1> DEFINE H == Shelf(stk, its, nds, loose)
<1>1. /\ {"frame", "cells", "rows", "nucleus", "sup", "sub", "first", "last", "fence", "array"}
           \subseteq Parts
      /\ FrameParts = {"frame", "cells", "rows"} /\ ItemParts = {"nucleus", "sup", "sub"}
      /\ NodeParts = {"first", "last", "fence", "array"}
  BY PartsAre
<1>2. \A k \in DOMAIN its : k \in Nat OBVIOUS
<1>3. \A n \in DOMAIN nds : n \in Nat /\ nds[n].rows \in Seq(Seq(Cell))
  <2>1. \A n \in DOMAIN nds : n \in Nat /\ nds[n] \in Built OBVIOUS
  <2> QED BY <2>1 DEF Built
<1>4. \A i \in DOMAIN stk :
        i \in Nat /\ stk[i].cells \in Seq(Cell) /\ stk[i].rows \in Seq(Seq(Cell))
  <2>1. \A i \in DOMAIN stk : i \in Nat /\ stk[i] \in FrameType OBVIOUS
  <2> QED BY <2>1 DEF FrameType
<1>5. ASSUME NEW rows \in Seq(Seq(Cell)), NEW r \in DOMAIN rows, NEW c \in DOMAIN rows[r]
      PROVE  r \in Nat /\ c \in Nat /\ CellAt(rows, r, c) = rows[r][c].list
  <2>1. r \in Nat /\ rows[r] \in Seq(Cell) OBVIOUS
  <2>2. c \in Nat BY <2>1
  <2> QED BY <2>1, <2>2 DEF CellAt
<1> HIDE DEF Places, Parts
<1>6. /\ \A q \in Places :
           /\ q[1] \in FrameParts => H[q] = FramesAt(stk, q)
           /\ q[1] \in ItemParts => H[q] = ItemsAt(its, q)
           /\ q[1] \in NodeParts => H[q] = NodesAt(nds, q)
      /\ H[Loose] = loose
  BY ShelfIs
<1> HIDE DEF H, FrameParts, ItemParts, NodeParts
<1>7. \A w \in {"frame", "cells", "rows", "nucleus", "sup", "sub", "first", "last", "fence",
                 "array"} :
        \A k, r, c \in Nat :
          /\ <<w, k, r, c>> \in Places
          /\ <<w, k, r, c>>[1] = w /\ <<w, k, r, c>>[2] = k
          /\ <<w, k, r, c>>[3] = r /\ <<w, k, r, c>>[4] = c
  <2> SUFFICES ASSUME NEW w \in {"frame", "cells", "rows", "nucleus", "sup", "sub", "first",
                                 "last", "fence", "array"},
                      NEW k \in Nat, NEW r \in Nat, NEW c \in Nat
               PROVE  /\ <<w, k, r, c>> \in Places
                      /\ <<w, k, r, c>>[1] = w /\ <<w, k, r, c>>[2] = k
                      /\ <<w, k, r, c>>[3] = r /\ <<w, k, r, c>>[4] = c
    OBVIOUS
  <2>1. w \in Parts BY <1>1
  <2> QED BY <2>1, PlaceIs
<1>8. ASSUME NEW k \in DOMAIN its, NEW w \in ItemParts
      PROVE  \E q \in Places : q[1] \in ItemParts /\ H[q] = PartList(its[k], w)
  <2> DEFINE q == <<w, k, 0, 0>>
  <2>1. q \in Places /\ q[1] = w /\ q[2] = k /\ q[3] = 0 /\ q[4] = 0 BY <1>1, <1>2, <1>7
  <2> HIDE DEF q
  <2>2. H[q] = ItemsAt(its, q) BY <1>6, <2>1
  <2>3. H[q] = PartList(its[k], w) BY <2>1, <2>2 DEF ItemsAt, OfItem, Single
  <2> QED BY <2>1, <2>3
<1>9. ASSUME NEW n \in DOMAIN nds, NEW w \in {"first", "last", "fence"}
      PROVE  \E q \in Places : q[1] \in NodeParts /\ H[q] = SlotList(nds[n], w)
  <2> DEFINE q == <<w, n, 0, 0>>
  <2>1. q \in Places /\ q[1] = w /\ q[2] = n /\ q[3] = 0 /\ q[4] = 0 BY <1>3, <1>7
  <2> HIDE DEF q
  <2>2. q[1] \in NodeParts BY <1>1, <2>1
  <2>3. H[q] = NodesAt(nds, q) BY <1>6, <2>1, <2>2
  <2>4. H[q] = SlotList(nds[n], w) BY <2>1, <2>3 DEF NodesAt, OfNode, Single
  <2> QED BY <2>1, <2>2, <2>4
<1>10. ASSUME NEW n \in DOMAIN nds, NEW r \in DOMAIN nds[n].rows, NEW c \in DOMAIN nds[n].rows[r]
       PROVE  \E q \in Places : q[1] \in NodeParts /\ H[q] = nds[n].rows[r][c].list
  <2> DEFINE q == <<"array", n, r, c>>
  <2>0. r \in Nat /\ c \in Nat /\ CellAt(nds[n].rows, r, c) = nds[n].rows[r][c].list
    BY <1>3, <1>5
  <2>1. q \in Places /\ q[1] = "array" /\ q[2] = n /\ q[3] = r /\ q[4] = c
    BY <1>3, <1>7, <2>0
  <2> HIDE DEF q
  <2>2. q[1] \in NodeParts BY <1>1, <2>1
  <2>3. H[q] = NodesAt(nds, q) BY <1>6, <2>1, <2>2
  <2>4. H[q] = CellAt(nds[n].rows, r, c) BY <2>1, <2>3 DEF NodesAt, OfNode
  <2> QED BY <2>0, <2>1, <2>2, <2>4
<1>11. ASSUME NEW i \in DOMAIN stk
       PROVE  \E q \in Places : q[1] = "frame" /\ q[2] = i /\ H[q] = stk[i].list
  <2> DEFINE q == <<"frame", i, 0, 0>>
  <2>1. q \in Places /\ q[1] = "frame" /\ q[2] = i /\ q[3] = 0 /\ q[4] = 0 BY <1>4, <1>7
  <2> HIDE DEF q
  <2>2. q[1] \in FrameParts BY <1>1, <2>1
  <2>3. H[q] = FramesAt(stk, q) BY <1>6, <2>1, <2>2
  <2>4. H[q] = stk[i].list BY <2>1, <2>3 DEF FramesAt, OfFrame, Single
  <2> QED BY <2>1, <2>4
<1>12. ASSUME NEW i \in DOMAIN stk, NEW c \in DOMAIN stk[i].cells
       PROVE  \E q \in Places : q[1] = "cells" /\ H[q] = stk[i].cells[c].list
  <2> DEFINE q == <<"cells", i, 1, c>>
             cells == stk[i].cells
             rows == <<cells>>
  <2>0. cells \in Seq(Cell) /\ c \in DOMAIN cells /\ i \in Nat BY <1>4
  <2>1. c \in Nat /\ CellAt(rows, 1, c) = cells[c].list
    <3> HIDE DEF cells
    <3>1. rows \in Seq(Seq(Cell)) /\ 1 \in DOMAIN rows /\ rows[1] = cells BY <2>0
    <3> HIDE DEF rows
    <3> QED BY <1>5, <2>0, <3>1
  <2>2. q \in Places /\ q[1] = "cells" /\ q[2] = i /\ q[3] = 1 /\ q[4] = c
    BY <1>7, <2>0, <2>1
  <2> HIDE DEF q
  <2>3. q[1] \in FrameParts BY <1>1, <2>2
  <2>4. H[q] = FramesAt(stk, q) BY <1>6, <2>2, <2>3
  <2>5. H[q] = CellAt(rows, 1, c) BY <2>2, <2>4 DEF FramesAt, OfFrame
  <2> QED BY <2>1, <2>2, <2>5
<1>13. ASSUME NEW i \in DOMAIN stk, NEW r \in DOMAIN stk[i].rows, NEW c \in DOMAIN stk[i].rows[r]
       PROVE  \E q \in Places : q[1] = "rows" /\ H[q] = stk[i].rows[r][c].list
  <2> DEFINE q == <<"rows", i, r, c>>
  <2>0. r \in Nat /\ c \in Nat /\ CellAt(stk[i].rows, r, c) = stk[i].rows[r][c].list
    BY <1>4, <1>5
  <2>1. q \in Places /\ q[1] = "rows" /\ q[2] = i /\ q[3] = r /\ q[4] = c
    BY <1>4, <1>7, <2>0
  <2> HIDE DEF q
  <2>2. q[1] \in FrameParts BY <1>1, <2>1
  <2>3. H[q] = FramesAt(stk, q) BY <1>6, <2>1, <2>2
  <2>4. H[q] = CellAt(stk[i].rows, r, c) BY <2>1, <2>3 DEF FramesAt, OfFrame
  <2> QED BY <2>0, <2>1, <2>4
<1>14. ASSUME NEW k \in DOMAIN its, NEW f \in FieldsOf(its[k])
       PROVE  \E q \in Places : q[1] \in ItemParts /\ H[q] = f.list
  <2>1. \E w \in ItemParts : f.list = PartList(its[k], w) BY <1>1 DEF FieldsOf, PartList
  <2> QED BY <1>8, <2>1
<1>15. ASSUME NEW n \in DOMAIN nds, NEW f \in NodeFields(nds[n])
       PROVE  \E q \in Places : q[1] \in NodeParts /\ H[q] = f.list
  <2>1. \E w \in {"first", "last", "fence"} : f.list = SlotList(nds[n], w)
    BY DEF NodeFields, SlotList
  <2> QED BY <1>9, <2>1
<1>16. ASSUME NEW n \in DOMAIN nds
       PROVE  \E q \in Places : q[1] \in NodeParts /\ H[q] = nds[n].list
  <2>1. nds[n].list = SlotList(nds[n], "fence") BY DEF SlotList
  <2> QED BY <1>9, <2>1
<1> QED BY <1>6, <1>10, <1>11, <1>12, <1>13, <1>14, <1>15, <1>16 DEF H, ListsOn

(* No list but the top frame's holds its last item: the others read the    *)
(* same when that one changes.                                             *)
LEMMA Keeps ==
  ASSUME NEW stk \in Seq(FrameType), stk # << >>, NEW its \in Seq(Item),
         NEW nds \in Seq(Built), NEW loose, Owned(stk, its, nds, loose),
         NEW its2, DOMAIN its \subseteq DOMAIN its2, ItemsBut(its, its2, stk[Len(stk)])
  PROVE  AllAgree(stk, its, nds, its2) /\ Agree(loose, its, its2)
<1> DEFINE H == Shelf(stk, its, nds, loose)
           n == Len(stk)
           f == stk[n]
           k == Tail1(f)
<1>1. Shelved(H, Len(its)) BY DEF Owned
<1>2. n \in Nat /\ n \in DOMAIN stk /\ DOMAIN stk = 1 .. n /\ DOMAIN its = 1 .. Len(its) OBVIOUS
<1>3. f \in FrameType /\ f.list \in Seq(Nat)
  <2>1. f \in FrameType BY <1>2
  <2> QED BY <2>1 DEF FrameType
<1>4. f.list # << >> => k = f.list[Len(f.list)] /\ Len(f.list) \in DOMAIN f.list
  BY <1>3 DEF Tail1
<1>5. \A m \in DOMAIN its : its2[m] = its[m] \/ (f.list # << >> /\ m = k) BY DEF ItemsBut
<1>0. ListsOn(H, stk, its, nds, loose) BY ListsShelved
<1> HIDE DEF H
<1>6. /\ \A i \in DOMAIN its : \A g \in FieldsOf(its[i]) :
           \E q \in Places : q[1] \in ItemParts /\ H[q] = g.list
      /\ \A i \in DOMAIN nds : \A g \in NodeFields(nds[i]) :
           \E q \in Places : q[1] \in NodeParts /\ H[q] = g.list
      /\ \A i \in DOMAIN nds : \E q \in Places : q[1] \in NodeParts /\ H[q] = nds[i].list
      /\ \A i \in DOMAIN nds : \A r \in DOMAIN nds[i].rows :
           \A c \in DOMAIN nds[i].rows[r] :
             \E q \in Places : q[1] \in NodeParts /\ H[q] = nds[i].rows[r][c].list
      /\ \A i \in DOMAIN stk : \E q \in Places :
           q[1] = "frame" /\ q[2] = i /\ H[q] = stk[i].list
      /\ \A i \in DOMAIN stk : \A c \in DOMAIN stk[i].cells :
           \E q \in Places : q[1] = "cells" /\ H[q] = stk[i].cells[c].list
      /\ \A i \in DOMAIN stk : \A r \in DOMAIN stk[i].rows :
           \A c \in DOMAIN stk[i].rows[r] :
             \E q \in Places : q[1] = "rows" /\ H[q] = stk[i].rows[r][c].list
      /\ H[Loose] = loose
  BY <1>0 DEF ListsOn
<1>7. /\ "frame" \notin ItemParts /\ "frame" \notin NodeParts
      /\ Loose \in Places /\ Loose[1] = "loose"
  <2>1. "frame" \notin ItemParts /\ "frame" \notin NodeParts BY DEF ItemParts, NodeParts
  <2>2. Loose \in Places /\ Loose[1] = "loose" BY PlaceIs
  <2> QED BY <2>1, <2>2
<1> DEFINE Away(q) == q \in Places /\ ~(q[1] = "frame" /\ q[2] = n)
<1> HIDE DEF H, f, k, n, Places, ItemParts, NodeParts
<1>8. PICK top \in Places : top[1] = "frame" /\ top[2] = n /\ H[top] = f.list BY <1>2, <1>6 DEF f
<1>9. ASSUME NEW q \in Places, q # top PROVE Agree(H[q], its, its2)
  <2>1. H[q] \in Seq(1 .. Len(its)) BY <1>1 DEF Shelved
  <2>2. \A j \in DOMAIN H[q] : H[q][j] \in DOMAIN its BY <1>2, <2>1
  <2>3. ASSUME NEW j \in DOMAIN H[q], f.list # << >> PROVE H[q][j] # k
    <3>1. \A x, y \in Places : \A u \in DOMAIN H[x], v \in DOMAIN H[y] :
            H[x][u] = H[y][v] => x = y /\ u = v
      BY <1>1 DEF Shelved
    <3>2. Len(f.list) \in DOMAIN H[top] /\ H[top][Len(f.list)] = k BY <1>4, <1>8, <2>3
    <3> QED BY <1>9, <3>1, <3>2
  <2> QED BY <1>5, <2>2, <2>3 DEF Agree
<1>10. \A q : Away(q) => Agree(H[q], its, its2) BY <1>8, <1>9
<1>11. \A q \in Places : (q[1] # "frame" \/ q[2] # n) => Agree(H[q], its, its2)
  BY <1>10
<1> HIDE DEF Away
<1>12. \A i \in DOMAIN its : \A g \in Filled(FieldsOf(its[i])) : Agree(g.list, its, its2)
  <2> SUFFICES ASSUME NEW i \in DOMAIN its, NEW g \in Filled(FieldsOf(its[i]))
               PROVE  Agree(g.list, its, its2)
    OBVIOUS
  <2>1. g \in FieldsOf(its[i]) BY DEF Filled
  <2>2. PICK q \in Places : q[1] \in ItemParts /\ H[q] = g.list BY <1>6, <2>1
  <2>3. q[1] # "frame" BY <1>7, <2>2
  <2> QED BY <1>11, <2>2, <2>3
<1>13. \A i \in DOMAIN nds : \A g \in Filled(NodeFields(nds[i])) : Agree(g.list, its, its2)
  <2> SUFFICES ASSUME NEW i \in DOMAIN nds, NEW g \in Filled(NodeFields(nds[i]))
               PROVE  Agree(g.list, its, its2)
    OBVIOUS
  <2>1. g \in NodeFields(nds[i]) BY DEF Filled
  <2>2. PICK q \in Places : q[1] \in NodeParts /\ H[q] = g.list BY <1>6, <2>1
  <2>3. q[1] # "frame" BY <1>7, <2>2
  <2> QED BY <1>11, <2>2, <2>3
<1>14. FencesAgree(its, nds, its2)
  <2> SUFFICES ASSUME NEW i \in DOMAIN nds PROVE Agree(nds[i].list, its, its2)
    BY DEF FencesAgree
  <2>2. PICK q \in Places : q[1] \in NodeParts /\ H[q] = nds[i].list BY <1>6
  <2>3. q[1] # "frame" BY <1>7, <2>2
  <2> QED BY <1>11, <2>2, <2>3
<1>15. \A i \in DOMAIN nds : RowsAgree(nds[i].rows, its, its2)
  <2> SUFFICES ASSUME NEW i \in DOMAIN nds, NEW r \in DOMAIN nds[i].rows,
                      NEW c \in DOMAIN nds[i].rows[r]
               PROVE  Agree(nds[i].rows[r][c].list, its, its2)
    BY DEF RowsAgree
  <2>2. PICK q \in Places : q[1] \in NodeParts /\ H[q] = nds[i].rows[r][c].list BY <1>6
  <2>3. q[1] # "frame" BY <1>7, <2>2
  <2> QED BY <1>11, <2>2, <2>3
<1>16. ASSUME NEW i \in DOMAIN stk PROVE RowsAgree(AllRows(stk[i]), its, its2)
  <2> DEFINE fr == stk[i]
  <2>1. fr.cells \in Seq(Cell) /\ fr.rows \in Seq(Seq(Cell))
    <3>1. fr \in FrameType OBVIOUS
    <3> QED BY <3>1 DEF FrameType
  <2>2. \A c \in DOMAIN fr.cells : Agree(fr.cells[c].list, its, its2)
    <3> SUFFICES ASSUME NEW c \in DOMAIN fr.cells PROVE Agree(fr.cells[c].list, its, its2)
      OBVIOUS
    <3>1. PICK q \in Places : q[1] = "cells" /\ H[q] = fr.cells[c].list BY <1>6
    <3> QED BY <1>11, <3>1
  <2>3. RowsAgree(fr.rows, its, its2)
    <3> SUFFICES ASSUME NEW r \in DOMAIN fr.rows, NEW c \in DOMAIN fr.rows[r]
                 PROVE  Agree(fr.rows[r][c].list, its, its2)
      BY DEF RowsAgree
    <3>1. PICK q \in Places : q[1] = "rows" /\ H[q] = fr.rows[r][c].list BY <1>6
    <3> QED BY <1>11, <3>1
  <2> HIDE DEF fr
  <2>4. RowsAgree(Append(fr.rows, fr.cells), its, its2)
    <3> DEFINE all == Append(fr.rows, fr.cells)
    <3>1. \A r \in DOMAIN all : (r \in DOMAIN fr.rows /\ all[r] = fr.rows[r]) \/ all[r] = fr.cells
      <4> HIDE DEF Cell
      <4> QED BY <2>1
    <3> HIDE DEF all
    <3>2. RowsAgree(all, its, its2) BY <2>2, <2>3, <3>1 DEF RowsAgree
    <3> QED BY <3>2 DEF all
  <2>5. RowsAgree(AllRows(fr), its, its2) BY <2>3, <2>4 DEF AllRows
  <2> QED BY <2>5 DEF fr
<1>17. \A i \in 1 .. n - 1 : Agree(stk[i].list, its, its2)
  <2> SUFFICES ASSUME NEW i \in 1 .. n - 1 PROVE Agree(stk[i].list, its, its2) OBVIOUS
  <2>1. i \in DOMAIN stk /\ i # n BY <1>2
  <2>2. PICK q \in Places : q[1] = "frame" /\ q[2] = i /\ H[q] = stk[i].list BY <1>6, <2>1
  <2> QED BY <1>11, <2>1, <2>2
<1>18. Agree(loose, its, its2)
  <2>1. Loose[1] # "frame" BY <1>7
  <2> QED BY <1>6, <1>7, <1>11, <2>1
<1> QED BY <1>12, <1>13, <1>14, <1>15, <1>16, <1>17, <1>18 DEF AllAgree, n

-----------------------------------------------------------------------------
(***************************************************************************)
(* The steps a handler is made of.                                         *)
(***************************************************************************)

(* A frame of a tree that fits.                                            *)
LEMMA TopFits ==
  ASSUME NEW stk \in Seq(FrameType), stk # << >>, NEW its, NEW nds, NEW b, NEW txt,
         Ranged(stk, its, nds, b, txt)
  PROVE  LET f == stk[Len(stk)] IN
         /\ f \in FrameType /\ FrameFits(f, b, its, nds, txt)
         /\ \A j \in DOMAIN f.list : f.list[j] \in DOMAIN its
         /\ f.list # << >> => Tail1(f) \in DOMAIN its
<1> DEFINE n == Len(stk)
           f == stk[n]
<1>1. n \in DOMAIN stk /\ f \in FrameType OBVIOUS
<1>2. BoundAt(stk, n, b) = b BY DEF BoundAt
<1>3. FrameFits(f, b, its, nds, txt) BY <1>1, <1>2 DEF Ranged
<1> HIDE DEF f
<1>4. \A j \in DOMAIN f.list : f.list[j] \in DOMAIN its BY <1>3 DEF FrameFits, InOrder
<1>5. f.list # << >> => Tail1(f) \in DOMAIN its
  <2>1. f.list \in Seq(Nat) BY <1>1 DEF FrameType
  <2>2. f.list # << >> => Len(f.list) \in DOMAIN f.list BY <2>1
  <2> QED BY <1>4, <2>2 DEF Tail1
<1> QED BY <1>1, <1>3, <1>4, <1>5 DEF f

(* The last item of the top frame is amended.                              *)
LEMMA AmendRanged ==
  ASSUME NEW stk \in Seq(FrameType), stk # << >>, NEW its \in Seq(Item),
         NEW nds \in Seq(Built), NEW loose, Owned(stk, its, nds, loose),
         NEW b \in Nat, NEW txt, DOMAIN txt \subseteq Nat, Ranged(stk, its, nds, b, txt),
         NEW f \in FrameType, f = stk[Len(stk)], Rising(f.list), f.list # << >>,
         NEW v \in Item, ItemFits(v, its, nds), v.begin = its[Tail1(f)].begin,
         NEW q \in Nat, v.end = q, Settled(f, b) <= q,
         \A x \in FieldsOf(v) : x.list = << >> \/ x.list = loose \/ x \in FieldsOf(its[Tail1(f)]),
         NEW g \in FrameType, Kindred(f, g), g.list = f.list, Idle(g), ~Waiting(g),
         NEW its2, its2 = [its EXCEPT ![Tail1(f)] = v]
  PROVE  Ranged(SetTop(stk, g), its2, nds, q, txt)
<1> DEFINE k == Tail1(f)
<1>1. FrameFits(f, b, its, nds, txt) /\ k \in DOMAIN its BY TopFits
<1>2. /\ DOMAIN its2 = DOMAIN its /\ its2[k] = v
      /\ \A m \in DOMAIN its : m # k => its2[m] = its[m]
  <2> HIDE DEF k
  <2> QED BY <1>1 DEF k
<1>3. ItemsBut(its, its2, f) BY <1>2 DEF ItemsBut
<1>4. AllAgree(stk, its, nds, its2) /\ Agree(loose, its, its2) BY <1>2, <1>3, Keeps
<1>5. Spared(stk, nds, nds) BY SparedStill
<1>6. f.role = "CELL" => RowsAgree(AllRows(f), its, its2)
  <2>1. Len(stk) \in DOMAIN stk OBVIOUS
  <2> QED BY <1>4, <2>1 DEF AllAgree
<1>7. FrameFits(g, q, its2, nds, txt) BY <1>1, <1>6, FrameAmended
<1>8. Opening(g) = Opening(f) BY DEF Opening, Kindred
<1> HIDE DEF k
<1>9. ItemFits(v, its2, nds)
  <2>1. \A x \in Filled(FieldsOf(v)) : Agree(x.list, its, its2)
    <3> SUFFICES ASSUME NEW x \in Filled(FieldsOf(v)) PROVE Agree(x.list, its, its2) OBVIOUS
    <3>1. x \in FieldsOf(v) /\ x.kind # "EMPTY" BY DEF Filled
    <3>2. x.list = << >> \/ x.list = loose \/ x \in FieldsOf(its[k]) BY <3>1 DEF k
    <3>3. CASE x.list = << >> BY <3>3 DEF Agree
    <3>4. CASE x.list = loose BY <1>4, <3>4
    <3>5. CASE x \in FieldsOf(its[k])
      <4>1. x \in Filled(FieldsOf(its[k])) BY <3>1, <3>5 DEF Filled
      <4> QED BY <1>1, <1>4, <4>1 DEF AllAgree
    <3> QED BY <3>2, <3>3, <3>4, <3>5
  <2>2. NodesStay(nds, nds) BY DEF NodesStay
  <2>3. FencesAgree(its, nds, its2) BY <1>4 DEF AllAgree
  <2> QED BY <2>1, <2>2, <2>3, ItemKept
<1>10. \A m \in DOMAIN its2 :
         (m \in DOMAIN its /\ its2[m] = its[m]) \/ ItemFits(its2[m], its2, nds)
  BY <1>2, <1>9
<1>11. \A m \in DOMAIN nds : (m \in DOMAIN nds /\ nds[m] = nds[m]) \/ NodeFits(nds[m], its2, nds)
  OBVIOUS
<1>12. Opening(g) = Opening(stk[Len(stk)]) BY <1>8
<1> QED BY <1>4, <1>5, <1>7, <1>10, <1>11, <1>12, RangedTop

(* Appending leaves what there is.                                         *)
LEMMA GrownAgree ==
  ASSUME NEW stk \in Seq(FrameType), stk # << >>, NEW its \in Seq(Item),
         NEW nds \in Seq(Built), NEW loose, Owned(stk, its, nds, loose), NEW item \in Item
  PROVE  LET its2 == Append(its, item) IN
         /\ AllAgree(stk, its, nds, its2) /\ Agree(loose, its, its2)
         /\ its2 \in Seq(Item) /\ its2[Len(its) + 1] = item
         /\ Len(its) + 1 \in DOMAIN its2 /\ Len(its) + 1 \notin DOMAIN its
         /\ \A k \in DOMAIN its : k \in DOMAIN its2 /\ its2[k] = its[k]
         /\ \A k \in DOMAIN its2 : k \in DOMAIN its \/ k = Len(its) + 1
         /\ stk[Len(stk)].role = "CELL" => RowsAgree(AllRows(stk[Len(stk)]), its, its2)
<1> DEFINE its2 == Append(its, item)
           n == Len(its) + 1
<1>1. its2 \in Seq(Item) OBVIOUS
<1>2. /\ \A k \in DOMAIN its : k \in DOMAIN its2 /\ its2[k] = its[k]
      /\ its2[n] = item /\ n \in DOMAIN its2 /\ n \notin DOMAIN its
      /\ \A k \in DOMAIN its2 : k \in DOMAIN its \/ k = n
  <2> HIDE DEF Item
  <2> QED BY GrownByOne
<1> HIDE DEF its2, n
<1>3. ItemsBut(its, its2, stk[Len(stk)]) /\ DOMAIN its \subseteq DOMAIN its2
  BY <1>2 DEF ItemsBut
<1>4. AllAgree(stk, its, nds, its2) /\ Agree(loose, its, its2) BY <1>3, Keeps
<1>5. stk[Len(stk)].role = "CELL" => RowsAgree(AllRows(stk[Len(stk)]), its, its2)
  <2>1. Len(stk) \in DOMAIN stk OBVIOUS
  <2> QED BY <1>4, <2>1 DEF AllAgree
<1> QED BY <1>1, <1>2, <1>4, <1>5 DEF its2, n

(* An item fits the arena it is appended to.                               *)
LEMMA NewItemFits ==
  ASSUME NEW stk \in Seq(FrameType), stk # << >>, NEW its \in Seq(Item),
         NEW nds \in Seq(Built), NEW loose, Owned(stk, its, nds, loose),
         NEW item \in Item, ItemFits(item, its, nds),
         \A x \in FieldsOf(item) : x.list = << >> \/ x.list = loose
  PROVE  LET its2 == Append(its, item) IN
         \A m \in DOMAIN its2 :
           (m \in DOMAIN its /\ its2[m] = its[m]) \/ ItemFits(its2[m], its2, nds)
<1> DEFINE its2 == Append(its, item)
<1>1. /\ AllAgree(stk, its, nds, its2) /\ Agree(loose, its, its2)
      /\ its2[Len(its) + 1] = item
      /\ \A k \in DOMAIN its : k \in DOMAIN its2 /\ its2[k] = its[k]
      /\ \A k \in DOMAIN its2 : k \in DOMAIN its \/ k = Len(its) + 1
  BY GrownAgree
<1> HIDE DEF its2
<1>2. \A x \in Filled(FieldsOf(item)) : Agree(x.list, its, its2)
  BY <1>1 DEF Filled, Agree
<1>3. NodesStay(nds, nds) BY DEF NodesStay
<1>4. FencesAgree(its, nds, its2) BY <1>1 DEF AllAgree
<1>5. ItemFits(item, its2, nds) BY <1>2, <1>3, <1>4, ItemKept
<1>6. \A m \in DOMAIN its2 :
        (m \in DOMAIN its /\ its2[m] = its[m]) \/ ItemFits(its2[m], its2, nds)
  BY <1>1, <1>5
<1> QED BY <1>6 DEF its2

(* An item is appended to the list of the top frame, ...                   *)
LEMMA LinkRanged ==
  ASSUME NEW stk \in Seq(FrameType), stk # << >>, NEW its \in Seq(Item),
         NEW nds \in Seq(Built), NEW loose, Owned(stk, its, nds, loose),
         NEW b \in Nat, NEW txt, DOMAIN txt \subseteq Nat, Ranged(stk, its, nds, b, txt),
         NEW f \in FrameType, f = stk[Len(stk)], Idle(f), ~Waiting(f),
         NEW item \in Item, ItemFits(item, its, nds),
         \A x \in FieldsOf(item) : x.list = << >> \/ x.list = loose,
         b <= item.begin, item.begin <= item.end,
         NEW g \in FrameType, Kindred(f, g), g.list = Append(f.list, Len(its) + 1),
         NEW b2 \in Nat, NEW s2 \in Nat, Settled(g, b2) = s2,
         s2 = b \/ (item.begin = b /\ item.end = s2),
         Collecting(g) => g.collect.item = Len(its) + 1 /\ item.begin = g.collect.begin,
         ~Collecting(g) => item.end <= s2,
         MarksFit(g, b2), ArgumentFits(g, b2, nds)
  PROVE  Ranged(SetTop(stk, g), Append(its, item), nds, b2, txt)
<1> DEFINE its2 == Append(its, item)
           k == Len(its) + 1
<1>1. /\ AllAgree(stk, its, nds, its2) /\ its2 \in Seq(Item) /\ its2[k] = item
      /\ k \in DOMAIN its2 /\ k \notin DOMAIN its
      /\ \A m \in DOMAIN its : m \in DOMAIN its2 /\ its2[m] = its[m]
      /\ stk[Len(stk)].role = "CELL" => RowsAgree(AllRows(stk[Len(stk)]), its, its2)
  BY GrownAgree
<1>2. \A m \in DOMAIN its2 :
        (m \in DOMAIN its /\ its2[m] = its[m]) \/ ItemFits(its2[m], its2, nds)
  BY NewItemFits
<1>3. FrameFits(f, b, its, nds, txt) /\ \A j \in DOMAIN f.list : f.list[j] \in DOMAIN its
  BY TopFits
<1>4. g.list = Append(f.list, k) OBVIOUS
<1>5. /\ Collecting(g) => g.collect.item = k /\ item.begin = g.collect.begin
      /\ ~Collecting(g) => item.end <= s2
  OBVIOUS
<1> HIDE DEF its2, k
<1>6. Agree(f.list, its, its2) BY <1>1, <1>3 DEF Agree
<1>7. FrameFits(g, b2, its2, nds, txt)
  <2>1. /\ b <= its2[k].begin /\ its2[k].begin <= its2[k].end
        /\ s2 = b \/ (its2[k].begin = b /\ its2[k].end = s2)
    BY <1>1
  <2>2. /\ Collecting(g) => g.collect.item = k /\ its2[k].begin = g.collect.begin
        /\ ~Collecting(g) => its2[k].end <= s2
    BY <1>1, <1>5
  <2>3. f.role = "CELL" => RowsAgree(AllRows(f), its, its2) BY <1>1
  <2>4. k \notin DOMAIN its /\ its2 \in Seq(Item) /\ k \in DOMAIN its2 BY <1>1
  <2>5. /\ f \in FrameType /\ b \in Nat /\ its \in Seq(Item) /\ FrameFits(f, b, its, nds, txt)
        /\ Idle(f) /\ ~Waiting(f)
    BY <1>3
  <2>6. g \in FrameType /\ Kindred(f, g) /\ b2 \in Nat /\ s2 \in Nat /\ Settled(g, b2) = s2 OBVIOUS
  <2>7. MarksFit(g, b2) /\ ArgumentFits(g, b2, nds) /\ DOMAIN txt \subseteq Nat OBVIOUS
  <2> QED
    BY ONLY <1>4, <1>6, <2>1, <2>2, <2>3, <2>4, <2>5, <2>6, <2>7, FrameGrown, ZenonT(60)
<1>8. Opening(g) = Opening(stk[Len(stk)]) BY DEF Opening, Kindred
<1>9. Spared(stk, nds, nds) BY SparedStill
<1>10. \A m \in DOMAIN nds : (m \in DOMAIN nds /\ nds[m] = nds[m]) \/ NodeFits(nds[m], its2, nds)
  OBVIOUS
<1>11. Ranged(SetTop(stk, g), its2, nds, b2, txt)
  BY <1>1, <1>2, <1>7, <1>8, <1>9, <1>10, RangedTop
<1> QED BY <1>11 DEF its2

(* ... or beside it, for a list in hand.                                   *)
LEMMA BesideRanged ==
  ASSUME NEW stk \in Seq(FrameType), stk # << >>, NEW its \in Seq(Item),
         NEW nds \in Seq(Built), NEW loose, Owned(stk, its, nds, loose),
         NEW b \in Nat, NEW txt, Ranged(stk, its, nds, b, txt),
         NEW item \in Item, ItemFits(item, its, nds),
         \A x \in FieldsOf(item) : x.list = << >> \/ x.list = loose
  PROVE  Ranged(stk, Append(its, item), nds, b, txt)
<1> DEFINE its2 == Append(its, item)
           f == stk[Len(stk)]
<1>1. /\ AllAgree(stk, its, nds, its2)
      /\ \A m \in DOMAIN its : m \in DOMAIN its2 /\ its2[m] = its[m]
      /\ f.role = "CELL" => RowsAgree(AllRows(f), its, its2)
  BY GrownAgree
<1>2. \A m \in DOMAIN its2 :
        (m \in DOMAIN its /\ its2[m] = its[m]) \/ ItemFits(its2[m], its2, nds)
  BY NewItemFits
<1>3. /\ f \in FrameType /\ FrameFits(f, b, its, nds, txt)
      /\ \A j \in DOMAIN f.list : f.list[j] \in DOMAIN its
  BY TopFits
<1>4. SetTop(stk, f) = stk BY TopStill
<1> HIDE DEF its2
<1>5. Agree(f.list, its, its2) BY <1>1, <1>3 DEF Agree
<1>6. FrameFits(f, b, its2, nds, txt)
  <2> HIDE DEF f
  <2> QED BY <1>1, <1>3, <1>5, FrameKept
<1>7. Spared(stk, nds, nds) BY SparedStill
<1>8. \A m \in DOMAIN nds : (m \in DOMAIN nds /\ nds[m] = nds[m]) \/ NodeFits(nds[m], its2, nds)
  OBVIOUS
<1>9. Ranged(SetTop(stk, f), its2, nds, b, txt)
  BY <1>1, <1>2, <1>3, <1>6, <1>7, <1>8, RangedTop
<1> QED BY <1>4, <1>9 DEF its2

(* The top frame turns, and what it builds with it.                        *)
LEMMA TurnRanged ==
  ASSUME NEW stk \in Seq(FrameType), stk # << >>, NEW its \in Seq(Item),
         NEW nds \in Seq(Built), NEW loose, Owned(stk, its, nds, loose),
         NEW b \in Nat, NEW txt, Ranged(stk, its, nds, b, txt),
         NEW nds2, Spared(stk, nds, nds2),
         \A n \in DOMAIN nds2 :
           (n \in DOMAIN nds /\ nds2[n] = nds[n]) \/ NodeFits(nds2[n], its, nds2),
         NEW f \in FrameType, f = stk[Len(stk)],
         NEW g \in FrameType, Kindred(f, g), g.list = f.list, Grasps(f, g),
         NEW b2 \in Nat, Settled(g, b2) = Settled(f, b),
         MarksFit(g, b2), ArgumentFits(g, b2, nds2)
  PROVE  Ranged(SetTop(stk, g), its, nds2, b2, txt)
<1>1. ItemsBut(its, its, stk[Len(stk)]) /\ DOMAIN its \subseteq DOMAIN its BY DEF ItemsBut
<1>2. AllAgree(stk, its, nds, its) BY <1>1, Keeps
<1>3. FrameFits(f, b, its, nds, txt) /\ \A j \in DOMAIN f.list : f.list[j] \in DOMAIN its
  BY TopFits
<1>4. Agree(f.list, its, its) BY <1>3 DEF Agree
<1>5. f.role = "CELL" => RowsAgree(AllRows(f), its, its)
  <2>1. Len(stk) \in DOMAIN stk OBVIOUS
  <2> QED BY <1>2, <2>1 DEF AllAgree
<1>6. FrameFits(g, b2, its, nds2, txt) BY <1>3, <1>4, <1>5, FrameTurned
<1>7. Opening(g) = Opening(stk[Len(stk)]) BY DEF Opening, Kindred
<1>8. \A m \in DOMAIN its : (m \in DOMAIN its /\ its[m] = its[m]) \/ ItemFits(its[m], its, nds2)
  OBVIOUS
<1> QED BY <1>2, <1>6, <1>7, <1>8, RangedTop

(* Only the constructs change.                                             *)
LEMMA BuildRanged ==
  ASSUME NEW stk \in Seq(FrameType), stk # << >>, NEW its \in Seq(Item),
         NEW nds \in Seq(Built), NEW loose, Owned(stk, its, nds, loose),
         NEW b \in Nat, NEW txt, Ranged(stk, its, nds, b, txt),
         NEW nds2, Spared(stk, nds, nds2),
         \A n \in DOMAIN nds2 :
           (n \in DOMAIN nds /\ nds2[n] = nds[n]) \/ NodeFits(nds2[n], its, nds2),
         ArgumentFits(stk[Len(stk)], b, nds2)
  PROVE  Ranged(stk, its, nds2, b, txt)
<1> DEFINE f == stk[Len(stk)]
<1>1. f \in FrameType /\ FrameFits(f, b, its, nds, txt) BY TopFits
<1>2. SetTop(stk, f) = stk BY TopStill
<1>3. MarksFit(f, b) BY <1>1 DEF FrameFits
<1>4. Kindred(f, f) BY DEF Kindred
<1>5. f = stk[Len(stk)] /\ ArgumentFits(f, b, nds2) OBVIOUS
<1> HIDE DEF f
<1>6. Grasps(f, f)
  <2>1. CASE Collecting(f) BY <2>1 DEF Grasps
  <2>2. CASE ~Collecting(f) BY <2>2 DEF Grasps
  <2> QED BY <2>1, <2>2
<1>7. Ranged(SetTop(stk, f), its, nds2, b, txt)
  BY <1>1, <1>3, <1>4, <1>5, <1>6, TurnRanged
<1> QED BY <1>2, <1>7 DEF f

-----------------------------------------------------------------------------
(***************************************************************************)
(* The ranges between two steps, and after what a step has read.           *)
(***************************************************************************)
RangesNow ==
  /\ \E b \in Nat : /\ Ranged(stack, items, nodes, b, text)
                    /\ result.status = "RUNNING" => b = pos
  /\ NothingSkipped

(* The text of the step is there; the handler has still to run.            *)
Laid == Ranged(stack, items, nodes, pos, text')

(* What is settled has been read.                                          *)
LEMMA SettledBound ==
  ASSUME NEW f \in FrameType, NEW b \in Nat, MarksFit(f, b)
  PROVE  Settled(f, b) <= Edge(f, b) /\ Edge(f, b) <= b /\ Settled(f, b) <= b
<1>1. /\ Edge(f, b) \in Nat /\ Settled(f, b) \in Nat /\ f.collect.begin \in Nat
      /\ f.collect.script.mark \in Nat /\ f.wait.at \in Nat
  BY Measures
<1>2. Edge(f, b) <= b BY <1>1 DEF Edge, MarksFit
<1>3. Settled(f, b) <= Edge(f, b)
  <2>1. CASE Collecting(f) BY <1>1, <2>1 DEF Settled, MarksFit
  <2>2. CASE ~Collecting(f) /\ Pending(f) BY <1>1, <2>2 DEF Settled, MarksFit
  <2>3. CASE ~Collecting(f) /\ ~Pending(f) BY <1>1, <2>3 DEF Settled, MarksFit
  <2> QED BY <2>1, <2>2, <2>3
<1> QED BY <1>1, <1>2, <1>3

(* No frame is past what has been consumed.                                *)
LEMMA BoundRead ==
  ASSUME Standing, NEW txt, Ranged(stack, items, nodes, pos, txt), NEW i \in DOMAIN stack
  PROVE  /\ BoundAt(stack, i, pos) \in Nat /\ BoundAt(stack, i, pos) <= pos
         /\ Settled(stack[i], BoundAt(stack, i, pos)) <= pos
<1> DEFINE n == Len(stack)
           x == BoundAt(stack, i, pos)
           f == stack[i]
<1>1. /\ stack \in Seq(FrameType) /\ pos \in Nat /\ IInv BY TopParts DEF Standing
<1>2. n \in Nat /\ DOMAIN stack = 1 .. n /\ f \in FrameType BY <1>1
<1>3. x \in Nat /\ x <= pos
  <2>1. CASE i = n BY <1>1, <2>1 DEF BoundAt
  <2>2. CASE i # n
    <3> DEFINE g == stack[i + 1]
               y == BoundAt(stack, i + 1, pos)
    <3>1. i + 1 \in DOMAIN stack /\ i + 1 \in 2 .. n BY <1>2, <2>2
    <3>2. g \in FrameType BY <1>1, <3>1
    <3>3. Firm(g, items, nodes, pos) BY <3>1 DEF Standing, Sound
    <3>4. PushedOn(stack[i + 1 - 1], stack[i + 1])
      BY <1>1, <3>1 DEF IInv, Good, Disciplined
    <3>5. FrameFits(g, y, items, nodes, txt) BY <3>1 DEF Ranged
    <3>6. x = Opening(g) BY <2>2 DEF BoundAt
    <3> HIDE DEF g, x, y
    <3>7. g.role # "ROOT" BY <3>4 DEF PushedOn, g
    <3>8. g.open \in Nat /\ Opening(g) \in Nat /\ g.script.mark \in Nat
      BY <1>1, <3>2, Measures
    <3>9. g.open + 1 <= pos BY <3>3, <3>7 DEF Firm, Dated
    <3>10. g.role = "SCRIPT" => g.script.mark <= g.open BY <3>5 DEF FrameFits, MarksFit
    <3>11. Opening(g) <= g.open BY <3>8, <3>10 DEF Opening
    <3> QED BY <1>1, <3>6, <3>8, <3>9, <3>11
  <2> QED BY <2>1, <2>2
<1>4. FrameFits(f, x, items, nodes, txt) BY DEF Ranged
<1> HIDE DEF f, x
<1>5. MarksFit(f, x) BY <1>4 DEF FrameFits
<1>6. Settled(f, x) <= x BY <1>2, <1>3, <1>5, SettledBound
<1>7. Settled(f, x) \in Nat BY <1>2, <1>3, Measures
<1> QED BY <1>1, <1>3, <1>6, <1>7 DEF f, x

(* Reading on changes nothing of what was read.                            *)
LEMMA TextRead ==
  ASSUME Standing, Poised, TextStays, Ranged(stack, items, nodes, pos, text)
  PROVE  Laid
<1>1. /\ text \in Seq(Source) /\ pos \in Nat /\ pos <= Len(text)
      /\ text' \in Seq(Source)
  BY DEF Standing, IInv, Reading, ReadTo, Poised
<1>2. /\ Len(text) \in Nat /\ DOMAIN text = 1 .. Len(text) /\ Len(text') \in Nat
      /\ DOMAIN text' = 1 .. Len(text')
  BY <1>1
<1> DEFINE new == text'
<1>3. \A p \in DOMAIN new : p <= pos => p \in DOMAIN text /\ new[p] = text[p]
  <2> SUFFICES ASSUME NEW p \in DOMAIN new, p <= pos
               PROVE  p \in DOMAIN text /\ new[p] = text[p]
    OBVIOUS
  <2>1. p \in 1 .. pos /\ p \in 1 .. Len(text) BY <1>1, <1>2
  <2> QED BY <1>2, <2>1 DEF TextStays
<1>4. \A p \in DOMAIN new : p \in Nat BY <1>2
<1> HIDE DEF new
<1>5. ASSUME NEW i \in DOMAIN stack
      PROVE  FrameFits(stack[i], BoundAt(stack, i, pos), items, nodes, new)
  <2> DEFINE f == stack[i]
             x == BoundAt(stack, i, pos)
             s == Settled(f, x)
  <2>1. x \in Nat /\ s <= pos BY BoundRead
  <2>2. FrameFits(f, x, items, nodes, text) BY DEF Ranged
  <2>3. f \in FrameType
    <3>1. stack \in Seq(FrameType) BY TopParts DEF Standing
    <3> QED BY <3>1
  <2> HIDE DEF f, x
  <2>4. s \in Nat BY <2>1, <2>3, Measures
  <2>5. Covering(f, s, items, text) BY <2>2 DEF FrameFits
  <2> HIDE DEF s
  <2>6. Covering(f, s, items, new)
    <3> SUFFICES ASSUME f.role = "ROOT", NEW p \in DOMAIN new, p <= s,
                        new[p] \notin Blank \cup {"END"}
                 PROVE  \E j \in DOMAIN f.list :
                          items[f.list[j]].begin < p /\ p <= items[f.list[j]].end
      BY DEF Covering
    <3>1. p <= pos BY <1>1, <1>4, <2>1, <2>4
    <3>2. p \in DOMAIN text /\ text[p] = new[p] BY <1>3, <3>1
    <3> QED BY <2>5, <3>2 DEF Covering
  <2> QED BY <2>2, <2>6 DEF FrameFits, s, f, x
<1>6. Ranged(stack, items, nodes, pos, new) BY <1>5 DEF Ranged
<1> QED BY <1>6 DEF Laid, new

(* A handler that leaves what fits.                                        *)
LEMMA BecameRanged ==
  ASSUME result.status = "RUNNING", pos' \in Nat, NEW stk, NEW its, NEW nds,
         Becomes(stk, its, nds), Ranged(stk, its, nds, pos', text')
  PROVE  RangesNow'
<1>1. stack' = stk /\ items' = its /\ nodes' = nds /\ result' = result BY DEF Becomes
<1>2. Ranged(stack', items', nodes', pos', text') BY <1>1
<1> QED BY <1>1, <1>2 DEF RangesNow, NothingSkipped

(* A handler that stops the parse.                                         *)
LEMMA StoppedRanged ==
  ASSUME Laid, pos \in Nat,
         \/ OutOfMemory
         \/ \E what, b, e : Refuse(what, b, e)
         \/ \E what : Fail(what)
         \/ \E at : Malformed(at)
         \/ BadName
  PROVE  RangesNow'
<1>0. ASSUME NEW status \in {"UNSUPPORTED", "INVALID_UTF8", "ALLOCATION_FAILED"},
             NEW what, NEW b, NEW e, Stop(status, what, b, e)
      PROVE  /\ UNCHANGED <<stack, items, nodes>>
             /\ result'.status \in {"UNSUPPORTED", "INVALID_UTF8", "ALLOCATION_FAILED"}
  BY <1>0 DEF Stop
<1>1. /\ UNCHANGED <<stack, items, nodes>>
      /\ result'.status \in {"UNSUPPORTED", "INVALID_UTF8", "ALLOCATION_FAILED"}
  BY <1>0 DEF OutOfMemory, Refuse, Fail, Malformed, BadName
<1>2. Ranged(stack', items', nodes', pos, text') BY <1>1 DEF Laid
<1> QED BY <1>1, <1>2 DEF RangesNow, NothingSkipped

(* The end of the source: the root has settled all of it.                  *)
LEMMA AcceptRanged == ASSUME Standing, Laid, Accept PROVE RangesNow'
<1>1. Scan("END") /\ Top.role = "ROOT" /\ Idle(Top) /\ ~Waiting(Top) /\ Stop("OK", "", 0, 0)
  BY DEF Accept
<1>2. /\ UNCHANGED <<stack, items, nodes>> /\ result'.status = "OK" BY <1>1 DEF Stop
<1>3. /\ text \in Seq(Source) /\ pos \in Nat /\ ReadTo(text, pos) /\ IInv
  BY DEF Standing, IInv, Reading
<1>4. "END" \in Source /\ "END" # "SPACE" BY AlphabetRead
<1>5. text' = With("END") /\ pos' = pos + 1 /\ Upcoming("END") BY <1>1 DEF Scan
<1>6. /\ text' \in Seq(Source) /\ Len(text') = pos + 1 /\ text'[pos + 1] = "END"
  BY <1>3, <1>4, <1>5, WithRead
<1>7. /\ stack \in Seq(FrameType) /\ stack # << >> /\ Top \in FrameType
      /\ Top = stack[Len(stack)] /\ Disciplined(stack)
  BY <1>3, TopParts
<1>8. Len(stack) = 1
  <2> DEFINE n == Len(stack)
  <2>1. n \in Nat /\ n >= 1 BY <1>7
  <2>2. \A i \in 2 .. n : PushedOn(stack[i - 1], stack[i]) BY <1>7 DEF Disciplined
  <2>3. stack[n].role = "ROOT" BY <1>1, <1>7
  <2> HIDE DEF n
  <2>4. n \notin 2 .. n BY <2>2, <2>3 DEF PushedOn
  <2>5. n = 1 BY <2>1, <2>4
  <2> QED BY <2>5 DEF n
<1> DEFINE f   == Top
           new == text'
<1>9. FrameFits(f, pos, items, nodes, new) BY <1>7, TopFits DEF Laid
<1>10. stack'[1] = f /\ items' = items BY <1>2, <1>7, <1>8
<1>11. f.role = "ROOT" /\ Idle(f) /\ ~Waiting(f) BY <1>1
<1>12. /\ new \in Seq(Source) /\ Len(new) = pos + 1 /\ new[pos + 1] = "END" BY <1>6
<1> HIDE DEF f
<1>13. Settled(f, pos) = pos BY <1>11, IdleMarks
<1>14. Covering(f, pos, items, new) BY <1>9, <1>13 DEF FrameFits
<1>15. ASSUME NEW p \in DOMAIN new, new[p] \notin Blank \cup {"END"}
       PROVE  \E j \in DOMAIN f.list : items[f.list[j]].begin < p /\ p <= items[f.list[j]].end
  <2>1. p \in 1 .. pos + 1 BY <1>12
  <2>2. p # pos + 1 BY <1>12, <1>15
  <2>3. p <= pos BY <1>3, <2>1, <2>2
  <2> QED BY <1>11, <1>14, <1>15, <2>3 DEF Covering
<1>16. NothingSkipped'
  <2>1. pos' = Len(new) /\ new[pos'] = "END" BY <1>5, <1>12
  <2> QED BY <1>10, <1>15, <2>1 DEF NothingSkipped, NonBlank
<1>17. Ranged(stack', items', nodes', pos, text') BY <1>2 DEF Laid
<1> QED BY <1>2, <1>3, <1>16, <1>17 DEF RangesNow

(* Handlers that only stop the parse.                                      *)
LEMMA RefusedRanged ==
  ASSUME Standing, Laid,
         \/ Accept \/ EndTooEarly \/ ScanError \/ ParagraphBreak \/ UnmatchedBrace
         \/ MisplacedRow
         \/ \E t \in Alphabet : MissingDelimiter(t) \/ MissingArgument(t) \/ Unsupported(t)
  PROVE  RangesNow'
<1>0. pos \in Nat BY DEF Standing, IInv
<1>1. CASE Accept BY <1>1, AcceptRanged
<1>2. CASE EndTooEarly
  <2>1. \E what, b, e : Refuse(what, b, e) BY <1>2 DEF EndTooEarly
  <2> QED BY <1>0, <2>1, StoppedRanged
<1>3. CASE ScanError BY <1>0, <1>3, StoppedRanged DEF ScanError
<1>4. CASE ParagraphBreak \/ UnmatchedBrace \/ MisplacedRow
  <2>1. \E what : Fail(what) BY <1>4 DEF ParagraphBreak, UnmatchedBrace, MisplacedRow
  <2> QED BY <1>0, <2>1, StoppedRanged
<1>5. ASSUME NEW t \in Alphabet, MissingDelimiter(t) \/ MissingArgument(t) \/ Unsupported(t)
      PROVE  RangesNow'
  <2>1. \E what : Fail(what) BY <1>5 DEF MissingDelimiter, MissingArgument, Unsupported
  <2> QED BY <1>0, <2>1, StoppedRanged
<1> QED BY <1>1, <1>2, <1>3, <1>4, <1>5

-----------------------------------------------------------------------------
(***************************************************************************)
(* Delivery keeps the ranges.                                              *)
(***************************************************************************)

(* A frame changed in what it collects, owes, waits for or lists.          *)
LEMMA KindredSet ==
  ASSUME NEW f \in FrameType
  PROVE  /\ \A c : Kindred(f, [f EXCEPT !.collect = c])
         /\ \A s : Kindred(f, [f EXCEPT !.pending = s])
         /\ \A w : Kindred(f, [f EXCEPT !.wait = w])
         /\ \A l : Kindred(f, [f EXCEPT !.list = l])
         /\ \A s, c : Kindred(f, [f EXCEPT !.pending = s, !.collect = c])
BY DEF FrameType, Kindred

(* Kin of kin is kin.                                                      *)
LEMMA KindredThrough ==
  ASSUME NEW f, NEW g, NEW h, Kindred(f, g), Kindred(g, h) PROVE Kindred(f, h)
BY DEF Kindred

(* The item that a frame's script will land on ends where it has settled.  *)
LEMMA TailSettled ==
  ASSUME NEW f \in FrameType, NEW its \in Seq(Item), NEW s, f.list # << >>,
         InOrder(f.list, its), Reaching(f, s, its)
  PROVE  /\ Tail1(f) \in DOMAIN its /\ its[Tail1(f)] \in Item
         /\ ~Collecting(f) \/ f.collect.item = 0 => its[Tail1(f)].end <= s
         /\ Collecting(f) /\ f.collect.item = Tail1(f) =>
              its[Tail1(f)].begin = f.collect.begin
<1>1. f.list \in Seq(Nat) BY Measures, 0 \in Nat
<1>2. Len(f.list) \in DOMAIN f.list BY <1>1
<1>3. Tail1(f) \in DOMAIN its BY <1>2 DEF InOrder, Tail1
<1>4. Tail1(f) # 0 /\ its[Tail1(f)] \in Item BY <1>3
<1>5. IF Collecting(f) /\ Tail1(f) = f.collect.item
        THEN its[Tail1(f)].begin = f.collect.begin
        ELSE its[Tail1(f)].end <= s
  BY <1>2 DEF Reaching, Tail1
<1> QED BY <1>3, <1>4, <1>5

(* A script lands on the last item.                                        *)
LEMMA FillRanged ==
  ASSUME NEW stk \in Seq(FrameType), stk # << >>, NEW its \in Seq(Item),
         NEW nds \in Seq(Built), NEW field \in Field, field.kind # "EMPTY",
         Owned(stk, its, nds, field.list),
         NEW b \in Nat, NEW txt, DOMAIN txt \subseteq Nat, Ranged(stk, its, nds, b, txt),
         NEW f \in FrameType, f = stk[Len(stk)], Rising(f.list),
         NEW script \in Script, OpenFor(f, script, its), Settled(f, b) = script.mark,
         ~Collecting(f) \/ f.collect.item = 0,
         FieldFits(Widened(field, script.mark), its, nds),
         NEW g \in FrameType, Kindred(f, g), g.list = f.list, Idle(g), ~Waiting(g)
  PROVE  Ranged(SetTop(stk, g), FillScript(its, script, field), nds, field.end, txt)
<1> DEFINE k == Tail1(f)
           it == its[k]
           v == Scripted(it, script, field)
           x == script.mark
           q == field.end
<1>1. f.list # << >> /\ script.target = k /\ ScriptField(it, script.kind).kind = "EMPTY"
  BY DEF OpenFor
<1>2. FrameFits(f, b, its, nds, txt) /\ k \in DOMAIN its BY <1>1, TopFits
<1>3. InOrder(f.list, its) /\ Reaching(f, x, its) BY <1>2 DEF FrameFits
<1>4. it \in Item /\ it.end <= x BY <1>1, <1>3, TailSettled
<1>5. ItemFits(it, its, nds) BY <1>2 DEF Ranged
<1>6. x \in Nat /\ q \in Nat BY DEF Script, Field
<1>7. x <= q
  <2>1. Widened(field, x).begin = x /\ Widened(field, x).end = q BY <1>6, WidenedIs
  <2>2. x < q BY <2>1 DEF FieldFits
  <2> QED BY <1>6, <2>2
<1>8. FillScript(its, script, field) = [its EXCEPT ![k] = v] BY <1>1 DEF FillScript
<1>9. f.list # << >> /\ Settled(f, b) <= q BY <1>1, <1>7
<1> HIDE DEF it
<1>10. /\ v \in Item /\ v.begin = it.begin /\ v.end = q /\ ItemFits(v, its, nds)
       /\ \A y \in FieldsOf(v) : y \in FieldsOf(it) \/ y.list = field.list
  BY <1>1, <1>4, <1>5, ScriptedFits
<1> HIDE DEF v, k, q
<1>11. v.begin = its[Tail1(f)].begin BY <1>10 DEF it, k
<1>12. \A y \in FieldsOf(v) : y.list = << >> \/ y.list = field.list \/ y \in FieldsOf(its[Tail1(f)])
  BY <1>10 DEF it, k
<1> DEFINE its2 == [its EXCEPT ![k] = v]
<1>13. its2 = [its EXCEPT ![Tail1(f)] = v] BY DEF k
<1> HIDE DEF its2
<1>14. Ranged(SetTop(stk, g), its2, nds, q, txt)
  BY <1>6, <1>9, <1>10, <1>11, <1>12, <1>13, AmendRanged
<1> QED BY <1>8, <1>14 DEF its2, q

(* Where what a frame collects begins: at its mark, or at its command.     *)
Start(c) == IF c.item = 0 THEN c.script.mark ELSE c.begin

(* What a collector stages lands.                                          *)
LEMMA LandRanged ==
  ASSUME NEW stk \in Seq(FrameType), stk # << >>, NEW its \in Seq(Item),
         NEW nds \in Seq(Built), NEW staged \in Field, staged.kind # "EMPTY",
         Owned(stk, its, nds, staged.list),
         NEW b \in Nat, NEW txt, DOMAIN txt \subseteq Nat, Ranged(stk, its, nds, b, txt),
         NEW f \in FrameType, f = stk[Len(stk)], Rising(f.list),
         Collecting(f), Aimed(f, its),
         FieldFits(Widened(staged, Start(f.collect)), its, nds),
         NEW g \in FrameType, Kindred(f, g), g.list = f.list, Idle(g), ~Waiting(g)
  PROVE  Ranged(SetTop(stk, g), Landed(its, f.collect, staged), nds, staged.end, txt)
<1> DEFINE c == f.collect
           q == staged.end
<1>1. c \in Collect /\ c.script \in Script /\ c.begin \in Nat /\ q \in Nat
  BY DEF FrameType, Collect, Field
<1>2. CASE c.item = 0
  <2> DEFINE s == c.script
  <2>1. s \in Script /\ OpenFor(f, s, its) /\ Settled(f, b) = s.mark
    BY <1>1, <1>2 DEF Aimed, Settled
  <2>2. Landed(its, c, staged) = FillScript(its, s, staged) BY <1>2 DEF Landed
  <2>3. ~Collecting(f) \/ f.collect.item = 0 BY <1>2
  <2>4. FieldFits(Widened(staged, s.mark), its, nds) BY <1>2 DEF Start
  <2> HIDE DEF s, c
  <2>5. Ranged(SetTop(stk, g), FillScript(its, s, staged), nds, staged.end, txt)
    BY <2>1, <2>3, <2>4, FillRanged
  <2> QED BY <2>2, <2>5 DEF c
<1>3. CASE c.item # 0
  <2> DEFINE k == Tail1(f)
             it == its[k]
             x == c.begin
             v == LandedOn(it, staged, x)
  <2>1. /\ f.list # << >> /\ c.item = k /\ it.kind = "ATOM" /\ it.nucleus.kind = "EMPTY"
        /\ it.sup.kind = "EMPTY" /\ it.sub.kind = "EMPTY"
    BY <1>3 DEF Aimed, Bare
  <2>2. FrameFits(f, b, its, nds, txt) /\ k \in DOMAIN its BY <2>1, TopFits
  <2>3. InOrder(f.list, its) /\ Reaching(f, Settled(f, b), its) BY <2>2 DEF FrameFits
  <2>4. it \in Item /\ it.begin = x BY <2>1, <2>3, TailSettled
  <2>5. ~it.subFirst
    <3>1. ItemFits(it, its, nds) BY <2>2 DEF Ranged
    <3> QED BY <2>1, <3>1 DEF ItemFits, ScriptsApart
  <2>6. FieldFits(Widened(staged, x), its, nds) BY <1>3 DEF Start
  <2>7. x \in Nat /\ x <= q /\ Settled(f, b) = x
    <3>1. Widened(staged, x).begin = x /\ Widened(staged, x).end = q BY <1>1, WidenedIs
    <3>2. x < q BY <2>6, <3>1 DEF FieldFits
    <3>3. Settled(f, b) = x BY <1>3 DEF Settled
    <3>4. x \in Nat /\ q \in Nat BY <1>1
    <3> HIDE DEF x, q
    <3> QED BY <3>2, <3>3, <3>4
  <2>8. Landed(its, c, staged) = [its EXCEPT ![k] = v] BY <1>3, <2>1 DEF Landed, LandedOn
  <2> HIDE DEF it, x
  <2>9. /\ v \in Item /\ v.begin = x /\ v.end = staged.end /\ ItemFits(v, its, nds)
        /\ \A y \in FieldsOf(v) : y.list = << >> \/ y.list = staged.list
    <3>1. it.kind = "ATOM" /\ it \in Item /\ x \in Nat BY <2>1, <2>4, <2>7
    <3>2. ~it.subFirst BY <2>5
    <3>3. FieldFits(Widened(staged, x), its, nds) BY <2>6
    <3> QED BY <3>1, <3>2, <3>3, LandedFits
  <2> HIDE DEF v
  <2>10. v.begin = its[Tail1(f)].begin /\ Settled(f, b) <= q /\ v.end = q /\ f.list # << >>
    BY <2>1, <2>4, <2>7, <2>9 DEF it
  <2> HIDE DEF k, q
  <2>11. \A y \in FieldsOf(v) :
          y.list = << >> \/ y.list = staged.list \/ y \in FieldsOf(its[Tail1(f)])
    BY <2>9
  <2> DEFINE its2 == [its EXCEPT ![k] = v]
  <2>12. its2 = [its EXCEPT ![Tail1(f)] = v] BY DEF k
  <2> HIDE DEF its2
  <2>13. Ranged(SetTop(stk, g), its2, nds, q, txt)
    BY <1>1, <2>9, <2>10, <2>11, <2>12, AmendRanged
  <2> QED BY <2>8, <2>13 DEF its2, q
<1> QED BY <1>2, <1>3

(* What a construct refers to is there.                                    *)
LEMMA SelfAgree ==
  ASSUME NEW n, NEW its, NEW nds, NodeFits(n, its, nds)
  PROVE  /\ \A f \in Filled(NodeFields(n)) : Agree(f.list, its, its)
         /\ Agree(n.list, its, its) /\ RowsAgree(n.rows, its, its)
<1>1. \A f \in Filled(NodeFields(n)) : Agree(f.list, its, its)
  BY DEF NodeFits, FieldFits, InOrder, Agree
<1>2. Agree(n.list, its, its) BY DEF NodeFits, InOrder, Agree
<1>3. RowsAgree(n.rows, its, its) BY DEF NodeFits, RowsFit, CellFits, Spans, RowsAgree, Agree
<1> QED BY <1>1, <1>2, <1>3

(* A construct with an argument stored.                                    *)
Storing(nd, field, u) == u = [nd EXCEPT !.first = field] \/ u = [nd EXCEPT !.last = field]

(* An argument is stored in the construct that the top frame builds.       *)
LEMMA ArgumentStored ==
  ASSUME NEW stk, NEW its, NEW nds, NEW p, Good(stk, its, nds), Sound(stk, its, nds, p),
         NEW loose, Owned(stk, its, nds, loose),
         NEW b \in Nat, NEW txt, Ranged(stk, its, nds, b, txt),
         NEW f, f = stk[Len(stk)], Building(f),
         NEW field, field.kind # "EMPTY", FieldFits(field, its, nds),
         NEW u, Storing(nds[f.collect.node], field, u),
         NEW nds2, nds2 = [nds EXCEPT ![f.collect.node] = u]
  PROVE  /\ Spared(stk, nds, nds2) /\ FieldFits(field, its, nds2)
         /\ \A n \in DOMAIN nds2 :
              (n \in DOMAIN nds /\ nds2[n] = nds[n]) \/ NodeFits(nds2[n], its, nds2)
<1> DEFINE k  == f.collect.node
           nd == nds[k]
<1>1. /\ stk \in Seq(FrameType) /\ stk # << >> /\ its \in Seq(Item) /\ nds \in Seq(Built)
  BY TopGood
<1>2. Firm(f, its, nds, p) BY TopFirm
<1>3. k \in DOMAIN nds BY <1>2 DEF Firm, Begun
<1>4. nd \in Built BY <1>1, <1>3
<1>5. /\ DOMAIN nds2 = DOMAIN nds /\ nds2[k] = u
      /\ \A m \in DOMAIN nds : m # k => nds2[m] = nds[m]
  <2> HIDE DEF k
  <2> QED BY <1>1, <1>3 DEF k
<1>6. NodesBut(nds, nds2, f) BY <1>5 DEF NodesBut
<1>7. Spared(stk, nds, nds2) BY <1>6, NodesKept
<1>8. ItemsBut(its, its, f) /\ DOMAIN its \subseteq DOMAIN its BY DEF ItemsBut
<1>9. FencesAgree(its, nds, its) BY <1>1, <1>8, Keeps DEF AllAgree
<1>10. NodeFits(nd, its, nds) BY <1>3 DEF Ranged
<1>11. u = [nd EXCEPT !.first = field] \/ u = [nd EXCEPT !.last = field] BY DEF Storing
<1> HIDE DEF k, nd
<1>12. NodeFits(u, its, nds)
  <2>1. NodeFits([nd EXCEPT !.first = field], its, nds) BY <1>4, <1>10, StoredFits
  <2>2. NodeFits([nd EXCEPT !.last = field], its, nds) BY <1>4, <1>10, StoredFits
  <2> QED BY <1>11, <2>1, <2>2
<1>13. NodesStay(nds, nds2) BY <1>7 DEF Spared
<1>14. NodeFits(u, its, nds2) BY <1>9, <1>12, <1>13, SelfAgree, NodeKept
<1>15. Agree(field.list, its, its) BY DEF FieldFits, InOrder, Agree
<1>16. FieldFits(field, its, nds2) BY <1>9, <1>13, <1>15, FieldKept
<1> QED BY <1>5, <1>7, <1>14, <1>16

(* A construct is given its first argument, and its collector goes on.     *)
FirstSet(nds, k, field) == [nds EXCEPT ![k] = [@ EXCEPT !.first = field]]

GoesOnCollecting(f, g) ==
  /\ Kindred(f, g) /\ g.list = f.list /\ ~Pending(g) /\ ~Waiting(g) /\ Collecting(g)
  /\ g.collect.item = f.collect.item /\ g.collect.begin = f.collect.begin
  /\ g.collect.script = f.collect.script /\ g.collect.node = f.collect.node

(* A collector that has its first argument goes on.                        *)
LEMMA GoesOnWith ==
  ASSUME NEW f \in FrameType, Collecting(f), ~Pending(f), ~Waiting(f)
  PROVE  LET g == [f EXCEPT !.collect.second = TRUE] IN
         g \in FrameType /\ GoesOnCollecting(f, g)
<1> DEFINE half == [f.collect EXCEPT !.second = TRUE]
           g    == [f EXCEPT !.collect = half]
<1>1. f.collect \in Collect BY DEF FrameType
<1>2. /\ half \in Collect /\ half.kind = f.collect.kind /\ half.item = f.collect.item
      /\ half.begin = f.collect.begin /\ half.script = f.collect.script
      /\ half.node = f.collect.node
  BY <1>1 DEF Collect
<1>3. g = [f EXCEPT !.collect.second = TRUE] OBVIOUS
<1> HIDE DEF half
<1>4. /\ g \in FrameType /\ g.list = f.list /\ g.collect = half /\ g.pending = f.pending
      /\ g.wait = f.wait
  BY <1>2, CollectSet
<1>5. Kindred(f, g) BY KindredSet
<1> HIDE DEF g
<1>6. GoesOnCollecting(f, g)
  BY <1>2, <1>4, <1>5 DEF GoesOnCollecting, Collecting, Pending, Waiting
<1> QED BY <1>3, <1>4, <1>6

(* The first argument of a construct that takes two.                       *)
LEMMA FirstRanged ==
  ASSUME NEW stk, NEW its, NEW nds, NEW p, Good(stk, its, nds), Sound(stk, its, nds, p),
         NEW loose, Owned(stk, its, nds, loose),
         NEW b \in Nat, NEW txt, Ranged(stk, its, nds, b, txt),
         NEW f, f = stk[Len(stk)], Building(f), ~Waiting(f),
         NEW field, field.kind # "EMPTY", FieldFits(field, its, nds), field.begin = b,
         NEW q \in Nat, field.end = q,
         NEW g \in FrameType, GoesOnCollecting(f, g),
         NEW nds2, nds2 = FirstSet(nds, f.collect.node, field)
  PROVE  Ranged(SetTop(stk, g), its, nds2, q, txt)
<1> DEFINE k == f.collect.node
           nd == nds[k]
           u == [nd EXCEPT !.first = field]
<1>1. /\ stk \in Seq(FrameType) /\ stk # << >> /\ its \in Seq(Item) /\ nds \in Seq(Built)
      /\ f \in FrameType
  BY TopGood
<1>0. /\ Kindred(f, g) /\ g.list = f.list /\ ~Pending(g) /\ ~Waiting(g) /\ Collecting(g)
      /\ g.collect.item = f.collect.item /\ g.collect.begin = f.collect.begin
      /\ g.collect.script = f.collect.script /\ g.collect.node = f.collect.node
  BY DEF GoesOnCollecting
<1>2. /\ Spared(stk, nds, nds2)
      /\ \A n \in DOMAIN nds2 :
           (n \in DOMAIN nds /\ nds2[n] = nds[n]) \/ NodeFits(nds2[n], its, nds2)
  <2>1. Storing(nds[f.collect.node], field, u) BY DEF Storing
  <2>2. nds2 = [nds EXCEPT ![f.collect.node] = u] BY DEF FirstSet
  <2>3. Good(stk, its, nds) /\ Sound(stk, its, nds, p) OBVIOUS
  <2>4. Owned(stk, its, nds, loose) OBVIOUS
  <2>5. b \in Nat /\ Ranged(stk, its, nds, b, txt) OBVIOUS
  <2>6. f = stk[Len(stk)] /\ Building(f) OBVIOUS
  <2>7. field.kind # "EMPTY" /\ FieldFits(field, its, nds) OBVIOUS
  <2> HIDE DEF u, nd, k
  <2> QED BY ONLY <2>1, <2>2, <2>3, <2>4, <2>5, <2>6, <2>7, ArgumentStored, ZenonT(60)
<1>3. FrameFits(f, b, its, nds, txt) BY <1>1, TopFits
<1>4. MarksFit(f, b) BY <1>3 DEF FrameFits
<1>5. b < q BY DEF FieldFits
<1>6. Edge(f, b) = b /\ Edge(g, q) = q BY <1>0 DEF Edge
<1>7. Settled(g, q) = Settled(f, b) BY <1>0 DEF Settled, Building
<1>8. Grasps(f, g) BY <1>0 DEF Grasps, Building
<1>9. Floor(g) = Floor(f) BY <1>0 DEF Floor, Kindred
<1>10. f.collect.begin \in Nat /\ f.collect.begin <= b
  BY <1>1, <1>4, <1>6, Measures DEF MarksFit, Building
<1>11. MarksFit(g, q)
  <2>1. g.role = "SCRIPT" => g.script.mark <= g.open BY <1>0, <1>4 DEF MarksFit, Kindred
  <2>2. Floor(g) <= Settled(g, q) BY <1>0, <1>4, <1>7, <1>9 DEF MarksFit
  <2>3. g.collect.begin <= Edge(g, q) BY <1>0, <1>5, <1>6, <1>10
  <2>4. g.collect.item = 0 => g.collect.script.mark <= g.collect.begin
    BY <1>0, <1>4 DEF MarksFit, Building
  <2> QED BY <1>0, <2>1, <2>2, <2>3, <2>4 DEF MarksFit
<1>12. ArgumentFits(g, q, nds2)
  <2>1. k \in DOMAIN nds /\ nd \in Built
    <3>1. Firm(f, its, nds, p) BY TopFirm
    <3>2. k \in DOMAIN nds BY <3>1 DEF Firm, Begun
    <3> QED BY <1>1, <3>2
  <2>2. nds2[k] = u /\ u.first = field
    <3>1. nds2 = [nds EXCEPT ![k] = u] BY DEF FirstSet
    <3>2. u.first = field
      <4> HIDE DEF nd
      <4> QED BY <2>1 DEF Built
    <3> HIDE DEF u, k
    <3> QED BY <1>1, <2>1, <3>1, <3>2
  <2> HIDE DEF u
  <2>3. nds2[g.collect.node].first = field BY <1>0, <2>2
  <2>4. g.collect.begin <= field.begin /\ field.end <= Edge(g, q) BY <1>0, <1>6, <1>10
  <2> QED BY <2>3, <2>4 DEF ArgumentFits
<1> HIDE DEF u, nd, k
<1> QED BY <1>0, <1>1, <1>2, <1>7, <1>8, <1>11, <1>12, TurnRanged

(* What is staged ends where the argument does.                            *)
LEMMA StagedEnd ==
  ASSUME NEW c \in Collect, NEW field \in Field
  PROVE  Staged(c, field).end = field.end
<1>1. CASE c.kind # "STYLE" BY <1>1 DEF Staged, NodeField, Empty
<1>2. CASE c.kind = "STYLE" BY <1>2 DEF Staged, TextArgument, Field
<1> QED BY <1>1, <1>2

(* Where what a collector stages will begin.                               *)
LEMMA StartBefore ==
  ASSUME NEW f \in FrameType, NEW b \in Nat, Collecting(f), ~Waiting(f), MarksFit(f, b)
  PROVE  /\ Start(f.collect) \in Nat /\ Start(f.collect) <= f.collect.begin
         /\ f.collect.begin <= b /\ Edge(f, b) = b
<1>1. f.collect \in Collect /\ f.collect.begin \in Nat /\ f.collect.script.mark \in Nat
  BY DEF FrameType, Collect, Script
<1> QED BY <1>1 DEF MarksFit, Edge, Start

(* A construct is given its last argument.                                 *)
LastSet(nds, k, field) == [nds EXCEPT ![k] = [@ EXCEPT !.last = field]]

Given(c, field, nds) ==
  /\ c.node \in DOMAIN nds /\ nds[c.node].kind = c.kind /\ nds[c.node].last = field
  /\ nds[c.node].list = << >>
  /\ nds[c.node].first.kind # "EMPTY" =>
       c.begin <= nds[c.node].first.begin /\ nds[c.node].first.end <= field.begin

(* It may be staged.                                                       *)
LEMMA StagedGiven ==
  ASSUME NEW its \in Seq(Item), NEW nds \in Seq(Built),
         NEW c \in Collect, c.kind # "NONE", NEW field \in Field, field.kind # "EMPTY",
         FieldFits(field, its, nds), c.begin <= field.begin, NEW x \in Nat, x <= c.begin,
         c.kind # "STYLE" => Given(c, field, nds)
  PROVE  FieldFits(Widened(Staged(c, field), x), its, nds)
BY StagedFits DEF Given

(* The last argument of a construct.                                       *)
LEMMA LastStored ==
  ASSUME NEW stk, NEW its, NEW nds, NEW p, Good(stk, its, nds), Sound(stk, its, nds, p),
         NEW loose, Owned(stk, its, nds, loose),
         NEW b \in Nat, NEW txt, Ranged(stk, its, nds, b, txt),
         NEW f, f = stk[Len(stk)], Building(f), ~Waiting(f),
         NEW field \in Field, field.kind # "EMPTY", FieldFits(field, its, nds), field.begin = b,
         NEW nds2, nds2 = LastSet(nds, f.collect.node, field)
  PROVE  /\ nds2 \in Seq(Built) /\ Ranged(stk, its, nds2, b, txt)
         /\ FieldFits(field, its, nds2) /\ Given(f.collect, field, nds2)
<1> DEFINE k == f.collect.node
           nd == nds[k]
           u == [nd EXCEPT !.last = field]
<1>1. /\ stk \in Seq(FrameType) /\ stk # << >> /\ its \in Seq(Item) /\ nds \in Seq(Built)
      /\ f \in FrameType
  BY TopGood
<1>2. /\ Spared(stk, nds, nds2) /\ FieldFits(field, its, nds2)
      /\ \A n \in DOMAIN nds2 :
           (n \in DOMAIN nds /\ nds2[n] = nds[n]) \/ NodeFits(nds2[n], its, nds2)
  <2>1. Storing(nds[f.collect.node], field, u) BY DEF Storing
  <2>2. nds2 = [nds EXCEPT ![f.collect.node] = u] BY DEF LastSet
  <2>3. Good(stk, its, nds) /\ Sound(stk, its, nds, p) OBVIOUS
  <2>4. Owned(stk, its, nds, loose) OBVIOUS
  <2>5. b \in Nat /\ Ranged(stk, its, nds, b, txt) OBVIOUS
  <2>6. f = stk[Len(stk)] /\ Building(f) OBVIOUS
  <2>7. field.kind # "EMPTY" /\ FieldFits(field, its, nds) OBVIOUS
  <2> HIDE DEF u, nd, k
  <2> QED BY ONLY <2>1, <2>2, <2>3, <2>4, <2>5, <2>6, <2>7, ArgumentStored, ZenonT(60)
<1>3. FrameFits(f, b, its, nds, txt) BY <1>1, TopFits
<1>4. ArgumentFits(f, b, nds) /\ Edge(f, b) = b BY <1>3 DEF FrameFits, Edge
<1>5. Firm(f, its, nds, p) BY TopFirm
<1>6. k \in DOMAIN nds /\ nd.kind = f.collect.kind BY <1>5 DEF Firm, Begun
<1>7. nd \in Built /\ NodeFits(nd, its, nds) BY <1>1, <1>6 DEF Ranged
<1>8. f.collect.kind \in Three
  <2>1. f.collect \in Collect BY <1>1 DEF FrameType
  <2> QED BY <2>1 DEF Collect, Building, Collecting, Three
<1>9. nd.list = << >> BY <1>6, <1>7, <1>8 DEF NodeFits
<1>10. u \in Built /\ u.last = field /\ u.list = nd.list /\ u.kind = nd.kind /\ u.first = nd.first
  <2> HIDE DEF nd
  <2> QED BY <1>7 DEF Built
<1>11. nds2 = [nds EXCEPT ![k] = u] BY DEF LastSet
<1> HIDE DEF u
<1>12. nds2 \in Seq(Built) /\ DOMAIN nds2 = DOMAIN nds /\ nds2[k] = u
  <2>1. nds \in Seq(Built) /\ k \in DOMAIN nds /\ u \in Built BY <1>1, <1>6, <1>10
  <2> HIDE DEF k, nd
  <2> QED BY ONLY <2>1, <1>11
<1>13. nds2[f.collect.node].first = nds[f.collect.node].first BY <1>10, <1>12
<1>14. ArgumentFits(stk[Len(stk)], b, nds2) BY <1>4, <1>13 DEF ArgumentFits
<1>15. Ranged(stk, its, nds2, b, txt)
  <2>1. /\ stk \in Seq(FrameType) /\ stk # << >> /\ its \in Seq(Item) /\ nds \in Seq(Built)
    BY <1>1
  <2> HIDE DEF k, nd
  <2> QED BY <2>1, <1>2, <1>14, BuildRanged
<1>16. nds[k].first.kind # "EMPTY" =>
         f.collect.begin <= nds[k].first.begin /\ nds[k].first.end <= b
  BY <1>4 DEF ArgumentFits
<1> QED BY <1>2, <1>6, <1>9, <1>10, <1>12, <1>13, <1>15, <1>16 DEF Given

(* A construct that has all its arguments lands.                           *)
LEMMA FinishRanged ==
  ASSUME NEW stk, NEW its, NEW nds, NEW p, NEW n, Ready(stk, its, nds, p, n),
         NEW b \in Nat, NEW txt, DOMAIN txt \subseteq Nat, Ranged(stk, its, nds, b, txt),
         NEW f, f = stk[Len(stk)], Collecting(f), ~Waiting(f),
         ~(f.collect.kind = "FRACTION" /\ ~f.collect.second),
         NEW field \in Field, field.kind # "EMPTY", FieldFits(field, its, nds), field.begin = b,
         Owned(stk, its, nds, field.list),
         NEW nds2,
         nds2 = IF f.collect.kind = "STYLE" THEN nds
                ELSE LastSet(nds, f.collect.node, field),
         NEW g \in FrameType, Kindred(f, g), g.list = f.list, Idle(g), ~Waiting(g)
  PROVE  Ranged(SetTop(stk, g), Landed(its, f.collect, Staged(f.collect, field)), nds2,
                field.end, txt)
<1> DEFINE c == f.collect
           staged == Staged(c, field)
           x == Start(c)
<1>1. /\ Good(stk, its, nds) /\ Sound(stk, its, nds, p) /\ stk \in Seq(FrameType) /\ stk # << >>
      /\ its \in Seq(Item) /\ nds \in Seq(Built) /\ f \in FrameType /\ c \in Collect
      /\ Firm(f, its, nds, p)
  BY TopGood, TopFirm DEF Ready
<1>2. c.kind # "NONE" BY DEF Collecting
<1>3. staged \in Field /\ staged.kind # "EMPTY" /\ staged.end = field.end
      /\ staged.list = IF c.kind = "STYLE" THEN field.list ELSE << >>
  BY <1>1, <1>2, StagedTyped, StagedHolds, StagedList, StagedEnd
<1>4. FrameFits(f, b, its, nds, txt) BY <1>1, TopFits
<1>5. x \in Nat /\ x <= c.begin /\ c.begin <= b
  <2>1. MarksFit(f, b) BY <1>4 DEF FrameFits
  <2> QED BY <1>1, <2>1, StartBefore
<1>6. c.begin <= field.begin BY <1>5
<1>7. Aimed(f, its) /\ Rising(f.list) BY <1>1 DEF Firm
<1>8. /\ nds2 \in Seq(Built) /\ Ranged(stk, its, nds2, b, txt)
      /\ FieldFits(Widened(staged, x), its, nds2) /\ Owned(stk, its, nds2, staged.list)
  <2>1. CASE c.kind = "STYLE"
    <3>1. nds2 = nds BY <2>1
    <3>2. FieldFits(Widened(staged, x), its, nds)
      <4> HIDE DEF c, x
      <4> QED BY <1>1, <1>2, <1>5, <1>6, <2>1, StagedGiven
    <3>3. staged.list = field.list BY <1>3, <2>1
    <3> HIDE DEF staged, c, x
    <3> QED BY <1>1, <3>1, <3>2, <3>3
  <2>2. CASE c.kind # "STYLE"
    <3>1. Building(f) BY <2>2 DEF Building
    <3>2. nds2 = LastSet(nds, f.collect.node, field) BY <2>2
    <3>3. /\ nds2 \in Seq(Built) /\ Ranged(stk, its, nds2, b, txt)
          /\ FieldFits(field, its, nds2) /\ Given(c, field, nds2)
      <4> HIDE DEF x, staged
      <4> QED BY <1>1, <3>1, <3>2, LastStored
    <3>4. FieldFits(Widened(staged, x), its, nds2)
      <4> HIDE DEF c, x
      <4> QED BY <1>1, <1>2, <1>5, <1>6, <3>3, StagedGiven
    <3>5. c.node \in DOMAIN nds /\ nds[c.node].last.kind = "EMPTY"
      BY <1>1, <3>1 DEF Firm, Begun
    <3>6. Owned(stk, its, nds2, << >>)
      <4>1. nds2 = [nds EXCEPT ![c.node] = [@ EXCEPT !.last = field]] BY <3>2 DEF LastSet
      <4>2. its \in Seq(Item) /\ nds \in Seq(Built) BY <1>1
      <4>3. field \in Field /\ field.kind # "EMPTY" /\ Owned(stk, its, nds, field.list) OBVIOUS
      <4> HIDE DEF c
      <4> QED BY ONLY <3>5, <4>1, <4>2, <4>3, StoreOwned
    <3>7. staged.list = << >> BY <1>3, <2>2
    <3> HIDE DEF staged, c, x
    <3> QED BY <3>3, <3>4, <3>6, <3>7
  <2> QED BY <2>1, <2>2
<1>9. FieldFits(Widened(staged, Start(f.collect)), its, nds2) BY <1>8
<1> HIDE DEF staged, x, c
<1>10. Ranged(SetTop(stk, g), Landed(its, f.collect, staged), nds2, staged.end, txt)
  <2>1. /\ stk \in Seq(FrameType) /\ stk # << >> /\ its \in Seq(Item) /\ nds2 \in Seq(Built)
        /\ staged \in Field /\ staged.kind # "EMPTY"
    BY <1>1, <1>3, <1>8
  <2>2. Owned(stk, its, nds2, staged.list) BY <1>8
  <2>3. b \in Nat /\ DOMAIN txt \subseteq Nat /\ Ranged(stk, its, nds2, b, txt) BY <1>8
  <2>4. f \in FrameType /\ f = stk[Len(stk)] /\ Rising(f.list) /\ Collecting(f) /\ Aimed(f, its)
    BY <1>1, <1>7
  <2>5. g \in FrameType /\ Kindred(f, g) /\ g.list = f.list /\ Idle(g) /\ ~Waiting(g) OBVIOUS
  <2> QED BY ONLY <1>9, <2>1, <2>2, <2>3, <2>4, <2>5, LandRanged, ZenonT(60)
<1> QED BY <1>3, <1>10 DEF staged, c

(* An item goes to the end of an idle frame's list.                        *)
LEMMA LinkIdle ==
  ASSUME NEW stk \in Seq(FrameType), stk # << >>, NEW its \in Seq(Item),
         NEW nds \in Seq(Built), NEW loose, Owned(stk, its, nds, loose),
         NEW b \in Nat, NEW txt, DOMAIN txt \subseteq Nat, Ranged(stk, its, nds, b, txt),
         NEW f, f = stk[Len(stk)], Idle(f), ~Waiting(f),
         NEW item \in Item, ItemFits(item, its, nds),
         \A x \in FieldsOf(item) : x.list = << >> \/ x.list = loose,
         item.begin = b, b <= item.end
  PROVE  Ranged(Linked(stk, its), Append(its, item), nds, item.end, txt)
<1> DEFINE g == [f EXCEPT !.list = Append(@, Len(its) + 1)]
           q == item.end
<1>1. f \in FrameType /\ FrameFits(f, b, its, nds, txt) BY TopFits
<1>2. q \in Nat /\ item.begin \in Nat BY DEF Item
<1>3. MarksFit(f, b) /\ Settled(f, b) = b
  <2>1. MarksFit(f, b) BY <1>1 DEF FrameFits
  <2> QED BY <2>1, IdleMarks
<1>4. Len(its) + 1 \in Nat OBVIOUS
<1>5. g \in FrameType /\ g.list = Append(f.list, Len(its) + 1) /\ Kindred(f, g)
      /\ g.collect = f.collect /\ g.pending = f.pending /\ g.wait = f.wait
  <2> DEFINE k == Len(its) + 1
  <2>1. k \in Nat BY <1>4
  <2> HIDE DEF k
  <2>2. f.list \in Seq(Nat) BY <1>1 DEF FrameType
  <2>3. Append(f.list, k) \in Seq(Nat) BY <2>1, <2>2
  <2> DEFINE l == Append(f.list, k)
  <2>4. g = [f EXCEPT !.list = l] BY DEF k
  <2> HIDE DEF l, g
  <2>5. g \in FrameType /\ g.list = l /\ g.collect = f.collect /\ g.pending = f.pending
        /\ g.wait = f.wait
    BY <1>1, <2>3, <2>4 DEF FrameType, l
  <2>6. Kindred(f, g) BY <1>1, <2>4, KindredSet
  <2> QED BY <2>5, <2>6 DEF l, k
<1>6. Linked(stk, its) = SetTop(stk, g) BY DEF Linked
<1> HIDE DEF g, q
<1>7. Idle(g) /\ ~Waiting(g) /\ ~Collecting(g) BY <1>5 DEF Idle, Collecting, Pending, Waiting
<1>8. Floor(g) <= q
  <2>1. Floor(g) = Floor(f) BY <1>5 DEF Floor, Kindred
  <2>2. Floor(f) <= b BY <1>3 DEF MarksFit
  <2>3. Floor(f) \in Nat BY <1>1, Measures
  <2>4. b <= q BY DEF q
  <2> QED BY <1>2, <2>1, <2>2, <2>3, <2>4
<1>9. Settled(g, q) = q /\ ArgumentFits(g, q, nds) /\ MarksFit(g, q)
  <2>1. g.role = "SCRIPT" => g.script.mark <= g.open BY <1>3, <1>5 DEF MarksFit, Kindred
  <2> QED BY <1>7, <1>8, <2>1, IdleMarks
<1>10. Ranged(SetTop(stk, g), Append(its, item), nds, q, txt)
  <2>1. /\ stk \in Seq(FrameType) /\ stk # << >> /\ its \in Seq(Item) /\ nds \in Seq(Built)
        /\ Owned(stk, its, nds, loose)
    OBVIOUS
  <2>2. b \in Nat /\ DOMAIN txt \subseteq Nat /\ Ranged(stk, its, nds, b, txt) OBVIOUS
  <2>3. f \in FrameType /\ f = stk[Len(stk)] /\ Idle(f) /\ ~Waiting(f) BY <1>1
  <2>4. item \in Item /\ ItemFits(item, its, nds)
        /\ \A x \in FieldsOf(item) : x.list = << >> \/ x.list = loose
    OBVIOUS
  <2>5. b <= item.begin /\ item.begin <= item.end BY <1>2
  <2>6. g \in FrameType /\ Kindred(f, g) /\ g.list = Append(f.list, Len(its) + 1) BY <1>5
  <2>7. q \in Nat /\ Settled(g, q) = q /\ MarksFit(g, q) /\ ArgumentFits(g, q, nds)
    BY <1>2, <1>9
  <2>8. q = b \/ (item.begin = b /\ item.end = q) BY DEF q
  <2>9. Collecting(g) => g.collect.item = Len(its) + 1 /\ item.begin = g.collect.begin BY <1>7
  <2>10. ~Collecting(g) => item.end <= q BY <1>2 DEF q
  <2> QED BY ONLY <2>1, <2>2, <2>3, <2>4, <2>5, <2>6, <2>7, <2>8, <2>9, <2>10, LinkRanged,
                  ZenonT(60)
<1> QED BY <1>6, <1>10 DEF q

(* A script lands that the top frame has marked.                           *)
LEMMA PendRanged ==
  ASSUME NEW stk, NEW its, NEW nds, NEW p, NEW n, Ready(stk, its, nds, p, n),
         NEW b \in Nat, NEW txt, DOMAIN txt \subseteq Nat, Ranged(stk, its, nds, b, txt),
         NEW f, f = stk[Len(stk)], ~Collecting(f), Pending(f), ~Waiting(f),
         NEW field \in Field, field.kind # "EMPTY", FieldFits(field, its, nds), field.begin = b,
         Owned(stk, its, nds, field.list),
         NEW g \in FrameType, Kindred(f, g), g.list = f.list, Idle(g), ~Waiting(g)
  PROVE  Ranged(SetTop(stk, g), FillScript(its, f.pending, field), nds, field.end, txt)
<1> DEFINE s == f.pending
<1>1. /\ stk \in Seq(FrameType) /\ stk # << >> /\ its \in Seq(Item) /\ nds \in Seq(Built)
      /\ f \in FrameType /\ s \in Script /\ s.mark \in Nat /\ Firm(f, its, nds, p)
  BY TopGood, TopFirm DEF Ready, Script
<1>2. FrameFits(f, b, its, nds, txt) BY <1>1, TopFits
<1>3. s.mark <= field.begin /\ Settled(f, b) = s.mark
  BY <1>2 DEF FrameFits, MarksFit, Edge, Settled
<1>4. FieldFits(Widened(field, s.mark), its, nds) BY <1>1, <1>3, WidenedFits
<1>5. OpenFor(f, s, its) /\ Rising(f.list) BY <1>1 DEF Firm, Aimed
<1> HIDE DEF s
<1>6. /\ stk \in Seq(FrameType) /\ stk # << >> /\ its \in Seq(Item) /\ nds \in Seq(Built)
      /\ field \in Field /\ field.kind # "EMPTY" /\ Owned(stk, its, nds, field.list)
  BY <1>1
<1>7. b \in Nat /\ DOMAIN txt \subseteq Nat /\ Ranged(stk, its, nds, b, txt) OBVIOUS
<1>8. /\ f \in FrameType /\ f = stk[Len(stk)] /\ Rising(f.list) /\ s \in Script
      /\ OpenFor(f, s, its) /\ Settled(f, b) = s.mark
      /\ ~Collecting(f) \/ f.collect.item = 0
  BY <1>1, <1>3, <1>5
<1>9. g \in FrameType /\ Kindred(f, g) /\ g.list = f.list /\ Idle(g) /\ ~Waiting(g) OBVIOUS
<1>10. Ranged(SetTop(stk, g), FillScript(its, s, field), nds, field.end, txt)
  BY ONLY <1>4, <1>6, <1>7, <1>8, <1>9, FillRanged, ZenonT(60)
<1> QED BY <1>10 DEF s

(* What a handler has to work with while it runs.                          *)
LEMMA RunParts ==
  ASSUME Poised
  PROVE  /\ result.status = "RUNNING" /\ pos \in Nat /\ pos' \in Nat /\ pos + 1 <= pos'
         /\ DOMAIN text' \subseteq Nat
<1>1. text' \in Seq(Source) BY PoisedParts
<1>2. DOMAIN text' = 1 .. Len(text') BY <1>1
<1>3. pos \in Nat /\ pos' \in Nat /\ pos + 1 <= pos' /\ Len(text') \in Nat BY PoisedParts
<1>4. 1 .. Len(text') \subseteq Nat BY <1>3
<1> QED BY <1>2, <1>3, <1>4 DEF Poised

(* txc_deliver: what is handed down keeps its range.                       *)
LEMMA DeliverRanged ==
  ASSUME Poised, Laid, NEW stk, NEW its, NEW nds, NEW n, Ready(stk, its, nds, pos', n),
         NEW construct \in Field, construct.kind # "EMPTY", FieldFits(construct, its, nds),
         construct.end = pos', NEW class \in Classes,
         ~Waiting(stk[Len(stk)]), Owned(stk, its, nds, construct.list),
         Ranged(stk, its, nds, construct.begin, text'),
         Deliver(stk, its, nds, construct, class)
  PROVE  RangesNow'
<1> DEFINE f     == stk[Len(stk)]
           c     == f.collect
           field == Stamped(f, construct)
           b     == construct.begin
           part1 == FirstSet(nds, c.node, field)
           part2 == LastSet(nds, c.node, field)
           g1    == [f EXCEPT !.collect.second = TRUE]
           g2    == [f EXCEPT !.collect = NoCollect]
           g3    == [f EXCEPT !.pending = NoScript]
           its2  == Landed(its, c, Staged(c, field))
           nds2  == IF c.kind = "STYLE" THEN nds ELSE part2
           its3  == FillScript(its, f.pending, field)
           atom  == Atom(class, field)
<1>1. \/ c.kind = "FRACTION" /\ ~c.second /\ Becomes(SetTop(stk, g1), its, part1)
      \/ /\ Collecting(f) /\ ~(c.kind = "FRACTION" /\ ~c.second)
         /\ Becomes(SetTop(stk, g2), its2, nds2)
      \/ ~Collecting(f) /\ Pending(f) /\ Becomes(SetTop(stk, g3), its3, nds)
      \/ Idle(f) /\ OutOfMemory
      \/ Idle(f) /\ Becomes(Linked(stk, its), Append(its, atom), nds)
  BY DEF Deliver, FirstSet, LastSet
<1>2. /\ Good(stk, its, nds) /\ Sound(stk, its, nds, pos') /\ stk \in Seq(FrameType)
      /\ stk # << >> /\ its \in Seq(Item) /\ nds \in Seq(Built)
  BY DEF Ready, Good, Typed
<1>3. f \in FrameType /\ Steady(f) /\ c \in Collect BY <1>2, TopFirm
<1>4. field \in Field /\ field.kind # "EMPTY" /\ field.list = construct.list
  BY <1>3, StampedTyped, StampedHolds, StampedList
<1>5. field.begin = b /\ field.end = pos' /\ FieldFits(field, its, nds)
  BY StampedRange
<1>6. /\ result.status = "RUNNING" /\ pos \in Nat /\ pos' \in Nat /\ DOMAIN text' \subseteq Nat
      /\ b \in Nat
  BY RunParts DEF Field
<1>7. ASSUME NEW stk2, NEW its4, NEW nds4, Becomes(stk2, its4, nds4),
             Ranged(stk2, its4, nds4, pos', text')
      PROVE  RangesNow'
  BY <1>6, <1>7, BecameRanged
<1>8. ~Waiting(f) /\ f = stk[Len(stk)] OBVIOUS
<1> HIDE DEF field
<1>9. Owned(stk, its, nds, field.list) BY <1>4
<1>10. Ranged(stk, its, nds, b, text') OBVIOUS
<1>11. NoCollect \in Collect /\ NoScript \in Script BY Absent
<1> HIDE DEF b, its2, its3, part1, part2, nds2
<1>12. CASE c.kind = "FRACTION" /\ ~c.second /\ Becomes(SetTop(stk, g1), its, part1)
  <2>1. Building(f) BY <1>12 DEF Building, Collecting
  <2>2. g1 \in FrameType /\ GoesOnCollecting(f, g1)
    BY <1>3, <1>8, <2>1, GoesOnWith DEF Steady, Building
  <2>3. part1 = FirstSet(nds, f.collect.node, field) BY DEF part1
  <2> HIDE DEF f, g1
  <2>4. Ranged(SetTop(stk, g1), its, part1, pos', text')
    BY <1>2, <1>4, <1>5, <1>6, <1>8, <1>9, <1>10, <2>1, <2>2, <2>3, FirstRanged
  <2> QED BY <1>7, <1>12, <2>4
<1>13. CASE /\ Collecting(f) /\ ~(c.kind = "FRACTION" /\ ~c.second)
            /\ Becomes(SetTop(stk, g2), its2, nds2)
  <2>1. g2 \in FrameType /\ g2.list = f.list /\ g2.collect = NoCollect /\ g2.pending = f.pending
        /\ g2.wait = f.wait
    BY <1>3, <1>11, CollectSet
  <2>2. Kindred(f, g2) BY <1>3, KindredSet
  <2>3. NoCollect.kind = "NONE" BY DEF NoCollect
  <2> HIDE DEF g2
  <2>4. Idle(g2) /\ ~Waiting(g2)
    BY <1>3, <1>8, <1>13, <2>1, <2>3 DEF Idle, Collecting, Pending, Waiting, Steady
  <2>5. /\ nds2 = IF f.collect.kind = "STYLE" THEN nds ELSE LastSet(nds, f.collect.node, field)
        /\ its2 = Landed(its, f.collect, Staged(f.collect, field))
    BY DEF nds2, part2, its2
  <2>6. ~(f.collect.kind = "FRACTION" /\ ~f.collect.second) /\ Collecting(f) BY <1>13
  <2> HIDE DEF f
  <2>7. Ranged(SetTop(stk, g2), Landed(its, f.collect, Staged(f.collect, field)), nds2,
               field.end, text')
    <3>1. Ready(stk, its, nds, pos', n) OBVIOUS
    <3>2. nds2 = IF f.collect.kind = "STYLE" THEN nds ELSE LastSet(nds, f.collect.node, field)
      BY <2>5
    <3>3. g2 \in FrameType /\ g2.list = f.list BY <2>1
    <3> QED BY <1>4, <1>5, <1>6, <1>8, <1>9, <1>10, <2>2, <2>4, <2>6, <3>1, <3>2, <3>3,
               FinishRanged
  <2> QED BY <1>5, <1>7, <1>13, <2>5, <2>7
<1>14. CASE ~Collecting(f) /\ Pending(f) /\ Becomes(SetTop(stk, g3), its3, nds)
  <2>1. g3 \in FrameType /\ g3.list = f.list /\ g3.pending = NoScript /\ g3.collect = f.collect
        /\ g3.wait = f.wait
    BY <1>3, <1>11, PendingSet
  <2>2. Kindred(f, g3) BY <1>3, KindredSet
  <2>3. NoScript.kind = "NONE" BY DEF NoScript
  <2> HIDE DEF g3
  <2>4. Idle(g3) /\ ~Waiting(g3)
    BY <1>8, <1>14, <2>1, <2>3 DEF Idle, Collecting, Pending, Waiting
  <2> HIDE DEF f
  <2>5. Ranged(SetTop(stk, g3), FillScript(its, f.pending, field), nds, field.end, text')
    <3>1. Ready(stk, its, nds, pos', n) OBVIOUS
    <3> QED BY <1>4, <1>5, <1>6, <1>8, <1>9, <1>10, <1>14, <2>1, <2>2, <2>4, <3>1, PendRanged
  <2> QED BY <1>5, <1>7, <1>14, <2>5 DEF its3
<1>15. CASE OutOfMemory BY <1>6, <1>15, StoppedRanged
<1>16. CASE Idle(f) /\ Becomes(Linked(stk, its), Append(its, atom), nds)
  <2>1. /\ atom \in Item /\ atom.begin = b /\ atom.end = pos' /\ ItemFits(atom, its, nds)
        /\ atom.nucleus = field /\ atom.sup.kind = "EMPTY" /\ atom.sub.kind = "EMPTY"
    BY <1>4, <1>5, AtomFits
  <2>2. \A x \in FieldsOf(atom) : x.list = << >> \/ x.list = field.list
    <3>1. atom.sup.list = << >> /\ atom.sub.list = << >> BY DEF Atom, Empty
    <3> HIDE DEF atom
    <3> QED BY <2>1, <3>1 DEF FieldsOf
  <2>3. b < pos' BY <1>5 DEF FieldFits
  <2> HIDE DEF atom, f
  <2>4. Ranged(Linked(stk, its), Append(its, atom), nds, atom.end, text')
    <3>1. b <= atom.end BY <1>6, <2>1, <2>3
    <3> QED BY <1>2, <1>6, <1>8, <1>9, <1>10, <1>16, <2>1, <2>2, <3>1, LinkIdle
  <2> QED BY <1>7, <1>16, <2>1, <2>4
<1> QED BY <1>1, <1>12, <1>13, <1>14, <1>15, <1>16

-----------------------------------------------------------------------------
(***************************************************************************)
(* The handlers keep the ranges: blanks, glyphs and delimiters.            *)
(***************************************************************************)

(* What is built, and what a handler may rely on.                          *)
LEMMA PoisedTop ==
  ASSUME Poised, Laid
  PROVE  /\ stack \in Seq(FrameType) /\ stack # << >> /\ items \in Seq(Item)
         /\ nodes \in Seq(Built) /\ Top = stack[Len(stack)] /\ Top \in FrameType
         /\ Steady(Top) /\ Firm(Top, items, nodes, pos')
         /\ FrameFits(Top, pos, items, nodes, text') /\ MarksFit(Top, pos)
         /\ Ranged(stack, items, nodes, pos, text')
<1>1. /\ stack \in Seq(FrameType) /\ stack # << >> /\ items \in Seq(Item)
      /\ nodes \in Seq(Built) /\ Top = stack[Len(stack)] /\ Top \in FrameType
      /\ Steady(Top) /\ Firm(Top, items, nodes, pos')
  BY PoisedParts, TopParts
<1>2. Ranged(stack, items, nodes, pos, text') BY DEF Laid
<1>3. FrameFits(Top, pos, items, nodes, text') BY <1>1, <1>2, TopFits
<1> QED BY <1>1, <1>2, <1>3 DEF FrameFits

(* Nothing changed reads the same.                                         *)
LEMMA SelfAll ==
  ASSUME NEW stk \in Seq(FrameType), stk # << >>, NEW its \in Seq(Item),
         NEW nds \in Seq(Built), NEW loose, Owned(stk, its, nds, loose)
  PROVE  AllAgree(stk, its, nds, its)
<1>1. ItemsBut(its, its, stk[Len(stk)]) BY DEF ItemsBut
<1> QED BY <1>1, Keeps

(* A glyph takes the token it is.                                          *)
GlyphSpan(field) ==
  /\ field.begin = pos /\ field.end = pos + 1 /\ field.kind = "CHAR" /\ field.node = 0
  /\ FieldFits(field, items, nodes)

(* Every glyph does.                                                       *)
LEMMA GlyphRange ==
  ASSUME IInv, NEW t, NEW face \in Faces
  PROVE  LET g == Glyph(t, face) IN g \in Field /\ g.list = << >> /\ GlyphSpan(g)
<1> DEFINE g == Glyph(t, face)
<1>1. g \in Field BY GlyphTyped
<1>2. /\ g.begin = pos /\ g.end = pos + 1 /\ g.list = << >> /\ g.node = 0 /\ g.kind = "CHAR"
  BY DEF Glyph, CharField, Empty
<1>3. pos \in Nat BY TopParts
<1> HIDE DEF g
<1>4. FieldFits(g, items, nodes) BY <1>2, <1>3 DEF FieldFits, InOrder, Spans
<1> QED BY <1>1, <1>2, <1>4 DEF g, GlyphSpan

(* A blank where the math rules hold.                                      *)
LEMMA BlankRanged == ASSUME Standing, OwnedNow, Laid, MathBlank PROVE RangesNow'
<1>1. Scan("SPACE") /\ UNCHANGED <<stack, items, nodes, result>> BY DEF MathBlank
<1>2. "SPACE" \in Source BY AlphabetRead
<1>3. Poised /\ pos' = pos + 1 /\ text'[pos + 1] = "SPACE" BY <1>1, <1>2, ScanPoised
<1> DEFINE new == text'
           f == Top
<1>4. /\ pos \in Nat /\ pos' \in Nat /\ DOMAIN new \subseteq Nat /\ result.status = "RUNNING"
  BY <1>3, RunParts
<1>5. /\ stack \in Seq(FrameType) /\ stack # << >> /\ items \in Seq(Item)
      /\ nodes \in Seq(Built) /\ f = stack[Len(stack)] /\ f \in FrameType
      /\ Firm(f, items, nodes, pos') /\ FrameFits(f, pos, items, nodes, new)
      /\ Ranged(stack, items, nodes, pos, new)
  BY <1>3, PoisedTop
<1>6. Building(f) => f.collect.node \in DOMAIN nodes BY <1>5 DEF Firm, Begun
<1>7. new[pos + 1] \in Blank BY <1>3 DEF Blank
<1> HIDE DEF new, f
<1>8. FrameFits(f, pos + 1, items, nodes, new)
  BY <1>4, <1>5, <1>6, <1>7, BlankFits
<1>9. /\ AllAgree(stack, items, nodes, items) /\ Spared(stack, nodes, nodes)
  BY <1>5, SelfAll, SparedStill DEF OwnedNow
<1>10. Ranged(SetTop(stack, f), items, nodes, pos + 1, new)
  BY <1>5, <1>8, <1>9, RangedTop
<1>11. SetTop(stack, f) = stack BY <1>5, TopStill
<1>12. Becomes(stack, items, nodes) BY <1>1 DEF Becomes
<1> QED BY <1>3, <1>4, <1>10, <1>11, <1>12, BecameRanged DEF new

(* A space or a text glyph goes to the list of the top frame.              *)
LEMMA AppendedRanged ==
  ASSUME Poised, Laid, OwnedNow, Idle(Top), ~Waiting(Top),
         NEW item \in Item, ItemFits(item, items, nodes), item.begin = pos, item.end = pos',
         \A x \in FieldsOf(item) : x.list = << >>, AppendItem(stack, item)
  PROVE  RangesNow'
<1>1. /\ result.status = "RUNNING" /\ pos \in Nat /\ pos' \in Nat /\ pos + 1 <= pos'
      /\ DOMAIN text' \subseteq Nat
  BY RunParts
<1>2. /\ stack \in Seq(FrameType) /\ stack # << >> /\ items \in Seq(Item)
      /\ nodes \in Seq(Built) /\ Top = stack[Len(stack)]
      /\ Ranged(stack, items, nodes, pos, text')
  BY PoisedTop
<1>3. Owned(stack, items, nodes, << >>) BY DEF OwnedNow
<1>4. pos <= item.end BY <1>1
<1>5. CASE OutOfMemory BY <1>1, <1>5, StoppedRanged
<1>6. CASE Becomes(Linked(stack, items), Append(items, item), nodes)
  <2>1. Ranged(Linked(stack, items), Append(items, item), nodes, item.end, text')
    BY <1>1, <1>2, <1>3, <1>4, LinkIdle
  <2> QED BY <1>1, <1>6, <2>1, BecameRanged
<1> QED BY <1>5, <1>6 DEF AppendItem

(* Blanks, spaces and the glyphs of the document rules.                    *)
LEMMA TextRanged ==
  ASSUME Standing, OwnedNow, Laid,
         \/ MathBlank \/ WordSpace
         \/ \E t \in Alphabet : TextGlyph(t) \/ SpacingCommand(t)
  PROVE  RangesNow'
<1>1. Alphabet \subseteq Source /\ "SPACE" \in Source BY AlphabetRead
<1>2. pos \in Nat BY DEF Standing, IInv
<1>3. /\ Space(pos, pos + 1) \in Item /\ Space(pos, pos + 1).begin = pos
      /\ Space(pos, pos + 1).end = pos + 1 /\ ItemFits(Space(pos, pos + 1), items, nodes)
      /\ \A x \in FieldsOf(Space(pos, pos + 1)) : x.list = << >>
  <2>1. pos + 1 \in Nat /\ pos <= pos + 1 BY <1>2
  <2>2. \A x \in FieldsOf(Space(pos, pos + 1)) : x.list = << >>
    BY DEF FieldsOf, Space, Atom, Empty
  <2> QED BY <1>2, <2>1, <2>2, SpaceFits
<1>4. ASSUME Poised, ~MathRules(Top) PROVE Idle(Top) /\ ~Waiting(Top)
  BY <1>4, PoisedParts DEF Steady
<1>5. CASE MathBlank BY <1>5, BlankRanged
<1>6. CASE WordSpace
  <2>1. Scan("SPACE") /\ ~MathRules(Top) /\ AppendItem(stack, Space(pos, pos + 1))
    BY <1>6 DEF WordSpace
  <2>2. Poised /\ pos' = pos + 1 BY <1>1, <2>1, ScanPoised
  <2> QED BY <1>3, <1>4, <2>1, <2>2, AppendedRanged
<1>7. ASSUME NEW t \in Alphabet, SpacingCommand(t) PROVE RangesNow'
  <2>1. /\ Scan(t) /\ ~(MathRules(Top) /\ Waiting(Top)) /\ Idle(Top)
        /\ AppendItem(stack, Space(pos, pos + 1))
    BY <1>7 DEF SpacingCommand
  <2>2. Poised /\ pos' = pos + 1 BY <1>1, <2>1, ScanPoised
  <2> QED BY <1>3, <1>4, <2>1, <2>2, AppendedRanged
<1>8. ASSUME NEW t \in Alphabet, TextGlyph(t) PROVE RangesNow'
  <2> DEFINE glyph == Glyph(t, "FIXED")
             a == Atom("ORD", glyph)
  <2>1. Scan(t) /\ ~MathRules(Top) /\ AppendItem(stack, a) BY <1>8 DEF TextGlyph
  <2>2. Poised /\ pos' = pos + 1 BY <1>1, <2>1, ScanPoised
  <2>3. "ORD" \in Classes /\ "FIXED" \in Faces BY DEF Classes, Faces
  <2>4. glyph \in Field /\ glyph.list = << >> /\ GlyphSpan(glyph)
    BY <2>3, GlyphRange DEF Standing
  <2> HIDE DEF glyph
  <2>5. /\ a \in Item /\ a.begin = pos /\ a.end = pos + 1 /\ ItemFits(a, items, nodes)
        /\ a.nucleus = glyph
    BY <2>3, <2>4, AtomFits DEF GlyphSpan
  <2>6. a.sup.list = << >> /\ a.sub.list = << >> BY DEF Atom, Empty
  <2> HIDE DEF a
  <2>7. \A x \in FieldsOf(a) : x.list = << >> BY <2>4, <2>5, <2>6 DEF FieldsOf
  <2> QED BY <1>4, <2>1, <2>2, <2>5, <2>7, AppendedRanged
<1> QED BY <1>5, <1>6, <1>7, <1>8

(* A frame that only waits, or waits no more, where it is.                 *)
LEMMA EdgeTurn ==
  ASSUME NEW f, NEW g, NEW b, NEW b2, NEW nds, MarksFit(f, b), ArgumentFits(f, b, nds),
         Kindred(f, g), g.collect = f.collect, Pending(f) \/ Pending(g) => g.pending = f.pending,
         Edge(g, b2) = Edge(f, b), Waiting(g) => g.wait.at <= b2
  PROVE  /\ Settled(g, b2) = Settled(f, b) /\ MarksFit(g, b2) /\ ArgumentFits(g, b2, nds)
         /\ Grasps(f, g)
<1>1. /\ Collecting(g) <=> Collecting(f)
      /\ Pending(g) <=> Pending(f)
      /\ Building(g) <=> Building(f)
  BY DEF Collecting, Pending, Building
<1>2. Settled(g, b2) = Settled(f, b) BY <1>1 DEF Settled
<1>3. MarksFit(g, b2) BY <1>1, <1>2 DEF MarksFit, Kindred, Floor
<1>4. ArgumentFits(g, b2, nds) BY <1>1 DEF ArgumentFits
<1>5. Grasps(f, g)
  <2>1. CASE Collecting(f) BY <1>1, <2>1 DEF Grasps
  <2>2. CASE ~Collecting(f) BY <1>1, <2>2 DEF Grasps
  <2> QED BY <2>1, <2>2
<1> QED BY <1>2, <1>3, <1>4, <1>5

(* The top frame turned in place.                                          *)
LEMMA TopTurnedRanged ==
  ASSUME Poised, Laid, OwnedNow,
         NEW g \in FrameType, Kindred(Top, g), g.list = Top.list, Grasps(Top, g),
         NEW b2 \in Nat, Settled(g, b2) = Settled(Top, pos), MarksFit(g, b2),
         ArgumentFits(g, b2, nodes)
  PROVE  Ranged(SetTop(stack, g), items, nodes, b2, text')
<1>1. /\ stack \in Seq(FrameType) /\ stack # << >> /\ items \in Seq(Item)
      /\ nodes \in Seq(Built) /\ Top = stack[Len(stack)] /\ Top \in FrameType
      /\ Ranged(stack, items, nodes, pos, text')
  BY PoisedTop
<1>2. pos \in Nat /\ Owned(stack, items, nodes, << >>) BY RunParts DEF OwnedNow
<1>3. Spared(stack, nodes, nodes) BY SparedStill
<1> QED BY <1>1, <1>2, <1>3, TurnRanged

(* The delimiter awaited has come: the frame is back where it asked.       *)
LEMMA ServedRanged ==
  ASSUME Poised, Laid, OwnedNow, Waiting(Top)
  PROVE  /\ Ranged(SetTop(stack, Served), items, nodes, Top.wait.at, text')
         /\ Top.wait.at \in Nat /\ Top.wait.at <= pos
         /\ Served \in FrameType /\ ~Waiting(Served)
<1>1. Top \in FrameType /\ FrameFits(Top, pos, items, nodes, text') /\ MarksFit(Top, pos)
  BY PoisedTop
<1>2. NoWait \in Wait /\ NoWait.kind = "NONE" BY Absent DEF NoWait
<1> DEFINE f == Top
           g == [f EXCEPT !.wait = NoWait]
           at == f.wait.at
<1>3. Served = g BY DEF Served
<1>4. f \in FrameType BY <1>1
<1> HIDE DEF f
<1>5. /\ g \in FrameType /\ g.list = f.list /\ g.collect = f.collect /\ g.pending = f.pending
      /\ g.wait = NoWait
  BY <1>2, <1>4, WaitSet
<1>6. Kindred(f, g) BY <1>4, KindredSet
<1> HIDE DEF g
<1>7. ~Waiting(g) BY <1>2, <1>5 DEF Waiting
<1>8. Edge(g, at) = at /\ Edge(f, pos) = at BY <1>7 DEF Edge, f
<1>9. at \in Nat /\ at <= pos
  <2>1. at \in Nat BY <1>4 DEF FrameType, Wait
  <2> QED BY <1>1, <2>1 DEF MarksFit, f
<1>10. MarksFit(f, pos) /\ ArgumentFits(f, pos, nodes) BY <1>1 DEF FrameFits, f
<1> HIDE DEF at
<1>11. /\ Settled(g, at) = Settled(f, pos) /\ MarksFit(g, at) /\ ArgumentFits(g, at, nodes)
       /\ Grasps(f, g)
  BY <1>5, <1>6, <1>7, <1>8, <1>10, EdgeTurn
<1>12. Ranged(SetTop(stack, g), items, nodes, at, text')
  BY <1>5, <1>6, <1>9, <1>11, TopTurnedRanged DEF f
<1> QED BY <1>3, <1>5, <1>7, <1>9, <1>12 DEF f, at

(* A delimiter is asked for.                                               *)
LEMMA AskRanged ==
  ASSUME Standing, OwnedNow, Laid, NEW t \in Alphabet, AskForDelimiter(t) PROVE RangesNow'
<1> DEFINE kind == CASE t = "\\left" -> "LEFT" [] t = "\\right" -> "RIGHT"
                     [] OTHER -> "EXPLICIT"
           w == [kind |-> kind, at |-> pos, class |-> ClassOf(t)]
           f == Top
           g == [f EXCEPT !.wait = w]
<1>1. /\ Scan(t) /\ ~Waiting(f)
      /\ (\E what : Fail(what)) \/ Becomes(SetTop(stack, g), items, nodes)
  BY DEF AskForDelimiter, MathToken
<1>2. Poised /\ pos' = pos + 1 BY <1>1, AlphabetRead, TokenPoised
<1>3. pos \in Nat /\ pos' \in Nat /\ pos <= pos' /\ result.status = "RUNNING"
  BY <1>2, RunParts
<1>4. w \in Wait /\ w.at = pos /\ w.kind # "NONE" BY <1>3, ClassTyped DEF Wait
<1> HIDE DEF w
<1>5. CASE \E what : Fail(what) BY <1>3, <1>5, StoppedRanged
<1>6. CASE Becomes(SetTop(stack, g), items, nodes)
  <2>1. f \in FrameType /\ FrameFits(f, pos, items, nodes, text') /\ MarksFit(f, pos)
    BY <1>2, PoisedTop
  <2> HIDE DEF f
  <2>2. /\ g \in FrameType /\ g.list = f.list /\ g.collect = f.collect
        /\ g.pending = f.pending /\ g.wait = w
    BY <1>4, <2>1, WaitSet
  <2>3. Kindred(f, g) BY <2>1, KindredSet
  <2> HIDE DEF g
  <2>4. Edge(g, pos') = pos /\ Edge(f, pos) = pos
    <3>1. Waiting(g) BY <1>4, <2>2 DEF Waiting
    <3>2. ~Waiting(f) BY <1>1 DEF f
    <3> QED BY <1>4, <2>2, <3>1, <3>2 DEF Edge
  <2>5. g.wait.at <= pos' BY <1>3, <1>4, <2>2
  <2>6. MarksFit(f, pos) /\ ArgumentFits(f, pos, nodes) BY <2>1 DEF FrameFits
  <2> DEFINE q == pos'
  <2>7. Edge(g, q) = Edge(f, pos) /\ g.wait.at <= q /\ q \in Nat BY <1>3, <2>4, <2>5
  <2> HIDE DEF q
  <2>8. /\ Settled(g, q) = Settled(f, pos) /\ MarksFit(g, q) /\ ArgumentFits(g, q, nodes)
        /\ Grasps(f, g)
    BY <2>2, <2>3, <2>6, <2>7, EdgeTurn
  <2>9. Ranged(SetTop(stack, g), items, nodes, q, text')
    BY <1>2, <2>2, <2>3, <2>7, <2>8, TopTurnedRanged DEF f
  <2> QED BY <1>3, <1>6, <2>9, BecameRanged DEF q
<1> QED BY <1>1, <1>5, <1>6

-----------------------------------------------------------------------------
(***************************************************************************)
(* Frames opened and closed.                                               *)
(***************************************************************************)

(* A frame as it is pushed, read up to b.                                  *)
Newborn(f, b) ==
  /\ f \in FrameType /\ f.list = << >> /\ Idle(f) /\ ~Waiting(f) /\ f.role # "ROOT"
  /\ f.cells = << >> /\ f.rows = << >> /\ Floor(f) <= b
  /\ f.role = "SCRIPT" => f.script.mark <= f.open
  /\ f.role = "CELL" => f.env \in Environments

(* It fits.                                                                *)
LEMMA NewbornFits ==
  ASSUME NEW f, NEW b, Newborn(f, b), NEW its, NEW nds, NEW txt
  PROVE  FrameFits(f, b, its, nds, txt)
BY FrameFresh DEF Newborn

(* A frame is pushed where what is under it has been read to.              *)
LEMMA OpenedRanged ==
  ASSUME Poised, Laid, NEW stk \in Seq(FrameType), stk # << >>, NEW b,
         Ranged(stk, items, nodes, b, text'), NEW g, Newborn(g, pos'), Opening(g) = b,
         NEW x, NEW e, Open(stk, g, x, e)
  PROVE  RangesNow'
<1>1. result.status = "RUNNING" /\ pos \in Nat /\ pos' \in Nat BY RunParts
<1>2. CASE OutOfMemory \/ \E what, y, z : Refuse(what, y, z) BY <1>1, <1>2, StoppedRanged
<1>3. CASE Becomes(Append(stk, g), items, nodes)
  <2> DEFINE q == pos'
             new == text'
  <2>1. FrameFits(g, q, items, nodes, new) BY NewbornFits
  <2>2. g \in FrameType /\ Ranged(stk, items, nodes, b, new) BY DEF Newborn
  <2> HIDE DEF q, new
  <2>3. Ranged(Append(stk, g), items, nodes, q, new) BY <2>1, <2>2, RangedPush
  <2> QED BY <1>1, <1>3, <2>3, BecameRanged DEF q, new
<1> QED BY <1>2, <1>3 DEF Open

(* The top frame gives its mark to the group that opens.                   *)
LEMMA TakenRanged ==
  ASSUME Poised, Laid, OwnedNow, pos' = pos + 1, ~Waiting(Top)
  PROVE  LET p == [Top EXCEPT !.pending = NoScript]
             g == GroupFrame(Top)
         IN /\ Ranged(SetTop(stack, p), items, nodes, Opening(g), text')
            /\ Newborn(g, pos') <=> g \in FrameType
            /\ p \in FrameType
<1> DEFINE f == Top
           p == [f EXCEPT !.pending = NoScript]
           g == GroupFrame(f)
<1>1. /\ f \in FrameType /\ Steady(f) /\ FrameFits(f, pos, items, nodes, text')
      /\ MarksFit(f, pos)
  BY PoisedTop
<1>2. pos \in Nat /\ pos' \in Nat /\ pos <= pos' BY RunParts
<1>3. /\ g.role \in {"GROUP", "SCRIPT"} /\ (g.role = "SCRIPT" <=> Pending(f))
      /\ g.script = f.pending /\ g.open = pos
      /\ ~Collecting(g) /\ ~Pending(g) /\ ~Waiting(g)
  BY GroupTaken
<1>4. g.list = << >> /\ g.cells = << >> /\ g.rows = << >> BY FramesOpenBare
<1>5. p \in FrameType /\ p.list = f.list /\ p.collect = f.collect /\ p.wait = f.wait
      /\ ~Pending(p)
  BY GroupTaken
<1>6. Kindred(f, p) BY <1>1, KindredSet
<1>7. ~Waiting(f) OBVIOUS
<1> HIDE DEF f, p, g
<1>8. ~Waiting(p) BY <1>5, <1>7 DEF Waiting
<1>9. Pending(f) => f.pending.mark \in Nat /\ f.pending.mark <= pos
  <2>1. f.pending.mark \in Nat BY <1>1, <1>2, Measures
  <2> QED BY <1>1, <1>7, <2>1 DEF MarksFit, Edge
<1>10. Newborn(g, pos') <=> g \in FrameType
  BY <1>2, <1>3, <1>4, <1>9 DEF Newborn, Idle, Floor
<1>11. Ranged(SetTop(stack, p), items, nodes, Opening(g), text')
  <2>1. CASE Pending(f)
    <3> DEFINE b == f.pending.mark
    <3>1. Opening(g) = b BY <1>3, <2>1 DEF Opening
    <3>2. b \in Nat BY <1>9, <2>1
    <3>3. ~Collecting(f) BY <1>1, <2>1 DEF Steady
    <3>4. Settled(f, pos) = b BY <2>1, <3>3 DEF Settled
    <3> HIDE DEF b
    <3>5. ~Collecting(p) /\ Idle(p) BY <1>5, <3>3 DEF Collecting, Idle
    <3>6. Floor(f) <= b /\ (f.role = "SCRIPT" => f.script.mark <= f.open)
      BY <1>1, <3>4 DEF MarksFit
    <3>7. Floor(p) <= b /\ (p.role = "SCRIPT" => p.script.mark <= p.open)
      BY <1>6, <3>6 DEF Kindred, Floor
    <3>8. Settled(p, b) = b /\ ArgumentFits(p, b, nodes) /\ MarksFit(p, b)
      BY <1>8, <3>5, <3>7, IdleMarks
    <3>9. Grasps(f, p) BY <3>3, <3>5 DEF Grasps
    <3> QED BY <1>5, <1>6, <3>1, <3>2, <3>4, <3>8, <3>9, TopTurnedRanged DEF f
  <2>2. CASE ~Pending(f)
    <3>1. Opening(g) = pos BY <1>3, <2>2 DEF Opening
    <3>2. MarksFit(f, pos) /\ ArgumentFits(f, pos, nodes) BY <1>1 DEF FrameFits
    <3>3. Edge(p, pos) = Edge(f, pos) BY <1>7, <1>8 DEF Edge
    <3>4. /\ Settled(p, pos) = Settled(f, pos) /\ MarksFit(p, pos)
          /\ ArgumentFits(p, pos, nodes) /\ Grasps(f, p)
      BY <1>5, <1>6, <1>8, <2>2, <3>2, <3>3, EdgeTurn
    <3> QED BY <1>2, <1>5, <1>6, <3>1, <3>4, TopTurnedRanged DEF f
  <2> QED BY <2>1, <2>2
<1> QED BY <1>5, <1>10, <1>11 DEF f, p, g

(* Constructs opened.                                                      *)
LEMMA OpenRanged ==
  ASSUME Standing, OwnedNow, Laid,
         \/ OpenIndex \/ OpenGroup \/ \E t \in Alphabet : OpenFence(t)
         \/ \E name \in Named : BeginEnvironment(name)
  PROVE  RangesNow'
<1>1. IInv BY DEF Standing
<1>2. "[" \in Source /\ "{" \in Source BY AlphabetRead
<1>3. ASSUME Poised, NEW role \in Roles \ {"ROOT", "SCRIPT", "CELL"}, NEW open \in Nat,
             open <= pos'
      PROVE  LET g == Inside(role, Top, open) IN Newborn(g, pos') /\ Opening(g) = open
  <2> DEFINE g == Inside(role, Top, open)
  <2>1. g.list = << >> /\ g.cells = << >> /\ g.rows = << >> BY FramesOpenBare
  <2>2. /\ g \in FrameType /\ g.role = role /\ ~Collecting(g) /\ ~Pending(g) /\ ~Waiting(g)
        /\ g.open = open
    BY <1>3, InsideFresh
  <2> HIDE DEF g
  <2>3. Newborn(g, pos') BY <1>3, <2>1, <2>2 DEF Newborn, Idle, Floor
  <2>4. Opening(g) = open BY <2>2 DEF Opening
  <2> QED BY <2>3, <2>4 DEF g
<1>4. CASE OpenIndex
  <2> DEFINE g == Inside("INDEX", Top, pos)
  <2>1. Scan("[") /\ Open(stack, g, pos, pos + 1) BY <1>4 DEF OpenIndex, MathToken
  <2>2. Poised /\ pos' = pos + 1 BY <1>2, <2>1, TokenPoised
  <2>3. pos \in Nat /\ pos <= pos' BY <2>2, RunParts
  <2>4. "INDEX" \in Roles \ {"ROOT", "SCRIPT", "CELL"} BY DEF Roles
  <2>5. Newborn(g, pos') /\ Opening(g) = pos BY <1>3, <2>2, <2>3, <2>4
  <2>6. /\ stack \in Seq(FrameType) /\ stack # << >>
        /\ Ranged(stack, items, nodes, pos, text')
    BY <2>2, PoisedTop
  <2> HIDE DEF g
  <2> QED BY <2>1, <2>2, <2>5, <2>6, OpenedRanged
<1>5. CASE OpenGroup
  <2> DEFINE p == [Top EXCEPT !.pending = NoScript]
             g == GroupFrame(Top)
  <2>1. Scan("{") /\ MathRules(Top) /\ ~Waiting(Top) /\ Open(SetTop(stack, p), g, pos, pos + 1)
    BY <1>5 DEF OpenGroup, MathToken
  <2>2. Poised /\ pos' = pos + 1 BY <1>2, <2>1, TokenPoised
  <2>3. g \in FrameType BY <1>1, <2>1, GroupFramed
  <2>4. /\ Ranged(SetTop(stack, p), items, nodes, Opening(g), text')
        /\ Newborn(g, pos') /\ p \in FrameType
    BY <2>1, <2>2, <2>3, TakenRanged
  <2>5. stack \in Seq(FrameType) /\ stack # << >> BY <2>2, PoisedTop
  <2> HIDE DEF p, g
  <2>6. SetTop(stack, p) \in Seq(FrameType) /\ SetTop(stack, p) # << >>
    BY <2>4, <2>5, SetTopTyped
  <2> QED BY <2>1, <2>2, <2>4, <2>6, OpenedRanged
<1>6. ASSUME NEW t \in Alphabet, OpenFence(t) PROVE RangesNow'
  <2> DEFINE at == Top.wait.at
             g == Inside("FENCED", Top, at)
  <2>1. Scan(t) /\ Waiting(Top) /\ Open(SetTop(stack, Served), g, at, at + 1)
    BY <1>6 DEF OpenFence, AwaitsDelimiter
  <2>2. Poised BY <2>1, AlphabetRead, TokenPoised
  <2>3. /\ Ranged(SetTop(stack, Served), items, nodes, at, text')
        /\ at \in Nat /\ at <= pos /\ Served \in FrameType
    BY <2>1, <2>2, ServedRanged
  <2>4. at <= pos' /\ "FENCED" \in Roles \ {"ROOT", "SCRIPT", "CELL"}
    BY <2>2, <2>3, RunParts DEF Roles
  <2>5. Newborn(g, pos') /\ Opening(g) = at BY <1>3, <2>2, <2>3, <2>4
  <2>6. stack \in Seq(FrameType) /\ stack # << >> BY <2>2, PoisedTop
  <2>7. SetTop(stack, Served) \in Seq(FrameType) /\ SetTop(stack, Served) # << >>
    BY <2>3, <2>6, SetTopTyped
  <2> HIDE DEF at, g
  <2> QED BY <2>1, <2>2, <2>3, <2>5, <2>7, OpenedRanged
<1>7. ASSUME NEW name \in Named, BeginEnvironment(name) PROVE RangesNow'
  <2> DEFINE h == Inside("CELL", Top, pos)
             g == [h EXCEPT !.env = name, !.stretched = @ \/ Stretches(name),
                            !.cellStart = pos + 2]
  <2>1. /\ ScanNamed("\\begin", name)
        /\ \/ \E what : Fail(what)
           \/ BadName
           \/ \E what, b, e : Refuse(what, b, e)
           \/ name \notin {"END", "BAD", "unknown"} /\ Open(stack, g, pos, pos + 2)
    BY <1>7 DEF BeginEnvironment
  <2>2. Poised /\ pos \in Nat /\ pos' = pos + 2 BY <1>1, <2>1, NamedEntered
  <2>3. CASE name \notin {"END", "BAD", "unknown"} /\ Open(stack, g, pos, pos + 2)
    <3>1. name \in Environments BY <2>3, NamedEnvironment
    <3>2. "CELL" \in Roles BY DEF Roles
    <3>3. h \in FrameType /\ h.role = "CELL" /\ ~Collecting(h) /\ ~Pending(h) /\ ~Waiting(h)
          /\ h.open = pos
      BY <2>2, <3>2, InsideFresh
    <3>4. h.list = << >> /\ h.cells = << >> /\ h.rows = << >> BY FramesOpenBare
    <3> DEFINE s == h.stretched \/ Stretches(name)
    <3>5. s \in BOOLEAN /\ g = [h EXCEPT !.env = name, !.stretched = s, !.cellStart = pos + 2]
      BY DEF Stretches
    <3>6. pos + 2 \in Nat BY <2>2
    <3> HIDE DEF h, g, s
    <3>7. /\ g \in FrameType /\ g.role = "CELL" /\ g.collect = h.collect
          /\ g.pending = h.pending /\ g.wait = h.wait /\ g.open = pos /\ g.env = name
          /\ g.cellStart = pos + 2 /\ g.list = << >> /\ g.cells = << >> /\ g.rows = << >>
      BY <3>1, <3>3, <3>4, <3>5, <3>6 DEF FrameType
    <3>8. Newborn(g, pos')
      BY <2>2, <3>1, <3>3, <3>7 DEF Newborn, Idle, Floor, Collecting, Pending, Waiting
    <3>9. Opening(g) = pos BY <3>7 DEF Opening
    <3>10. /\ stack \in Seq(FrameType) /\ stack # << >>
           /\ Ranged(stack, items, nodes, pos, text')
      BY <2>2, PoisedTop
    <3> QED BY <2>2, <2>3, <3>8, <3>9, <3>10, OpenedRanged
  <2> QED BY <2>1, <2>2, <2>3, StoppedRanged
<1> QED BY <1>4, <1>5, <1>6, <1>7

(* What a frame has listed lies from where it opened to the token read.    *)
LEMMA ListSpans ==
  ASSUME Poised, Laid, Idle(Top), Top.role # "CELL"
  PROVE  /\ InOrder(Top.list, items) /\ Spans(Top.list, items, Top.open, pos')
         /\ Top.open \in Nat /\ Top.open < pos' /\ Top.list \in Seq(Nat)
<1> DEFINE f == Top
           q == pos'
           s == Settled(f, pos)
<1>1. /\ f \in FrameType /\ FrameFits(f, pos, items, nodes, text') /\ MarksFit(f, pos)
      /\ items \in Seq(Item)
  BY PoisedTop
<1>2. pos \in Nat /\ q \in Nat /\ pos + 1 <= q BY RunParts
<1>3. Idle(f) /\ f.role # "CELL" OBVIOUS
<1> HIDE DEF f, q
<1>4. s \in Nat /\ s <= pos BY <1>1, <1>2, Measures, SettledBound
<1>5. Floor(f) = f.open /\ f.open \in Nat BY <1>1, <1>2, <1>3, Measures DEF Floor
<1>6. Floor(f) <= s BY <1>1 DEF MarksFit
<1>7. InOrder(f.list, items) /\ Reaching(f, s, items) BY <1>1 DEF FrameFits
<1> HIDE DEF s
<1>8. \A j \in DOMAIN f.list :
         /\ f.list[j] \in DOMAIN items
         /\ f.open <= items[f.list[j]].begin /\ items[f.list[j]].end <= s
  BY <1>3, <1>5, <1>7 DEF InOrder, Reaching, Idle
<1>9. \A k \in DOMAIN items : items[k].end \in Nat BY <1>1, ItemSpans
<1>10. Spans(f.list, items, f.open, q)
  <2>1. ASSUME NEW j \in DOMAIN f.list PROVE items[f.list[j]].end <= q
    BY <1>2, <1>4, <1>8, <1>9
  <2> QED BY <1>8, <2>1 DEF Spans
<1>11. f.open < q BY <1>2, <1>4, <1>5, <1>6
<1>12. f.list \in Seq(Nat) BY <1>1, <1>2, Measures
<1> QED BY <1>5, <1>7, <1>10, <1>11, <1>12 DEF f, q

(* What a frame has listed fits a field from where it opened.              *)
LEMMA ListRange ==
  ASSUME Poised, Laid, Idle(Top), Top.role # "CELL"
  PROVE  LET g == ListField(Top.list, Top.open, pos') IN
         /\ g \in Field /\ g.kind = "LIST" /\ g.list = Top.list /\ g.node = 0
         /\ g.begin = Top.open /\ g.end = pos' /\ FieldFits(g, items, nodes)
<1> DEFINE f == Top
           q == pos'
           g == ListField(f.list, f.open, q)
<1>1. /\ InOrder(f.list, items) /\ Spans(f.list, items, f.open, q)
      /\ f.open \in Nat /\ f.open < q /\ f.list \in Seq(Nat)
  BY ListSpans
<1>2. q \in Nat BY RunParts
<1>3. g.list = f.list /\ g.begin = f.open /\ g.end = q /\ g.kind = "LIST" /\ g.node = 0
  BY DEF ListField, Empty
<1>4. g \in Field BY <1>1, <1>2, ListTyped
<1> HIDE DEF f, q, g
<1>5. FieldFits(g, items, nodes) BY <1>1, <1>3 DEF FieldFits
<1> QED BY <1>3, <1>4, <1>5 DEF f, q, g

(* What is under the top frame has been read to where that opens.          *)
LEMMA PoppedRanged ==
  ASSUME Poised, Laid, Len(stack) >= 2
  PROVE  Ranged(Below(stack), items, nodes, Opening(Top), text')
BY PoisedTop, RangedPop

(* A group handed down with its list.                                      *)
LEMMA GroupRanged ==
  ASSUME OwnedNow, Poised, Laid, Math, Idle(Top), ~Waiting(Top), Top.role = "GROUP",
         pos' = pos + 1, Deliver(Below(stack), items, nodes, GroupList, "ORD")
  PROVE  RangesNow'
<1>1. Ready(Below(stack), items, nodes, pos', 0) /\ Len(stack) >= 2 BY ClosedReady
<1>2. IInv BY PoisedParts
<1> DEFINE field == GroupList
<1>3. /\ field \in Field /\ field.kind = "LIST" /\ field.list = Top.list
      /\ field.begin = Top.open /\ field.end = pos' /\ FieldFits(field, items, nodes)
  BY ListRange DEF GroupList
<1>4. Owned(Below(stack), items, nodes, field.list) BY <1>2, <1>3, PoppedOwned
<1>5. Opening(Top) = field.begin BY <1>3 DEF Opening
<1>6. Ranged(Below(stack), items, nodes, field.begin, text') BY <1>1, <1>5, PoppedRanged
<1>7. ~Waiting(Below(stack)[Len(Below(stack))]) BY <1>2, BelowGood DEF PushedOn
<1>8. "ORD" \in Classes /\ "EMPTY" # "LIST" BY DEF Classes
<1> HIDE DEF field
<1> QED BY <1>1, <1>3, <1>4, <1>6, <1>7, <1>8, DeliverRanged DEF field

(* A glyph.                                                                *)
LEMMA GlyphRanged ==
  ASSUME Standing, OwnedNow, Laid, NEW t \in Alphabet, GlyphToken(t) PROVE RangesNow'
<1> DEFINE glyph == Glyph(t, FaceOfGlyph(t))
<1>1. /\ Scan(t) /\ MathRules(Top) /\ ~Waiting(Top)
      /\ Deliver(stack, items, nodes, glyph, ClassOf(t))
  BY DEF GlyphToken, Allowed, MathToken
<1>2. Poised /\ pos' = pos + 1 BY <1>1, AlphabetRead, TokenPoised
<1>3. FaceOfGlyph(t) \in Faces BY DEF FaceOfGlyph, Faces
<1>4. glyph \in Field /\ glyph.list = << >> /\ GlyphSpan(glyph)
  BY <1>3, GlyphRange DEF Standing
<1>5. /\ stack \in Seq(FrameType) /\ Top = stack[Len(stack)] /\ nodes \in Seq(Built)
      /\ Ranged(stack, items, nodes, pos, text')
  BY <1>2, PoisedTop
<1>6. 0 \notin DOMAIN nodes BY <1>5
<1>7. Ready(stack, items, nodes, pos', 0) BY <1>1, <1>2, <1>6, PoisedParts DEF Ready
<1> HIDE DEF glyph
<1>8. Owned(stack, items, nodes, glyph.list) BY <1>4 DEF OwnedNow
<1>9. /\ glyph.kind # "EMPTY" /\ FieldFits(glyph, items, nodes) /\ glyph.end = pos'
      /\ glyph.begin = pos
  BY <1>2, <1>4 DEF GlyphSpan
<1>10. ClassOf(t) \in Classes BY ClassTyped
<1>11. ~Waiting(stack[Len(stack)]) BY <1>1, <1>5
<1>12. Ranged(stack, items, nodes, glyph.begin, text') BY <1>5, <1>9
<1> QED BY <1>1, <1>2, <1>4, <1>7, <1>8, <1>9, <1>10, <1>11, <1>12, DeliverRanged

(* The delimiter a size command waits for.                                 *)
LEMMA SizedRanged ==
  ASSUME Standing, OwnedNow, Laid, NEW t \in Alphabet, SizedDelimiter(t) PROVE RangesNow'
<1> DEFINE stk   == SetTop(stack, Served)
           field == NodeField("DELIMITER", 0, Top.wait.at, pos + 1)
<1>1. /\ Scan(t) /\ MathRules(Top) /\ Waiting(Top)
      /\ Deliver(stk, items, nodes, field, Top.wait.class)
  BY DEF SizedDelimiter, AwaitsDelimiter
<1>2. IInv BY DEF Standing
<1>3. Poised /\ pos' = pos + 1 BY <1>1, AlphabetRead, TokenPoised
<1>4. /\ Good(stk, items, nodes) /\ Sound(stk, items, nodes, pos')
      /\ Complete(stk, items, nodes, 0)
      /\ stk[Len(stk)] = Served /\ Same(Top, Served)
  BY <1>1, <1>3, ServedFits
<1>5. /\ Ranged(stk, items, nodes, Top.wait.at, text')
      /\ Top.wait.at \in Nat /\ Top.wait.at <= pos /\ ~Waiting(Served)
  BY <1>1, <1>3, ServedRanged
<1>6. /\ field \in Field /\ field.kind # "EMPTY" /\ field.list = << >> /\ field.node = 0
      /\ field.begin = Top.wait.at /\ field.end = pos'
  <2>1. "DELIMITER" \in FieldKinds /\ 0 \in Nat BY DEF FieldKinds
  <2>2. field \in Field BY <1>2, <2>1, TopParts, NodeFieldTyped
  <2> QED BY <1>3, <2>2 DEF NodeField, Empty
<1>7. 0 \notin DOMAIN nodes
  <2>1. nodes \in Seq(Built) BY <1>2, TopParts
  <2> QED BY <2>1
<1>8. Owned(stk, items, nodes, << >>) BY <1>2, ServedLists, TurnedOwned DEF OwnedNow
<1>9. Top.wait.class \in Classes BY <1>2, TopParts
<1> HIDE DEF stk, field
<1>10. FieldFits(field, items, nodes)
  <2>1. field.begin < field.end BY <1>3, <1>5, <1>6, RunParts
  <2> QED BY <1>6, <2>1 DEF FieldFits, InOrder, Spans
<1>11. MathRules(stk[Len(stk)]) BY <1>1, <1>4 DEF MathRules, Same
<1>12. Ready(stk, items, nodes, pos', 0) BY <1>4, <1>7, <1>11 DEF Ready
<1>13. Owned(stk, items, nodes, field.list) BY <1>6, <1>8
<1>14. Ranged(stk, items, nodes, field.begin, text') /\ ~Waiting(stk[Len(stk)])
  BY <1>4, <1>5, <1>6
<1> QED BY <1>1, <1>3, <1>6, <1>9, <1>10, <1>12, <1>13, <1>14, DeliverRanged

(* A closing brace fills the script its group was opened for.              *)
LEMMA ScriptRanged ==
  ASSUME Standing, OwnedNow, Laid, CloseScript PROVE RangesNow'
<1> DEFINE its    == FillScript(items, Top.script, GroupList)
           stk    == Below(stack)
           f      == stk[Len(stk)]
           script == Top.script
           field  == GroupList
           at     == Top.script.mark
<1>1. Allowed("}") /\ Top.role = "SCRIPT" /\ Becomes(stk, its, nodes) BY DEF CloseScript
<1>2. Scan("}") /\ Idle(Top) /\ ~Waiting(Top) BY <1>1, BraceIdle DEF Allowed, MathToken
<1>3. "}" \in Source BY AlphabetRead
<1>4. Poised /\ pos' = pos + 1 BY <1>2, <1>3, TokenPoised
<1>5. /\ Good(stack, items, nodes) /\ Sound(stack, items, nodes, pos')
      /\ stack \in Seq(FrameType) /\ Top = stack[Len(stack)] /\ pos' \in Nat
      /\ IInv /\ items \in Seq(Item)
  BY <1>4, PoisedParts, TopGood
<1>6. /\ Good(stk, items, nodes) /\ Len(stack) >= 2 /\ f \in FrameType
      /\ PushedOn(f, Top) /\ stk \in Seq(FrameType) /\ stk # << >>
  BY <1>1, <1>5, BelowGood, BelowTyped
<1>7. Sound(stk, items, nodes, pos') /\ Owed(f, Top, items) BY <1>4, <1>5, <1>6, SoundPop
<1>8. OpenFor(f, script, items) BY <1>1, <1>7 DEF Owed
<1>9. Rising(f.list) BY <1>6, <1>7, TopFirm DEF Firm
<1>10. Idle(f) /\ ~Waiting(f) BY <1>1, <1>6 DEF PushedOn
<1>11. /\ field \in Field /\ field.kind = "LIST" /\ field.list = Top.list
       /\ field.begin = Top.open /\ field.end = pos' /\ FieldFits(field, items, nodes)
  BY <1>1, <1>2, <1>4, ListRange DEF GroupList
<1>12. Owned(stk, items, nodes, field.list) BY <1>1, <1>5, <1>11, PoppedOwned
<1>13. Ranged(stk, items, nodes, at, text')
  BY <1>1, <1>4, <1>6, PoppedRanged DEF Opening
<1>14. /\ Top \in FrameType /\ MarksFit(Top, pos) /\ nodes \in Seq(Built)
  BY <1>4, PoisedTop
<1>15. at \in Nat /\ at <= field.begin
  <2>1. at \in Nat BY <1>4, <1>14, Measures, RunParts
  <2> QED BY <1>1, <1>11, <1>14, <2>1 DEF MarksFit
<1>16. script \in Script /\ script.mark = at BY <1>5, TopParts
<1>17. /\ result.status = "RUNNING" /\ DOMAIN text' \subseteq Nat BY <1>4, RunParts
<1> DEFINE new == text'
<1> HIDE DEF stk, f, script, field, at, new
<1>18. FieldFits(Widened(field, script.mark), items, nodes)
  BY <1>5, <1>11, <1>14, <1>15, <1>16, WidenedFits
<1>19. Settled(f, at) = script.mark BY <1>10, <1>16, IdleMarks
<1>20. Kindred(f, f) /\ f.list = f.list BY DEF Kindred
<1>21. /\ f = stk[Len(stk)] /\ ~Collecting(f) /\ field.kind # "EMPTY"
       /\ Ranged(stk, items, nodes, at, new) /\ DOMAIN new \subseteq Nat
  BY <1>10, <1>11, <1>13, <1>17 DEF Idle, f, new
<1>22. Ranged(SetTop(stk, f), FillScript(items, script, field), nodes, field.end, new)
  BY ONLY <1>5, <1>6, <1>8, <1>9, <1>10, <1>11, <1>12, <1>14, <1>15, <1>16, <1>18, <1>19,
     <1>20, <1>21, FillRanged
<1>23. SetTop(stk, f) = stk BY <1>6, <1>21, TopStill
<1> QED BY <1>1, <1>5, <1>11, <1>17, <1>22, <1>23, BecameRanged DEF script, field, new

(* A closing brace hands the list of a group down, or fills a script.      *)
LEMMA BraceRanged ==
  ASSUME Standing, OwnedNow, Laid, CloseText \/ CloseGroup \/ CloseScript PROVE RangesNow'
<1>1. "}" \in Source BY AlphabetRead
<1>2. CASE CloseText
  <2>1. /\ Scan("}") /\ Math /\ Top.text
        /\ Deliver(Below(stack), items, nodes, GroupList, "ORD")
    BY <1>2 DEF CloseText
  <2>2. Poised /\ pos' = pos + 1 BY <1>1, <2>1, TokenPoised
  <2>3. Idle(Top) /\ ~Waiting(Top) BY <2>1, <2>2, PoisedTop DEF MathRules, Steady
  <2>4. Top.role = "GROUP" BY <2>1, <2>2, PoisedParts, BelowGood DEF PushedOn
  <2> QED BY <2>1, <2>2, <2>3, <2>4, GroupRanged
<1>3. CASE CloseGroup
  <2>1. /\ Allowed("}") /\ Top.role = "GROUP"
        /\ Deliver(Below(stack), items, nodes, GroupList, "ORD")
    BY <1>3 DEF CloseGroup
  <2>2. Scan("}") /\ Math /\ Idle(Top) /\ ~Waiting(Top)
    BY <2>1, BraceIdle DEF Allowed, MathToken
  <2>3. Poised /\ pos' = pos + 1 BY <1>1, <2>2, TokenPoised
  <2> QED BY <2>1, <2>2, <2>3, GroupRanged
<1>4. CASE CloseScript BY <1>4, ScriptRanged
<1> QED BY <1>2, <1>3, <1>4

(* The list of an index goes to its radical.                               *)
LEMMA IndexRanged == ASSUME Standing, OwnedNow, Laid, CloseIndex PROVE RangesNow'
<1> DEFINE stk   == Below(stack)
           f     == stack[Len(stack) - 1]
           index == ListField(Top.list, Top.open, pos + 1)
           g     == [f EXCEPT !.collect.second = TRUE]
           nds   == FirstSet(nodes, f.collect.node, index)
<1>1. Allowed("]") /\ Top.role = "INDEX" /\ Becomes(SetTop(stk, g), items, nds)
  BY DEF CloseIndex, FirstSet
<1>2. Scan("]") /\ MathRules(Top) /\ Idle(Top) /\ ~Waiting(Top)
  BY <1>1 DEF Allowed, MathToken, Refused
<1>3. "]" \in Source BY AlphabetRead
<1>4. Poised /\ pos' = pos + 1 BY <1>2, <1>3, TokenPoised
<1>5. /\ Good(stack, items, nodes) /\ Sound(stack, items, nodes, pos')
      /\ stack \in Seq(FrameType) /\ Top = stack[Len(stack)] /\ pos' \in Nat /\ IInv
  BY <1>4, PoisedParts
<1>6. Len(stack) >= 2 /\ Good(stk, items, nodes) BY <1>1, <1>5, BelowGood
<1>7. stk[Len(stk)] = f
  <2>1. /\ Len(stk) = Len(stack) - 1 /\ \A i \in 1 .. Len(stack) - 1 : stk[i] = stack[i]
    BY <1>5, <1>6, BelowTyped
  <2>2. Len(stack) - 1 \in 1 .. Len(stack) - 1 BY <1>5, <1>6
  <2> QED BY <2>1, <2>2
<1>8. PushedOn(f, Top) /\ f \in FrameType BY <1>1, <1>5, <1>7, BelowGood
<1>9. Sound(stk, items, nodes, pos') BY <1>5, <1>6, SoundPop
<1>10. Owned(stk, items, nodes, Top.list) BY <1>1, <1>5, PoppedOwned
<1>11. /\ index \in Field /\ index.kind = "LIST" /\ index.begin = Top.open
       /\ index.end = pos' /\ FieldFits(index, items, nodes)
  BY <1>1, <1>2, <1>4, ListRange
<1>12. Ranged(stk, items, nodes, Top.open, text')
  BY <1>1, <1>4, <1>6, PoppedRanged DEF Opening
<1>13. Top.open \in Nat /\ result.status = "RUNNING" BY <1>4, <1>5, TopParts, RunParts
<1> DEFINE new == text'
           b   == Top.open
           q   == pos'
<1> HIDE DEF stk, f, index, new, b, q
<1>14. f.collect.kind = "RADICAL" /\ ~Waiting(f) /\ ~Pending(f)
  BY <1>1, <1>8 DEF PushedOn, Collects
<1>15. Building(f) /\ Collecting(f) BY <1>14 DEF Building, Collecting
<1>16. g \in FrameType /\ GoesOnCollecting(f, g) BY <1>8, <1>14, <1>15, GoesOnWith
<1> HIDE DEF g
<1>17. nds = FirstSet(nodes, f.collect.node, index) OBVIOUS
<1> HIDE DEF nds
<1>18. /\ b \in Nat /\ q \in Nat /\ index.kind # "EMPTY" /\ index.begin = b /\ index.end = q
       /\ Ranged(stk, items, nodes, b, new) /\ f = stk[Len(stk)]
  BY <1>5, <1>7, <1>11, <1>12, <1>13 DEF b, q, new
<1>19. Ranged(SetTop(stk, g), items, nds, q, new)
  BY ONLY <1>6, <1>9, <1>10, <1>11, <1>14, <1>15, <1>16, <1>17, <1>18, FirstRanged
<1> QED BY <1>1, <1>5, <1>13, <1>19, BecameRanged DEF q, new

(* A construct more, that no frame collects yet.                           *)
LEMMA AddedRanged ==
  ASSUME NEW stk, NEW its, NEW nds, NEW p, Good(stk, its, nds), Sound(stk, its, nds, p),
         NEW loose, Owned(stk, its, nds, loose),
         NEW b \in Nat, NEW txt, Ranged(stk, its, nds, b, txt),
         NEW node \in Built, NEW nds2, nds2 = Append(nds, node), NodeFits(node, its, nds2)
  PROVE  Ranged(stk, its, nds2, b, txt)
<1>1. stk \in Seq(FrameType) /\ stk # << >> /\ its \in Seq(Item) /\ nds \in Seq(Built)
  BY DEF Good, Typed
<1>2. \A n \in DOMAIN nds : n \in DOMAIN nds2 /\ nds2[n] = nds[n] BY <1>1
<1>3. \A n \in DOMAIN nds2 :
        (n \in DOMAIN nds /\ nds2[n] = nds[n]) \/ NodeFits(nds2[n], its, nds2)
  <2>1. \A n \in DOMAIN nds2 : n \in DOMAIN nds \/ nds2[n] = node BY <1>1
  <2> QED BY <1>2, <2>1
<1>4. \A i \in DOMAIN stk : Building(stk[i]) => stk[i].collect.node \in DOMAIN nds
  BY DEF Sound, Firm, Begun
<1>5. Spared(stk, nds, nds2)
  <2>1. NodesStay(nds, nds2) BY <1>2 DEF NodesStay
  <2>2. \A i \in 1 .. Len(stk) - 1 : i \in DOMAIN stk BY <1>1
  <2> QED BY <1>2, <1>4, <2>1, <2>2 DEF Spared
<1>6. ArgumentFits(stk[Len(stk)], b, nds2)
  <2> DEFINE f == stk[Len(stk)]
  <2>1. FrameFits(f, b, its, nds, txt) BY <1>1, TopFits
  <2>2. ArgumentFits(f, b, nds) BY <2>1 DEF FrameFits
  <2>3. Len(stk) \in DOMAIN stk BY <1>1
  <2>4. Building(f) => f.collect.node \in DOMAIN nds BY <1>4, <2>3
  <2> HIDE DEF f
  <2> QED BY <1>2, <2>2, <2>4 DEF ArgumentFits, f
<1> QED BY <1>1, <1>3, <1>5, <1>6, BuildRanged

(* The list of a fence goes to its construct.                              *)
LEMMA FenceRanged ==
  ASSUME Standing, OwnedNow, Laid, NEW t \in Alphabet, CloseFence(t) PROVE RangesNow'
<1> DEFINE base  == Node("FENCED", Top.open)
           node  == [base EXCEPT !.list = Top.list]
           field == NodeField("FENCED", Len(nodes) + 1, Top.open, pos + 1)
           nds   == Append(nodes, node)
           stk   == Below(stack)
<1>1. /\ Scan(t) /\ MathRules(Top) /\ t \in Delimiters /\ Top.wait.kind = "RIGHT"
      /\ OutOfMemory \/ Deliver(stk, items, nds, field, "INNER")
  BY DEF CloseFence, AwaitsDelimiter
<1>2. Poised /\ pos' = pos + 1 BY <1>1, AlphabetRead, TokenPoised
<1>3. Top.role = "FENCED" /\ Idle(Top) BY <1>1, <1>2, PoisedParts DEF Steady
<1>4. IInv BY DEF Standing
<1>5. base \in Built BY <1>4, TopParts, NodeTyped
<1>6. /\ base.kind = "FENCED" /\ base.first.list = << >> /\ base.last.list = << >>
      /\ base.rows = << >>
      /\ base.first.kind = "EMPTY" /\ base.last.kind = "EMPTY"
  BY DEF Node, Empty
<1> HIDE DEF base
<1>7. /\ node \in Built /\ node.kind = "FENCED" /\ node.list = Top.list /\ node.rows = << >>
      /\ node.first = base.first /\ node.last = base.last
  BY <1>4, <1>5, <1>6, TopParts DEF Built
<1> HIDE DEF node
<1>8. Hollow(NodeFields(node)) /\ Finished(node)
  BY <1>6, <1>7 DEF Hollow, NodeFields, Finished
<1>9. /\ field \in Field /\ field.kind = "FENCED" /\ field.list = << >>
      /\ field.node = Len(nodes) + 1 /\ field.begin = Top.open /\ field.end = pos'
  <2>1. "FENCED" \in FieldKinds /\ Len(nodes) + 1 \in Nat BY <1>4, TopParts DEF FieldKinds
  <2>2. field \in Field BY <1>4, <2>1, TopParts, NodeFieldTyped
  <2> QED BY <1>2, <2>2 DEF NodeField, Empty
<1> HIDE DEF field
<1>10. Ready(stk, items, nodes, pos', 0) /\ Len(stack) >= 2
  BY <1>1, <1>2, <1>3, ClosedReady DEF MathRules
<1>11. pos' \in Nat BY <1>2, PoisedParts
<1>12. Ready(stk, items, nds, pos', Len(nodes) + 1)
  BY <1>7, <1>8, <1>10, <1>11, LooseReady
<1>13. Owned(stk, items, nodes, Top.list) BY <1>3, <1>4, PoppedOwned
<1>14. Owned(stk, items, nds, << >>)
  BY <1>4, <1>6, <1>7, <1>8, <1>13, TopParts, OwnedBuilt
<1>15. /\ InOrder(Top.list, items) /\ Spans(Top.list, items, Top.open, pos')
       /\ Top.open \in Nat /\ Top.open < pos'
  BY <1>2, <1>3, ListSpans
<1>16. NodeFits(node, items, nds)
  <2>1. RowsFit(node.rows, 0, items) BY <1>7 DEF RowsFit
  <2>2. node.kind \notin Three BY <1>7 DEF Three
  <2> HIDE DEF nds
  <2> QED BY <1>6, <1>7, <1>15, <2>1, <2>2, BeginFits
<1>17. Ranged(stk, items, nodes, Top.open, text')
  BY <1>2, <1>3, <1>10, PoppedRanged DEF Opening
<1>18. Ranged(stk, items, nds, Top.open, text')
  <2> DEFINE new == text'
             b == Top.open
             q == pos'
  <2>1. /\ Good(stk, items, nodes) /\ Sound(stk, items, nodes, q) /\ b \in Nat
        /\ Ranged(stk, items, nodes, b, new) /\ nds = Append(nodes, node)
    BY <1>10, <1>15, <1>17 DEF Ready
  <2> HIDE DEF new, b, q, nds, stk
  <2> QED BY <1>7, <1>13, <1>16, <2>1, AddedRanged DEF new, b
<1>19. nds[Len(nodes) + 1] = node /\ Len(nodes) + 1 \in DOMAIN nds
  <2>1. nodes \in Seq(Built) BY <1>4, TopParts
  <2> QED BY <1>7, <2>1
<1> HIDE DEF nds, stk
<1>20. FieldFits(field, items, nds)
  <2>1. Filled(NodeFields(node)) = {} BY <1>6, <1>7 DEF Filled, NodeFields
  <2>2. node.kind \notin Three /\ node.kind \notin {"FRACTION", "RADICAL"}
    BY <1>7 DEF Three
  <2>3. Holding(field, node, items) BY <1>7, <1>9, <1>15, <2>1, <2>2 DEF Holding
  <2>4. InOrder(field.list, items) /\ Spans(field.list, items, field.begin, field.end)
    BY <1>9 DEF InOrder, Spans
  <2> QED BY <1>9, <1>15, <1>19, <2>3, <2>4 DEF FieldFits
<1>21. Owned(stk, items, nds, field.list) BY <1>9, <1>14
<1>22. Ranged(stk, items, nds, field.begin, text') BY <1>9, <1>18
<1>23. ~Waiting(stk[Len(stk)]) BY <1>3, <1>4, BelowGood DEF PushedOn, stk
<1>24. "INNER" \in Classes /\ field.kind # "EMPTY" /\ field.end = pos' BY <1>9 DEF Classes
<1>25. result.status = "RUNNING" /\ pos \in Nat BY <1>2, RunParts
<1>26. CASE Deliver(stk, items, nds, field, "INNER")
  BY <1>2, <1>9, <1>12, <1>20, <1>21, <1>22, <1>23, <1>24, <1>26, DeliverRanged
<1> QED BY <1>1, <1>25, <1>26, StoppedRanged

-----------------------------------------------------------------------------
(***************************************************************************)
(* Cells, rows and environments.                                           *)
(***************************************************************************)

(* The rows of an environment with the one in progress.                    *)
Sheet(rows, cells) == IF cells = << >> THEN rows ELSE Append(rows, cells)

(* They are the rows, and the one in progress after them.                  *)
LEMMA SheetParts ==
  ASSUME NEW rows \in Seq(Seq(Cell)), NEW cells \in Seq(Cell)
  PROVE  LET R == Sheet(rows, cells) IN
         /\ R \in Seq(Seq(Cell))
         /\ \A r \in 1 .. Len(rows) : r \in DOMAIN R /\ R[r] = rows[r]
         /\ cells # << >> => Len(rows) + 1 \in DOMAIN R /\ R[Len(rows) + 1] = cells
<1>1. CASE cells = << >> BY <1>1 DEF Sheet
<1>2. CASE cells # << >>
  <2> DEFINE R == Append(rows, cells)
  <2>1. Sheet(rows, cells) = R BY <1>2 DEF Sheet
  <2>2. /\ R \in Seq(Seq(Cell)) /\ Len(R) = Len(rows) + 1 /\ R[Len(rows) + 1] = cells
        /\ \A r \in 1 .. Len(rows) : R[r] = rows[r]
    OBVIOUS
  <2> HIDE DEF R
  <2>3. \A r \in 1 .. Len(rows) : r \in DOMAIN R BY <2>2
  <2>4. Len(rows) + 1 \in DOMAIN R BY <2>2
  <2> QED BY <2>1, <2>2, <2>3, <2>4
<1> QED BY <1>1, <1>2

(* The cells of the rows with a cell more: those there were, and that one. *)
LEMMA SheetGrown ==
  ASSUME NEW rows \in Seq(Seq(Cell)), NEW cells \in Seq(Cell), NEW cell \in Cell
  PROVE  LET R == Sheet(rows, cells)
             N == Append(rows, Append(cells, cell))
             n == Len(rows) + 1
             m == Len(cells) + 1
         IN /\ N \in Seq(Seq(Cell)) /\ Len(N) = n
            /\ \A r \in 1 .. Len(rows) : N[r] = R[r] /\ r \in DOMAIN R
            /\ N[n] = Append(cells, cell) /\ Len(N[n]) = m
            /\ \A r \in DOMAIN N : \A c \in DOMAIN N[r] :
                 \/ r \in DOMAIN R /\ c \in DOMAIN R[r] /\ N[r][c] = R[r][c]
                 \/ r = n /\ c = m /\ N[r][c] = cell
<1> DEFINE R == Sheet(rows, cells)
           row == Append(cells, cell)
           N == Append(rows, row)
           n == Len(rows) + 1
           m == Len(cells) + 1
<1>1. /\ R \in Seq(Seq(Cell)) /\ \A r \in 1 .. Len(rows) : r \in DOMAIN R /\ R[r] = rows[r]
      /\ cells # << >> => n \in DOMAIN R /\ R[n] = cells
  BY SheetParts
<1>2. /\ row \in Seq(Cell) /\ Len(row) = m /\ row[m] = cell
      /\ \A c \in 1 .. Len(cells) : row[c] = cells[c]
  OBVIOUS
<1> HIDE DEF R, row
<1>3. /\ N \in Seq(Seq(Cell)) /\ Len(N) = n /\ N[n] = row
      /\ \A r \in 1 .. Len(rows) : N[r] = rows[r]
  BY <1>2
<1> HIDE DEF N
<1>4. ASSUME NEW r \in DOMAIN N, NEW c \in DOMAIN N[r]
      PROVE  \/ r \in DOMAIN R /\ c \in DOMAIN R[r] /\ N[r][c] = R[r][c]
             \/ r = n /\ c = m /\ N[r][c] = cell
  <2>1. r \in 1 .. Len(rows) \/ r = n BY <1>3
  <2>2. CASE r \in 1 .. Len(rows) BY <1>1, <1>3, <2>2
  <2>3. CASE r = n
    <3>1. c \in DOMAIN row /\ N[r][c] = row[c] BY <1>3, <2>3
    <3>2. c \in 1 .. Len(cells) \/ c = m BY <1>2, <3>1
    <3>3. CASE c \in 1 .. Len(cells)
      <4>1. cells # << >> /\ c \in DOMAIN cells BY <3>3
      <4> QED BY <1>1, <1>2, <2>3, <3>1, <3>3, <4>1
    <3>4. CASE c = m BY <1>2, <2>3, <3>1, <3>4
    <3> QED BY <3>2, <3>3, <3>4
  <2> QED BY <2>1, <2>2, <2>3
<1> QED BY <1>1, <1>2, <1>3, <1>4 DEF R, row, N

(* A cell after all there were keeps the rows in order.                    *)
LEMMA RowsAdded ==
  ASSUME NEW rows \in Seq(Seq(Cell)), NEW cells \in Seq(Cell), NEW cell \in Cell, NEW its,
         NEW most \in Nat, RowsFit(Sheet(rows, cells), most, its),
         NEW at \in Nat, EndBefore(Sheet(rows, cells), at), at <= cell.begin,
         CellFits(cell, its), most = 0 \/ Len(cells) + 1 <= most,
         NEW start \in Nat, cell.end < start
  PROVE  LET N == Append(rows, Append(cells, cell)) IN
         RowsFit(N, most, its) /\ EndBefore(N, start)
<1> DEFINE R == Sheet(rows, cells)
           N == Append(rows, Append(cells, cell))
           n == Len(rows) + 1
           m == Len(cells) + 1
<1>1. /\ N \in Seq(Seq(Cell)) /\ Len(N) = n
      /\ \A r \in 1 .. Len(rows) : N[r] = R[r] /\ r \in DOMAIN R
      /\ Len(N[n]) = m
      /\ \A r \in DOMAIN N : \A c \in DOMAIN N[r] :
           \/ r \in DOMAIN R /\ c \in DOMAIN R[r] /\ N[r][c] = R[r][c]
           \/ r = n /\ c = m /\ N[r][c] = cell
  BY SheetGrown
<1>2. R \in Seq(Seq(Cell)) BY SheetParts
<1>3. RowsFit(R, most, its) /\ EndBefore(R, at) OBVIOUS
<1> HIDE DEF R, N
<1>4. cell.begin \in Nat /\ cell.end \in Nat BY DEF Cell
<1>5. cell.begin <= cell.end BY DEF CellFits
<1>6. \A r \in DOMAIN R : \A c \in DOMAIN R[r] :
        /\ R[r][c].end \in Nat /\ R[r][c].end < at /\ CellFits(R[r][c], its)
  <2>1. ASSUME NEW r \in DOMAIN R, NEW c \in DOMAIN R[r] PROVE R[r][c].end \in Nat
    <3>1. R[r] \in Seq(Cell) BY <1>2
    <3>2. R[r][c] \in Cell BY <3>1
    <3> QED BY <3>2 DEF Cell
  <2> QED BY <1>3, <2>1 DEF EndBefore, RowsFit
<1>7. ASSUME NEW r \in DOMAIN N PROVE Len(N[r]) >= 1 /\ (most = 0 \/ Len(N[r]) <= most)
  <2>1. r \in 1 .. Len(rows) \/ r = n BY <1>1
  <2>2. CASE r \in 1 .. Len(rows) BY <1>1, <1>3, <2>2 DEF RowsFit
  <2>3. CASE r = n
    <3>1. m >= 1 /\ (most = 0 \/ m <= most) OBVIOUS
    <3> QED BY <1>1, <2>3, <3>1
  <2> QED BY <2>1, <2>2, <2>3
<1>8. \A r \in DOMAIN N : \A c \in DOMAIN N[r] : CellFits(N[r][c], its) BY <1>1, <1>6
<1>9. ASSUME NEW r \in DOMAIN N, NEW s \in DOMAIN N, NEW c \in DOMAIN N[r], NEW d \in DOMAIN N[s],
             r < s \/ (r = s /\ c < d)
      PROVE  N[r][c].end < N[s][d].begin
  <2>1. /\ r \in Nat /\ s \in Nat /\ r <= n /\ s <= n BY <1>1
  <2>2. CASE r = n /\ c = m
    <3>1. s = n /\ c < d BY <1>9, <2>1, <2>2
    <3>2. d \in 1 .. m
      <4>1. N[n] \in Seq(Cell) BY <1>1, <3>1
      <4> QED BY <1>1, <3>1, <4>1
    <3> QED BY <2>2, <3>1, <3>2
  <2>3. CASE r \in DOMAIN R /\ c \in DOMAIN R[r] /\ N[r][c] = R[r][c]
    <3>1. CASE s \in DOMAIN R /\ d \in DOMAIN R[s] /\ N[s][d] = R[s][d]
      BY <1>3, <1>9, <2>3, <3>1 DEF RowsFit
    <3>2. CASE N[s][d] = cell BY <1>4, <1>6, <2>3, <3>2
    <3> QED BY <1>1, <3>1, <3>2
  <2> QED BY <1>1, <2>2, <2>3
<1>10. RowsFit(N, most, its) BY <1>7, <1>8, <1>9 DEF RowsFit
<1>11. EndBefore(N, start)
  <2>1. ASSUME NEW r \in DOMAIN N, NEW c \in DOMAIN N[r] PROVE N[r][c].end < start
    <3>1. CASE r \in DOMAIN R /\ c \in DOMAIN R[r] /\ N[r][c] = R[r][c]
      BY <1>4, <1>5, <1>6, <3>1
    <3>2. CASE N[r][c] = cell BY <3>2
    <3> QED BY <1>1, <3>1, <3>2
  <2> QED BY <2>1 DEF EndBefore
<1> QED BY <1>10, <1>11 DEF N

(* The cell that is open lies from where it starts to the token read.      *)
LEMMA CellRange ==
  ASSUME Poised, Laid, Top.role = "CELL", Idle(Top), ~Waiting(Top)
  PROVE  LET cell == CellOf(Top) IN
         /\ cell \in Cell /\ CellFits(cell, items)
         /\ Top.cellStart \in Nat /\ Top.cellStart <= cell.begin /\ cell.end <= pos
<1> DEFINE f == Top
           cell == CellOf(f)
           at == f.cellStart
<1>1. /\ f \in FrameType /\ FrameFits(f, pos, items, nodes, text') /\ MarksFit(f, pos)
      /\ items \in Seq(Item)
  BY PoisedTop
<1>2. pos \in Nat BY RunParts
<1>3. cell \in Cell BY CellTyped, PoisedParts
<1>4. f.role = "CELL" /\ Idle(f) /\ ~Waiting(f) OBVIOUS
<1>5. /\ cell.list = f.list
      /\ f.list = << >> => cell.begin = at /\ cell.end = at
      /\ f.list # << >> => /\ cell.begin = items[f.list[1]].begin
                           /\ cell.end = items[f.list[Len(f.list)]].end
  BY DEF CellOf, Tail1
<1> HIDE DEF f, cell
<1>6. Floor(f) = at /\ at \in Nat /\ f.list \in Seq(Nat)
  BY <1>1, <1>2, <1>4, Measures DEF Floor
<1>7. Settled(f, pos) = pos BY <1>4, IdleMarks
<1>8. at <= pos BY <1>1, <1>6, <1>7 DEF MarksFit
<1>9. InOrder(f.list, items) /\ Reaching(f, pos, items) BY <1>1, <1>7 DEF FrameFits
<1>10. \A k \in DOMAIN items : items[k].begin \in Nat /\ items[k].end \in Nat
  BY <1>1, ItemSpans
<1>11. CASE f.list = << >>
  <2>1. CellFits(cell, items) BY <1>5, <1>6, <1>11 DEF CellFits, Spans
  <2> QED BY <1>3, <1>5, <1>6, <1>8, <1>11, <2>1 DEF f, cell
<1>12. CASE f.list # << >>
  <2> DEFINE n == Len(f.list)
  <2>1. n \in Nat /\ 1 <= n /\ 1 \in DOMAIN f.list /\ n \in DOMAIN f.list
        /\ DOMAIN f.list = 1 .. n
    BY <1>6, <1>12
  <2> DEFINE bgn(j) == items[f.list[j]].begin
             fin(j) == items[f.list[j]].end
  <2>2. \A j \in 1 .. n : /\ f.list[j] \in DOMAIN items
                          /\ bgn(j) \in Nat /\ fin(j) \in Nat /\ bgn(j) <= fin(j)
                          /\ at <= bgn(j) /\ fin(j) <= pos
    BY <1>4, <1>6, <1>9, <1>10, <2>1 DEF InOrder, Reaching, Idle
  <2>3. \A j, k \in 1 .. n : j < k => fin(j) <= bgn(k) BY <1>9, <2>1 DEF InOrder
  <2>4. cell.begin = bgn(1) /\ cell.end = fin(n) BY <1>5, <1>12
  <2> HIDE DEF n, bgn, fin
  <2>5. \A j \in 1 .. n : bgn(1) <= bgn(j) /\ fin(j) <= fin(n)
    <3> TAKE j \in 1 .. n
    <3>1. j = 1 \/ 1 < j BY <2>1
    <3>2. j = n \/ j < n BY <2>1
    <3>3. bgn(1) <= bgn(j) BY <2>1, <2>2, <2>3, <3>1
    <3>4. fin(j) <= fin(n) BY <2>1, <2>2, <2>3, <3>2
    <3> QED BY <3>3, <3>4
  <2>6. bgn(1) <= fin(n) BY <2>1, <2>2, <2>5
  <2>7. CellFits(cell, items)
    BY <1>5, <2>1, <2>2, <2>4, <2>5, <2>6 DEF CellFits, Spans, bgn, fin
  <2>8. at <= cell.begin /\ cell.end <= pos BY <2>1, <2>2, <2>4
  <2> QED BY <1>3, <1>6, <2>7, <2>8 DEF f, cell
<1> QED BY <1>11, <1>12

(* The rows with the cell that is open.                                    *)
Rowed(f) == Append(f.rows, Append(f.cells, CellOf(f)))

(* They are in order.                                                      *)
LEMMA RowedFits ==
  ASSUME Poised, Laid, Top.role = "CELL", Idle(Top), ~Waiting(Top),
         NEW start \in Nat, pos < start
  PROVE  /\ RowsFit(Rowed(Top), Columns(Top.env), items) /\ EndBefore(Rowed(Top), start)
         /\ Columns(Top.env) \in Nat /\ Len(Top.cells) \in Nat
<1> DEFINE f == Top
           cell == CellOf(f)
           most == Columns(f.env)
           at == f.cellStart
           R == Sheet(f.rows, f.cells)
<1>1. f \in FrameType /\ FrameFits(f, pos, items, nodes, text') BY PoisedTop
<1>2. pos \in Nat BY RunParts
<1>3. /\ cell \in Cell /\ CellFits(cell, items)
      /\ at \in Nat /\ at <= cell.begin /\ cell.end <= pos
  BY CellRange
<1>4. most \in Nat BY BoundAssumption DEF Columns
<1>5. f.role = "CELL" OBVIOUS
<1>6. Rowed(f) = Append(f.rows, Append(f.cells, cell)) BY DEF Rowed
<1> HIDE DEF f, cell, most, R
<1>7. f.rows \in Seq(Seq(Cell)) /\ f.cells \in Seq(Cell) BY <1>1 DEF FrameType
<1>8. /\ RowsFit(R, most, items) /\ EndBefore(R, at)
      /\ (most # 0 => Len(f.cells) < most)
  BY <1>1, <1>5 DEF FrameFits, CellsFit, AllRows, Sheet, R, most
<1>9. Len(f.cells) \in Nat BY <1>7
<1>10. most = 0 \/ Len(f.cells) + 1 <= most BY <1>4, <1>8, <1>9
<1>11. cell.end < start
  <2>1. cell.end \in Nat BY <1>3 DEF Cell
  <2> QED BY <1>2, <1>3, <2>1
<1>12. RowsFit(Rowed(f), most, items) /\ EndBefore(Rowed(f), start)
  BY <1>3, <1>4, <1>6, <1>7, <1>8, <1>10, <1>11, RowsAdded DEF R
<1> QED BY <1>4, <1>9, <1>12 DEF f, most

(* A cell that starts where the parser has read to.                        *)
LEMMA CellRanged ==
  ASSUME Poised, Laid, OwnedNow, Top.role = "CELL", Idle(Top), ~Waiting(Top),
         NEW g \in FrameType, Same(Top, g), g.list = << >>, g.collect = Top.collect,
         g.pending = Top.pending, g.wait = Top.wait, AllRows(g) = Rowed(Top),
         Columns(Top.env) # 0 => Len(g.cells) < Columns(Top.env), g.cellStart = pos',
         Becomes(SetTop(stack, g), items, nodes)
  PROVE  RangesNow'
<1> DEFINE f == Top
           q == pos'
           new == text'
<1>1. /\ stack \in Seq(FrameType) /\ stack # << >> /\ items \in Seq(Item)
      /\ nodes \in Seq(Built) /\ f = stack[Len(stack)]
      /\ Ranged(stack, items, nodes, pos, new)
  BY PoisedTop
<1>2. /\ pos \in Nat /\ q \in Nat /\ pos < q /\ result.status = "RUNNING" BY RunParts
<1>3. /\ RowsFit(Rowed(f), Columns(f.env), items) /\ EndBefore(Rowed(f), q)
  BY <1>2, RowedFits
<1>4. g.role = "CELL" /\ g.env = f.env /\ g.open = f.open BY DEF Same
<1>5. Idle(g) /\ ~Waiting(g) BY DEF Idle, Collecting, Pending, Waiting
<1>6. CellsFit(g, items) BY <1>3, <1>4 DEF CellsFit
<1>7. Floor(g) <= q /\ (g.role = "SCRIPT" => g.script.mark <= g.open) BY <1>2, <1>4 DEF Floor
<1> HIDE DEF f, q, new
<1>8. MarksFit(g, q) /\ ArgumentFits(g, q, nodes) /\ Settled(g, q) = q
  BY <1>5, <1>7, IdleMarks
<1>9. InOrder(g.list, items) /\ Reaching(g, q, items) BY DEF InOrder, Reaching
<1>10. Covering(g, q, items, new) BY <1>4 DEF Covering
<1>11. FrameFits(g, q, items, nodes, new) BY <1>6, <1>8, <1>9, <1>10 DEF FrameFits
<1>12. Opening(g) = Opening(f) BY <1>4 DEF Opening, f
<1>13. AllAgree(stack, items, nodes, items) /\ Spared(stack, nodes, nodes)
  BY <1>1, SelfAll, SparedStill DEF OwnedNow
<1>14. Ranged(SetTop(stack, g), items, nodes, q, new)
  BY <1>1, <1>11, <1>12, <1>13, RangedTop
<1> QED BY <1>2, <1>14, BecameRanged DEF q, new

(* An alignment tab.                                                       *)
LEMMA TabRanged == ASSUME Standing, OwnedNow, Laid, AlignmentTab PROVE RangesNow'
<1> DEFINE f == Top
           g == WithCell(f, pos + 1)
           cell == CellOf(f)
<1>1. Allowed("&") BY DEF AlignmentTab
<1>2. Scan("&") /\ Idle(f) /\ ~Waiting(f)
  BY <1>1 DEF Allowed, MathToken, Refused, NeverScripts, Idle
<1>3. "&" \in Source BY AlphabetRead
<1>4. Poised /\ pos' = pos + 1 BY <1>2, <1>3, TokenPoised
<1>5. \/ \E what : Fail(what)
      \/ OutOfMemory
      \/ /\ f.role = "CELL" /\ ~(Columns(f.env) # 0 /\ Len(f.cells) + 1 = Columns(f.env))
         /\ Becomes(SetTop(stack, g), items, nodes)
  BY DEF AlignmentTab
<1>6. pos \in Nat /\ pos + 1 \in Nat /\ result.status = "RUNNING" BY <1>4, RunParts
<1>7. ASSUME f.role = "CELL", ~(Columns(f.env) # 0 /\ Len(f.cells) + 1 = Columns(f.env)),
             Becomes(SetTop(stack, g), items, nodes)
      PROVE  RangesNow'
  <2>1. /\ g \in FrameType /\ Same(f, g) /\ g.list = << >>
        /\ g.collect = f.collect /\ g.pending = f.pending /\ g.wait = f.wait
    BY <1>4, <1>6, PoisedParts, WithCellTyped
  <2>2. f \in FrameType /\ FrameFits(f, pos, items, nodes, text') BY <1>4, PoisedTop
  <2>3. g = [f EXCEPT !.cells = Append(f.cells, cell), !.list = << >>, !.cellStart = pos + 1]
    BY DEF WithCell
  <2>4. /\ Columns(f.env) \in Nat /\ Len(f.cells) \in Nat
    BY <1>2, <1>4, <1>6, <1>7, RowedFits
  <2>5. f.role = "CELL" BY <1>7
  <2>6. Rowed(f) = Append(f.rows, Append(f.cells, cell)) BY DEF Rowed
  <2>7. cell \in Cell BY CellTyped, <1>4, PoisedParts
  <2>8. ~(Columns(f.env) # 0 /\ Len(f.cells) + 1 = Columns(f.env)) BY <1>7
  <2> HIDE DEF f, g, cell
  <2>9. /\ g.cells = Append(f.cells, cell) /\ g.rows = f.rows /\ g.cellStart = pos + 1
    BY <2>2, <2>3 DEF FrameType
  <2>10. f.cells \in Seq(Cell) BY <2>2 DEF FrameType
  <2>11. g.cells # << >> /\ Len(g.cells) = Len(f.cells) + 1 BY <2>7, <2>9, <2>10
  <2>12. AllRows(g) = Rowed(f) BY <2>6, <2>9, <2>11 DEF AllRows
  <2>13. Columns(f.env) # 0 => Len(f.cells) < Columns(f.env)
    BY <2>2, <2>5 DEF FrameFits, CellsFit
  <2>14. Columns(f.env) # 0 => Len(g.cells) < Columns(f.env) BY <2>4, <2>8, <2>11, <2>13
  <2> QED BY <1>2, <1>4, <1>7, <2>1, <2>5, <2>9, <2>12, <2>14, CellRanged DEF f
<1> QED BY <1>4, <1>5, <1>6, <1>7, StoppedRanged

(* A row begun again: its cells are none, its rows those with the cell.    *)
LEMMA RowedAgain ==
  ASSUME IInv, NEW start \in Nat
  PROVE  LET g == WithRow(Top, start) IN
         /\ g \in FrameType /\ Same(Top, g) /\ g.list = << >>
         /\ g.collect = Top.collect /\ g.pending = Top.pending /\ g.wait = Top.wait
         /\ g.cells = << >> /\ g.rows = Rowed(Top) /\ g.cellStart = start
<1> DEFINE f == Top
           h == WithCell(f, start)
           g == WithRow(f, start)
<1>1. /\ g \in FrameType /\ Same(f, g) /\ g.list = << >>
      /\ g.collect = f.collect /\ g.pending = f.pending /\ g.wait = f.wait
  BY WithRowTyped
<1>2. h \in FrameType BY WithCellTyped
<1>3. f \in FrameType BY TopParts
<1> DEFINE cells == Append(f.cells, CellOf(f))
<1>4. h = [f EXCEPT !.cells = cells, !.list = << >>, !.cellStart = start] BY DEF WithCell
<1>5. Rowed(f) = Append(f.rows, cells) BY DEF Rowed
<1>6. g = [h EXCEPT !.rows = Append(h.rows, cells), !.cells = << >>] BY DEF WithRow
<1> HIDE DEF f, h, g, cells
<1>7. h.rows = f.rows /\ h.cellStart = start BY <1>3, <1>4 DEF FrameType
<1>8. g.cells = << >> /\ g.rows = Append(h.rows, cells) /\ g.cellStart = h.cellStart
  BY <1>2, <1>6 DEF FrameType
<1> QED BY <1>1, <1>5, <1>7, <1>8 DEF f, g

(* A row terminator.                                                       *)
LEMMA TerminatorRanged == ASSUME Standing, OwnedNow, Laid, RowTerminator PROVE RangesNow'
<1>1. PICK seen, consumed, look : RowEnded(seen, consumed, look) /\ pos' = consumed
  BY DEF RowTerminator, RowEnded
<1>2. \/ OutOfMemory
      \/ \E at : Malformed(at)
      \/ \E what, b, e : Refuse(what, b, e)
      \/ Becomes(SetTop(stack, WithRow(Top, consumed)), items, nodes)
  BY <1>1 DEF RowEnded
<1>3. Top.role = "CELL" /\ Idle(Top) /\ ~Waiting(Top) BY DEF RowTerminator
<1>4. Poised BY RowTerminatorMoves
<1>5. /\ pos \in Nat /\ consumed \in Nat /\ pos < consumed /\ result.status = "RUNNING" /\ IInv
  BY <1>1, <1>4, RunParts, PoisedParts
<1>6. CASE Becomes(SetTop(stack, WithRow(Top, consumed)), items, nodes)
  <2> DEFINE g == WithRow(Top, consumed)
  <2>1. /\ g \in FrameType /\ Same(Top, g) /\ g.list = << >>
        /\ g.collect = Top.collect /\ g.pending = Top.pending /\ g.wait = Top.wait
        /\ g.cells = << >> /\ g.rows = Rowed(Top) /\ g.cellStart = consumed
    BY <1>5, RowedAgain
  <2>2. Columns(Top.env) \in Nat BY <1>3, <1>4, <1>5, RowedFits
  <2> HIDE DEF g
  <2>3. AllRows(g) = Rowed(Top) BY <2>1 DEF AllRows
  <2>4. Len(g.cells) = 0 BY <2>1
  <2>5. Columns(Top.env) # 0 => Len(g.cells) < Columns(Top.env) BY <2>2, <2>4
  <2> QED BY <1>1, <1>3, <1>4, <1>6, <2>1, <2>3, <2>5, CellRanged DEF g
<1> QED BY <1>2, <1>5, <1>6, StoppedRanged

(* The rows an environment ends with.                                      *)
LEMMA LastRowFits ==
  ASSUME Poised, Laid, Top.role = "CELL", Idle(Top), ~Waiting(Top)
  PROVE  RowsFit(LastRow(Top).rows, 0, items)
<1>1. pos \in Nat /\ pos + 1 \in Nat /\ pos < pos + 1 BY RunParts
<1>2. Top \in FrameType /\ FrameFits(Top, pos, items, nodes, text') /\ IInv
  BY PoisedTop, PoisedParts
<1>3. Top.cellStart \in Nat BY <1>1, <1>2, Measures
<1>4. \A rows, most : RowsFit(rows, most, items) => RowsFit(rows, 0, items) BY DEF RowsFit
<1>5. CASE Top.cells # << >> \/ Top.list # << >>
  <2>1. LastRow(Top).rows = Rowed(Top) BY <1>2, <1>3, <1>5, RowedAgain DEF LastRow
  <2>2. RowsFit(Rowed(Top), Columns(Top.env), items) BY <1>1, RowedFits
  <2> QED BY <1>4, <2>1, <2>2
<1>6. CASE Top.cells = << >> /\ Top.list = << >>
  <2>1. LastRow(Top).rows = AllRows(Top) BY <1>6 DEF LastRow, AllRows
  <2>2. RowsFit(AllRows(Top), Columns(Top.env), items) BY <1>2 DEF FrameFits, CellsFit
  <2> QED BY <1>4, <2>1, <2>2
<1>7. (Top.cells # << >> \/ Top.list # << >>) \/ (Top.cells = << >> /\ Top.list = << >>)
  OBVIOUS
<1> QED BY <1>5, <1>6, <1>7

(* The construct an environment ends as.                                   *)
ArrayOf(f) == [Node("ARRAY", f.open) EXCEPT !.rows = LastRow(f).rows, !.strut = Strut(f)]

(* It takes the rows of its frame over.                                    *)
LEMMA ArrayOwned ==
  ASSUME IInv, OwnedNow, Top.role = "CELL"
  PROVE  /\ ArrayOf(Top) \in Built /\ ArrayOf(Top).kind = "ARRAY"
         /\ ArrayOf(Top).rows = LastRow(Top).rows /\ ArrayOf(Top).list = << >>
         /\ ArrayOf(Top).first.kind = "EMPTY" /\ ArrayOf(Top).last.kind = "EMPTY"
         /\ Finished(ArrayOf(Top))
         /\ Owned(Below(stack), items, Append(nodes, ArrayOf(Top)), << >>)
<1> DEFINE last  == LastRow(Top)
           rows  == last.rows
           strut == Strut(Top)
           base  == Node("ARRAY", Top.open)
           node  == [base EXCEPT !.rows = rows, !.strut = strut]
           nds   == Append(nodes, node)
<1>1. /\ stack \in Seq(FrameType) /\ stack # << >> /\ items \in Seq(Item)
      /\ nodes \in Seq(Built) /\ Top \in FrameType /\ Top = stack[Len(stack)]
  BY TopParts
<1>2. Top.cellStart \in Nat BY <1>1 DEF FrameType
<1>3. /\ last \in FrameType /\ last.list = << >> /\ last.cells = << >>
      /\ Owned(SetTop(stack, last), items, nodes, << >>)
  <2>1. CASE Top.cells # << >> \/ Top.list # << >> BY <1>2, <2>1, RowOwned DEF LastRow
  <2>2. CASE Top.cells = << >> /\ Top.list = << >>
    <3>1. last = Top BY <2>2 DEF LastRow
    <3>2. SetTop(stack, Top) = stack BY <1>1, TopStill
    <3> QED BY <1>1, <2>2, <3>1, <3>2 DEF OwnedNow
  <2> QED BY <2>1, <2>2
<1> HIDE DEF last
<1>4. rows \in Seq(Seq(Cell)) BY <1>3 DEF FrameType
<1>5. strut \in Struts BY DEF Strut, Struts
<1>6. /\ base \in Built /\ base.kind = "ARRAY" /\ base.list = << >>
      /\ base.first.list = << >> /\ base.last.list = << >>
      /\ base.first.kind = "EMPTY" /\ base.last.kind = "EMPTY"
  <2>1. base \in Built BY TopParts, NodeTyped
  <2> QED BY <2>1 DEF Node, Empty
<1>7. ArrayOf(Top) = node BY DEF ArrayOf, last
<1> HIDE DEF rows, strut, base
<1>8. /\ node \in Built /\ node.kind = "ARRAY" /\ node.rows = rows /\ node.list = << >>
      /\ node.first = base.first /\ node.last = base.last
  BY <1>4, <1>5, <1>6 DEF Built
<1> HIDE DEF node
<1>9. Hollow(NodeFields(node)) /\ Finished(node)
  BY <1>6, <1>8 DEF Hollow, NodeFields, Finished
<1> DEFINE stk == SetTop(stack, last)
<1>10. /\ stk \in Seq(FrameType) /\ stk # << >> /\ stk[Len(stk)] = last
  <2>1. /\ stk \in Seq(FrameType) /\ stk # << >> /\ Len(stk) = Len(stack)
        /\ stk[Len(stack)] = last
    BY <1>1, <1>3, SetTopTyped
  <2> QED BY <2>1
<1>11. Below(stk) = Below(stack) BY <1>1, <1>3, BelowTop
<1> HIDE DEF stk
<1>12. Owned(Below(stk), items, nds, << >>)
  BY <1>1, <1>3, <1>6, <1>8, <1>9, <1>10, OwnedArray DEF stk, rows
<1> QED BY <1>6, <1>7, <1>8, <1>9, <1>11, <1>12 DEF rows, last

(* The rows of an environment go to its array.                             *)
LEMMA EnvironmentRanged ==
  ASSUME Standing, OwnedNow, Laid, NEW name \in Named, EndEnvironment(name) PROVE RangesNow'
<1> DEFINE node  == ArrayOf(Top)
           field == NodeField("ARRAY", Len(nodes) + 1, Top.open, pos + 2)
           nds   == Append(nodes, node)
           stk   == Below(stack)
           class == ArrayClass(Top.env)
<1>1. /\ ScanNamed("\\end", name) /\ MathRules(Top) /\ Idle(Top) /\ ~Waiting(Top)
      /\ \/ \E what : Fail(what)
         \/ BadName
         \/ \E what, b, e : Refuse(what, b, e)
         \/ OutOfMemory
         \/ Top.role = "CELL" /\ Deliver(stk, items, nds, field, class)
  BY DEF EndEnvironment, ArrayOf
<1>2. IInv /\ Poised /\ pos' = pos + 2 BY <1>1, NamedEntered DEF Standing
<1>3. result.status = "RUNNING" /\ pos \in Nat /\ pos' \in Nat BY <1>2, RunParts
<1>4. CASE Top.role = "CELL" /\ Deliver(stk, items, nds, field, class)
  <2>1. /\ node \in Built /\ node.kind = "ARRAY"
        /\ node.rows = LastRow(Top).rows /\ node.list = << >>
        /\ node.first.kind = "EMPTY" /\ node.last.kind = "EMPTY" /\ Finished(node)
        /\ Owned(stk, items, nds, << >>)
    BY <1>2, <1>4, ArrayOwned
  <2>2. RowsFit(LastRow(Top).rows, 0, items) BY <1>1, <1>2, <1>4, LastRowFits
  <2>3. /\ stack \in Seq(FrameType) /\ stack # << >> /\ items \in Seq(Item)
        /\ nodes \in Seq(Built) /\ Top = stack[Len(stack)] /\ Top \in FrameType
        /\ Ranged(stack, items, nodes, pos, text') /\ MarksFit(Top, pos)
    BY <1>2, PoisedTop
  <2> HIDE DEF node
  <2>4. NodeFits(node, items, nds)
    <3>1. node.kind \notin Three BY <2>1 DEF Three
    <3>2. InOrder(node.list, items) BY <2>1 DEF InOrder
    <3> HIDE DEF nds
    <3> QED BY <2>1, <2>2, <3>1, <3>2, BeginFits
  <2>5. /\ field \in Field /\ field.kind = "ARRAY" /\ field.list = << >>
        /\ field.node = Len(nodes) + 1 /\ field.begin = Top.open /\ field.end = pos'
    <3>1. "ARRAY" \in FieldKinds /\ Len(nodes) + 1 \in Nat BY <2>3 DEF FieldKinds
    <3>2. field \in Field BY <1>2, <3>1, TopParts, NodeFieldTyped
    <3> QED BY <1>2, <3>2 DEF NodeField, Empty
  <2> HIDE DEF field
  <2>6. Ready(stk, items, nodes, pos', 0) /\ Len(stack) >= 2
    BY <1>1, <1>2, <1>4, ClosedReady DEF MathRules
  <2>7. Ready(stk, items, nds, pos', Len(nodes) + 1)
    BY <1>3, <2>1, <2>6, LooseReady
  <2> DEFINE new == text'
             q == pos'
             o == Top.open
  <2>8. Good(stack, items, nodes) /\ Sound(stack, items, nodes, q) BY <1>2, PoisedParts
  <2>9. Owned(stack, items, nodes, << >>) /\ Ranged(stack, items, nodes, pos, new)
    BY <2>3 DEF OwnedNow
  <2>10. nds = Append(nodes, node) OBVIOUS
  <2> HIDE DEF nds, new, q
  <2>11. Ranged(stack, items, nds, pos, new)
    BY <1>3, <2>1, <2>4, <2>8, <2>9, <2>10, AddedRanged
  <2>12. Opening(Top) = o BY <1>4 DEF Opening
  <2>13. Ranged(stk, items, nds, o, new) BY <2>3, <2>6, <2>11, <2>12, RangedPop
  <2>14. o \in Nat /\ o < q
    <3>1. o \in Nat BY <1>3, <2>3, Measures
    <3>2. Dated(Top, q) BY <1>2, PoisedTop DEF Firm, q
    <3>3. o + 1 <= q BY <1>4, <3>2 DEF Dated
    <3> QED BY <1>3, <3>1, <3>3 DEF q
  <2>15. nds[Len(nodes) + 1] = node /\ Len(nodes) + 1 \in DOMAIN nds BY <2>1, <2>3, <2>10
  <2>16. FieldFits(field, items, nds)
    <3>1. Filled(NodeFields(node)) = {} BY <2>1 DEF Filled, NodeFields
    <3>2. node.kind \notin Three /\ node.kind \notin {"FRACTION", "RADICAL"}
      BY <2>1 DEF Three
    <3>3. Holding(field, node, items) BY <2>1, <2>5, <3>1, <3>2 DEF Holding, Spans
    <3>4. InOrder(field.list, items) /\ Spans(field.list, items, field.begin, field.end)
      BY <2>5 DEF InOrder, Spans
    <3> QED BY <2>5, <2>14, <2>15, <3>3, <3>4 DEF FieldFits, q
  <2>17. Owned(stk, items, nds, field.list) BY <2>1, <2>5
  <2>18. Ranged(stk, items, nds, field.begin, text') BY <2>5, <2>13 DEF new
  <2>19. ~Waiting(stk[Len(stk)]) BY <1>2, <1>4, BelowGood DEF PushedOn
  <2>20. class \in Classes /\ field.kind # "EMPTY" /\ field.end = pos'
    BY <2>5 DEF ArrayClass, Classes
  <2>21. Deliver(stk, items, nds, field, class) BY <1>4
  <2> HIDE DEF stk, class
  <2> QED BY <1>2, <2>5, <2>7, <2>16, <2>17, <2>18, <2>19, <2>20, <2>21, DeliverRanged
<1> QED BY <1>1, <1>3, <1>4, StoppedRanged

-----------------------------------------------------------------------------
(***************************************************************************)
(* Scripts, commands and operators.                                        *)
(***************************************************************************)

(* A mark is where the frame had got to.                                   *)
LEMMA MarkedWhere ==
  ASSUME NEW f, NEW g, NEW p \in Nat, NEW q \in Nat, p <= q, Idle(f), ~Waiting(f),
         MarksFit(f, p), Kindred(f, g), ~Collecting(g), ~Waiting(g), Pending(g),
         g.pending.mark = p, NEW nds
  PROVE  Settled(g, q) = p /\ MarksFit(g, q) /\ ArgumentFits(g, q, nds)
<1>1. Settled(f, p) = p BY IdleMarks
<1>2. Settled(g, q) = p BY DEF Settled
<1>3. Edge(g, q) = q BY DEF Edge
<1>4. Floor(g) = Floor(f) BY DEF Kindred, Floor
<1>5. MarksFit(g, q) BY <1>1, <1>2, <1>3, <1>4 DEF MarksFit, Kindred
<1>6. ArgumentFits(g, q, nds) BY DEF ArgumentFits, Building
<1> QED BY <1>2, <1>5, <1>6

(* An atom still without a nucleus fits where it is.                       *)
LEMMA BareFits ==
  ASSUME NEW class \in Classes, NEW at \in Nat, NEW its, NEW nds
  PROVE  LET it == Atom(class, Empty(at)) IN
         /\ it \in Item /\ it.begin = at /\ it.end = at /\ ItemFits(it, its, nds)
         /\ \A x \in FieldsOf(it) : x.list = << >>
<1> DEFINE e == Empty(at)
           it == Atom(class, e)
<1>1. e \in Field BY EmptyTyped
<1>2. e.kind = "EMPTY" /\ e.begin = at /\ e.end = at /\ e.begin <= e.end /\ e.list = << >>
  BY DEF Empty
<1>3. it.sup.list = << >> /\ it.sub.list = << >> BY DEF Atom, Empty
<1> HIDE DEF e
<1>4. /\ it \in Item /\ it.begin = at /\ it.end = at /\ it.nucleus = e
      /\ ItemFits(it, its, nds)
  BY <1>1, <1>2, AtomFits
<1> HIDE DEF it
<1>5. \A x \in FieldsOf(it) : x.list = << >> BY <1>2, <1>3, <1>4 DEF FieldsOf
<1> QED BY <1>4, <1>5 DEF it, e

(* A script mark.                                                          *)
LEMMA MarkRanged ==
  ASSUME Standing, OwnedNow, Laid, NEW t \in Alphabet, ScriptMark(t) PROVE RangesNow'
<1> DEFINE kind == IF t = "^" THEN "SUP" ELSE "SUB"
           m(target) == [kind |-> kind, target |-> target, mark |-> pos]
           atom == Atom("ORD", Empty(pos))
           f    == Top
           f2   == [Top EXCEPT !.list = Append(@, Len(items) + 1)]
           m1   == m(Tail1(Top))
           m2   == m(Len(items) + 1)
           g1   == [f EXCEPT !.pending = m1]
           g2   == [f2 EXCEPT !.pending = m2]
           stk  == Linked(stack, items)
<1>1. /\ Scan(t) /\ Idle(f) /\ ~Waiting(f)
  BY DEF ScriptMark, Allowed, MathToken, Refused, NeverScripts, Idle
<1>2. Poised /\ pos' = pos + 1 BY <1>1, AlphabetRead, TokenPoised
<1>3. /\ stk = SetTop(stack, f2) /\ stk[Len(stk)] = f2 /\ f2 \in FrameType
      /\ f2.list = Append(f.list, Len(items) + 1)
      /\ f2.collect = f.collect /\ f2.wait = f.wait
  BY <1>2, LinkedTop
<1>4. \/ \E what : Fail(what)
      \/ HasAtomTail(f) /\ Becomes(SetTop(stack, g1), items, nodes)
      \/ OutOfMemory
      \/ Becomes(SetTop(stk, g2), Append(items, atom), nodes)
  BY <1>3 DEF ScriptMark, Top
<1>5. /\ stack \in Seq(FrameType) /\ stack # << >> /\ items \in Seq(Item)
      /\ nodes \in Seq(Built) /\ f = stack[Len(stack)] /\ f \in FrameType
      /\ MarksFit(f, pos) /\ Ranged(stack, items, nodes, pos, text')
  BY <1>2, PoisedTop
<1>6. /\ result.status = "RUNNING" /\ pos \in Nat /\ pos' \in Nat /\ pos <= pos'
      /\ DOMAIN text' \subseteq Nat
  BY <1>2, RunParts
<1>7. f2 = [f EXCEPT !.list = Append(f.list, Len(items) + 1)] OBVIOUS
<1>8. kind \in {"SUP", "SUB"} OBVIOUS
<1> DEFINE new == text'
           q   == pos'
<1> HIDE DEF f, f2, kind, new, q
<1>9. ASSUME NEW k \in Nat
      PROVE  m(k) \in Script /\ m(k).kind # "NONE" /\ m(k).mark = pos
  BY <1>6, <1>8 DEF Script
<1>10. Len(items) + 1 \in Nat BY <1>5
<1>11. CASE HasAtomTail(f) /\ Becomes(SetTop(stack, g1), items, nodes)
  <2>1. Tail1(f) \in Nat
    <3>1. f.list # << >> /\ f.list \in Seq(Nat)
      BY <1>5, <1>6, <1>11, Measures DEF HasAtomTail
    <3> QED BY <3>1 DEF Tail1
  <2>2. m1 \in Script /\ m1.kind # "NONE" /\ m1.mark = pos BY <1>9, <2>1 DEF f
  <2> HIDE DEF m1
  <2>3. /\ g1 \in FrameType /\ g1.list = f.list /\ g1.collect = f.collect
        /\ g1.pending = m1 /\ g1.wait = f.wait
    BY <1>5, <2>2, PendingSet
  <2>4. Kindred(f, g1) BY <1>5, KindredSet
  <2> HIDE DEF g1
  <2>5. ~Collecting(f) /\ ~Collecting(g1) /\ ~Waiting(g1) /\ Pending(g1)
    BY <1>1, <2>2, <2>3 DEF Idle, Collecting, Waiting, Pending, f
  <2>6. Settled(g1, q) = pos /\ MarksFit(g1, q) /\ ArgumentFits(g1, q, nodes)
    BY <1>1, <1>5, <1>6, <2>2, <2>3, <2>4, <2>5, MarkedWhere DEF f, q
  <2>7. Settled(f, pos) = pos BY <1>1, IdleMarks DEF f
  <2>8. Grasps(f, g1) BY <2>5 DEF Grasps
  <2>9. Ranged(SetTop(stack, g1), items, nodes, q, text')
    BY <1>2, <1>6, <2>3, <2>4, <2>6, <2>7, <2>8, TopTurnedRanged DEF f, q
  <2> QED BY <1>6, <1>11, <2>9, BecameRanged DEF q
<1>12. CASE Becomes(SetTop(stk, g2), Append(items, atom), nodes)
  <2>1. m2 \in Script /\ m2.kind # "NONE" /\ m2.mark = pos BY <1>9, <1>10
  <2> HIDE DEF m2
  <2>2. /\ g2 \in FrameType /\ g2.list = f2.list /\ g2.collect = f2.collect
        /\ g2.pending = m2 /\ g2.wait = f2.wait
    BY <1>3, <2>1, PendingSet
  <2>3. Kindred(f, f2) /\ Kindred(f2, g2)
    <3>1. Kindred(f, [f EXCEPT !.list = Append(f.list, Len(items) + 1)]) BY <1>5, KindredSet
    <3>2. Kindred(f2, g2) BY <1>3, KindredSet
    <3> QED BY <1>7, <3>1, <3>2
  <2>4. Kindred(f, g2) BY <2>3, KindredThrough
  <2> HIDE DEF g2
  <2>5. ~Collecting(f) /\ ~Collecting(g2) /\ ~Waiting(g2) /\ Pending(g2)
    BY <1>1, <1>3, <2>1, <2>2 DEF Idle, Collecting, Waiting, Pending, f
  <2>6. Settled(g2, q) = pos /\ MarksFit(g2, q) /\ ArgumentFits(g2, q, nodes)
    BY <1>1, <1>5, <1>6, <2>1, <2>2, <2>4, <2>5, MarkedWhere DEF f, q
  <2>7. "ORD" \in Classes BY DEF Classes
  <2>8. /\ atom \in Item /\ atom.begin = pos /\ atom.end = pos
        /\ ItemFits(atom, items, nodes) /\ \A x \in FieldsOf(atom) : x.list = << >>
    BY <1>6, <2>7, BareFits
  <2> HIDE DEF atom
  <2>9. SetTop(stk, g2) = SetTop(stack, g2) BY <1>3, <1>5, <2>2, SetTopTwice
  <2>10. /\ Owned(stack, items, nodes, << >>) /\ Idle(f) /\ ~Waiting(f)
         /\ Ranged(stack, items, nodes, pos, new) /\ DOMAIN new \subseteq Nat /\ q \in Nat
         /\ pos <= atom.begin /\ atom.begin <= atom.end
         /\ g2.list = Append(f.list, Len(items) + 1)
         /\ (~Collecting(g2) => atom.end <= pos)
    BY <1>1, <1>3, <1>5, <1>6, <2>2, <2>8 DEF OwnedNow, new, q, f
  <2>11. /\ \A x \in FieldsOf(atom) : x.list = << >> \/ x.list = << >>
         /\ (pos = pos \/ (atom.begin = pos /\ atom.end = pos))
         /\ (Collecting(g2) => /\ g2.collect.item = Len(items) + 1
                               /\ atom.begin = g2.collect.begin)
    BY <2>5, <2>8
  <2>12. Ranged(SetTop(stack, g2), Append(items, atom), nodes, q, new)
    BY ONLY <1>5, <1>6, <2>2, <2>4, <2>6, <2>8, <2>10, <2>11, LinkRanged
  <2> QED BY <1>6, <1>12, <2>9, <2>12, BecameRanged DEF q, new
<1> QED BY <1>4, <1>6, <1>11, <1>12, StoppedRanged DEF f

(* What is collected began where the frame had got to.                     *)
LEMMA BegunWhere ==
  ASSUME NEW f, NEW g, NEW p \in Nat, NEW q \in Nat, p <= q, ~Collecting(f), ~Waiting(f),
         MarksFit(f, p), Kindred(f, g), Collecting(g), ~Waiting(g), ~Pending(g),
         g.collect.begin = p,
         \/ Idle(f) /\ g.collect.item # 0
         \/ Pending(f) /\ g.collect.item = 0 /\ g.collect.script = f.pending
  PROVE  /\ MarksFit(g, q) /\ Settled(g, q) = Settled(f, p)
         /\ Idle(f) => Settled(f, p) = p
<1>1. Edge(g, q) = q /\ Edge(f, p) = p BY DEF Edge
<1>2. Floor(g) = Floor(f) BY DEF Kindred, Floor
<1>3. CASE Idle(f) /\ g.collect.item # 0
  <2>1. Settled(f, p) = p BY <1>3, IdleMarks
  <2>2. Settled(g, q) = p BY <1>3 DEF Settled
  <2> QED BY <1>1, <1>2, <1>3, <2>1, <2>2 DEF MarksFit, Kindred
<1>4. CASE Pending(f) /\ g.collect.item = 0 /\ g.collect.script = f.pending
  <2>1. Settled(f, p) = f.pending.mark BY <1>4 DEF Settled
  <2>2. Settled(g, q) = f.pending.mark BY <1>4 DEF Settled
  <2>3. f.pending.mark <= p BY <1>1, <1>4 DEF MarksFit
  <2>4. ~Idle(f) BY <1>4 DEF Idle
  <2> QED BY <1>1, <1>2, <1>4, <2>1, <2>2, <2>3, <2>4 DEF MarksFit, Kindred
<1> QED BY <1>3, <1>4

(* The atom linked while its nucleus is collected fits.                    *)
LEMMA EagerFits ==
  ASSUME NEW class \in Classes, NEW at \in Nat, NEW its, NEW nds, NEW it,
         it = [Atom(class, Empty(at)) EXCEPT !.sup = Empty(at + 1), !.sub = Empty(at + 1),
                                             !.end = at + 1]
  PROVE  /\ it \in Item /\ it.begin = at /\ it.end = at + 1 /\ ItemFits(it, its, nds)
         /\ \A x \in FieldsOf(it) : x.list = << >>
<1> DEFINE a == Atom(class, Empty(at))
           e == Empty(at + 1)
<1>1. Empty(at) \in Field /\ e \in Field BY EmptyTyped
<1>2. a \in Item BY <1>1, AtomTyped
<1>3. /\ a.nucleus.begin = at /\ a.nucleus.end = at /\ a.nucleus.list = << >>
      /\ a.nucleus.kind = "EMPTY" /\ a.begin = at /\ ~a.subFirst
      /\ e.kind = "EMPTY" /\ e.list = << >>
  BY DEF Atom, Empty
<1> DEFINE n == at + 1
<1>4. it = [a EXCEPT !.sup = e, !.sub = e, !.end = n] OBVIOUS
<1>5. n \in Nat /\ at <= n OBVIOUS
<1> HIDE DEF a, e, n
<1>6. /\ it \in Item /\ it.begin = a.begin /\ it.end = n /\ it.nucleus = a.nucleus
      /\ it.sup = e /\ it.sub = e /\ it.subFirst = a.subFirst
  BY <1>1, <1>2, <1>4, <1>5 DEF Item
<1>7. /\ it.sup.kind = "EMPTY" /\ it.sub.kind = "EMPTY" /\ ~it.subFirst
      /\ it.begin <= it.nucleus.begin /\ it.nucleus.begin <= it.nucleus.end
      /\ it.nucleus.end <= it.end /\ it.nucleus.kind = "EMPTY"
  BY <1>3, <1>5, <1>6
<1>8. ItemFits(it, its, nds) BY <1>6, <1>7, PlainFits
<1>9. it.end = at + 1 BY <1>6 DEF n
<1> QED BY <1>3, <1>6, <1>8, <1>9 DEF FieldsOf

(* A command starts to collect: what it found stays where it is.           *)
LEMMA BegunRanged ==
  ASSUME Poised, pos' = pos + 1, MathRules(Top), ~Waiting(Top), ~Collecting(Top),
         NEW kind \in {"FRACTION", "RADICAL", "ACCENT", "STYLE"}, NEW face \in Faces,
         NEW node \in Nat, NEW nds \in Seq(Built), CollectBegin(kind, face, node, nds),
         Owned(stack, items, nds, << >>), Ranged(stack, items, nds, pos, text'), Laid,
         kind # "STYLE" => nds[node].first.kind = "EMPTY"
  PROVE  RangesNow'
<1> DEFINE collect == [NoCollect EXCEPT !.kind = kind, !.begin = pos, !.node = node,
                                        !.face = face]
           class   == IF kind = "FRACTION" THEN "INNER" ELSE "ORD"
           atom    == Atom(class, Empty(pos))
           eager   == [atom EXCEPT !.sup = Empty(pos + 1), !.sub = Empty(pos + 1),
                                   !.end = pos + 1]
           f       == Top
           owed    == Top.pending
           c1      == [collect EXCEPT !.script = owed]
           g1      == [f EXCEPT !.pending = NoScript, !.collect = c1]
           f2      == [Top EXCEPT !.list = Append(@, Len(items) + 1)]
           c2      == [collect EXCEPT !.item = Len(items) + 1]
           g2      == [f2 EXCEPT !.collect = c2]
           stk     == Linked(stack, items)
<1>1. /\ stk = SetTop(stack, f2) /\ stk[Len(stk)] = f2 /\ f2 \in FrameType
      /\ f2.list = Append(f.list, Len(items) + 1)
      /\ f2.collect = f.collect /\ f2.wait = f.wait /\ f2.pending = f.pending
  BY LinkedTop
<1>2. \/ Pending(f) /\ Becomes(SetTop(stack, g1), items, nds)
      \/ ~Pending(f) /\ Becomes(SetTop(stk, g2), Append(items, eager), nds)
  BY <1>1 DEF CollectBegin
<1>3. /\ stack \in Seq(FrameType) /\ stack # << >> /\ items \in Seq(Item)
      /\ f = stack[Len(stack)] /\ f \in FrameType /\ MarksFit(f, pos)
  BY PoisedTop
<1>4. /\ result.status = "RUNNING" /\ pos \in Nat /\ pos' \in Nat /\ pos <= pos'
      /\ DOMAIN text' \subseteq Nat
  BY RunParts
<1>5. owed \in Script BY PoisedParts, TopParts
<1>6. collect \in Collect BY <1>4, Absent DEF Collect
<1>7. collect.kind = kind /\ collect.begin = pos /\ collect.node = node /\ collect.item = 0
  BY DEF NoCollect
<1>8. Len(items) + 1 \in Nat /\ Len(items) + 1 # 0 BY <1>3
<1>9. f2 = [f EXCEPT !.list = Append(f.list, Len(items) + 1)] OBVIOUS
<1>10. class \in Classes BY DEF Classes
<1>11. ~Collecting(f) /\ ~Waiting(f) /\ (Idle(f) <=> ~Pending(f)) /\ owed = f.pending
  BY DEF Idle
<1> DEFINE new == text'
           q   == pos'
<1> HIDE DEF collect, owed, f, class, new, q
<1>12. /\ c1 \in Collect /\ c1.kind = kind /\ c1.begin = pos /\ c1.node = node
       /\ c1.item = 0 /\ c1.script = owed
  BY <1>5, <1>6, <1>7 DEF Collect
<1>13. /\ c2 \in Collect /\ c2.kind = kind /\ c2.begin = pos /\ c2.node = node
       /\ c2.item = Len(items) + 1
  BY <1>6, <1>7, <1>8 DEF Collect
<1> HIDE DEF c1, c2, f2
<1>14. kind # "NONE" OBVIOUS
<1>15. ASSUME NEW g, g.collect.kind = kind, g.collect.node = node
       PROVE  ArgumentFits(g, q, nds)
  BY <1>15 DEF ArgumentFits, Building
<1>16. CASE Pending(f) /\ Becomes(SetTop(stack, g1), items, nds)
  <2>1. /\ g1 \in FrameType /\ g1.list = f.list
        /\ g1.collect = c1 /\ g1.pending = NoScript /\ g1.wait = f.wait
    BY <1>3, <1>12, Absent DEF FrameType
  <2>2. Kindred(f, g1) BY <1>3, KindredSet
  <2> HIDE DEF g1
  <2>3. ~Pending(g1) /\ ~Waiting(g1) /\ Collecting(g1)
    BY <1>11, <1>12, <1>14, <2>1 DEF Pending, NoScript, Waiting, Collecting
  <2>4. /\ g1.collect.begin = pos /\ g1.collect.item = 0 /\ g1.collect.script = f.pending
    BY <1>11, <1>12, <2>1
  <2>5. MarksFit(g1, q) /\ Settled(g1, q) = Settled(f, pos)
    BY <1>3, <1>4, <1>11, <1>16, <2>2, <2>3, <2>4, BegunWhere DEF q
  <2>6. ArgumentFits(g1, q, nds) BY <1>12, <1>15, <2>1
  <2>7. Grasps(f, g1) BY <1>11, <2>4 DEF Grasps
  <2>8. Spared(stack, nds, nds) BY SparedStill
  <2>9. Ranged(stack, items, nds, pos, new) BY DEF new
  <2>10. q \in Nat BY <1>4 DEF q
  <2>11. \A n \in DOMAIN nds : (n \in DOMAIN nds /\ nds[n] = nds[n]) \/ NodeFits(nds[n], items, nds)
    OBVIOUS
  <2>12. Ranged(SetTop(stack, g1), items, nds, q, new)
    BY <1>3, <1>4, <2>1, <2>2, <2>5, <2>6, <2>7, <2>8, <2>9, <2>10, <2>11, TurnRanged
  <2> QED BY <1>4, <1>16, <2>12, BecameRanged DEF q, new
<1>17. CASE ~Pending(f) /\ Becomes(SetTop(stk, g2), Append(items, eager), nds)
  <2>1. /\ g2 \in FrameType /\ g2.list = f2.list
        /\ g2.collect = c2 /\ g2.pending = f.pending /\ g2.wait = f.wait
    BY <1>1, <1>13, CollectSet
  <2>2. Kindred(f, f2) /\ Kindred(f2, g2)
    <3>1. Kindred(f, [f EXCEPT !.list = Append(f.list, Len(items) + 1)]) BY <1>3, KindredSet
    <3>2. Kindred(f2, g2) BY <1>1, KindredSet
    <3> QED BY <1>9, <3>1, <3>2
  <2>3. Kindred(f, g2) BY <2>2, KindredThrough
  <2> HIDE DEF g2
  <2>4. ~Pending(g2) /\ ~Waiting(g2) /\ Collecting(g2)
    BY <1>11, <1>13, <1>14, <1>17, <2>1 DEF Pending, Waiting, Collecting
  <2>5. /\ g2.collect.begin = pos /\ g2.collect.item = Len(items) + 1 /\ g2.collect.item # 0
    BY <1>8, <1>13, <2>1
  <2>6. MarksFit(g2, q) /\ Settled(g2, q) = pos
    BY <1>3, <1>4, <1>11, <1>17, <2>3, <2>4, <2>5, BegunWhere DEF q
  <2>7. ArgumentFits(g2, q, nds) BY <1>13, <1>15, <2>1
  <2>8. /\ eager \in Item /\ eager.begin = pos /\ eager.end = pos + 1
        /\ ItemFits(eager, items, nds) /\ \A x \in FieldsOf(eager) : x.list = << >>
    BY <1>4, <1>10, EagerFits
  <2> HIDE DEF eager
  <2>9. SetTop(stk, g2) = SetTop(stack, g2) BY <1>1, <1>3, <2>1, SetTopTwice
  <2>10. /\ Owned(stack, items, nds, << >>) /\ Idle(f) /\ ~Waiting(f)
         /\ Ranged(stack, items, nds, pos, new) /\ DOMAIN new \subseteq Nat /\ q \in Nat
         /\ pos <= eager.begin /\ eager.begin <= eager.end
         /\ g2.list = Append(f.list, Len(items) + 1)
         /\ (~Collecting(g2) => eager.end <= pos)
    BY <1>1, <1>4, <1>11, <1>17, <2>1, <2>4, <2>8 DEF new, q
  <2>11. /\ \A x \in FieldsOf(eager) : x.list = << >> \/ x.list = << >>
         /\ (pos = pos \/ (eager.begin = pos /\ eager.end = pos))
         /\ (Collecting(g2) => /\ g2.collect.item = Len(items) + 1
                               /\ eager.begin = g2.collect.begin)
    BY <2>5, <2>8
  <2>12. nds \in Seq(Built) /\ pos \in Nat BY <1>4
  <2>13. Ranged(SetTop(stack, g2), Append(items, eager), nds, q, new)
    BY ONLY <1>3, <2>1, <2>3, <2>6, <2>7, <2>8, <2>10, <2>11, <2>12, LinkRanged
  <2> QED BY <1>4, <1>17, <2>9, <2>13, BecameRanged DEF q, new
<1> QED BY <1>2, <1>16, <1>17

(* A style switch, a fraction, an accent or a radical.                     *)
LEMMA CommandRanged ==
  ASSUME Standing, OwnedNow, Laid, NEW t \in Alphabet, StyleCommand(t) \/ ConstructCommand(t)
  PROVE  RangesNow'
<1>1. Scan(t) /\ MathRules(Top) /\ ~Waiting(Top) /\ ~Collecting(Top)
  BY DEF StyleCommand, ConstructCommand, Allowed, MathToken, Refused, NeverArguments
<1>2. Poised /\ pos' = pos + 1 BY <1>1, AlphabetRead, TokenPoised
<1>3. /\ stack \in Seq(FrameType) /\ items \in Seq(Item) /\ nodes \in Seq(Built)
      /\ Ranged(stack, items, nodes, pos, text')
  BY <1>2, PoisedTop
<1>4. pos \in Nat BY <1>2, RunParts
<1>5. CASE StyleCommand(t)
  <2>1. OutOfMemory \/ CollectBegin("STYLE", FaceOf(t), 0, nodes) BY <1>5 DEF StyleCommand
  <2>2. FaceOf(t) \in Faces BY DEF FaceOf, Faces
  <2>3. CASE CollectBegin("STYLE", FaceOf(t), 0, nodes)
    BY <1>1, <1>2, <1>3, <2>2, <2>3, BegunRanged DEF OwnedNow
  <2> QED BY <1>4, <2>1, <2>3, StoppedRanged
<1>6. CASE ConstructCommand(t)
  <2> DEFINE kind == CollectorOf(t)
             node == Node(kind, pos + 1)
             nds  == Append(nodes, node)
  <2>1. t \notin Styles /\ (OutOfMemory \/ CollectBegin(kind, "NONE", Len(nodes) + 1, nds))
    BY <1>6 DEF ConstructCommand
  <2>2. kind \in {"FRACTION", "RADICAL", "ACCENT"} BY <1>6 DEF ConstructCommand, CollectorOf
  <2>3. "NONE" \in Faces BY DEF Faces
  <2>4. Len(nodes) + 1 \in Nat BY <1>3
  <2>5. /\ node.list = << >> /\ node.rows = << >>
        /\ node.first.list = << >> /\ node.last.list = << >>
        /\ node.first.kind = "EMPTY" /\ node.last.kind = "EMPTY"
    BY DEF Node, Empty
  <2>6. node \in Built BY <1>4, <2>2, NodeTyped
  <2> HIDE DEF node, kind
  <2>7. Hollow(NodeFields(node)) BY <2>5 DEF Hollow, NodeFields
  <2>8. Owned(stack, items, nds, << >>) BY <1>3, <2>5, <2>7, OwnedBuilt DEF OwnedNow
  <2>9. NodeFits(node, items, nds)
    <3>1. InOrder(node.list, items) /\ RowsFit(node.rows, 0, items)
      BY <2>5 DEF InOrder, RowsFit
    <3> QED BY <2>5, <3>1, BeginFits
  <2>10. nds \in Seq(Built) /\ nds[Len(nodes) + 1] = node BY <1>3, <2>6
  <2>11. nds = Append(nodes, node) OBVIOUS
  <2> HIDE DEF nds
  <2>12. Good(stack, items, nodes) /\ Sound(stack, items, nodes, pos')
    BY <1>2, PoisedParts
  <2>13. Ranged(stack, items, nds, pos, text')
    BY <1>3, <1>4, <2>6, <2>9, <2>11, <2>12, AddedRanged DEF OwnedNow
  <2>14. nds[Len(nodes) + 1].first.kind = "EMPTY" BY <2>5, <2>10
  <2>15. CASE CollectBegin(kind, "NONE", Len(nodes) + 1, nds)
    BY <1>1, <1>2, <2>2, <2>3, <2>4, <2>8, <2>10, <2>13, <2>14, <2>15, BegunRanged
  <2> QED BY <1>4, <2>1, <2>15, StoppedRanged
<1> QED BY <1>5, <1>6

(* A list of one item takes what the item takes.                           *)
LEMMA OneFits ==
  ASSUME NEW its, NEW k \in Nat, k \in DOMAIN its, NEW b \in Nat, NEW e \in Nat, b < e,
         its[k].begin = b, its[k].end = e, NEW nds
  PROVE  FieldFits(ListField(<<k>>, b, e), its, nds)
<1> DEFINE field == ListField(<<k>>, b, e)
<1>1. field.begin = b /\ field.end = e /\ field.list = <<k>> /\ field.node = 0
  BY DEF ListField, Empty
<1> HIDE DEF field
<1>2. DOMAIN field.list = {1} /\ field.list[1] = k BY <1>1
<1>3. b <= e OBVIOUS
<1> QED BY <1>1, <1>2, <1>3 DEF FieldFits, InOrder, Spans, field

(* The items an operator is built from.                                    *)
LetterOf(t)  == Atom("ORD", Glyph(t, "FIXED"))
Lettered(t)  == IF t \in Functions THEN Append(items, LetterOf(t)) ELSE items
NucleusOf(t) == IF t \in Functions THEN ListField(<<Len(Lettered(t))>>, pos, pos + 1)
                ELSE Glyph(t, "FIXED")
OpOf(t)      == [Atom("OP", NucleusOf(t)) EXCEPT !.limits = LimitsOf(t)]
OpAlone(t)   == ListField(<<Len(Lettered(t)) + 1>>, pos, pos + 1)

(* The letters a function name is made of lie beside what there is.        *)
LEMMA LetteredRanged ==
  ASSUME Poised, OwnedNow, Laid, MathRules(Top), pos' = pos + 1, NEW t
  PROVE  /\ Lettered(t) \in Seq(Item) /\ Ready(stack, Lettered(t), nodes, pos', 0)
         /\ Owned(stack, Lettered(t), nodes, NucleusOf(t).list)
         /\ Ranged(stack, Lettered(t), nodes, pos, text')
         /\ NucleusOf(t) \in Field /\ NucleusOf(t).kind # "EMPTY"
         /\ NucleusOf(t).begin = pos /\ NucleusOf(t).end = pos'
         /\ FieldFits(NucleusOf(t), Lettered(t), nodes)
<1> DEFINE glyph  == Glyph(t, "FIXED")
           letter == Atom("ORD", glyph)
<1>1. "FIXED" \in Faces /\ "ORD" \in Classes BY DEF Faces, Classes
<1>2. IInv BY PoisedParts
<1>3. /\ stack \in Seq(FrameType) /\ stack # << >> /\ items \in Seq(Item)
      /\ nodes \in Seq(Built) /\ Ranged(stack, items, nodes, pos, text')
  BY PoisedTop
<1>4. pos \in Nat /\ pos' \in Nat BY RunParts
<1>5. glyph \in Field /\ glyph.list = << >> /\ GlyphSpan(glyph) BY <1>1, <1>2, GlyphRange
<1>6. /\ glyph.kind # "EMPTY" /\ glyph.begin = pos /\ glyph.end = pos' /\ glyph.node = 0
      /\ FieldFits(glyph, items, nodes)
  BY <1>5 DEF GlyphSpan
<1>7. 0 \notin DOMAIN nodes BY <1>3
<1>8. Ready(stack, items, nodes, pos', 0) BY <1>7, PoisedParts DEF Ready
<1>9. letter.sup.list = << >> /\ letter.sub.list = << >> /\ letter.kind = "ATOM"
  BY DEF Atom, Empty
<1> HIDE DEF glyph
<1>10. /\ letter \in Item /\ letter.begin = pos /\ letter.end = pos'
       /\ letter.nucleus = glyph /\ letter.sup.kind = "EMPTY" /\ letter.sub.kind = "EMPTY"
       /\ ItemFits(letter, items, nodes)
  BY <1>1, <1>5, <1>6, AtomFits
<1>11. LetterOf(t) = letter BY DEF LetterOf, glyph
<1> HIDE DEF letter
<1>12. /\ Whole(letter) /\ Hollow(FieldsOf(letter)) /\ letter.nucleus.list = << >>
       /\ \A x \in FieldsOf(letter) : x.list = << >>
  BY <1>5, <1>6, <1>9, <1>10 DEF Whole, Hollow, FieldsOf
<1>13. CASE t \notin Functions
  <2>1. Lettered(t) = items /\ NucleusOf(t) = glyph
    BY <1>13 DEF Lettered, NucleusOf, glyph
  <2> QED BY <1>3, <1>5, <1>6, <1>8, <2>1 DEF OwnedNow
<1>14. CASE t \in Functions
  <2> DEFINE its   == Append(items, letter)
             field == ListField(<<Len(its)>>, pos, pos + 1)
  <2>1. Lettered(t) = its /\ NucleusOf(t) = field
    BY <1>11, <1>14 DEF Lettered, NucleusOf
  <2>2. /\ its \in Seq(Item) /\ Len(its) = Len(items) + 1 /\ its[Len(its)] = letter
        /\ Len(its) \in DOMAIN its /\ Len(its) \in Nat
    BY <1>3, <1>10
  <2>3. Ready(stack, its, nodes, pos', 0) BY <1>4, <1>8, <1>10, <1>12, LooseItems
  <2>4. Owned(stack, its, nodes, <<Len(items) + 1>>)
    BY <1>3, <1>10, <1>12, <1>9, OwnedInHand DEF OwnedNow
  <2>5. Ranged(stack, its, nodes, pos, text')
    BY <1>3, <1>4, <1>10, <1>12, BesideRanged DEF OwnedNow
  <2> HIDE DEF its
  <2>6. FieldFits(field, its, nodes) BY <1>4, <1>10, <2>2, OneFits
  <2>7. /\ field.list = <<Len(its)>> /\ field.kind = "LIST" /\ field.begin = pos
        /\ field.end = pos + 1
    BY DEF ListField, Empty
  <2>8. field \in Field
    <3>1. <<Len(its)>> \in Seq(Nat) /\ pos + 1 \in Nat BY <1>4, <2>2
    <3> QED BY <1>4, <3>1, ListTyped
  <2> HIDE DEF field
  <2> QED BY <2>1, <2>2, <2>3, <2>4, <2>5, <2>6, <2>7, <2>8
<1> QED BY <1>13, <1>14

(* The atom of an operator fits beside its letters.                        *)
LEMMA OpFits ==
  ASSUME Poised, OwnedNow, Laid, MathRules(Top), pos' = pos + 1, NEW t
  PROVE  /\ OpOf(t) \in Item /\ Whole(OpOf(t)) /\ Hollow(FieldsOf(OpOf(t)))
         /\ OpOf(t).nucleus = NucleusOf(t)
         /\ OpOf(t).sup.list = << >> /\ OpOf(t).sub.list = << >>
         /\ OpOf(t).begin = pos /\ OpOf(t).end = pos'
         /\ ItemFits(OpOf(t), Lettered(t), nodes)
<1> DEFINE nucleus == NucleusOf(t)
           base    == Atom("OP", nucleus)
           op      == [base EXCEPT !.limits = LimitsOf(t)]
<1>1. /\ nucleus \in Field /\ nucleus.kind # "EMPTY"
      /\ nucleus.begin = pos /\ nucleus.end = pos'
      /\ FieldFits(nucleus, Lettered(t), nodes)
  BY LetteredRanged
<1>2. "OP" \in Classes BY DEF Classes
<1>3. OpOf(t) = op BY DEF OpOf
<1> HIDE DEF nucleus
<1>4. base.sup.list = << >> /\ base.sub.list = << >> /\ base.kind = "ATOM"
  BY DEF Atom, Empty
<1>5. /\ base \in Item /\ base.begin = pos /\ base.end = pos' /\ base.nucleus = nucleus
      /\ base.sup.kind = "EMPTY" /\ base.sub.kind = "EMPTY"
      /\ ItemFits(base, Lettered(t), nodes)
  BY <1>1, <1>2, AtomFits
<1> HIDE DEF base
<1>6. LimitsOf(t) \in {"DISPLAY", "ALWAYS", "NEVER"} BY DEF LimitsOf
<1>7. /\ op \in Item /\ op.nucleus = base.nucleus /\ op.sup = base.sup /\ op.sub = base.sub
      /\ op.begin = base.begin /\ op.end = base.end /\ op.subFirst = base.subFirst
      /\ op.kind = base.kind
  BY <1>5, <1>6 DEF Item
<1> HIDE DEF op
<1>8. FieldsOf(op) = FieldsOf(base) BY <1>7 DEF FieldsOf
<1>9. ScriptsApart(op) <=> ScriptsApart(base) BY <1>7 DEF ScriptsApart
<1>10. ItemFits(op, Lettered(t), nodes) BY <1>5, <1>7, <1>8, <1>9 DEF ItemFits
<1>11. Whole(op) /\ Hollow(FieldsOf(op))
  BY <1>1, <1>4, <1>5, <1>7 DEF Whole, Hollow, FieldsOf
<1> QED BY <1>3, <1>4, <1>5, <1>7, <1>10, <1>11 DEF nucleus

(* An operator, linked or delivered as a list of one.                      *)
LEMMA OperatorRanged ==
  ASSUME Standing, OwnedNow, Laid, NEW t \in Alphabet, Operator(t) PROVE RangesNow'
<1> DEFINE its  == Lettered(t)
           op   == OpOf(t)
           arg  == OpAlone(t)
           its2 == Append(its, op)
<1>1. /\ Scan(t) /\ MathRules(Top) /\ ~Waiting(Top)
      /\ \/ OutOfMemory
         \/ ~Idle(Top) /\ Deliver(stack, its2, nodes, arg, "ORD")
         \/ Idle(Top) /\ Becomes(Linked(stack, its), its2, nodes)
  BY DEF Operator, Allowed, MathToken, Lettered, LetterOf, OpOf, NucleusOf, OpAlone
<1>2. Poised /\ pos' = pos + 1 BY <1>1, AlphabetRead, TokenPoised
<1>3. /\ its \in Seq(Item) /\ Ready(stack, its, nodes, pos', 0)
      /\ Owned(stack, its, nodes, NucleusOf(t).list) /\ Ranged(stack, its, nodes, pos, text')
  BY <1>1, <1>2, LetteredRanged
<1>4. /\ op \in Item /\ Whole(op) /\ Hollow(FieldsOf(op)) /\ op.nucleus = NucleusOf(t)
      /\ op.sup.list = << >> /\ op.sub.list = << >> /\ op.begin = pos /\ op.end = pos'
      /\ ItemFits(op, its, nodes)
  BY <1>1, <1>2, OpFits
<1> DEFINE loose == NucleusOf(t).list
<1> HIDE DEF its, op, loose
<1>5. /\ stack \in Seq(FrameType) /\ stack # << >> /\ nodes \in Seq(Built)
      /\ Top = stack[Len(stack)]
  BY <1>2, PoisedTop
<1>6. /\ result.status = "RUNNING" /\ pos \in Nat /\ pos' \in Nat /\ pos + 1 <= pos'
      /\ DOMAIN text' \subseteq Nat
  BY <1>2, RunParts
<1>7. \A x \in FieldsOf(op) : x.list = << >> \/ x.list = loose
  BY <1>4 DEF FieldsOf, loose
<1>8. Owned(stack, its, nodes, loose) BY <1>3 DEF loose
<1>9. CASE Deliver(stack, its2, nodes, arg, "ORD")
  <2>1. its2 \in Seq(Item) /\ its2[Len(its) + 1] = op /\ Len(its) + 1 \in DOMAIN its2
        /\ Len(its) + 1 \in Nat
    BY <1>3, <1>4
  <2>2. Ready(stack, its2, nodes, pos', 0) BY <1>3, <1>4, <1>6, LooseItems
  <2>3. Owned(stack, its2, nodes, <<Len(its) + 1>>)
    BY <1>3, <1>4, OwnedInHand
  <2>4. Ranged(stack, its2, nodes, pos, text')
    BY <1>3, <1>4, <1>5, <1>6, <1>7, <1>8, BesideRanged
  <2>5. arg = ListField(<<Len(its) + 1>>, pos, pos + 1) BY DEF OpAlone, its
  <2> HIDE DEF arg, its2
  <2>6. pos + 1 \in Nat /\ pos < pos + 1 BY <1>6
  <2>7. FieldFits(arg, its2, nodes) BY <1>2, <1>4, <1>6, <2>1, <2>5, <2>6, OneFits
  <2>8. /\ arg.list = <<Len(its) + 1>> /\ arg.kind # "EMPTY" /\ arg.begin = pos
        /\ arg.end = pos'
    BY <1>2, <2>5 DEF ListField, Empty
  <2>9. arg \in Field
    <3>1. <<Len(its) + 1>> \in Seq(Nat) BY <2>1
    <3> QED BY <1>6, <2>5, <2>6, <3>1, ListTyped
  <2>10. "ORD" \in Classes BY DEF Classes
  <2>11. ~Waiting(stack[Len(stack)]) BY <1>1, <1>5
  <2>12. Owned(stack, its2, nodes, arg.list) /\ Ranged(stack, its2, nodes, arg.begin, text')
    BY <2>3, <2>4, <2>8
  <2> QED BY <1>2, <1>9, <2>2, <2>7, <2>8, <2>9, <2>10, <2>11, <2>12, DeliverRanged
<1>10. CASE Idle(Top) /\ Becomes(Linked(stack, its), its2, nodes)
  <2>1. pos <= op.end /\ Idle(Top) BY <1>4, <1>6, <1>10
  <2>2. Ranged(Linked(stack, its), its2, nodes, op.end, text')
    BY <1>1, <1>3, <1>4, <1>5, <1>6, <1>7, <1>8, <2>1, LinkIdle
  <2> QED BY <1>4, <1>6, <1>10, <2>2, BecameRanged
<1> QED BY <1>1, <1>6, <1>9, <1>10, StoppedRanged DEF its

(* \limits and \nolimits lengthen the last atom to the token.              *)
LEMMA LimitsRanged ==
  ASSUME Standing, OwnedNow, Laid, NEW t \in Alphabet, LimitsCommand(t) PROVE RangesNow'
<1> DEFINE f    == Top
           k    == Tail1(f)
           old  == items[k]
           item == [old EXCEPT !.limits = LimitsOf(t), !.end = pos + 1]
           its2 == [items EXCEPT ![k] = item]
           new  == text'
           q    == pos'
<1>1. /\ Scan(t) /\ Idle(f) /\ ~Waiting(f)
      /\ \/ \E what : Fail(what)
         \/ HasAtomTail(f) /\ Becomes(stack, its2, nodes)
  BY DEF LimitsCommand, Allowed, MathToken, Refused, NeverScripts, Idle
<1>2. Poised /\ pos' = pos + 1 BY <1>1, AlphabetRead, TokenPoised
<1>3. /\ stack \in Seq(FrameType) /\ stack # << >> /\ items \in Seq(Item)
      /\ nodes \in Seq(Built) /\ f = stack[Len(stack)] /\ f \in FrameType
      /\ Firm(f, items, nodes, q) /\ FrameFits(f, pos, items, nodes, new)
      /\ Ranged(stack, items, nodes, pos, new)
  BY <1>2, PoisedTop
<1>4. /\ result.status = "RUNNING" /\ pos \in Nat /\ q \in Nat /\ pos + 1 <= q
      /\ DOMAIN new \subseteq Nat
  BY <1>2, RunParts
<1>5. q = pos + 1 BY <1>2
<1>6. CASE HasAtomTail(f) /\ Becomes(stack, its2, nodes)
  <2>0. LimitsOf(t) \in {"DISPLAY", "ALWAYS", "NEVER"} BY DEF LimitsOf
  <2>1. Owned(stack, items, nodes, << >>) BY DEF OwnedNow
  <2> HIDE DEF f, new, q
  <2>2. f.list \in Seq(Nat) /\ f.list # << >> BY <1>3, <1>4, <1>6, Measures DEF HasAtomTail
  <2>3. Len(f.list) \in DOMAIN f.list /\ k = f.list[Len(f.list)] BY <2>2 DEF Tail1
  <2> HIDE DEF k
  <2>4. Settled(f, pos) = pos BY <1>1, IdleMarks
  <2>5. InOrder(f.list, items) /\ Reaching(f, pos, items) BY <1>3, <2>4 DEF FrameFits
  <2>6. k \in DOMAIN items /\ old.end <= pos
    BY <1>1, <2>3, <2>5 DEF InOrder, Reaching, Idle
  <2>7. old \in Item /\ ItemFits(old, items, nodes) BY <1>3, <2>6 DEF Ranged
  <2>8. old.begin \in Nat /\ old.end \in Nat /\ \A x \in FieldsOf(old) : x \in Field
    BY <2>7 DEF Item, FieldsOf
  <2> HIDE DEF old
  <2>9. /\ item \in Item /\ item.begin = old.begin /\ item.end = q
        /\ item.nucleus = old.nucleus /\ item.sup = old.sup /\ item.sub = old.sub
        /\ item.subFirst = old.subFirst
    BY <1>4, <1>5, <2>0, <2>7 DEF Item
  <2> HIDE DEF item
  <2>10. FieldsOf(item) = FieldsOf(old) BY <2>9 DEF FieldsOf
  <2>11. ItemFits(item, items, nodes)
    <3>1. ASSUME NEW x \in FieldsOf(old), x.end <= old.end PROVE x.end <= q
      <4>1. x.end \in Nat BY <2>8 DEF Field
      <4> QED BY <1>4, <1>5, <2>6, <2>8, <3>1, <4>1
    <3>2. ScriptsApart(item) <=> ScriptsApart(old) BY <2>9 DEF ScriptsApart
    <3>3. old.nucleus \in FieldsOf(old) BY DEF FieldsOf
    <3> QED BY <2>7, <2>9, <2>10, <3>1, <3>2, <3>3 DEF ItemFits, Filled
  <2>12. Rising(f.list) /\ Settled(f, pos) <= q BY <1>3, <1>4, <1>5, <2>4 DEF Firm
  <2>13. Kindred(f, f) BY DEF Kindred
  <2>14. its2 = [items EXCEPT ![Tail1(f)] = item] /\ item.begin = items[Tail1(f)].begin
         /\ \A x \in FieldsOf(item) : x.list = << >> \/ x.list = << >>
                                      \/ x \in FieldsOf(items[Tail1(f)])
    BY <2>9, <2>10 DEF k, old
  <2> HIDE DEF its2
  <2>15. Ranged(SetTop(stack, f), its2, nodes, q, new)
    BY <1>1, <1>3, <1>4, <2>1, <2>2, <2>9, <2>11, <2>12, <2>13, <2>14, AmendRanged
  <2>16. SetTop(stack, f) = stack BY <1>3, TopStill
  <2> QED BY <1>4, <1>6, <2>15, <2>16, BecameRanged DEF q, new
<1> QED BY <1>1, <1>4, <1>6, StoppedRanged

-----------------------------------------------------------------------------
(***************************************************************************)
(* Every step keeps the ranges, and what the properties read off them.     *)
(***************************************************************************)

(* Every handler keeps where everything lies.                              *)
LEMMA NextRanged == ASSUME Standing, OwnedNow, RangesNow, Next PROVE RangesNow'
<1>1. Poised BY NextMoves
<1>2. Ranged(stack, items, nodes, pos, text) BY <1>1, RunParts DEF RangesNow
<1>3. Laid BY <1>1, <1>2, NextStays, TextRead
<1>4. CASE \/ Accept \/ EndTooEarly \/ ScanError \/ ParagraphBreak \/ UnmatchedBrace
           \/ MisplacedRow
           \/ \E t \in Alphabet : MissingDelimiter(t) \/ MissingArgument(t) \/ Unsupported(t)
  BY <1>3, <1>4, RefusedRanged
<1>5. CASE \/ MathBlank \/ WordSpace
           \/ \E t \in Alphabet : TextGlyph(t) \/ SpacingCommand(t)
  BY <1>3, <1>5, TextRanged
<1>6. CASE \/ OpenIndex \/ OpenGroup \/ \E t \in Alphabet : OpenFence(t)
           \/ \E name \in Named : BeginEnvironment(name)
  BY <1>3, <1>6, OpenRanged
<1>7. CASE CloseText \/ CloseGroup \/ CloseScript BY <1>3, <1>7, BraceRanged
<1>8. CASE CloseIndex BY <1>3, <1>8, IndexRanged
<1>9. CASE AlignmentTab BY <1>3, <1>9, TabRanged
<1>10. CASE RowTerminator BY <1>3, <1>10, TerminatorRanged
<1>11. ASSUME NEW name \in Named, EndEnvironment(name) PROVE RangesNow'
  BY <1>3, <1>11, EnvironmentRanged
<1>12. ASSUME NEW t \in Alphabet, CloseFence(t) PROVE RangesNow' BY <1>3, <1>12, FenceRanged
<1>13. ASSUME NEW t \in Alphabet, AskForDelimiter(t) PROVE RangesNow' BY <1>3, <1>13, AskRanged
<1>14. ASSUME NEW t \in Alphabet, SizedDelimiter(t) PROVE RangesNow' BY <1>3, <1>14, SizedRanged
<1>15. ASSUME NEW t \in Alphabet, ScriptMark(t) PROVE RangesNow' BY <1>3, <1>15, MarkRanged
<1>16. ASSUME NEW t \in Alphabet, StyleCommand(t) \/ ConstructCommand(t) PROVE RangesNow'
  BY <1>3, <1>16, CommandRanged
<1>17. ASSUME NEW t \in Alphabet, Operator(t) PROVE RangesNow' BY <1>3, <1>17, OperatorRanged
<1>18. ASSUME NEW t \in Alphabet, LimitsCommand(t) PROVE RangesNow' BY <1>3, <1>18, LimitsRanged
<1>19. ASSUME NEW t \in Alphabet, GlyphToken(t) PROVE RangesNow' BY <1>3, <1>19, GlyphRanged
<1> QED
  BY <1>4, <1>5, <1>6, <1>7, <1>8, <1>9, <1>10, <1>11, <1>12, <1>13, <1>14, <1>15, <1>16,
     <1>17, <1>18, <1>19
  DEF Next

(* The parse starts with nothing read and nothing built.                   *)
LEMMA InitRanged == Init => RangesNow
<1> SUFFICES ASSUME Init PROVE RangesNow OBVIOUS
<1> DEFINE f == Frame("ROOT", "NONE", FALSE, 0)
<1>1. /\ stack = <<f>> /\ items = << >> /\ nodes = << >> /\ text = << >> /\ pos = 0
      /\ result.status = "RUNNING"
  BY DEF Init
<1>2. /\ f.role = "ROOT" /\ f.list = << >> /\ f.open = 0
      /\ f.collect = NoCollect /\ f.pending = NoScript /\ f.wait = NoWait
  BY DEF Frame
<1> HIDE DEF f
<1>3. ~Collecting(f) /\ ~Pending(f) /\ ~Waiting(f)
  BY <1>2 DEF Collecting, Pending, Waiting, NoScript, NoCollect, NoWait
<1>4. Edge(f, 0) = 0 /\ Settled(f, 0) = 0 /\ Floor(f) = 0
  BY <1>2, <1>3 DEF Edge, Settled, Floor
<1>5. MarksFit(f, 0) BY <1>2, <1>3, <1>4 DEF MarksFit
<1>6. /\ InOrder(f.list, items) /\ Reaching(f, 0, items) /\ CellsFit(f, items)
      /\ ArgumentFits(f, 0, nodes)
  BY <1>2, <1>3 DEF InOrder, Reaching, CellsFit, ArgumentFits, Building
<1>7. Covering(f, 0, items, text) BY <1>1 DEF Covering
<1>8. FrameFits(f, 0, items, nodes, text) BY <1>4, <1>5, <1>6, <1>7 DEF FrameFits
<1>9. Len(stack) = 1 /\ DOMAIN stack = {1} /\ stack[1] = f BY <1>1
<1>10. DOMAIN items = {} /\ DOMAIN nodes = {} BY <1>1
<1>11. BoundAt(stack, 1, 0) = 0 BY <1>9 DEF BoundAt
<1>12. Ranged(stack, items, nodes, 0, text) BY <1>8, <1>9, <1>10, <1>11 DEF Ranged
<1>13. 0 \in Nat OBVIOUS
<1> QED BY <1>1, <1>12, <1>13 DEF RangesNow, NothingSkipped

(* What does not move lies where it lay.                                   *)
LEMMA FixedRanged == ASSUME RangesNow, UNCHANGED vars PROVE RangesNow'
<1>1. /\ stack' = stack /\ items' = items /\ nodes' = nodes /\ pos' = pos /\ text' = text
      /\ result' = result
  BY DEF vars
<1>2. NothingSkipped' BY <1>1 DEF RangesNow, NothingSkipped, NonBlank
<1> QED BY <1>1, <1>2 DEF RangesNow

(* A list in order is ordered as the properties read it.                   *)
LEMMA OrderedIs ==
  ASSUME NEW list \in Seq(Nat), InOrder(list, items)
  PROVE  Ordered(list)
<1>1. \A j \in 1 .. Len(list) - 1 : j \in DOMAIN list /\ j + 1 \in DOMAIN list /\ j < j + 1
  OBVIOUS
<1> QED BY <1>1 DEF InOrder, Ordered

(* A field that fits covers its list.                                      *)
LEMMA CoversIs ==
  ASSUME NEW field \in Field, FieldFits(field, items, nodes) PROVE Covers(field)
<1>1. field.list \in Seq(Nat) BY DEF Field
<1>2. Ordered(field.list) BY <1>1, OrderedIs DEF FieldFits
<1> QED BY <1>2 DEF Covers, FieldFits, Spans, Within

(* What fits nests.                                                        *)
LEMMA NestIs == ASSUME IInv, NEW b \in Nat, Ranged(stack, items, nodes, b, text) PROVE RangesNest
<1>1. stack \in Seq(FrameType) /\ items \in Seq(Item) /\ nodes \in Seq(Built) BY TopParts
<1>2. ASSUME NEW i \in DOMAIN stack PROVE Ordered(stack[i].list)
  <2>1. stack[i] \in FrameType BY <1>1
  <2>2. stack[i].list \in Seq(Nat) BY <2>1 DEF FrameType
  <2>3. InOrder(stack[i].list, items) BY DEF Ranged, FrameFits
  <2> QED BY <2>2, <2>3, OrderedIs
<1>3. ASSUME NEW i \in DOMAIN items
      PROVE  /\ \A f \in Filled(FieldsOf(items[i])) :
                  items[i].begin <= f.begin /\ f.end <= items[i].end /\ Covers(f)
             /\ items[i].sup.kind # "EMPTY" => Disjoint(items[i].nucleus, items[i].sup)
             /\ items[i].sub.kind # "EMPTY" => Disjoint(items[i].nucleus, items[i].sub)
             /\ {items[i].sup.kind, items[i].sub.kind} \cap {"EMPTY"} = {} =>
                  Disjoint(items[i].sup, items[i].sub)
  <2> DEFINE it == items[i]
  <2>1. it \in Item /\ ItemFits(it, items, nodes) BY <1>1 DEF Ranged
  <2> HIDE DEF it
  <2>2. \A f \in Filled(FieldsOf(it)) : f \in Field BY <2>1 DEF Filled, FieldsOf, Item
  <2>3. \A f \in Filled(FieldsOf(it)) :
           it.begin <= f.begin /\ f.end <= it.end /\ FieldFits(f, items, nodes)
    BY <2>1 DEF ItemFits
  <2>4. ScriptsApart(it) BY <2>1 DEF ItemFits
  <2>5. it.sup.kind # "EMPTY" => Disjoint(it.nucleus, it.sup)
    BY <2>4 DEF ScriptsApart, Disjoint
  <2>6. it.sub.kind # "EMPTY" => Disjoint(it.nucleus, it.sub)
    BY <2>4 DEF ScriptsApart, Disjoint
  <2>7. {it.sup.kind, it.sub.kind} \cap {"EMPTY"} = {} => Disjoint(it.sup, it.sub)
    BY <2>4 DEF ScriptsApart, Disjoint
  <2>8. \A f \in Filled(FieldsOf(it)) : Covers(f) BY <2>2, <2>3, CoversIs
  <2> QED BY <2>3, <2>5, <2>6, <2>7, <2>8 DEF it
<1>4. ASSUME NEW i \in DOMAIN nodes
      PROVE  /\ \A f \in Filled(NodeFields(nodes[i])) : Covers(f)
             /\ Ordered(nodes[i].list)
  <2>1. nodes[i] \in Built /\ NodeFits(nodes[i], items, nodes) BY <1>1 DEF Ranged
  <2>2. nodes[i].list \in Seq(Nat) /\ \A f \in Filled(NodeFields(nodes[i])) : f \in Field
    BY <2>1 DEF Built, Filled, NodeFields
  <2>3. Ordered(nodes[i].list) BY <2>1, <2>2, OrderedIs DEF NodeFits
  <2> QED BY <2>1, <2>2, <2>3, CoversIs DEF NodeFits
<1> QED BY <1>2, <1>3, <1>4 DEF RangesNest

(* A construct that fits lies in the field that holds it.                  *)
LEMMA WithinIs == ASSUME NEW b, Ranged(stack, items, nodes, b, text) PROVE BuiltWithin
<1> DEFINE Fields == (UNION {FieldsOf(items[i]) : i \in DOMAIN items})
                     \cup (UNION {NodeFields(nodes[i]) : i \in DOMAIN nodes})
<1>1. ASSUME NEW f \in Filled(Fields) PROVE FieldFits(f, items, nodes)
  <2>1. f.kind # "EMPTY" BY DEF Filled
  <2>2. CASE \E i \in DOMAIN items : f \in FieldsOf(items[i])
    <3>1. PICK i \in DOMAIN items : f \in FieldsOf(items[i]) BY <2>2
    <3>2. ItemFits(items[i], items, nodes) BY DEF Ranged
    <3> QED BY <2>1, <3>1, <3>2 DEF ItemFits, Filled
  <2>3. CASE \E i \in DOMAIN nodes : f \in NodeFields(nodes[i])
    <3>1. PICK i \in DOMAIN nodes : f \in NodeFields(nodes[i]) BY <2>3
    <3>2. NodeFits(nodes[i], items, nodes) BY DEF Ranged
    <3> QED BY <2>1, <3>1, <3>2 DEF NodeFits, Filled
  <2> QED BY <2>2, <2>3 DEF Filled
<1>2. ASSUME NEW f \in {g \in Filled(Fields) : g.node # 0}
      PROVE  LET n == nodes[f.node] IN
             /\ n.kind = f.kind
             /\ \A g \in Filled(NodeFields(n)) : f.begin <= g.begin /\ g.end <= f.end
             /\ n.kind \in {"FRACTION", "RADICAL"} /\ n.first.kind # "EMPTY" =>
                  n.first.end <= n.last.begin
             /\ Within(n.list, f.begin, f.end)
  <2>1. Holding(f, nodes[f.node], items) BY <1>1, <1>2 DEF FieldFits
  <2> QED BY <2>1 DEF Holding, Within, Spans
<1> QED BY <1>2 DEF BuiltWithin

(* Rows that fit are ordered as the properties read it.                    *)
LEMMA RowsIs ==
  ASSUME NEW rows, NEW most, RowsFit(rows, most, items) PROVE RowsOrdered(rows, most)
<1>1. \A a \in CellsOf(rows) : a[1] \in DOMAIN rows /\ a[2] \in DOMAIN rows[a[1]]
  BY DEF CellsOf
<1>2. ASSUME NEW a \in CellsOf(rows), NEW c \in CellsOf(rows)
      PROVE  /\ rows[a[1]][a[2]].begin <= rows[a[1]][a[2]].end
             /\ Within(rows[a[1]][a[2]].list, rows[a[1]][a[2]].begin, rows[a[1]][a[2]].end)
             /\ a[1] < c[1] \/ (a[1] = c[1] /\ a[2] < c[2]) =>
                  rows[a[1]][a[2]].end < rows[c[1]][c[2]].begin
  BY <1>1 DEF RowsFit, CellFits, Spans, Within
<1>3. \A r \in DOMAIN rows : Len(rows[r]) >= 1 /\ (most = 0 \/ Len(rows[r]) <= most)
  BY DEF RowsFit
<1> QED BY <1>2, <1>3 DEF RowsOrdered

(* The rows of the cells open and of the arrays built are in order.        *)
LEMMA CellsIs == ASSUME NEW b, Ranged(stack, items, nodes, b, text) PROVE CellsOrdered
<1>1. ASSUME NEW i \in DOMAIN stack, stack[i].role = "CELL"
      PROVE  RowsOrdered(AllRows(stack[i]), Columns(stack[i].env))
  <2>1. CellsFit(stack[i], items) BY DEF Ranged, FrameFits
  <2>2. RowsFit(AllRows(stack[i]), Columns(stack[i].env), items) BY <1>1, <2>1 DEF CellsFit
  <2> QED BY <2>2, RowsIs
<1>2. ASSUME NEW i \in DOMAIN nodes PROVE RowsOrdered(nodes[i].rows, 0)
  <2>1. RowsFit(nodes[i].rows, 0, items) BY DEF Ranged, NodeFits
  <2> QED BY <2>1, RowsIs
<1> QED BY <1>1, <1>2 DEF CellsOrdered, AllRows

(* The invariant that the ranges rest on.                                  *)
Placed == Standing /\ OwnedNow /\ RangesNow

(* Every reachable state owns every item once and has everything in place. *)
LEMMA PlacedKept == Spec => []Placed
<1>1. Init => Placed BY InitStanding, InitOwned, InitRanged DEF Placed
<1>2. Placed /\ [Next \/ Returned]_vars => Placed'
  <2>1. ASSUME Placed, Next PROVE Placed'
    <3>1. Standing /\ OwnedNow /\ RangesNow BY <2>1 DEF Placed
    <3>2. IInv' BY <2>1, <3>1, NextKept DEF Standing
    <3>3. Standing' BY <2>1, <3>1, <3>2, NextMoves, TurnKept
    <3>4. OwnedNow' BY <2>1, <3>1, NextOwned
    <3>5. RangesNow' BY <2>1, <3>1, NextRanged
    <3> QED BY <3>3, <3>4, <3>5 DEF Placed
  <2>2. ASSUME Placed, UNCHANGED vars PROVE Placed'
    BY <2>2, StandingStill, FixedOwned, FixedRanged DEF vars, Placed
  <2> QED BY <2>1, <2>2 DEF Returned
<1> QED BY <1>1, <1>2, PTL DEF Spec

(* Source ranges nest as the tree does, siblings in source order without   *)
(* overlap, and an accepted source is covered but for its blanks: layout   *)
(* derives the range of the space between siblings from them.              *)
THEOREM RangesKept == Spec => []RangesFaithful
<1>1. Placed => RangesFaithful
  <2> SUFFICES ASSUME Placed PROVE RangesFaithful OBVIOUS
  <2>1. IInv /\ RangesNow BY DEF Placed, Standing
  <2>2. RangesNest BY <2>1, NestIs DEF RangesNow
  <2> QED BY <2>1, <2>2 DEF RangesNow, RangesFaithful
<1> QED BY <1>1, PlacedKept, PTL

(* A construct lies inside the field that holds it with its arguments in   *)
(* order, cells follow one another row by row, and the stretch of a cases  *)
(* pierces every frame opened inside it.                                   *)
THEOREM ConstructsKept == Spec => []ConstructsFaithful
<1>1. Placed => BuiltWithin /\ CellsOrdered
  <2> SUFFICES ASSUME Placed PROVE BuiltWithin /\ CellsOrdered OBVIOUS
  <2>1. RangesNow BY DEF Placed
  <2> QED BY <2>1, WithinIs, CellsIs DEF RangesNow
<1>2. BuiltWithin /\ CellsOrdered /\ StretchPierces => ConstructsFaithful
  BY DEF ConstructsFaithful
<1> QED BY <1>1, <1>2, PlacedKept, Stretch, PTL

(* sub_first says of every item which of its scripts was written first.    *)
THEOREM SubFirstKept == Spec => []SubFirstFaithful
<1>1. Placed => SubFirstFaithful
  <2> SUFFICES ASSUME Placed, NEW i \in DOMAIN items
      PROVE LET it == items[i] IN
              it.subFirst <=> /\ it.sub.kind # "EMPTY"
                              /\ it.sup.kind = "EMPTY" \/ it.sub.begin < it.sup.begin
    BY DEF SubFirstFaithful
  <2>1. PICK b \in Nat : Ranged(stack, items, nodes, b, text) BY DEF Placed, RangesNow
  <2> QED BY <2>1 DEF Ranged, ItemFits, ScriptsApart
<1> QED BY <1>1, PlacedKept, PTL
=============================================================================
