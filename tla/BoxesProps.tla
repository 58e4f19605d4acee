---------------------------- MODULE BoxesProps -----------------------------
(***************************************************************************)
(* What the boxes of layout.c promise: the clearances of TeX's rules hold  *)
(* in the finished geometry, whatever stands in the parts.                 *)
(***************************************************************************)
EXTENDS Boxes

Children == {box.children[k] : k \in DOMAIN box.children}
Has(role)  == \E n \in Children : n.role = role
Part(role) == CHOOSE n \in Children : n.role = role

Top(n)    == n.y + n.ascent
Bottom(n) == n.y - n.descent
Right(n)  == n.x + n.width

LadderOf(a) == Ladders[a.name]

Apart(a, b) == IF a > b THEN a - b ELSE b - a
Axis == P("axis", made.style)
Rule == P("rule", made.style)

(* A box has integer extents and children, in a math style, and constructs *)
(* nest no deeper than the parser lets them: layout recurses on them.      *)
TypeOK ==
  /\ box.width \in Int /\ box.ascent \in Int /\ box.descent \in Int
  /\ \A n \in Children : {n.x, n.y, n.width, n.ascent, n.descent, n.italic} \subseteq Int
  /\ made.class \in Classes /\ made.style \in MathStyles
  /\ style \in MathStyles /\ nested \in 0 .. MaxNested

(* A construct fills the children array it allocated, and an assembly the  *)
(* one of its pieces; one with limits may leave a slot of its three.       *)
SlotsFilled ==
  /\ IF made.by = "LIMITS" THEN Len(box.children) <= box.slots
     ELSE Len(box.children) = box.slots
  /\ \A a \in made.asks : Part(a.role).parts # << >> =>
       Len(Part(a.role).parts) = PieceSlots(LadderOf(a), a.target)

(* The extents of a box hold the ink of its children, and its advance      *)
(* their widths unless an accent or a limit is nudged aside.  An accent    *)
(* stays above the baseline, which may be below all of a small alignment.  *)
InkInside ==
  \A n \in Ink(box.children) :
    /\ Top(n) <= box.ascent
    /\ -Bottom(n) <= box.descent \/ (n.role = "ACCENT" /\ Bottom(n) >= 0)
    /\ made.by \notin {"ACCENT", "LIMITS"} => Right(n) <= box.width

(* Children come in source order, wherever they are placed.                *)
SourceOrder ==
  \A k \in 1 .. Len(box.children) - 1 : box.children[k].src <= box.children[k + 1].src

(* Rule 15: the parts of a fraction stay three rule thicknesses off its    *)
(* bar in display style and one in others, seven and three off each other  *)
(* where there is no bar; the bar is on the axis and as wide as both.      *)
FractionClear ==
  made.by = "FRACTION" =>
    LET num == Part("NUM")
        den == Part("DEN")
        bar == Part("RULE")
        display == made.style < Text
    IN  IF Has("RULE")
        THEN LET clear == IF display THEN 3 * Rule ELSE Rule IN
             /\ Bottom(num) - Top(bar) >= clear /\ Bottom(bar) - Top(den) >= clear
             /\ Apart(Top(bar) + Bottom(bar), 2 * Axis) <= 1
             /\ \A n \in {num, den} :
                  /\ bar.x <= n.x /\ Right(n) <= Right(bar)
                  /\ Apart(n.x - bar.x, Right(bar) - Right(n)) <= 1
        ELSE Bottom(num) - Top(den) >= (IF display THEN 7 ELSE 3) * Rule

(* Rule 18: two scripts stay four rule thicknesses apart, a superscript a  *)
(* quarter of the x-height above the baseline, a lone subscript below four *)
(* fifths of it, and a superscript is never left of the subscript.         *)
ScriptsApart ==
  made.by = "SCRIPTS" =>
    LET x   == P("xHeight", made.style)
        sup == Part("SUP")
        sub == Part("SUB")
    IN  /\ Has("SUP") => Bottom(sup) >= x \div 4
        /\ Has("SUB") /\ ~Has("SUP") => Top(sub) <= (4 * x) \div 5
        /\ Has("SUB") /\ Has("SUP") =>
             /\ Bottom(sup) - Top(sub) >= 4 * Rule
             /\ sub.x <= sup.x

(* Rule 13a: limits keep their least distances from the operator, by their *)
(* ink and by their baselines, and the box is padded beyond them.          *)
LimitsApart ==
  made.by = "LIMITS" =>
    LET op  == Part("NUCLEUS")
        sup == Part("SUP")
        sub == Part("SUB")
        Least(name, distance) == distance >= P(name, made.style)
    IN  /\ Has("SUP") => /\ Least("space1", Bottom(sup) - Top(op))
                         /\ Least("space3", sup.y - Top(op))
                         /\ Least("space5", box.ascent - Top(sup))
        /\ Has("SUB") => /\ Least("space2", Bottom(op) - Top(sub))
                         /\ Least("space4", Bottom(op) - sub.y)
                         /\ Least("space5", Bottom(sub) + box.descent)
        /\ Has("SUP") /\ Has("SUB") => sub.x + sub.width \div 2 <= sup.x + sup.width \div 2 + 1

(* Rule 19's ladder: no glyph a ladder permits is a better fit than the    *)
(* one taken, only a ladder without pieces may fall short, with its        *)
(* tallest glyph, and delimiters are centred on the axis.                  *)
LadderKept ==
  \A a \in {q \in made.asks : ~LadderOf(q).null} :
    LET node == Part(a.role)
        permitted == Candidates(LadderOf(a), a.style)
        others == {Tall(permitted[k]) : k \in DOMAIN permitted}
    IN  /\ a.role # "SIGN" => Apart(Top(node) + Bottom(node), 2 * P("axis", a.style)) <= 1
        /\ IF Tall(node) >= a.target
           THEN \A h \in others : h >= a.target =>
                  /\ node.kind = "GLYPH" /\ Tall(node) <= h
           ELSE LadderOf(a).ladder = "NEVER" /\ \A h \in others : h <= Tall(node)

(* An accent that stretches is no wider than it must be, and narrower than *)
(* its nucleus only if no wider step exists; every accent clears the       *)
(* nucleus beyond the x-height.                                            *)
AccentFits ==
  made.by = "ACCENT" =>
    LET accent  == Part("ACCENT")
        nucleus == Part("NUCLEUS")
    IN  \E a \in Accents :
          /\ accent.y >= nucleus.ascent - P("xHeight", made.style) /\ accent.y >= 0
          /\ a.wide =>
               LET widths == {a.main["TEXT"].width} \cup {a.steps[k].width : k \in DOMAIN a.steps}
               IN  /\ accent.width \in widths
                   /\ \A w \in widths :
                        IF accent.width >= nucleus.width THEN w < accent.width => w < nucleus.width
                        ELSE w <= accent.width
          /\ ~a.wide => accent.width = a.main[StyleSize(made.style)].width

(* Fences that are not at the end of their ladder leave no more of what    *)
(* they enclose uncovered than half the shortfall, above or below, and     *)
(* cover 901 thousandths of its reach.                                     *)
FencesCover ==
  made.by \in {"FENCED", "ARRAY"} =>
    LET inside == {n \in Ink(box.children) : n.role \notin {"LEFT", "RIGHT"}}
        reach  == Largest({Axis, 0} \cup {Top(n) - Axis : n \in inside}
                                    \cup {Axis - Bottom(n) : n \in inside})
    IN  \A a \in {q \in made.asks : ~LadderOf(q).null} :
          LET fence == Part(a.role) IN
          Tall(fence) >= a.target =>
            /\ \A n \in inside : /\ Top(n) <= Top(fence) + Half(DelimiterShortfall) + 1
                                 /\ Bottom(n) >= Bottom(fence) - Half(DelimiterShortfall) - 1
            /\ 500 * Tall(fence) >= 901 * (reach - 499)

(* The pieces of an assembly abut from its top to its bottom, which is its *)
(* baseline; it reaches the target, with no repeater to spare.             *)
AssemblyTight ==
  \A a \in {q \in made.asks : Part(q.role).parts # << >>} :
    LET node  == Part(a.role)
        parts == node.parts
        step  == RepeatSize(LadderOf(a))
    IN  /\ Top(parts[1]) = node.ascent /\ Bottom(parts[Len(parts)]) = 0
        /\ \A k \in 1 .. Len(parts) - 1 : Bottom(parts[k]) = Top(parts[k + 1])
        /\ node.ascent >= a.target
        /\ node.ascent - step >= a.target => Len(parts) = 2 + Len(LadderOf(a).middle)
        /\ \A k \in DOMAIN parts : parts[k].width <= node.width
        /\ LadderOf(a).middle # << >> => Len(parts) % 2 = 1

(* Rule 11: the bar starts where the sign ends, flush with its top, over   *)
(* the radicand and its clearance; a sign tall enough reaches below the    *)
(* radicand, its excess halved between the two.                            *)
RadicalCovers ==
  made.by = "RADICAL" =>
    LET sign == Part("SIGN")
        bar  == Part("RULE")
        radicand == Part("RADICAND")
        spare == Bottom(bar) - Top(radicand) - RadicalClearance(made.style)
    IN  /\ Top(sign) = Top(bar) /\ Right(sign) = bar.x
        /\ radicand.x = bar.x /\ radicand.width = bar.width
        /\ spare >= 0
        /\ \A a \in made.asks : Tall(sign) >= a.target =>
             Bottom(sign) <= Bottom(radicand) /\ Apart(Bottom(radicand) - Bottom(sign), spare) <= 1

(* The rows of an alignment: none overlaps the next, their stack is        *)
(* centred on the axis, and a row holds its cells and its strut.           *)
RowsStacked ==
  made.by = "ARRAY" =>
    LET row(k) == box.children[k]
        Rows == {k \in DOMAIN box.children : row(k).role = "ROW"}
    IN  /\ \A j, k \in Rows : j < k => Bottom(row(j)) >= Top(row(k))
        /\ \A j, k \in Rows : (\A i \in Rows : j <= i /\ i <= k) =>
             Apart(Top(row(j)) + Bottom(row(k)), 2 * Axis) <= 1
        /\ \A r \in Rows : \A c \in DOMAIN row(r).parts :
             LET cell == row(r).parts[c] IN
             /\ cell.ascent <= row(r).ascent /\ cell.descent <= row(r).descent
             /\ 0 <= cell.x /\ Right(cell) <= row(r).width

(* Its columns: a cell of a column ends before the next column of any row  *)
(* begins.                                                                 *)
ColumnsApart ==
  made.by = "ARRAY" =>
    LET Rows == {n \in Children : n.role = "ROW"} IN
    \A q, r \in Rows : \A c \in DOMAIN q.parts : \A d \in DOMAIN r.parts :
      c < d => Right(q.parts[c]) < r.parts[d].x

(* Every box is whole: its arrays are filled, and it holds its ink.        *)
BoxWhole == TypeOK /\ SlotsFilled /\ InkInside

(* The clearances of rules 11, 12, 13a and 18 hold in the finished box.    *)
Clearances == ScriptsApart /\ LimitsApart /\ RadicalCovers /\ AccentFits

(* Delimiters take the right rung of their ladder, are put together        *)
(* without gaps, and cover what they enclose.                              *)
DelimitersFit == LadderKept /\ FencesCover /\ AssemblyTight

(* The rows and the columns of an alignment do not overlap.                *)
GridAligned == RowsStacked /\ ColumnsApart
=============================================================================
