------------------------------- MODULE Boxes --------------------------------
(***************************************************************************)
(* The geometry of packages/tex-core/core/layout.c: the boxes of the       *)
(* constructs, built inside out.  One step lays out one construct around   *)
(* the box made last, a call of a txc_*_box with the placing of all its    *)
(* children; every other argument of it is a single character.  Measures   *)
(* are integers, scaled points in the code.                                *)
(***************************************************************************)
EXTENDS Styles, Sequences

CONSTANTS
  Unit,          (* 65536: factors are Unit-ths                            *)
  Raise,         (* TXC_RADICAL_RAISE, in Unit-ths                         *)
  Param,         (* txc_param, and the spaces of one quad, at each size    *)
  Glyphs,        (* characters: their metrics at each size                 *)
  Operators,     (* characters of big operators: SIZE1 and SIZE2 metrics   *)
  Accents,       (* accents: main metrics, and the steps of a wide one     *)
  Ladders,       (* the ladders of the delimiters, by name                 *)
  Delimiters,    (* the names of those a fence may ask for                 *)
  Sign, Parens,  (* the ones of a radical and of a binomial                *)
  Environments,  (* the geometries of the alignment environments           *)
  Shapes,        (* the cells of alignments, row by row                    *)
  BigTargets,    (* txc_big_target of the four steps                       *)
  NullDelimiterSpace, ScriptSpace, DelimiterShortfall,
  InStyles,      (* the styles the innermost material is laid out in       *)
  MaxNested      (* constructs around one another, bounded by the parser   *)

(* The metrics of a glyph at an em; txc_em has rounded each of them down.  *)
(* In no glyph of the tables is the top of the ink below its bottom.       *)
Metric ==
  {m \in [width : Nat, ascent : Int, descent : Int, italic : Nat, skew : Int] :
     m.ascent + m.descent >= 0}
Sizes  == {"TEXT", "SCRIPT", "SCRIPTSCRIPT"}
Glyph  == [Sizes -> Metric]

(* A ladder: the small glyph at each size, the size faces that have one,   *)
(* the pieces, and which of them txc_delimiter.ladder permits.             *)
Ladder ==
  [null : BOOLEAN, ladder : {"NEVER", "LARGE", "ALWAYS"}, small : Glyph,
   faces : Seq(Metric), top : Metric, repeat : Metric, bottom : Metric,
   middle : Seq(Metric)]

Parameters ==
  {"xHeight", "sup1", "sup2", "sup3", "sub1", "sub2", "supDrop", "subDrop", "rule",
   "num1", "num2", "num3", "denom1", "denom2", "axis", "delim1", "delim2",
   "space1", "space2", "space3", "space4", "space5", "THIN", "MEDIUM", "THICK",
   "kernBefore", "kernAfter"}

Environment ==
  [delimited : BOOLEAN, left : Delimiters, right : Delimiters, cellStyle : {Text, Script},
   leftAligned : BOOLEAN, gap : Nat \ {0}, gapAfterFirst : BOOLEAN, strutAscent : Nat,
   strutDescent : Nat, baselineskip : Nat, lineskip : Nat, limit : Nat, thinPadding : BOOLEAN]

(* Rules have a thickness and repeated pieces a height; a ladder without   *)
(* pieces has a largest face.  These are facts of the tables.              *)
ASSUME BoxesAssumption ==
  /\ Unit \in Nat \ {0} /\ Raise \in Nat /\ MaxNested \in Nat /\ InStyles \subseteq MathStyles
  /\ Param \in [Sizes -> [Parameters -> Nat]] /\ \A z \in Sizes : Param[z]["rule"] > 0
  /\ \A g \in Glyphs : g \in Glyph
  /\ \A o \in Operators : o.size1 \in Metric /\ o.size2 \in Metric
  /\ \A a \in Accents : a.wide \in BOOLEAN /\ a.main \in Glyph /\ a.steps \in Seq(Metric)
  /\ Delimiters \cup {Sign, Parens[1], Parens[2]} \subseteq DOMAIN Ladders
  /\ \A name \in DOMAIN Ladders :
       LET d == Ladders[name] IN
       /\ d \in Ladder /\ Len(d.middle) <= 1
       /\ IF d.ladder = "NEVER" THEN d.null \/ d.faces # << >>
          ELSE d.repeat.ascent + d.repeat.descent > 0
  /\ \A e \in Environments : e \in Environment
  /\ BigTargets \subseteq Int
  /\ NullDelimiterSpace \in Nat /\ ScriptSpace \in Nat /\ DelimiterShortfall \in Nat

(* A cell is the box, a letter or empty; a row holds at least one.         *)
Row == Seq({"BOX", "CHAR", "EMPTY"}) \ {<< >>}
ASSUME ShapesAssumption == \A shape \in Shapes : shape \in Seq(Row) \ {<< >>}

VARIABLES
  box,     (* the box made last                                            *)
  made,    (* the construct it is of, and the delimiters that asked for    *)
  style,   (* the style of the list it stands in                           *)
  nested   (* constructs around one another in it                          *)

vars == <<box, made, style, nested>>

-----------------------------------------------------------------------------
HalfDown(v) == v \div 2                        (* mutant: odd values round down  *)

(* txc_half: odd values round up; txc_em: floor division.                  *)
Half(v)  == (v + 1) \div 2
Em(f, v) == (f * v) \div Unit

Larger(a, b) == IF a > b THEN a ELSE b
Largest(set) == CHOOSE m \in set : \A k \in set : k <= m

P(name, s) == Param[StyleSize(s)][name]

(* txc_node: what it is, the part it plays in its parent and the place of  *)
(* its range there, its reference point, extents and children.             *)
Node(kind, role, src, width, ascent, descent) ==
  [kind |-> kind, role |-> role, src |-> src, x |-> 0, y |-> 0, width |-> width,
   ascent |-> ascent, descent |-> descent, italic |-> 0, parts |-> << >>]

GlyphNode(metric, role, src) ==
  [Node("GLYPH", role, src, metric.width, metric.ascent, metric.descent)
     EXCEPT !.italic = metric.italic]

Kern(role, src, width) == Node("KERN", role, src, width, 0, 0)

At(node, x, y) == [node EXCEPT !.x = x, !.y = y]

(* A child that is a box: its own children are no longer looked at.        *)
Child(b, role, src, x, y) ==
  At(Node("HBOX", role, src, b.width, b.ascent, b.descent), x, y)

(* txc_box_init; slots is the size the children array was allocated at.    *)
Box(width, ascent, descent, slots, children) ==
  [width |-> width, ascent |-> ascent, descent |-> descent, slots |-> slots,
   children |-> children]

(* The extents of a list: of its ink, floored at zero.                     *)
Ink(nodes) == {nodes[k] : k \in {j \in DOMAIN nodes : nodes[j].kind # "KERN"}}

AscentOf(nodes)  == Largest({0} \cup {n.ascent + n.y : n \in Ink(nodes)})
DescentOf(nodes) == Largest({0} \cup {n.descent - n.y : n \in Ink(nodes)})

HList(nodes, width) ==
  Box(width, AscentOf(nodes), DescentOf(nodes), Len(nodes), nodes)

-----------------------------------------------------------------------------
(* txc_clean_box of a character, and of a list: one glyph alone loses its  *)
(* italic correction.                                                      *)
CharBox(glyph, s) ==
  LET m == glyph[StyleSize(s)] IN
  Box(m.width, Larger(m.ascent, 0), Larger(m.descent, 0), 1, <<GlyphNode(m, "CHAR", 0)>>)

CleanBox(b) ==
  IF Len(b.children) = 1 /\ b.children[1].kind = "GLYPH"
  THEN [b EXCEPT !.width = b.children[1].width] ELSE b

(* txc_script_box *)
ScriptBox(b) == [b EXCEPT !.width = b.width + ScriptSpace]

(* txc_mlist of an atom of a class and a character after it, at most.      *)
Mlist(b, class, tail, s) ==
  LET body  == Child(b, "BODY", 1, 0, 0)
      gap   == InterAtomWidth(Spacing(class, tail[1].class), s)
      space == IF gap = "NONE" THEN << >> ELSE <<At(Kern("BODY", 1, P(gap, s)), b.width, 0)>>
      after == b.width + (IF gap = "NONE" THEN 0 ELSE P(gap, s))
      last  == GlyphNode(tail[1].glyph[StyleSize(s)], "BODY", 1)
  IN  IF tail = << >> THEN HList(<<body>>, b.width)
      ELSE HList(<<body>> \o space \o <<At(last, after, 0)>>, after + last.width + last.italic)

-----------------------------------------------------------------------------

(* txc_delimiter_target: rule 19, 901/1000 of the full cover or the        *)
(* shortfall, whichever asks for more.                                     *)
DelimiterTarget(reach) ==
  Larger((reach \div 500) * 901, 2 * reach - DelimiterShortfall)

Tall(glyph) == glyph.ascent + glyph.descent

(* txc_delimiter_assembly: the pieces top down, their ink abutting; the    *)
(* repeaters of a brace in equal numbers above and below its waist.        *)
FixedSize(d) ==
  Tall(d.top) + Tall(d.bottom) + (IF d.middle = << >> THEN 0 ELSE Tall(d.middle[1]))

RepeatSize(d) == (IF d.middle = << >> THEN 1 ELSE 2) * Tall(d.repeat)

Repeats(d, target) ==
  IF FixedSize(d) < target
  THEN (target - FixedSize(d) + RepeatSize(d) - 1) \div RepeatSize(d) ELSE 0

Pieces(d, count) ==
  LET copies == [k \in 1 .. count |-> d.repeat] IN
  <<d.top>> \o (IF d.middle = << >> THEN << >> ELSE copies \o d.middle)
    \o copies \o <<d.bottom>>

PieceWidth(d) ==
  Largest({d.top.width, d.repeat.width, d.bottom.width}
            \cup {d.middle[k].width : k \in DOMAIN d.middle})

StackPieces(plan, total, width, role, src) ==
  LET cursor[k \in DOMAIN plan] ==
        IF k = 1 THEN total ELSE cursor[k - 1] - Tall(plan[k - 1])
  IN  [Node("HBOX", role, src, width, total, 0) EXCEPT !.parts =
        [k \in DOMAIN plan |->
           At(GlyphNode(plan[k], "PIECE", src), 0, cursor[k] - plan[k].ascent)]]

Assembly(d, target, role, src) ==
  LET count == Repeats(d, target) IN
  StackPieces(Pieces(d, count), FixedSize(d) + count * RepeatSize(d), PieceWidth(d), role, src)

PieceSlotsOnce(d, target) ==                   (* mutant: one run of repeaters   *)
  2 + Len(d.middle) + Repeats(d, target)

(* The slots of its children array.                                        *)
PieceSlots(d, target) ==
  2 + Len(d.middle) + (IF d.middle = << >> THEN 1 ELSE 2) * Repeats(d, target)

(* txc_delimiter_node: the candidates in the order they are tried.         *)
SmallSizes(size) ==
  CASE size = "TEXT"   -> <<"TEXT">>
    [] size = "SCRIPT" -> <<"SCRIPT", "TEXT">>
    [] OTHER           -> <<"SCRIPTSCRIPT", "SCRIPT", "TEXT">>

Candidates(d, s) ==
  LET sizes == SmallSizes(StyleSize(s)) IN
  [k \in DOMAIN sizes |-> d.small[sizes[k]]]
    \o (IF d.ladder = "ALWAYS" THEN << >> ELSE d.faces)

(* The tables are in order: each rung of a ladder is at least as tall as   *)
(* the one before, each step of a wide accent as wide; no accent hangs     *)
(* below its baseline; the sign, which has no pieces, is wider than the    *)
(* kern that tucks an index over it; and the strut of an environment with  *)
(* fences is more than twice the height of the axis.                       *)
ASSUME TablesAscend ==
  /\ \A name \in DOMAIN Ladders : \A s \in MathStyles :
       LET c == Candidates(Ladders[name], s) IN
       \A j, k \in DOMAIN c : j < k => Tall(c[j]) <= Tall(c[k])
  /\ \A a \in Accents :
       LET w == <<a.main["TEXT"]>> \o a.steps IN
       /\ \A j, k \in DOMAIN w : j < k => w[j].width <= w[k].width
       /\ \A k \in DOMAIN w : w[k].descent <= 0
       /\ \A z \in Sizes : a.main[z].descent <= 0
  /\ ~Ladders[Sign].null /\ Ladders[Sign].ladder = "NEVER"
  /\ \A s \in MathStyles : LET c == Candidates(Ladders[Sign], s) IN
       \A k \in DOMAIN c : c[k].width >= P("kernAfter", s)
  /\ \A e \in Environments : \A s \in MathStyles :
       e.delimited => e.strutAscent + e.strutDescent >= 2 * P("axis", s)

Fitting(c, target) == {k \in DOMAIN c : Tall(c[k]) >= target}

LastOf(fit) == CHOOSE k \in fit : \A j \in fit : j <= k  (* mutant: no break      *)

FirstOf(fit) == CHOOSE k \in fit : \A j \in fit : k <= j

Chosen(d, s, target, role, src) ==
  LET c   == Candidates(d, s)
      fit == Fitting(c, target)
  IN  IF fit # {} THEN GlyphNode(c[FirstOf(fit)], role, src)
      ELSE IF d.ladder = "NEVER" THEN GlyphNode(d.faces[Len(d.faces)], role, src)
      ELSE Assembly(d, target, role, src)

(* Centred on the axis; the null delimiter is a space.                     *)
Centred(node, axis) == At(node, 0, axis - Half(node.ascent - node.descent))

DelimiterNode(name, s, target, role, src) ==
  IF Ladders[name].null THEN Kern(role, src, NullDelimiterSpace)
  ELSE Centred(Chosen(Ladders[name], s, target, role, src), P("axis", s))

Asks(role, name, s, target) == [role |-> role, name |-> name, style |-> s, target |-> target]

-----------------------------------------------------------------------------
(* txc_fraction_box, num and den laid out.  Without a bar the parts keep   *)
(* a clearance between them, with one each keeps it to the bar.            *)
FractionStyle(forced, s) ==
  CASE forced = "DISPLAY" -> Display [] forced = "TEXT" -> Text [] OTHER -> s

(* The shifts of the parts, pushed where they are too close: depth is the  *)
(* one of the numerator, height the one of the denominator.                *)
BinomialShifts(depth, height, s, up, down) ==
  LET gap  == (up - depth) - (height - down)
      push == Larger(Half((IF s < Text THEN 7 ELSE 3) * P("rule", s) - gap), 0)
  IN  [up |-> up + push, down |-> down + push]

BarShifts(depth, height, s, up, down) ==
  LET clear  == (IF s < Text THEN 3 ELSE 1) * P("rule", s)
      top    == P("axis", s) + Half(P("rule", s))
      bottom == P("axis", s) - Half(P("rule", s))
  IN  [up   |-> up + Larger(clear - ((up - depth) - top), 0),
       down |-> down + Larger(clear - (bottom - (height - down)), 0)]

Shifts(num, den, s, binom) ==
  IF binom THEN BinomialShifts(num.descent, den.ascent, s, P(IF s < Text THEN "num1" ELSE "num3", s),
                               P(IF s < Text THEN "denom1" ELSE "denom2", s))
  ELSE BarShifts(num.descent, den.ascent, s, P(IF s < Text THEN "num1" ELSE "num2", s),
                 P(IF s < Text THEN "denom1" ELSE "denom2", s))

DrawFraction(num, den, s, binom, shift, left, edge) ==
  LET width  == Larger(num.width, den.width)
      right  == [edge EXCEPT !.x = left.width + width]
      bar    == At(Node("RULE", "RULE", 0, width, P("rule", s), 0),
                   left.width, P("axis", s) + Half(P("rule", s)) - P("rule", s))
      top    == Child(num, "NUM", 1, left.width + Half(width - num.width), shift.up)
      bottom == Child(den, "DEN", 2, left.width + Half(width - den.width), -shift.down)
      edges  == IF binom THEN {left, right} ELSE {}
  IN  Box(left.width + width + right.width,
          Largest({shift.up + num.ascent} \cup {n.y + n.ascent : n \in edges}),
          Largest({shift.down + den.descent} \cup {n.descent - n.y : n \in edges}),
          IF binom THEN 4 ELSE 5,
          IF binom THEN <<left, right, top, bottom>> ELSE <<left, bar, top, bottom, right>>)

BinomialTarget(s) == P(IF s < Text THEN "delim1" ELSE "delim2", s)

FractionBox(num, den, s, binom) ==
  LET Edge(paren, role) ==
        IF binom THEN DelimiterNode(paren, s, BinomialTarget(s), role, 0)
        ELSE Kern(role, IF role = "LEFT" THEN 0 ELSE 3, NullDelimiterSpace)
  IN  DrawFraction(num, den, s, binom, Shifts(num, den, s, binom),
                   Edge(Parens[1], "LEFT"), Edge(Parens[2], "RIGHT"))

-----------------------------------------------------------------------------
(* txc_fenced_box: the enclosed nodes are spliced between the delimiters,  *)
(* the space of the last class against Close after them.                   *)
Reach(b, s) == Larger(b.ascent - P("axis", s), b.descent + P("axis", s))

DrawFenced(left, right, inner, space) ==
  LET body  == [k \in DOMAIN inner.children |->
                  [inner.children[k] EXCEPT !.x = @ + left.width]]
      after == left.width + inner.width
      close == IF space = 0 THEN << >> ELSE <<At(Kern("CLOSE", 1, space), after, 0)>>
  IN  [HList(<<left>> \o body \o close \o <<[right EXCEPT !.x = after + space]>>,
             after + space + right.width)
         EXCEPT !.slots = 2 + Len(inner.children) + (IF space = 0 THEN 0 ELSE 1)]

FencedBox(l, r, inner, last, s) ==
  LET target == DelimiterTarget(Reach(inner, s))
      gap    == InterAtomWidth(Spacing(last, "CLOSE"), s)
  IN  DrawFenced(DelimiterNode(l, s, target, "LEFT", 0), DelimiterNode(r, s, target, "RIGHT", 2),
                 inner, IF gap = "NONE" THEN 0 ELSE P(gap, s))

-----------------------------------------------------------------------------
(* txc_array_box: grid is the cells, laid out, of each row.                *)
RowExtents(grid, e) ==
  [r \in DOMAIN grid |->
    [ascent  |-> Largest({e.strutAscent} \cup {grid[r][c].ascent : c \in DOMAIN grid[r]}),
     descent |-> Largest({e.strutDescent} \cup {grid[r][c].descent : c \in DOMAIN grid[r]})]]

ColumnWidths(grid) ==
  [c \in 1 .. Largest({Len(grid[r]) : r \in DOMAIN grid}) |->
    Largest({0} \cup {grid[r][c].width : r \in {q \in DOMAIN grid : c \in DOMAIN grid[q]}})]

BaselineSkipFixed(above, below, e) == e.baselineskip  (* mutant: no lineskip      *)

(* The interline glue below each row but the last.                         *)
BaselineSkip(above, below, e) ==
  LET shared == above.descent + below.ascent IN
  IF e.baselineskip - shared < e.limit THEN shared + e.lineskip ELSE e.baselineskip

(* The rows on their baselines, centred on the axis.                       *)
Centre(rows, below, axis) ==
  LET delta  == rows[1].ascent + below[Len(rows)] + rows[Len(rows)].descent
      ascent == axis + Half(delta)
  IN  [rows |-> rows, ascent |-> ascent, descent |-> delta - ascent,
       at |-> [r \in DOMAIN rows |-> ascent - rows[1].ascent - below[r]]]

Baselines(rows, e) ==
  LET below[r \in DOMAIN rows] ==
        IF r = 1 THEN 0 ELSE below[r - 1] + BaselineSkip(rows[r - 1], rows[r], e)
  IN  below

Stack(grid, e, s) ==
  LET rows == RowExtents(grid, e) IN Centre(rows, Baselines(rows, e), P("axis", s))

ColumnStarts(columns, e) ==
  LET start[c \in 1 .. Len(columns) + 1] ==
        IF c = 1 THEN 0 ELSE start[c - 1] + (columns[c - 1] + e.gap)
  IN  start

ArrayWidth(columns, e) ==
  ColumnStarts(columns, e)[Len(columns) + 1]
    - (IF e.gapAfterFirst /\ Len(columns) = 1 THEN 0 ELSE e.gap)

DrawRows(grid, e, stack, columns, start, width, lead) ==
  LET Cells(r) ==
        [c \in DOMAIN grid[r] |->
          Child(grid[r][c], "CELL", c,
                start[c] + (IF e.leftAligned THEN 0 ELSE Half(columns[c] - grid[r][c].width)), 0)]
  IN  [r \in DOMAIN grid |->
        [At(Node("HBOX", "ROW", r, width, stack.rows[r].ascent, stack.rows[r].descent),
            lead, stack.at[r]) EXCEPT !.parts = Cells(r)]]

DrawFences(stack, lines, width, padding, left, right) ==
  LET lead == padding + left.width IN
  Box(lead + width + right.width + padding,
      Larger(stack.ascent, Larger(left.y + left.ascent, right.y + right.ascent)),
      Larger(stack.descent, Larger(left.descent - left.y, right.descent - right.y)),
      2 + Len(lines),
      <<[left EXCEPT !.x = padding]>> \o lines \o <<[right EXCEPT !.x = lead + width]>>)

ArrayTarget(grid, e, s) == DelimiterTarget(Reach(Stack(grid, e, s), s))

ArrayBox(grid, e, s) ==
  LET stack   == Stack(grid, e, s)
      columns == ColumnWidths(grid)
      width   == ArrayWidth(columns, e)
      padding == IF e.thinPadding THEN P("THIN", s) ELSE 0
      Lines(lead) == DrawRows(grid, e, stack, columns, ColumnStarts(columns, e), width, lead)
      Fenced(left, right) ==
        DrawFences(stack, Lines(padding + left.width), width, padding, left, right)
  IN  IF e.delimited
      THEN Fenced(DelimiterNode(e.left, s, ArrayTarget(grid, e, s), "LEFT", 0),
                  DelimiterNode(e.right, s, ArrayTarget(grid, e, s), "RIGHT", Len(grid) + 1))
      ELSE Box(padding + width + padding, stack.ascent, stack.descent, Len(grid), Lines(padding))

-----------------------------------------------------------------------------
(* txc_radical_box: half of what the sign is too tall joins the clearance; *)
(* the index, a list of its own, tucks over the sign.                      *)
RadicalClearance(s) ==
  P("rule", s) + (IF s < Text THEN P("xHeight", s) ELSE P("rule", s)) \div 4

RadicalTarget(radicand, s) ==
  radicand.ascent + radicand.descent + RadicalClearance(s) + P("rule", s)

DrawIndex(index, s, raise) ==
  IF index = << >> THEN << >>
  ELSE <<Kern("INDEX", 1, P("kernBefore", s)),
         Child(index[1], "INDEX", 1, P("kernBefore", s), raise),
         At(Kern("INDEX", 1, -P("kernAfter", s)), P("kernBefore", s) + index[1].width, 0)>>

DrawRadical(radicand, rule, sign, lead, bottom, aside) ==
  LET content == lead + sign.width
      top     == bottom + rule
      below   == Larger(radicand.descent, sign.descent - (top - sign.ascent))
  IN  Box(content + radicand.width,
          Largest({top} \cup {n.y + n.ascent : n \in Ink(aside)}),
          Largest({below} \cup {n.descent - n.y : n \in Ink(aside)}),
          IF aside = << >> THEN 3 ELSE 6,
          <<At(sign, lead, top - sign.ascent),
            At(Node("RULE", "RULE", 0, radicand.width, rule, 0), content, bottom)>>
            \o aside \o <<Child(radicand, "RADICAND", 2, content, 0)>>)

RadicalRaise(radicand, sign, top) ==
  Em(Raise, top - Larger(radicand.descent, sign.descent - (top - sign.ascent)))

RadicalBar(radicand, sign, s) ==
  radicand.ascent + RadicalClearance(s) + Larger(Half(Tall(sign) - RadicalTarget(radicand, s)), 0)

RadicalAround(radicand, index, sign, s) ==
  LET bottom == RadicalBar(radicand, sign, s)
      lead   == IF index = << >> THEN 0
                ELSE P("kernBefore", s) + index[1].width - P("kernAfter", s)
  IN  DrawRadical(radicand, P("rule", s), sign, lead, bottom,
                  DrawIndex(index, s, RadicalRaise(radicand, sign, bottom + P("rule", s))))

RadicalBox(radicand, index, s) ==
  RadicalAround(radicand, index,
                DelimiterNode(Sign, s, RadicalTarget(radicand, s), "SIGN", 0), s)

-----------------------------------------------------------------------------
(* txc_accent_box: a wide accent is the first step as wide as its nucleus, *)
(* or the widest.                                                          *)
AccentGlyph(a, width, s) ==
  LET steps == <<a.main["TEXT"]>> \o a.steps
      fit   == {k \in DOMAIN steps : steps[k].width >= width}
  IN  IF ~a.wide THEN a.main[StyleSize(s)]
      ELSE IF fit = {} THEN steps[Len(steps)] ELSE steps[FirstOf(fit)]

AccentBox(nucleus, skew, a, s) ==
  LET glyph  == GlyphNode(AccentGlyph(a, nucleus.width, s), "ACCENT", 0)
      height == P("xHeight", s)
      placed == At(glyph, skew + Half(nucleus.width - glyph.width),
                   Larger(nucleus.ascent - height, 0))
  IN  Box(nucleus.width, Larger(nucleus.ascent, placed.y + placed.ascent), nucleus.descent, 2,
          <<placed, Child(nucleus, "NUCLEUS", 1, 0, 0)>>)
-----------------------------------------------------------------------------
(* txc_delimiter_boxed: a \big delimiter on the surrounding baseline.      *)
SizedBox(d, s, target) ==
  LET node == DelimiterNode(d, s, target, "BODY", 0) IN
  Box(node.width, Larger(node.y + node.ascent, 0), Larger(node.descent - node.y, 0), 1, <<node>>)

(* A nucleus: its node if any, its width, the italic correction its        *)
(* scripts see, and the shifts it asks of them.                            *)
Nucleus(nodes, width, italic, up, down) ==
  [nodes |-> nodes, width |-> width, italic |-> italic, up |-> up, down |-> down]

DropSize(s) == IF s < Script THEN "SCRIPT" ELSE "SCRIPTSCRIPT"

CharNucleus(glyph, s) ==
  LET m == glyph[StyleSize(s)] IN
  Nucleus(<<GlyphNode(m, "NUCLEUS", 0)>>, m.width, m.italic, 0, 0)

BoxedNucleus(node, italic, s) ==
  Nucleus(<<node>>, node.width, italic,
          node.ascent + node.y - Param[DropSize(s)]["supDrop"],
          node.descent - node.y + Param[DropSize(s)]["subDrop"])

(* make_op: the size face of the style, at the text em, on the axis.       *)
OperatorNucleus(o, s) ==
  LET m == IF s < Text THEN o.size2 ELSE o.size1 IN
  BoxedNucleus(At(GlyphNode(m, "NUCLEUS", 0), 0, P("axis", s) - Half(m.ascent - m.descent)),
               m.italic, s)

ListNucleus(b, s) == BoxedNucleus(Child(b, "NUCLEUS", 0, 0, 0), 0, s)

EmptyNucleus(s) ==
  Nucleus(<< >>, 0, 0, -Param[DropSize(s)]["supDrop"], Param[DropSize(s)]["subDrop"])

(* txc_mlist of one atom without scripts.                                  *)
BareBox(n) == HList(n.nodes, n.width + n.italic)

(* Rule 18: sup and sub are << >> or <<box>>, as all optional parts are.   *)
SupShift(n, sup, s) ==
  LET least == CASE (s % 2) = 1 -> "sup3" [] (s % 2) = 0 /\ s < Text -> "sup1" [] OTHER -> "sup2"
  IN  Larger(Larger(n.up, P(least, s)), sup.descent + P("xHeight", s) \div 4)

SubShift(n, sub, s) ==
  Larger(Larger(n.down, P("sub1", s)), sub.ascent - (4 * P("xHeight", s)) \div 5)

BothShiftsRaised(up, down, depth, height, s) ==  (* mutant: the pair is only raised *)
  LET short == 4 * P("rule", s) - ((up - depth) - (height - down))
      raise == Larger((4 * P("xHeight", s)) \div 5 - (up - depth), 0)
  IN  IF short > 0 THEN [up |-> up + raise, down |-> down - raise] ELSE [up |-> up, down |-> down]

BothShifts(up, down, depth, height, s) ==
  LET short == 4 * P("rule", s) - ((up - depth) - (height - down))
      raise == Larger((4 * P("xHeight", s)) \div 5 - (up - depth), 0)
  IN  IF short > 0 THEN [up |-> up + raise, down |-> down + short - raise]
      ELSE [up |-> up, down |-> down]

ScriptShifts(n, sup, sub, s) ==
  CASE sub = << >> -> [up |-> SupShift(n, sup[1], s), down |-> n.down]
    [] sup = << >> -> [up |-> n.up, down |-> SubShift(n, sub[1], s)]
    [] OTHER -> BothShifts(SupShift(n, sup[1], s), Larger(n.down, P("sub2", s)),
                           sup[1].descent, sub[1].ascent, s)

InOrderSupFirst(sup, sub, subFirst) == sup \o sub  (* mutant                      *)

(* In the order the source has them.                                       *)
InOrder(sup, sub, subFirst) == IF subFirst THEN sub \o sup ELSE sup \o sub

ScriptsBox(n, sup, sub, subFirst, s) ==
  LET shift == ScriptShifts(n, sup, sub, s)
      first == IF subFirst THEN "SUB" ELSE "SUP"
      Place(role) == IF role = first THEN 1 ELSE 2
      high  == IF sup = << >> THEN << >>
               ELSE <<Child(sup[1], "SUP", Place("SUP"), n.width + n.italic, shift.up)>>
      low   == IF sub = << >> THEN << >>
               ELSE <<Child(sub[1], "SUB", Place("SUB"), n.width, -shift.down)>>
  IN  HList(n.nodes \o InOrder(high, low, subFirst),
            n.width + CASE sub = << >> -> n.italic + sup[1].width
                        [] sup = << >> -> sub[1].width
                        [] OTHER -> Larger(n.italic + sup[1].width, sub[1].width))

(* Off the operator: by the ink, or by the baseline.                       *)
LimitClearance(ink, baseline, extent) == Larger(ink, baseline - extent)

(* Rule 13a: one box of three slots.                                       *)
LimitsBox(n, sup, sub, subFirst, s) ==
  LET node   == n.nodes[1]
      width  == Largest({n.width} \cup {(sup \o sub)[k].width : k \in DOMAIN (sup \o sub)})
      top    == node.ascent + node.y
      bottom == node.descent - node.y
      nudge  == Half(n.italic)
      first  == IF subFirst THEN "SUB" ELSE "SUP"
      Place(role) == IF role = first THEN 1 ELSE 2
      above  == LimitClearance(P("space1", s), P("space3", s), sup[1].descent)
      below  == LimitClearance(P("space2", s), P("space4", s), sub[1].ascent)
      high   ==
        IF sup = << >> THEN << >>
        ELSE <<Child(sup[1], "SUP", Place("SUP"), Half(width - sup[1].width) + nudge,
                     top + above + sup[1].descent)>>
      low    ==
        IF sub = << >> THEN << >>
        ELSE <<Child(sub[1], "SUB", Place("SUB"), Half(width - sub[1].width) - nudge,
                     -(bottom + below + sub[1].ascent))>>
  IN  Box(width,
          IF sup = << >> THEN top ELSE high[1].y + high[1].ascent + P("space5", s),
          IF sub = << >> THEN bottom ELSE low[1].descent - low[1].y + P("space5", s),
          3, <<At(node, Half(width - n.width), node.y)>> \o InOrder(high, low, subFirst))
-----------------------------------------------------------------------------
(* What a construct is, the style its parameters resolve at, the class of  *)
(* its atom and the ladders it asked, by the role of the node.             *)
Made(by, s, class, asks) == [by |-> by, style |-> s, class |-> class, asks |-> asks]

(* A letter, a big operator, a sized delimiter or an accented letter.      *)
Init ==
  /\ nested = 0
  /\ style \in InStyles
  /\ \/ \E n \in {CharNucleus(g, style) : g \in Glyphs}
                   \cup {OperatorNucleus(o, style) : o \in Operators} :
          box = BareBox(n) /\ made = Made("LIST", style, "ORD", {})
     \/ \E d \in Delimiters, t \in BigTargets :
          /\ box = SizedBox(d, style, t)
          /\ made = Made("DELIMITER", style, "ORD", {Asks("BODY", d, style, t)})
     \/ \E a \in Accents, g \in Glyphs :
          /\ box = AccentBox(CharBox(g, CrampedStyle(style)), g[StyleSize(style)].skew, a, style)
          /\ made = Made("ACCENT", style, "ORD", {})

(* The box made last as an argument, and as a list.                        *)
Argument == IF made.by = "LIMITS" THEN Mlist(box, "OP", << >>, style) ELSE CleanBox(box)
List     == Mlist(box, made.class, << >>, style)

Wrap(by, b, s, parameters, class, asks) ==
  /\ nested < MaxNested
  /\ nested' = nested + 1
  /\ box' = b
  /\ made' = Made(by, parameters, class, asks)
  /\ style' = s

(* A fraction or a binomial, with the box above or below.                  *)
BuildFraction ==
  \E s \in MathStyles, forced \in {"NONE", "DISPLAY", "TEXT"}, binom \in BOOLEAN, g \in Glyphs :
    LET fs   == FractionStyle(forced, s)
        asks == IF ~binom THEN {}
                ELSE {Asks(role, Parens[IF role = "LEFT" THEN 1 ELSE 2], fs, BinomialTarget(fs)) :
                        role \in {"LEFT", "RIGHT"}}
        Make(num, den) == Wrap("FRACTION", FractionBox(num, den, fs, binom), s, fs, "INNER", asks)
    IN  /\ forced = "NONE" \/ s \in InStyles
        /\ \/ style = NumStyle(fs) /\ Make(Argument, CharBox(g, DenomStyle(fs)))
           \/ style = DenomStyle(fs) /\ Make(CharBox(g, NumStyle(fs)), Argument)

(* The box, or the box and a character after it.                           *)
Tails == {<< >>} \cup {<<[class |-> c, glyph |-> g]>> : c \in {"REL", "PUNCT"}, g \in Glyphs}

(* \left ... \right around them.                                           *)
BuildFenced ==
  \E l, r \in Delimiters, tail \in Tails :
    LET inner  == Mlist(box, made.class, tail, style)
        target == DelimiterTarget(Reach(inner, style))
        last   == IF tail = << >> THEN made.class ELSE tail[1].class
    IN  Wrap("FENCED", FencedBox(l, r, inner, last, style), style, style, "INNER",
             {Asks("LEFT", l, style, target), Asks("RIGHT", r, style, target)})

(* An alignment of the box, letters and empty cells.                       *)
MakeArray(grid, e, s) ==
  LET target == ArrayTarget(grid, e, s) IN
  Wrap("ARRAY", ArrayBox(grid, e, s), s, s, IF e.delimited THEN "INNER" ELSE "ORD",
       IF ~e.delimited THEN {}
       ELSE {Asks("LEFT", e.left, s, target), Asks("RIGHT", e.right, s, target)})

BuildArray ==
  \E e \in Environments, s \in InStyles, g \in Glyphs, shape \in Shapes :
    LET Cell(what) ==
          CASE what = "BOX"   -> List
            [] what = "EMPTY" -> HList(<< >>, 0)
            [] OTHER          -> BareBox(CharNucleus(g, e.cellStyle))
    IN  /\ style = e.cellStyle
        /\ MakeArray([r \in DOMAIN shape |-> [c \in DOMAIN shape[r] |-> Cell(shape[r][c])]], e, s)

(* A radical of the box, with an index or not, or with the box as index.   *)
BuildRadical ==
  \E s \in MathStyles, g \in Glyphs :
    LET Make(radicand, index) ==
          Wrap("RADICAL", RadicalBox(radicand, index, s), s, s, "ORD",
               {Asks("SIGN", Sign, s, RadicalTarget(radicand, s))})
    IN  \/ /\ style = CrampedStyle(s)
           /\ \E index \in {<< >>, <<BareBox(CharNucleus(g, Scriptscript))>>} : Make(Argument, index)
        \/ /\ style = Scriptscript /\ s \in InStyles
           /\ Make(CharBox(g, CrampedStyle(s)), <<List>>)

(* An accent over the box; only a character has a skew.                    *)
BuildAccent ==
  \E s \in MathStyles, a \in Accents :
    /\ style = CrampedStyle(s)
    /\ Wrap("ACCENT", AccentBox(Argument, 0, a, s), s, s, "ORD", {})

(* Scripts of the box, and the box as a script of a letter, of a big       *)
(* operator or of nothing; one with limits makes one box of it all.        *)
MakeScripts(n, sup, sub, subFirst, limits, s) ==
  LET Boxed(b) == IF limits THEN b ELSE ScriptBox(b)
      high == [k \in DOMAIN sup |-> Boxed(sup[k])]
      low  == [k \in DOMAIN sub |-> Boxed(sub[k])]
  IN  IF limits THEN Wrap("LIMITS", LimitsBox(n, high, low, subFirst, s), s, s, "OP", {})
      ELSE Wrap("SCRIPTS", ScriptsBox(n, high, low, subFirst, s), s, s, "ORD", {})

BuildScripts ==
  \E s \in MathStyles, subFirst \in BOOLEAN, limits \in BOOLEAN, g \in Glyphs :
    LET up   == SupStyle(s)
        down == SubStyle(s)
        Char(at) == CharBox(g, at)
        Make(n, sup, sub) == MakeScripts(n, sup, sub, subFirst, limits, s)
        Nuclei == {OperatorNucleus(o, s) : o \in Operators}
                    \cup (IF limits THEN {} ELSE {CharNucleus(h, s) : h \in Glyphs}
                                                   \cup {EmptyNucleus(s)})
    IN  \/ /\ style = s /\ (limits => made.by = "LIST")
           /\ \E sup \in {<< >>, <<Char(up)>>}, sub \in {<< >>, <<Char(down)>>} :
                sup \o sub # << >> /\ Make(ListNucleus(box, s), sup, sub)
        \/ \E n \in Nuclei :
             \/ style = up /\ \E sub \in {<< >>, <<Char(down)>>} : Make(n, <<Argument>>, sub)
             \/ style = down /\ \E sup \in {<< >>, <<Char(up)>>} : Make(n, sup, <<Argument>>)

(* Nothing is put around it: it is the output.                             *)
Returned == UNCHANGED vars

Build == BuildFraction \/ BuildFenced \/ BuildArray \/ BuildRadical \/ BuildAccent \/ BuildScripts

Next == Build \/ Returned

Spec == Init /\ [][Next]_vars
=============================================================================
