------------------------------ MODULE MCBoxes ------------------------------
(***************************************************************************)
(* The tables of metrics.inc and parse.c at a thousandth of a point: an em *)
(* is 10000, 7000 and 5000, a fraction of it counts ten-thousandths.       *)
(***************************************************************************)
EXTENDS BoxesProps

MCUnit  == 10000
MCRaise == 6000
EmOf(z) == CASE z = "TEXT" -> 10000 [] z = "SCRIPT" -> 7000 [] OTHER -> 5000

Scale(m, em) ==
  LET v(k) == (m[k] * em) \div 10000 IN
  [width |-> v(1), ascent |-> v(2), descent |-> v(3), italic |-> v(4), skew |-> v(5)]
Whole(m)  == Scale(m, 10000)
AtSizes(m) == [z \in Sizes |-> Scale(m, EmOf(z))]

(* txc_param and the spaces of txc_inter_atom_width, for the three sizes.  *)
Table ==
  [xHeight |-> <<4309, 4309, 4309>>, sup1 |-> <<4129, 5030, 5040>>, sup2 |-> <<3630, 4309, 4040>>,
   sup3 |-> <<2889, 2859, 2940>>, sub1 |-> <<1499, 1430, 1999>>, sub2 |-> <<2469, 2859, 4000>>,
   supDrop |-> <<3860, 3529, 4940>>, subDrop |-> <<500, 709, 1000>>, rule |-> <<399, 489, 489>>,
   num1 |-> <<6770, 7319, 9250>>, num2 |-> <<3939, 3840, 3869>>, num3 |-> <<4440, 4709, 5040>>,
   denom1 |-> <<6860, 7519, 10249>>, denom2 |-> <<3450, 3439, 5319>>, axis |-> <<2500, 2500, 2500>>,
   delim1 |-> <<23900, 16999, 19800>>, delim2 |-> <<10099, 11569, 14200>>,
   space1 |-> <<1109, 1109, 1109>>, space2 |-> <<1659, 1659, 1659>>, space3 |-> <<1999, 1999, 1999>>,
   space4 |-> <<6000, 6109, 6109>>, space5 |-> <<1000, 1430, 1430>>, THIN |-> <<1666, 1951, 2453>>,
   MEDIUM |-> <<2222, 2602, 3271>>, THICK |-> <<2777, 3252, 4088>>,
   kernBefore |-> <<2777, 3252, 4088>>, kernAfter |-> <<5555, 6505, 8177>>]

MCParam ==
  [z \in Sizes |-> [p \in Parameters |->
    (Table[p][CASE z = "TEXT" -> 1 [] z = "SCRIPT" -> 2 [] OTHER -> 3] * EmOf(z)) \div 10000]]

(* f of the italic face, the integral, \hat and \widehat.                  *)
MCGlyphs == {AtSizes(<<4895, 6944, 1944, 1076, 1666>>)}
MCOperators == {[size1 |-> Whole(<<4722, 8049, 3061, 1944, 0>>),
                 size2 |-> Whole(<<5555, 13600, 8622, 4444, 0>>)]}
MCAccents ==
  LET hat == AtSizes(<<5000, 6944, 0, 0, 0>>) IN
  {[wide |-> FALSE, main |-> hat, steps |-> << >>],
   [wide |-> TRUE, main |-> hat,
    steps |-> <<Whole(<<5555, 7222, 0, 0, 0>>), Whole(<<10000, 7500, 0, 0, 0>>),
                Whole(<<14444, 7500, 0, 0, 0>>), Whole(<<18889, 8249, 0, 0, 0>>)>>]}

None == Whole(<<0, 0, 0, 0, 0>>)
ParenFaces ==
  <<Whole(<<4583, 8500, 3500, 0, 0>>), Whole(<<5972, 11499, 6500, 0, 0>>),
    Whole(<<7361, 14499, 9500, 0, 0>>), Whole(<<7916, 17500, 12500, 0, 0>>)>>

Paren ==
  [null |-> FALSE, ladder |-> "LARGE", small |-> AtSizes(<<3888, 7500, 2500, 0, 0>>),
   faces |-> ParenFaces, top |-> Whole(<<8750, 11549, 6450, 0, 0>>),
   repeat |-> Whole(<<8750, 6000, 0, 0, 0>>), bottom |-> Whole(<<8750, 11549, 6450, 0, 0>>),
   middle |-> << >>]
Brace ==
  [Paren EXCEPT !.top = Whole(<<8888, 8999, 0, 0, 0>>), !.repeat = Whole(<<8888, 3000, 0, 0, 0>>),
                !.bottom = Whole(<<8888, 0, 9000, 0, 0>>),
                !.middle = <<Whole(<<8888, 11499, 6500, 0, 0>>)>>]
Bar ==
  LET piece == Whole(<<3333, 6060, -60, 0, 0>>) IN
  [Paren EXCEPT !.ladder = "ALWAYS", !.small = AtSizes(<<2777, 7500, 2500, 0, 0>>),
                !.faces = <<piece>>, !.top = piece, !.repeat = piece, !.bottom = piece]
Angle == [Paren EXCEPT !.ladder = "NEVER", !.top = None, !.repeat = None, !.bottom = None]
Null  == [Angle EXCEPT !.null = TRUE, !.small = AtSizes(<<0, 0, 0, 0, 0>>), !.faces = << >>]

Sqrt ==
  [Angle EXCEPT !.small = AtSizes(<<8333, 8000, 1999, 0, 0>>),
                !.faces = [k \in 1 .. 4 |-> [ParenFaces[k] EXCEPT !.width = 10000]]]
MCLadders ==
  [paren |-> Paren, brace |-> Brace, bar |-> Bar, angle |-> Angle, null |-> Null, sqrt |-> Sqrt]
MCParens     == <<"paren", "paren">>
MCDelimiters == {"paren", "brace", "bar", "angle", "null"}
MCBigTargets == {DelimiterTarget(h - 2500) : h \in {11500, 17500}}

(* pmatrix, cases, smallmatrix.                                            *)
Matrix ==
  [delimited |-> TRUE, left |-> "paren", right |-> "paren", cellStyle |-> Text, leftAligned |-> FALSE,
   gap |-> 10000, gapAfterFirst |-> FALSE, strutAscent |-> 8400, strutDescent |-> 3600,
   baselineskip |-> 0, lineskip |-> 0, limit |-> 0, thinPadding |-> FALSE]
MCEnvironments ==
  {Matrix,
   [Matrix EXCEPT !.left = "brace", !.right = "null", !.leftAligned = TRUE, !.gapAfterFirst = TRUE],
   [Matrix EXCEPT !.delimited = FALSE, !.left = "null", !.right = "null", !.cellStyle = Script,
                  !.gap = 2777, !.strutAscent = 0, !.strutDescent = 0, !.baselineskip = 6000,
                  !.lineskip = 1500, !.limit = 1500, !.thinPadding = TRUE]}

MCShapes ==
  {<<<<"BOX">>>>, <<<<"BOX", "CHAR">>>>, <<<<"BOX">>, <<"CHAR", "BOX">>>>,
   <<<<"CHAR", "EMPTY">>, <<"EMPTY">>, <<"BOX", "CHAR">>>>}

MCInStyles == {0, 2, 5, 6}
=============================================================================
