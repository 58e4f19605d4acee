---------------------------- MODULE ParserProps ----------------------------
(***************************************************************************)
(* What the parser of parse.c owes its caller and the layout pass that     *)
(* reads its lists: stated over the frames, the arenas and the source.     *)
(***************************************************************************)
EXTENDS Parser, FiniteSets

-----------------------------------------------------------------------------
(***************************************************************************)
(* Types.                                                                  *)
(***************************************************************************)
FieldKinds == {"EMPTY", "CHAR", "LIST", "FRACTION", "DELIMITER", "FENCED", "RADICAL",
               "ACCENT", "TEXT", "ARRAY"}
Faces      == {"NONE", "PLAIN", "FIXED", "RM", "BF", "TEXT"}
Classes    == {"ORD", "OP", "BIN", "OPEN", "CLOSE", "PUNCT", "INNER"}
Roles      == {"ROOT", "GROUP", "SCRIPT", "FENCED", "INDEX", "CELL"}
Statuses   == {"RUNNING", "OK", "UNSUPPORTED", "INVALID_UTF8", "ALLOCATION_FAILED"}
Struts     == {"NONE", "PLAIN", "STRETCHED"}

Field == [kind : FieldKinds, list : Seq(Nat), node : Nat, face : Faces,
          begin : Nat, end : Nat]
Item  == [kind : {"ATOM", "SPACE"}, class : Classes, nucleus : Field, sup : Field,
          sub : Field, subFirst : BOOLEAN, limits : {"DISPLAY", "ALWAYS", "NEVER"},
          begin : Nat, end : Nat]
Cell  == [list : Seq(Nat), begin : Nat, end : Nat]
Built == [kind : {"FRACTION", "RADICAL", "ACCENT", "FENCED", "ARRAY"}, first : Field,
          last : Field, list : Seq(Nat), rows : Seq(Seq(Cell)), strut : Struts]

Script  == [kind : {"NONE", "SUP", "SUB"}, target : Nat, mark : Nat]
Collect == [kind : {"NONE", "FRACTION", "RADICAL", "ACCENT", "STYLE"}, begin : Nat,
            node : Nat, face : Faces, second : BOOLEAN, item : Nat, script : Script]
Wait    == [kind : {"NONE", "LEFT", "RIGHT", "EXPLICIT"}, at : Nat, class : Classes]

FrameType ==
  [role : Roles, list : Seq(Nat), face : Faces, stretched : BOOLEAN, open : Nat,
   script : Script, pending : Script, collect : Collect, text : BOOLEAN, wait : Wait,
   env : Environments \cup {"NONE"}, cellStart : Nat, cells : Seq(Cell),
   rows : Seq(Seq(Cell))]

LinkedTo(stk, its) ==
  \A i \in DOMAIN stk : \A j \in DOMAIN stk[i].list : stk[i].list[j] \in DOMAIN its

Typed(stk, its, nds) ==
  /\ stk \in Seq(FrameType) /\ stk # << >>
  /\ its \in Seq(Item)
  /\ nds \in Seq(Built)
  /\ LinkedTo(stk, its)

Source  == Tokens \cup Environments \cup {"unknown", "END"}
Messages ==
  {"", "malformed token", "allocation failed", "unsupported token",
   "unsupported paragraph break", "unsupported row spacing", "unsupported environment",
   "group nesting too deep", "missing argument", "missing delimiter",
   "missing environment name", "missing \\right", "missing \\end", "unmatched \\right",
   "unmatched \\end", "mismatched \\end", "unmatched closing brace", "unclosed group",
   "unclosed radical index", "double script", "misplaced limits",
   "misplaced alignment tab", "extra alignment tab", "misplaced \\\\"}
Verdict  == [status : Statuses, what : Messages, begin : Nat, end : Nat]

(* Types of the parser's state; the links of every frame's list are items. *)
TypeOK ==
  /\ text \in Seq(Source)
  /\ pos \in Nat
  /\ Typed(stack, items, nodes)
  /\ result \in Verdict

-----------------------------------------------------------------------------
(***************************************************************************)
(* The frame stack.                                                        *)
(***************************************************************************)
Collects(f, kind) == f.collect.kind = kind
TextSwitch(f)     == Collects(f, "STYLE") /\ f.collect.face = "TEXT"

(* What the frame under f must be doing for f to have been pushed on it.   *)
PushedOn(parent, f) ==
  /\ ~Waiting(parent) /\ ~parent.text
  /\ f.role # "ROOT"
  /\ f.role \in {"SCRIPT", "FENCED", "CELL"} => Idle(parent)
  /\ f.role = "INDEX" => Collects(parent, "RADICAL") /\ ~parent.collect.second
  /\ f.text => f.role = "GROUP" /\ TextSwitch(parent)
  /\ ~Pending(parent)

(* What any frame keeps to: it collects an argument or owes a script, not  *)
(* both; a \right is awaited by a fence; nothing is awaited, collected or  *)
(* owed where the document rules hold.                                     *)
Steady(f) ==
  /\ ~(Collecting(f) /\ Pending(f))
  /\ f.wait.kind = "RIGHT" => f.role = "FENCED"
  /\ f.wait.kind \in {"LEFT", "RIGHT"} => Idle(f)
  /\ ~MathRules(f) => Idle(f) /\ ~Waiting(f)

Disciplined(stk) ==
  /\ stk[1].role = "ROOT" /\ ~stk[1].text
  /\ \A i \in 2 .. Len(stk) : PushedOn(stk[i - 1], stk[i])
  /\ \A i \in DOMAIN stk : Steady(stk[i])

(* The stack discipline txc_parse relies on when it pops without looking:  *)
(* the root is at the bottom and only there, an index was pushed by a      *)
(* radical still without one, a \text group by its switch, and every other *)
(* frame by a parent that waits for nothing else.                          *)
StackDiscipline == Disciplined(stack)

(* Layout recurses over what the parser nests: no more than the limit.     *)
DepthBound == Len(stack) - 1 <= DepthLimit

(* Where an argument or a script will land is the last item of the frame's *)
(* own list, still without it: the pointer a frame keeps across the tokens *)
(* of an argument never goes stale, and a later write replaces nothing.    *)
Vacant(f, script) ==
  /\ f.list # << >> /\ script.target = Tail1(f)
  /\ items[script.target].kind = "ATOM"
  /\ ScriptField(items[script.target], script.kind).kind = "EMPTY"

DestinationOpen ==
  \A i \in DOMAIN stack :
    LET f == stack[i]
        c == f.collect
    IN /\ Pending(f) => Vacant(f, f.pending)
       /\ f.role = "SCRIPT" => Vacant(stack[i - 1], f.script)
       /\ Collecting(f) /\ c.item = 0 => Vacant(f, c.script)
       /\ Collecting(f) /\ c.item # 0 =>
            /\ f.list # << >> /\ c.item = Tail1(f)
            /\ items[c.item].nucleus.kind = "EMPTY"
            /\ items[c.item].sup.kind = "EMPTY" /\ items[c.item].sub.kind = "EMPTY"

(* \arraystretch set by a cases pierces every group, fence and cell opened *)
(* inside it, and nothing else.                                            *)
StretchPierces ==
  \A i \in DOMAIN stack :
    stack[i].stretched <=> \E j \in 1 .. i : stack[j].env = "cases"

-----------------------------------------------------------------------------
(***************************************************************************)
(* The lists and constructs built.                                         *)
(***************************************************************************)
FieldsOf(item)   == {item.nucleus, item.sup, item.sub}
NodeFields(node) == {node.first, node.last}
Filled(fields)   == {field \in fields : field.kind # "EMPTY"}
CellsOf(rows)    == UNION {{<<r, c>> : c \in DOMAIN rows[r]} : r \in DOMAIN rows}

(* Every list the parser holds, and where.                                 *)
RowLists(where, k, rows) ==
  {[at |-> <<where, k, rc[1], rc[2]>>, list |-> rows[rc[1]][rc[2]].list] : rc \in CellsOf(rows)}

FieldList(where, k, field) == [at |-> <<where, k, 0, 0>>, list |-> field.list]

Lists ==
  (UNION {{FieldList("frame", k, stack[k])} \cup RowLists("cells", k, <<stack[k].cells>>)
             \cup RowLists("rows", k, stack[k].rows) : k \in DOMAIN stack})
    \cup (UNION {{FieldList("nucleus", k, items[k].nucleus), FieldList("sup", k, items[k].sup),
                  FieldList("sub", k, items[k].sub)} : k \in DOMAIN items})
    \cup (UNION {{FieldList("first", k, nodes[k].first), FieldList("last", k, nodes[k].last),
                  FieldList("fence", k, nodes[k])}
                   \cup RowLists("array", k, nodes[k].rows) : k \in DOMAIN nodes})

Links(i) == UNION {{<<l.at, j>> : j \in {k \in DOMAIN l.list : l.list[k] = i}} : l \in Lists}

(* Lists are copied by value from frames into fields, cells and fences:    *)
(* every item allocated stays linked exactly once, so nothing parsed is    *)
(* dropped and no two lists share a tail.                                  *)
OneOwner == \A i \in DOMAIN items : Cardinality(Links(i)) = 1

(* The ranges of a list's items are ordered and disjoint.                  *)
Ordered(list) ==
  /\ \A j \in DOMAIN list : items[list[j]].begin <= items[list[j]].end
  /\ \A j \in 1 .. Len(list) - 1 : items[list[j]].end <= items[list[j + 1]].begin

Within(list, b, e) ==
  \A j \in DOMAIN list : b <= items[list[j]].begin /\ items[list[j]].end <= e

Covers(field) == Ordered(field.list) /\ Within(field.list, field.begin, field.end)

Disjoint(f, g) == f.end <= g.begin \/ g.end <= f.begin

(* Source ranges nest as the tree does: siblings in source order without   *)
(* overlap, the fields of an item inside it and apart, a list inside its   *)
(* field.  Layout derives the range of the space between two siblings from *)
(* the end of one and the begin of the next.                               *)
RangesNest ==
  /\ \A i \in DOMAIN stack : Ordered(stack[i].list)
  /\ \A i \in DOMAIN items :
       /\ \A f \in Filled(FieldsOf(items[i])) :
            items[i].begin <= f.begin /\ f.end <= items[i].end /\ Covers(f)
       /\ LET item == items[i] IN
            /\ item.sup.kind # "EMPTY" => Disjoint(item.nucleus, item.sup)
            /\ item.sub.kind # "EMPTY" => Disjoint(item.nucleus, item.sub)
            /\ {item.sup.kind, item.sub.kind} \cap {"EMPTY"} = {} =>
                 Disjoint(item.sup, item.sub)
  /\ \A i \in DOMAIN nodes : \A f \in Filled(NodeFields(nodes[i])) : Covers(f)
  /\ \A i \in DOMAIN nodes : Ordered(nodes[i].list)

(* The construct a filled field holds lies inside the field, its arguments *)
(* in source order.                                                        *)
BuiltWithin ==
  LET Fields == (UNION {FieldsOf(items[i]) : i \in DOMAIN items})
                  \cup (UNION {NodeFields(nodes[i]) : i \in DOMAIN nodes})
  IN \A f \in {g \in Filled(Fields) : g.node # 0} :
       LET n == nodes[f.node] IN
         /\ n.kind = f.kind
         /\ \A g \in Filled(NodeFields(n)) : f.begin <= g.begin /\ g.end <= f.end
         /\ n.kind \in {"FRACTION", "RADICAL"} /\ n.first.kind # "EMPTY" =>
              n.first.end <= n.last.begin
         /\ Within(n.list, f.begin, f.end)

(* Rows in source order, and the cells of each: every range, an empty      *)
(* cell's point included, follows the one before it; a row has a cell, and *)
(* no more than the environment's columns.                                 *)
RowsOrdered(rows, most) ==
  /\ \A r \in DOMAIN rows : Len(rows[r]) >= 1 /\ (most = 0 \/ Len(rows[r]) <= most)
  /\ \A a, b \in CellsOf(rows) :
       LET x == rows[a[1]][a[2]]
           y == rows[b[1]][b[2]]
       IN /\ x.begin <= x.end
          /\ Within(x.list, x.begin, x.end)
          /\ a[1] < b[1] \/ (a[1] = b[1] /\ a[2] < b[2]) => x.end < y.begin

CellsOrdered ==
  /\ \A i \in DOMAIN stack :
       stack[i].role = "CELL" =>
         RowsOrdered(IF stack[i].cells = << >> THEN stack[i].rows
                     ELSE Append(stack[i].rows, stack[i].cells), Columns(stack[i].env))
  /\ \A i \in DOMAIN nodes : RowsOrdered(nodes[i].rows, 0)

(* sub_first, which orders the scripts layout emits, says what the source  *)
(* says: the subscript was written before the superscript, or alone.       *)
SubFirstFaithful ==
  \A i \in DOMAIN items :
    LET it == items[i] IN
      it.subFirst <=> /\ it.sub.kind # "EMPTY"
                      /\ it.sup.kind = "EMPTY" \/ it.sub.begin < it.sup.begin

-----------------------------------------------------------------------------
(***************************************************************************)
(* The result against the source.                                          *)
(***************************************************************************)
NonBlank(p) == text[p] \notin Blank \cup {"END"}

(* An accepted parse accounts for every token but blanks: each lies in the *)
(* range of an item of the root list.                                      *)
NothingSkipped ==
  result.status = "OK" =>
    /\ pos = Len(text) /\ text[pos] = "END"
    /\ \A p \in DOMAIN text : NonBlank(p) =>
         \E j \in DOMAIN stack[1].list :
           LET it == items[stack[1].list[j]] IN it.begin < p /\ p <= it.end

(* An accepted parse holds no construct with an argument missing, and no   *)
(* atom with neither nucleus nor script: layout dereferences them all.     *)
AcceptedComplete ==
  result.status = "OK" =>
    /\ \A i \in DOMAIN nodes :
         /\ nodes[i].kind \in {"FRACTION", "RADICAL", "ACCENT"} => nodes[i].last.kind # "EMPTY"
         /\ nodes[i].kind = "FRACTION" => nodes[i].first.kind # "EMPTY"
         /\ \E j \in DOMAIN items : \E f \in FieldsOf(items[j]) :
              \/ f.node = i
              \/ \E k \in DOMAIN nodes : \E g \in NodeFields(nodes[k]) : g.node = i
    /\ \A i \in DOMAIN items : items[i].kind = "ATOM" => Filled(FieldsOf(items[i])) # {}

(* A refused source is refused at a token it has: layout's callers point   *)
(* at the range.                                                           *)
ErrorNamesSource ==
  result.status \in {"UNSUPPORTED", "INVALID_UTF8"} =>
    /\ result.begin < result.end /\ result.end <= Len(text)
    /\ text[result.end] # "END"

(* The face the source gives to the letter at p: that of the style switch  *)
(* it is the bare argument of, else of the innermost one whose braced      *)
(* argument it is in.                                                      *)
Before(p) == LET S == {q \in 1 .. p - 1 : text[q] \notin Blank}
             IN IF S = {} THEN 0 ELSE CHOOSE q \in S : \A r \in S : r <= q

SwitchAt(p) == LET q == Before(p) IN IF q # 0 /\ text[q] \in Styles THEN {text[q]} ELSE {}

Braces(t, q, p) == Cardinality({r \in q .. p : text[r] = t})
OpenAt(p) == {q \in 1 .. p - 1 :
                /\ text[q] = "{" /\ SwitchAt(q) # {}
                /\ \A r \in q .. p - 1 : Braces("{", q, r) > Braces("}", q, r)}

SourceFace(p) ==
  IF SwitchAt(p) # {} THEN FaceOf(CHOOSE t \in SwitchAt(p) : TRUE)
  ELSE IF OpenAt(p) = {} THEN "PLAIN"
  ELSE LET inner == CHOOSE q \in OpenAt(p) : \A r \in OpenAt(p) : r <= q
           face  == FaceOf(CHOOSE t \in SwitchAt(inner) : TRUE)
       IN IF face = "TEXT" THEN "FIXED" ELSE face

(* Style switches scope lexically: every letter, wherever it was delivered *)
(* to, has the face of the innermost switch around it in the source, and   *)
(* no outer switch overwrites an inner one.                                *)
LexicalFaces ==
  LET Fields == (UNION {FieldsOf(items[i]) : i \in DOMAIN items})
                  \cup (UNION {NodeFields(nodes[i]) : i \in DOMAIN nodes})
  IN \A f \in Fields : f.kind = "CHAR" /\ text[f.end] \in Letters =>
                         f.face = (IF Math THEN SourceFace(f.end) ELSE "FIXED")

Plain(item) == item.kind = "SPACE" \/ (item.class = "ORD" /\ item.nucleus.kind = "CHAR"
                                         /\ item.sup.kind = "EMPTY" /\ item.sub.kind = "EMPTY")

(* Where the document rules hold, in document mode and inside a \text      *)
(* group, a list only ever gets spaces and bare Ord characters: layout     *)
(* sets it without classes, scripts or inter-atom space.                   *)
DocumentRules ==
  \A i \in DOMAIN stack : ~Math \/ stack[i].text =>
    \A j \in DOMAIN stack[i].list : Plain(items[stack[i].list[j]])

(* "TEXT is \text: document-rule content, not a face rewrite" (parse.h):   *)
(* every list published as text holds only spaces and bare characters.     *)
TextIsDocumentContent ==
  \A i \in DOMAIN items : \A f \in FieldsOf(items[i]) : f.kind = "TEXT" =>
    \A j \in DOMAIN f.list : Plain(items[f.list[j]])

-----------------------------------------------------------------------------
(***************************************************************************)
(* Steps, and the end.                                                     *)
(***************************************************************************)
Kept(old, new) == old.kind # "EMPTY" => new = old

(* No step replaces what a field already holds: an argument, a script or a *)
(* nucleus is written once, and no item or construct is taken back.        *)
WrittenOnce ==
  [][/\ \A i \in DOMAIN items :
          /\ i \in DOMAIN items'
          /\ Kept(items[i].nucleus, items'[i].nucleus)
          /\ Kept(items[i].sup, items'[i].sup) /\ Kept(items[i].sub, items'[i].sub)
     /\ \A i \in DOMAIN nodes :
          /\ i \in DOMAIN nodes'
          /\ Kept(nodes[i].first, nodes'[i].first) /\ Kept(nodes[i].last, nodes'[i].last)
    ]_vars

(* Every source, whatever it holds, is parsed or refused.                  *)
Terminates == <>(result.status # "RUNNING")

-----------------------------------------------------------------------------
(***************************************************************************)
(* What the runs check together.                                           *)
(***************************************************************************)

(* Layout may take the gaps between ranges for the source of the spaces it *)
(* inserts: ranges nest, and an accepted source is covered by them.        *)
RangesFaithful == RangesNest /\ NothingSkipped

(* What is recorded token by token agrees with the source as a whole: the  *)
(* order of the scripts of every item, and the face of every letter.       *)
RecordedAsWritten == SubFirstFaithful /\ LexicalFaces

(* A frame is popped by what opened it, and there are never too many.      *)
FramesInOrder == StackDiscipline /\ DepthBound

(* The verdict is justified: what is accepted is complete, and what is     *)
(* refused is refused at a token of the source.                            *)
VerdictJustified == AcceptedComplete /\ ErrorNamesSource

(* Constructs hold what the source gives them: their arguments in order,   *)
(* rows and cells in order, and the stretch of the innermost cases.        *)
ConstructsFaithful == BuiltWithin /\ CellsOrdered /\ StretchPierces
=============================================================================
