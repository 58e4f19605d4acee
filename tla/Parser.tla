------------------------------- MODULE Parser -------------------------------
(***************************************************************************)
(* The math and document parser of packages/tex-core/core/parse.c: one     *)
(* loop over the token stream, an explicit stack of frames instead of C    *)
(* recursion, and an arena of items and constructs linked by pointers.     *)
(*                                                                         *)
(* A step is one iteration of the loop of txc_parse: the handler of one    *)
(* token, run to its end.  Tokens are drawn from Sources as they are       *)
(* scanned; each stands for its class in the command and character tables. *)
(* Source positions count tokens: token number n has the range [n, n + 1). *)
(***************************************************************************)
EXTENDS Integers, Sequences

CONSTANTS
  Sources,     (* the kinds of sources: what tokens, and how many at most  *)
  Names,       (* the environment names it may hold                        *)
  DepthLimit,  (* TXC_GROUP_DEPTH_LIMIT: deepest legal nesting             *)
  Math,        (* TRUE in the two math modes, FALSE in document mode       *)
  MaxColumns   (* TXC_ENV_MATRIX_COLUMNS: columns of the matrix family     *)

VARIABLES
  text,    (* the tokens scanned so far: the source is drawn as it is read *)
  pos,     (* scanner.position: how many of them are consumed              *)
  stack,   (* the frames, root first; the last one is `frame`              *)
  items,   (* arena: every txc_item allocated                              *)
  nodes,   (* arena: every fraction, radical, accent, fence and array      *)
  result   (* status and error of the parse                                *)

vars == <<text, pos, stack, items, nodes, result>>

-----------------------------------------------------------------------------
(***************************************************************************)
(* Tokens: one representative, or two where their rows differ, for every   *)
(* class the parser tells apart.                                           *)
(***************************************************************************)
Letters    == {"a"}
Digits     == {"0"}
TextChars  == Letters \cup Digits \cup {".", ","}
MathChars  == TextChars \cup {"+", "*", "(", ")", "[", "]"}
Reserved   == {"{", "}", "^", "_", "&", "#"}
Characters == MathChars \cup Reserved \cup {"@"}

Spacings   == {"\\;"}
Fractions  == {"\\frac"}
BigOps     == {"\\sum", "\\int"}
Functions  == {"\\sin", "\\lim"}
Limits     == {"\\limits", "\\nolimits"}
Styles     == {"\\mathrm", "\\mathbf", "\\text"}
Accents    == {"\\hat"}
Sizes      == {"\\big", "\\bigl"}
Symbols    == {"\\alpha", "\\|"}
Controls   ==
  Spacings \cup Fractions \cup BigOps \cup Functions \cup Limits \cup Styles
    \cup Accents \cup Sizes \cup Symbols
    \cup {"\\sqrt", "\\left", "\\right", "\\begin", "\\end", "\\\\", "\\foo"}
Delimiters == {".", "(", ")", "[", "]", "\\|", "\\\\"}

(* Bad stands for what the scanner itself rejects: invalid UTF-8, or a      *)
(* backslash at the end of input.  A control word swallows the blanks that *)
(* follow it, and a blank run is one token, so Blank never follows either. *)
Blank == {"SPACE"}
Tokens == Characters \cup Controls \cup Blank \cup {"PAR", "BAD"}
ControlSymbols == Spacings \cup {"\\|", "\\\\"}

(* Atom class of a character, a symbol command or a sized delimiter.       *)
ClassOf(t) ==
  CASE t \in {"+", "*"} -> "BIN"
    [] t \in {"(", "[", "\\bigl"} -> "OPEN"
    [] t \in {")", "]"} -> "CLOSE"
    [] t = ","          -> "PUNCT"
    [] OTHER            -> "ORD"

FaceOf(t) ==
  CASE t = "\\mathrm" -> "RM" [] t = "\\mathbf" -> "BF" [] OTHER -> "TEXT"

LimitsOf(t) ==
  CASE t \in {"\\sum", "\\lim"} -> "DISPLAY"
    [] t = "\\limits"           -> "ALWAYS"
    [] OTHER                    -> "NEVER"

(* The environments, by what the parser reads of their rows: columns (0 is *)
(* unbounded), whether \arraystretch is set, whether there is a strut, and *)
(* the class of the atom.                                                  *)
Environments == {"pmatrix", "matrix", "cases", "smallmatrix"}
Columns(e)   == CASE e = "cases"       -> 2
                  [] e = "smallmatrix" -> 0
                  [] OTHER             -> MaxColumns
Stretches(e) == e = "cases"
Strutted(e)  == e # "smallmatrix"
ArrayClass(e) == IF e \in {"pmatrix", "cases"} THEN "INNER" ELSE "ORD"

ASSUME SourceAssumption   == /\ Sources \subseteq [tokens : SUBSET Tokens, length : Nat]
                             /\ Names \subseteq Environments \cup {"unknown"}
ASSUME BoundAssumption    == /\ DepthLimit \in Nat
                             /\ MaxColumns \in Nat \ {0}
                             /\ Math \in BOOLEAN
-----------------------------------------------------------------------------
(***************************************************************************)
(* Fields, items, constructs and frames.  An index into items or nodes is  *)
(* a pointer; 0 is NULL.                                                   *)
(***************************************************************************)
Empty(at) == [kind |-> "EMPTY", list |-> << >>, node |-> 0, face |-> "NONE",
              begin |-> at, end |-> at]

CharField(face, b, e) == [Empty(b) EXCEPT !.kind = "CHAR", !.face = face, !.end = e]
ListField(list, b, e) == [Empty(b) EXCEPT !.kind = "LIST", !.list = list, !.end = e]
NodeField(kind, n, b, e) == [Empty(b) EXCEPT !.kind = kind, !.node = n, !.end = e]

Atom(class, nucleus) ==
  [kind |-> "ATOM", class |-> class, nucleus |-> nucleus,
   sup |-> Empty(nucleus.end), sub |-> Empty(nucleus.end), subFirst |-> FALSE,
   limits |-> "DISPLAY", begin |-> nucleus.begin, end |-> nucleus.end]

Space(b, e) == [Atom("ORD", Empty(b)) EXCEPT !.kind = "SPACE", !.end = e]

Node(kind, at) == [kind |-> kind, first |-> Empty(at), last |-> Empty(at),
                   list |-> << >>, rows |-> << >>, strut |-> "NONE"]

NoScript  == [kind |-> "NONE", target |-> 0, mark |-> 0]
NoCollect == [kind |-> "NONE", begin |-> 0, node |-> 0, face |-> "NONE",
              second |-> FALSE, item |-> 0, script |-> NoScript]
NoWait    == [kind |-> "NONE", at |-> 0, class |-> "ORD"]

(* txc_frame_init, with what the pushing code passes on.                   *)
Frame(role, face, stretched, open) ==
  [role |-> role, list |-> << >>, face |-> face, stretched |-> stretched,
   open |-> open, script |-> NoScript, pending |-> NoScript,
   collect |-> NoCollect, text |-> FALSE, wait |-> NoWait,
   env |-> "NONE", cellStart |-> 0, cells |-> << >>, rows |-> << >>]

Top            == stack[Len(stack)]
SetTop(stk, f) == [stk EXCEPT ![Len(stk)] = f]
Below(stk)     == SubSeq(stk, 1, Len(stk) - 1)

Collecting(f) == f.collect.kind # "NONE"
Pending(f)    == f.pending.kind # "NONE"
Waiting(f)    == f.wait.kind # "NONE"
Idle(f)       == ~Collecting(f) /\ ~Pending(f)

(* math && !frame->text_mode                                               *)
MathRulesEverywhere(f) == ~f.text       (* mutant: the mode is not asked     *)
MathRules(f) == Math /\ ~f.text

Tail1(f)  == f.list[Len(f.list)]
TailItem(f) == items[Tail1(f)]
HasAtomTail(f) == f.list # << >> /\ TailItem(f).kind = "ATOM"

ScriptFieldSwapped(item, kind) ==       (* mutant: the other script        *)
  IF kind = "SUP" THEN item.sub ELSE item.sup
ScriptField(item, kind) == IF kind = "SUP" THEN item.sup ELSE item.sub
-----------------------------------------------------------------------------
(***************************************************************************)
(* Scanning.                                                               *)
(***************************************************************************)
MayFollow(seen, t) ==
  LET last == IF seen = << >> THEN "NONE" ELSE seen[Len(seen)] IN
  /\ t \in Blank => last \notin Blank \cup (Controls \ ControlSymbols)
  /\ t = "PAR"   => last \notin Blank

Alphabet == UNION {s.tokens : s \in Sources}

(* Some kind of source may begin with what is seen and go on with t.       *)
GoesOn(seen, t) ==
  \E s \in Sources :
    /\ Len(seen) < s.length /\ t \in s.tokens \cup Names \cup {"BAD"}
    /\ \A i \in DOMAIN seen : seen[i] \in s.tokens \cup Names

(* What the next call of txc_scan may return after the tokens seen.        *)
MayCome(seen, t) == t = "END" \/ (t \in Alphabet /\ MayFollow(seen, t) /\ GoesOn(seen, t))
Scannable(seen)  == {t \in Alphabet \cup {"END"} : MayCome(seen, t)}

(* Token t is next: scanned ahead already, or drawn now.                   *)
Upcoming(t) == IF pos < Len(text) THEN t = text[pos + 1] ELSE MayCome(text, t)
With(t)     == IF pos < Len(text) THEN text ELSE Append(text, t)

ScanStuck(t) ==                         (* mutant: a blank does not advance *)
  /\ result.status = "RUNNING"
  /\ Upcoming(t)
  /\ text' = With(t)
  /\ pos'  = IF t = "SPACE" THEN pos ELSE pos + 1

Scan(t) ==
  /\ result.status = "RUNNING"
  /\ Upcoming(t)
  /\ text' = With(t)
  /\ pos'  = pos + 1

(* txc_environment_name: the command and the argument after it, which is a *)
(* name, ill formed, or missing because the source ends.                   *)
ScanNamed(t, name) ==
  /\ result.status = "RUNNING"
  /\ Upcoming(t)
  /\ name # "END" => GoesOn(With(t), name)
  /\ text' = Append(With(t), name)
  /\ pos'  = pos + 2

(* txc_fail: the parse stops and nothing of it is kept.                    *)
Stop(status, what, b, e) ==
  /\ result' = [status |-> status, what |-> what, begin |-> b, end |-> e]
  /\ UNCHANGED <<stack, items, nodes>>

Refuse(what, b, e) == Stop("UNSUPPORTED", what, b, e)
Fail(what)         == Refuse(what, pos, pos + 1)
Malformed(at)      == \E status \in {"UNSUPPORTED", "INVALID_UTF8"} :
                        Stop(status, "malformed token", at, at + 1)
OutOfMemory        == Stop("ALLOCATION_FAILED", "allocation failed", 0, 0)

Becomes(stk, its, nds) ==
  /\ stack' = stk
  /\ items' = its
  /\ nodes' = nds
  /\ UNCHANGED result

(* txc_append: a new item at the end of the top frame's list.              *)
Linked(stk, its)      == SetTop(stk, [stk[Len(stk)] EXCEPT !.list = Append(@, Len(its) + 1)])
AppendItem(stk, item) == \/ OutOfMemory
                         \/ Becomes(Linked(stk, items), Append(items, item), nodes)

-----------------------------------------------------------------------------
(***************************************************************************)
(* Delivery: where a finished construct goes.                              *)
(***************************************************************************)

(* The face a delivered glyph is stamped with: a style switch's own for    *)
(* its immediate argument, else the one the frame inherited.               *)
StampedByFrame(f, field) ==             (* mutant: the switch is not asked   *)
  IF field.face = "PLAIN" /\ f.face # "NONE" THEN [field EXCEPT !.face = f.face] ELSE field

Stamped(f, field) ==
  LET styling == f.collect.kind = "STYLE"
      face    == IF ~styling THEN f.face
                 ELSE IF f.collect.face = "TEXT" THEN "NONE" ELSE f.collect.face
  IN IF field.kind = "CHAR" /\ field.face = "PLAIN" /\ face # "NONE"
       THEN [field EXCEPT !.face = face]
       ELSE field

(* A script of an item set to a field, as the three places of the parser   *)
(* that fill one do it.                                                    *)
ScriptedUnextended(item, script, field) ==  (* mutant: the item keeps its end *)
  LET whole == [field EXCEPT !.begin = script.mark]
  IN IF script.kind = "SUP"
       THEN [item EXCEPT !.sup = whole]
       ELSE [item EXCEPT !.sub = whole, !.subFirst = @ \/ item.sup.kind = "EMPTY"]

Scripted(item, script, field) ==
  LET whole  == [field EXCEPT !.begin = script.mark]
      filled == IF script.kind = "SUP"
                  THEN [item EXCEPT !.sup = whole]
                  ELSE [item EXCEPT !.sub = whole,
                                    !.subFirst = @ \/ item.sup.kind = "EMPTY"]
  IN [filled EXCEPT !.end = field.end]

FillScript(its, script, field) ==
  [its EXCEPT ![script.target] = Scripted(@, script, field)]

(* txc_collect_finish: the completed construct lands on the atom appended  *)
(* at the command, or in the script field the command captured.            *)
Landed(its, c, staged) ==
  IF c.item = 0
    THEN FillScript(its, c.script, staged)
    ELSE [its EXCEPT ![c.item] =
            [@ EXCEPT !.nucleus = [staged EXCEPT !.begin = c.begin],
                      !.sup = Empty(staged.end), !.sub = Empty(staged.end),
                      !.begin = c.begin, !.end = staged.end]]

(* What the finished collector stages, given its last argument.            *)
TextArgument(field) ==
  CASE field.kind = "LIST" -> [field EXCEPT !.kind = "TEXT"]
    [] field.kind = "CHAR" -> [field EXCEPT !.face = "TEXT"]
    [] OTHER               -> field

Staged(c, field) ==
  IF c.kind # "STYLE" THEN NodeField(c.kind, c.node, field.begin, field.end)
  ELSE IF c.face = "TEXT" THEN TextArgument(field) ELSE field

(* txc_deliver, into the top frame of stk.                                 *)
Deliver(stk, its, nds, construct, class) ==
  LET f     == stk[Len(stk)]
      c     == f.collect
      field == Stamped(f, construct)
      filled(part) == IF c.kind = "STYLE" THEN nds
                      ELSE [nds EXCEPT ![c.node] =
                              IF part = 1 THEN [@ EXCEPT !.first = field]
                                          ELSE [@ EXCEPT !.last = field]]
  IN \/ /\ c.kind = "FRACTION" /\ ~c.second
        /\ Becomes(SetTop(stk, [f EXCEPT !.collect.second = TRUE]), its, filled(1))
     \/ /\ Collecting(f) /\ ~(c.kind = "FRACTION" /\ ~c.second)
        /\ Becomes(SetTop(stk, [f EXCEPT !.collect = NoCollect]),
                   Landed(its, c, Staged(c, field)), filled(2))
     \/ /\ ~Collecting(f) /\ Pending(f)
        /\ Becomes(SetTop(stk, [f EXCEPT !.pending = NoScript]),
                   FillScript(its, f.pending, field), nds)
     \/ /\ Idle(f)
        /\ \/ OutOfMemory
           \/ Becomes(Linked(stk, its), Append(its, Atom(class, field)), nds)

Glyph(t, face) == CharField(face, pos, pos + 1)
FaceOfGlyph(t) == IF t \in Letters \cup Digits THEN "PLAIN" ELSE "FIXED"
-----------------------------------------------------------------------------
(***************************************************************************)
(* The end of the source, blanks, and what the scanner rejects.            *)
(***************************************************************************)

(* What the top frame lacks when the source ends, and where it was begun.  *)
Unfinished(f) ==
  IF Waiting(f)             THEN <<"missing delimiter", f.wait.at, f.wait.at + 1>>
  ELSE IF Collecting(f)     THEN <<"missing argument", f.collect.begin, f.collect.begin + 1>>
  ELSE IF f.role = "INDEX"  THEN <<"unclosed radical index", f.open, f.open + 1>>
  ELSE IF Pending(f)        THEN <<"missing argument", f.pending.mark, f.pending.mark + 1>>
  ELSE IF f.role = "FENCED" THEN <<"missing \\right", f.open, f.open + 1>>
  ELSE IF f.role = "CELL"   THEN <<"missing \\end", f.open, f.open + 2>>
  ELSE <<"unclosed group", f.open, f.open + 1>>

AcceptCollecting ==                     (* mutant: the collector not asked   *)
  /\ Scan("END")
  /\ Top.role = "ROOT" /\ ~Waiting(Top)
  /\ Stop("OK", "", 0, 0)

Accept ==
  /\ Scan("END")
  /\ Top.role = "ROOT" /\ Idle(Top) /\ ~Waiting(Top)
  /\ Stop("OK", "", 0, 0)

EndTooEarly ==
  /\ Scan("END")
  /\ ~(Top.role = "ROOT" /\ Idle(Top) /\ ~Waiting(Top))
  /\ LET u == Unfinished(Top) IN Refuse(u[1], u[2], u[3])

ScanError == Scan("BAD") /\ Malformed(pos)

ParagraphBreak == Scan("PAR") /\ Fail("unsupported paragraph break")

MathBlank ==
  /\ Scan("SPACE")
  /\ MathRules(Top)
  /\ UNCHANGED <<stack, items, nodes, result>>

WordSpace ==
  /\ Scan("SPACE")
  /\ ~MathRules(Top)
  /\ AppendItem(stack, Space(pos, pos + 1))

-----------------------------------------------------------------------------
(***************************************************************************)
(* Delimiters a \left, \right or size command waits for.                   *)
(***************************************************************************)
AwaitsDelimiter(t) == Scan(t) /\ MathRules(Top) /\ Waiting(Top)
MathToken(t)       == Scan(t) /\ MathRules(Top) /\ ~Waiting(Top)

Served == [Top EXCEPT !.wait = NoWait]

(* Every push: the nesting bound first, then the frame.                    *)
TooDeep(stk)     == Len(stk) - 1 = DepthLimit

Open(stk, inner, b, e) ==
  IF TooDeep(stk)
    THEN Refuse("group nesting too deep", b, e)
    ELSE OutOfMemory \/ Becomes(Append(stk, inner), items, nodes)

Inside(role, f, open) == Frame(role, f.face, f.stretched, open)

MissingDelimiter(t) ==
  /\ t \in (Characters \cup Controls) \ Delimiters
  /\ AwaitsDelimiter(t)
  /\ Fail("missing delimiter")

OpenFence(t) ==
  /\ t \in Delimiters
  /\ AwaitsDelimiter(t)
  /\ Top.wait.kind = "LEFT"
  /\ Open(SetTop(stack, Served), Inside("FENCED", Top, Top.wait.at),
          Top.wait.at, Top.wait.at + 1)

CloseFence(t) ==
  /\ t \in Delimiters
  /\ AwaitsDelimiter(t)
  /\ Top.wait.kind = "RIGHT"
  /\ \/ OutOfMemory
     \/ Deliver(Below(stack), items,
                Append(nodes, [Node("FENCED", Top.open) EXCEPT !.list = Top.list]),
                NodeField("FENCED", Len(nodes) + 1, Top.open, pos + 1), "INNER")

SizedDelimiter(t) ==
  /\ t \in Delimiters
  /\ AwaitsDelimiter(t)
  /\ Top.wait.kind = "EXPLICIT"
  /\ Deliver(SetTop(stack, Served), items, nodes,
             NodeField("DELIMITER", 0, Top.wait.at, pos + 1), Top.wait.class)

AskForDelimiter(t) ==
  /\ t \in Sizes \cup {"\\left", "\\right"}
  /\ MathToken(t)
  /\ t \notin Sizes => Idle(Top)
  /\ IF t = "\\right" /\ Top.role # "FENCED"
       THEN Fail("unmatched \\right")
       ELSE Becomes(SetTop(stack,
              [Top EXCEPT !.wait =
                [kind |-> CASE t = "\\left" -> "LEFT" [] t = "\\right" -> "RIGHT"
                            [] OTHER -> "EXPLICIT",
                 at |-> pos, class |-> ClassOf(t)]]), items, nodes)

-----------------------------------------------------------------------------
(***************************************************************************)
(* Tokens refused where an argument or a script is due.                    *)
(***************************************************************************)
NeverArguments == Fractions \cup Styles \cup Accents \cup {"\\sqrt"}
NeverScripts   ==
  {"}", "^", "_", "&", "\\\\", "\\left", "\\right", "\\begin", "\\end"}
    \cup Limits \cup Spacings

Refused(f, t) ==
  \/ Collecting(f) /\ t \in NeverArguments \cup NeverScripts
  \/ Pending(f)    /\ t \in NeverScripts
  \/ ~Idle(f)      /\ t = "]" /\ f.role = "INDEX"

MissingArgument(t) ==
  /\ MathToken(t)
  /\ Refused(Top, t)
  /\ Fail("missing argument")

Allowed(t) == MathToken(t) /\ ~Refused(Top, t)

-----------------------------------------------------------------------------
(***************************************************************************)
(* Groups, scripts and radical indices.                                    *)
(***************************************************************************)
OpenIndexAgain ==                       (* mutant: one index after another   *)
  /\ MathToken("[")
  /\ Top.collect.kind = "RADICAL"
  /\ Open(stack, Inside("INDEX", Top, pos), pos, pos + 1)

OpenIndex ==
  /\ MathToken("[")
  /\ Top.collect.kind = "RADICAL" /\ ~Top.collect.second
  /\ Open(stack, Inside("INDEX", Top, pos), pos, pos + 1)

CloseIndex ==
  /\ Allowed("]")
  /\ Top.role = "INDEX"
  /\ LET parent == stack[Len(stack) - 1]
         index  == ListField(Top.list, Top.open, pos + 1)
     IN Becomes(SetTop(Below(stack), [parent EXCEPT !.collect.second = TRUE]), items,
                [nodes EXCEPT ![parent.collect.node] = [@ EXCEPT !.first = index]])

(* The braced argument of a style switch takes the switch's face, or, for  *)
(* \text, the document rules; a pending mark makes the group a script.     *)
GroupFrame(f) ==
  LET styling == f.collect.kind = "STYLE"
      textual == styling /\ f.collect.face = "TEXT"
      face    == IF textual THEN "NONE" ELSE IF styling THEN f.collect.face ELSE f.face
  IN [Frame(IF Pending(f) THEN "SCRIPT" ELSE "GROUP", face, f.stretched, pos)
        EXCEPT !.text = textual, !.script = f.pending]

OpenGroupStillPending ==                (* mutant: the mark is not taken     *)
  MathToken("{") /\ Open(stack, GroupFrame(Top), pos, pos + 1)

OpenGroup ==
  /\ MathToken("{")
  /\ Open(SetTop(stack, [Top EXCEPT !.pending = NoScript]), GroupFrame(Top), pos, pos + 1)

GroupList == ListField(Top.list, Top.open, pos + 1)

CloseText ==
  /\ Scan("}")
  /\ Math /\ Top.text
  /\ Deliver(Below(stack), items, nodes, GroupList, "ORD")

CloseGroupOrIndex ==                    (* mutant: a brace closes an index   *)
  /\ Allowed("}")
  /\ Top.role \in {"GROUP", "INDEX"}
  /\ Deliver(Below(stack), items, nodes, GroupList, "ORD")

CloseGroup ==
  /\ Allowed("}")
  /\ Top.role = "GROUP"
  /\ Deliver(Below(stack), items, nodes, GroupList, "ORD")

CloseScriptOrRoot ==                    (* mutant: a brace closes the root   *)
  /\ Allowed("}")
  /\ Top.role \in {"SCRIPT", "ROOT"}
  /\ Becomes(Below(stack), FillScript(items, Top.script, GroupList), nodes)

CloseScript ==
  /\ Allowed("}")
  /\ Top.role = "SCRIPT"
  /\ Becomes(Below(stack), FillScript(items, Top.script, GroupList), nodes)

UnmatchedBrace ==
  /\ Allowed("}")
  /\ Top.role \notin {"GROUP", "SCRIPT"}
  /\ Fail(CASE Top.role = "FENCED" -> "missing \\right"
            [] Top.role = "INDEX"  -> "unclosed radical index"
            [] Top.role = "CELL"   -> "missing \\end"
            [] Top.role = "ROOT"   -> "unmatched closing brace")

(* `^` and `_` mark the last atom, or an empty one of their own.           *)
ScriptMark(t) ==
  /\ t \in {"^", "_"}
  /\ Allowed(t)
  /\ LET kind == IF t = "^" THEN "SUP" ELSE "SUB"
         Marked(stk, target) ==
           SetTop(stk, [stk[Len(stk)] EXCEPT
             !.pending = [kind |-> kind, target |-> target, mark |-> pos]])
     IN \/ /\ HasAtomTail(Top)
           /\ IF ScriptField(TailItem(Top), kind).kind # "EMPTY"
                THEN Fail("double script")
                ELSE Becomes(Marked(stack, Tail1(Top)), items, nodes)
        \/ /\ ~HasAtomTail(Top)
           /\ \/ OutOfMemory
              \/ Becomes(Marked(Linked(stack, items), Len(items) + 1),
                         Append(items, Atom("ORD", Empty(pos))), nodes)
-----------------------------------------------------------------------------
(***************************************************************************)
(* Environments: cells, rows, \begin and \end.                             *)
(***************************************************************************)

(* txc_environment_cell and txc_environment_row_close.  The next cell's    *)
(* content starts at `start`.                                              *)
CellOf(f) ==
  LET empty == f.list = << >>
  IN [list  |-> f.list,
      begin |-> IF empty THEN f.cellStart ELSE items[Head(f.list)].begin,
      end   |-> IF empty THEN f.cellStart ELSE items[Tail1(f)].end]

WithCellKept(f, start) ==               (* mutant: the list is not reset     *)
  [f EXCEPT !.cells = Append(@, CellOf(f)), !.cellStart = start]

WithCellStale(f, start) ==              (* mutant: the cell start stays      *)
  [f EXCEPT !.cells = Append(@, CellOf(f)), !.list = << >>]

WithCell(f, start) ==
  [f EXCEPT !.cells = Append(@, CellOf(f)), !.list = << >>, !.cellStart = start]

WithRow(f, start) ==
  [WithCell(f, start) EXCEPT !.rows = Append(@, Append(f.cells, CellOf(f))),
                             !.cells = << >>]

AlignmentTab ==
  /\ Allowed("&")
  /\ IF Top.role # "CELL" THEN Fail("misplaced alignment tab")
     ELSE IF Columns(Top.env) # 0 /\ Len(Top.cells) + 1 = Columns(Top.env)
       THEN Fail("extra alignment tab")
     ELSE OutOfMemory \/ Becomes(SetTop(stack, WithCell(Top, pos + 1)), items, nodes)

(* What a row terminator may scan ahead after the tokens seen: a blank run *)
(* or not, then the token that ends the lookahead.                         *)
Lookaheads(seen) ==
  {<<t>> : t \in Scannable(seen) \ Blank}
    \cup {<<b, t>> : b \in Scannable(seen) \cap Blank,
                     t \in Scannable(Append(seen, "SPACE"))}

MisplacedRow == Allowed("\\\\") /\ Top.role # "CELL" /\ Fail("misplaced \\\\")

(* \\ ends the cell and the row, consumes a star that follows, and refuses *)
(* the optional row space that may follow either.                          *)
RowEnded(seen, consumed, look) ==
  /\ text' = seen \o look
  /\ pos'  = consumed
  /\ LET last == look[Len(look)]
         at   == Len(seen) + Len(look) - 1
     IN \/ OutOfMemory
        \/ last = "BAD" /\ Malformed(at)
        \/ last = "["   /\ Refuse("unsupported row spacing", at, at + 1)
        \/ /\ last \notin {"BAD", "["}
           /\ Becomes(SetTop(stack, WithRow(Top, consumed)), items, nodes)

RowTerminator ==
  /\ result.status = "RUNNING"
  /\ Upcoming("\\\\")
  /\ MathRules(Top) /\ ~Waiting(Top) /\ Idle(Top)
  /\ Top.role = "CELL"
  /\ LET seen == With("\\\\") IN
     \E look \in Lookaheads(seen) :
       IF look[Len(look)] # "*"
         THEN RowEnded(seen, pos + 1, look)
         ELSE \E more \in Lookaheads(seen \o look) :
                RowEnded(seen \o look, pos + 1 + Len(look), more)

(* A name that is ill formed, or holds what the scanner rejects.           *)
BadName == Refuse("missing environment name", pos + 1, pos + 2) \/ Malformed(pos + 1)

BeginEnvironment(name) ==
  /\ ScanNamed("\\begin", name)
  /\ MathRules(Top) /\ ~Waiting(Top) /\ Idle(Top)
  /\ CASE name = "END"     -> Fail("missing environment name")
       [] name = "BAD"     -> BadName
       [] name = "unknown" -> Refuse("unsupported environment", pos, pos + 2)
       [] OTHER            ->
            Open(stack, [Inside("CELL", Top, pos) EXCEPT
                           !.env = name, !.stretched = @ \/ Stretches(name),
                           !.cellStart = pos + 2],
                 pos, pos + 2)

(* A row terminator right before \end starts no row.                       *)
LastRow(f) ==
  IF f.cells # << >> \/ f.list # << >> THEN WithRow(f, f.cellStart) ELSE f

Strut(f) == IF ~Strutted(f.env) THEN "NONE"
            ELSE IF f.stretched THEN "STRETCHED" ELSE "PLAIN"

EndEnvironment(name) ==
  /\ ScanNamed("\\end", name)
  /\ MathRules(Top) /\ ~Waiting(Top) /\ Idle(Top)
  /\ CASE name = "END"         -> Fail("missing environment name")
       [] name = "BAD"         -> BadName
       [] name \notin {"END", "BAD"} /\ Top.role # "CELL" ->
            Refuse("unmatched \\end", pos, pos + 2)
       [] name \notin {"END", "BAD"} /\ Top.role = "CELL" /\ name # Top.env ->
            Refuse("mismatched \\end", pos, pos + 2)
       [] name \notin {"END", "BAD"} /\ Top.role = "CELL" /\ name = Top.env ->
            \/ OutOfMemory
            \/ Deliver(Below(stack), items,
                 Append(nodes, [Node("ARRAY", Top.open) EXCEPT
                                  !.rows = LastRow(Top).rows, !.strut = Strut(Top)]),
                 NodeField("ARRAY", Len(nodes) + 1, Top.open, pos + 2),
                 ArrayClass(Top.env))

-----------------------------------------------------------------------------
(***************************************************************************)
(* Commands that take arguments, operators, glyphs.                        *)
(***************************************************************************)
CollectorOf(t) ==
  CASE t \in Fractions -> "FRACTION" [] t \in Accents -> "ACCENT"
    [] t \in Styles    -> "STYLE"    [] OTHER         -> "RADICAL"

(* txc_collect_begin: a pending mark becomes the destination, else an atom *)
(* is appended now, so that children keep source order.                    *)
CollectBegin(kind, face, node, nds) ==
  LET collect == [NoCollect EXCEPT !.kind = kind, !.begin = pos, !.node = node, !.face = face]
      class   == IF kind = "FRACTION" THEN "INNER" ELSE "ORD"
      eager   == [Atom(class, Empty(pos)) EXCEPT !.sup = Empty(pos + 1),
                                                 !.sub = Empty(pos + 1), !.end = pos + 1]
      stk     == Linked(stack, items)
  IN \/ /\ Pending(Top)
        /\ Becomes(SetTop(stack, [Top EXCEPT !.pending = NoScript,
                                             !.collect = [collect EXCEPT !.script = Top.pending]]),
                   items, nds)
     \/ /\ ~Pending(Top)
        /\ Becomes(SetTop(stk, [stk[Len(stk)] EXCEPT
                                  !.collect = [collect EXCEPT !.item = Len(items) + 1]]),
                   Append(items, eager), nds)

StyleCommand(t) ==
  /\ t \in Styles
  /\ Allowed(t)
  /\ \/ ~Pending(Top) /\ OutOfMemory
     \/ CollectBegin("STYLE", FaceOf(t), 0, nodes)

ConstructCommand(t) ==
  /\ t \in NeverArguments \ Styles
  /\ Allowed(t)
  /\ \/ OutOfMemory
     \/ CollectBegin(CollectorOf(t), "NONE", Len(nodes) + 1,
                     Append(nodes, Node(CollectorOf(t), pos + 1)))

(* A big operator is one glyph, a function name a list of letters; as an   *)
(* argument or a script it stays an atom, wrapped in a list.               *)
Operator(t) ==
  /\ t \in BigOps \cup Functions
  /\ Allowed(t)
  /\ LET letter  == Atom("ORD", Glyph(t, "FIXED"))
         its     == IF t \in Functions THEN Append(items, letter) ELSE items
         nucleus == IF t \in Functions THEN ListField(<<Len(its)>>, pos, pos + 1)
                    ELSE Glyph(t, "FIXED")
         op      == [Atom("OP", nucleus) EXCEPT !.limits = LimitsOf(t)]
     IN \/ OutOfMemory
        \/ /\ ~Idle(Top)
           /\ Deliver(stack, Append(its, op), nodes,
                      ListField(<<Len(its) + 1>>, pos, pos + 1), "ORD")
        \/ /\ Idle(Top)
           /\ Becomes(Linked(stack, its), Append(its, op), nodes)

LimitsCommand(t) ==
  /\ t \in Limits
  /\ Allowed(t)
  /\ IF HasAtomTail(Top) /\ TailItem(Top).class = "OP"
       THEN Becomes(stack, [items EXCEPT ![Tail1(Top)] =
                              [@ EXCEPT !.limits = LimitsOf(t), !.end = pos + 1]], nodes)
       ELSE Fail("misplaced limits")

GlyphToken(t) ==
  /\ t \in MathChars \cup Symbols
  /\ Allowed(t)
  /\ ~(t = "[" /\ Top.collect.kind = "RADICAL" /\ ~Top.collect.second)
  /\ ~(t = "]" /\ Top.role = "INDEX")
  /\ Deliver(stack, items, nodes, Glyph(t, FaceOfGlyph(t)), ClassOf(t))

TextGlyph(t) ==
  /\ t \in TextChars
  /\ Scan(t)
  /\ ~MathRules(Top)
  /\ AppendItem(stack, Atom("ORD", Glyph(t, "FIXED")))

SpacingCommand(t) ==
  /\ t \in Spacings
  /\ Scan(t)
  /\ ~(MathRules(Top) /\ Waiting(Top)) /\ Idle(Top)
  /\ AppendItem(stack, Space(pos, pos + 1))

Unsupported(t) ==
  /\ Scan(t)
  /\ \/ t \in {"#", "@", "\\foo"} /\ MathRules(Top) /\ ~Waiting(Top)
     \/ t \in (Characters \cup Controls) \ (TextChars \cup Spacings)
          /\ ~MathRules(Top) /\ ~(Math /\ t = "}")
  /\ Fail("unsupported token")

Named == Names \cup {"END", "BAD"}

Next ==
  \/ Accept \/ EndTooEarly \/ ScanError \/ ParagraphBreak \/ MathBlank \/ WordSpace
  \/ OpenIndex \/ CloseIndex \/ OpenGroup \/ CloseText \/ CloseGroup \/ CloseScript
  \/ UnmatchedBrace \/ AlignmentTab \/ MisplacedRow \/ RowTerminator
  \/ \E name \in Named : BeginEnvironment(name) \/ EndEnvironment(name)
  \/ \E t \in Alphabet :
       \/ MissingDelimiter(t) \/ OpenFence(t) \/ CloseFence(t) \/ SizedDelimiter(t)
       \/ AskForDelimiter(t) \/ MissingArgument(t) \/ ScriptMark(t)
       \/ StyleCommand(t) \/ ConstructCommand(t) \/ Operator(t) \/ LimitsCommand(t)
       \/ GlyphToken(t) \/ TextGlyph(t) \/ SpacingCommand(t) \/ Unsupported(t)

(* txc_parse has returned: nothing more to do.                             *)
Returned == result.status # "RUNNING" /\ UNCHANGED vars

Init ==
  /\ text = << >> /\ pos = 0
  /\ stack = <<Frame("ROOT", "NONE", FALSE, 0)>>
  /\ items = << >> /\ nodes = << >>
  /\ result = [status |-> "RUNNING", what |-> "", begin |-> 0, end |-> 0]

Spec     == Init /\ [][Next \/ Returned]_vars
FairSpec == Spec /\ WF_vars(Next)
=============================================================================
