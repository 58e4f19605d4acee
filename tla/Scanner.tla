------------------------------ MODULE Scanner -------------------------------
(***************************************************************************)
(* The scanner of packages/tex-core/core/token.c: a caller scans a source  *)
(* until it sees END, an error included.  One step is one txc_scan; its    *)
(* branches are the disjuncts.                                             *)
(***************************************************************************)
EXTENDS Utf8

CONSTANT Sources   (* the sources, sequences of bytes                      *)

ASSUME SourcesAssumption == Sources \subseteq Seq(Byte)

VARIABLES
  source, position,  (* the scanner                                        *)
  tokens,            (* the tokens returned                                *)
  error              (* the first error, << >> while there is none         *)

scannerVars == <<source, position, tokens, error>>

Backslash == 92
LineFeed == 10
CarriageReturn == 13
Letters  == (65 .. 90) \cup (97 .. 122)
Blanks   == {32, 9, LineFeed, CarriageReturn}

Here    == At(source, position)
AtEnd   == position >= Len(source)

TokenOf(kind, codepoint, begin, end) ==
  [kind |-> kind, codepoint |-> codepoint, begin |-> begin, end |-> end]

(* txc_blank_run: where a run ends and the line ends in it, a CR taking an *)
(* LF after it along.                                                      *)
RunUnpaired(src, p) ==                  (* mutant: CRLF is two line ends      *)
  LET run[q \in 0 .. Len(src)] ==
        IF q = Len(src) \/ At(src, q) \notin Blanks THEN [end |-> q, lines |-> 0]
        ELSE [end   |-> run[q + 1].end,
              lines |-> run[q + 1].lines + (IF At(src, q) \in {LineFeed, CarriageReturn} THEN 1 ELSE 0)]
  IN  run[p]

BlankRun(src, p) ==
  LET run[q \in 0 .. Len(src)] ==
        IF q = Len(src) \/ At(src, q) \notin Blanks THEN [end |-> q, lines |-> 0]
        ELSE LET paired == At(src, q) = CarriageReturn /\ q + 1 < Len(src)
                             /\ At(src, q + 1) = LineFeed
                 rest == run[IF paired THEN q + 2 ELSE q + 1]
             IN  [end   |-> rest.end,
                  lines |-> rest.lines + (IF At(src, q) \in {LineFeed, CarriageReturn} THEN 1 ELSE 0)]
  IN  run[p]

(* The end of a maximal run of letters.                                    *)
WordEnd(src, p) ==
  CHOOSE q \in p .. Len(src) :
    /\ q = Len(src) \/ At(src, q) \notin Letters
    /\ \A k \in p .. q - 1 : At(src, k) \in Letters

ScannerInit ==
  /\ source \in Sources
  /\ position = 0 /\ tokens = << >> /\ error = << >>

Give(token, next) ==
  /\ tokens' = Append(tokens, token)
  /\ position' = next
  /\ UNCHANGED <<source, error>>

(* A failure returns no token and parks the scanner at the end.            *)
Fail(status, begin, end) ==
  /\ error' = <<[status |-> status, begin |-> begin, end |-> end]>>
  /\ position' = Len(source)
  /\ UNCHANGED <<source, tokens>>

Ended == tokens # << >> /\ tokens[Len(tokens)].kind = "END"

(* The end is returned again and again; the model keeps the first.         *)
ScanEnd ==
  /\ AtEnd /\ ~Ended
  /\ Give(TokenOf("END", 0, Len(source), Len(source)), position)

ScanBlank ==
  /\ ~AtEnd /\ Here \in Blanks
  /\ LET run == BlankRun(source, position) IN
       Give(TokenOf(IF run.lines >= 2 THEN "PAR" ELSE "SPACE", 0, position, run.end), run.end)

(* A control word discards the blanks after it, unless a paragraph ends    *)
(* in them.                                                                *)
Discarded(end) ==
  LET run == BlankRun(source, end) IN IF run.lines < 2 THEN run.end ELSE end

ScanWord ==
  /\ ~AtEnd /\ Here = Backslash /\ position + 1 < Len(source)
  /\ At(source, position + 1) \in Letters
  /\ LET end == WordEnd(source, position + 1) IN
       Give(TokenOf("CONTROL", 0, position, end), Discarded(end))

ScanSymbol ==
  /\ ~AtEnd /\ Here = Backslash /\ position + 1 < Len(source)
  /\ At(source, position + 1) \notin Letters
  /\ LET next == Utf8Next(source, position + 1)
         end  == position + 1 + next.length
     IN  IF next.ok THEN Give(TokenOf("CONTROL", 0, position, end), end)
         ELSE Fail("INVALID_UTF8", position + 1, end)

(* A backslash that ends the source.                                       *)
ScanIncomplete ==
  /\ ~AtEnd /\ Here = Backslash /\ position + 1 = Len(source)
  /\ Fail("UNSUPPORTED", position, Len(source))

ScanCharacter ==
  /\ ~AtEnd /\ Here \notin Blanks \cup {Backslash}
  /\ LET next == Utf8Next(source, position)
         end  == position + next.length
     IN  IF next.ok THEN Give(TokenOf("CHARACTER", next.codepoint, position, end), end)
         ELSE Fail("INVALID_UTF8", position, end)

Scan == ScanEnd \/ ScanBlank \/ ScanWord \/ ScanSymbol \/ ScanIncomplete \/ ScanCharacter
=============================================================================
