---------------------------- MODULE LeavesProps -----------------------------
(***************************************************************************)
(* What the leaves promise: the scanner by Unicode's table of well-formed  *)
(* sequences and by TeX's paragraphs, the searches by membership, and the  *)
(* printer by TeX's section 102, which reads the digits back.              *)
(***************************************************************************)
EXTENDS Leaves

(* The codepoints of Unicode end at U+10FFFF.                              *)
MaxCodepoint == 1114111

Codepoints == 0 .. MaxCodepoint

TypeOK ==
  /\ source \in Seq(Byte) /\ position \in 0 .. Len(source)
  /\ \A k \in DOMAIN tokens :
       tokens[k] \in [kind : {"CHARACTER", "CONTROL", "SPACE", "PAR", "END"},
                      codepoint : Codepoints, begin : Nat, end : Nat]
  /\ Len(error) <= 1
  /\ low \in 0 .. Len(table) /\ high \in 0 .. Len(table) /\ Len(found) <= 1
  /\ fraction \in Nat /\ delta \in Nat /\ digits \in Seq(0 .. 9)

-----------------------------------------------------------------------------
(* Table 3-7 of the Unicode Standard, the well-formed UTF-8 sequences.     *)
Trailing == 128 .. 191

WellFormed(s) ==
  LET In(k, set) == s[k] \in set IN
  \/ Len(s) = 1 /\ In(1, 0 .. 127)
  \/ Len(s) = 2 /\ In(1, 194 .. 223) /\ In(2, Trailing)
  \/ /\ Len(s) = 3 /\ In(3, Trailing)
     /\ \/ In(1, {224}) /\ In(2, 160 .. 191)
        \/ In(1, (225 .. 236) \cup (238 .. 239)) /\ In(2, Trailing)
        \/ In(1, {237}) /\ In(2, 128 .. 159)
  \/ /\ Len(s) = 4 /\ In(3, Trailing) /\ In(4, Trailing)
     /\ \/ In(1, {240}) /\ In(2, 144 .. 191)
        \/ In(1, 241 .. 243) /\ In(2, Trailing)
        \/ In(1, {244}) /\ In(2, 128 .. 143)

(* The bytes of a codepoint.                                               *)
Encoded(c) ==
  IF c < 128 THEN <<c>>
  ELSE IF c < 2048 THEN <<192 + c \div 64, 128 + (c % 64)>>
  ELSE IF c < 65536 THEN <<224 + c \div 4096, 128 + ((c \div 64) % 64), 128 + (c % 64)>>
  ELSE <<240 + c \div 262144, 128 + ((c \div 4096) % 64), 128 + ((c \div 64) % 64), 128 + (c % 64)>>

Slice(begin, end) == SubSeq(source, begin + 1, end)

(* A character is the codepoint its well-formed bytes encode, a control    *)
(* symbol is one well-formed character.                                    *)
CharactersExact ==
  \A k \in DOMAIN tokens :
    LET t == tokens[k] IN
    /\ t.kind = "CHARACTER" => /\ WellFormed(Slice(t.begin, t.end))
                               /\ Encoded(t.codepoint) = Slice(t.begin, t.end)
    /\ t.kind = "CONTROL" /\ At(source, t.begin + 1) \notin Letters =>
         WellFormed(Slice(t.begin + 1, t.end))

(* An error is where the source goes wrong: no well-formed sequence begins *)
(* there, every byte before it was taken, and its range lies in the source.*)
ErrorsExact ==
  error # << >> =>
    LET e == error[1]
        reached == IF tokens = << >> \/ tokens[1].kind = "END" THEN 0
                   ELSE LET last == IF Ended THEN Len(tokens) - 1 ELSE Len(tokens) IN tokens[last].end
    IN  /\ e.begin < e.end /\ e.end <= Len(source)
        /\ e.status = "INVALID_UTF8" =>
             \A end \in e.begin + 1 .. Len(source) : ~WellFormed(Slice(e.begin, end))
        /\ e.status = "UNSUPPORTED" => Slice(e.begin, Len(source)) = <<Backslash>>
        /\ \A p \in reached .. e.begin - 1 : At(source, p) \in Blanks \cup {Backslash}

(* Tokens tile the source: nothing between two of them is passed over but  *)
(* the blanks after a control word, and after the end there is nothing.    *)
TokensTile ==
  /\ tokens # << >> => tokens[1].begin = 0 \/ error # << >>
  /\ \A k \in 1 .. Len(tokens) - 1 :
       LET t == tokens[k]
           u == tokens[k + 1]
       IN  /\ t.kind # "END" /\ t.begin < t.end /\ t.end <= u.begin
           /\ t.end # u.begin =>
                \/ error # << >> /\ u.kind = "END"
                \/ /\ t.kind = "CONTROL" /\ At(source, t.begin + 1) \in Letters
                   /\ \A p \in t.end .. u.begin - 1 : At(source, p) \in Blanks

(* Two line ends, a CR and the LF after it being one, are in a run of      *)
(* blanks that nothing interrupts.                                         *)
Terminators(begin, end) ==
  {p \in begin .. end - 1 : At(source, p) \in {LineFeed, CarriageReturn}}

Paragraph(begin, end) ==
  \E p, q \in Terminators(begin, end) :
    /\ p < q
    /\ ~(q = p + 1 /\ At(source, p) = CarriageReturn /\ At(source, q) = LineFeed)

(* A blank line always ends the paragraph, after a control word too, and   *)
(* nothing else does: each token PAR is a whole run of blanks with two     *)
(* line ends, and no run of blanks left out or made a space has two.       *)
ParagraphsKept ==
  \A k \in DOMAIN tokens :
    LET t    == tokens[k]
        next == IF k = Len(tokens) THEN position ELSE tokens[k + 1].begin
    IN  /\ t.kind = "PAR" => Paragraph(t.begin, t.end)
        /\ t.kind = "SPACE" => ~Paragraph(t.begin, t.end)
        /\ t.kind \in {"PAR", "SPACE"} /\ t.end < Len(source) => At(source, t.end) \notin Blanks
        /\ error = << >> => ~Paragraph(t.end, next)

-----------------------------------------------------------------------------
(* The bracket: what is left lies in the table, and what is left behind    *)
(* cannot be the key.                                                      *)
Bracket ==
  /\ {low, high} \subseteq 0 .. Len(table)
  /\ \A k \in 1 .. low : Below(table[k], key)
  /\ \A k \in high + 1 .. Len(table) : ~Below(table[k], key)

Entries == {table[k] : k \in DOMAIN table}

(* A search finds the entry of its key if the table has one, be it a       *)
(* prefix of another or not, and nothing if it has none.                   *)
FoundIfPresent ==
  found # << >> /\ running = "SEARCH" =>
    IF key \in Entries THEN found[1] < Len(table) /\ table[found[1] + 1] = key
    ELSE found[1] = Len(table)

-----------------------------------------------------------------------------
(* Section 102: the digits read back, in halves of 2^-17.                  *)
ReadBack(d) ==
  LET read[k \in 1 .. Len(d) + 1] ==
        IF k > Len(d) THEN 0 ELSE (read[k + 1] + d[k] * 2 * One) \div 10
  IN  (read[1] + 1) \div 2

(* "Writes the shortest decimal representation that reads back to the same *)
(* scaled value" (scaled.h): it does, and no shorter one would; with the   *)
(* sign, fourteen digits before the point and a NUL it fits the buffer.    *)
ReadsBack ==
  printed /\ running = "PRINT" =>
    /\ ReadBack(digits) = scaled /\ Len(digits) <= 5

Shortest ==
  printed /\ running = "PRINT" /\ Len(digits) > 1 =>
    LET kept == SubSeq(digits, 1, Len(digits) - 1)
        last == kept[Len(kept)]
    IN  /\ ReadBack(kept) # scaled
        /\ last < 9 => ReadBack([kept EXCEPT ![Len(kept)] = last + 1]) # scaled

(* Every leaf comes to its end.                                            *)
Terminates == <>Finished

(* The decoder accepts what Unicode's table has, as the codepoint it       *)
(* encodes, and refuses the rest where it begins.                          *)
DecodedExactly == CharactersExact /\ ErrorsExact

(* The tokens are the source: none of it is lost, and blank lines survive. *)
TokensFaithful == TypeOK /\ TokensTile /\ ParagraphsKept

(* A search never leaves its key behind, and finds it when it is there.    *)
SearchRight == Bracket /\ FoundIfPresent

(* What is printed reads back, and nothing shorter does.                   *)
PrintedShortest == ReadsBack /\ Shortest
=============================================================================
