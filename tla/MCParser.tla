------------------------------ MODULE MCParser ------------------------------
(* Small alphabets for the parser: each gathers tokens whose handlers      *)
(* interact, so that short sources reach their interleavings.              *)
EXTENDS ParserNesting

Of(tokens, length) == [tokens |-> tokens, length |-> length]

ScriptTokens      == Of({"a", "{", "}", "^", "_", "\\frac"}, 7)
RadicalTokens     == Of({"a", "[", "]", "^", "\\sqrt", "{", "}"}, 6)
StyleTokens       == Of({"a", "{", "}", "SPACE", "\\mathrm", "\\mathbf", "\\text", "\\hat"}, 6)
OperatorTokens    == Of({"a", "^", "_", "SPACE", "\\sum", "\\sin", "\\limits", "\\foo"}, 6)
FenceTokens       == Of({"(", "{", "@", "^", "\\left", "\\right", "\\bigl", "\\sqrt", "\\\\"}, 6)
EnvironmentTokens == Of({"&", "*", "[", "SPACE", "\\begin", "\\end", "\\\\"}, 8)
DocumentTokens    == Of({"a", "+", "}", "SPACE", "PAR", "BAD", "\\;", "\\alpha"}, 6)
TextTokens        == Of({"a", "{", "}", "\\text", "\\sin", "\\;"}, 4)

ListSources      == {ScriptTokens, StyleTokens, OperatorTokens}
ConstructSources == {RadicalTokens, FenceTokens, EnvironmentTokens}
DocumentSources  == {DocumentTokens}
TextSources      == {TextTokens}
=============================================================================
