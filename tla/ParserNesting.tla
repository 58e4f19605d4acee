--------------------------- MODULE ParserNesting ---------------------------
(***************************************************************************)
(* The parser's stack implements Nesting: the frames above the root are    *)
(* what is open, their length the depth of parse.c.                        *)
(***************************************************************************)
EXTENDS ParserProps

Shape(f) == [role |-> f.role, env |-> f.env]

OpenFrames == [i \in 1 .. Len(stack) - 1 |-> Shape(stack[i + 1])]

Nest == INSTANCE Nesting WITH
          Limit    <- DepthLimit,
          Brackets <- Delimiters,
          Titles   <- Environments,
          open     <- OpenFrames,
          last     <- IF pos = 0 THEN "" ELSE text[pos],
          verdict  <- result.status

(* Every behaviour of txc_parse opens and closes constructs last in, first *)
(* out, each by its own tokens and within the limit, and accepts a source  *)
(* only at its end with every construct closed.                            *)
NestingRefined == Nest!Spec
=============================================================================
