------------------------------- MODULE Engine -------------------------------
(***************************************************************************)
(* The C API as its clients see it (tex_core.h, tex_core.c): one compile,  *)
(* which gives a tree or an error, and the views of the nodes of the tree. *)
(* What is inside is Facade's.                                             *)
(***************************************************************************)
EXTENDS Integers, Sequences

CONSTANTS
  Trees,   (* trees: kids has the children of each node, kind, style and   *)
           (* family say what it is; node 1 is the root                    *)
  Errors   (* errors: a status, the length of the message, a range or not  *)

(* The enumerations of tex_core.h, in the order of their values.           *)
Statuses == <<"INVALID_ARGUMENT", "INVALID_UTF8", "UNSUPPORTED", "ALLOCATION_FAILED">>
Kinds    == <<"HBOX", "GLYPH", "KERN", "RULE">>
Styles   == <<"UPRIGHT", "ITALIC">>
Families == <<"MAIN", "SIZE1", "SIZE2", "SIZE3", "SIZE4", "BOLD", "TEXTIT", "CAL", "BB",
              "SANS", "MONO">>
Modes    == <<"DOCUMENT", "MATH_INLINE", "MATH_DISPLAY">>

Members(s) == {s[k] : k \in DOMAIN s}
Code(s, name) == CHOOSE k \in DOMAIN s : s[k] = name

ASSUME EngineAssumption ==
  /\ \A t \in Trees :
       /\ t.kids \in Seq(Seq(Nat)) /\ t.kids # << >> /\ t.kind[1] = "HBOX"
       /\ \A i \in DOMAIN t.kids :
            /\ t.kind[i] \in Members(Kinds) /\ (t.kind[i] # "HBOX" => t.kids[i] = << >>)
            /\ t.style[i] \in Members(Styles) /\ t.family[i] \in Members(Families)
            /\ \A k \in DOMAIN t.kids[i] : t.kids[i][k] \in DOMAIN t.kids /\ t.kids[i][k] > i
  /\ \A e \in Errors : e.status \in Members(Statuses) /\ e.message \in Nat /\ e.ranged \in BOOLEAN

VARIABLES
  client,   (* who calls: "ES", "JNI", "SWIFT" or "CLI"                     *)
  mode,     (* the mode it asks for                                        *)
  pc,       (* where it is                                                 *)
  heap,     (* the blocks and handles that are not freed                   *)
  starved,  (* history: an allocation failed or was refused                *)
  given,    (* the mode the engine was given, "" before                    *)
  tree, error,  (* its answer: << >> or the tree, << >> or the error        *)
  result    (* what the client's own caller gets                           *)

engineVars == <<client, mode, pc, heap, starved, given, tree, error, result>>

NoResult == [kind |-> "NONE"]

(* tex_core_document_compile: exactly one of a tree, owned by the caller,  *)
(* and an error.                                                           *)
EngineCompile(m) ==
  /\ given' = m
  /\ \/ \E t \in Trees  : tree' = <<t>> /\ heap' = heap \cup {"TREE"} /\ UNCHANGED error
     \/ \E e \in Errors : error' = <<e>> /\ UNCHANGED <<tree, heap>>

(* The views of a node.  A field of a node that only its own value         *)
(* matters of is that field; node 0 stands for a zeroed one.               *)
Opaque == {"x", "y", "width", "ascent", "descent", "italic", "codepoint", "size", "begin", "end"}

View(t, i) ==
  LET glyph    == t.kind[i] = "GLYPH"
      datum(f) ==
        CASE f = "kind"     -> Code(Kinds, t.kind[i])
          [] f = "style"    -> IF glyph THEN Code(Styles, t.style[i]) - 1 ELSE 0
          [] f = "family"   -> IF glyph THEN Code(Families, t.family[i]) - 1 ELSE 0
          [] f = "children" -> Len(t.kids[i])
          [] f \in {"codepoint", "size"} -> IF glyph THEN i ELSE 0
          [] OTHER          -> i
  IN  [f \in Opaque \cup {"kind", "style", "family", "children"} |-> <<f, datum(f)>>]
=============================================================================
