------------------------------ MODULE Nesting ------------------------------
(***************************************************************************)
(* What nesting means, whatever is nested: constructs are opened and       *)
(* closed last in, first out, each by the tokens that belong to it, never  *)
(* deeper than a limit, and a source is accepted only at its end and with  *)
(* nothing open.                                                           *)
(***************************************************************************)
EXTENDS Integers, Sequences

CONSTANTS
  Limit,      (* how many constructs may be open at once                   *)
  Brackets,   (* the delimiter tokens a fence may have                     *)
  Titles      (* the environment names                                     *)

VARIABLES
  open,      (* the constructs open, outermost first: [role, env]          *)
  last,      (* the last token read                                        *)
  verdict    (* RUNNING, OK, or why the source was refused                 *)

nest == <<open, last, verdict>>

OpenedBy(c, t) ==
  \/ c.role \in {"GROUP", "SCRIPT"} /\ t = "{"
  \/ c.role = "INDEX"  /\ t = "["
  \/ c.role = "FENCED" /\ t \in Brackets
  \/ c.role = "CELL"   /\ t \in Titles /\ t = c.env

ClosedBy(c, t) ==
  \/ c.role \in {"GROUP", "SCRIPT"} /\ t = "}"
  \/ c.role = "INDEX"  /\ t = "]"
  \/ c.role = "FENCED" /\ t \in Brackets
  \/ c.role = "CELL"   /\ t = c.env

Begin == open = << >> /\ verdict = "RUNNING"

Enter ==
  /\ Len(open) < Limit
  /\ \E c \in [role : {"GROUP", "SCRIPT", "INDEX", "FENCED", "CELL"}, env : Titles \cup {"NONE"}] :
       open' = Append(open, c) /\ OpenedBy(c, last')
  /\ UNCHANGED verdict

Leave ==
  /\ open # << >>
  /\ ClosedBy(open[Len(open)], last')
  /\ open' = SubSeq(open, 1, Len(open) - 1)
  /\ UNCHANGED verdict

Read == UNCHANGED <<open, verdict>>

Finish ==
  /\ verdict' \in {"OK", "UNSUPPORTED", "INVALID_UTF8", "ALLOCATION_FAILED"}
  /\ verdict' = "OK" => open = << >> /\ last' = "END"
  /\ UNCHANGED open

Step == verdict = "RUNNING" /\ (Enter \/ Leave \/ Read \/ Finish)

Spec == Begin /\ [][Step]_nest
=============================================================================
