------------------------------ MODULE Clients ------------------------------
(***************************************************************************)
(* The clients of the C API: one call of a binding in one of three         *)
(* languages, or one run of the command line, over the same engine.        *)
(***************************************************************************)
EXTENDS Bindings, CommandLine

vars == <<engineVars, wireVars, commandVars>>

Init ==
  /\ client \in {"ES", "JNI", "SWIFT", "CLI"}
  /\ mode \in IF client = "CLI" THEN {"DOCUMENT"} ELSE Members(Modes)
  /\ pc = "start" /\ heap = {} /\ starved = FALSE /\ given = ""
  /\ tree = << >> /\ error = << >> /\ result = NoResult
  /\ WireInit
  /\ \E words \in IF client = "CLI" THEN Words ELSE {<< >>} : CommandInit(words)

Done == pc = "done" /\ UNCHANGED vars

Next ==
  \/ Binding /\ UNCHANGED commandVars
  \/ Command /\ UNCHANGED wireVars
  \/ Done

Spec     == Init /\ [][Next]_vars
FairSpec == Spec /\ WF_vars(Next)
=============================================================================
