---------------------------- MODULE CommandLine ----------------------------
(***************************************************************************)
(* The command line (main.c): the arguments one by one, the input read     *)
(* into a buffer that doubles, the compile, the dump, and the exit status. *)
(* An iteration of a loop is a step.  Bytes are counted in units of the    *)
(* read loop: Margin stands for 4096 of them.                              *)
(***************************************************************************)
EXTENDS Engine

CONSTANTS
  Words,       (* the arguments there may be                               *)
  MaxInput,    (* the longest input                                        *)
  Margin,      (* the room a read is given at least                        *)
  RoomMax      (* SIZE_MAX                                                 *)

ASSUME CommandLineAssumption ==
  /\ MaxInput \in Nat /\ Margin \in Nat \ {0} /\ RoomMax \in Nat /\ 2 * Margin <= RoomMax
  /\ \A words \in Words : words \in Seq(STRING)

VARIABLES
  arguments, index,  (* argv after the program's name, and the next one     *)
  path,              (* << >> is NULL, <<name>> a file                      *)
  input, left,       (* the length of the input, and what is not read yet   *)
  used, room,        (* txc_cli_read: used, capacity                       *)
  broken,            (* ferror(stream)                                     *)
  exit               (* the exit status, -1 before                         *)

commandVars == <<arguments, index, path, input, left, used, room, broken, exit>>

CommandInit(words) ==
  /\ arguments = words /\ index = 1 /\ path = << >>
  /\ input = 0 /\ left = 0 /\ used = 0 /\ room = 0 /\ broken = FALSE /\ exit = -1

ModeNames ==
  [word \in {"document", "math-inline", "math-display"} |->
     IF word = "document" THEN "DOCUMENT"
     ELSE IF word = "math-inline" THEN "MATH_INLINE" ELSE "MATH_DISPLAY"]
Inform  == {"--version", "--help"}
Options == Inform \cup {"--mode", "--other"}

Exit(status) == exit' = status /\ pc' = "done"

(* Nothing of the engine, or of the input, changes.                        *)
Parsing == UNCHANGED <<client, heap, starved, given, tree, error, result,
                       arguments, input, left, used, room, broken>>

InformOption ==
  /\ arguments[index] \in Inform
  /\ Exit(0) /\ UNCHANGED <<mode, index, path>>

ModeOption ==
  /\ arguments[index] = "--mode"
  /\ IF index < Len(arguments) /\ arguments[index + 1] \in DOMAIN ModeNames
     THEN mode' = ModeNames[arguments[index + 1]] /\ index' = index + 2 /\ UNCHANGED <<pc, exit>>
     ELSE Exit(2) /\ UNCHANGED <<mode, index>>
  /\ UNCHANGED path

FileArgument ==
  /\ arguments[index] \notin Options
  /\ IF path = << >> THEN path' = <<arguments[index]>> /\ index' = index + 1 /\ UNCHANGED <<pc, exit>>
     ELSE Exit(2) /\ UNCHANGED <<index, path>>
  /\ UNCHANGED mode

UnknownOption ==
  /\ arguments[index] \in Options \ (Inform \cup {"--mode"})
  /\ Exit(2) /\ UNCHANGED <<mode, index, path>>

NextArgument ==
  /\ client = "CLI" /\ pc = "start" /\ index <= Len(arguments)
  /\ InformOption \/ ModeOption \/ FileArgument \/ UnknownOption
  /\ Parsing

(* What there is to read is only known now.                                *)
OpenInput ==
  /\ client = "CLI" /\ pc = "start" /\ index > Len(arguments)
  /\ \/ /\ \E n \in 0 .. MaxInput : input' = n /\ left' = n
        /\ heap' = heap \cup IF path \in {<< >>, <<"-">>} THEN {} ELSE {"STREAM"}
        /\ pc' = "read" /\ UNCHANGED exit
     \/ path \notin {<< >>, <<"-">>} /\ Exit(2) /\ UNCHANGED <<heap, input, left>>
  /\ UNCHANGED <<client, mode, starved, given, tree, error, result,
                 arguments, index, path, used, room, broken>>

-----------------------------------------------------------------------------
(* txc_cli_read.  A read gives up to what it is asked for: less at the end *)
(* of the input or at an error, and only a read of nothing ends the loop.  *)
Reading == UNCHANGED <<client, mode, given, tree, error, result, arguments, index, path, input>>

Short     == room - used < Margin

ReadFailed ==
  Exit(2) /\ heap' = heap \ {"BUFFER", "STREAM"}

Doubles          == room <= RoomMax \div 2

GrowBuffer ==
  /\ client = "CLI" /\ pc = "read" /\ Short
  /\ \/ /\ Doubles
        /\ room' = (IF room > 0 THEN room * 2 ELSE 2 * Margin)
        /\ heap' = heap \cup {"BUFFER"} /\ UNCHANGED <<starved, pc, exit>>
     \/ ReadFailed /\ starved' = TRUE /\ UNCHANGED room
  /\ Reading /\ UNCHANGED <<left, used, broken>>

Got(n) == used' = used + n /\ left' = left - n

EndOfInputAgain ==                      (* mutant: an error is tried again  *)
  IF broken' THEN UNCHANGED <<pc, heap, exit>>
  ELSE pc' = "compile" /\ heap' = heap \ {"STREAM"} /\ UNCHANGED exit

EndOfInputBlind ==                      (* mutant: no ferror                *)
  pc' = "compile" /\ heap' = heap \ {"STREAM"} /\ UNCHANGED exit

EndOfInput ==
  IF broken' THEN ReadFailed
  ELSE pc' = "compile" /\ heap' = heap \ {"STREAM"} /\ UNCHANGED exit

ReadChunk ==
  /\ client = "CLI" /\ pc = "read" /\ ~Short
  /\ \E n \in 0 .. left :
       /\ n <= room - used /\ Got(n)
       /\ \/ n \in {left, room - used} /\ UNCHANGED broken
          \/ n < room - used /\ broken' = TRUE
       /\ IF n = 0 THEN EndOfInput ELSE UNCHANGED <<pc, heap, exit>>
  /\ Reading /\ UNCHANGED <<starved, room>>

-----------------------------------------------------------------------------
CommandCompile ==
  /\ client = "CLI" /\ pc = "compile"
  /\ EngineCompile(mode) /\ pc' = "compiled"
  /\ UNCHANGED <<client, mode, starved, result, commandVars>>

FreeSource ==
  /\ client = "CLI" /\ pc = "compiled"
  /\ heap' = heap \ {"BUFFER"}
  /\ IF tree # << >> THEN pc' = "dump" /\ UNCHANGED exit ELSE Exit(1)
  /\ UNCHANGED <<client, mode, starved, given, tree, error, result,
                 arguments, index, path, input, left, used, room, broken>>

MakeDump ==
  /\ client = "CLI" /\ pc = "dump"
  /\ \/ heap' = heap \cup {"DUMP"} /\ pc' = "output" /\ UNCHANGED <<starved, exit>>
     \/ starved' = TRUE /\ heap' = heap \ {"TREE"} /\ Exit(1)
  /\ UNCHANGED <<client, mode, given, tree, error, result,
                 arguments, index, path, input, left, used, room, broken>>

OutputUnflushed ==                      (* mutant: only the write counts    *)
  /\ client = "CLI" /\ pc = "output"
  /\ \E written, flushed \in BOOLEAN :
       /\ result' = [kind |-> "DUMP", of |-> tree[1], whole |-> written /\ flushed]
       /\ Exit(IF written THEN 0 ELSE 1)
  /\ heap' = heap \ {"DUMP", "TREE"}
  /\ UNCHANGED <<client, mode, starved, given, tree, error,
                 arguments, index, path, input, left, used, room, broken>>

(* The write may come short, and a flush may fail after a whole write.     *)
Output ==
  /\ client = "CLI" /\ pc = "output"
  /\ \E written, flushed \in BOOLEAN :
       /\ result' = [kind |-> "DUMP", of |-> tree[1], whole |-> written /\ flushed]
       /\ Exit(IF written /\ flushed THEN 0 ELSE 1)
  /\ heap' = heap \ {"DUMP", "TREE"}
  /\ UNCHANGED <<client, mode, starved, given, tree, error,
                 arguments, index, path, input, left, used, room, broken>>

Command ==
  \/ NextArgument \/ OpenInput \/ GrowBuffer \/ ReadChunk
  \/ CommandCompile \/ FreeSource \/ MakeDump \/ Output
=============================================================================
