------------------------------- MODULE Facade -------------------------------
(***************************************************************************)
(* The life of render trees and dumps: tex_core_document_compile, the free *)
(* functions and tex_core_render_tree_dump of                              *)
(* packages/tex-core/core/tex_core.c, called by any number of threads.     *)
(*                                                                         *)
(* A step is one allocation or one release of a block, or the end of a     *)
(* stage; txc_parse and txc_layout are what they are to this file: stages  *)
(* that take chunks for an arena and end with a status.                    *)
(***************************************************************************)
EXTENDS Integers, FiniteSets

CONSTANTS
  Threads,     (* the threads that call the engine                         *)
  Blocks,      (* the addresses the C library may return                   *)
  MaxChunks    (* bound on the chunks of one arena                         *)

NULL == "NULL"

ASSUME FacadeAssumption == NULL \notin Blocks /\ MaxChunks \in Nat

VARIABLES
  heap,    (* the blocks that are allocated                                *)
  trees,   (* the render trees in callers' hands: their address and chunks *)
  dumps,   (* the dumps in callers' hands                                  *)
  call,    (* what each thread is at in the engine, and what it holds      *)
  out      (* what each thread's last compile left: its status, the        *)
           (* caller's *tree and error->status                             *)

vars == <<heap, trees, dumps, call, out>>

Statuses == {"OK", "INVALID_ARGUMENT", "INVALID_UTF8", "UNSUPPORTED", "ALLOCATION_FAILED"}

(* compiled, compiled->arena and scratch; status is the local variable,    *)
(* NULL in a call that reports none; read is the tree a dump reads.        *)
Idle == [pc |-> "idle", tree |-> NULL, arena |-> {}, scratch |-> {},
         status |-> NULL, read |-> NULL]

Init ==
  /\ heap = {} /\ trees = {} /\ dumps = {}
  /\ call = [t \in Threads |-> Idle]
  /\ out = [t \in Threads |-> [status |-> NULL, tree |-> NULL, error |-> NULL]]

At(t, pc)  == call[t].pc = pc
Goes(t, c) == call' = [call EXCEPT ![t] = c]
Reports(t, status, tree, error) ==
  out' = [out EXCEPT ![t] = [status |-> status, tree |-> tree, error |-> error]]

(* txc_malloc gives b, which nobody had.                                   *)
Gives(b) == b \in Blocks \ heap /\ heap' = heap \cup {b}
Frees(b) == heap' = heap \ {b}

-----------------------------------------------------------------------------
(***************************************************************************)
(* tex_core_document_compile.                                              *)
(***************************************************************************)

(* No output argument, a NULL source with a length, or no such mode.       *)
Refuse(t) ==
  /\ At(t, "idle")
  /\ Reports(t, "INVALID_ARGUMENT", NULL, "INVALID_ARGUMENT")
  /\ UNCHANGED <<heap, trees, dumps, call>>

CompileStale(t) ==                      (* mutant: *tree is not reset        *)
  /\ At(t, "idle")
  /\ Goes(t, [Idle EXCEPT !.pc = "struct"])
  /\ UNCHANGED <<heap, trees, dumps, out>>

Compile(t) ==
  /\ At(t, "idle")
  /\ Goes(t, [Idle EXCEPT !.pc = "struct"])
  /\ out' = [out EXCEPT ![t].tree = NULL]
  /\ UNCHANGED <<heap, trees, dumps>>

NewTree(t) ==
  /\ At(t, "struct")
  /\ \E b \in Blocks : Gives(b) /\ Goes(t, [call[t] EXCEPT !.pc = "parse", !.tree = b])
  /\ UNCHANGED <<trees, dumps, out>>

NoTree(t) ==
  /\ At(t, "struct")
  /\ Goes(t, Idle)
  /\ Reports(t, "ALLOCATION_FAILED", out[t].tree, "ALLOCATION_FAILED")
  /\ UNCHANGED <<heap, trees, dumps>>

(* A chunk for the arena of the stage: scratch while parsing, the tree's   *)
(* own for layout.                                                         *)
ParseChunk(t) ==
  /\ At(t, "parse") /\ Cardinality(call[t].scratch) < MaxChunks
  /\ \E b \in Blocks : Gives(b) /\ Goes(t, [call[t] EXCEPT !.scratch = @ \cup {b}])
  /\ UNCHANGED <<trees, dumps, out>>

LayoutChunk(t) ==
  /\ At(t, "layout") /\ Cardinality(call[t].arena) < MaxChunks
  /\ \E b \in Blocks : Gives(b) /\ Goes(t, [call[t] EXCEPT !.arena = @ \cup {b}])
  /\ UNCHANGED <<trees, dumps, out>>

(* A stage ends; an error is written where it is found.                    *)
Parsed(t) ==
  /\ At(t, "parse")
  /\ Goes(t, [call[t] EXCEPT !.pc = "layout"])
  /\ UNCHANGED <<heap, trees, dumps, out>>

LaidOut(t) ==
  /\ At(t, "layout")
  /\ Goes(t, [call[t] EXCEPT !.pc = "release", !.status = "OK"])
  /\ UNCHANGED <<heap, trees, dumps, out>>

StageFails(t, status) ==
  /\ \/ At(t, "parse") /\ status \in {"INVALID_UTF8", "UNSUPPORTED", "ALLOCATION_FAILED"}
     \/ At(t, "layout") /\ status \in {"UNSUPPORTED", "ALLOCATION_FAILED"}
  /\ Goes(t, [call[t] EXCEPT !.pc = "release", !.status = status])
  /\ out' = [out EXCEPT ![t].error = status]
  /\ UNCHANGED <<heap, trees, dumps>>

(* txc_arena_release of the scratch arena, whatever the status.            *)
ReleaseTheOther(t) ==                   (* mutant: releases the tree's arena *)
  /\ At(t, "release")
  /\ \E b \in call[t].arena \cap heap : Frees(b)
  /\ UNCHANGED <<trees, dumps, call, out>>

ReleaseScratch(t) ==
  /\ At(t, "release")
  /\ \E b \in call[t].scratch :
       Frees(b) /\ Goes(t, [call[t] EXCEPT !.scratch = @ \ {b}])
  /\ UNCHANGED <<trees, dumps, out>>

Succeed(t) ==
  /\ At(t, "release") /\ call[t].scratch = {} /\ call[t].status = "OK"
  /\ trees' = trees \cup {[handle |-> call[t].tree, chunks |-> call[t].arena]}
  /\ Goes(t, Idle)
  /\ Reports(t, "OK", call[t].tree, "OK")
  /\ UNCHANGED <<heap, dumps>>

GiveUpAtOnce(t) ==                      (* mutant: returns without the free  *)
  /\ At(t, "release") /\ call[t].scratch = {} /\ call[t].status # "OK"
  /\ Goes(t, Idle)
  /\ Reports(t, call[t].status, out[t].tree, out[t].error)
  /\ UNCHANGED <<heap, trees, dumps>>

GiveUp(t) ==
  /\ At(t, "release") /\ call[t].scratch = {} /\ call[t].status # "OK"
  /\ Goes(t, [call[t] EXCEPT !.pc = "discard"])
  /\ UNCHANGED <<heap, trees, dumps, out>>

-----------------------------------------------------------------------------
(***************************************************************************)
(* tex_core_render_tree_free, called by a failing compile or by a caller   *)
(* who has no reader of that tree left.                                    *)
(***************************************************************************)
FreeTree(t, tree) ==
  /\ At(t, "idle") /\ \A u \in Threads : call[u].read # tree.handle
  /\ trees' = trees \ {tree}
  /\ Goes(t, [Idle EXCEPT !.pc = "discard", !.tree = tree.handle, !.arena = tree.chunks])
  /\ UNCHANGED <<heap, dumps, out>>

DiscardChunk(t) ==
  /\ At(t, "discard")
  /\ \E b \in call[t].arena : Frees(b) /\ Goes(t, [call[t] EXCEPT !.arena = @ \ {b}])
  /\ UNCHANGED <<trees, dumps, out>>

DiscardTree(t) ==
  /\ At(t, "discard") /\ call[t].arena = {}
  /\ Frees(call[t].tree)
  /\ Goes(t, Idle)
  /\ IF call[t].status = NULL THEN UNCHANGED out
     ELSE Reports(t, call[t].status, out[t].tree, out[t].error)
  /\ UNCHANGED <<trees, dumps>>

-----------------------------------------------------------------------------
(***************************************************************************)
(* tex_core_render_tree_dump and tex_core_dump_free.  A tree may be dumped *)
(* by several threads at once; Dump.tla is the dump itself.                *)
(***************************************************************************)
DumpTree(t, tree) ==
  /\ At(t, "idle")
  /\ Goes(t, [Idle EXCEPT !.pc = "dump", !.read = tree.handle])
  /\ UNCHANGED <<heap, trees, dumps, out>>

Dumped(t) ==
  /\ At(t, "dump")
  /\ \E b \in Blocks : Gives(b) /\ dumps' = dumps \cup {b}
  /\ Goes(t, Idle)
  /\ UNCHANGED <<trees, out>>

DumpFails(t) ==
  /\ At(t, "dump")
  /\ Goes(t, Idle)
  /\ UNCHANGED <<heap, trees, dumps, out>>

FreeDump(t, d) ==
  /\ At(t, "idle")
  /\ Frees(d) /\ dumps' = dumps \ {d}
  /\ UNCHANGED <<trees, call, out>>

-----------------------------------------------------------------------------
Next ==
  \E t \in Threads :
    \/ Refuse(t) \/ Compile(t) \/ NewTree(t) \/ NoTree(t)
    \/ ParseChunk(t) \/ LayoutChunk(t) \/ Parsed(t) \/ LaidOut(t)
    \/ \E status \in Statuses : StageFails(t, status)
    \/ ReleaseScratch(t) \/ Succeed(t) \/ GiveUp(t)
    \/ DiscardChunk(t) \/ DiscardTree(t)
    \/ \E tree \in trees : FreeTree(t, tree) \/ DumpTree(t, tree)
    \/ Dumped(t) \/ DumpFails(t)
    \/ \E d \in dumps : FreeDump(t, d)

Spec == Init /\ [][Next]_vars
=============================================================================
