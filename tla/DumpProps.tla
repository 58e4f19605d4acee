------------------------------ MODULE DumpProps ------------------------------
(***************************************************************************)
(* What txc_dump owes its caller.                                          *)
(***************************************************************************)
EXTENDS Dump

FrameType == [node : Nat, depth : Nat]

(* Types; the walk's stack never outgrows what was reserved for it.        *)
TypeOK ==
  /\ buffer \in [length : Nat, capacity : Nat] /\ slots \in Nat /\ live \in Nat
  /\ stack \in Seq(FrameType) /\ Len(stack) <= slots
  /\ frame \in FrameType /\ lines \in Seq(FrameType)
  /\ pc \in {"header", "root", "loop", "line", "children", "done"}
  /\ out \in [status : {NULL, "OK", "ALLOCATION_FAILED"}, dump : {NULL, "BUFFER"}, length : Nat]

(* The terminating NUL that follows every write is inside the buffer,      *)
(* whatever the lengths of the lines and the doubling of the capacity.     *)
RoomForNul == buffer.length > 0 => buffer.length < buffer.capacity

(* When the call returns, the caller owns the buffer and nothing else, or  *)
(* nothing at all, wherever memory ran out.                                *)
NothingLeaked ==
  pc = "done" => live = IF out.status = "OK" THEN 1 ELSE 0

(* The reference: a box, then each of its children in source order.        *)
Walk(t) ==
  LET walk[n \in DOMAIN t.kids, d \in 0 .. Len(t.kids)] ==
        <<Frame(n, d)>> \o
          FlattenSeq([i \in DOMAIN t.kids[n] |-> walk[t.kids[n][i], d + 1]])
  IN  walk[1, 0]

Bytes(t, fs) ==
  FoldLeft(LAMBDA sum, f : sum + 2 * f.depth + LineBytes[t.kind[f.node]], HeaderBytes, fs)

(* "Preorder over explicit frames" (dump.c): the dump is the recursive     *)
(* walk, of the reported length, whenever the call succeeds; and what has  *)
(* been written is always a beginning of it.                               *)
Preorder ==
  /\ IsPrefix(lines, Walk(tree))
  /\ out.status = "OK" =>
       /\ lines = Walk(tree)
       /\ out.dump = "BUFFER" /\ out.length = Bytes(tree, lines)
  /\ pc = "done" /\ out.status # "OK" => out.dump = NULL

(* The two growing blocks of txc_dump: neither is written past its end,    *)
(* and neither is left behind.                                             *)
BuffersSound == TypeOK /\ RoomForNul /\ NothingLeaked
=============================================================================
