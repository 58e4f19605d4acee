-------------------------------- MODULE Dump --------------------------------
(***************************************************************************)
(* packages/tex-core/core/dump.c: one call of txc_dump on a finished tree, *)
(* the growing buffer, the explicit stack of the walk, and every place     *)
(* where a reallocation may fail.  What a line says is left out; its place *)
(* and its length are kept.                                                *)
(***************************************************************************)
EXTENDS Integers, Sequences, SequencesExt

CONSTANTS
  Trees,       (* the trees to dump: kids maps each node to its children,   *)
               (* kind says which are boxes; node 1 is the root             *)
  HeaderBytes, (* the length of the first line                             *)
  LineBytes,   (* the length of a node's line, by kind                     *)
  FirstBytes,  (* the buffer's first capacity, 256 in the code             *)
  FirstSlots,  (* the stack's first capacity, 64 in the code               *)
  SizeMax,     (* SIZE_MAX                                                 *)
  MaxObject    (* the largest object the C library gives                   *)

ASSUME DumpAssumption ==
  /\ {HeaderBytes, FirstBytes, FirstSlots, SizeMax, MaxObject} \subseteq Nat \ {0}
  /\ MaxObject < SizeMax

VARIABLES
  tree,     (* the tree, which nobody changes                              *)
  buffer,   (* txc_buffer: length and capacity; capacity 0 is data = NULL   *)
  stack,    (* the frames of txc_dump_tree                                 *)
  slots,    (* the stack's capacity; 0 is stack = NULL                     *)
  frame,    (* the frame popped last                                       *)
  lines,    (* the lines in the buffer: node and depth of each             *)
  live,     (* the blocks this call has and has not freed                  *)
  pc,       (* where the call is                                           *)
  out       (* status, and *dump and *length for the caller                *)

vars == <<tree, buffer, stack, slots, frame, lines, live, pc, out>>

NULL == "NULL"

Frame(node, depth) == [node |-> node, depth |-> depth]

Init ==
  /\ tree \in Trees
  /\ buffer = [length |-> 0, capacity |-> 0]
  /\ stack = <<>> /\ slots = 0 /\ frame = Frame(1, 0)
  /\ lines = <<>> /\ live = 0 /\ pc = "header"
  /\ out = [status |-> NULL, dump |-> NULL, length |-> 0]

Wrap(n) == n % (SizeMax + 1)

(* The first of from, 2 from, 4 from, ... that is Enough.                  *)
Doubled(from, Enough(_)) ==
  LET at(k) == Wrap(from * 2^k)
      k == CHOOSE i \in 0 .. SizeMax :
             Enough(at(i)) /\ \A j \in 0 .. i - 1 : ~Enough(at(j))
  IN  at(k)

-----------------------------------------------------------------------------
(* txc_buffer_reserve, and what is written into the room.                  *)
HasRoomExactly(extra) ==                (* mutant: no room for the NUL       *)
  Wrap(buffer.capacity - buffer.length) >= extra

HasRoom(extra) == Wrap(buffer.capacity - buffer.length) > extra

Reserved(extra) ==
  LET first == IF buffer.capacity > 0 THEN buffer.capacity ELSE FirstBytes
  IN  Doubled(first, LAMBDA c : Wrap(c - buffer.length) > extra)

Write(bytes) ==
  \/ /\ HasRoom(bytes)
     /\ buffer' = [buffer EXCEPT !.length = @ + bytes]
     /\ UNCHANGED live
  \/ /\ ~HasRoom(bytes) /\ Reserved(bytes) <= MaxObject
     /\ buffer' = [length |-> buffer.length + bytes, capacity |-> Reserved(bytes)]
     /\ live' = IF buffer.capacity = 0 THEN live + 1 ELSE live

(* txc_dump_stack_reserve, and what is pushed.                             *)
Fits(frames) == Len(stack) + Len(frames) <= slots

Push(frames) ==
  /\ stack' = stack \o frames
  /\ \/ Fits(frames) /\ UNCHANGED <<slots, live>>
     \/ /\ ~Fits(frames) /\ Len(stack \o frames) <= SizeMax \div 2
        /\ slots' = Doubled(IF slots > 0 THEN slots ELSE FirstSlots,
                            LAMBDA c : c >= Len(stack \o frames))
        /\ live' = IF slots = 0 THEN live + 1 ELSE live

-----------------------------------------------------------------------------
Header ==
  /\ pc = "header" /\ pc' = "root"
  /\ Write(HeaderBytes)
  /\ UNCHANGED <<tree, stack, slots, frame, lines, out>>

Root ==
  /\ pc = "root" /\ pc' = "loop"
  /\ Push(<<Frame(1, 0)>>)
  /\ UNCHANGED <<tree, buffer, frame, lines, out>>

Indent ==
  /\ pc = "loop" /\ stack # <<>> /\ pc' = "line"
  /\ frame' = Last(stack) /\ stack' = Front(stack)
  /\ Write(2 * Last(stack).depth)
  /\ UNCHANGED <<tree, slots, lines, out>>

Line ==
  /\ pc = "line"
  /\ Write(LineBytes[tree.kind[frame.node]])
  /\ lines' = Append(lines, frame)
  /\ pc' = IF tree.kind[frame.node] = "HBOX" THEN "children" ELSE "loop"
  /\ UNCHANGED <<tree, stack, slots, frame, out>>

Kids == tree.kids[frame.node]

ReversedNot ==                          (* mutant: pushed in source order    *)
  [i \in DOMAIN Kids |-> Frame(Kids[i], frame.depth + 1)]

Pushed == [i \in DOMAIN Kids |-> Frame(Reverse(Kids)[i], frame.depth + 1)]

Children ==
  /\ pc = "children" /\ pc' = "loop"
  /\ Push(Pushed)
  /\ UNCHANGED <<tree, buffer, frame, lines, out>>

FreedStack == IF slots = 0 THEN 0 ELSE 1
FreedBuffer == IF buffer.capacity = 0 THEN 0 ELSE 1

Finish ==
  /\ pc = "loop" /\ stack = <<>> /\ pc' = "done"
  /\ live' = live - FreedStack
  /\ out' = [status |-> "OK", dump |-> "BUFFER", length |-> buffer.length]
  /\ UNCHANGED <<tree, buffer, stack, slots, frame, lines>>

(* A reservation that needs more memory may fail, at any size.             *)
NeedsMemory ==
  \/ pc = "header" /\ ~HasRoom(HeaderBytes)
  \/ pc = "root" /\ ~Fits(<<Frame(1, 0)>>)
  \/ pc = "loop" /\ stack # <<>> /\ ~HasRoom(2 * Last(stack).depth)
  \/ pc = "line" /\ ~HasRoom(LineBytes[tree.kind[frame.node]])
  \/ pc = "children" /\ ~Fits(Pushed)

Fail ==
  /\ NeedsMemory /\ pc' = "done"
  /\ live' = live - FreedStack - FreedBuffer
  /\ out' = [out EXCEPT !.status = "ALLOCATION_FAILED"]
  /\ UNCHANGED <<tree, buffer, stack, slots, frame, lines>>

Returned == pc = "done" /\ UNCHANGED vars

Next == Header \/ Root \/ Indent \/ Line \/ Children \/ Finish \/ Fail \/ Returned

Spec == Init /\ [][Next]_vars
=============================================================================
