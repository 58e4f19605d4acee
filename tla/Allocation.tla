----------------------------- MODULE Allocation -----------------------------
(***************************************************************************)
(* The allocation seam of packages/tex-core/core/memory.c: txc_malloc,     *)
(* txc_realloc and txc_free called by any number of threads at once, over  *)
(* the two counters of the engine that threads share.                      *)
(*                                                                         *)
(* A step is one access to shared state: an atomic load, a compare and     *)
(* swap, an atomic add, or a call of the C library's allocator, which is   *)
(* atomic to its callers.                                                  *)
(***************************************************************************)
EXTENDS Integers, FiniteSets

CONSTANTS
  Threads,   (* the threads that allocate and free                         *)
  Blocks,    (* the addresses the C library may return                     *)
  MaxLimit   (* bound on the limits the test hook sets                     *)

NULL == "NULL"

ASSUME AllocationAssumption == /\ IsFiniteSet(Threads)
                               /\ IsFiniteSet(Blocks)
                               /\ NULL \notin Blocks
                               /\ MaxLimit \in Nat

VARIABLES
  countdown,   (* txc_allocation_countdown                                 *)
  live,        (* txc_allocation_live                                      *)
  heap,        (* the blocks the C library has given and not taken back    *)
  owned,       (* the blocks callers hold between calls                    *)
  call         (* what each thread is at: pc, the block passed or got,     *)
               (* and the local `current` of txc_allocation_should_fail    *)

vars == <<countdown, live, heap, owned, call>>

Idle        == [pc |-> "idle", block |-> NULL, current |-> 0]
At(t, pc)   == call[t].pc = pc
Goes(t, c)  == call' = [call EXCEPT ![t] = c]
Returns(t)  == Goes(t, Idle)
GoesTo(t, pc) == call' = [call EXCEPT ![t].pc = pc]

Init ==
  /\ countdown = -1 /\ live = 0
  /\ heap = {} /\ owned = {}
  /\ call = [t \in Threads |-> Idle]

(* txc_allocation_limit, from the test that injects failures.              *)
SetLimit(n) == countdown' = n /\ UNCHANGED <<live, heap, owned, call>>

(* txc_malloc; txc_realloc of NULL is the same from here on.               *)
Malloc(t) ==
  /\ At(t, "idle")
  /\ Goes(t, [Idle EXCEPT !.pc = "load"])
  /\ UNCHANGED <<countdown, live, heap, owned>>

(* The block passed belongs to the call until it returns.                  *)
Takes(t, b, pc) ==
  /\ At(t, "idle") /\ b \in owned
  /\ Goes(t, [Idle EXCEPT !.pc = pc, !.block = b])
  /\ owned' = owned \ {b}
  /\ UNCHANGED <<countdown, live, heap>>

Realloc(t, b) == Takes(t, b, "load")
Free(t, b)    == Takes(t, b, "uncount")

-----------------------------------------------------------------------------
(***************************************************************************)
(* txc_allocation_should_fail.                                             *)
(***************************************************************************)

(* NULL returned: the block passed, if any, stays with the caller.         *)
GivesBack(t) == owned' = owned \cup ({call[t].block} \ {NULL}) /\ Returns(t)

(* The countdown was just read into `current`.                             *)
Decide(t) ==
  /\ \/ countdown < 0 /\ GoesTo(t, "allocate") /\ UNCHANGED owned
     \/ countdown = 0 /\ GivesBack(t)
     \/ countdown > 0 /\ Goes(t, [call[t] EXCEPT !.pc = "swap", !.current = countdown])
                      /\ UNCHANGED owned
  /\ UNCHANGED <<countdown, live, heap>>

Load(t) == At(t, "load") /\ Decide(t)

SwapBlindly(t) ==                       (* mutant: a store, nothing compared *)
  /\ At(t, "swap")
  /\ countdown' = call[t].current - 1
  /\ GoesTo(t, "allocate")
  /\ UNCHANGED <<live, heap, owned>>

Swap(t) ==
  /\ At(t, "swap") /\ countdown = call[t].current
  /\ countdown' = call[t].current - 1
  /\ GoesTo(t, "allocate")
  /\ UNCHANGED <<live, heap, owned>>

SwapAgain(t) ==                         (* mutant: current is not read again *)
  At(t, "swap") /\ UNCHANGED vars

(* The weak compare and swap fails and reads again: what another thread or *)
(* the hook has stored, or, when it fails spuriously, what it had.         *)
SwapFails(t) == At(t, "swap") /\ Decide(t)

-----------------------------------------------------------------------------
(***************************************************************************)
(* The C library, and the counter of live blocks.                          *)
(***************************************************************************)
Allocate(t) ==
  /\ At(t, "allocate") /\ call[t].block = NULL
  /\ \E b \in Blocks \ heap :
       heap' = heap \cup {b} /\ Goes(t, [call[t] EXCEPT !.pc = "count", !.block = b])
  /\ UNCHANGED <<countdown, live, owned>>

(* realloc of a block: it grows in place or moves; the counter stays.      *)
Grow(t) ==
  /\ At(t, "allocate") /\ call[t].block # NULL
  /\ \E b \in (Blocks \ heap) \cup {call[t].block} :
       heap' = (heap \ {call[t].block}) \cup {b} /\ owned' = owned \cup {b}
  /\ Returns(t)
  /\ UNCHANGED <<countdown, live>>

LibraryFailsLosing(t) ==                (* mutant: the block passed is lost  *)
  /\ At(t, "allocate")
  /\ Returns(t)
  /\ UNCHANGED <<countdown, live, heap, owned>>

LibraryFails(t) ==
  /\ At(t, "allocate")
  /\ GivesBack(t)
  /\ UNCHANGED <<countdown, live, heap>>

Count(t) ==
  /\ At(t, "count")
  /\ live' = live + 1
  /\ GivesBack(t)
  /\ UNCHANGED <<countdown, heap>>

Uncount(t) ==
  /\ At(t, "uncount")
  /\ live' = live - 1
  /\ GoesTo(t, "release")
  /\ UNCHANGED <<countdown, heap, owned>>

Release(t) ==
  /\ At(t, "release")
  /\ heap' = heap \ {call[t].block}
  /\ Returns(t)
  /\ UNCHANGED <<countdown, live, owned>>

Continue(t) ==
  \/ Load(t) \/ Swap(t) \/ SwapFails(t)
  \/ Allocate(t) \/ Grow(t) \/ LibraryFails(t)
  \/ Count(t) \/ Uncount(t) \/ Release(t)

Next ==
  \/ \E n \in -1 .. MaxLimit : SetLimit(n)
  \/ \E t \in Threads : \/ Malloc(t)
                        \/ \E b \in Blocks : Realloc(t, b) \/ Free(t, b)
                        \/ Continue(t)

Spec == Init /\ [][Next]_vars

(* A thread inside a call keeps running.  A spurious failure of its compare *)
(* and swap changes no variable, so the same fairness also says that only  *)
(* finitely many of them come in a row.  Nothing is assumed of a swap that *)
(* fails because another thread was faster.                                *)
FairSpec == Spec /\ \A t \in Threads : WF_vars(Continue(t))
=============================================================================
