-------------------------- MODULE AllocationProps --------------------------
(***************************************************************************)
(* What memory.c owes the engine and the suites that inject failures.      *)
(***************************************************************************)
EXTENDS Allocation

Stages == {"idle", "load", "swap", "allocate", "count", "uncount", "release"}

CallType == [pc : Stages, block : Blocks \cup {NULL}, current : Int]

(* Types of the seam's state; the hook sets no limit below -1, and a thread *)
(* that is about to decrement read a positive countdown.                   *)
TypeOK ==
  /\ countdown \in Int /\ countdown >= -1
  /\ live \in Int
  /\ heap \subseteq Blocks /\ owned \subseteq Blocks
  /\ call \in [Threads -> CallType]
  /\ \A t \in Threads : At(t, "swap") => call[t].current > 0

(* Every block of the C library's heap has one holder: its caller, or the  *)
(* one call that is allocating, moving or freeing it.  A failing realloc   *)
(* loses nothing, and no call frees what another still works on.           *)
OneHolder ==
  /\ \A b \in Blocks :
       b \in heap <=> b \in owned \/ \E t \in Threads : call[t].block = b
  /\ \A t \in Threads : call[t].block \notin owned
  /\ \A t, u \in Threads :
       call[t].block = call[u].block => t = u \/ call[t].block = NULL

(* Blocks in the heap that the counter does not count.                     *)
Between == {t \in Threads : At(t, "count") \/ At(t, "release")}

(* txc_allocation_outstanding is "the count of blocks currently live"      *)
(* (memory.h): it never counts a block that is not there, lags by one per  *)
(* thread inside txc_malloc or txc_free, and is exact when none is.        *)
Outstanding == live = Cardinality(heap) - Cardinality(Between)

(* The seam as its callers see it.                                         *)
PhaseOf(c) == CASE c.pc \in {"load", "swap"}      -> "asking"
                [] c.pc \in {"allocate", "count"} -> "granted"
                [] OTHER                          -> "resting"

Phases == [t \in Threads |-> PhaseOf(call[t])]

SeamOf == INSTANCE Seam WITH
            Callers <- Threads, budget <- countdown, phase <- Phases

(* "The next `remaining` allocations succeed and every later one fails"    *)
(* (memory.h), with any number of threads: txc_allocation_should_fail      *)
(* spends the budget one at a time and refuses exactly when it is spent.   *)
BudgetSpentOnce == SeamOf!Spec

(* The test hook sets the limit (txc_allocation_limit).                    *)
HookSets == \E n \in -1 .. MaxLimit : SetLimit(n)

(* Once the test hook is quiet no thread is caught in the compare and swap *)
(* loop of txc_allocation_should_fail, and every call returns: a swap that *)
(* loses to another thread's finds the countdown lower, and it is never    *)
(* raised.  While the hook keeps resetting it nothing is promised.         *)
CallsReturn ==
  <>[][~HookSets]_vars => \A t \in Threads : ~At(t, "idle") ~> At(t, "idle")

(* Every block is accounted for: it has one holder, and the counter of     *)
(* live blocks is off by the calls in between and by nothing else.         *)
BlocksAccounted == TypeOK /\ OneHolder /\ Outstanding
=============================================================================
