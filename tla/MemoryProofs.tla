---------------------------- MODULE MemoryProofs ----------------------------
(***************************************************************************)
(* Proofs about memory.c: the allocation seam, for any number of threads   *)
(* and blocks, and the arena, for every width of size_t, alignment,        *)
(* header, growth schedule and set of sizes.                               *)
(***************************************************************************)
EXTENDS AllocationProps, Arena, FiniteSetTheorems, TLAPS

-----------------------------------------------------------------------------
(***************************************************************************)
(* The seam.                                                               *)
(***************************************************************************)

-----------------------------------------------------------------------------
(* A call holds a block exactly where the code has one in hand.            *)
InHand ==
  \A t \in Threads :
    /\ At(t, "idle") => call[t].block = NULL
    /\ call[t].pc \in {"count", "uncount", "release"} => call[t].block # NULL

(* The inductive invariant.                                                *)
IInv == TypeOK /\ InHand /\ OneHolder /\ Outstanding

(* What a step does to a thread's call, and to no other's.                 *)
Sets(t, c) == call' = [call EXCEPT ![t] = c]

(* A call that changes leaves the other calls alone.                       *)
LEMMA CallSet ==
  ASSUME TypeOK, NEW t \in Threads, NEW c \in CallType, Sets(t, c)
  PROVE  /\ call' \in [Threads -> CallType]
         /\ call'[t] = c
         /\ \A u \in Threads : u # t => call'[u] = call[u]
BY DEF TypeOK, Sets

(* Updating a component of a call is setting the call.                     *)
LEMMA GoesToSets ==
  ASSUME TypeOK, NEW t \in Threads, NEW pc \in Stages, GoesTo(t, pc)
  PROVE  LET c == [call[t] EXCEPT !.pc = pc] IN
           /\ c \in CallType /\ Sets(t, c)
           /\ c.pc = pc /\ c.block = call[t].block /\ c.current = call[t].current
BY DEF TypeOK, GoesTo, Sets, CallType

(* Blocks and threads are finite in number, and so is all that is counted. *)
LEMMA Finite ==
  ASSUME heap \subseteq Blocks
  PROVE  /\ IsFiniteSet(heap) /\ Cardinality(heap) \in Nat
         /\ IsFiniteSet(Between) /\ Cardinality(Between) \in Nat
<1>1. IsFiniteSet(heap) BY AllocationAssumption, FS_Subset
<1>2. Between \subseteq Threads BY DEF Between
<1>3. IsFiniteSet(Between) BY <1>2, AllocationAssumption, FS_Subset
<1> QED BY <1>1, <1>3, FS_CardinalityType

(* How many threads are between a block and its count follows the program  *)
(* counter of the thread that moves.                                       *)
Counts(c) == c.pc \in {"count", "release"}

LEMMA BetweenSet ==
  ASSUME TypeOK, NEW t \in Threads, NEW c \in CallType, Sets(t, c)
  PROVE  /\ (Counts(call[t]) <=> Counts(c)) => Cardinality(Between') = Cardinality(Between)
         /\ ~Counts(call[t]) /\ Counts(c) => Cardinality(Between') = Cardinality(Between) + 1
         /\ Counts(call[t]) /\ ~Counts(c) => Cardinality(Between') = Cardinality(Between) - 1
<1>1. /\ call'[t] = c
      /\ \A u \in Threads : u # t => call'[u] = call[u]
  BY CallSet
<1>2. IsFiniteSet(Between) /\ Cardinality(Between) \in Nat BY Finite DEF TypeOK
<1>3. CASE Counts(call[t]) <=> Counts(c)
  <2>1. Between' = Between BY <1>1, <1>3 DEF Between, Counts, At
  <2> QED BY <2>1, <1>3
<1>4. CASE ~Counts(call[t]) /\ Counts(c)
  <2>1. Between' = Between \cup {t} /\ t \notin Between
    BY <1>1, <1>4 DEF Between, Counts, At
  <2>2. Cardinality(Between \cup {t}) = Cardinality(Between) + 1
    BY <1>2, <2>1, FS_AddElement
  <2> QED BY <2>1, <2>2, <1>4
<1>5. CASE Counts(call[t]) /\ ~Counts(c)
  <2>1. Between' = Between \ {t} /\ t \in Between
    BY <1>1, <1>5 DEF Between, Counts, At
  <2>2. Cardinality(Between \ {t}) = Cardinality(Between) - 1
    BY <1>2, <2>1, FS_RemoveElement
  <2> QED BY <2>1, <2>2, <1>5
<1> QED BY <1>3, <1>4, <1>5

-----------------------------------------------------------------------------
(***************************************************************************)
(* Moving a block between the heap, the callers and a call.                *)
(***************************************************************************)

(* A call that keeps its block in hand leaves every holder what it was.    *)
LEMMA BlockKept ==
  ASSUME IInv, NEW t \in Threads, NEW c \in CallType, Sets(t, c),
         c.block = call[t].block, UNCHANGED <<heap, owned>>
  PROVE  OneHolder'
<1>1. /\ call'[t] = c
      /\ \A u \in Threads : u # t => call'[u] = call[u]
  BY CallSet DEF IInv
<1>2. \A u \in Threads : call'[u].block = call[u].block BY <1>1
<1> QED BY <1>2 DEF IInv, OneHolder

(* A call that returns hands its block, if any, to the caller.             *)
LEMMA BlockReturned ==
  ASSUME IInv, NEW t \in Threads, GivesBack(t), UNCHANGED heap
  PROVE  OneHolder' /\ owned' \subseteq Blocks
<1> DEFINE b == call[t].block
<1>1. Idle \in CallType BY DEF Idle, CallType, Stages
<1>2. /\ call'[t] = Idle
      /\ \A u \in Threads : u # t => call'[u] = call[u]
      /\ call'[t].block = NULL
  BY <1>1, CallSet DEF IInv, GivesBack, Returns, Goes, Sets, Idle
<1>3. owned' = owned \cup ({b} \ {NULL}) BY DEF GivesBack
<1>4. b \in Blocks \cup {NULL} /\ NULL \notin Blocks /\ owned \subseteq Blocks
      /\ heap \subseteq Blocks
  BY AllocationAssumption DEF IInv, TypeOK, CallType
<1>5. /\ \A x \in Blocks :
           x \in heap <=> x \in owned \/ \E u \in Threads : call[u].block = x
      /\ \A u \in Threads : call[u].block \notin owned
      /\ \A u, v \in Threads :
           call[u].block = call[v].block => u = v \/ call[u].block = NULL
  BY DEF IInv, OneHolder
<1>6. owned' \subseteq Blocks BY <1>3, <1>4
<1>7. ASSUME NEW x \in Blocks
      PROVE  x \in heap' <=> x \in owned' \/ \E u \in Threads : call'[u].block = x
  BY <1>2, <1>3, <1>4, <1>5
<1>8. ASSUME NEW u \in Threads PROVE call'[u].block \notin owned'
  BY <1>2, <1>3, <1>4, <1>5
<1>9. ASSUME NEW u \in Threads, NEW v \in Threads, call'[u].block = call'[v].block
      PROVE  u = v \/ call'[u].block = NULL
  BY <1>2, <1>5, <1>9
<1> QED BY <1>6, <1>7, <1>8, <1>9 DEF OneHolder

-----------------------------------------------------------------------------
(***************************************************************************)
(* One lemma per action.                                                   *)
(***************************************************************************)

(* Initially nothing is allocated and nothing counted.                     *)
LEMMA InitIInv == Init => IInv
<1> SUFFICES ASSUME Init PROVE IInv OBVIOUS
<1>1. TypeOK BY DEF Init, TypeOK, CallType, Idle, Stages, At
<1>2. InHand BY DEF Init, InHand, Idle, At
<1>3. OneHolder BY AllocationAssumption DEF Init, OneHolder, Idle
<1>4. Between = {} BY DEF Init, Between, Idle, At
<1>5. heap = {} /\ live = 0 BY DEF Init
<1>6. Outstanding BY <1>4, <1>5, FS_EmptySet DEF Outstanding
<1> QED BY <1>1, <1>2, <1>3, <1>6 DEF IInv

(* The test hook touches no block.                                         *)
LEMMA SetLimitKeeps ==
  ASSUME IInv, NEW n \in -1 .. MaxLimit, SetLimit(n)
  PROVE  IInv'
<1>1. n \in Int /\ n >= -1 BY AllocationAssumption
<1>2. TypeOK' BY <1>1 DEF IInv, TypeOK, SetLimit, At
<1>3. InHand' BY DEF IInv, InHand, SetLimit, At
<1>4. OneHolder' BY DEF IInv, OneHolder, SetLimit
<1>5. Between' = Between BY DEF Between, SetLimit, At
<1>6. Outstanding' BY <1>5 DEF IInv, Outstanding, SetLimit
<1> QED BY <1>2, <1>3, <1>4, <1>6 DEF IInv

(* A step inside a call that leaves heap, holders and counter alone.       *)
LEMMA QuietKeeps ==
  ASSUME IInv, NEW t \in Threads, NEW c \in CallType, Sets(t, c),
         c.block = call[t].block, UNCHANGED <<heap, owned, live>>,
         ~Counts(call[t]), ~Counts(c), c.pc # "idle",
         c.pc = "uncount" => c.block # NULL, c.pc = "swap" => c.current > 0,
         countdown' \in Int, countdown' >= -1
  PROVE  IInv'
<1>1. /\ call' \in [Threads -> CallType] /\ call'[t] = c
      /\ \A u \in Threads : u # t => call'[u] = call[u]
  BY CallSet DEF IInv
<1>2. TypeOK' BY <1>1 DEF IInv, TypeOK, At
<1>3. InHand' BY <1>1 DEF IInv, InHand, At, Counts
<1>4. OneHolder' BY BlockKept
<1>5. Cardinality(Between') = Cardinality(Between) BY BetweenSet DEF IInv
<1>6. Outstanding' BY <1>5 DEF IInv, Outstanding
<1> QED BY <1>2, <1>3, <1>4, <1>6 DEF IInv

(* A return that hands the block back, with the counter set right.         *)
LEMMA ReturnKeeps ==
  ASSUME IInv, NEW t \in Threads, GivesBack(t), UNCHANGED <<countdown, heap>>,
         At(t, "count") => live' = live + 1,
         ~At(t, "count") => live' = live /\ ~At(t, "release")
  PROVE  IInv'
<1>1. Idle \in CallType /\ Sets(t, Idle) /\ ~Counts(Idle) /\ Idle.block = NULL
      /\ Idle.pc = "idle"
  BY DEF Idle, CallType, Stages, GivesBack, Returns, Goes, Sets, Counts
<1>2. /\ call' \in [Threads -> CallType] /\ call'[t] = Idle
      /\ \A u \in Threads : u # t => call'[u] = call[u]
  BY <1>1, CallSet DEF IInv
<1>3. OneHolder' /\ owned' \subseteq Blocks BY BlockReturned
<1>4. live \in Int BY DEF IInv, TypeOK
<1>5. TypeOK' BY <1>1, <1>2, <1>3, <1>4 DEF IInv, TypeOK, At
<1>6. InHand' BY <1>1, <1>2 DEF IInv, InHand, At
<1>7. Cardinality(heap) \in Nat /\ Cardinality(Between) \in Nat
  BY Finite DEF IInv, TypeOK
<1>8. Outstanding'
  <2>1. CASE At(t, "count")
    <3>1. Cardinality(Between') = Cardinality(Between) - 1
      BY <1>1, <2>1, BetweenSet DEF IInv, Counts, At
    <3> QED BY <1>4, <1>7, <2>1, <3>1 DEF IInv, Outstanding
  <2>2. CASE ~At(t, "count")
    <3>1. Cardinality(Between') = Cardinality(Between)
      BY <1>1, <2>2, BetweenSet DEF IInv, Counts, At
    <3> QED BY <2>2, <3>1 DEF IInv, Outstanding
  <2> QED BY <2>1, <2>2
<1> QED BY <1>3, <1>5, <1>6, <1>8 DEF IInv

(* txc_malloc begins with nothing in hand.                                 *)
LEMMA MallocKeeps == ASSUME IInv, NEW t \in Threads, Malloc(t) PROVE IInv'
<1> DEFINE c == [Idle EXCEPT !.pc = "load"]
<1>1. c \in CallType /\ c.block = NULL /\ c.pc = "load"
  BY DEF Idle, CallType, Stages
<1>2. call[t].pc = "idle" /\ call[t].block = NULL /\ Sets(t, c)
  BY DEF Malloc, IInv, InHand, At, Goes, Sets
<1>3. countdown' \in Int /\ countdown' >= -1 BY DEF Malloc, IInv, TypeOK
<1> HIDE DEF c
<1> QED BY <1>1, <1>2, <1>3, QuietKeeps DEF Malloc, Counts

(* txc_realloc and txc_free take their block from the caller.              *)
LEMMA TakesKeeps ==
  ASSUME IInv, NEW t \in Threads, NEW b \in Blocks, NEW s \in {"load", "uncount"},
         Takes(t, b, s)
  PROVE  IInv'
<1> DEFINE c == [Idle EXCEPT !.pc = s, !.block = b]
<1>1. c \in CallType /\ c.block = b /\ c.pc = s
  <2>1. s \in Stages /\ b \in Blocks \cup {NULL} /\ 0 \in Int BY DEF Stages
  <2>2. Idle \in CallType BY DEF Idle, CallType, Stages
  <2> QED BY <2>1, <2>2 DEF CallType
<1>2. call[t].pc = "idle" /\ call[t].block = NULL /\ Sets(t, c)
  BY DEF Takes, IInv, InHand, At, Goes, Sets
<1>3. b \in owned /\ owned' = owned \ {b} /\ UNCHANGED <<countdown, live, heap>>
  BY DEF Takes
<1>4. /\ call' \in [Threads -> CallType] /\ call'[t] = c
      /\ \A u \in Threads : u # t => call'[u] = call[u]
  BY <1>1, <1>2, CallSet DEF IInv
<1> HIDE DEF c
<1>5. TypeOK' BY <1>1, <1>3, <1>4 DEF IInv, TypeOK, At
<1>6. InHand' BY <1>1, <1>4, AllocationAssumption DEF IInv, InHand, At
<1>7. OneHolder'
  <2>1. \A u \in Threads : call[u].block # b BY <1>3 DEF IInv, OneHolder
  <2>2. ASSUME NEW x \in Blocks
        PROVE  x \in heap' <=> x \in owned' \/ \E u \in Threads : call'[u].block = x
    <3>1. x \in heap <=> x \in owned \/ \E u \in Threads : call[u].block = x
      BY DEF IInv, OneHolder
    <3>2. CASE x = b BY <1>1, <1>3, <1>4, <3>1, <3>2
    <3>3. CASE x # b
      BY <1>1, <1>2, <1>3, <1>4, <3>1, <3>3, AllocationAssumption
    <3> QED BY <3>2, <3>3
  <2>3. ASSUME NEW u \in Threads PROVE call'[u].block \notin owned'
    BY <1>1, <1>3, <1>4 DEF IInv, OneHolder
  <2>4. ASSUME NEW u \in Threads, NEW v \in Threads, call'[u].block = call'[v].block
        PROVE  u = v \/ call'[u].block = NULL
    BY <1>1, <1>4, <2>1, <2>4 DEF IInv, OneHolder
  <2> QED BY <2>2, <2>3, <2>4 DEF OneHolder
<1>8. ~Counts(call[t]) /\ ~Counts(c) BY <1>1, <1>2 DEF Counts
<1>9. Cardinality(Between') = Cardinality(Between)
  BY <1>1, <1>2, <1>8, BetweenSet DEF IInv
<1>10. Outstanding' BY <1>3, <1>9 DEF IInv, Outstanding
<1> QED BY <1>5, <1>6, <1>7, <1>10 DEF IInv

(* The decision of txc_allocation_should_fail, from a fresh read.          *)
LEMMA DecideKeeps ==
  ASSUME IInv, NEW t \in Threads, call[t].pc \in {"load", "swap"}, Decide(t)
  PROVE  IInv'
<1>0. /\ UNCHANGED <<countdown, live, heap>> /\ countdown \in Int /\ countdown >= -1
      /\ ~Counts(call[t]) /\ call[t] \in CallType
  BY DEF Decide, IInv, TypeOK, Counts
<1>1. CASE countdown < 0
  <2> DEFINE c == [call[t] EXCEPT !.pc = "allocate"]
  <2>1. GoesTo(t, "allocate") /\ UNCHANGED owned BY <1>1, <1>0 DEF Decide
  <2>2. c \in CallType /\ Sets(t, c) /\ c.pc = "allocate" /\ c.block = call[t].block
    BY <2>1, GoesToSets DEF IInv, Stages
  <2> HIDE DEF c
  <2> QED BY <1>0, <2>1, <2>2, QuietKeeps DEF Counts
<1>2. CASE countdown = 0
  <2>1. GivesBack(t) BY <1>2, <1>0 DEF Decide
  <2>2. ~At(t, "count") /\ ~At(t, "release") BY DEF At
  <2> QED BY <1>0, <2>1, <2>2, ReturnKeeps
<1>3. CASE countdown > 0
  <2> DEFINE c == [call[t] EXCEPT !.pc = "swap", !.current = countdown]
  <2>1. Sets(t, c) /\ UNCHANGED owned BY <1>3, <1>0 DEF Decide, Goes, Sets
  <2>2. c \in CallType /\ c.pc = "swap" /\ c.block = call[t].block /\ c.current > 0
    BY <1>0, <1>3 DEF CallType, Stages
  <2> HIDE DEF c
  <2> QED BY <1>0, <2>1, <2>2, QuietKeeps DEF Counts
<1> QED BY <1>0, <1>1, <1>2, <1>3

(* The compare and swap succeeds: the countdown stays above -1.            *)
LEMMA SwapKeeps == ASSUME IInv, NEW t \in Threads, Swap(t) PROVE IInv'
<1> DEFINE c == [call[t] EXCEPT !.pc = "allocate"]
<1>1. c \in CallType /\ Sets(t, c) /\ c.pc = "allocate" /\ c.block = call[t].block
  BY GoesToSets DEF Swap, IInv, Stages
<1>2. call[t].pc = "swap" /\ call[t].current > 0 /\ call[t].current \in Int
  BY DEF Swap, At, IInv, TypeOK, CallType
<1>3. countdown' = call[t].current - 1 /\ UNCHANGED <<live, heap, owned>> BY DEF Swap
<1>4. countdown' \in Int /\ countdown' >= -1 BY <1>2, <1>3
<1> HIDE DEF c
<1> QED BY <1>1, <1>2, <1>3, <1>4, QuietKeeps DEF Counts

(* malloc gives a block that was nobody's.                                 *)
LEMMA AllocateKeeps == ASSUME IInv, NEW t \in Threads, Allocate(t) PROVE IInv'
<1>1. PICK b \in Blocks \ heap :
        heap' = heap \cup {b} /\ Goes(t, [call[t] EXCEPT !.pc = "count", !.block = b])
  BY DEF Allocate
<1> DEFINE c == [call[t] EXCEPT !.pc = "count", !.block = b]
<1>2. c \in CallType /\ c.pc = "count" /\ c.block = b /\ c.current = call[t].current
  BY DEF IInv, TypeOK, CallType, Stages
<1>3. /\ Sets(t, c) /\ UNCHANGED <<countdown, live, owned>>
      /\ call[t].pc = "allocate" /\ call[t].block = NULL
  BY <1>1 DEF Allocate, At, Goes, Sets
<1>4. /\ call' \in [Threads -> CallType] /\ call'[t] = c
      /\ \A u \in Threads : u # t => call'[u] = call[u]
  BY <1>2, <1>3, CallSet DEF IInv
<1> HIDE DEF c
<1>5. TypeOK' BY <1>1, <1>2, <1>3, <1>4 DEF IInv, TypeOK, At
<1>6. InHand' BY <1>2, <1>4, AllocationAssumption DEF IInv, InHand, At
<1>7. OneHolder'
  <2>1. b \notin owned /\ \A u \in Threads : call[u].block # b BY <1>1 DEF IInv, OneHolder
  <2>2. ASSUME NEW x \in Blocks
        PROVE  x \in heap' <=> x \in owned' \/ \E u \in Threads : call'[u].block = x
    <3>1. x \in heap <=> x \in owned \/ \E u \in Threads : call[u].block = x
      BY DEF IInv, OneHolder
    <3> QED BY <1>1, <1>2, <1>3, <1>4, <3>1, AllocationAssumption
  <2>3. ASSUME NEW u \in Threads PROVE call'[u].block \notin owned'
    BY <1>2, <1>3, <1>4, <2>1 DEF IInv, OneHolder
  <2>4. ASSUME NEW u \in Threads, NEW v \in Threads, call'[u].block = call'[v].block
        PROVE  u = v \/ call'[u].block = NULL
    BY <1>2, <1>4, <2>1, <2>4 DEF IInv, OneHolder
  <2> QED BY <2>2, <2>3, <2>4 DEF OneHolder
<1>8. Cardinality(Between') = Cardinality(Between) + 1
  BY <1>2, <1>3, BetweenSet DEF IInv, Counts
<1>9. Cardinality(heap') = Cardinality(heap) + 1
  <2>1. IsFiniteSet(heap) BY Finite DEF IInv, TypeOK
  <2> QED BY <1>1, <2>1, FS_AddElement
<1>10. Cardinality(heap) \in Nat /\ Cardinality(Between) \in Nat
  BY Finite DEF IInv, TypeOK
<1>11. Outstanding' BY <1>3, <1>8, <1>9, <1>10 DEF IInv, TypeOK, Outstanding
<1> QED BY <1>5, <1>6, <1>7, <1>11 DEF IInv

(* realloc replaces a block by one that was nobody's, or by itself.        *)
LEMMA GrowKeeps == ASSUME IInv, NEW t \in Threads, Grow(t) PROVE IInv'
<1> DEFINE old == call[t].block
<1>1. PICK b \in (Blocks \ heap) \cup {old} :
        heap' = (heap \ {old}) \cup {b} /\ owned' = owned \cup {b}
  BY DEF Grow
<1>2. /\ UNCHANGED <<countdown, live>> /\ call[t].pc = "allocate" /\ old # NULL
      /\ Sets(t, Idle)
  BY DEF Grow, At, Returns, Goes, Sets
<1>3. Idle \in CallType /\ Idle.block = NULL /\ Idle.pc = "idle"
  BY DEF Idle, CallType, Stages
<1>4. /\ call' \in [Threads -> CallType] /\ call'[t] = Idle
      /\ \A u \in Threads : u # t => call'[u] = call[u]
  BY <1>2, <1>3, CallSet DEF IInv
<1>5. old \in Blocks /\ old \in heap /\ old \notin owned
  BY <1>2 DEF IInv, TypeOK, CallType, OneHolder
<1>6. b \in Blocks /\ b \notin owned /\ (b = old \/ b \notin heap)
  BY <1>1, <1>5 DEF IInv, OneHolder
<1>7. TypeOK' BY <1>1, <1>2, <1>3, <1>4, <1>6 DEF IInv, TypeOK, At
<1>8. InHand' BY <1>3, <1>4 DEF IInv, InHand, At
<1>9. \A u \in Threads : u # t => call[u].block # old /\ call[u].block # b
  BY <1>2, <1>5, <1>6 DEF IInv, OneHolder
<1> HIDE DEF old
<1>10. OneHolder'
  <2>2. ASSUME NEW x \in Blocks
        PROVE  x \in heap' <=> x \in owned' \/ \E u \in Threads : call'[u].block = x
    <3>1. x \in heap <=> x \in owned \/ \E u \in Threads : call[u].block = x
      BY DEF IInv, OneHolder
    <3>2. CASE x = b BY <1>1, <3>2
    <3>3. CASE x # b /\ x = old
      <4>1. x \notin heap' /\ x \notin owned' BY <1>1, <1>5, <3>3
      <4>2. \A u \in Threads : call'[u].block # x
        BY <1>3, <1>4, <1>5, <1>9, <3>3, AllocationAssumption
      <4> QED BY <4>1, <4>2
    <3>4. CASE x # b /\ x # old
      <4>1. (x \in heap' <=> x \in heap) /\ (x \in owned' <=> x \in owned) BY <1>1, <3>4
      <4>2. \A u \in Threads : call'[u].block = x <=> call[u].block = x
        BY <1>3, <1>4, <3>4, AllocationAssumption DEF old
      <4> QED BY <3>1, <4>1, <4>2
    <3> QED BY <3>2, <3>3, <3>4
  <2>3. ASSUME NEW u \in Threads PROVE call'[u].block \notin owned'
    <3>1. call[u].block \notin owned BY DEF IInv, OneHolder
    <3>2. NULL \notin owned' BY <1>1, <1>6, AllocationAssumption DEF IInv, TypeOK
    <3> QED BY <1>1, <1>3, <1>4, <1>9, <3>1, <3>2
  <2>4. ASSUME NEW u \in Threads, NEW v \in Threads, call'[u].block = call'[v].block
        PROVE  u = v \/ call'[u].block = NULL
    BY <1>3, <1>4, <2>4 DEF IInv, OneHolder
  <2> QED BY <2>2, <2>3, <2>4 DEF OneHolder
<1>11. Cardinality(Between') = Cardinality(Between)
  BY <1>2, <1>3, BetweenSet DEF IInv, Counts
<1>12. Cardinality(heap') = Cardinality(heap)
  <2>1. IsFiniteSet(heap) /\ Cardinality(heap) \in Nat BY Finite DEF IInv, TypeOK
  <2>2. IsFiniteSet(heap \ {old}) /\ Cardinality(heap \ {old}) = Cardinality(heap) - 1
    BY <1>5, <2>1, FS_RemoveElement
  <2>3. b \notin heap \ {old} BY <1>6
  <2>4. Cardinality((heap \ {old}) \cup {b}) = Cardinality(heap \ {old}) + 1
    BY <2>2, <2>3, FS_AddElement
  <2> QED BY <1>1, <2>1, <2>2, <2>4
<1>13. Outstanding' BY <1>2, <1>11, <1>12 DEF IInv, Outstanding
<1> QED BY <1>7, <1>8, <1>10, <1>13 DEF IInv
(* The C library has nothing to give.                                      *)
LEMMA LibraryFailsKeeps == ASSUME IInv, NEW t \in Threads, LibraryFails(t) PROVE IInv'
<1>1. GivesBack(t) /\ UNCHANGED <<countdown, live, heap>> /\ call[t].pc = "allocate"
  BY DEF LibraryFails, At
<1>2. ~At(t, "count") /\ ~At(t, "release") BY <1>1 DEF At
<1> QED BY <1>1, <1>2, ReturnKeeps

(* The counter catches up with the block just got.                         *)
LEMMA CountKeeps == ASSUME IInv, NEW t \in Threads, Count(t) PROVE IInv'
<1>1. /\ GivesBack(t) /\ UNCHANGED <<countdown, heap>>
      /\ At(t, "count") /\ live' = live + 1
  BY DEF Count
<1> QED BY <1>1, ReturnKeeps

(* txc_free counts first and releases then.                                *)
LEMMA UncountKeeps == ASSUME IInv, NEW t \in Threads, Uncount(t) PROVE IInv'
<1> DEFINE c == [call[t] EXCEPT !.pc = "release"]
<1>1. c \in CallType /\ Sets(t, c) /\ c.pc = "release" /\ c.block = call[t].block
  BY GoesToSets DEF Uncount, IInv, Stages
<1>2. /\ call[t].pc = "uncount" /\ live' = live - 1
      /\ UNCHANGED <<countdown, heap, owned>>
  BY DEF Uncount, At
<1>3. /\ call' \in [Threads -> CallType] /\ call'[t] = c
      /\ \A u \in Threads : u # t => call'[u] = call[u]
  BY <1>1, CallSet DEF IInv
<1> HIDE DEF c
<1>4. TypeOK' BY <1>1, <1>2, <1>3 DEF IInv, TypeOK, At
<1>5. InHand' BY <1>1, <1>2, <1>3 DEF IInv, InHand, At
<1>6. OneHolder' BY <1>1, <1>2, BlockKept
<1>7. Cardinality(Between') = Cardinality(Between) + 1
  BY <1>1, <1>2, BetweenSet DEF IInv, Counts
<1>8. Cardinality(heap) \in Nat /\ Cardinality(Between) \in Nat
  BY Finite DEF IInv, TypeOK
<1>9. Outstanding' BY <1>2, <1>7, <1>8 DEF IInv, TypeOK, Outstanding
<1> QED BY <1>4, <1>5, <1>6, <1>9 DEF IInv

(* The block released was in the heap and nobody else's.                   *)
LEMMA ReleaseKeeps == ASSUME IInv, NEW t \in Threads, Release(t) PROVE IInv'
<1> DEFINE old == call[t].block
<1>1. /\ UNCHANGED <<countdown, live, owned>> /\ call[t].pc = "release"
      /\ heap' = heap \ {old} /\ Sets(t, Idle)
  BY DEF Release, At, Returns, Goes, Sets
<1>2. Idle \in CallType /\ Idle.block = NULL /\ Idle.pc = "idle" /\ ~Counts(Idle)
  BY DEF Idle, CallType, Stages, Counts
<1>3. /\ call' \in [Threads -> CallType] /\ call'[t] = Idle
      /\ \A u \in Threads : u # t => call'[u] = call[u]
  BY <1>1, <1>2, CallSet DEF IInv
<1>4. old # NULL BY <1>1 DEF IInv, InHand
<1>5. old \in Blocks /\ old \in heap /\ old \notin owned
  BY <1>4 DEF IInv, TypeOK, CallType, OneHolder
<1>6. \A u \in Threads : u # t => call[u].block # old
  BY <1>4 DEF IInv, OneHolder
<1> HIDE DEF old
<1>7. TypeOK' BY <1>1, <1>2, <1>3 DEF IInv, TypeOK, At
<1>8. InHand' BY <1>2, <1>3 DEF IInv, InHand, At
<1>9. OneHolder'
  <2>1. ASSUME NEW x \in Blocks
        PROVE  x \in heap' <=> x \in owned' \/ \E u \in Threads : call'[u].block = x
    <3>1. x \in heap <=> x \in owned \/ \E u \in Threads : call[u].block = x
      BY DEF IInv, OneHolder
    <3>2. CASE x = old
      <4>1. \A u \in Threads : call'[u].block # x BY <1>2, <1>3, <1>4, <1>6, <3>2
      <4> QED BY <1>1, <1>5, <3>2, <4>1
    <3>3. CASE x # old
      <4>1. \A u \in Threads : call'[u].block = x <=> call[u].block = x
        BY <1>2, <1>3, <3>3, AllocationAssumption DEF old
      <4> QED BY <1>1, <3>1, <3>3, <4>1
    <3> QED BY <3>2, <3>3
  <2>2. ASSUME NEW u \in Threads PROVE call'[u].block \notin owned'
    <3>1. NULL \notin owned BY AllocationAssumption DEF IInv, TypeOK
    <3> QED BY <1>1, <1>2, <1>3, <3>1 DEF IInv, OneHolder
  <2>3. ASSUME NEW u \in Threads, NEW v \in Threads, call'[u].block = call'[v].block
        PROVE  u = v \/ call'[u].block = NULL
    BY <1>2, <1>3, <2>3 DEF IInv, OneHolder
  <2> QED BY <2>1, <2>2, <2>3 DEF OneHolder
<1>10. Cardinality(Between') = Cardinality(Between) - 1
  BY <1>1, <1>2, BetweenSet DEF IInv, Counts
<1>11. Cardinality(heap') = Cardinality(heap) - 1
  <2>1. IsFiniteSet(heap) BY Finite DEF IInv, TypeOK
  <2> QED BY <1>1, <1>5, <2>1, FS_RemoveElement
<1>12. Cardinality(heap) \in Nat /\ Cardinality(Between) \in Nat
  BY Finite DEF IInv, TypeOK
<1>13. Outstanding' BY <1>1, <1>10, <1>11, <1>12 DEF IInv, TypeOK, Outstanding
<1> QED BY <1>7, <1>8, <1>9, <1>13 DEF IInv

-----------------------------------------------------------------------------
(* Every step keeps the invariant.                                         *)
LEMMA NextKeeps == ASSUME IInv, [Next]_vars PROVE IInv'
<1>1. CASE UNCHANGED vars
  <2>1. Between' = Between BY <1>1 DEF vars, Between, At
  <2> QED BY <1>1, <2>1 DEF vars, IInv, TypeOK, InHand, OneHolder, Outstanding, At
<1>2. ASSUME NEW n \in -1 .. MaxLimit, SetLimit(n) PROVE IInv'
  BY <1>2, SetLimitKeeps
<1>3. ASSUME NEW t \in Threads, Malloc(t) PROVE IInv' BY <1>3, MallocKeeps
<1>4. ASSUME NEW t \in Threads, NEW b \in Blocks, Realloc(t, b) \/ Free(t, b)
      PROVE  IInv'
  BY <1>4, TakesKeeps DEF Realloc, Free
<1>5. ASSUME NEW t \in Threads, Continue(t) PROVE IInv'
  <2>1. CASE Load(t) BY <2>1, DecideKeeps DEF Load, At
  <2>2. CASE Swap(t) BY <2>2, SwapKeeps
  <2>3. CASE SwapFails(t) BY <2>3, DecideKeeps DEF SwapFails, At
  <2>4. CASE Allocate(t) BY <2>4, AllocateKeeps
  <2>5. CASE Grow(t) BY <2>5, GrowKeeps
  <2>6. CASE LibraryFails(t) BY <2>6, LibraryFailsKeeps
  <2>7. CASE Count(t) BY <2>7, CountKeeps
  <2>8. CASE Uncount(t) BY <2>8, UncountKeeps
  <2>9. CASE Release(t) BY <2>9, ReleaseKeeps
  <2> QED BY <1>5, <2>1, <2>2, <2>3, <2>4, <2>5, <2>6, <2>7, <2>8, <2>9 DEF Continue
<1> QED BY <1>1, <1>2, <1>3, <1>4, <1>5 DEF Next

(* The inductive invariant of the seam, for any number of threads, blocks  *)
(* and limits.                                                             *)
THEOREM SeamInvariance == Spec => []IInv
<1>1. Init => IInv BY InitIInv
<1>2. IInv /\ [Next]_vars => IInv' BY NextKeeps
<1> QED BY <1>1, <1>2, PTL DEF Spec

(* No block is lost, freed under another call or held twice: txc_malloc,   *)
(* txc_realloc and txc_free in any interleaving.                           *)
THEOREM Holders == Spec => []OneHolder
<1>1. IInv => OneHolder BY DEF IInv
<1> QED BY <1>1, SeamInvariance, PTL

(* txc_allocation_outstanding is exact up to the calls in progress.        *)
THEOREM LiveExact == Spec => []Outstanding
<1>1. IInv => Outstanding BY DEF IInv
<1> QED BY <1>1, SeamInvariance, PTL
-----------------------------------------------------------------------------
(***************************************************************************)
(* Any number of threads spend the one budget of Seam.                     *)
(***************************************************************************)

(* Setting a thread's call moves that caller's phase and no other's.       *)
LEMMA PhaseSet ==
  ASSUME TypeOK, NEW t \in Threads, NEW c \in CallType, Sets(t, c)
  PROVE  /\ Phases' = [Phases EXCEPT ![t] = PhaseOf(c)]
         /\ Phases[t] = PhaseOf(call[t])
         /\ PhaseOf(c) = PhaseOf(call[t]) => UNCHANGED Phases
<1>1. /\ call'[t] = c
      /\ \A u \in Threads : u # t => call'[u] = call[u]
  BY CallSet
<1>2. Phases' = [u \in Threads |-> PhaseOf(call'[u])] BY DEF Phases, PhaseOf
<1>3. Phases = [u \in Threads |-> PhaseOf(call[u])] BY DEF Phases
<1>4. ASSUME NEW u \in Threads
      PROVE  PhaseOf(call'[u]) = IF u = t THEN PhaseOf(c) ELSE PhaseOf(call[u])
  BY <1>1
<1> QED BY <1>2, <1>3, <1>4

(* The same, as a step of Seam.                                            *)
LEMMA PhaseMoves ==
  ASSUME TypeOK, NEW t \in Threads, NEW c \in CallType, Sets(t, c),
         NEW from, NEW to, PhaseOf(call[t]) = from, PhaseOf(c) = to
  PROVE  SeamOf!Moves(t, from, to)
BY PhaseSet DEF SeamOf!Moves

(* The decision, from a fresh read, grants, refuses or still asks.         *)
LEMMA DecideImplements ==
  ASSUME IInv, NEW t \in Threads, call[t].pc \in {"load", "swap"}, Decide(t)
  PROVE  SeamOf!Grant(t) \/ SeamOf!RefuseCaller(t) \/ UNCHANGED SeamOf!seam
<1>0. /\ UNCHANGED countdown /\ countdown \in Int /\ TypeOK /\ call[t] \in CallType
      /\ PhaseOf(call[t]) = "asking"
  BY DEF Decide, IInv, TypeOK, PhaseOf
<1>1. CASE countdown < 0
  <2> DEFINE c == [call[t] EXCEPT !.pc = "allocate"]
  <2>0. GoesTo(t, "allocate") BY <1>0, <1>1 DEF Decide
  <2>1. c \in CallType /\ Sets(t, c) /\ c.pc = "allocate"
    BY <1>0, <2>0, GoesToSets DEF Stages
  <2> HIDE DEF c
  <2>2. PhaseOf(c) = "granted" BY <2>1 DEF PhaseOf
  <2>3. SeamOf!Moves(t, "asking", "granted") BY <1>0, <2>1, <2>2, PhaseMoves
  <2> QED BY <1>0, <1>1, <2>3 DEF SeamOf!Grant
<1>2. CASE countdown = 0
  <2>1. Sets(t, Idle) /\ Idle \in CallType
    BY <1>0, <1>2 DEF Decide, GivesBack, Returns, Goes, Sets, Idle, CallType, Stages
  <2>2. PhaseOf(Idle) = "resting" BY DEF PhaseOf, Idle
  <2>3. SeamOf!Moves(t, "asking", "resting") BY <1>0, <2>1, <2>2, PhaseMoves
  <2> QED BY <1>0, <1>2, <2>3 DEF SeamOf!RefuseCaller
<1>3. CASE countdown > 0
  <2> DEFINE c == [call[t] EXCEPT !.pc = "swap", !.current = countdown]
  <2>1. Sets(t, c) BY <1>3, <1>0 DEF Decide, Goes, Sets
  <2>2. c \in CallType /\ c.pc = "swap" BY <1>0 DEF CallType, Stages
  <2> HIDE DEF c
  <2>3. PhaseOf(c) = "asking" BY <2>2 DEF PhaseOf
  <2>4. UNCHANGED Phases BY <1>0, <2>1, <2>2, <2>3, PhaseSet
  <2> QED BY <1>0, <2>4 DEF SeamOf!seam
<1> QED BY <1>0, <1>1, <1>2, <1>3

(* The compare and swap that succeeds spends one allocation: what it read  *)
(* is still there.                                                         *)
LEMMA SwapImplements ==
  ASSUME IInv, NEW t \in Threads, Swap(t) PROVE SeamOf!Grant(t)
<1> DEFINE c == [call[t] EXCEPT !.pc = "allocate"]
<1>1. c \in CallType /\ Sets(t, c) /\ c.pc = "allocate"
  BY GoesToSets DEF Swap, IInv, Stages
<1>2. call[t].pc = "swap" /\ countdown > 0 /\ countdown' = countdown - 1
  BY DEF Swap, At, IInv, TypeOK
<1> HIDE DEF c
<1>3. PhaseOf(call[t]) = "asking" /\ PhaseOf(c) = "granted" BY <1>1, <1>2 DEF PhaseOf
<1>4. SeamOf!Moves(t, "asking", "granted") BY <1>1, <1>3, PhaseMoves DEF IInv
<1>5. countdown # 0 /\ countdown > 0 BY <1>2 DEF IInv, TypeOK
<1> QED BY <1>2, <1>4, <1>5 DEF SeamOf!Grant

(* A step after the decision neither asks nor touches the budget.          *)
LEMMA AfterImplements ==
  ASSUME TypeOK, NEW t \in Threads, NEW c \in CallType, Sets(t, c), UNCHANGED countdown,
         \/ PhaseOf(c) = PhaseOf(call[t])
         \/ PhaseOf(call[t]) = "granted" /\ PhaseOf(c) = "resting"
  PROVE  SeamOf!Use(t) \/ UNCHANGED SeamOf!seam
<1>1. CASE PhaseOf(c) = PhaseOf(call[t]) BY <1>1, PhaseSet DEF SeamOf!seam
<1>2. CASE PhaseOf(call[t]) = "granted" /\ PhaseOf(c) = "resting"
  <2>1. SeamOf!Moves(t, "granted", "resting") BY <1>2, PhaseMoves
  <2> QED BY <2>1 DEF SeamOf!Use
<1> QED BY <1>1, <1>2

(* Every step of a call is a step of Seam, or none.                        *)
LEMMA ContinueImplements ==
  ASSUME IInv, NEW t \in Threads, Continue(t)
  PROVE  SeamOf!Step \/ UNCHANGED SeamOf!seam
<1>0. TypeOK /\ call[t] \in CallType BY DEF IInv, TypeOK
<1>1. Idle \in CallType /\ PhaseOf(Idle) = "resting"
  BY DEF Idle, CallType, Stages, PhaseOf
<1>2. CASE Load(t) \/ SwapFails(t)
  <2>1. call[t].pc \in {"load", "swap"} /\ Decide(t) BY <1>2 DEF Load, SwapFails, At
  <2> QED BY <2>1, DecideImplements DEF SeamOf!Step
<1>3. CASE Swap(t) BY <1>3, SwapImplements DEF SeamOf!Step
<1>4. CASE Allocate(t)
  <2>1. PICK b \in Blocks : Goes(t, [call[t] EXCEPT !.pc = "count", !.block = b])
    BY <1>4 DEF Allocate
  <2> DEFINE c == [call[t] EXCEPT !.pc = "count", !.block = b]
  <2>2. c \in CallType /\ c.pc = "count" BY <1>0 DEF CallType, Stages
  <2>3. Sets(t, c) /\ call[t].pc = "allocate" /\ UNCHANGED countdown
    BY <1>4, <2>1 DEF Allocate, Goes, Sets, At
  <2> HIDE DEF c
  <2>4. PhaseOf(c) = PhaseOf(call[t]) BY <2>2, <2>3 DEF PhaseOf
  <2> QED BY <1>0, <2>2, <2>3, <2>4, PhaseSet DEF SeamOf!seam
<1>5. CASE Grow(t) \/ LibraryFails(t) \/ Count(t)
  <2>1. /\ Sets(t, Idle) /\ call[t].pc \in {"allocate", "count"} /\ UNCHANGED countdown
    BY <1>5 DEF Grow, LibraryFails, Count, GivesBack, Returns, Goes, Sets, At
  <2>2. PhaseOf(call[t]) = "granted" BY <2>1 DEF PhaseOf
  <2> QED BY <1>0, <1>1, <2>1, <2>2, AfterImplements DEF SeamOf!Step
<1>6. CASE Uncount(t)
  <2> DEFINE c == [call[t] EXCEPT !.pc = "release"]
  <2>1. c \in CallType /\ Sets(t, c) /\ c.pc = "release"
    BY <1>0, <1>6, GoesToSets DEF Uncount, Stages
  <2>2. call[t].pc = "uncount" /\ UNCHANGED countdown BY <1>6 DEF Uncount, At
  <2> HIDE DEF c
  <2>3. PhaseOf(c) = PhaseOf(call[t]) BY <2>1, <2>2 DEF PhaseOf
  <2> QED BY <1>0, <2>1, <2>2, <2>3, PhaseSet DEF SeamOf!seam
<1>7. CASE Release(t)
  <2>1. Sets(t, Idle) /\ call[t].pc = "release" /\ UNCHANGED countdown
    BY <1>7 DEF Release, Returns, Goes, Sets, At
  <2>2. PhaseOf(call[t]) = "resting" BY <2>1 DEF PhaseOf
  <2> QED BY <1>0, <1>1, <2>1, <2>2, AfterImplements DEF SeamOf!Step
<1> QED BY <1>2, <1>3, <1>4, <1>5, <1>6, <1>7 DEF Continue

(* So is every step of the seam.                                           *)
LEMMA NextImplements ==
  ASSUME IInv, [Next]_vars PROVE [SeamOf!Step]_(SeamOf!seam)
<1>0. TypeOK BY DEF IInv
<1>1. CASE UNCHANGED vars BY <1>1 DEF vars, SeamOf!seam, Phases, PhaseOf
<1>2. ASSUME NEW n \in -1 .. MaxLimit, SetLimit(n) PROVE SeamOf!Step
  <2>1. countdown' \in Int BY <1>2, AllocationAssumption DEF SetLimit
  <2>2. UNCHANGED Phases BY <1>2 DEF SetLimit, Phases, PhaseOf
  <2> QED BY <2>1, <2>2 DEF SeamOf!Step, SeamOf!SetBudget
<1>3. ASSUME NEW t \in Threads, NEW c \in CallType, c.pc \in {"load", "uncount"},
             At(t, "idle"), Sets(t, c), UNCHANGED countdown
      PROVE  SeamOf!Step \/ UNCHANGED SeamOf!seam
  <2>1. PhaseOf(call[t]) = "resting" BY <1>3 DEF At, PhaseOf
  <2>2. CASE c.pc = "load"
    <3>1. PhaseOf(c) = "asking" BY <2>2 DEF PhaseOf
    <3>2. SeamOf!Moves(t, "resting", "asking") BY <1>0, <1>3, <2>1, <3>1, PhaseMoves
    <3> QED BY <1>3, <3>2 DEF SeamOf!Step, SeamOf!Ask
  <2>3. CASE c.pc = "uncount"
    <3>1. PhaseOf(c) = PhaseOf(call[t]) BY <2>1, <2>3 DEF PhaseOf
    <3> QED BY <1>0, <1>3, <3>1, PhaseSet DEF SeamOf!seam
  <2> QED BY <1>3, <2>2, <2>3
<1>4. ASSUME NEW t \in Threads, Malloc(t) PROVE SeamOf!Step \/ UNCHANGED SeamOf!seam
  <2> DEFINE c == [Idle EXCEPT !.pc = "load"]
  <2>1. c \in CallType /\ c.pc = "load" BY DEF Idle, CallType, Stages
  <2>2. At(t, "idle") /\ UNCHANGED countdown /\ Sets(t, c)
    BY <1>4 DEF Malloc, Goes, Sets
  <2> HIDE DEF c
  <2> QED BY <1>3, <2>1, <2>2
<1>5. ASSUME NEW t \in Threads, NEW b \in Blocks, Realloc(t, b) \/ Free(t, b)
      PROVE  SeamOf!Step \/ UNCHANGED SeamOf!seam
  <2>1. PICK s \in {"load", "uncount"} : Takes(t, b, s) BY <1>5 DEF Realloc, Free
  <2> DEFINE c == [Idle EXCEPT !.pc = s, !.block = b]
  <2>2. s \in Stages /\ Idle \in CallType BY DEF Idle, CallType, Stages
  <2>3. c \in CallType /\ c.pc = s BY <2>2 DEF CallType
  <2>4. At(t, "idle") /\ UNCHANGED countdown /\ Sets(t, c)
    BY <2>1 DEF Takes, Goes, Sets
  <2> HIDE DEF c
  <2> QED BY <1>3, <2>1, <2>3, <2>4
<1>6. ASSUME NEW t \in Threads, Continue(t) PROVE SeamOf!Step \/ UNCHANGED SeamOf!seam
  BY <1>6, ContinueImplements
<1> QED BY <1>1, <1>2, <1>4, <1>5, <1>6 DEF Next

(* txc_allocation_should_fail spends the one budget atomically as far as   *)
(* any number of callers can tell: the seam implements Seam.               *)
THEOREM SeamImplemented == Spec => BudgetSpentOnce
<1>1. Init => SeamOf!Begin
  <2> SUFFICES ASSUME Init PROVE SeamOf!Begin OBVIOUS
  <2>1. PhaseOf(Idle) = "resting" BY DEF PhaseOf, Idle
  <2>2. call = [t \in Threads |-> Idle] /\ countdown = -1 BY DEF Init
  <2>3. Phases = [t \in Threads |-> "resting"] BY <2>1, <2>2 DEF Phases
  <2> QED BY <2>2, <2>3 DEF SeamOf!Begin
<1>2. IInv /\ [Next]_vars => [SeamOf!Step]_(SeamOf!seam) BY NextImplements
<1> QED BY <1>1, <1>2, SeamInvariance, PTL DEF Spec, BudgetSpentOnce, SeamOf!Spec

(* For any number of threads and blocks: one holder each, and a counter    *)
(* that is off by the calls in between.                                    *)
THEOREM Accounted == Spec => []BlocksAccounted
<1>1. IInv => BlocksAccounted BY DEF IInv, BlocksAccounted
<1> QED BY <1>1, SeamInvariance, PTL

-----------------------------------------------------------------------------
(***************************************************************************)
(* The arena.                                                              *)
(***************************************************************************)
Chunk == [capacity : Nat, used : Nat, bytes : Nat]
Aligned(n) == n % Alignment = 0

(* The chunks of an arena; the bytes asked for are those the chunk needs.  *)
ChunksGood(cs) ==
  /\ cs \in Seq(Chunk)
  /\ \A i \in DOMAIN cs :
       /\ cs[i].used <= cs[i].capacity /\ Aligned(cs[i].used)
       /\ cs[i].bytes = Header + cs[i].capacity

(* Blocks cut from the chunks cs.                                          *)
Cut(bs, cs) ==
  /\ bs \subseteq [chunk : DOMAIN cs, begin : Nat, size : 0 .. SizeMax]
  /\ \A b \in bs : Aligned(b.begin) /\ b.begin + b.size <= cs[b.chunk].used

Apart(bs) ==
  \A a, b \in bs :
    a.chunk = b.chunk /\ a # b =>
      a.begin + a.size <= b.begin \/ b.begin + b.size <= a.begin

(* The inductive invariant.                                                *)
ArenaInv == ChunksGood(chunks) /\ next \in Nat /\ Cut(blocks, chunks) /\ Apart(blocks)

-----------------------------------------------------------------------------
(* Multiples of the alignment.                                             *)
LEMMA MultipleAligned == ASSUME NEW k \in Nat PROVE Aligned(k * Alignment)
BY ArenaAssumption DEF Aligned

(* Aligned offsets add up to aligned offsets.                              *)
LEMMA SumAligned ==
  ASSUME NEW x \in Nat, NEW y \in Nat, Aligned(x), Aligned(y) PROVE Aligned(x + y)
<1> DEFINE p == x \div Alignment
           q == y \div Alignment
<1>1. p \in Nat /\ q \in Nat /\ x = p * Alignment /\ y = q * Alignment
  BY ArenaAssumption DEF Aligned
<1> HIDE DEF p, q
<1>2. x + y = (p + q) * Alignment BY <1>1, ArenaAssumption
<1>3. p + q \in Nat BY <1>1
<1>4. Aligned((p + q) * Alignment) BY <1>3, MultipleAligned
<1> QED BY <1>2, <1>4

(* The rounded size is a multiple of the alignment.                        *)
LEMMA RoundedAligned ==
  ASSUME NEW size \in 0 .. SizeMax PROVE Rounded(size) \in Nat /\ Aligned(Rounded(size))
<1> DEFINE w == Wrap(size + Alignment - 1)
           k == w \div Alignment
<1>1. size + Alignment - 1 \in Nat /\ SizeMax + 1 \in Nat /\ SizeMax + 1 > 0
  BY ArenaAssumption
<1>2. w \in Nat BY <1>1 DEF Wrap
<1> HIDE DEF w
<1>3. k \in Nat BY <1>2, ArenaAssumption
<1>4. Rounded(size) = k * Alignment BY DEF Rounded, w
<1> HIDE DEF k
<1> QED BY <1>3, <1>4, MultipleAligned, ArenaAssumption

(* A chunk that passes the guard is asked for in full: nothing wraps.      *)
LEMMA BytesExact ==
  ASSUME NEW capacity \in Nat, ~TooLarge(capacity)
  PROVE  Wrap(Header + capacity) = Header + capacity
<1>1. Header + capacity \in Nat /\ Header + capacity < SizeMax + 1
  BY ArenaAssumption DEF TooLarge
<1> QED BY <1>1, ArenaAssumption DEF Wrap

-----------------------------------------------------------------------------
(* Cutting a block from the newest of cs.                                  *)
LEMMA PlaceKeeps ==
  ASSUME NEW cs, ChunksGood(cs), Cut(blocks, cs), Apart(blocks), Len(cs) > 0,
         NEW size \in 0 .. SizeMax, NEW need \in Nat, need >= size, Aligned(need),
         cs[Len(cs)].capacity - cs[Len(cs)].used >= need,
         Place(cs, size, need)
  PROVE  ChunksGood(chunks') /\ Cut(blocks', chunks') /\ Apart(blocks')
<1> DEFINE h == Len(cs)
           new == [chunk |-> h, begin |-> cs[h].used, size |-> size]
           top == [cs[h] EXCEPT !.used = @ + need]
<1>1. /\ cs \in Seq(Chunk) /\ h \in DOMAIN cs /\ cs[h] \in Chunk /\ h \in Nat
      /\ cs[h].used <= cs[h].capacity /\ Aligned(cs[h].used)
      /\ cs[h].bytes = Header + cs[h].capacity
      /\ cs[h].used \in Nat /\ cs[h].capacity \in Nat
  <2>1. cs \in Seq(Chunk) /\ h \in DOMAIN cs /\ h \in Nat BY DEF ChunksGood
  <2>2. cs[h] \in Chunk BY <2>1
  <2>3. /\ cs[h].used <= cs[h].capacity /\ Aligned(cs[h].used)
        /\ cs[h].bytes = Header + cs[h].capacity
    BY <2>1 DEF ChunksGood
  <2> HIDE DEF h
  <2> QED BY <2>1, <2>2, <2>3 DEF Chunk
<1>2. chunks' = [cs EXCEPT ![h] = top] /\ blocks' = blocks \cup {new} BY DEF Place
<1>3. /\ top \in Chunk /\ top.used = cs[h].used + need
      /\ top.capacity = cs[h].capacity /\ top.bytes = cs[h].bytes
  <2> HIDE DEF h
  <2>1. \A c \in Chunk :
          LET d == [c EXCEPT !.used = @ + need] IN
            /\ d \in Chunk /\ d.used = c.used + need
            /\ d.capacity = c.capacity /\ d.bytes = c.bytes
    BY DEF Chunk
  <2> QED BY <1>1, <2>1
<1>4. Aligned(top.used) BY <1>1, <1>3, SumAligned
<1>5. top.used <= top.capacity BY <1>1, <1>3
<1> HIDE DEF top, h
<1>6. /\ chunks' \in Seq(Chunk) /\ DOMAIN chunks' = DOMAIN cs /\ chunks'[h] = top
      /\ \A i \in DOMAIN cs : i # h => chunks'[i] = cs[i]
  BY <1>1, <1>2, <1>3
<1>7. ChunksGood(chunks')
  <2> SUFFICES ASSUME NEW i \in DOMAIN cs
               PROVE  /\ chunks'[i].used <= chunks'[i].capacity /\ Aligned(chunks'[i].used)
                      /\ chunks'[i].bytes = Header + chunks'[i].capacity
    BY <1>6 DEF ChunksGood
  <2> QED BY <1>1, <1>3, <1>4, <1>5, <1>6 DEF ChunksGood
<1>8. Cut(blocks', chunks')
  <2>1. new \in [chunk : DOMAIN cs, begin : Nat, size : 0 .. SizeMax] BY <1>1
  <2>2. blocks' \subseteq [chunk : DOMAIN chunks', begin : Nat, size : 0 .. SizeMax]
    BY <1>2, <1>6, <2>1 DEF Cut
  <2>3. new.begin + new.size <= chunks'[new.chunk].used /\ Aligned(new.begin)
    BY <1>1, <1>3, <1>6
  <2>4. ASSUME NEW b \in blocks
        PROVE  Aligned(b.begin) /\ b.begin + b.size <= chunks'[b.chunk].used
    <3>1. /\ Aligned(b.begin) /\ b.begin + b.size <= cs[b.chunk].used
          /\ b.chunk \in DOMAIN cs /\ b.begin \in Nat /\ b.size \in Nat
      BY ArenaAssumption DEF Cut
    <3>2. CASE b.chunk = h BY <1>1, <1>3, <1>6, <3>1, <3>2
    <3>3. CASE b.chunk # h BY <1>6, <3>1, <3>3
    <3> QED BY <3>2, <3>3
  <2> QED BY <1>2, <2>2, <2>3, <2>4 DEF Cut
<1>9. Apart(blocks')
  <2>1. ASSUME NEW b \in blocks, b.chunk = h PROVE b.begin + b.size <= new.begin
    BY <2>1 DEF Cut
  <2> QED BY <1>2, <2>1 DEF Apart
<1> QED BY <1>7, <1>8, <1>9

-----------------------------------------------------------------------------
(***************************************************************************)
(* One lemma per action.                                                   *)
(***************************************************************************)

(* An arena begins empty.                                                  *)
LEMMA ArenaInitKeeps == ArenaInit => ArenaInv
BY ArenaAssumption DEF ArenaInit, ArenaInv, ChunksGood, Cut, Apart

(* A block that fits in the head.                                          *)
LEMMA BumpKeeps == ASSUME ArenaInv, NEW size \in Sizes, Bump(size) PROVE ArenaInv'
<1> DEFINE need == Rounded(size)
<1>1. size \in 0 .. SizeMax BY ArenaAssumption
<1>2. need \in Nat /\ Aligned(need) BY <1>1, RoundedAligned
<1>3. need >= size /\ Fits(need) /\ Place(chunks, size, need) /\ UNCHANGED next
  BY DEF Bump
<1> HIDE DEF need
<1>4. Len(chunks) > 0 /\ chunks[Len(chunks)].capacity - chunks[Len(chunks)].used >= need
  BY <1>3 DEF Fits, Newest
<1> QED BY <1>1, <1>2, <1>3, <1>4, PlaceKeeps DEF ArenaInv

(* The schedule stays a number.                                            *)
LEMMA AdvanceKeeps ==
  ASSUME next \in Nat, NEW need \in Nat, Advance(need)
  PROVE  next' \in Nat /\ Capacity(need) \in Nat /\ Capacity(need) >= need
BY DEF Advance, Capacity

(* A block that needs a new chunk.                                         *)
LEMMA RefillKeeps == ASSUME ArenaInv, NEW size \in Sizes, Refill(size) PROVE ArenaInv'
<1> DEFINE need == Rounded(size)
           capacity == Capacity(need)
           chunk == [capacity |-> capacity, used |-> 0, bytes |-> Wrap(Header + capacity)]
           cs == Append(chunks, chunk)
<1>1. size \in 0 .. SizeMax BY ArenaAssumption
<1>2. need \in Nat /\ Aligned(need) BY <1>1, RoundedAligned
<1>3. need >= size /\ ~TooLarge(capacity) /\ Advance(need) /\ Place(cs, size, need)
  BY DEF Refill
<1> HIDE DEF need
<1>4. next' \in Nat /\ capacity \in Nat /\ capacity >= need
  BY <1>2, <1>3, AdvanceKeeps DEF ArenaInv
<1> HIDE DEF capacity
<1>5. Wrap(Header + capacity) = Header + capacity BY <1>3, <1>4, BytesExact
<1>6. /\ chunk \in Chunk /\ chunk.used = 0 /\ chunk.capacity = capacity
      /\ chunk.bytes = Header + chunk.capacity
  BY <1>4, <1>5, ArenaAssumption DEF Chunk
<1> HIDE DEF chunk
<1>7. Aligned(0) BY ArenaAssumption DEF Aligned
<1>8. /\ chunks \in Seq(Chunk) /\ cs \in Seq(Chunk) /\ Len(cs) = Len(chunks) + 1
      /\ cs[Len(cs)] = chunk /\ \A i \in DOMAIN chunks : i \in DOMAIN cs /\ cs[i] = chunks[i]
      /\ \A i \in DOMAIN cs : i = Len(cs) \/ i \in DOMAIN chunks
  BY <1>6 DEF ArenaInv, ChunksGood
<1> HIDE DEF cs
<1>9. ChunksGood(cs)
  <2> SUFFICES ASSUME NEW i \in DOMAIN cs
               PROVE  /\ cs[i].used <= cs[i].capacity /\ Aligned(cs[i].used)
                      /\ cs[i].bytes = Header + cs[i].capacity
    BY <1>8 DEF ChunksGood
  <2>1. CASE i = Len(cs) BY <1>4, <1>6, <1>7, <1>8, <2>1
  <2>2. CASE i \in DOMAIN chunks BY <1>8, <2>2 DEF ArenaInv, ChunksGood
  <2> QED BY <1>8, <2>1, <2>2
<1>10. Cut(blocks, cs) BY <1>8 DEF ArenaInv, Cut
<1>11. Len(cs) > 0 /\ cs[Len(cs)].capacity - cs[Len(cs)].used >= need
  BY <1>2, <1>4, <1>6, <1>8
<1> QED BY <1>1, <1>2, <1>3, <1>4, <1>9, <1>10, <1>11, PlaceKeeps DEF ArenaInv

(* Every step keeps the invariant.                                         *)
LEMMA ArenaNextKeeps == ASSUME ArenaInv, [ArenaNext]_arena PROVE ArenaInv'
<1>1. CASE UNCHANGED arena BY <1>1 DEF arena, ArenaInv, ChunksGood, Cut, Apart
<1>2. ASSUME NEW size \in Sizes, Overflows(size) PROVE ArenaInv'
  BY <1>2 DEF Overflows, arena, ArenaInv, ChunksGood, Cut, Apart
<1>3. ASSUME NEW size \in Sizes, Bump(size) PROVE ArenaInv' BY <1>3, BumpKeeps
<1>4. ASSUME NEW size \in Sizes, Fails(size) PROVE ArenaInv'
  <2>1. size \in 0 .. SizeMax BY ArenaAssumption
  <2>2. Rounded(size) \in Nat BY <2>1, RoundedAligned
  <2>3. next' \in Nat BY <1>4, <2>2, AdvanceKeeps DEF Fails, ArenaInv
  <2> QED BY <1>4, <2>3 DEF Fails, ArenaInv, ChunksGood, Cut, Apart
<1>5. ASSUME NEW size \in Sizes, Refill(size) PROVE ArenaInv' BY <1>5, RefillKeeps
<1>6. CASE ArenaRelease BY <1>6 DEF ArenaRelease, ArenaInv, ChunksGood, Cut, Apart
<1> QED BY <1>1, <1>2, <1>3, <1>4, <1>5, <1>6 DEF ArenaNext

(* The inductive invariant of the arena.                                   *)
THEOREM ArenaInvariance == ArenaSpec => []ArenaInv
<1>1. ArenaInit => ArenaInv BY ArenaInitKeeps
<1>2. ArenaInv /\ [ArenaNext]_arena => ArenaInv' BY ArenaNextKeeps
<1> QED BY <1>1, <1>2, PTL DEF ArenaSpec

(* Every block lies, aligned and with all the bytes asked for, inside the  *)
(* memory its chunk was given.                                             *)
THEOREM Held == ArenaSpec => []BlocksHeld
<1>1. ASSUME ArenaInv PROVE BlocksHeld
  <2> SUFFICES ASSUME NEW b \in blocks
               PROVE  /\ b.begin % Alignment = 0
                      /\ b.begin + b.size <= chunks[b.chunk].used
                      /\ Header + b.begin + b.size <= chunks[b.chunk].bytes
    BY DEF BlocksHeld
  <2>1. /\ Aligned(b.begin) /\ b.begin + b.size <= chunks[b.chunk].used
        /\ b.chunk \in DOMAIN chunks /\ b.begin \in Nat /\ b.size \in Nat
    BY <1>1, ArenaAssumption DEF ArenaInv, Cut
  <2>2. /\ chunks[b.chunk].used <= chunks[b.chunk].capacity
        /\ chunks[b.chunk].bytes = Header + chunks[b.chunk].capacity
        /\ chunks[b.chunk] \in Chunk
    BY <1>1, <2>1 DEF ArenaInv, ChunksGood
  <2> QED BY <2>1, <2>2, ArenaAssumption DEF Aligned, Chunk
<1>2. ArenaInv => BlocksHeld BY <1>1
<1> QED BY <1>2, ArenaInvariance, PTL

(* No two blocks overlap.                                                  *)
THEOREM Disjoint == ArenaSpec => []BlocksApart
<1>1. ArenaInv => BlocksApart BY DEF ArenaInv, Apart, BlocksApart
<1> QED BY <1>1, ArenaInvariance, PTL

(* All bytes of every block may be used, for any width of size_t.          *)
THEOREM Sound == ArenaSpec => []BlocksSound
<1>1. ArenaInv => ArenaTypeOK BY DEF ArenaInv, ChunksGood, Cut, Chunk, Aligned, ArenaTypeOK
<1> QED BY <1>1, ArenaInvariance, Held, Disjoint, PTL DEF BlocksSound
=============================================================================
