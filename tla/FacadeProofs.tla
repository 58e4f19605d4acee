---------------------------- MODULE FacadeProofs ----------------------------
(***************************************************************************)
(* Proofs about the life of trees and dumps, for any number of threads,    *)
(* blocks and chunks.                                                      *)
(***************************************************************************)
EXTENDS FacadeProps, TLAPS

(* The arenas and the struct a call holds are blocks apart.                *)
Neat(c) ==
  c.arena \cap c.scratch = {} /\ c.tree \notin c.arena \cup c.scratch

(* A call at rest carries no arena; a tree is discarded without scratch.   *)
Carries(c) ==
  /\ c.pc \in {"idle", "struct", "dump"} => c.arena = {} /\ c.scratch = {}
  /\ c.pc = "discard" => c.scratch = {}

(* Whoever reads a tree reads one that a caller has.                       *)
Reading ==
  \A t \in Threads : At(t, "dump") => \E tree \in trees : tree.handle = call[t].read

(* What the out-parameters say once a compile has returned.                *)
Settled(o) == o.error = o.status /\ (o.status # "OK" => o.tree = NULL)

(* What a call and its out-parameters have to do with each other.          *)
Reporting(c, o) ==
  /\ c.pc \in {"struct", "parse", "layout", "release"} => o.tree = NULL
  /\ c.pc = "release" => c.status # NULL /\ (c.status # "OK" => o.error = c.status)
  /\ c.pc = "discard" /\ c.status # NULL =>
       c.status # "OK" /\ o.error = c.status /\ o.tree = NULL
  /\ c.pc = "discard" /\ c.status = NULL => Settled(o)
  /\ c.pc \in {"idle", "dump"} => Settled(o)

(* The inductive invariant.                                                *)
IInv ==
  /\ TypeOK /\ NothingLeaked /\ OneOwner /\ Reading
  /\ \A t \in Threads : Carries(call[t]) /\ Reporting(call[t], out[t])

(* The parts of it that a block can break, block by block.                 *)
Kept ==
  /\ \A b : b \in heap <=> \/ b \in dumps
                           \/ \E tree \in trees : b \in Owns(tree)
                           \/ \E t \in Threads : b \in Holds(t)
  /\ OneOwner

(* Block by block is all at once.                                          *)
LEMMA KeptIs == Kept <=> NothingLeaked /\ OneOwner
<1> DEFINE T == UNION {Owns(tree) : tree \in trees}
           C == UNION {Holds(t) : t \in Threads}
<1>1. \A b : b \in T <=> \E tree \in trees : b \in Owns(tree) OBVIOUS
<1>2. \A b : b \in C <=> \E t \in Threads : b \in Holds(t) OBVIOUS
<1>3. NothingLeaked <=> heap = dumps \cup T \cup C BY DEF NothingLeaked
<1> HIDE DEF T, C
<1>4. heap = dumps \cup T \cup C <=> \A b : b \in heap <=> b \in dumps \/ b \in T \/ b \in C
  OBVIOUS
<1> QED BY <1>1, <1>2, <1>3, <1>4 DEF Kept

(* The same after a step.                                                  *)
LEMMA KeptIsNext == Kept' <=> NothingLeaked' /\ OneOwner'
BY KeptIs, PTL

-----------------------------------------------------------------------------
(* A call that changes leaves the other calls alone.                       *)
LEMMA CallSet ==
  ASSUME TypeOK, NEW t \in Threads, NEW c \in CallType, Goes(t, c)
  PROVE  /\ call' \in [Threads -> CallType] /\ call'[t] = c
         /\ \A u \in Threads : u # t => call'[u] = call[u]
         /\ Holds(t)' = HeldBy(c)
         /\ \A u \in Threads : u # t => Holds(u)' = Holds(u)
<1>1. /\ call' \in [Threads -> CallType] /\ call'[t] = c
      /\ \A u \in Threads : u # t => call'[u] = call[u]
  BY DEF TypeOK, Goes
<1> QED BY <1>1 DEF Holds

(* What a call holds is in the heap and nobody else's.                     *)
LEMMA HoldsAlone ==
  ASSUME TypeOK, Kept, NEW t \in Threads
  PROVE  /\ Holds(t) \subseteq heap
         /\ \A u \in Threads : u # t => Holds(u) \cap Holds(t) = {}
         /\ \A tree \in trees : Owns(tree) \cap Holds(t) = {} /\ Owns(tree) \subseteq heap
         /\ dumps \cap Holds(t) = {} /\ dumps \subseteq heap
BY DEF Kept, OneOwner

(* A thread trades what it holds for blocks that nobody has: it gets one,  *)
(* gives one back to the library, or changes nothing.                      *)
LEMMA Trade ==
  ASSUME TypeOK, Kept, NEW t \in Threads, NEW c \in CallType, Goes(t, c), Neat(c),
         UNCHANGED <<trees, dumps>>,
         heap' = (heap \ Holds(t)) \cup HeldBy(c),
         HeldBy(c) \cap (heap \ Holds(t)) = {}
  PROVE  Kept'
<1>1. /\ call'[t] = c /\ Holds(t)' = HeldBy(c)
      /\ \A u \in Threads : u # t => Holds(u)' = Holds(u) /\ call'[u] = call[u]
  BY CallSet
<1>2. /\ Holds(t) \subseteq heap
      /\ \A u \in Threads : u # t => Holds(u) \cap Holds(t) = {} /\ Holds(u) \subseteq heap
      /\ \A tree \in trees : Owns(tree) \cap Holds(t) = {} /\ Owns(tree) \subseteq heap
      /\ dumps \cap Holds(t) = {} /\ dumps \subseteq heap
  BY HoldsAlone
<1>3. ASSUME NEW b
      PROVE  b \in heap' <=> \/ b \in dumps \/ \E tree \in trees : b \in Owns(tree)
                             \/ \E u \in Threads : b \in Holds(u)'
  <2>1. b \in heap <=> \/ b \in dumps \/ \E tree \in trees : b \in Owns(tree)
                       \/ \E u \in Threads : b \in Holds(u)
    BY DEF Kept
  <2>2. b \in heap' <=> (b \in heap /\ b \notin Holds(t)) \/ b \in HeldBy(c) OBVIOUS
  <2>3. b \in HeldBy(c) => b \in Holds(t)' BY <1>1
  <2>4. \A u \in Threads : b \in Holds(u)' => b \in HeldBy(c) \/ (u # t /\ b \in Holds(u))
    BY <1>1
  <2>5. \A u \in Threads : b \in Holds(u) => b \in Holds(t) \/ b \in Holds(u)' BY <1>1
  <2> QED BY <1>2, <2>1, <2>2, <2>3, <2>4, <2>5
<1>4. ASSUME NEW u \in Threads
      PROVE  /\ Holds(u)' \cap dumps = {}
             /\ \A tree \in trees : Owns(tree) \cap Holds(u)' = {}
             /\ Neat(call'[u])
  <2>1. CASE u = t BY <1>1, <1>2, <2>1
  <2>2. CASE u # t BY <1>1, <2>2 DEF Kept, OneOwner, Neat
  <2> QED BY <2>1, <2>2
<1>5. ASSUME NEW u \in Threads, NEW v \in Threads, u # v
      PROVE  Holds(u)' \cap Holds(v)' = {}
  <2>1. CASE u # t /\ v # t BY <1>1, <1>5, <2>1 DEF Kept, OneOwner
  <2>2. \A w \in Threads : w # t => Holds(w) \cap HeldBy(c) = {} BY <1>2
  <2> QED BY <1>1, <1>5, <2>1, <2>2
<1>6. OneOwner'
  <2>1. /\ \A a, b \in trees : a # b => Owns(a) \cap Owns(b) = {}
        /\ \A a \in trees : Owns(a) \cap dumps = {} /\ a.handle \notin a.chunks
    BY DEF Kept, OneOwner
  <2> QED BY <1>4, <1>5, <2>1 DEF OneOwner, Neat, Owns
<1> QED BY <1>3, <1>6 DEF Kept, Owns

-----------------------------------------------------------------------------
(***************************************************************************)
(* Steps that give or take a block, and steps that do not.                 *)
(***************************************************************************)

(* The call gets a block from the library.                                 *)
LEMMA Got ==
  ASSUME TypeOK, Kept, NEW t \in Threads, NEW c \in CallType, Goes(t, c), Neat(c),
         UNCHANGED <<trees, dumps>>, NEW b, Gives(b), HeldBy(c) = Holds(t) \cup {b}
  PROVE  Kept' /\ heap' \subseteq Blocks
<1>1. Holds(t) \subseteq heap BY HoldsAlone
<1>2. b \notin heap /\ heap' = heap \cup {b} /\ b \in Blocks BY DEF Gives
<1>3. heap' = (heap \ Holds(t)) \cup HeldBy(c) BY <1>1, <1>2
<1>4. HeldBy(c) \cap (heap \ Holds(t)) = {} BY <1>1, <1>2
<1>5. Kept' BY <1>3, <1>4, Trade
<1> QED BY <1>2, <1>5 DEF TypeOK

(* The call gives one of its blocks back.                                  *)
LEMMA Gave ==
  ASSUME TypeOK, Kept, NEW t \in Threads, NEW c \in CallType, Goes(t, c), Neat(c),
         UNCHANGED <<trees, dumps>>, NEW b \in Holds(t), Frees(b), HeldBy(c) = Holds(t) \ {b}
  PROVE  Kept' /\ heap' \subseteq Blocks
<1>1. Holds(t) \subseteq heap BY HoldsAlone
<1>2. heap' = heap \ {b} BY DEF Frees
<1>3. heap' = (heap \ Holds(t)) \cup HeldBy(c) BY <1>1, <1>2
<1>4. HeldBy(c) \cap (heap \ Holds(t)) = {} BY <1>1, <1>2
<1>5. Kept' BY <1>3, <1>4, Trade
<1> QED BY <1>2, <1>5 DEF TypeOK

(* The call goes on with the blocks it has.                                *)
LEMMA Went ==
  ASSUME TypeOK, Kept, NEW t \in Threads, NEW c \in CallType, Goes(t, c), Neat(c),
         UNCHANGED <<heap, trees, dumps>>, HeldBy(c) = Holds(t)
  PROVE  Kept' /\ heap' \subseteq Blocks
<1>1. Holds(t) \subseteq heap BY HoldsAlone
<1>2. heap' = (heap \ Holds(t)) \cup HeldBy(c) /\ HeldBy(c) \cap (heap \ Holds(t)) = {}
  BY <1>1
<1>3. Kept' BY <1>2, Trade
<1> QED BY <1>3 DEF TypeOK

(* A handle in callers' hands names one tree.                              *)
LEMMA ReadOn ==
  ASSUME TypeOK, Reading, NEW t \in Threads, NEW c \in CallType, Goes(t, c),
         trees \subseteq trees', c.pc # "dump"
  PROVE  Reading'
<1>1. /\ call'[t] = c /\ \A u \in Threads : u # t => call'[u] = call[u] BY CallSet
<1> QED BY <1>1 DEF Reading, At

(* What a step says of its own call and out-parameters is all it says.     *)
LEMMA ReportingOn ==
  ASSUME TypeOK, \A u \in Threads : Reporting(call[u], out[u]),
         NEW t \in Threads, NEW c \in CallType, Goes(t, c),
         \A u \in Threads : u # t => out'[u] = out[u], Reporting(c, out'[t])
  PROVE  \A u \in Threads : Reporting(call'[u], out'[u])
<1>1. /\ call'[t] = c /\ \A u \in Threads : u # t => call'[u] = call[u] BY CallSet
<1>2. ASSUME NEW u \in Threads PROVE Reporting(call'[u], out'[u])
  <2>1. CASE u = t BY <1>1, <2>1
  <2>2. CASE u # t BY <1>1, <2>2
  <2> QED BY <2>1, <2>2
<1> QED BY <1>2

(* A call that is doing nothing.                                           *)
LEMMA IdleCall ==
  /\ Idle \in CallType /\ HeldBy(Idle) = {} /\ Neat(Idle) /\ Carries(Idle)
  /\ Idle.pc = "idle" /\ Idle.tree = NULL /\ Idle.arena = {} /\ Idle.scratch = {}
  /\ Idle.status = NULL /\ Idle.read = NULL
BY DEF Idle, CallType, Stages, HeldBy, Neat, Carries

(* What a step has to show for the invariant to hold after it.             *)
LEMMA Step ==
  ASSUME IInv, NEW t \in Threads, NEW c \in CallType, Goes(t, c),
         c.tree # NULL <=> c.pc \in {"parse", "layout", "release", "discard"},
         Kept', heap' \subseteq Blocks, dumps' \subseteq Blocks,
         trees' \subseteq [handle : Blocks, chunks : SUBSET Blocks], Reading',
         NEW o \in OutType,
         out' = [out EXCEPT ![t] = o], Reporting(c, o), Carries(c)
  PROVE  IInv'
<1>1. /\ call' \in [Threads -> CallType] /\ call'[t] = c
      /\ \A u \in Threads : u # t => call'[u] = call[u]
  BY CallSet DEF IInv
<1>2. /\ out' \in [Threads -> OutType]
      /\ out'[t] = o /\ \A u \in Threads : u # t => out'[u] = out[u]
  BY DEF IInv, TypeOK
<1>3. TypeOK' BY <1>1, <1>2 DEF IInv, TypeOK
<1>4. \A u \in Threads : Reporting(call'[u], out'[u])
  BY <1>2, ReportingOn DEF IInv
<1>5. ASSUME NEW u \in Threads PROVE Carries(call'[u])
  <2>1. CASE u = t BY <1>1, <2>1
  <2>2. CASE u # t BY <1>1, <2>2 DEF IInv
  <2> QED BY <2>1, <2>2
<1>6. (\A u \in Threads : Carries(call[u]) /\ Reporting(call[u], out[u]))' BY <1>4, <1>5
<1> QED BY <1>3, <1>6, KeptIsNext DEF IInv

(* The invariant says these of a thread's call and out-parameters.         *)
LEMMA Now ==
  ASSUME IInv, NEW t \in Threads
  PROVE  /\ TypeOK /\ Kept /\ Reading /\ Neat(call[t]) /\ call[t] \in CallType
         /\ heap \subseteq Blocks /\ dumps \subseteq Blocks
         /\ trees \subseteq [handle : Blocks, chunks : SUBSET Blocks]
         /\ call[t].tree # NULL <=> call[t].pc \in {"parse", "layout", "release", "discard"}
         /\ Holds(t) \subseteq heap /\ Carries(call[t]) /\ Reporting(call[t], out[t])
         /\ out[t] \in OutType
         /\ out = [out EXCEPT ![t] = out[t]]
<1>1. TypeOK /\ Kept /\ Reading BY KeptIs DEF IInv
<1>2. Neat(call[t]) BY <1>1 DEF Kept, OneOwner, Neat
<1> QED BY <1>1, <1>2, HoldsAlone DEF IInv, TypeOK

(* A thread outside a compile and a free holds nothing.                    *)
LEMMA AtRest ==
  ASSUME IInv, NEW t \in Threads, call[t].pc \in {"idle", "struct", "dump"}
  PROVE  Holds(t) = {}
BY Now DEF Carries, Holds, HeldBy

-----------------------------------------------------------------------------
(***************************************************************************)
(* The steps of a compile, one lemma for each.                             *)
(***************************************************************************)

(* A refused compile changes nothing but the out-parameters.               *)
LEMMA RefuseKeeps == ASSUME IInv, NEW t \in Threads, Refuse(t) PROVE IInv'
<1> DEFINE o == [status |-> "INVALID_ARGUMENT", tree |-> NULL, error |-> "INVALID_ARGUMENT"]
<1>1. Goes(t, call[t]) BY Now DEF Refuse, Goes, TypeOK
<1>2. out' = [out EXCEPT ![t] = o] BY DEF Refuse, Reports
<1>3. Kept' /\ heap' \subseteq Blocks BY <1>1, Now, Went DEF Refuse, Holds
<1>4. Reading' BY Now DEF Refuse, Reading, At
<1>5. Reporting(call[t], o) BY DEF Reporting, Settled, Refuse, At
<1>6. o \in OutType BY DEF Statuses, OutType
<1>7. UNCHANGED <<trees, dumps>> BY DEF Refuse
<1> HIDE DEF o
<1> QED BY <1>1, <1>2, <1>3, <1>4, <1>5, <1>6, <1>7, Now, Step

(* A compile starts: the caller's *tree is NULL.                           *)
LEMMA CompileKeeps == ASSUME IInv, NEW t \in Threads, Compile(t) PROVE IInv'
<1> DEFINE c == [Idle EXCEPT !.pc = "struct"]
           o == [out[t] EXCEPT !.tree = NULL]
<1>1. /\ c \in CallType /\ c.pc = "struct" /\ c.tree = NULL /\ HeldBy(c) = {} /\ Neat(c)
  BY DEF Idle, CallType, Stages, HeldBy, Neat
<1>2. /\ o \in OutType
      /\ o.tree = NULL
  BY Now DEF OutType
<1>3. out' = [out EXCEPT ![t] = o] /\ Goes(t, c) /\ UNCHANGED <<heap, trees, dumps>>
  BY DEF Compile
<1> HIDE DEF c, o
<1>4. Reporting(c, o) BY <1>1, <1>2 DEF Reporting
<1>5. Holds(t) = {} BY Now, AtRest DEF Compile, At
<1>6. Kept' /\ heap' \subseteq Blocks BY <1>1, <1>3, <1>5, Now, Went
<1>7. Reading' BY <1>1, <1>3, Now, ReadOn
<1>8. Carries(c) BY <1>1 DEF Carries, HeldBy
<1> QED BY <1>1, <1>2, <1>3, <1>4, <1>6, <1>7, <1>8, Now, Step

(* The struct is the first block of a compile.                             *)
LEMMA NewTreeKeeps == ASSUME IInv, NEW t \in Threads, NewTree(t) PROVE IInv'
<1>1. PICK b \in Blocks : Gives(b) /\ Goes(t, [call[t] EXCEPT !.pc = "parse", !.tree = b])
  BY DEF NewTree
<1> DEFINE c == [call[t] EXCEPT !.pc = "parse", !.tree = b]
<1>2. call[t] \in CallType /\ Carries(call[t]) /\ call[t].pc = "struct" BY Now DEF NewTree, At
<1>3. /\ c \in CallType /\ c.pc = "parse" /\ c.tree = b /\ c.arena = {} /\ c.scratch = {}
  BY <1>2 DEF CallType, Stages, Carries
<1>4. Goes(t, c) /\ UNCHANGED <<trees, dumps, out>> BY <1>1 DEF NewTree
<1> HIDE DEF c
<1>5. b # NULL BY FacadeAssumption
<1>6. HeldBy(c) = {b} /\ Neat(c) /\ Carries(c) BY <1>3, <1>5 DEF HeldBy, Neat, Carries
<1>7. Holds(t) = {} BY <1>2, AtRest
<1>8. Kept' /\ heap' \subseteq Blocks BY <1>1, <1>3, <1>4, <1>6, <1>7, Now, Got
<1>9. Reading' BY <1>3, <1>4, Now, ReadOn
<1>10. Reporting(c, out[t]) BY <1>2, <1>3, Now DEF Reporting
<1> QED BY <1>3, <1>4, <1>5, <1>6, <1>8, <1>9, <1>10, Now, Step

(* Without a struct the compile returns at once.                           *)
LEMMA NoTreeKeeps == ASSUME IInv, NEW t \in Threads, NoTree(t) PROVE IInv'
<1> DEFINE o == [status |-> "ALLOCATION_FAILED", tree |-> out[t].tree,
                 error |-> "ALLOCATION_FAILED"]
<1>1. call[t].pc = "struct" /\ UNCHANGED <<heap, trees, dumps>> /\ Goes(t, Idle)
  BY DEF NoTree, At
<1>2. out' = [out EXCEPT ![t] = o] BY DEF NoTree, Reports
<1>3. o \in OutType /\ o.tree = NULL /\ o.error = o.status
  BY <1>1, Now DEF OutType, Statuses, Reporting
<1> HIDE DEF o
<1>4. Holds(t) = {} BY <1>1, AtRest
<1>5. Kept' /\ heap' \subseteq Blocks BY <1>1, <1>4, IdleCall, Now, Went
<1>6. Reading' BY <1>1, IdleCall, Now, ReadOn
<1>7. Reporting(Idle, o) BY <1>3, IdleCall DEF Reporting, Settled
<1> QED BY <1>1, <1>2, <1>3, <1>5, <1>6, <1>7, IdleCall, Now, Step

(* An arena grows by one chunk.                                            *)
LEMMA ChunkKeeps ==
  ASSUME IInv, NEW t \in Threads, ParseChunk(t) \/ LayoutChunk(t) PROVE IInv'
<1>1. PICK b, c :
        /\ b \in Blocks /\ Gives(b) /\ Goes(t, c) /\ UNCHANGED <<trees, dumps, out>>
        /\ \/ c = [call[t] EXCEPT !.scratch = @ \cup {b}]
           \/ c = [call[t] EXCEPT !.arena = @ \cup {b}]
  BY DEF ParseChunk, LayoutChunk
<1>2. call[t] \in CallType /\ Neat(call[t]) /\ call[t].pc \in {"parse", "layout"}
  BY Now DEF ParseChunk, LayoutChunk, At
<1>3. b \notin Holds(t) /\ b # NULL BY <1>1, Now, FacadeAssumption DEF Gives
<1>4. /\ c \in CallType /\ c.pc = call[t].pc /\ c.tree = call[t].tree
      /\ c.status = call[t].status
      /\ \/ c.scratch = call[t].scratch \cup {b} /\ c.arena = call[t].arena
         \/ c.arena = call[t].arena \cup {b} /\ c.scratch = call[t].scratch
  BY <1>1, <1>2 DEF CallType
<1>5. HeldBy(c) = Holds(t) \cup {b} BY <1>3, <1>4 DEF HeldBy, Holds
<1>6. call[t].tree # NULL /\ call[t].tree \in Holds(t) BY <1>2, Now DEF Holds, HeldBy
<1>7. Neat(c) BY <1>2, <1>3, <1>4, <1>6 DEF Neat, Holds, HeldBy
<1>8. Carries(c) BY <1>2, <1>4 DEF Carries
<1>9. Kept' /\ heap' \subseteq Blocks BY <1>1, <1>4, <1>5, <1>7, Now, Got
<1>10. Reading' BY <1>1, <1>2, <1>4, Now, ReadOn
<1>11. Reporting(c, out[t]) BY <1>2, <1>4, Now DEF Reporting
<1>12. c.tree # NULL <=> c.pc \in {"parse", "layout", "release", "discard"}
  BY <1>2, <1>4, <1>6
<1> QED BY <1>1, <1>4, <1>7, <1>8, <1>9, <1>10, <1>11, <1>12, Now, Step

(* A stage ends, one way or the other, and the blocks stay where they are. *)
LEMMA StageEnds ==
  ASSUME IInv, NEW t \in Threads, NEW c \in CallType, Goes(t, c), NEW o \in OutType,
         out' = [out EXCEPT ![t] = o], UNCHANGED <<heap, trees, dumps>>,
         call[t].pc \in {"parse", "layout", "release"},
         c.pc \in {"layout", "release", "discard"},
         c.tree = call[t].tree, c.arena = call[t].arena, c.scratch = call[t].scratch,
         Carries(c), Reporting(c, o)
  PROVE  IInv'
<1>1. HeldBy(c) = Holds(t) /\ Neat(c) BY Now DEF HeldBy, Holds, Neat
<1>2. Kept' /\ heap' \subseteq Blocks BY <1>1, Now, Went
<1>3. Reading' BY Now, ReadOn
<1> QED BY <1>1, <1>2, <1>3, Now, Step

(* Both stages go well, or the status is tested after the release.         *)
LEMMA StageKeeps ==
  ASSUME IInv, NEW t \in Threads, Parsed(t) \/ LaidOut(t) \/ GiveUp(t) PROVE IInv'
<1>0. call[t] \in CallType /\ out[t] \in OutType /\ Reporting(call[t], out[t])
  BY Now
<1>1. out' = [out EXCEPT ![t] = out[t]] /\ UNCHANGED <<heap, trees, dumps>>
  BY Now DEF Parsed, LaidOut, GiveUp
<1>2. CASE Parsed(t)
  <2> DEFINE c == [call[t] EXCEPT !.pc = "layout"]
  <2>1. Goes(t, c) /\ call[t].pc = "parse" BY <1>2 DEF Parsed, At
  <2>2. /\ c \in CallType /\ c.pc = "layout" /\ c.tree = call[t].tree
        /\ c.arena = call[t].arena /\ c.scratch = call[t].scratch
    BY <1>0 DEF CallType, Stages
  <2> HIDE DEF c
  <2>3. Carries(c) /\ Reporting(c, out[t]) BY <1>0, <2>1, <2>2 DEF Carries, Reporting
  <2> QED BY <1>0, <1>1, <2>1, <2>2, <2>3, StageEnds
<1>3. CASE LaidOut(t)
  <2> DEFINE c == [call[t] EXCEPT !.pc = "release", !.status = "OK"]
  <2>1. Goes(t, c) /\ call[t].pc = "layout" BY <1>3 DEF LaidOut, At
  <2>2. /\ c \in CallType /\ c.pc = "release" /\ c.tree = call[t].tree /\ c.status = "OK"
        /\ c.arena = call[t].arena /\ c.scratch = call[t].scratch
    BY <1>0 DEF CallType, Stages, Statuses
  <2> HIDE DEF c
  <2>3. Carries(c) /\ Reporting(c, out[t])
    BY <1>0, <2>1, <2>2 DEF Carries, Reporting, NULL
  <2> QED BY <1>0, <1>1, <2>1, <2>2, <2>3, StageEnds
<1>4. CASE GiveUp(t)
  <2> DEFINE c == [call[t] EXCEPT !.pc = "discard"]
  <2>1. /\ Goes(t, c) /\ call[t].pc = "release" /\ call[t].scratch = {}
        /\ call[t].status # "OK"
    BY <1>4 DEF GiveUp, At
  <2>2. /\ c \in CallType /\ c.pc = "discard" /\ c.tree = call[t].tree
        /\ c.status = call[t].status
        /\ c.arena = call[t].arena /\ c.scratch = call[t].scratch
    BY <1>0 DEF CallType, Stages
  <2> HIDE DEF c
  <2>3. Carries(c) /\ Reporting(c, out[t])
    BY <1>0, <2>1, <2>2 DEF Carries, Reporting
  <2> QED BY <1>0, <1>1, <2>1, <2>2, <2>3, StageEnds
<1> QED BY <1>2, <1>3, <1>4

(* A stage fails, and says why.                                            *)
LEMMA StageFailsKeeps ==
  ASSUME IInv, NEW t \in Threads, NEW status \in Statuses, StageFails(t, status) PROVE IInv'
<1> DEFINE c == [call[t] EXCEPT !.pc = "release", !.status = status]
           o == [out[t] EXCEPT !.error = status]
<1>0. /\ call[t] \in CallType /\ out[t] \in OutType /\ Reporting(call[t], out[t])
      /\ call[t].pc \in {"parse", "layout"} /\ out[t].tree = NULL
  BY Now DEF StageFails, At, Reporting
<1>1. out' = [out EXCEPT ![t] = o] /\ UNCHANGED <<heap, trees, dumps>> /\ Goes(t, c)
  BY DEF StageFails
<1>2. /\ c \in CallType /\ c.pc = "release" /\ c.tree = call[t].tree /\ c.status = status
      /\ c.arena = call[t].arena /\ c.scratch = call[t].scratch
  BY <1>0 DEF CallType, Stages
<1>3. o \in OutType /\ o.tree = NULL /\ o.error = status BY <1>0 DEF OutType
<1>4. status # NULL BY DEF Statuses, NULL
<1> HIDE DEF c, o
<1>5. Carries(c) /\ Reporting(c, o) BY <1>2, <1>3, <1>4 DEF Carries, Reporting
<1> QED BY <1>0, <1>1, <1>2, <1>3, <1>5, StageEnds

(* One block of an arena, or at last the struct, is freed.                 *)
LEMMA FreeKeeps ==
  ASSUME IInv, NEW t \in Threads, ReleaseScratch(t) \/ DiscardChunk(t) PROVE IInv'
<1>1. PICK b, c :
        /\ Frees(b) /\ Goes(t, c) /\ UNCHANGED <<trees, dumps, out>>
        /\ \/ b \in call[t].scratch /\ c = [call[t] EXCEPT !.scratch = @ \ {b}]
           \/ b \in call[t].arena /\ c = [call[t] EXCEPT !.arena = @ \ {b}]
  BY DEF ReleaseScratch, DiscardChunk
<1>2. call[t] \in CallType /\ Neat(call[t]) /\ call[t].pc \in {"release", "discard"}
  BY Now DEF ReleaseScratch, DiscardChunk, At
<1>3. /\ c \in CallType /\ c.pc = call[t].pc /\ c.tree = call[t].tree
      /\ c.status = call[t].status
      /\ \/ b \in call[t].scratch /\ c.scratch = call[t].scratch \ {b} /\ c.arena = call[t].arena
         \/ b \in call[t].arena /\ c.arena = call[t].arena \ {b} /\ c.scratch = call[t].scratch
  BY <1>1, <1>2 DEF CallType
<1>4. b \in Holds(t) /\ HeldBy(c) = Holds(t) \ {b}
  BY <1>2, <1>3 DEF HeldBy, Holds, Neat
<1>5. Neat(c) BY <1>2, <1>3 DEF Neat
<1>6. Carries(c) BY <1>2, <1>3, Now DEF Carries
<1>7. Kept' /\ heap' \subseteq Blocks BY <1>1, <1>3, <1>4, <1>5, Now, Gave
<1>8. Reading' BY <1>1, <1>2, <1>3, Now, ReadOn
<1>9. Reporting(c, out[t]) BY <1>2, <1>3, Now DEF Reporting
<1>10. c.tree # NULL <=> c.pc \in {"parse", "layout", "release", "discard"}
  BY <1>2, <1>3, Now
<1> QED BY <1>1, <1>3, <1>5, <1>6, <1>7, <1>8, <1>9, <1>10, Now, Step

(* The struct is the last block of a tree to go.                           *)
LEMMA DiscardTreeKeeps == ASSUME IInv, NEW t \in Threads, DiscardTree(t) PROVE IInv'
<1> DEFINE o == IF call[t].status = NULL THEN out[t]
                ELSE [status |-> call[t].status, tree |-> out[t].tree, error |-> out[t].error]
<1>1. /\ call[t].pc = "discard" /\ call[t].arena = {} /\ Frees(call[t].tree)
      /\ Goes(t, Idle) /\ UNCHANGED <<trees, dumps>>
  BY DEF DiscardTree, At
<1>2. out' = [out EXCEPT ![t] = o]
  <2>1. CASE call[t].status = NULL BY <2>1, Now DEF DiscardTree
  <2>2. CASE call[t].status # NULL BY <2>2 DEF DiscardTree, Reports
  <2> QED BY <2>1, <2>2
<1>3. call[t] \in CallType /\ out[t] \in OutType /\ Reporting(call[t], out[t]) BY Now
<1>4. o \in OutType /\ Settled(o) BY <1>1, <1>3 DEF OutType, CallType, Reporting, Settled
<1> HIDE DEF o
<1>5. call[t].scratch = {} /\ call[t].tree # NULL BY <1>1, Now DEF Carries
<1>6. Holds(t) = {call[t].tree} BY <1>1, <1>5 DEF Holds, HeldBy
<1>7. Kept' /\ heap' \subseteq Blocks BY <1>1, <1>6, IdleCall, Now, Gave
<1>8. Reading' BY <1>1, IdleCall, Now, ReadOn
<1>9. Reporting(Idle, o) BY <1>4, IdleCall DEF Reporting
<1> QED BY <1>1, <1>2, <1>4, <1>7, <1>8, <1>9, IdleCall, Now, Step

-----------------------------------------------------------------------------
(***************************************************************************)
(* Blocks change hands: a compile gives its tree to the caller, a free     *)
(* takes one back.                                                         *)
(***************************************************************************)

(* What the call held is what the new tree owns.                           *)
LEMMA HandOver ==
  ASSUME TypeOK, Kept, NEW t \in Threads, Goes(t, Idle), NEW tree,
         Owns(tree) = Holds(t), tree.handle \notin tree.chunks,
         trees' = trees \cup {tree}, UNCHANGED <<heap, dumps>>
  PROVE  Kept'
<1>1. /\ call'[t] = Idle /\ Holds(t)' = {} /\ Neat(Idle)
      /\ \A u \in Threads : u # t => Holds(u)' = Holds(u) /\ call'[u] = call[u]
  BY CallSet, IdleCall
<1>2. /\ \A u \in Threads : u # t => Holds(u) \cap Owns(tree) = {}
      /\ \A a \in trees : Owns(a) \cap Owns(tree) = {}
      /\ dumps \cap Owns(tree) = {}
  BY HoldsAlone
<1>3. ASSUME NEW b
      PROVE  b \in heap' <=> \/ b \in dumps' \/ \E a \in trees' : b \in Owns(a)
                             \/ \E u \in Threads : b \in Holds(u)'
  <2>1. b \in heap <=> \/ b \in dumps \/ \E a \in trees : b \in Owns(a)
                       \/ \E u \in Threads : b \in Holds(u)
    BY DEF Kept
  <2>2. (\E a \in trees' : b \in Owns(a)) <=> b \in Holds(t) \/ \E a \in trees : b \in Owns(a)
    OBVIOUS
  <2>3. \A u \in Threads : b \in Holds(u)' <=> u # t /\ b \in Holds(u) BY <1>1
  <2> QED BY <2>1, <2>2, <2>3
<1>4. /\ \A a, b \in trees' : a # b => Owns(a) \cap Owns(b) = {}
      /\ \A a \in trees' : Owns(a) \cap dumps' = {} /\ a.handle \notin a.chunks
  BY <1>2 DEF Kept, OneOwner
<1>5. \A u, v \in Threads : u # v => Holds(u)' \cap Holds(v)' = {}
  BY <1>1 DEF Kept, OneOwner
<1>6. \A a \in trees', u \in Threads : Owns(a) \cap Holds(u)' = {}
  BY <1>1, <1>2 DEF Kept, OneOwner
<1>7. \A u \in Threads :
        Holds(u)' \cap dumps' = {} /\ Neat(call'[u])
  BY <1>1 DEF Kept, OneOwner, Neat
<1>8. OneOwner' BY <1>4, <1>5, <1>6, <1>7 DEF OneOwner, Neat, Owns
<1> QED BY <1>3, <1>8 DEF Kept, Owns

(* What the tree owned is what the call holds.                             *)
LEMMA TakeBack ==
  ASSUME TypeOK, Kept, NEW t \in Threads, NEW c \in CallType, Goes(t, c), Neat(c),
         NEW tree \in trees, HeldBy(c) = Owns(tree), Holds(t) = {},
         trees' = trees \ {tree}, UNCHANGED <<heap, dumps>>
  PROVE  Kept'
<1>1. /\ call'[t] = c /\ Holds(t)' = Owns(tree)
      /\ \A u \in Threads : u # t => Holds(u)' = Holds(u) /\ call'[u] = call[u]
  BY CallSet
<1>2. /\ \A u \in Threads : Holds(u) \cap Owns(tree) = {}
      /\ \A a \in trees' : Owns(a) \cap Owns(tree) = {}
      /\ dumps \cap Owns(tree) = {}
  BY DEF Kept, OneOwner
<1>3. ASSUME NEW b
      PROVE  b \in heap' <=> \/ b \in dumps' \/ \E a \in trees' : b \in Owns(a)
                             \/ \E u \in Threads : b \in Holds(u)'
  <2>1. b \in heap <=> \/ b \in dumps \/ \E a \in trees : b \in Owns(a)
                       \/ \E u \in Threads : b \in Holds(u)
    BY DEF Kept
  <2>2. (\E a \in trees : b \in Owns(a)) <=> b \in Owns(tree) \/ \E a \in trees' : b \in Owns(a)
    OBVIOUS
  <2>3. \A u \in Threads : b \in Holds(u)' <=> (u = t /\ b \in Owns(tree)) \/ b \in Holds(u)
    BY <1>1
  <2> QED BY <2>1, <2>2, <2>3
<1>4. /\ \A a, b \in trees' : a # b => Owns(a) \cap Owns(b) = {}
      /\ \A a \in trees' : Owns(a) \cap dumps' = {} /\ a.handle \notin a.chunks
  BY DEF Kept, OneOwner
<1>5. \A u, v \in Threads : u # v => Holds(u)' \cap Holds(v)' = {}
  BY <1>1, <1>2 DEF Kept, OneOwner
<1>6. \A a \in trees', u \in Threads : Owns(a) \cap Holds(u)' = {}
  BY <1>1, <1>2 DEF Kept, OneOwner
<1>7. \A u \in Threads : Holds(u)' \cap dumps' = {} /\ Neat(call'[u])
  BY <1>1, <1>2 DEF Kept, OneOwner, Neat
<1>8. OneOwner' BY <1>4, <1>5, <1>6, <1>7 DEF OneOwner, Neat, Owns
<1> QED BY <1>3, <1>8 DEF Kept, Owns

(* A compile succeeds.                                                     *)
LEMMA SucceedKeeps == ASSUME IInv, NEW t \in Threads, Succeed(t) PROVE IInv'
<1> DEFINE tree == [handle |-> call[t].tree, chunks |-> call[t].arena]
           o == [status |-> "OK", tree |-> call[t].tree, error |-> "OK"]
<1>1. /\ call[t].pc = "release" /\ call[t].scratch = {} /\ trees' = trees \cup {tree}
      /\ Goes(t, Idle) /\ out' = [out EXCEPT ![t] = o] /\ UNCHANGED <<heap, dumps>>
  BY DEF Succeed, At, Reports
<1>2. call[t].tree # NULL /\ call[t] \in CallType /\ Neat(call[t]) BY <1>1, Now
<1>3. /\ tree \in [handle : Blocks, chunks : SUBSET Blocks]
      /\ tree.handle = call[t].tree /\ tree.chunks = call[t].arena
      /\ o \in OutType /\ Settled(o)
  BY <1>2 DEF CallType, OutType, Statuses, Settled
<1> HIDE DEF tree, o
<1>4. Owns(tree) = Holds(t) BY <1>1, <1>2, <1>3 DEF Owns, Holds, HeldBy
<1>5. tree.handle \notin tree.chunks BY <1>2, <1>3 DEF Neat
<1>6. Kept' BY <1>1, <1>4, <1>5, Now, HandOver
<1>7. Reading' BY <1>1, IdleCall, Now, ReadOn
<1>8. Reporting(Idle, o) BY <1>3, IdleCall DEF Reporting
<1> QED BY <1>1, <1>3, <1>6, <1>7, <1>8, IdleCall, Now, Step

(* A caller gives a tree back that nobody reads.                           *)
LEMMA FreeTreeKeeps ==
  ASSUME IInv, NEW t \in Threads, NEW tree \in trees, FreeTree(t, tree) PROVE IInv'
<1> DEFINE c == [Idle EXCEPT !.pc = "discard", !.tree = tree.handle, !.arena = tree.chunks]
<1>1. /\ call[t].pc = "idle" /\ trees' = trees \ {tree} /\ Goes(t, c)
      /\ UNCHANGED <<heap, dumps, out>> /\ \A u \in Threads : call[u].read # tree.handle
  BY DEF FreeTree, At
<1>2. tree.handle \in Blocks /\ tree.chunks \in SUBSET Blocks /\ tree.handle # NULL
  BY Now, FacadeAssumption
<1>3. /\ c \in CallType /\ c.pc = "discard" /\ c.tree = tree.handle /\ c.arena = tree.chunks
      /\ c.scratch = {} /\ c.status = NULL
  BY <1>2 DEF Idle, CallType, Stages
<1> HIDE DEF c
<1>4. tree.handle \notin tree.chunks BY Now DEF Kept, OneOwner
<1>5. HeldBy(c) = Owns(tree) /\ Neat(c) /\ Carries(c)
  BY <1>2, <1>3, <1>4 DEF HeldBy, Owns, Neat, Carries
<1>6. Holds(t) = {} BY <1>1, AtRest
<1>7. Kept' BY <1>1, <1>3, <1>5, <1>6, Now, TakeBack
<1>8. Reading'
  <2>1. call'[t] = c /\ \A u \in Threads : u # t => call'[u] = call[u]
    BY <1>1, <1>3, Now, CallSet
  <2> QED BY <1>1, <1>3, <2>1, Now DEF Reading, At
<1>9. Reporting(c, out[t]) BY <1>1, <1>3, Now DEF Reporting
<1> QED BY <1>1, <1>2, <1>3, <1>5, <1>7, <1>8, <1>9, Now, Step

-----------------------------------------------------------------------------
(***************************************************************************)
(* Dumps.                                                                  *)
(***************************************************************************)

(* A dump starts to read a tree that a caller has.                         *)
LEMMA DumpTreeKeeps ==
  ASSUME IInv, NEW t \in Threads, NEW tree \in trees, DumpTree(t, tree) PROVE IInv'
<1> DEFINE c == [Idle EXCEPT !.pc = "dump", !.read = tree.handle]
<1>1. /\ call[t].pc = "idle" /\ Goes(t, c) /\ UNCHANGED <<heap, trees, dumps, out>>
  BY DEF DumpTree, At
<1>2. tree.handle \in Blocks BY Now
<1>3. /\ c \in CallType /\ c.pc = "dump" /\ c.tree = NULL /\ c.read = tree.handle
      /\ c.arena = {} /\ c.scratch = {}
  BY <1>2 DEF Idle, CallType, Stages
<1> HIDE DEF c
<1>4. HeldBy(c) = {} /\ Neat(c) /\ Carries(c) BY <1>3 DEF HeldBy, Neat, Carries
<1>5. Holds(t) = {} BY <1>1, AtRest
<1>6. Kept' /\ heap' \subseteq Blocks BY <1>1, <1>3, <1>4, <1>5, Now, Went
<1>7. Reading'
  <2>1. call'[t] = c /\ \A u \in Threads : u # t => call'[u] = call[u]
    BY <1>1, <1>3, Now, CallSet
  <2> QED BY <1>1, <1>3, <2>1, Now DEF Reading, At
<1>8. Reporting(c, out[t]) BY <1>1, <1>3, Now DEF Reporting
<1> QED BY <1>1, <1>3, <1>4, <1>6, <1>7, <1>8, Now, Step

(* A block comes to the dumps, or goes from them, and no call has it.      *)
LEMMA DumpsKept ==
  ASSUME TypeOK, Kept, \A u \in Threads : Holds(u)' = Holds(u) /\ Neat(call'[u]),
         UNCHANGED trees, NEW b,
         \/ b \notin heap /\ heap' = heap \cup {b} /\ dumps' = dumps \cup {b}
         \/ b \in dumps /\ heap' = heap \ {b} /\ dumps' = dumps \ {b}
  PROVE  Kept'
<1>1. /\ \A u \in Threads : b \notin Holds(u)
      /\ \A a \in trees : b \notin Owns(a)
  BY DEF Kept, OneOwner
<1>2. \A x : x \in heap' <=> \/ x \in dumps' \/ \E a \in trees' : x \in Owns(a)
                             \/ \E u \in Threads : x \in Holds(u)'
  <2> TAKE x
  <2>1. x \in heap <=> \/ x \in dumps \/ \E a \in trees : x \in Owns(a)
                       \/ \E u \in Threads : x \in Holds(u)
    BY DEF Kept
  <2> QED BY <1>1, <2>1
<1>3. OneOwner'
  <2>1. /\ \A u, v \in Threads : u # v => Holds(u)' \cap Holds(v)' = {}
        /\ \A a \in trees', u \in Threads : Owns(a) \cap Holds(u)' = {}
        /\ \A a, d \in trees' : a # d => Owns(a) \cap Owns(d) = {}
    BY DEF Kept, OneOwner
  <2>2. /\ \A a \in trees' : Owns(a) \cap dumps' = {} /\ a.handle \notin a.chunks
        /\ \A u \in Threads : Holds(u)' \cap dumps' = {}
    BY <1>1 DEF Kept, OneOwner
  <2> QED BY <2>1, <2>2 DEF OneOwner, Neat, Owns
<1> QED BY <1>2, <1>3 DEF Kept, Owns

(* A dump ends, with a block for its caller or without.                    *)
LEMMA DumpedKeeps ==
  ASSUME IInv, NEW t \in Threads, Dumped(t) \/ DumpFails(t) PROVE IInv'
<1>1. /\ call[t].pc = "dump" /\ Goes(t, Idle) /\ UNCHANGED <<trees, out>>
  BY DEF Dumped, DumpFails, At
<1>2. Holds(t) = {} BY <1>1, AtRest
<1>3. Kept' /\ heap' \subseteq Blocks /\ dumps' \subseteq Blocks
  <2>1. CASE DumpFails(t)
    <3>1. UNCHANGED <<heap, trees, dumps>> BY <2>1 DEF DumpFails
    <3> QED BY <1>1, <1>2, <3>1, IdleCall, Now, Went
  <2>2. CASE Dumped(t)
    <3>1. PICK b \in Blocks : b \notin heap /\ heap' = heap \cup {b} /\ dumps' = dumps \cup {b}
      BY <2>2 DEF Dumped, Gives
    <3>2. \A u \in Threads : Holds(u)' = Holds(u) /\ Neat(call'[u])
      <4>1. /\ call'[t] = Idle /\ Holds(t)' = {}
            /\ \A u \in Threads : u # t => Holds(u)' = Holds(u) /\ call'[u] = call[u]
        BY <1>1, IdleCall, CallSet, Now
      <4>2. \A u \in Threads : Neat(call[u]) BY Now
      <4> QED BY <1>2, <4>1, <4>2, IdleCall
    <3>3. Kept' BY <1>1, <3>1, <3>2, Now, DumpsKept
    <3> QED BY <3>1, <3>3, Now
  <2> QED BY <2>1, <2>2, <1>1 DEF Dumped, DumpFails
<1>4. Reading' BY <1>1, IdleCall, Now, ReadOn
<1>5. Reporting(Idle, out[t]) BY <1>1, IdleCall, Now DEF Reporting
<1> QED BY <1>1, <1>3, <1>4, <1>5, IdleCall, Now, Step

(* A caller gives a dump back.                                             *)
LEMMA FreeDumpKeeps ==
  ASSUME IInv, NEW t \in Threads, NEW d \in dumps, FreeDump(t, d) PROVE IInv'
<1>1. /\ heap' = heap \ {d} /\ dumps' = dumps \ {d} /\ UNCHANGED <<trees, call, out>>
  BY DEF FreeDump, Frees
<1>2. \A u \in Threads : Holds(u)' = Holds(u) /\ Neat(call'[u])
  BY <1>1, Now DEF Holds
<1>3. Kept' BY <1>1, <1>2, Now, DumpsKept
<1>4. TypeOK' /\ Reading' BY <1>1, Now DEF TypeOK, Reading, At
<1>5. (\A u \in Threads : Carries(call[u]) /\ Reporting(call[u], out[u]))'
  BY <1>1 DEF IInv
<1> QED BY <1>3, <1>4, <1>5, KeptIsNext DEF IInv

-----------------------------------------------------------------------------
(***************************************************************************)
(* The invariant.                                                          *)
(***************************************************************************)

(* The engine starts with nothing allocated and nothing reported.          *)
LEMMA InitIInv == Init => IInv
<1> SUFFICES ASSUME Init PROVE IInv OBVIOUS
<1>1. /\ heap = {} /\ trees = {} /\ dumps = {} /\ call = [t \in Threads |-> Idle]
      /\ out = [t \in Threads |-> [status |-> NULL, tree |-> NULL, error |-> NULL]]
  BY DEF Init
<1>2. \A t \in Threads : Holds(t) = {} /\ call[t] = Idle BY <1>1, IdleCall DEF Holds
<1>3. TypeOK
  <2>1. [status |-> NULL, tree |-> NULL, error |-> NULL] \in OutType BY DEF OutType
  <2> QED BY <1>1, <2>1, IdleCall DEF TypeOK
<1>4. Kept
  <2>1. \A t \in Threads : Neat(call[t]) BY <1>2, IdleCall
  <2> QED BY <1>1, <1>2, <2>1 DEF Kept, OneOwner, Neat
<1>5. Reading BY <1>2, IdleCall DEF Reading, At
<1>6. \A t \in Threads : Carries(call[t]) /\ Reporting(call[t], out[t])
  <2> TAKE t \in Threads
  <2>1. out[t].error = NULL /\ out[t].status = NULL /\ out[t].tree = NULL BY <1>1
  <2> QED BY <1>2, <2>1, IdleCall DEF Reporting, Settled
<1> QED BY <1>3, <1>4, <1>5, <1>6, KeptIs DEF IInv

(* Every step keeps it.                                                    *)
LEMMA NextKeeps == IInv /\ [Next]_vars => IInv'
<1> SUFFICES ASSUME IInv, [Next]_vars PROVE IInv' OBVIOUS
<1>1. CASE Next
  <2> PICK t \in Threads :
        \/ Refuse(t) \/ Compile(t) \/ NewTree(t) \/ NoTree(t)
        \/ ParseChunk(t) \/ LayoutChunk(t) \/ Parsed(t) \/ LaidOut(t)
        \/ \E status \in Statuses : StageFails(t, status)
        \/ ReleaseScratch(t) \/ Succeed(t) \/ GiveUp(t)
        \/ DiscardChunk(t) \/ DiscardTree(t)
        \/ \E tree \in trees : FreeTree(t, tree) \/ DumpTree(t, tree)
        \/ Dumped(t) \/ DumpFails(t)
        \/ \E d \in dumps : FreeDump(t, d)
    BY <1>1 DEF Next
  <2>1. CASE Refuse(t) BY <2>1, RefuseKeeps
  <2>2. CASE Compile(t) BY <2>2, CompileKeeps
  <2>3. CASE NewTree(t) BY <2>3, NewTreeKeeps
  <2>4. CASE NoTree(t) BY <2>4, NoTreeKeeps
  <2>5. CASE ParseChunk(t) \/ LayoutChunk(t) BY <2>5, ChunkKeeps
  <2>6. CASE Parsed(t) \/ LaidOut(t) \/ GiveUp(t) BY <2>6, StageKeeps
  <2>7. CASE \E status \in Statuses : StageFails(t, status) BY <2>7, StageFailsKeeps
  <2>8. CASE ReleaseScratch(t) \/ DiscardChunk(t) BY <2>8, FreeKeeps
  <2>9. CASE Succeed(t) BY <2>9, SucceedKeeps
  <2>10. CASE DiscardTree(t) BY <2>10, DiscardTreeKeeps
  <2>11. CASE \E tree \in trees : FreeTree(t, tree) BY <2>11, FreeTreeKeeps
  <2>12. CASE \E tree \in trees : DumpTree(t, tree) BY <2>12, DumpTreeKeeps
  <2>13. CASE Dumped(t) \/ DumpFails(t) BY <2>13, DumpedKeeps
  <2>14. CASE \E d \in dumps : FreeDump(t, d) BY <2>14, FreeDumpKeeps
  <2> QED BY <2>1, <2>2, <2>3, <2>4, <2>5, <2>6, <2>7, <2>8, <2>9, <2>10, <2>11,
             <2>12, <2>13, <2>14
<1>2. CASE UNCHANGED vars
  <2>1. UNCHANGED <<heap, trees, dumps, call, out>> BY <1>2 DEF vars
  <2>2. TypeOK' /\ Reading' BY <2>1 DEF IInv, TypeOK, Reading, At
  <2>3. NothingLeaked' /\ OneOwner'
    BY <2>1 DEF IInv, NothingLeaked, OneOwner, Owns, Holds
  <2>4. (\A u \in Threads : Carries(call[u]) /\ Reporting(call[u], out[u]))'
    BY <2>1 DEF IInv
  <2> QED BY <2>2, <2>3, <2>4 DEF IInv
<1> QED BY <1>1, <1>2

(* The invariant holds throughout.                                         *)
THEOREM FacadeInvariance == Spec => []IInv
BY InitIInv, NextKeeps, PTL DEF Spec

-----------------------------------------------------------------------------
(***************************************************************************)
(* What tex_core.h promises.                                               *)
(***************************************************************************)

(* Every allocated block belongs to a tree, a dump or a call: whichever    *)
(* stage of whichever thread's compile fails, nothing is leaked.           *)
THEOREM NoLeak == Spec => []NothingLeaked
<1>1. IInv => NothingLeaked BY DEF IInv
<1> QED BY <1>1, FacadeInvariance, PTL

(* No block has two owners, so that no free can hit a block of another.    *)
THEOREM SoleOwner == Spec => []OneOwner
<1>1. IInv => OneOwner BY DEF IInv
<1> QED BY <1>1, FacadeInvariance, PTL

(* A dump reads blocks that stay allocated while it reads them.            *)
THEOREM SafeReaders == Spec => []ReadersSafe
<1>1. IInv => ReadersSafe
  <2> SUFFICES ASSUME IInv, NEW t \in Threads, At(t, "dump")
               PROVE  \E tree \in trees : tree.handle = call[t].read /\ Owns(tree) \subseteq heap
    BY DEF ReadersSafe
  <2>1. PICK tree \in trees : tree.handle = call[t].read BY Now DEF Reading
  <2>2. Owns(tree) \subseteq heap BY Now, HoldsAlone
  <2> QED BY <2>1, <2>2
<1> QED BY <1>1, FacadeInvariance, PTL

(* A compile that fails leaves a NULL tree and its status in the error.    *)
THEOREM OutParametersHold == Spec => []OutParameters
<1>1. IInv => OutParameters BY DEF IInv, OutParameters, Reporting, Settled, At
<1> QED BY <1>1, FacadeInvariance, PTL

(* Every block has one owner, for any number of threads and blocks.        *)
THEOREM AllOwned == Spec => []Owned
<1>1. IInv => Owned BY DEF IInv, Owned
<1> QED BY <1>1, FacadeInvariance, PTL
=============================================================================
