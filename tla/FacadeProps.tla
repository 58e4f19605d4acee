----------------------------- MODULE FacadeProps -----------------------------
(***************************************************************************)
(* What tex_core.h promises: who owns what, and what a compile leaves.     *)
(***************************************************************************)
EXTENDS Facade

Stages == {"idle", "struct", "parse", "layout", "release", "discard", "dump"}

CallType == [pc : Stages, tree : Blocks \cup {NULL}, arena : SUBSET Blocks,
             scratch : SUBSET Blocks, status : Statuses \cup {NULL},
             read : Blocks \cup {NULL}]

OutType == [status : Statuses \cup {NULL}, tree : Blocks \cup {NULL},
            error : Statuses \cup {NULL}]

(* Types; a call has a tree exactly from its allocation to its release.    *)
TypeOK ==
  /\ heap \subseteq Blocks /\ dumps \subseteq Blocks
  /\ trees \subseteq [handle : Blocks, chunks : SUBSET Blocks]
  /\ call \in [Threads -> CallType]
  /\ out \in [Threads -> OutType]
  /\ \A t \in Threads :
       call[t].tree # NULL <=> call[t].pc \in {"parse", "layout", "release", "discard"}

(* What a tree owns, and what a call in progress holds.                    *)
Owns(tree) == {tree.handle} \cup tree.chunks
HeldBy(c)  == ({c.tree} \ {NULL}) \cup c.arena \cup c.scratch
Holds(t)   == HeldBy(call[t])

(* "Nothing is leaked" (tex_core.h), on any path of any thread's compile:  *)
(* every allocated block belongs to a tree or a dump in a caller's hands,  *)
(* or to a call that has not returned.                                     *)
NothingLeaked ==
  heap = dumps \cup (UNION {Owns(tree) : tree \in trees})
               \cup (UNION {Holds(t) : t \in Threads})

(* Nothing is freed twice, or under somebody who still has it: no block    *)
(* belongs to two trees, dumps or calls.                                   *)
OneOwner ==
  /\ \A a, b \in trees : a # b => Owns(a) \cap Owns(b) = {}
  /\ \A t, u \in Threads : t # u => Holds(t) \cap Holds(u) = {}
  /\ \A a \in trees, t \in Threads : Owns(a) \cap Holds(t) = {}
  /\ \A a \in trees : Owns(a) \cap dumps = {} /\ a.handle \notin a.chunks
  /\ \A t \in Threads :
       /\ Holds(t) \cap dumps = {} /\ call[t].arena \cap call[t].scratch = {}
       /\ call[t].tree \notin call[t].arena \cup call[t].scratch

(* A tree that a thread is reading is whole: its caller has not given it   *)
(* back, and no compile running beside it has touched its blocks.          *)
ReadersSafe ==
  \A t \in Threads : At(t, "dump") =>
    \E tree \in trees : tree.handle = call[t].read /\ Owns(tree) \subseteq heap

(* "On failure *tree is NULL, error is filled", on success error is reset  *)
(* to OK (tex_core.h): never the handle or the status of an earlier call.  *)
OutParameters ==
  \A t \in Threads :
    /\ call[t].pc \in {"struct", "parse", "layout", "release"} => out[t].tree = NULL
    /\ At(t, "idle") =>
         /\ out[t].error = out[t].status
         /\ out[t].status # "OK" => out[t].tree = NULL

(* Every allocated block has an owner, and only one.                       *)
Owned == TypeOK /\ NothingLeaked /\ OneOwner
=============================================================================
