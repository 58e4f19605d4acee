-------------------------------- MODULE Arena --------------------------------
(***************************************************************************)
(* The chunked bump allocator of packages/tex-core/core/memory.c:          *)
(* txc_arena_init, txc_arena_alloc and txc_arena_release, for one arena in *)
(* one thread, with the arithmetic of a size_t that is SizeMax + 1 wide.   *)
(* Chunk 1 is the oldest, the last is the arena's head.                    *)
(***************************************************************************)
EXTENDS Integers, Sequences

CONSTANTS
  SizeMax,        (* SIZE_MAX                                              *)
  Alignment,      (* sizeof(txc_arena_align)                               *)
  Header,         (* sizeof(txc_arena_chunk)                               *)
  FirstCapacity,  (* TXC_ARENA_CHUNK_CAPACITY                              *)
  CapacityLimit,  (* TXC_ARENA_CHUNK_CAPACITY_LIMIT                        *)
  Sizes,          (* the sizes that callers ask for                        *)
  MaxChunks       (* bound on the chunks the C library can give            *)

ASSUME ArenaAssumption ==
  /\ SizeMax \in Nat /\ Header \in 0 .. SizeMax
  /\ Alignment \in 1 .. SizeMax
  /\ FirstCapacity \in Nat /\ CapacityLimit \in Nat
  /\ Sizes \subseteq 0 .. SizeMax
  /\ MaxChunks \in Nat

VARIABLES
  chunks,   (* the arena's chunks, each with the bytes asked of txc_malloc *)
  next,     (* next_capacity                                               *)
  blocks    (* what txc_arena_alloc has returned and is still valid        *)

arena == <<chunks, next, blocks>>

ArenaInit == chunks = <<>> /\ next = FirstCapacity /\ blocks = {}

Wrap(n) == n % (SizeMax + 1)

Rounded(size) == (Wrap(size + Alignment - 1) \div Alignment) * Alignment

-----------------------------------------------------------------------------
Newest == Len(chunks)

Fits(need) == Newest > 0 /\ chunks[Newest].capacity - chunks[Newest].used >= need

(* The block is cut from the last of cs.                                   *)
Place(cs, size, need) ==
  LET h == Len(cs) IN
    /\ chunks' = [cs EXCEPT ![h].used = @ + need]
    /\ blocks' = blocks \cup {[chunk |-> h, begin |-> cs[h].used, size |-> size]}

(* A request too large for the schedule gets a chunk of its size.          *)
Capacity(need) == IF need > next THEN need ELSE next

Advance(need) ==
  next' = IF need <= next /\ next < CapacityLimit THEN next * 2 ELSE next

TooLarge(capacity) == capacity > SizeMax - Header

-----------------------------------------------------------------------------
(* txc_arena_alloc.                                                        *)
Overflows(size) == Rounded(size) < size /\ UNCHANGED arena

BumpUnchecked(size) ==                  (* mutant: the wrap goes unnoticed   *)
  LET need == Rounded(size) IN
    /\ Fits(need)
    /\ Place(chunks, size, need)
    /\ UNCHANGED next

Bump(size) ==
  LET need == Rounded(size) IN
    /\ need >= size /\ Fits(need)
    /\ Place(chunks, size, need)
    /\ UNCHANGED next

(* No chunk can be had: the schedule has moved on all the same.            *)
Fails(size) ==
  LET need == Rounded(size) IN
    /\ need >= size /\ ~Fits(need)
    /\ Advance(need)
    /\ UNCHANGED <<chunks, blocks>>

Refill(size) ==
  LET need == Rounded(size)
      chunk == [capacity |-> Capacity(need), used |-> 0,
                bytes |-> Wrap(Header + Capacity(need))]
  IN
    /\ need >= size /\ ~Fits(need)
    /\ ~TooLarge(Capacity(need))
    /\ Newest < MaxChunks
    /\ Advance(need)
    /\ Place(Append(chunks, chunk), size, need)

(* txc_arena_release.                                                      *)
ArenaRelease == chunks' = <<>> /\ blocks' = {} /\ UNCHANGED next

ArenaNext ==
  \/ \E size \in Sizes : Overflows(size) \/ Bump(size) \/ Fails(size) \/ Refill(size)
  \/ ArenaRelease

ArenaSpec == ArenaInit /\ [][ArenaNext]_arena

-----------------------------------------------------------------------------
(***************************************************************************)
(* Properties.                                                             *)
(***************************************************************************)

(* Types; no chunk is filled beyond its capacity, so that capacity - used  *)
(* never wraps, and what is used is a whole number of alignment units.     *)
ArenaTypeOK ==
  /\ chunks \in Seq([capacity : Nat, used : Nat, bytes : Nat])
  /\ next \in Nat
  /\ blocks \subseteq [chunk : DOMAIN chunks, begin : Nat, size : 0 .. SizeMax]
  /\ \A i \in DOMAIN chunks :
       chunks[i].used <= chunks[i].capacity /\ chunks[i].used % Alignment = 0

(* A block is aligned, and lies with all the bytes asked for inside the    *)
(* memory that txc_malloc was asked for, whatever the size asked for:      *)
(* neither the rounding nor the size of the chunk wraps unnoticed.         *)
BlocksHeld ==
  \A b \in blocks :
    /\ b.begin % Alignment = 0
    /\ b.begin + b.size <= chunks[b.chunk].used
    /\ Header + b.begin + b.size <= chunks[b.chunk].bytes

(* No two blocks overlap: what layout writes through one node never        *)
(* changes another.                                                        *)
BlocksApart ==
  \A a, b \in blocks :
    a.chunk = b.chunk /\ a # b =>
      a.begin + a.size <= b.begin \/ b.begin + b.size <= a.begin

(* What txc_arena_alloc returns may be written to, all of it, whatever was *)
(* returned before.                                                        *)
BlocksSound == ArenaTypeOK /\ BlocksHeld /\ BlocksApart
=============================================================================
