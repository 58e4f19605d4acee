-------------------------------- MODULE Seam --------------------------------
(***************************************************************************)
(* What the allocation seam promises its callers, whatever their number: a *)
(* budget of allocations that is spent one at a time, that refuses exactly *)
(* when it is spent, and that anyone may set anew at any time.             *)
(***************************************************************************)
EXTENDS Integers

CONSTANT Callers

VARIABLES
  budget,   (* allocations that may still succeed; negative: any number    *)
  phase     (* what each caller is at: resting, asking or granted          *)

seam == <<budget, phase>>

Moves(t, from, to) == phase[t] = from /\ phase' = [phase EXCEPT ![t] = to]

Begin == budget = -1 /\ phase = [t \in Callers |-> "resting"]

SetBudget == budget' \in Int /\ UNCHANGED phase

Ask(t) == Moves(t, "resting", "asking") /\ UNCHANGED budget

Grant(t) ==
  /\ Moves(t, "asking", "granted")
  /\ budget # 0
  /\ budget' = IF budget > 0 THEN budget - 1 ELSE budget

RefuseCaller(t) == Moves(t, "asking", "resting") /\ budget = 0 /\ UNCHANGED budget

Use(t) == Moves(t, "granted", "resting") /\ UNCHANGED budget

Step == SetBudget \/ \E t \in Callers : Ask(t) \/ Grant(t) \/ RefuseCaller(t) \/ Use(t)

Spec == Begin /\ [][Step]_seam
=============================================================================
