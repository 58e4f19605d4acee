---------------------------- MODULE MlistProofs -----------------------------
(***************************************************************************)
(* Proofs about the layout of one list, for every set of lists and styles. *)
(***************************************************************************)
EXTENDS MlistProps, TLAPS

(* The style a script is laid out in is a style.                           *)
LEMMA StylesClosed ==
  ASSUME NEW s \in MathStyles
  PROVE  SupStyle(s) \in MathStyles /\ SubStyle(s) \in MathStyles
<1>1. s \in {0, 1, 2, 3, 4, 5, 6, 7} BY SMT DEF MathStyles
<1>2. s \div 4 \in {0, 1} /\ s % 2 \in {0, 1} BY <1>1, SMT
<1> QED BY <1>2, SMT DEF SupStyle, SubStyle, MathStyles, Script

(* Demoting an atom leaves a list, of the same length and kinds, whose     *)
(* classes change at that atom alone.                                      *)
LEMMA DemoteList ==
  ASSUME items \in Seq(Items), NEW n \in DOMAIN items
  PROVE  /\ Demote(n) \in Seq(Items) /\ Len(Demote(n)) = Len(items)
         /\ \A k \in DOMAIN items :
              /\ Demote(n)[k].kind = items[k].kind
              /\ Demote(n)[k].class = IF k = n THEN "ORD" ELSE items[k].class
         /\ \A k \in DOMAIN items : k # n => Demote(n)[k] = items[k]
         /\ Demote(n)[n] = [items[n] EXCEPT !.class = "ORD"]
<1>1. items[n] \in Items OBVIOUS
<1>2. [items[n] EXCEPT !.class = "ORD"] \in Items
  BY <1>1 DEF Items, Classes
<1>3. Demote(n) = [items EXCEPT ![n] = [items[n] EXCEPT !.class = "ORD"]]
  BY DEF Demote
<1>4. [items[n] EXCEPT !.class = "ORD"].kind = items[n].kind
        /\ [items[n] EXCEPT !.class = "ORD"].class = "ORD"
  BY <1>1 DEF Items
<1>5. Demote(n) \in Seq(Items) /\ Len(Demote(n)) = Len(items)
  BY <1>2, <1>3
<1>6. \A k \in DOMAIN items : k # n => Demote(n)[k] = items[k]
  BY <1>3
<1>7. Demote(n)[n] = [items[n] EXCEPT !.class = "ORD"]
  BY <1>3
<1> QED BY <1>4, <1>5, <1>6, <1>7

-----------------------------------------------------------------------------
(***************************************************************************)
(* The inductive invariant: previous is the last atom before the item the  *)
(* pass is at; the pairs passed are settled; the tally adds the cost of    *)
(* each item; and the children built so far are those the tally allows.    *)
(***************************************************************************)

IsLast(p, n) ==
  /\ p \in 0 .. n - 1 /\ (p # 0 => IsAtom(p))
  /\ \A k \in p + 1 .. n - 1 : ~IsAtom(k)

(* The pair of atom n and the atom p before it is one the table knows.     *)
Possible(p, n) ==
  /\ p = 0 => items[n].class # "BIN"
  /\ p # 0 /\ items[p].class \in DOMAIN Impossible =>
       items[n].class \notin Impossible[items[p].class]

Passed == IF pc = "resolve" THEN at - 1 ELSE Len(items)

Settled ==
  math => \A n \in 1 .. Passed : \A p \in 0 .. n - 1 :
            IsAtom(n) /\ IsLast(p, n) => Possible(p, n)

TallyAt(n) == IF n = 0 THEN 0 ELSE tally[n]

Tallied ==
  /\ pc = "resolve" => tally = << >>
  /\ pc = "count" => Len(tally) = at - 1
  /\ pc \in {"build", "item", "scripts", "done"} => Len(tally) = Len(items)
  /\ \A n \in 1 .. Len(tally) :
       /\ tally[n] <= capacity
       /\ \A p \in 0 .. n - 1 : IsLast(p, n) => tally[n] = TallyAt(n - 1) + Cost(p, n)
  /\ capacity = TallyAt(Len(tally))

GapNodes     == IF Spaced(previous, at) THEN 1 ELSE 0
NucleusNodes == IF Here.nucleus = "EMPTY" THEN 0 ELSE 1

Built ==
  /\ pc \in {"resolve", "count"} => children = << >>
  /\ pc = "build" => Len(children) = TallyAt(at - 1)
  /\ pc = "item" => ~AtEnd /\ Len(children) = TallyAt(at - 1) + GapNodes
  /\ pc = "scripts" =>
       /\ ~AtEnd /\ IsAtom(at)
       /\ Len(children) = TallyAt(at - 1) + GapNodes + NucleusNodes
       /\ Here.nucleus # "EMPTY" =>
            children # << >> /\ children[Len(children)] = NodeOf("NUCLEUS", at, style)
  /\ pc = "done" => Len(children) = capacity

IInv == TypeOK /\ IsLast(previous, at) /\ Settled /\ Tallied /\ Built

-----------------------------------------------------------------------------
(* The last atom is one, and moves on with the item passed.                *)
LEMMA LastUnique ==
  ASSUME NEW n \in Nat, NEW p, NEW q, IsLast(p, n), IsLast(q, n)
  PROVE  p = q
BY DEF IsLast

LEMMA LastMoves ==
  ASSUME NEW n \in Nat, NEW p, IsLast(p, n)
  PROVE  IsLast(IF IsAtom(n) THEN n ELSE p, n + 1)
BY DEF IsLast

(* A simple node is a node.                                                *)
LEMMA NodeTyped ==
  ASSUME NEW part \in Parts, NEW n \in Nat, NEW s \in MathStyles
  PROVE  NodeOf(part, n, s) \in Simple /\ NodeOf(part, n, s) \in Nodes
BY DEF NodeOf, Simple, Nodes

LEMMA GapTyped ==
  ASSUME NEW l, NEW r, Gap(l, r) # "NONE"
  PROVE  Gap(l, r) \in Parts
BY DEF Gap, InterAtomWidth, Parts

(* The scripts of an atom are nodes, one for each.                         *)
LEMMA ScriptsTyped ==
  ASSUME TypeOK, ~AtEnd
  PROVE  /\ ScriptNodes \in Seq(Simple) /\ ScriptNodes \in Seq(Nodes)
         /\ Len(ScriptNodes) = Len(Here.scripts) /\ Len(Here.scripts) \in Nat
<1>1. Here \in Items /\ at \in Nat BY DEF TypeOK, AtEnd, Here
<1>2. Here.scripts \in Seq({"SUP", "SUB"})
  <2>1. Here.scripts \in {<< >>, <<"SUP">>, <<"SUB">>, <<"SUP", "SUB">>, <<"SUB", "SUP">>}
    BY <1>1 DEF Items
  <2>2. {<< >>, <<"SUP">>, <<"SUB">>, <<"SUP", "SUB">>, <<"SUB", "SUP">>}
          \subseteq Seq({"SUP", "SUB"})
    OBVIOUS
  <2> QED BY <2>1, <2>2
<1>3. \A k \in DOMAIN Here.scripts :
        Here.scripts[k] \in Parts /\ ScriptStyle(Here.scripts[k]) \in MathStyles
  BY <1>2, StylesClosed DEF ScriptStyle, TypeOK, Parts
<1>4. \A k \in DOMAIN Here.scripts :
        /\ NodeOf(Here.scripts[k], at, ScriptStyle(Here.scripts[k])) \in Simple
        /\ NodeOf(Here.scripts[k], at, ScriptStyle(Here.scripts[k])) \in Nodes
  BY <1>1, <1>3, NodeTyped
<1>5. DOMAIN Here.scripts = 1 .. Len(Here.scripts) /\ Len(Here.scripts) \in Nat
  BY <1>2
<1> QED BY <1>4, <1>5 DEF ScriptNodes

-----------------------------------------------------------------------------
(* The invariant holds at the start.                                       *)
LEMMA InitInv == Init => IInv
<1> SUFFICES ASSUME Init PROVE IInv OBVIOUS
<1>1. given \in Seq(Items) /\ items \in Seq(Items) /\ Len(items) \in Nat
  BY ListAssumption DEF Init
<1>2. TypeOK
  BY <1>1, ListAssumption DEF Init, TypeOK, Passes
<1>3. IsLast(previous, at) BY DEF Init, IsLast
<1>4. Settled BY <1>1 DEF Init, Settled, Passed
<1>5. Tallied BY DEF Init, Tallied, TallyAt
<1>6. Built BY DEF Init, Built
<1> QED BY <1>2, <1>3, <1>4, <1>5, <1>6 DEF IInv

-----------------------------------------------------------------------------
(***************************************************************************)
(* The resolving pass.                                                     *)
(***************************************************************************)

(* What resolving an item does to the list.                                *)
LEMMA ResolveEffect ==
  ASSUME IInv, ResolveItem
  PROVE  /\ items' \in Seq(Items) /\ Len(items') = Len(items)
         /\ \A k \in DOMAIN items : items'[k].kind = items[k].kind
         /\ \A k \in DOMAIN items :
              items'[k] # items[k] =>
                /\ items[k].class = "BIN" /\ k \in {previous, at}
                /\ items'[k] = [items[k] EXCEPT !.class = "ORD"]
                /\ items'[k].class = "ORD"
<1> USE DEF IInv
<1>1. items \in Seq(Items) /\ Len(items) \in Nat /\ at \in DOMAIN items
        /\ (previous # 0 => previous \in DOMAIN items)
  BY DEF TypeOK, ResolveItem, AtEnd
<1>2. CASE OpensOperand
  <2>1. items' = Demote(at) BY <1>2 DEF ResolveItem, OpensOperand, EndsOperand
  <2> QED BY <1>1, <1>2, <2>1, DemoteList DEF OpensOperand, Here
<1>3. CASE ~OpensOperand /\ EndsOperand
  <2>1. items' = Demote(previous) BY <1>3, Zenon DEF ResolveItem
  <2>2. previous \in DOMAIN items /\ items[previous].class = "BIN"
    BY <1>1, <1>3 DEF EndsOperand
  <2> QED BY <1>1, <2>1, <2>2, DemoteList
<1>4. CASE ~OpensOperand /\ ~EndsOperand
  <2>1. items' = items BY <1>4 DEF ResolveItem
  <2> QED BY <1>1, <2>1
<1> QED BY <1>2, <1>3, <1>4

LEMMA ResolveInv == IInv /\ ResolveItem => IInv'
<1> SUFFICES ASSUME IInv, ResolveItem PROVE IInv' OBVIOUS
<1> USE DEF IInv
<1>1. /\ items' \in Seq(Items) /\ Len(items') = Len(items) /\ Len(items) \in Nat
      /\ \A k \in DOMAIN items : items'[k].kind = items[k].kind
      /\ at \in 1 .. Len(items) /\ at' = at + 1 /\ DOMAIN items = 1 .. Len(items)
  BY ResolveEffect DEF TypeOK, ResolveItem, AtEnd
<1>2. TypeOK'
  BY <1>1 DEF TypeOK, ResolveItem
<1>3. \A n \in 1 .. at + 1 : \A p \in 0 .. n - 1 : IsLast(p, n)' <=> IsLast(p, n)
  BY <1>1 DEF IsLast, IsAtom
<1>4. IsLast(previous', at + 1)
  BY <1>1, LastMoves DEF ResolveItem
<1>5. previous' \in 0 .. at
  BY <1>1 DEF ResolveItem, IsLast
<1>6. IsLast(previous, at)'
  <2>1. \A k \in 1 .. at : IsAtom(k)' <=> IsAtom(k)
    BY <1>1 DEF IsAtom
  <2>2. previous' # 0 => items'[previous'].kind = "ATOM"
    <3>1. previous' # 0 => IsAtom(previous') BY <1>4 DEF IsLast
    <3>2. previous' # 0 => previous' \in 1 .. at BY <1>1, <1>5
    <3> QED BY <2>1, <3>1, <3>2 DEF IsAtom
  <2>3. \A k \in previous' + 1 .. at : ~IsAtom(k)'
    <3>1. \A k \in previous' + 1 .. at : ~IsAtom(k)
      <4>1. \A k \in previous' + 1 .. (at + 1) - 1 : ~IsAtom(k) BY <1>4 DEF IsLast
      <4>2. at \in Nat /\ (at + 1) - 1 = at BY <1>1
      <4> QED BY <4>1, <4>2, Zenon
    <3>2. at \in Nat /\ previous' \in Nat BY <1>1, <1>5
    <3>3. \A p, n \in Nat : \A k \in p + 1 .. n : k \in 1 .. n OBVIOUS
    <3>4. \A k \in previous' + 1 .. at : k \in 1 .. at BY <3>2, <3>3, Zenon
    <3> QED BY <2>1, <3>1, <3>4
  <2>4. at \in Nat /\ at' = at + 1 BY <1>1
  <2>5. previous' # 0 => IsAtom(previous)' BY <2>2 DEF IsAtom
  <2>6. \A k \in previous' + 1 .. at' - 1 : ~IsAtom(k)' BY <2>3, <2>4
  <2>7. previous' \in 0 .. at' - 1 BY <2>4, <1>5
  <2> QED BY <2>5, <2>6, <2>7 DEF IsLast
<1>7. Settled'
  <2> SUFFICES ASSUME math', NEW n \in 1 .. at, NEW p \in 0 .. n - 1,
                      IsAtom(n)', IsLast(p, n)'
               PROVE  Possible(p, n)'
    BY <1>1 DEF Settled, Passed, ResolveItem
  <2>1. IsLast(p, n) /\ IsAtom(n) /\ n \in DOMAIN items
    BY <1>1, <1>3 DEF IsAtom
  <2>2. p # 0 => p \in DOMAIN items
    BY <1>1
  <2>3. CASE items'[n] # items[n]
    <3>1. items'[n].class = "ORD" BY <2>1, <2>3, ResolveEffect
    <3> QED BY <3>1 DEF Possible, Impossible
  <2>4. CASE items'[n] = items[n] /\ p # 0 /\ items'[p] # items[p]
    <3>1. items'[p].class = "ORD" BY <2>2, <2>4, ResolveEffect
    <3> QED BY <2>4, <3>1 DEF Possible, Impossible
  <2>5. CASE items'[n] = items[n] /\ (p # 0 => items'[p] = items[p])
    <3>1. Possible(p, n)' <=> Possible(p, n)
      BY <2>5 DEF Possible, Impossible
    <3>2. CASE n < at
      <4>1. math /\ pc = "resolve" BY DEF ResolveItem
      <4>2. n \in 1 .. Passed BY <3>2, <4>1, <1>1 DEF Passed
      <4> QED BY <2>1, <3>1, <4>1, <4>2 DEF Settled
    <3>3. CASE n = at
      <4>1. p = previous
        <5>1. at \in Nat /\ IsLast(p, at) BY <2>1, <3>3, <1>1
        <5> QED BY <5>1, LastUnique
      <4>2. ~OpensOperand
        <5>1. SUFFICES ASSUME OpensOperand PROVE items'[at].class = "ORD"
          BY <2>5, <3>3, <5>1 DEF OpensOperand, Here
        <5>2. items' = Demote(at) BY <5>1 DEF ResolveItem, OpensOperand, EndsOperand
        <5> QED BY <5>2, <1>1, DemoteList DEF TypeOK
      <4>3. ~EndsOperand
        <5>1. SUFFICES ASSUME EndsOperand PROVE items'[previous].class = "ORD"
          BY <2>5, <4>1, <5>1 DEF EndsOperand
        <5>2. items' = Demote(previous) BY <4>2, <5>1, Zenon DEF ResolveItem
        <5>3. previous \in DOMAIN items BY <1>1, <5>1 DEF EndsOperand, TypeOK
        <5> QED BY <5>2, <5>3, DemoteList DEF TypeOK
      <4>4. items[n] \in Items /\ (p # 0 => items[p] \in Items)
        BY <2>1, <2>2 DEF TypeOK
      <4>5. items[n].class = "BIN" => p # 0 /\ ~DemotedBy(items[p].class)
        BY <2>1, <3>3, <4>1, <4>2 DEF OpensOperand, Here
      <4>6. items[n].class \in {"REL", "CLOSE", "PUNCT"} /\ p # 0 =>
              items[p].class # "BIN"
        BY <2>1, <3>3, <4>1, <4>3 DEF EndsOperand, Here
      <4>7. Possible(p, n)
        BY <4>5, <4>6 DEF Possible, Impossible, DemotedBy, Demoting
      <4> QED BY <3>1, <4>7
    <3> QED BY <3>2, <3>3, <1>1
  <2> QED BY <2>3, <2>4, <2>5
<1>8. Tallied' /\ Built'
  BY DEF Tallied, Built, ResolveItem, TallyAt, TypeOK
<1> QED BY <1>2, <1>6, <1>7, <1>8

LEMMA ResolvedEffect ==
  ASSUME IInv, Resolved
  PROVE  /\ items' \in Seq(Items) /\ Len(items') = Len(items)
         /\ \A k \in DOMAIN items : items'[k].kind = items[k].kind
         /\ \A k \in DOMAIN items :
              items'[k] # items[k] =>
                /\ items[k].class = "BIN"
                /\ items'[k] = [items[k] EXCEPT !.class = "ORD"]
                /\ items'[k].class = "ORD"
<1>1. items \in Seq(Items) /\ Len(items) \in Nat
        /\ (previous # 0 => previous \in DOMAIN items)
  BY DEF TypeOK, IInv
<1>2. CASE previous # 0 /\ items[previous].class = "BIN"
  <2>1. items' = Demote(previous) BY <1>2 DEF Resolved
  <2> QED BY <1>1, <1>2, <2>1, DemoteList
<1>3. CASE ~(previous # 0 /\ items[previous].class = "BIN")
  <2>1. items' = items BY <1>3 DEF Resolved
  <2> QED BY <1>1, <2>1
<1> QED BY <1>2, <1>3

LEMMA ResolvedInv == IInv /\ Resolved => IInv'
<1> SUFFICES ASSUME IInv, Resolved PROVE IInv' OBVIOUS
<1> USE DEF IInv
<1>1. /\ items' \in Seq(Items) /\ Len(items') = Len(items) /\ Len(items) \in Nat
      /\ \A k \in DOMAIN items : items'[k].kind = items[k].kind
      /\ at = Len(items) + 1 /\ DOMAIN items = 1 .. Len(items)
      /\ pc = "resolve" /\ pc' = "count" /\ at' = 1 /\ previous' = 0
  BY ResolvedEffect DEF TypeOK, Resolved, AtEnd, Rewind
<1>2. TypeOK'
  BY <1>1 DEF TypeOK, Resolved, Passes
<1>3. \A n \in 1 .. Len(items) : \A p \in 0 .. n - 1 : IsLast(p, n)' <=> IsLast(p, n)
  <2>1. \A k \in 1 .. Len(items) : IsAtom(k)' <=> IsAtom(k)
    BY <1>1 DEF IsAtom
  <2> SUFFICES ASSUME NEW n \in 1 .. Len(items), NEW p \in 0 .. n - 1
               PROVE  IsLast(p, n)' <=> IsLast(p, n)
    OBVIOUS
  <2>2. p # 0 => (IsAtom(p)' <=> IsAtom(p)) BY <1>1, <2>1
  <2>3. \A k \in p + 1 .. n - 1 : IsAtom(k)' <=> IsAtom(k) BY <1>1, <2>1
  <2> QED BY <2>2, <2>3 DEF IsLast
<1>4. IsLast(previous, at)'
  BY <1>1 DEF IsLast
<1>5. Settled'
  <2> SUFFICES ASSUME math', NEW n \in 1 .. Len(items), NEW p \in 0 .. n - 1,
                      IsAtom(n)', IsLast(p, n)'
               PROVE  Possible(p, n)'
    BY <1>1 DEF Settled, Passed
  <2>1. IsLast(p, n) /\ IsAtom(n) /\ n \in DOMAIN items /\ (p # 0 => p \in DOMAIN items)
    BY <1>1, <1>3 DEF IsAtom
  <2>2. Possible(p, n)
    <3>1. math /\ n \in 1 .. Passed BY <1>1 DEF Resolved, Passed
    <3> QED BY <2>1, <3>1 DEF Settled
  <2>3. CASE items'[n] # items[n]
    <3>1. items'[n].class = "ORD" BY <2>1, <2>3, ResolvedEffect
    <3> QED BY <3>1 DEF Possible, Impossible
  <2>4. CASE items'[n] = items[n] /\ p # 0 /\ items'[p] # items[p]
    <3>1. items'[p].class = "ORD" BY <2>1, <2>4, ResolvedEffect
    <3> QED BY <2>4, <3>1 DEF Possible, Impossible
  <2>5. CASE items'[n] = items[n] /\ (p # 0 => items'[p] = items[p])
    BY <2>2, <2>5 DEF Possible, Impossible
  <2> QED BY <2>3, <2>4, <2>5
<1>6. Tallied' /\ Built'
  BY <1>1 DEF Tallied, Built, Resolved, TallyAt, TypeOK
<1> QED BY <1>2, <1>4, <1>5, <1>6

-----------------------------------------------------------------------------
(***************************************************************************)
(* The counting pass.                                                      *)
(***************************************************************************)

(* An atom has no more nodes than are counted; the nucleus of one whose    *)
(* limits are active is counted first.                                     *)
LEMMA AtomNodesRange ==
  ASSUME NEW i \in Items
  PROVE  /\ AtomNodes(i) \in Nat /\ Len(i.scripts) \in Nat
         /\ LimitsActive(i) => i.nucleus # "EMPTY"
         /\ (IF i.nucleus = "EMPTY" THEN 0 ELSE 1) <= AtomNodes(i)
         /\ (LimitsActive(i) => i.scripts = << >>) =>
              AtomNodes(i) = (IF i.nucleus = "EMPTY" THEN 0 ELSE 1) + Len(i.scripts)
         /\ LimitsActive(i) /\ i.scripts # << >> => AtomNodes(i) = 1
<1>1. Len(i.scripts) \in Nat
  <2>1. i.scripts \in {<< >>, <<"SUP">>, <<"SUB">>, <<"SUP", "SUB">>, <<"SUB", "SUP">>}
    BY DEF Items
  <2> QED BY <2>1
<1>2. LimitsActive(i) => i.nucleus # "EMPTY"
  BY DEF LimitsActive, Items
<1> DEFINE nucleus == IF i.nucleus = "EMPTY" THEN 0 ELSE 1
<1>3. nucleus \in {0, 1} OBVIOUS
<1>4. CASE LimitsActive(i) /\ i.scripts # << >>
  <2>1. AtomNodes(i) = 1 BY <1>4 DEF AtomNodes
  <2> QED BY <1>1, <1>2, <1>3, <1>4, <2>1
<1>5. CASE ~(LimitsActive(i) /\ i.scripts # << >>)
  <2>1. AtomNodes(i) = nucleus + Len(i.scripts) BY <1>5 DEF AtomNodes
  <2> HIDE DEF nucleus
  <2>2. AtomNodes(i) \in Nat /\ nucleus <= AtomNodes(i) BY <1>1, <1>3, <2>1
  <2> QED BY <1>1, <1>2, <1>5, <2>1, <2>2 DEF nucleus
<1> QED BY <1>4, <1>5

LEMMA CostRange ==
  ASSUME items \in Seq(Items), NEW n \in DOMAIN items, NEW p
  PROVE  Cost(p, n) \in Nat
<1>1. items[n] \in Items OBVIOUS
<1>2. AtomNodes(items[n]) \in Nat BY <1>1, AtomNodesRange
<1> QED BY <1>2 DEF Cost

LEMMA CountItemInv == IInv /\ CountItem => IInv'
<1> SUFFICES ASSUME IInv, CountItem PROVE IInv' OBVIOUS
<1>1. /\ items \in Seq(Items) /\ Len(items) \in Nat /\ at \in 1 .. Len(items)
      /\ DOMAIN items = 1 .. Len(items)
      /\ at' = at + 1 /\ pc = "count" /\ items' = items /\ UNCHANGED <<style, math, pc>>
      /\ capacity \in Nat /\ tally \in Seq(Nat) /\ Len(tally) = at - 1
      /\ children = << >> /\ children' = children
  BY DEF IInv, TypeOK, CountItem, AtEnd, Tallied, Built
<1>2. Cost(previous, at) \in Nat BY <1>1, CostRange
<1>3. /\ capacity' = capacity + Cost(previous, at) /\ capacity' \in Nat
      /\ tally' = Append(tally, capacity') /\ tally' \in Seq(Nat)
      /\ Len(tally') = at /\ tally'[at] = capacity'
      /\ \A n \in 1 .. at - 1 : tally'[n] = tally[n]
  BY <1>1, <1>2 DEF CountItem
<1>4. TypeOK'
  BY <1>1, <1>3 DEF IInv, TypeOK, CountItem
<1>5. IsLast(previous', at + 1)
  BY <1>1, LastMoves DEF IInv, CountItem
<1>6. IsLast(previous, at)'
  BY <1>1, <1>5 DEF IsLast, IsAtom
<1>7. Settled'
  BY <1>1 DEF IInv, Settled, Passed, Possible, IsLast, IsAtom
<1>8. Tallied'
  <2>1. ASSUME NEW n \in 1 .. at
        PROVE  /\ tally'[n] <= capacity'
               /\ \A p \in 0 .. n - 1 :
                    IsLast(p, n) => tally'[n] = TallyAt(n - 1)' + Cost(p, n)
    <3>1. TallyAt(n - 1)' = TallyAt(n - 1)
      BY <1>1, <1>3 DEF TallyAt
    <3>2. CASE n < at
      <4>1. n \in 1 .. Len(tally) BY <1>1, <3>2
      <4>2. /\ tally[n] <= capacity
            /\ \A p \in 0 .. n - 1 : IsLast(p, n) => tally[n] = TallyAt(n - 1) + Cost(p, n)
        BY <4>1 DEF IInv, Tallied
      <4>3. tally'[n] = tally[n] /\ tally[n] \in Nat BY <1>1, <1>3, <3>2, <4>1
      <4>4. tally'[n] <= capacity' BY <1>1, <1>2, <1>3, <4>2, <4>3
      <4> QED BY <3>1, <4>2, <4>3, <4>4
    <3>3. CASE n = at
      <4>1. TallyAt(n - 1) = capacity
        BY <1>1, <3>3 DEF IInv, Tallied
      <4>2. \A p : IsLast(p, at) => p = previous
        BY <1>1, LastUnique DEF IInv
      <4> QED BY <1>1, <1>3, <3>1, <3>3, <4>1, <4>2
    <3> QED BY <1>1, <3>2, <3>3
  <2>2. \A n \in 1 .. at : \A p \in 0 .. n - 1 :
          (IsLast(p, n)' <=> IsLast(p, n)) /\ Cost(p, n)' = Cost(p, n)
    BY <1>1 DEF IsLast, IsAtom, Cost, Spaced, Gap, AtomNodes, LimitsActive
  <2>3. capacity' = TallyAt(Len(tally))'
    <3>1. Len(tally') # 0 BY <1>1, <1>3
    <3> QED BY <1>3, <3>1 DEF TallyAt
  <2>4. Len(tally') = at /\ at = at' - 1 /\ pc' = "count" BY <1>1, <1>3
  <2>5. \A n \in 1 .. Len(tally') :
          /\ tally'[n] <= capacity'
          /\ \A p \in 0 .. n - 1 :
               IsLast(p, n)' => tally'[n] = TallyAt(n - 1)' + Cost(p, n)'
    BY <2>1, <2>2, <2>4
  <2> QED BY <2>3, <2>4, <2>5 DEF Tallied
<1>9. Built' BY <1>1 DEF Built
<1> QED BY <1>4, <1>6, <1>7, <1>8, <1>9 DEF IInv

-----------------------------------------------------------------------------
(***************************************************************************)
(* A step that leaves the list, its arguments, the count and the tally     *)
(* alone keeps what is said of them.                                       *)
(***************************************************************************)

Kept == UNCHANGED <<given, items, style, math, capacity, tally>>

LEMMA KeptParts ==
  ASSUME IInv, Kept, pc \in {"count", "build", "item", "scripts"},
         pc' \in Passes \ {"resolve", "count"},
         pc' \in {"build", "item", "scripts", "done"} => Len(tally) = Len(items)
  PROVE  Settled' /\ Tallied'
<1>1. Settled'
  BY DEF IInv, Kept, Settled, Passed, Possible, IsLast, IsAtom
<1>2. Tallied'
  <2>1. \A n, p : (IsLast(p, n)' <=> IsLast(p, n)) /\ Cost(p, n)' = Cost(p, n)
    BY DEF Kept, IsLast, IsAtom, Cost, Spaced, Gap, AtomNodes, LimitsActive
  <2>2. \A n : TallyAt(n)' = TallyAt(n) BY DEF Kept, TallyAt
  <2> QED BY <2>1, <2>2 DEF IInv, Kept, Tallied
<1> QED BY <1>1, <1>2

LEMMA CountedInv == IInv /\ Counted => IInv'
<1> SUFFICES ASSUME IInv, Counted PROVE IInv' OBVIOUS
<1>1. /\ Kept /\ pc = "count" /\ pc' = "build" /\ at' = 1 /\ previous' = 0
      /\ at = Len(items) + 1 /\ Len(items) \in Nat /\ children' = children
      /\ Len(tally) = at - 1 /\ children = << >>
  BY DEF IInv, TypeOK, Counted, AtEnd, Rewind, Tallied, Built, Kept
<1>2. TypeOK' BY <1>1 DEF IInv, TypeOK, Kept, Passes
<1>3. IsLast(previous, at)' BY <1>1 DEF IsLast
<1>4. Settled' /\ Tallied' BY <1>1, KeptParts DEF Passes
<1>5. Built' BY <1>1 DEF Built, TallyAt
<1> QED BY <1>2, <1>3, <1>4, <1>5 DEF IInv

-----------------------------------------------------------------------------
(***************************************************************************)
(* The building pass.                                                      *)
(***************************************************************************)

(* The item the pass is at cost what the tally says.                       *)
LEMMA Costed ==
  ASSUME IInv, pc \in {"build", "item", "scripts"}, ~AtEnd
  PROVE  /\ at \in 1 .. Len(tally) /\ Len(tally) = Len(items) /\ Len(items) \in Nat
         /\ TallyAt(at) = TallyAt(at - 1) + Cost(previous, at)
         /\ TallyAt(at) <= capacity /\ TallyAt(at) \in Nat /\ TallyAt(at - 1) \in Nat
         /\ Here \in Items /\ at \in DOMAIN items /\ items \in Seq(Items)
<1>1. /\ at \in 1 .. Len(items) /\ Len(tally) = Len(items) /\ Len(items) \in Nat
      /\ tally \in Seq(Nat) /\ items \in Seq(Items)
  BY DEF IInv, TypeOK, AtEnd, Tallied
<1>2. previous \in 0 .. at - 1 /\ IsLast(previous, at) BY DEF IInv, TypeOK
<1>3. tally[at] = TallyAt(at - 1) + Cost(previous, at) /\ tally[at] <= capacity
  BY <1>1, <1>2 DEF IInv, Tallied
<1>4. TallyAt(at) = tally[at] /\ TallyAt(at) \in Nat /\ TallyAt(at - 1) \in Nat
  BY <1>1 DEF TallyAt
<1> QED BY <1>1, <1>3, <1>4 DEF Here

LEMMA BuildGapInv == IInv /\ BuildGap => IInv'
<1> SUFFICES ASSUME IInv, BuildGap PROVE IInv' OBVIOUS
<1>1. /\ Kept /\ pc = "build" /\ ~AtEnd /\ pc' = "item" /\ at' = at /\ previous' = previous
      /\ Len(tally) = Len(items) /\ children \in Seq(Nodes) /\ at \in Nat /\ style \in MathStyles
      /\ Len(children) = TallyAt(at - 1)
  BY DEF IInv, TypeOK, BuildGap, Kept, Tallied, Built
<1>2. children' \in Seq(Nodes) /\ Len(children') = Len(children) + GapNodes
  <2>1. CASE Spaced(previous, at)
    <3>1. Gap(items[previous], Here) \in Parts
      BY <2>1, GapTyped DEF Spaced, Here
    <3>2. NodeOf(Gap(items[previous], Here), at, style) \in Nodes
      BY <1>1, <3>1, NodeTyped
    <3> QED BY <1>1, <2>1, <3>2 DEF BuildGap, Emit, GapNodes
  <2>2. CASE ~Spaced(previous, at)
    BY <1>1, <2>2 DEF BuildGap, GapNodes
  <2> QED BY <2>1, <2>2
<1>3. TypeOK' BY <1>1, <1>2 DEF IInv, TypeOK, Kept, Passes
<1>4. IsLast(previous, at)' BY <1>1 DEF IInv, IsLast, IsAtom, Kept
<1>5. Settled' /\ Tallied' BY <1>1, KeptParts DEF Passes
<1>6. Built'
  <2>1. GapNodes' = GapNodes /\ TallyAt(at - 1)' = TallyAt(at - 1) /\ AtEnd' = AtEnd
    BY <1>1 DEF GapNodes, Spaced, Gap, IsAtom, Kept, TallyAt, AtEnd
  <2> QED BY <1>1, <1>2, <2>1 DEF Built
<1> QED BY <1>3, <1>4, <1>5, <1>6 DEF IInv

LEMMA BuildNucleusInv == IInv /\ BuildNucleus => IInv'
<1> SUFFICES ASSUME IInv, BuildNucleus PROVE IInv' OBVIOUS
<1>1. /\ Kept /\ pc = "item" /\ ~AtEnd /\ pc' = "scripts" /\ IsAtom(at)
      /\ at' = at /\ previous' = previous
      /\ Len(tally) = Len(items) /\ children \in Seq(Nodes) /\ at \in Nat /\ style \in MathStyles
      /\ Len(children) = TallyAt(at - 1) + GapNodes
  BY DEF IInv, TypeOK, BuildNucleus, Kept, Tallied, Built
<1>2. /\ children' \in Seq(Nodes) /\ Len(children') = Len(children) + NucleusNodes
      /\ Here.nucleus # "EMPTY" =>
           children' # << >> /\ children'[Len(children')] = NodeOf("NUCLEUS", at, style)
  <2>1. CASE Here.nucleus = "EMPTY"
    BY <1>1, <2>1 DEF BuildNucleus, NucleusNodes
  <2>2. CASE Here.nucleus # "EMPTY"
    <3>1. NodeOf("NUCLEUS", at, style) \in Nodes
      BY <1>1, NodeTyped DEF Parts
    <3>2. children' = children \o <<NodeOf("NUCLEUS", at, style)>>
      BY <2>2 DEF BuildNucleus, Emit
    <3> QED BY <1>1, <2>2, <3>1, <3>2 DEF NucleusNodes
  <2> QED BY <2>1, <2>2
<1>3. TypeOK' BY <1>1, <1>2 DEF IInv, TypeOK, Kept, Passes
<1>4. IsLast(previous, at)' BY <1>1 DEF IInv, IsLast, IsAtom, Kept
<1>5. Settled' /\ Tallied' BY <1>1, KeptParts DEF Passes
<1>6. Built'
  <2>1. /\ GapNodes' = GapNodes /\ TallyAt(at - 1)' = TallyAt(at - 1) /\ AtEnd' = AtEnd
        /\ NucleusNodes' = NucleusNodes /\ Here' = Here /\ IsAtom(at)' = IsAtom(at)
        /\ style' = style
    BY <1>1 DEF GapNodes, NucleusNodes, Spaced, Gap, IsAtom, Kept, TallyAt, AtEnd, Here
  <2>2. NodeOf("NUCLEUS", at, style)' = NodeOf("NUCLEUS", at, style)
    BY <1>1, <2>1 DEF NodeOf
  <2> QED BY <1>1, <1>2, <2>1, <2>2 DEF Built
<1> QED BY <1>3, <1>4, <1>5, <1>6 DEF IInv

LEMMA BuildSpaceInv == IInv /\ BuildSpace => IInv'
<1> SUFFICES ASSUME IInv, BuildSpace PROVE IInv' OBVIOUS
<1>1. /\ Kept /\ pc = "item" /\ ~AtEnd /\ pc' = "build" /\ ~IsAtom(at)
      /\ at' = at + 1 /\ previous' = previous
      /\ Len(tally) = Len(items) /\ children \in Seq(Nodes) /\ at \in Nat /\ style \in MathStyles
      /\ Len(children) = TallyAt(at - 1) + GapNodes
  BY DEF IInv, TypeOK, BuildSpace, Kept, Tallied, Built
<1>2. children' \in Seq(Nodes) /\ Len(children') = TallyAt(at)
  <2>1. NodeOf("SPACE", at, style) \in Nodes
    BY <1>1, NodeTyped DEF Parts
  <2>2. children' = children \o <<NodeOf("SPACE", at, style)>>
    BY DEF BuildSpace, Emit
  <2>3. GapNodes = 0 /\ Cost(previous, at) = 1
    BY <1>1 DEF GapNodes, Spaced, Cost
  <2>4. TallyAt(at) = TallyAt(at - 1) + 1 /\ TallyAt(at - 1) \in Nat
    BY <1>1, <2>3, Costed
  <2> QED BY <1>1, <2>1, <2>2, <2>3, <2>4
<1>3. at \in 1 .. Len(items) BY <1>1, Costed
<1>4. TypeOK' BY <1>1, <1>2, <1>3 DEF IInv, TypeOK, Kept, Passes
<1>5. IsLast(previous, at)'
  <2>1. IsLast(previous, at + 1) BY <1>1, LastMoves DEF IInv
  <2> QED BY <1>1, <2>1 DEF IsLast, IsAtom, Kept
<1>6. Settled' /\ Tallied' BY <1>1, KeptParts DEF Passes
<1>7. Built'
  <2>1. TallyAt(at - 1)' = TallyAt(at) BY <1>1, <1>3 DEF TallyAt, Kept
  <2> QED BY <1>1, <1>2, <2>1 DEF Built
<1> QED BY <1>4, <1>5, <1>6, <1>7 DEF IInv

LEMMA BuildScriptsInv == IInv /\ BuildScripts => IInv'
<1> SUFFICES ASSUME IInv, BuildScripts PROVE IInv' OBVIOUS
<1>1. /\ Kept /\ pc = "scripts" /\ ~AtEnd /\ pc' = "build" /\ IsAtom(at)
      /\ at' = at + 1 /\ previous' = at
      /\ LimitsActive(Here) => Here.scripts = << >>
      /\ Len(tally) = Len(items) /\ children \in Seq(Nodes) /\ at \in Nat /\ style \in MathStyles
      /\ Len(children) = TallyAt(at - 1) + GapNodes + NucleusNodes
      /\ children' = children \o ScriptNodes
  BY DEF IInv, TypeOK, BuildScripts, AtomDone, Emit, Kept, Tallied, Built
<1>2. /\ at \in 1 .. Len(items) /\ Here \in Items /\ TallyAt(at - 1) \in Nat
      /\ TallyAt(at) = TallyAt(at - 1) + Cost(previous, at)
  BY <1>1, Costed
<1>3. children' \in Seq(Nodes) /\ Len(children') = TallyAt(at)
  <2>1. ScriptNodes \in Seq(Nodes) /\ Len(ScriptNodes) = Len(Here.scripts)
    BY <1>1, ScriptsTyped DEF IInv
  <2>2. AtomNodes(Here) = NucleusNodes + Len(Here.scripts)
    BY <1>1, <1>2, AtomNodesRange DEF NucleusNodes
  <2>3. Cost(previous, at) = AtomNodes(Here) + GapNodes
    BY <1>1 DEF Cost, GapNodes, Here
  <2>4. GapNodes \in Nat /\ NucleusNodes \in Nat /\ Len(Here.scripts) \in Nat
    BY <1>2, AtomNodesRange DEF GapNodes, NucleusNodes
  <2>5. children' \in Seq(Nodes) /\ Len(children') = Len(children) + Len(ScriptNodes)
    <3>1. \A s, t \in Seq(Nodes) : s \o t \in Seq(Nodes) /\ Len(s \o t) = Len(s) + Len(t)
      OBVIOUS
    <3> QED BY <1>1, <2>1, <3>1, Zenon
  <2>6. Len(children') = TallyAt(at - 1) + GapNodes + NucleusNodes + Len(Here.scripts)
    BY <1>1, <2>1, <2>5
  <2> QED BY <1>2, <2>2, <2>3, <2>4, <2>5, <2>6
<1>4. TypeOK' BY <1>1, <1>2, <1>3 DEF IInv, TypeOK, Kept, Passes
<1>5. IsLast(previous, at)'
  <2>1. IsLast(at, at + 1) BY <1>1, LastMoves DEF IInv
  <2> QED BY <1>1, <2>1 DEF IsLast, IsAtom, Kept
<1>6. Settled' /\ Tallied' BY <1>1, KeptParts DEF Passes
<1>7. Built'
  <2>1. TallyAt(at - 1)' = TallyAt(at) BY <1>1, <1>2 DEF TallyAt, Kept
  <2> QED BY <1>1, <1>3, <2>1 DEF Built
<1> QED BY <1>4, <1>5, <1>6, <1>7 DEF IInv

(* The node taken back is the nucleus: an atom with limits is an Op, and   *)
(* an Op has one.                                                          *)
LEMMA OwnNucleus == IInv => TakesOwnNucleus
<1> SUFFICES ASSUME IInv, pc = "scripts", LimitsActive(Here)
             PROVE  /\ children # << >>
                    /\ children[Len(children)].part = "NUCLEUS"
                    /\ children[Len(children)].item = at
  BY DEF TakesOwnNucleus
<1>1. ~AtEnd BY DEF IInv, Built
<1>2. Here \in Items BY <1>1, Costed
<1>3. Here.nucleus # "EMPTY" BY <1>2, AtomNodesRange
<1>4. children # << >> /\ children[Len(children)] = NodeOf("NUCLEUS", at, style)
  BY <1>3 DEF IInv, Built
<1> QED BY <1>4 DEF NodeOf

LEMMA BuildLimitsInv == IInv /\ BuildLimits => IInv'
<1> SUFFICES ASSUME IInv, BuildLimits PROVE IInv' OBVIOUS
<1>1. /\ Kept /\ pc = "scripts" /\ ~AtEnd /\ pc' = "build" /\ IsAtom(at)
      /\ at' = at + 1 /\ previous' = at
      /\ LimitsActive(Here) /\ Here.scripts # << >>
      /\ Len(tally) = Len(items) /\ children \in Seq(Nodes) /\ at \in Nat /\ style \in MathStyles
      /\ Len(children) = TallyAt(at - 1) + GapNodes + NucleusNodes
  BY DEF IInv, TypeOK, BuildLimits, AtomDone, Kept, Tallied, Built
<1>2. /\ at \in 1 .. Len(items) /\ Here \in Items /\ TallyAt(at - 1) \in Nat
      /\ TallyAt(at) = TallyAt(at - 1) + Cost(previous, at)
  BY <1>1, Costed
<1>3. Here.nucleus # "EMPTY" /\ NucleusNodes = 1
  BY <1>1, <1>2, AtomNodesRange DEF NucleusNodes
<1>4. children # << >> /\ children[Len(children)] = NodeOf("NUCLEUS", at, style)
  BY <1>1, <1>3 DEF IInv, Built
<1> DEFINE index == Len(children) - 1
           taken == SubSeq(children, 1, index)
           parts == <<children[index + 1]>> \o ScriptNodes
           box   == [NodeOf("LIMITS", at, style) EXCEPT !.parts = parts]
<1>5. index \in Nat /\ index + 1 = Len(children)
  BY <1>1, <1>4
<1>6. taken \in Seq(Nodes) /\ Len(taken) = index
  BY <1>1, <1>5
<1>7. box \in Nodes
  <2>1. children[index + 1] \in Simple
    BY <1>1, <1>4, <1>5, NodeTyped DEF Parts
  <2>2. ScriptNodes \in Seq(Simple) BY <1>1, ScriptsTyped DEF IInv
  <2>3. parts \in Seq(Simple) BY <2>1, <2>2
  <2> HIDE DEF parts
  <2> QED BY <1>1, <2>3 DEF NodeOf, Nodes, Parts
<1>8. children' = Append(taken, box)
  BY DEF BuildLimits
<1>9. children' \in Seq(Nodes) /\ Len(children') = TallyAt(at)
  <2>1. Cost(previous, at) = 1 + GapNodes
    <3>1. AtomNodes(Here) = 1 BY <1>1, <1>2, AtomNodesRange
    <3> QED BY <1>1, <3>1 DEF Cost, GapNodes, Here
  <2>2. GapNodes \in Nat BY DEF GapNodes
  <2> HIDE DEF taken, box
  <2> QED BY <1>1, <1>2, <1>3, <1>5, <1>6, <1>7, <1>8, <2>1, <2>2
<1>10. TypeOK' BY <1>1, <1>2, <1>9 DEF IInv, TypeOK, Kept, Passes
<1>11. IsLast(previous, at)'
  <2>1. IsLast(at, at + 1) BY <1>1, LastMoves DEF IInv
  <2> QED BY <1>1, <2>1 DEF IsLast, IsAtom, Kept
<1>12. Settled' /\ Tallied' BY <1>1, KeptParts DEF Passes
<1>13. Built'
  <2>1. TallyAt(at - 1)' = TallyAt(at) BY <1>1, <1>2 DEF TallyAt, Kept
  <2> QED BY <1>1, <1>9, <2>1 DEF Built
<1> QED BY <1>10, <1>11, <1>12, <1>13 DEF IInv

LEMMA FinishInv == IInv /\ (Finish \/ Fail) => IInv'
<1> SUFFICES ASSUME IInv, Finish \/ Fail PROVE IInv' OBVIOUS
<1>1. /\ Kept /\ UNCHANGED <<at, previous, children>>
      /\ pc \in {"count", "build", "item", "scripts"} /\ pc' \in {"done", "failed"}
      /\ pc' = "done" => pc = "build" /\ AtEnd
  BY DEF Finish, Fail, Kept
<1>2. TypeOK' BY <1>1 DEF IInv, TypeOK, Kept, Passes
<1>3. IsLast(previous, at)' BY <1>1 DEF IInv, IsLast, IsAtom, Kept
<1>4. pc' = "done" => Len(tally) = Len(items) BY <1>1 DEF IInv, Tallied
<1>5. Settled' /\ Tallied' BY <1>1, <1>4, KeptParts DEF Passes
<1>6. pc' = "done" => Len(children') = capacity'
  <2> SUFFICES ASSUME pc' = "done" PROVE Len(children') = capacity' OBVIOUS
  <2>1. at - 1 = Len(items) /\ Len(tally) = Len(items)
    BY <1>1, <1>4 DEF IInv, TypeOK, AtEnd
  <2>2. Len(children) = TallyAt(at - 1) /\ capacity = TallyAt(Len(tally))
    BY <1>1 DEF IInv, Built, Tallied
  <2> QED BY <1>1, <2>1, <2>2 DEF Kept
<1>7. Built' BY <1>1, <1>6 DEF Built
<1> QED BY <1>2, <1>3, <1>5, <1>7 DEF IInv

LEMMA StutterInv == IInv /\ UNCHANGED vars => IInv'
<1> SUFFICES ASSUME IInv, UNCHANGED vars PROVE IInv' OBVIOUS
<1>1. TypeOK' BY DEF IInv, TypeOK, vars
<1>2. IsLast(previous, at)' BY DEF IInv, vars, IsLast, IsAtom
<1>3. Settled' BY DEF IInv, vars, Settled, Passed, Possible, IsLast, IsAtom
<1>4. Tallied'
  <2>1. \A n, p : (IsLast(p, n)' <=> IsLast(p, n)) /\ Cost(p, n)' = Cost(p, n)
    BY DEF vars, IsLast, IsAtom, Cost, Spaced, Gap, AtomNodes, LimitsActive
  <2>2. \A n : TallyAt(n)' = TallyAt(n) BY DEF vars, TallyAt
  <2> QED BY <2>1, <2>2 DEF IInv, vars, Tallied
<1>5. Built'
  BY DEF IInv, vars, Built, TallyAt, GapNodes, NucleusNodes, Spaced, Gap, Here, IsAtom,
         NodeOf, AtEnd
<1> QED BY <1>1, <1>2, <1>3, <1>4, <1>5 DEF IInv

-----------------------------------------------------------------------------
(***************************************************************************)
(* The theorems.                                                           *)
(***************************************************************************)

(* The strengthened invariant holds of every call of txc_mlist.            *)
THEOREM Invariance == Spec => []IInv
<1>1. IInv /\ [Next]_vars => IInv'
  BY ResolveInv, ResolvedInv, CountItemInv, CountedInv, BuildGapInv, BuildSpaceInv,
     BuildNucleusInv, BuildScriptsInv, BuildLimitsInv, FinishInv, StutterInv
     DEF Next, Step, Returned
<1> QED BY InitInv, <1>1, PTL DEF Spec

(* The variables of txc_mlist keep their types.                            *)
THEOREM MlistTyped == Spec => []TypeOK
BY Invariance, PTL DEF IInv

(* The children array of txc_mlist is never overrun, and is full when the  *)
(* box is published: the counting and the building pass agree, for every   *)
(* list.                                                                   *)
THEOREM CapacityExact == Spec => []ExactCapacity
<1>1. IInv => ExactCapacity
  <2> SUFFICES ASSUME IInv, Building PROVE Len(children) <= capacity
    BY DEF ExactCapacity, IInv, Built
  <2>1. children \in Seq(Nodes) /\ Len(children) \in Nat /\ capacity \in Nat
    BY DEF IInv, TypeOK
  <2>2. CASE pc = "done" BY <2>1, <2>2 DEF IInv, Built
  <2>3. CASE pc = "build" /\ AtEnd
    <3>1. at - 1 = Len(items) /\ Len(tally) = Len(items)
      BY <2>3 DEF IInv, TypeOK, AtEnd, Tallied
    <3> QED BY <2>1, <2>3, <3>1 DEF IInv, Built, Tallied
  <2>4. CASE pc \in {"build", "item", "scripts"} /\ ~AtEnd
    <3>1. /\ TallyAt(at) = TallyAt(at - 1) + Cost(previous, at) /\ TallyAt(at) <= capacity
          /\ TallyAt(at - 1) \in Nat /\ at \in DOMAIN items /\ items \in Seq(Items)
          /\ Here \in Items
      BY <2>4, Costed
    <3>2. Cost(previous, at) \in Nat BY <3>1, CostRange
    <3>3. GapNodes <= Cost(previous, at) /\ GapNodes \in Nat
      <4>1. AtomNodes(Here) \in Nat BY <3>1, AtomNodesRange
      <4> QED BY <4>1 DEF GapNodes, Cost, Here, Spaced
    <3>4. IsAtom(at) => GapNodes + NucleusNodes <= Cost(previous, at) /\ NucleusNodes \in Nat
      <4>1. AtomNodes(Here) \in Nat /\ NucleusNodes <= AtomNodes(Here) /\ NucleusNodes \in Nat
        BY <3>1, AtomNodesRange DEF NucleusNodes
      <4> QED BY <4>1 DEF GapNodes, Cost, Here
    <3>5. \/ Len(children) = TallyAt(at - 1)
          \/ Len(children) = TallyAt(at - 1) + GapNodes
          \/ IsAtom(at) /\ Len(children) = TallyAt(at - 1) + GapNodes + NucleusNodes
      BY <2>4 DEF IInv, Built
    <3> QED BY <2>1, <3>1, <3>2, <3>3, <3>4, <3>5
  <2> QED BY <2>2, <2>3, <2>4 DEF Building, IInv, Built
<1> QED BY Invariance, <1>1, PTL

(* The limits of an operator take back the node of its own nucleus.        *)
THEOREM NucleusTaken == Spec => []TakesOwnNucleus
BY Invariance, OwnNucleus, PTL

(* After the resolving pass no pair of neighbouring atoms is one the table *)
(* of spaces has no entry for.                                             *)
THEOREM PairsPossible == Spec => []NoImpossiblePair
<1>1. IInv => NoImpossiblePair
  <2> SUFFICES ASSUME IInv, math, pc # "resolve", ~AtEnd, IsAtom(at)
               PROVE  Possible(previous, at)
    BY DEF NoImpossiblePair, Possible, Here
  <2>1. at \in 1 .. Passed /\ previous \in 0 .. at - 1
    BY DEF Passed, IInv, TypeOK, AtEnd
  <2> QED BY <2>1 DEF IInv, Settled
<1> QED BY Invariance, <1>1, PTL

(* An atom changes class once at most, from Bin to Ord, before anything is *)
(* counted.                                                                *)
THEOREM OnlyBinsDemoted == Spec => DemotedOnce
<1> DEFINE Demotes == \A n \in DOMAIN items : items'[n] # items[n] =>
       /\ pc = "resolve" /\ tally = << >>
       /\ items[n].class = "BIN" /\ items'[n] = [items[n] EXCEPT !.class = "ORD"]
<1>1. IInv /\ [Next]_vars => [Demotes]_items
  <2> SUFFICES ASSUME IInv, [Next]_vars, items' # items PROVE Demotes OBVIOUS
  <2>1. ResolveItem \/ Resolved
    BY DEF Next, Step, Returned, vars, CountItem, Counted, BuildGap, BuildSpace,
           BuildNucleus, BuildScripts, BuildLimits, Finish, Fail
  <2>2. pc = "resolve" /\ tally = << >>
    BY <2>1 DEF ResolveItem, Resolved, IInv, Tallied
  <2> QED BY <2>1, <2>2, ResolveEffect, ResolvedEffect
<1> QED BY Invariance, <1>1, PTL DEF Spec, DemotedOnce

(* The children array, for every list: within its bounds, full, and read   *)
(* back at the atom's own nucleus.                                         *)
THEOREM ArrayIsFilled == Spec => []ArrayFilled
BY MlistTyped, CapacityExact, NucleusTaken, PTL DEF ArrayFilled
=============================================================================
