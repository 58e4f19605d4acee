---------------------------- MODULE ParserProofs ----------------------------
(***************************************************************************)
(* Proofs about the parser, for every alphabet, source bound, nesting      *)
(* limit and mode.                                                         *)
(***************************************************************************)
EXTENDS ParserNesting, TLAPS

-----------------------------------------------------------------------------
(***************************************************************************)
(* The constructors have their types.                                      *)
(***************************************************************************)

(* txc_field_reset makes a field.                                           *)
LEMMA EmptyTyped == ASSUME NEW at \in Nat PROVE Empty(at) \in Field
BY DEF Empty, Field, FieldKinds, Faces

(* A character field is a field.                                            *)
LEMMA CharTyped ==
  ASSUME NEW face \in Faces, NEW b \in Nat, NEW e \in Nat
  PROVE  CharField(face, b, e) \in Field
<1>1. Empty(b) \in Field BY EmptyTyped
<1> QED BY <1>1 DEF CharField, Field, FieldKinds, Faces

(* A list field is a field.                                                 *)
LEMMA ListTyped ==
  ASSUME NEW list \in Seq(Nat), NEW b \in Nat, NEW e \in Nat
  PROVE  ListField(list, b, e) \in Field
<1>1. Empty(b) \in Field BY EmptyTyped
<1> QED BY <1>1 DEF ListField, Field, FieldKinds, Faces

(* A field that points to a construct is a field.                           *)
LEMMA NodeFieldTyped ==
  ASSUME NEW kind \in FieldKinds, NEW n \in Nat, NEW b \in Nat, NEW e \in Nat
  PROVE  NodeField(kind, n, b, e) \in Field
<1>1. Empty(b) \in Field BY EmptyTyped
<1> QED BY <1>1 DEF NodeField, Field, FieldKinds, Faces

(* A new atom, as txc_append_atom and txc_deliver make it, is an item.      *)
LEMMA AtomTyped ==
  ASSUME NEW class \in Classes, NEW nucleus \in Field
  PROVE  Atom(class, nucleus) \in Item
<1>1. nucleus.begin \in Nat /\ nucleus.end \in Nat BY DEF Field
<1>2. Empty(nucleus.end) \in Field BY <1>1, EmptyTyped
<1> QED BY <1>1, <1>2 DEF Atom, Item

(* A space is an item.                                                      *)
LEMMA SpaceTyped ==
  ASSUME NEW b \in Nat, NEW e \in Nat PROVE Space(b, e) \in Item
<1>1. Empty(b) \in Field /\ Empty(b).end = b BY EmptyTyped DEF Empty
<1>2. Atom("ORD", Empty(b)) \in Item BY <1>1, AtomTyped DEF Classes
<1> QED BY <1>2 DEF Space, Item

(* A construct just allocated has its type.                                 *)
LEMMA NodeTyped ==
  ASSUME NEW kind \in {"FRACTION", "RADICAL", "ACCENT", "FENCED", "ARRAY"}, NEW at \in Nat
  PROVE  Node(kind, at) \in Built
BY EmptyTyped DEF Node, Built, Struts

(* txc_frame_init makes a frame.                                            *)
LEMMA FrameTyped ==
  ASSUME NEW role \in Roles, NEW face \in Faces, NEW stretched \in BOOLEAN, NEW open \in Nat
  PROVE  Frame(role, face, stretched, open) \in FrameType
BY DEF Frame, FrameType, NoScript, NoCollect, NoWait, Script, Collect, Wait, Faces,
       Classes, Roles

-----------------------------------------------------------------------------
(***************************************************************************)
(* What delivery computes has its type.                                    *)
(***************************************************************************)

(* Stamping a face keeps a field a field.                                   *)
LEMMA StampedTyped ==
  ASSUME NEW f \in FrameType, NEW field \in Field
  PROVE  Stamped(f, field) \in Field
<1>1. f.face \in Faces /\ f.collect.face \in Faces BY DEF FrameType, Collect
<1> QED BY <1>1 DEF Stamped, Field

(* Setting a script keeps an item an item.                                  *)
LEMMA ScriptedTyped ==
  ASSUME NEW item \in Item, NEW script \in Script, NEW field \in Field
  PROVE  Scripted(item, script, field) \in Item
<1> DEFINE whole  == [field EXCEPT !.begin = script.mark]
           filled == IF script.kind = "SUP"
                       THEN [item EXCEPT !.sup = whole]
                       ELSE [item EXCEPT !.sub = whole,
                                         !.subFirst = @ \/ item.sup.kind = "EMPTY"]
<1>1. script.mark \in Nat /\ field.end \in Nat BY DEF Script, Field
<1>2. whole \in Field BY <1>1 DEF Field
<1>3. (item.subFirst \/ item.sup.kind = "EMPTY") \in BOOLEAN BY DEF Item
<1> HIDE DEF whole
<1>4. filled \in Item BY <1>2, <1>3 DEF Item
<1> HIDE DEF filled
<1>5. [filled EXCEPT !.end = field.end] \in Item BY <1>1, <1>4 DEF Item
<1> QED BY <1>5 DEF Scripted, filled, whole

(* Replacing one element of a sequence by one of the same set.              *)
LEMMA ExceptTyped ==
  ASSUME NEW S, NEW s \in Seq(S), NEW i, NEW v, i \in DOMAIN s => v \in S
  PROVE  /\ [s EXCEPT ![i] = v] \in Seq(S)
         /\ DOMAIN [s EXCEPT ![i] = v] = DOMAIN s
<1> DEFINE t == [s EXCEPT ![i] = v]
<1>1. DOMAIN t = 1 .. Len(s) /\ Len(s) \in Nat OBVIOUS
<1>2. \A k \in 1 .. Len(s) : t[k] \in S OBVIOUS
<1>3. t = [k \in 1 .. Len(s) |-> t[k]] BY <1>1
<1> HIDE DEF t
<1>4. t \in Seq(S) BY <1>2, <1>3
<1> QED BY <1>1, <1>4 DEF t

(* Setting a script of an item of the arena keeps the arena typed.          *)
LEMMA FillTyped ==
  ASSUME NEW its \in Seq(Item), NEW script \in Script, NEW field \in Field
  PROVE  /\ FillScript(its, script, field) \in Seq(Item)
         /\ DOMAIN FillScript(its, script, field) = DOMAIN its
<1> DEFINE t == script.target
           v == Scripted(its[t], script, field)
<1>1. t \in DOMAIN its => v \in Item BY ScriptedTyped
<1>2. FillScript(its, script, field) = [its EXCEPT ![t] = v] BY DEF FillScript
<1> HIDE DEF t, v
<1> QED BY <1>1, <1>2, ExceptTyped

(* txc_collect_finish keeps the arena of items typed.                       *)
LEMMA LandedTyped ==
  ASSUME NEW its \in Seq(Item), NEW c \in Collect, NEW staged \in Field
  PROVE  /\ Landed(its, c, staged) \in Seq(Item)
         /\ DOMAIN Landed(its, c, staged) = DOMAIN its
<1>1. c.script \in Script /\ c.begin \in Nat /\ c.item \in Nat BY DEF Collect
<1>2. CASE c.item = 0 BY <1>1, <1>2, FillTyped DEF Landed
<1>3. CASE c.item # 0
  <2> DEFINE nucleus == [staged EXCEPT !.begin = c.begin]
             at      == staged.end
             New(it) == [it EXCEPT !.nucleus = nucleus, !.sup = Empty(at), !.sub = Empty(at),
                                   !.begin = c.begin, !.end = at]
  <2>1. at \in Nat BY DEF Field
  <2>2. nucleus \in Field BY <1>1 DEF Field
  <2>3. Empty(at) \in Field BY <2>1, EmptyTyped
  <2>4. \A it \in Item : New(it) \in Item
    <3> HIDE DEF nucleus, at
    <3> QED BY <1>1, <2>1, <2>2, <2>3 DEF Item
  <2>5. Landed(its, c, staged) = [its EXCEPT ![c.item] = New(its[c.item])]
    BY <1>3 DEF Landed
  <2> HIDE DEF New
  <2>6. c.item \in DOMAIN its => New(its[c.item]) \in Item BY <2>4
  <2> QED BY <2>5, <2>6, ExceptTyped
<1> QED BY <1>2, <1>3

(* What a finished collector stages is a field.                             *)
LEMMA StagedTyped ==
  ASSUME NEW c \in Collect, c.kind # "NONE", NEW field \in Field
  PROVE  Staged(c, field) \in Field
<1>1. field.begin \in Nat /\ field.end \in Nat BY DEF Field
<1>2. c.node \in Nat BY DEF Collect
<1>3. CASE c.kind # "STYLE"
  <2>1. c.kind \in FieldKinds BY <1>3 DEF Collect, FieldKinds
  <2>2. NodeField(c.kind, c.node, field.begin, field.end) \in Field
    BY <1>1, <1>2, <2>1, NodeFieldTyped
  <2> QED BY <1>3, <2>2 DEF Staged
<1>4. CASE c.kind = "STYLE"
  <2>1. TextArgument(field) \in Field BY DEF TextArgument, Field, FieldKinds, Faces
  <2> QED BY <1>4, <2>1 DEF Staged
<1> QED BY <1>3, <1>4

-----------------------------------------------------------------------------
(***************************************************************************)
(* The stack: replacing, pushing and popping its top frame.                *)
(***************************************************************************)

(* Replacing the top frame changes nothing below it.                        *)
LEMMA SetTopTyped ==
  ASSUME NEW stk \in Seq(FrameType), stk # << >>, NEW f \in FrameType
  PROVE  /\ SetTop(stk, f) \in Seq(FrameType)
         /\ Len(SetTop(stk, f)) = Len(stk)
         /\ SetTop(stk, f) # << >>
         /\ SetTop(stk, f)[Len(stk)] = f
         /\ \A i \in 1 .. Len(stk) - 1 : SetTop(stk, f)[i] = stk[i]
BY DEF SetTop

(* The top of a stack of frames is a frame.                                 *)
LEMMA TopTyped ==
  ASSUME NEW stk \in Seq(FrameType), stk # << >>
  PROVE  stk[Len(stk)] \in FrameType
OBVIOUS

(* Popping a frame leaves the frames below it.                              *)
LEMMA BelowTyped ==
  ASSUME NEW stk \in Seq(FrameType), Len(stk) >= 2
  PROVE  /\ Below(stk) \in Seq(FrameType)
         /\ Len(Below(stk)) = Len(stk) - 1
         /\ Below(stk) # << >>
         /\ \A i \in 1 .. Len(stk) - 1 : Below(stk)[i] = stk[i]
<1> DEFINE n == Len(stk) - 1
<1>1. n \in Nat /\ n >= 1 /\ n <= Len(stk) OBVIOUS
<1>2. \A i \in 1 .. n : stk[i] \in FrameType BY <1>1
<1>3. Below(stk) = [i \in 1 .. n |-> stk[i]] BY <1>1 DEF Below
<1> HIDE DEF n
<1>4. [i \in 1 .. n |-> stk[i]] \in Seq(FrameType) BY <1>1, <1>2
<1>5. Len([i \in 1 .. n |-> stk[i]]) = n BY <1>1
<1>6. Below(stk) \in Seq(FrameType) /\ Len(Below(stk)) = n BY <1>3, <1>4, <1>5
<1>7. Below(stk) # << >> BY <1>1, <1>6
<1>8. \A i \in 1 .. n : Below(stk)[i] = stk[i] BY <1>3
<1> QED BY <1>6, <1>7, <1>8 DEF n

(* What a frame's children were pushed for does not change under them.     *)
Kin(f, g) == /\ g.role = f.role /\ g.text = f.text

(* A stack stays disciplined when its top frame changes but not its kin.    *)
LEMMA SetTopDisciplined ==
  ASSUME NEW stk \in Seq(FrameType), stk # << >>, Disciplined(stk),
         NEW f \in FrameType, Kin(stk[Len(stk)], f), Steady(f)
  PROVE  Disciplined(SetTop(stk, f))
<1> DEFINE new == SetTop(stk, f)
           n   == Len(stk)
<1>0. /\ n \in Nat /\ n >= 1 /\ Kin(stk[n], f)
      /\ stk[1].role = "ROOT" /\ ~stk[1].text
      /\ \A i \in 2 .. n : PushedOn(stk[i - 1], stk[i])
      /\ \A i \in 1 .. n : Steady(stk[i])
  BY DEF Disciplined
<1>1. /\ Len(new) = n /\ DOMAIN new = 1 .. n
      /\ new[n] = f /\ \A i \in 1 .. n - 1 : new[i] = stk[i]
  <2>1. new \in Seq(FrameType) /\ Len(new) = n BY SetTopTyped
  <2>2. new[n] = f /\ \A i \in 1 .. n - 1 : new[i] = stk[i] BY SetTopTyped
  <2> QED BY <1>0, <2>1, <2>2
<1> HIDE DEF new, n
<1>2. new[1].role = "ROOT" /\ ~new[1].text
  BY <1>0, <1>1 DEF Kin
<1>3. ASSUME NEW i \in 2 .. n PROVE PushedOn(new[i - 1], new[i])
  <2>1. PushedOn(stk[i - 1], stk[i]) /\ new[i - 1] = stk[i - 1] BY <1>0, <1>1
  <2>2. CASE i = n BY <1>0, <1>1, <2>1, <2>2 DEF PushedOn, Kin
  <2>3. CASE i # n
    <3>1. new[i] = stk[i] BY <1>0, <1>1, <2>3
    <3> QED BY <2>1, <3>1
  <2> QED BY <2>2, <2>3
<1>4. ASSUME NEW i \in 1 .. n PROVE Steady(new[i])
  <2>1. CASE i = n BY <1>1, <2>1
  <2>2. CASE i # n
    <3>1. new[i] = stk[i] BY <1>0, <1>1, <2>2
    <3> QED BY <1>0, <3>1
  <2> QED BY <2>1, <2>2
<1>5. Disciplined(new) BY <1>1, <1>2, <1>3, <1>4 DEF Disciplined
<1> QED BY <1>5 DEF new

(* A stack stays disciplined under a push its top frame allows.             *)
LEMMA PushDisciplined ==
  ASSUME NEW stk \in Seq(FrameType), stk # << >>, Disciplined(stk),
         NEW f \in FrameType, PushedOn(stk[Len(stk)], f), Steady(f)
  PROVE  Disciplined(Append(stk, f))
<1> DEFINE new == Append(stk, f)
           n   == Len(stk)
<1>1. /\ Len(new) = n + 1 /\ n \in Nat /\ n >= 1 /\ DOMAIN new = 1 .. n + 1
      /\ new[n + 1] = f /\ \A i \in 1 .. n : new[i] = stk[i]
      /\ DOMAIN stk = 1 .. n
  OBVIOUS
<1> HIDE DEF new
<1>2. new[1].role = "ROOT" /\ ~new[1].text
  BY <1>1 DEF Disciplined
<1>3. ASSUME NEW i \in 2 .. n + 1 PROVE PushedOn(new[i - 1], new[i])
  <2>1. CASE i = n + 1 BY <1>1, <2>1
  <2>2. CASE i # n + 1 BY <1>1, <2>2 DEF Disciplined
  <2> QED BY <2>1, <2>2
<1>4. ASSUME NEW i \in 1 .. n + 1 PROVE Steady(new[i])
  <2>1. CASE i = n + 1 BY <1>1, <2>1
  <2>2. CASE i # n + 1 BY <1>1, <2>2 DEF Disciplined
  <2> QED BY <2>1, <2>2
<1>5. Disciplined(new) BY <1>1, <1>2, <1>3, <1>4 DEF Disciplined
<1> QED BY <1>5 DEF new

(* A stack stays disciplined under a pop; its new top allowed the push.     *)
LEMMA BelowDisciplined ==
  ASSUME NEW stk \in Seq(FrameType), Len(stk) >= 2, Disciplined(stk)
  PROVE  /\ Disciplined(Below(stk))
         /\ LET p == Below(stk)[Len(Below(stk))] IN
              PushedOn(p, stk[Len(stk)]) /\ Steady(p)
<1> DEFINE new == Below(stk)
           n   == Len(stk)
<1>1. /\ Len(new) = n - 1 /\ n \in Nat /\ n >= 2 /\ DOMAIN new = 1 .. n - 1
      /\ \A i \in 1 .. n - 1 : new[i] = stk[i]
      /\ DOMAIN stk = 1 .. n
  <2>1. new \in Seq(FrameType) /\ Len(new) = n - 1 BY BelowTyped
  <2>2. \A i \in 1 .. n - 1 : new[i] = stk[i] BY BelowTyped
  <2> QED BY <2>1, <2>2
<1> HIDE DEF new
<1>2. \A i \in 2 .. n - 1 : PushedOn(new[i - 1], new[i])
  BY <1>1 DEF Disciplined
<1>3. \A i \in 1 .. n - 1 : Steady(new[i])
  BY <1>1 DEF Disciplined
<1>4. new[1].role = "ROOT" /\ ~new[1].text
  BY <1>1 DEF Disciplined
<1>5. PushedOn(new[n - 1], stk[n])
  BY <1>1 DEF Disciplined
<1>6. Disciplined(new) BY <1>1, <1>2, <1>3, <1>4 DEF Disciplined
<1> QED BY <1>1, <1>3, <1>5, <1>6 DEF new

(* A frame that is not the root has another under it.                      *)
LEMMA NotAlone ==
  ASSUME NEW stk \in Seq(FrameType), stk # << >>, Disciplined(stk),
         stk[Len(stk)].role # "ROOT" \/ stk[Len(stk)].text
  PROVE  Len(stk) >= 2
BY DEF Disciplined

-----------------------------------------------------------------------------
(***************************************************************************)
(* The inductive invariant: types, discipline and depth together, as a     *)
(* property of any stack and arenas a handler builds.                      *)
(***************************************************************************)
Good(stk, its, nds) == /\ Typed(stk, its, nds)
                       /\ Disciplined(stk)
                       /\ Len(stk) - 1 <= DepthLimit

(* Replacing the top frame, and growing the arenas, keeps everything good.  *)
LEMMA TopReplaced ==
  ASSUME NEW stk, NEW its, NEW nds, Good(stk, its, nds),
         NEW its2 \in Seq(Item), DOMAIN its \subseteq DOMAIN its2, NEW nds2 \in Seq(Built),
         NEW g \in FrameType, \A j \in DOMAIN g.list : g.list[j] \in DOMAIN its2,
         Kin(stk[Len(stk)], g), Steady(g)
  PROVE  Good(SetTop(stk, g), its2, nds2)
<1> DEFINE new == SetTop(stk, g)
           n   == Len(stk)
<1>1. stk \in Seq(FrameType) /\ stk # << >> /\ n \in Nat /\ n - 1 <= DepthLimit
      /\ \A i \in 1 .. n : \A j \in DOMAIN stk[i].list : stk[i].list[j] \in DOMAIN its
  BY DEF Good, Typed, LinkedTo
<1>2. new \in Seq(FrameType) /\ Len(new) = n /\ new # << >> /\ new[n] = g
      /\ \A i \in 1 .. n - 1 : new[i] = stk[i]
  BY <1>1, SetTopTyped
<1>3. Disciplined(new) BY <1>1, SetTopDisciplined DEF Good
<1> HIDE DEF new, n
<1>4. ASSUME NEW i \in 1 .. n, NEW j \in DOMAIN new[i].list
      PROVE  new[i].list[j] \in DOMAIN its2
  <2>1. CASE i = n BY <1>2, <2>1
  <2>2. CASE i # n
    <3>1. new[i] = stk[i] BY <1>1, <1>2, <2>2
    <3> QED BY <1>1, <3>1
  <2> QED BY <2>1, <2>2
<1>5. LinkedTo(new, its2) BY <1>2, <1>4 DEF LinkedTo
<1>6. Good(new, its2, nds2) BY <1>1, <1>2, <1>3, <1>5 DEF Good, Typed
<1> QED BY <1>6 DEF new

(* Pushing an empty frame below the limit keeps everything good.            *)
LEMMA Pushed ==
  ASSUME NEW stk, NEW its, NEW nds, Good(stk, its, nds), Len(stk) - 1 # DepthLimit,
         NEW f \in FrameType, f.list = << >>, PushedOn(stk[Len(stk)], f), Steady(f)
  PROVE  Good(Append(stk, f), its, nds)
<1> DEFINE new == Append(stk, f)
           n   == Len(stk)
<1>1. stk \in Seq(FrameType) /\ stk # << >> /\ n \in Nat /\ n - 1 <= DepthLimit
      /\ n - 1 # DepthLimit
      /\ \A i \in 1 .. n : \A j \in DOMAIN stk[i].list : stk[i].list[j] \in DOMAIN its
  BY DEF Good, Typed, LinkedTo
<1>2. new \in Seq(FrameType) /\ Len(new) = n + 1 /\ new # << >> /\ new[n + 1] = f
      /\ \A i \in 1 .. n : new[i] = stk[i]
  BY <1>1
<1>3. Disciplined(new) BY <1>1, PushDisciplined DEF Good
<1> HIDE DEF new, n
<1>4. ASSUME NEW i \in 1 .. n + 1, NEW j \in DOMAIN new[i].list
      PROVE  new[i].list[j] \in DOMAIN its
  <2>1. CASE i = n + 1 BY <1>2, <2>1
  <2>2. CASE i # n + 1
    <3>1. new[i] = stk[i] /\ i \in 1 .. n BY <1>1, <1>2, <2>2
    <3> QED BY <1>1, <3>1
  <2> QED BY <2>1, <2>2
<1>5. LinkedTo(new, its) BY <1>2, <1>4 DEF LinkedTo
<1>6. n + 1 - 1 <= DepthLimit BY <1>1, BoundAssumption
<1>7. its \in Seq(Item) /\ nds \in Seq(Built) BY DEF Good, Typed
<1>8. Len(new) - 1 <= DepthLimit
  <2>1. Len(new) = n + 1 /\ n \in Nat BY <1>1, <1>2
  <2> QED BY <1>6, <2>1
<1>9. Typed(new, its, nds) BY <1>2, <1>5, <1>7 DEF Typed
<1>10. Good(new, its, nds) BY <1>3, <1>8, <1>9 DEF Good
<1> QED BY <1>10 DEF new

(* Popping a frame keeps everything good.                                   *)
LEMMA Popped ==
  ASSUME NEW stk, NEW its, NEW nds, Good(stk, its, nds), Len(stk) >= 2
  PROVE  /\ Good(Below(stk), its, nds)
         /\ LET p == Below(stk)[Len(Below(stk))] IN
              PushedOn(p, stk[Len(stk)]) /\ Steady(p) /\ p \in FrameType
<1> DEFINE new == Below(stk)
           n   == Len(stk)
<1>1. stk \in Seq(FrameType) /\ n \in Nat /\ n >= 2 /\ n - 1 <= DepthLimit
      /\ \A i \in 1 .. n : \A j \in DOMAIN stk[i].list : stk[i].list[j] \in DOMAIN its
  BY DEF Good, Typed, LinkedTo
<1>2. new \in Seq(FrameType) /\ Len(new) = n - 1 /\ new # << >>
      /\ \A i \in 1 .. n - 1 : new[i] = stk[i]
  BY <1>1, BelowTyped
<1>3. /\ Disciplined(new)
      /\ PushedOn(new[Len(new)], stk[n]) /\ Steady(new[Len(new)])
  BY <1>1, BelowDisciplined DEF Good
<1> HIDE DEF new, n
<1>4. new[Len(new)] \in FrameType BY <1>1, <1>2
<1>5. LinkedTo(new, its) BY <1>1, <1>2 DEF LinkedTo
<1>6. Good(new, its, nds)
  BY <1>1, <1>2, <1>3, <1>5, BoundAssumption DEF Good, Typed
<1> QED BY <1>3, <1>4, <1>6 DEF new, n

-----------------------------------------------------------------------------
(***************************************************************************)
(* Frames with one part replaced.                                          *)
(***************************************************************************)
Same(f, g) == /\ g.role = f.role /\ g.text = f.text /\ g.env = f.env
              /\ g.face = f.face /\ g.stretched = f.stretched
              /\ g.open = f.open /\ g.script = f.script

(* A frame with another list.                                               *)
LEMMA ListSet ==
  ASSUME NEW f \in FrameType, NEW list \in Seq(Nat)
  PROVE  LET g == [f EXCEPT !.list = list] IN
           /\ g \in FrameType /\ Same(f, g)
           /\ g.list = list /\ g.collect = f.collect /\ g.pending = f.pending /\ g.wait = f.wait
BY DEF FrameType, Same

(* A frame with another collector.                                          *)
LEMMA CollectSet ==
  ASSUME NEW f \in FrameType, NEW c \in Collect
  PROVE  LET g == [f EXCEPT !.collect = c] IN
           /\ g \in FrameType /\ Same(f, g)
           /\ g.list = f.list /\ g.collect = c /\ g.pending = f.pending /\ g.wait = f.wait
BY DEF FrameType, Same

(* A frame with another pending mark.                                       *)
LEMMA PendingSet ==
  ASSUME NEW f \in FrameType, NEW s \in Script
  PROVE  LET g == [f EXCEPT !.pending = s] IN
           /\ g \in FrameType /\ Same(f, g)
           /\ g.list = f.list /\ g.collect = f.collect /\ g.pending = s /\ g.wait = f.wait
BY DEF FrameType, Same

(* A frame with another delimiter wait.                                     *)
LEMMA WaitSet ==
  ASSUME NEW f \in FrameType, NEW w \in Wait
  PROVE  LET g == [f EXCEPT !.wait = w] IN
           /\ g \in FrameType /\ Same(f, g)
           /\ g.list = f.list /\ g.collect = f.collect /\ g.pending = f.pending /\ g.wait = w
BY DEF FrameType, Same

(* What a frame holds when nothing is pending, collected or awaited.        *)
LEMMA Absent ==
  NoScript \in Script /\ NoCollect \in Collect /\ NoWait \in Wait
BY DEF NoScript, NoCollect, NoWait, Script, Collect, Wait, Faces, Classes

(* txc_fail and the successful return touch neither frames nor arenas.      *)
LEMMA Stopped ==
  ASSUME NEW status \in Statuses, NEW what \in Messages, NEW b \in Nat, NEW e \in Nat,
         Good(stack, items, nodes), Stop(status, what, b, e)
  PROVE  Good(stack', items', nodes') /\ result' \in Verdict
<1>1. stack' = stack /\ items' = items /\ nodes' = nodes BY DEF Stop
<1>2. result' \in Verdict BY DEF Stop, Verdict
<1> QED BY <1>1, <1>2

(* A failed allocation keeps what was built.                                *)
LEMMA OutOfMemoryGood ==
  ASSUME Good(stack, items, nodes), OutOfMemory
  PROVE  Good(stack', items', nodes') /\ result' \in Verdict
<1>1. "ALLOCATION_FAILED" \in Statuses BY DEF Statuses
<1>2. Stop("ALLOCATION_FAILED", "allocation failed", 0, 0) BY DEF OutOfMemory
<1> HIDE DEF Statuses
<1>3. "allocation failed" \in Messages /\ 0 \in Nat BY DEF Messages
<1> QED BY <1>1, <1>2, <1>3, Stopped

(* A new item at the end of the top frame's list.                          *)
LEMMA ItemLinked ==
  ASSUME NEW stk, NEW its, NEW nds, Good(stk, its, nds), NEW item \in Item
  PROVE  /\ Good(Linked(stk, its), Append(its, item), nds)
         /\ Same(stk[Len(stk)], Linked(stk, its)[Len(Linked(stk, its))])
         /\ LET f == stk[Len(stk)]
                g == Linked(stk, its)[Len(Linked(stk, its))]
            IN g \in FrameType /\ g.collect = f.collect /\ g.pending = f.pending
                 /\ g.wait = f.wait
<1> DEFINE f == stk[Len(stk)]
           list == Append(f.list, Len(its) + 1)
           g == [f EXCEPT !.list = list]
           its2 == Append(its, item)
<1>1. stk \in Seq(FrameType) /\ stk # << >> /\ its \in Seq(Item) /\ nds \in Seq(Built)
  BY DEF Good, Typed
<1>2. f \in FrameType /\ f.list \in Seq(Nat) BY <1>1, TopTyped DEF FrameType
<1>3. list \in Seq(Nat) BY <1>1, <1>2
<1>4. /\ g \in FrameType /\ Same(f, g) /\ g.list = list
      /\ g.collect = f.collect /\ g.pending = f.pending /\ g.wait = f.wait
  BY <1>2, <1>3, ListSet
<1>5. its2 \in Seq(Item) /\ DOMAIN its2 = 1 .. Len(its) + 1 /\ DOMAIN its = 1 .. Len(its)
      /\ Len(its) \in Nat
  BY <1>1
<1>6. \A j \in DOMAIN f.list : f.list[j] \in DOMAIN its
  <2>1. Len(stk) \in DOMAIN stk BY <1>1
  <2> QED BY <2>1 DEF Good, Typed, LinkedTo
<1>7. \A j \in DOMAIN list : list[j] \in DOMAIN its2 BY <1>2, <1>5, <1>6
<1>8. Steady(f) BY <1>1 DEF Good, Disciplined
<1> HIDE DEF f, g, list, its2
<1>9. Steady(g) /\ Kin(f, g)
  BY <1>4, <1>8 DEF Steady, Kin, Same, Collecting, Pending, Waiting, Idle, MathRules
<1>10. Good(SetTop(stk, g), its2, nds)
  <2>1. DOMAIN its \subseteq DOMAIN its2 BY <1>5
  <2> QED BY <1>1, <1>4, <1>5, <1>7, <1>9, <2>1, TopReplaced DEF f
<1>11. Linked(stk, its) = SetTop(stk, g) BY DEF Linked, g, f, list
<1>12. SetTop(stk, g)[Len(SetTop(stk, g))] = g BY <1>1, <1>4, SetTopTyped
<1> QED BY <1>4, <1>10, <1>11, <1>12 DEF f, its2

-----------------------------------------------------------------------------
(***************************************************************************)
(* What a handler leaves behind.                                           *)
(***************************************************************************)
After == Good(stack', items', nodes') /\ result' \in Verdict

(* A handler that builds a good stack and good arenas leaves them.         *)
LEMMA Became ==
  ASSUME NEW stk, NEW its, NEW nds, Good(stk, its, nds), result \in Verdict,
         Becomes(stk, its, nds)
  PROVE  After
<1>1. stack' = stk /\ items' = its /\ nodes' = nds /\ result' = result BY DEF Becomes
<1> QED BY <1>1 DEF After

(* A frame that drops what it collects, owes or awaits stays steady.       *)
LEMMA SteadyKept ==
  ASSUME NEW f, NEW g, Steady(f), Same(f, g),
         Collecting(g) => Collecting(f), Pending(g) => Pending(f),
         Waiting(g) => g.wait = f.wait
  PROVE  Steady(g)
<1>1. MathRules(g) <=> MathRules(f) BY DEF MathRules, Same
<1>2. Idle(f) => Idle(g) BY DEF Idle
<1> QED BY <1>1, <1>2 DEF Steady, Same, Waiting, Idle

(* The top frame replaced by one with the same list.                       *)
LEMMA TopChanged ==
  ASSUME NEW stk, NEW its, NEW nds, Good(stk, its, nds),
         NEW its2 \in Seq(Item), DOMAIN its2 = DOMAIN its, NEW nds2 \in Seq(Built),
         NEW g \in FrameType, Same(stk[Len(stk)], g), g.list = stk[Len(stk)].list, Steady(g)
  PROVE  Good(SetTop(stk, g), its2, nds2)
<1>1. Len(stk) \in DOMAIN stk BY DEF Good, Typed
<1>2. \A j \in DOMAIN g.list : g.list[j] \in DOMAIN its2
  BY <1>1 DEF Good, Typed, LinkedTo
<1>3. Kin(stk[Len(stk)], g) BY DEF Kin, Same
<1> QED BY <1>2, <1>3, TopReplaced

(* The top frame of a good stack.                                          *)
LEMMA TopGood ==
  ASSUME NEW stk, NEW its, NEW nds, Good(stk, its, nds)
  PROVE  /\ stk[Len(stk)] \in FrameType /\ Steady(stk[Len(stk)])
         /\ its \in Seq(Item) /\ nds \in Seq(Built)
         /\ stk \in Seq(FrameType) /\ stk # << >> /\ Len(stk) \in DOMAIN stk
<1>1. stk \in Seq(FrameType) /\ stk # << >> /\ Len(stk) \in DOMAIN stk BY DEF Good, Typed
<1> QED BY <1>1, TopTyped DEF Good, Typed, Disciplined

(* An argument stored in the construct it belongs to.                      *)
LEMMA NodeFilled ==
  ASSUME NEW nds \in Seq(Built), NEW n, NEW field \in Field
  PROVE  /\ [nds EXCEPT ![n] = [@ EXCEPT !.first = field]] \in Seq(Built)
         /\ [nds EXCEPT ![n] = [@ EXCEPT !.last = field]] \in Seq(Built)
<1> DEFINE First(node) == [node EXCEPT !.first = field]
           Last(node)  == [node EXCEPT !.last = field]
<1>1. \A node \in Built : First(node) \in Built /\ Last(node) \in Built BY DEF Built
<1>2. n \in DOMAIN nds => nds[n] \in Built OBVIOUS
<1> HIDE DEF First, Last
<1>3. n \in DOMAIN nds => First(nds[n]) \in Built /\ Last(nds[n]) \in Built BY <1>1, <1>2
<1>4. [nds EXCEPT ![n] = First(nds[n])] \in Seq(Built) BY <1>3, ExceptTyped
<1>5. [nds EXCEPT ![n] = Last(nds[n])] \in Seq(Built) BY <1>3, ExceptTyped
<1> QED BY <1>4, <1>5 DEF First, Last

(* txc_deliver keeps a good stack good, whichever destination it takes.    *)
LEMMA Delivered ==
  ASSUME NEW stk, NEW its, NEW nds, Good(stk, its, nds),
         Good(stack, items, nodes), result \in Verdict,
         NEW construct \in Field, NEW class \in Classes,
         Deliver(stk, its, nds, construct, class)
  PROVE  After
<1> DEFINE f     == stk[Len(stk)]
           c     == f.collect
           field == Stamped(f, construct)
           part1 == IF c.kind = "STYLE" THEN nds
                    ELSE [nds EXCEPT ![c.node] = [@ EXCEPT !.first = field]]
           part2 == IF c.kind = "STYLE" THEN nds
                    ELSE [nds EXCEPT ![c.node] = [@ EXCEPT !.last = field]]
           half  == [c EXCEPT !.second = TRUE]
           g1    == [f EXCEPT !.collect = half]
           g2    == [f EXCEPT !.collect = NoCollect]
           g3    == [f EXCEPT !.pending = NoScript]
           its2  == Landed(its, c, Staged(c, field))
           its3  == FillScript(its, f.pending, field)
           its4  == Append(its, Atom(class, field))
<1>1. \/ c.kind = "FRACTION" /\ ~c.second /\ Becomes(SetTop(stk, g1), its, part1)
      \/ Collecting(f) /\ Becomes(SetTop(stk, g2), its2, part2)
      \/ ~Collecting(f) /\ Pending(f) /\ Becomes(SetTop(stk, g3), its3, nds)
      \/ OutOfMemory
      \/ Becomes(Linked(stk, its), its4, nds)
  BY DEF Deliver
<1>2. f \in FrameType /\ Steady(f) /\ its \in Seq(Item) /\ nds \in Seq(Built) BY TopGood
<1>3. c \in Collect /\ f.pending \in Script BY <1>2 DEF FrameType
<1>4. field \in Field BY <1>2, StampedTyped
<1> HIDE DEF f, field
<1>5. part1 \in Seq(Built) /\ part2 \in Seq(Built) BY <1>2, <1>4, NodeFilled
<1>6. half \in Collect BY <1>3 DEF Collect
<1>7. /\ g1 \in FrameType /\ Same(f, g1) /\ g1.list = f.list
      /\ g1.collect = half /\ g1.pending = f.pending /\ g1.wait = f.wait
  <2> HIDE DEF half
  <2> QED BY <1>2, <1>6, CollectSet
<1>8. /\ g2 \in FrameType /\ Same(f, g2) /\ g2.list = f.list
      /\ g2.collect = NoCollect /\ g2.pending = f.pending /\ g2.wait = f.wait
  BY <1>2, CollectSet, Absent
<1>9. /\ g3 \in FrameType /\ Same(f, g3) /\ g3.list = f.list
      /\ g3.collect = f.collect /\ g3.pending = NoScript /\ g3.wait = f.wait
  BY <1>2, PendingSet, Absent
<1>10. half.kind = c.kind BY <1>3 DEF Collect
<1>11. Collecting(f) => its2 \in Seq(Item) /\ DOMAIN its2 = DOMAIN its
  <2> SUFFICES ASSUME Collecting(f) PROVE its2 \in Seq(Item) /\ DOMAIN its2 = DOMAIN its
    OBVIOUS
  <2>1. Staged(c, field) \in Field BY <1>3, <1>4, StagedTyped DEF Collecting
  <2> QED BY <1>2, <1>3, <2>1, LandedTyped
<1>12. its3 \in Seq(Item) /\ DOMAIN its3 = DOMAIN its BY <1>2, <1>3, <1>4, FillTyped
<1>13. Atom(class, field) \in Item BY <1>4, AtomTyped
<1> HIDE DEF part1, part2, half, g1, g2, g3, its2, its3
<1>14. CASE c.kind = "FRACTION" /\ ~c.second /\ Becomes(SetTop(stk, g1), its, part1)
  <2>1. Steady(g1) BY <1>2, <1>7, <1>10, SteadyKept DEF Collecting, Pending
  <2>2. Good(SetTop(stk, g1), its, part1) BY <1>2, <1>5, <1>7, <2>1, TopChanged DEF f
  <2> QED BY <1>14, <2>2, Became
<1>15. CASE Collecting(f) /\ Becomes(SetTop(stk, g2), its2, part2)
  <2>1. Steady(g2) BY <1>2, <1>8, <1>15, SteadyKept DEF Pending
  <2>2. Good(SetTop(stk, g2), its2, part2)
    BY <1>2, <1>5, <1>8, <1>11, <1>15, <2>1, TopChanged DEF f
  <2> QED BY <1>15, <2>2, Became
<1>16. CASE ~Collecting(f) /\ Pending(f) /\ Becomes(SetTop(stk, g3), its3, nds)
  <2>1. Steady(g3) BY <1>2, <1>9, <1>16, SteadyKept DEF Collecting
  <2>2. Good(SetTop(stk, g3), its3, nds) BY <1>2, <1>9, <1>12, <2>1, TopChanged DEF f
  <2> QED BY <1>16, <2>2, Became
<1>17. CASE OutOfMemory BY <1>17, OutOfMemoryGood DEF After
<1>18. CASE Becomes(Linked(stk, its), its4, nds)
  <2>1. Good(Linked(stk, its), its4, nds) BY <1>13, ItemLinked
  <2> QED BY <1>18, <2>1, Became
<1> QED BY <1>1, <1>14, <1>15, <1>16, <1>17, <1>18

-----------------------------------------------------------------------------
(***************************************************************************)
(* The invariant, and the steps of txc_parse one by one.                   *)
(***************************************************************************)
IInv == /\ text \in Seq(Source)
        /\ pos \in Nat
        /\ Good(stack, items, nodes)
        /\ result \in Verdict

(* A refusal keeps what was built.                                         *)
LEMMA RefusedGood ==
  ASSUME NEW what \in Messages, NEW b \in Nat, NEW e \in Nat, IInv, Refuse(what, b, e)
  PROVE  After
<1>1. "UNSUPPORTED" \in Statuses BY DEF Statuses
<1>2. Stop("UNSUPPORTED", what, b, e) BY DEF Refuse
<1> HIDE DEF Statuses
<1> QED BY <1>1, <1>2, Stopped DEF IInv, After

(* A refusal at the current token keeps what was built.                     *)
LEMMA FailedGood ==
  ASSUME NEW what \in Messages, IInv, Fail(what)
  PROVE  After
<1>1. pos \in Nat /\ pos + 1 \in Nat BY DEF IInv
<1>2. Refuse(what, pos, pos + 1) BY DEF Fail
<1> QED BY <1>1, <1>2, RefusedGood

(* A scan error keeps what was built.                                       *)
LEMMA MalformedGood ==
  ASSUME NEW at \in Nat, IInv, Malformed(at)
  PROVE  After
<1>1. PICK status \in {"UNSUPPORTED", "INVALID_UTF8"} :
        Stop(status, "malformed token", at, at + 1)
  BY DEF Malformed
<1>2. status \in Statuses /\ "malformed token" \in Messages BY DEF Statuses, Messages
<1>3. at + 1 \in Nat OBVIOUS
<1> QED BY <1>1, <1>2, <1>3, Stopped DEF IInv, After

(* A failed allocation, under the invariant.                                *)
LEMMA NoMemory == ASSUME IInv, OutOfMemory PROVE After
BY OutOfMemoryGood DEF IInv, After

(* A handler that builds a good state, under the invariant.                 *)
LEMMA BecameGood ==
  ASSUME NEW stk, NEW its, NEW nds, Good(stk, its, nds), IInv, Becomes(stk, its, nds)
  PROVE  After
BY Became DEF IInv

(* A delivery, under the invariant.                                         *)
LEMMA DeliveredGood ==
  ASSUME NEW stk, NEW its, NEW nds, Good(stk, its, nds), IInv,
         NEW construct \in Field, NEW class \in Classes,
         Deliver(stk, its, nds, construct, class)
  PROVE  After
BY Delivered DEF IInv

(* An item appended to the top frame's list.                                *)
LEMMA AppendedGood ==
  ASSUME IInv, NEW item \in Item, AppendItem(stack, item)
  PROVE  After
<1>1. Good(Linked(stack, items), Append(items, item), nodes) BY ItemLinked DEF IInv
<1> QED BY <1>1, NoMemory, BecameGood DEF AppendItem

(* Every push: too deep, out of memory, or one frame more.                 *)
LEMMA OpenedGood ==
  ASSUME NEW stk, NEW f \in FrameType, NEW b \in Nat, NEW e \in Nat, IInv,
         Good(stk, items, nodes), f.list = << >>, PushedOn(stk[Len(stk)], f), Steady(f),
         Open(stk, f, b, e)
  PROVE  After
<1>1. CASE TooDeep(stk)
  <2>1. "group nesting too deep" \in Messages BY DEF Messages
  <2>2. Refuse("group nesting too deep", b, e) BY <1>1 DEF Open
  <2> QED BY <2>1, <2>2, RefusedGood
<1>2. CASE ~TooDeep(stk)
  <2>1. Len(stk) - 1 # DepthLimit BY <1>2 DEF TooDeep
  <2>2. Good(Append(stk, f), items, nodes) BY <2>1, Pushed
  <2>3. OutOfMemory \/ Becomes(Append(stk, f), items, nodes) BY <1>2 DEF Open
  <2> QED BY <2>2, <2>3, NoMemory, BecameGood
<1> QED BY <1>1, <1>2

(* The top frame and its parts.                                            *)
LEMMA TopParts ==
  ASSUME IInv
  PROVE  /\ Top \in FrameType /\ Steady(Top) /\ Top = stack[Len(stack)]
         /\ stack \in Seq(FrameType) /\ stack # << >> /\ Disciplined(stack)
         /\ items \in Seq(Item) /\ nodes \in Seq(Built)
         /\ Top.role \in Roles /\ Top.face \in Faces /\ Top.stretched \in BOOLEAN
         /\ Top.open \in Nat /\ Top.list \in Seq(Nat) /\ Top.text \in BOOLEAN
         /\ Top.wait \in Wait /\ Top.wait.at \in Nat /\ Top.wait.class \in Classes
         /\ Top.collect \in Collect /\ Top.pending \in Script /\ Top.script \in Script
         /\ pos \in Nat /\ pos + 1 \in Nat /\ pos + 2 \in Nat
         /\ \A j \in DOMAIN Top.list : Top.list[j] \in DOMAIN items
<1>1. /\ Top \in FrameType /\ Steady(Top) /\ stack \in Seq(FrameType) /\ stack # << >>
      /\ items \in Seq(Item) /\ nodes \in Seq(Built) /\ Len(stack) \in DOMAIN stack
  BY TopGood DEF IInv, Top
<1>2. Disciplined(stack) BY DEF IInv, Good
<1>3. Top.wait \in Wait BY <1>1 DEF FrameType
<1>4. Top.wait.at \in Nat /\ Top.wait.class \in Classes BY <1>3 DEF Wait
<1>5. \A j \in DOMAIN Top.list : Top.list[j] \in DOMAIN items
  BY <1>1 DEF IInv, Good, Typed, LinkedTo, Top
<1>6. pos \in Nat /\ pos + 1 \in Nat /\ pos + 2 \in Nat BY DEF IInv
<1> QED BY <1>1, <1>2, <1>3, <1>4, <1>5, <1>6 DEF FrameType, Top

(* A frame that awaits no delimiter, under the math rules.                 *)
LEMMA SteadyMath ==
  ASSUME NEW f, NEW g, MathRules(f), Same(f, g), ~(Collecting(g) /\ Pending(g)), ~Waiting(g)
  PROVE  Steady(g)
BY DEF Steady, MathRules, Same, Waiting

(* The frame a token pushes: empty, and with what it inherits.             *)
LEMMA FreshFrame ==
  ASSUME NEW role \in Roles, NEW face \in Faces, NEW stretched \in BOOLEAN, NEW open \in Nat
  PROVE  LET f == Frame(role, face, stretched, open) IN
           /\ f \in FrameType /\ f.role = role /\ f.list = << >> /\ ~f.text
           /\ f.face = face /\ f.stretched = stretched
           /\ ~Collecting(f) /\ ~Pending(f) /\ ~Waiting(f)
BY FrameTyped
   DEF Frame, Collecting, Pending, Waiting, NoScript, NoCollect, NoWait

(* A frame that collects, owes and awaits nothing is steady.                *)
LEMMA SteadyFresh ==
  ASSUME NEW f, ~Collecting(f), ~Pending(f), ~Waiting(f)
  PROVE  Steady(f)
BY DEF Steady, Idle, Waiting

(* Constructs appended to the arena.                                       *)
LEMMA GoodNodes ==
  ASSUME NEW stk, NEW its, NEW nds, Good(stk, its, nds), NEW nds2 \in Seq(Built)
  PROVE  Good(stk, its, nds2)
BY DEF Good, Typed

(* What the end of the source reports is a message and a range.             *)
LEMMA UnfinishedTyped ==
  ASSUME NEW f \in FrameType
  PROVE  LET u == Unfinished(f) IN u[1] \in Messages /\ u[2] \in Nat /\ u[3] \in Nat
<1>1. /\ f.wait.at \in Nat /\ f.collect.begin \in Nat /\ f.open \in Nat
      /\ f.pending.mark \in Nat
  BY DEF FrameType, Wait, Collect, Script
<1> QED BY <1>1 DEF Unfinished, Messages

(* The source ends with nothing open.                                       *)
LEMMA AcceptGood == ASSUME IInv, Accept PROVE After
<1>1. "OK" \in Statuses /\ "" \in Messages BY DEF Statuses, Messages
<1>2. Stop("OK", "", 0, 0) BY DEF Accept
<1> QED BY <1>1, <1>2, Stopped DEF IInv, After

(* The source ends with something open.                                     *)
LEMMA EndTooEarlyGood == ASSUME IInv, EndTooEarly PROVE After
<1> DEFINE u == Unfinished(Top)
<1>1. u[1] \in Messages /\ u[2] \in Nat /\ u[3] \in Nat BY TopParts, UnfinishedTyped
<1>2. Refuse(u[1], u[2], u[3]) BY DEF EndTooEarly
<1> HIDE DEF u
<1> QED BY <1>1, <1>2, RefusedGood

(* The scanner rejects the source.                                          *)
LEMMA ScanErrorGood == ASSUME IInv, ScanError PROVE After
BY MalformedGood, TopParts DEF ScanError

(* A paragraph break.                                                       *)
LEMMA ParagraphBreakGood == ASSUME IInv, ParagraphBreak PROVE After
<1>1. "unsupported paragraph break" \in Messages BY DEF Messages
<1> QED BY <1>1, FailedGood DEF ParagraphBreak

(* A blank the math rules ignore.                                           *)
LEMMA MathBlankGood == ASSUME IInv, MathBlank PROVE After
BY DEF MathBlank, IInv, After

(* A word space.                                                            *)
LEMMA WordSpaceGood == ASSUME IInv, WordSpace PROVE After
<1>1. Space(pos, pos + 1) \in Item BY TopParts, SpaceTyped
<1> QED BY <1>1, AppendedGood DEF WordSpace

(* A token that is no delimiter where one is awaited.                       *)
LEMMA MissingDelimiterGood == ASSUME IInv, NEW t, MissingDelimiter(t) PROVE After
<1>1. "missing delimiter" \in Messages BY DEF Messages
<1> QED BY <1>1, FailedGood DEF MissingDelimiter

(* A token refused where an argument or a script is due.                    *)
LEMMA MissingArgumentGood == ASSUME IInv, NEW t, MissingArgument(t) PROVE After
<1>1. "missing argument" \in Messages BY DEF Messages
<1> QED BY <1>1, FailedGood DEF MissingArgument

(* A token outside the surface.                                             *)
LEMMA UnsupportedGood == ASSUME IInv, NEW t, Unsupported(t) PROVE After
<1>1. "unsupported token" \in Messages BY DEF Messages
<1> QED BY <1>1, FailedGood DEF Unsupported

(* A row terminator outside an environment.                                 *)
LEMMA MisplacedRowGood == ASSUME IInv, MisplacedRow PROVE After
<1>1. "misplaced \\\\" \in Messages BY DEF Messages
<1> QED BY <1>1, FailedGood DEF MisplacedRow

(* A closing brace that closes no group.                                    *)
LEMMA UnmatchedBraceGood == ASSUME IInv, UnmatchedBrace PROVE After
<1>1. Top.role \in Roles \ {"GROUP", "SCRIPT"} BY TopParts DEF UnmatchedBrace
<1>2. \E what \in {"missing \\right", "unclosed radical index", "missing \\end",
                   "unmatched closing brace"} : Fail(what)
  BY <1>1 DEF UnmatchedBrace, Roles
<1>3. \A what \in {"missing \\right", "unclosed radical index", "missing \\end",
                   "unmatched closing brace"} : what \in Messages
  BY DEF Messages
<1> QED BY <1>2, <1>3, FailedGood

(* The top frame served: it awaits no delimiter any more.                  *)
LEMMA ServedGood ==
  ASSUME IInv, MathRules(Top)
  PROVE  /\ Good(SetTop(stack, Served), items, nodes)
         /\ Served \in FrameType /\ Same(Top, Served) /\ ~Waiting(Served)
         /\ Served.collect = Top.collect /\ Served.pending = Top.pending
         /\ SetTop(stack, Served)[Len(SetTop(stack, Served))] = Served
<1>1. /\ Served \in FrameType /\ Same(Top, Served) /\ Served.list = Top.list
      /\ Served.collect = Top.collect /\ Served.pending = Top.pending
      /\ Served.wait = NoWait
  BY TopParts, WaitSet, Absent DEF Served
<1>2. ~Waiting(Served) BY <1>1 DEF Waiting, NoWait
<1>3. Steady(Served)
  BY <1>1, <1>2, TopParts, SteadyKept DEF Collecting, Pending
<1>4. Good(SetTop(stack, Served), items, nodes)
  BY <1>1, <1>3, TopParts, TopChanged DEF IInv
<1>5. SetTop(stack, Served)[Len(SetTop(stack, Served))] = Served
  BY <1>1, TopParts, SetTopTyped
<1> QED BY <1>1, <1>2, <1>4, <1>5

(* The delimiter after \left pushes a fence.                                *)
LEMMA OpenFenceGood == ASSUME IInv, NEW t, OpenFence(t) PROVE After
<1> DEFINE f == Inside("FENCED", Top, Top.wait.at)
<1>1. MathRules(Top) /\ Top.wait.kind = "LEFT" BY DEF OpenFence, AwaitsDelimiter
<1>2. /\ Good(SetTop(stack, Served), items, nodes)
      /\ Same(Top, Served) /\ ~Waiting(Served)
      /\ Served.collect = Top.collect /\ Served.pending = Top.pending
      /\ SetTop(stack, Served)[Len(SetTop(stack, Served))] = Served
  BY <1>1, ServedGood
<1>3. Idle(Top) BY <1>1, TopParts DEF Steady
<1>4. "FENCED" \in Roles BY DEF Roles
<1>5. /\ f \in FrameType /\ f.role = "FENCED" /\ f.list = << >> /\ ~f.text
      /\ ~Collecting(f) /\ ~Pending(f) /\ ~Waiting(f)
  <2> HIDE DEF Roles
  <2> QED BY <1>4, TopParts, FreshFrame DEF Inside
<1> HIDE DEF f
<1>6. PushedOn(Served, f)
  BY <1>1, <1>2, <1>3, <1>5 DEF PushedOn, Idle, Collecting, Pending, Same, MathRules
<1>7. Steady(f) BY <1>5, SteadyFresh
<1>8. Open(SetTop(stack, Served), f, Top.wait.at, Top.wait.at + 1)
  BY DEF OpenFence, f
<1>9. Top.wait.at \in Nat /\ Top.wait.at + 1 \in Nat BY TopParts
<1> QED BY <1>2, <1>5, <1>6, <1>7, <1>8, <1>9, OpenedGood

(* The frame under the top, once the top is closed.                        *)
LEMMA BelowGood ==
  ASSUME IInv, Top.role # "ROOT" \/ Top.text
  PROVE  /\ Good(Below(stack), items, nodes)
         /\ LET p == Below(stack)[Len(Below(stack))] IN
              PushedOn(p, Top) /\ Steady(p) /\ p \in FrameType
         /\ Len(stack) >= 2
<1>1. Len(stack) >= 2 BY TopParts, NotAlone
<1> QED BY <1>1, Popped DEF IInv, Top

(* The delimiter after \right pops the fence and delivers it.               *)
LEMMA CloseFenceGood == ASSUME IInv, NEW t, CloseFence(t) PROVE After
<1> DEFINE node  == [Node("FENCED", Top.open) EXCEPT !.list = Top.list]
           field == NodeField("FENCED", Len(nodes) + 1, Top.open, pos + 1)
<1>1. Top.wait.kind = "RIGHT" BY DEF CloseFence
<1>2. Top.role = "FENCED" BY <1>1, TopParts DEF Steady
<1>3. Good(Below(stack), items, nodes) BY <1>2, BelowGood
<1>4. Node("FENCED", Top.open) \in Built BY TopParts, NodeTyped
<1>5. node \in Built BY <1>4, TopParts DEF Built
<1>6. field \in Field
  <2>1. "FENCED" \in FieldKinds /\ Len(nodes) + 1 \in Nat BY TopParts DEF FieldKinds
  <2> QED BY <2>1, TopParts, NodeFieldTyped
<1>7. OutOfMemory \/ Deliver(Below(stack), items, Append(nodes, node), field, "INNER")
  BY DEF CloseFence
<1> HIDE DEF node, field
<1>8. Append(nodes, node) \in Seq(Built) BY <1>5, TopParts
<1>9. Good(Below(stack), items, Append(nodes, node)) BY <1>3, <1>8, GoodNodes
<1>10. "INNER" \in Classes BY DEF Classes
<1> QED BY <1>6, <1>7, <1>9, <1>10, NoMemory, DeliveredGood

(* The delimiter after a size command is delivered.                         *)
LEMMA SizedDelimiterGood == ASSUME IInv, NEW t, SizedDelimiter(t) PROVE After
<1>1. MathRules(Top) BY DEF SizedDelimiter, AwaitsDelimiter
<1>2. Good(SetTop(stack, Served), items, nodes) BY <1>1, ServedGood
<1>3. "DELIMITER" \in FieldKinds /\ 0 \in Nat BY DEF FieldKinds
<1>4. NodeField("DELIMITER", 0, Top.wait.at, pos + 1) \in Field
  BY <1>3, TopParts, NodeFieldTyped
<1>5. Deliver(SetTop(stack, Served), items, nodes,
              NodeField("DELIMITER", 0, Top.wait.at, pos + 1), Top.wait.class)
  BY DEF SizedDelimiter
<1> QED BY <1>2, <1>4, <1>5, TopParts, DeliveredGood

(* Every token has an atom class.                                           *)
LEMMA ClassTyped == ASSUME NEW t PROVE ClassOf(t) \in Classes
BY DEF ClassOf, Classes

(* \left, \right and the size commands await a delimiter.                   *)
LEMMA AskForDelimiterGood == ASSUME IInv, NEW t, AskForDelimiter(t) PROVE After
<1> DEFINE kind == CASE t = "\\left" -> "LEFT" [] t = "\\right" -> "RIGHT"
                     [] OTHER -> "EXPLICIT"
           w == [kind |-> kind, at |-> pos, class |-> ClassOf(t)]
           g == [Top EXCEPT !.wait = w]
<1>1. /\ MathRules(Top) /\ ~Waiting(Top)
      /\ t \in Sizes \cup {"\\left", "\\right"}
      /\ t \notin Sizes => Idle(Top)
  BY DEF AskForDelimiter, MathToken
<1>2. CASE t = "\\right" /\ Top.role # "FENCED"
  <2>1. "unmatched \\right" \in Messages BY DEF Messages
  <2>2. Fail("unmatched \\right") BY <1>2 DEF AskForDelimiter
  <2> QED BY <2>1, <2>2, FailedGood
<1>3. CASE ~(t = "\\right" /\ Top.role # "FENCED")
  <2>1. w \in Wait BY TopParts, ClassTyped DEF Wait
  <2>2. Becomes(SetTop(stack, g), items, nodes) BY <1>3 DEF AskForDelimiter
  <2>3. /\ kind = "RIGHT" => t = "\\right"
        /\ kind \in {"LEFT", "RIGHT"} => t \notin Sizes
    BY <1>1 DEF Sizes
  <2>4. w.kind = kind OBVIOUS
  <2> HIDE DEF w, kind
  <2>5. /\ g \in FrameType /\ Same(Top, g) /\ g.list = Top.list
        /\ g.collect = Top.collect /\ g.pending = Top.pending /\ g.wait = w
    BY <2>1, TopParts, WaitSet
  <2> HIDE DEF g
  <2>6. Idle(Top) => Idle(g) BY <2>5 DEF Idle, Collecting, Pending
  <2>7. Steady(g)
    <3>1. ~(Collecting(g) /\ Pending(g))
      BY <2>5, TopParts DEF Steady, Collecting, Pending
    <3>2. g.wait.kind = "RIGHT" => g.role = "FENCED"
      BY <1>3, <2>3, <2>4, <2>5 DEF Same
    <3>3. g.wait.kind \in {"LEFT", "RIGHT"} => Idle(g)
      BY <1>1, <2>3, <2>4, <2>5, <2>6
    <3>4. MathRules(g) BY <1>1, <2>5 DEF MathRules, Same
    <3> QED BY <3>1, <3>2, <3>3, <3>4 DEF Steady
  <2>8. Good(SetTop(stack, g), items, nodes)
    BY <2>5, <2>7, TopParts, TopChanged DEF IInv
  <2> QED BY <2>2, <2>8, BecameGood
<1> QED BY <1>2, <1>3

(* The bracket after \sqrt pushes an index.                                 *)
LEMMA OpenIndexGood == ASSUME IInv, OpenIndex PROVE After
<1> DEFINE f == Inside("INDEX", Top, pos)
<1>1. /\ MathRules(Top) /\ ~Waiting(Top)
      /\ Top.collect.kind = "RADICAL" /\ ~Top.collect.second
      /\ Open(stack, f, pos, pos + 1)
  BY DEF OpenIndex, MathToken
<1>2. /\ f \in FrameType /\ f.role = "INDEX" /\ f.list = << >> /\ ~f.text
      /\ ~Collecting(f) /\ ~Pending(f) /\ ~Waiting(f)
  <2>1. "INDEX" \in Roles BY DEF Roles
  <2> QED BY <2>1, TopParts, FreshFrame DEF Inside
<1> HIDE DEF f
<1>3. ~Pending(Top) BY <1>1, TopParts DEF Steady, Collecting
<1>4. PushedOn(Top, f) BY <1>1, <1>2, <1>3 DEF PushedOn, Collects, MathRules
<1>5. Steady(f) BY <1>2, SteadyFresh
<1>6. PushedOn(stack[Len(stack)], f) /\ Good(stack, items, nodes) BY <1>4 DEF Top, IInv
<1> QED BY <1>1, <1>2, <1>5, <1>6, TopParts, OpenedGood

(* The closing bracket pops the index into its radical.                     *)
LEMMA CloseIndexGood == ASSUME IInv, CloseIndex PROVE After
<1> DEFINE parent == stack[Len(stack) - 1]
           index  == ListField(Top.list, Top.open, pos + 1)
           half   == [parent.collect EXCEPT !.second = TRUE]
           g      == [parent EXCEPT !.collect = half]
           nds    == [nodes EXCEPT ![parent.collect.node] = [@ EXCEPT !.first = index]]
<1>1. Top.role = "INDEX" /\ Becomes(SetTop(Below(stack), g), items, nds)
  BY DEF CloseIndex
<1>2. /\ Good(Below(stack), items, nodes) /\ Len(stack) >= 2
      /\ LET p == Below(stack)[Len(Below(stack))] IN
           PushedOn(p, Top) /\ Steady(p) /\ p \in FrameType
  BY <1>1, BelowGood
<1>3. Below(stack)[Len(Below(stack))] = parent
  <2>1. /\ Len(Below(stack)) = Len(stack) - 1
        /\ \A i \in 1 .. Len(stack) - 1 : Below(stack)[i] = stack[i]
    BY <1>2, TopParts, BelowTyped
  <2>2. Len(stack) - 1 \in 1 .. Len(stack) - 1 BY <1>2, TopParts
  <2> QED BY <2>1, <2>2
<1>4. parent \in FrameType /\ Steady(parent) /\ PushedOn(parent, Top) BY <1>2, <1>3
<1> HIDE DEF parent
<1>5. parent.collect \in Collect BY <1>4 DEF FrameType
<1>6. half \in Collect /\ half.kind = parent.collect.kind BY <1>5 DEF Collect
<1>7. index \in Field BY TopParts, ListTyped
<1> HIDE DEF half, index
<1>8. /\ g \in FrameType /\ Same(parent, g) /\ g.list = parent.list
      /\ g.collect = half /\ g.pending = parent.pending /\ g.wait = parent.wait
  BY <1>4, <1>6, CollectSet
<1>9. nds \in Seq(Built) BY <1>7, TopParts, NodeFilled
<1> HIDE DEF g, nds
<1>10. Steady(g) BY <1>4, <1>6, <1>8, SteadyKept DEF Collecting, Pending
<1>11. Good(SetTop(Below(stack), g), items, nds)
  BY <1>2, <1>3, <1>8, <1>9, <1>10, TopParts, TopChanged
<1> QED BY <1>1, <1>11, BecameGood

(* The frame of a braced group, an argument or a script.                   *)
LEMMA GroupFramed ==
  ASSUME IInv, MathRules(Top), ~Waiting(Top)
  PROVE  LET f == GroupFrame(Top)
             p == [Top EXCEPT !.pending = NoScript]
         IN /\ f \in FrameType /\ f.list = << >> /\ Steady(f)
            /\ Good(SetTop(stack, p), items, nodes)
            /\ PushedOn(SetTop(stack, p)[Len(SetTop(stack, p))], f)
<1> DEFINE textual == Top.collect.kind = "STYLE" /\ Top.collect.face = "TEXT"
           role == IF Pending(Top) THEN "SCRIPT" ELSE "GROUP"
           face == IF textual THEN "NONE"
                   ELSE IF Top.collect.kind = "STYLE" THEN Top.collect.face ELSE Top.face
           base == Frame(role, face, Top.stretched, pos)
           f == GroupFrame(Top)
           p == [Top EXCEPT !.pending = NoScript]
<1>1. f = [base EXCEPT !.text = textual, !.script = Top.pending] BY DEF GroupFrame
<1>2. role \in Roles BY DEF Roles
<1>3. face \in Faces BY TopParts DEF Collect, Faces
<1>4. textual \in BOOLEAN OBVIOUS
<1>5. textual => TextSwitch(Top) /\ Collecting(Top)
  BY DEF TextSwitch, Collects, Collecting
<1>6. role = "SCRIPT" <=> Pending(Top) OBVIOUS
<1>7. role \in {"SCRIPT", "GROUP"} OBVIOUS
<1> HIDE DEF role, face, textual
<1>8. /\ base \in FrameType /\ base.role = role /\ base.list = << >>
      /\ ~Collecting(base) /\ ~Pending(base) /\ ~Waiting(base)
  BY <1>2, <1>3, TopParts, FreshFrame
<1> HIDE DEF base
<1>9. Top.pending \in Script BY TopParts
<1>10. /\ f \in FrameType /\ f.role = role /\ f.list = << >> /\ (f.text <=> textual)
       /\ f.collect = base.collect /\ f.pending = base.pending /\ f.wait = base.wait
  <2> DEFINE mark == Top.pending
  <2>1. f = [base EXCEPT !.text = textual, !.script = mark] /\ mark \in Script
    BY <1>1, <1>9
  <2> HIDE DEF mark, f
  <2> QED BY <1>4, <1>8, <2>1 DEF FrameType
<1>11. Steady(f) BY <1>8, <1>10, SteadyFresh DEF Collecting, Pending, Waiting
<1>12. /\ p \in FrameType /\ Same(Top, p) /\ p.list = Top.list
       /\ p.collect = Top.collect /\ p.pending = NoScript /\ p.wait = Top.wait
  BY TopParts, PendingSet, Absent
<1> HIDE DEF p, f
<1>13. ~Pending(p) /\ ~Waiting(p) BY <1>12 DEF Pending, NoScript, Waiting
<1>14. Steady(p) BY <1>12, <1>13, SteadyMath
<1>15. Good(SetTop(stack, p), items, nodes) BY <1>12, <1>14, TopParts, TopChanged DEF IInv
<1>16. SetTop(stack, p)[Len(SetTop(stack, p))] = p BY <1>12, TopParts, SetTopTyped
<1>17. PushedOn(p, f)
  <2>1. f.text => ~Pending(Top) BY <1>5, <1>10, TopParts DEF Steady
  <2>2. f.role = "SCRIPT" => Idle(p)
    BY <1>6, <1>10, <1>12, <1>13, TopParts DEF Steady, Idle, Collecting
  <2>3. f.text => f.role = "GROUP" /\ TextSwitch(p)
    BY <1>5, <1>6, <1>7, <1>10, <1>12, <2>1 DEF TextSwitch, Collects
  <2>4. ~p.text BY <1>12 DEF Same, MathRules
  <2> QED BY <1>7, <1>10, <1>13, <2>2, <2>3, <2>4 DEF PushedOn
<1> QED BY <1>10, <1>11, <1>15, <1>16, <1>17 DEF f, p

(* An opening brace pushes a group, a script or a text.                     *)
LEMMA OpenGroupGood == ASSUME IInv, OpenGroup PROVE After
<1> DEFINE f == GroupFrame(Top)
           p == [Top EXCEPT !.pending = NoScript]
<1>1. /\ MathRules(Top) /\ ~Waiting(Top)
      /\ Open(SetTop(stack, p), f, pos, pos + 1)
  BY DEF OpenGroup, MathToken
<1>2. /\ f \in FrameType /\ f.list = << >> /\ Steady(f)
      /\ Good(SetTop(stack, p), items, nodes)
      /\ PushedOn(SetTop(stack, p)[Len(SetTop(stack, p))], f)
  BY <1>1, GroupFramed
<1> HIDE DEF f, p
<1> QED BY <1>1, <1>2, TopParts, OpenedGood

(* The list of a closed group is a field.                                   *)
LEMMA GroupListTyped == ASSUME IInv PROVE GroupList \in Field
BY TopParts, ListTyped DEF GroupList

(* A closing brace pops a \text group and delivers it.                      *)
LEMMA CloseTextGood == ASSUME IInv, CloseText PROVE After
<1>1. Top.text /\ Deliver(Below(stack), items, nodes, GroupList, "ORD") BY DEF CloseText
<1>2. Good(Below(stack), items, nodes) BY <1>1, BelowGood
<1>3. "ORD" \in Classes BY DEF Classes
<1> QED BY <1>1, <1>2, <1>3, GroupListTyped, DeliveredGood

(* A closing brace pops a group and delivers it.                            *)
LEMMA CloseGroupGood == ASSUME IInv, CloseGroup PROVE After
<1>1. Top.role = "GROUP" /\ Deliver(Below(stack), items, nodes, GroupList, "ORD")
  BY DEF CloseGroup
<1>2. Good(Below(stack), items, nodes) BY <1>1, BelowGood
<1>3. "ORD" \in Classes BY DEF Classes
<1> QED BY <1>1, <1>2, <1>3, GroupListTyped, DeliveredGood

(* Items replaced in place: the lists still point at items.                *)
LEMMA GoodItems ==
  ASSUME NEW stk, NEW its, NEW nds, Good(stk, its, nds),
         NEW its2 \in Seq(Item), DOMAIN its2 = DOMAIN its
  PROVE  Good(stk, its2, nds)
BY DEF Good, Typed, LinkedTo

(* A closing brace pops a script into its atom.                             *)
LEMMA CloseScriptGood == ASSUME IInv, CloseScript PROVE After
<1> DEFINE its == FillScript(items, Top.script, GroupList)
<1>1. Top.role = "SCRIPT" /\ Becomes(Below(stack), its, nodes) BY DEF CloseScript
<1>2. Good(Below(stack), items, nodes) BY <1>1, BelowGood
<1>3. its \in Seq(Item) /\ DOMAIN its = DOMAIN items
  BY TopParts, GroupListTyped, FillTyped
<1> HIDE DEF its
<1>4. Good(Below(stack), its, nodes) BY <1>2, <1>3, GoodItems
<1> QED BY <1>1, <1>4, BecameGood

(* A script mark.                                                           *)
LEMMA ScriptMarkGood == ASSUME IInv, NEW t, ScriptMark(t) PROVE After
<1> DEFINE kind == IF t = "^" THEN "SUP" ELSE "SUB"
           mark(target) == [kind |-> kind, target |-> target, mark |-> pos]
           Marked(stk, target) ==
             SetTop(stk, [stk[Len(stk)] EXCEPT !.pending = mark(target)])
           more == Append(items, Atom("ORD", Empty(pos)))
<1>1. /\ t \in {"^", "_"} /\ MathRules(Top) /\ ~Waiting(Top) /\ Idle(Top)
      /\ \/ Fail("double script")
         \/ HasAtomTail(Top) /\ Becomes(Marked(stack, Tail1(Top)), items, nodes)
         \/ OutOfMemory
         \/ Becomes(Marked(Linked(stack, items), Len(items) + 1), more, nodes)
  BY DEF ScriptMark, Allowed, MathToken, Refused, NeverScripts, Idle
<1>2. ASSUME NEW stk, NEW its, Good(stk, its, nodes),
             Same(Top, stk[Len(stk)]), stk[Len(stk)].collect = Top.collect,
             stk[Len(stk)].wait = Top.wait, NEW target \in Nat
      PROVE  Good(Marked(stk, target), its, nodes)
  <2> DEFINE f == stk[Len(stk)]
             m == mark(target)
             g == [f EXCEPT !.pending = m]
  <2>1. m \in Script BY TopParts DEF Script
  <2>2. f \in FrameType /\ its \in Seq(Item) /\ nodes \in Seq(Built) BY <1>2, TopGood
  <2> HIDE DEF m, f
  <2>3. /\ g \in FrameType /\ Same(f, g) /\ g.list = f.list
        /\ g.collect = f.collect /\ g.pending = m /\ g.wait = f.wait
    BY <2>1, <2>2, PendingSet
  <2> HIDE DEF g
  <2>4. ~Collecting(g) /\ ~Waiting(g) /\ Same(Top, g)
    BY <1>1, <1>2, <2>3 DEF f, Collecting, Waiting, Idle, Same
  <2>5. Steady(g) BY <1>1, <2>4, SteadyMath
  <2>6. Good(SetTop(stk, g), its, nodes)
    BY <1>2, <2>2, <2>3, <2>5, TopChanged DEF f
  <2> QED BY <2>6 DEF g, f, m
<1> HIDE DEF Marked, kind, more
<1>3. CASE Fail("double script")
  <2>1. "double script" \in Messages BY DEF Messages
  <2> QED BY <1>3, <2>1, FailedGood
<1>4. CASE HasAtomTail(Top) /\ Becomes(Marked(stack, Tail1(Top)), items, nodes)
  <2>1. Tail1(Top) \in Nat BY <1>4, TopParts DEF HasAtomTail, Tail1
  <2>2. Good(Marked(stack, Tail1(Top)), items, nodes)
    BY <1>2, <2>1, TopParts DEF IInv, Same
  <2> QED BY <1>4, <2>2, BecameGood
<1>5. CASE OutOfMemory BY <1>5, NoMemory
<1>6. CASE Becomes(Marked(Linked(stack, items), Len(items) + 1), more, nodes)
  <2>1. Atom("ORD", Empty(pos)) \in Item
    <3>1. Empty(pos) \in Field BY TopParts, EmptyTyped
    <3> QED BY <3>1, AtomTyped DEF Classes
  <2>2. Good(stack, items, nodes) BY DEF IInv
  <2>3. /\ Good(Linked(stack, items), more, nodes)
        /\ Same(Top, Linked(stack, items)[Len(Linked(stack, items))])
        /\ Linked(stack, items)[Len(Linked(stack, items))].collect = Top.collect
        /\ Linked(stack, items)[Len(Linked(stack, items))].wait = Top.wait
    BY <2>1, <2>2, ItemLinked DEF Top, more
  <2>4. Len(items) + 1 \in Nat BY TopParts
  <2>5. Good(Marked(Linked(stack, items), Len(items) + 1), more, nodes)
    BY <1>2, <2>3, <2>4
  <2> QED BY <1>6, <2>5, BecameGood
<1> QED BY <1>1, <1>3, <1>4, <1>5, <1>6

(* The cell, or the last cell and its row, closed in the top frame.        *)
LEMMA CellTyped ==
  ASSUME IInv PROVE CellOf(Top) \in Cell
<1> DEFINE empty == Top.list = << >>
           b == IF empty THEN Top.cellStart ELSE items[Head(Top.list)].begin
           e == IF empty THEN Top.cellStart ELSE items[Tail1(Top)].end
<1>1. Top.cellStart \in Nat BY TopParts DEF FrameType
<1>2. \A i \in DOMAIN items : items[i].begin \in Nat /\ items[i].end \in Nat
  <2>1. \A i \in DOMAIN items : items[i] \in Item BY TopParts
  <2> QED BY <2>1 DEF Item
<1>3. ~empty => Head(Top.list) \in DOMAIN items /\ Tail1(Top) \in DOMAIN items
  <2> SUFFICES ASSUME ~empty
               PROVE  Head(Top.list) \in DOMAIN items /\ Tail1(Top) \in DOMAIN items
    OBVIOUS
  <2>1. /\ Top.list \in Seq(Nat) /\ Top.list # << >>
        /\ \A j \in DOMAIN Top.list : Top.list[j] \in DOMAIN items
    BY TopParts
  <2> DEFINE list == Top.list
  <2>2. list \in Seq(Nat) /\ list # << >> BY <2>1
  <2>3. \A j \in DOMAIN list : list[j] \in DOMAIN items BY <2>1
  <2> HIDE DEF list
  <2>4. 1 \in DOMAIN list /\ Len(list) \in DOMAIN list /\ Head(list) = list[1] BY <2>2
  <2> QED BY <2>3, <2>4 DEF list, Tail1
<1>4. b \in Nat /\ e \in Nat BY <1>1, <1>2, <1>3
<1>5. CellOf(Top) = [list |-> Top.list, begin |-> b, end |-> e] BY DEF CellOf
<1> HIDE DEF b, e
<1> QED BY <1>4, <1>5, TopParts DEF Cell

(* The top frame with its list closed into a cell.                          *)
LEMMA WithCellTyped ==
  ASSUME IInv, NEW start \in Nat
  PROVE  LET g == WithCell(Top, start) IN
           /\ g \in FrameType /\ Same(Top, g) /\ g.list = << >>
           /\ g.collect = Top.collect /\ g.pending = Top.pending /\ g.wait = Top.wait
<1> DEFINE cells == Append(Top.cells, CellOf(Top))
           f == Top
           g == WithCell(Top, start)
<1>1. Top.cells \in Seq(Cell) BY TopParts DEF FrameType
<1>2. cells \in Seq(Cell) BY <1>1, CellTyped
<1>3. g = [f EXCEPT !.cells = cells, !.list = << >>, !.cellStart = start] BY DEF WithCell
<1>4. f \in FrameType BY TopParts
<1> HIDE DEF cells, f, g
<1>5. << >> \in Seq(Nat) OBVIOUS
<1>6. /\ g \in FrameType /\ Same(f, g) /\ g.list = << >>
      /\ g.collect = f.collect /\ g.pending = f.pending /\ g.wait = f.wait
  BY <1>2, <1>3, <1>4, <1>5 DEF FrameType, Same
<1> QED BY <1>6 DEF f, g

(* The top frame with its cells closed into a row.                          *)
LEMMA WithRowTyped ==
  ASSUME IInv, NEW start \in Nat
  PROVE  LET g == WithRow(Top, start) IN
           /\ g \in FrameType /\ Same(Top, g) /\ g.list = << >>
           /\ g.collect = Top.collect /\ g.pending = Top.pending /\ g.wait = Top.wait
<1> DEFINE row == Append(Top.cells, CellOf(Top))
           f == WithCell(Top, start)
           rows == Append(f.rows, row)
           g == WithRow(Top, start)
<1>1. /\ f \in FrameType /\ Same(Top, f) /\ f.list = << >>
      /\ f.collect = Top.collect /\ f.pending = Top.pending /\ f.wait = Top.wait
  BY WithCellTyped
<1>2. row \in Seq(Cell)
  <2>1. Top.cells \in Seq(Cell) BY TopParts DEF FrameType
  <2> QED BY <2>1, CellTyped
<1>3. g = [f EXCEPT !.rows = rows, !.cells = << >>] BY DEF WithRow
<1> HIDE DEF row, f
<1>4. f.rows \in Seq(Seq(Cell)) BY <1>1 DEF FrameType
<1>5. rows \in Seq(Seq(Cell)) BY <1>2, <1>4
<1>6. << >> \in Seq(Cell) OBVIOUS
<1> HIDE DEF rows, g
<1>7. /\ g \in FrameType /\ Same(f, g) /\ g.list = f.list
      /\ g.collect = f.collect /\ g.pending = f.pending /\ g.wait = f.wait
  BY <1>1, <1>3, <1>5, <1>6 DEF FrameType, Same
<1>8. Same(Top, g) BY <1>1, <1>7 DEF Same
<1> QED BY <1>1, <1>7, <1>8 DEF g

(* The top frame with its list closed into a cell.                         *)
LEMMA EmptiedGood ==
  ASSUME IInv, MathRules(Top), ~Waiting(Top), Idle(Top),
         NEW g \in FrameType, Same(Top, g), g.list = << >>,
         g.collect = Top.collect, g.pending = Top.pending, g.wait = Top.wait
  PROVE  Good(SetTop(stack, g), items, nodes)
<1>1. Steady(g)
  BY SteadyMath DEF Idle, Collecting, Waiting
<1>2. Kin(stack[Len(stack)], g) BY DEF Kin, Same, Top
<1>3. \A j \in DOMAIN g.list : g.list[j] \in DOMAIN items OBVIOUS
<1>4. DOMAIN items \subseteq DOMAIN items /\ Good(stack, items, nodes) BY DEF IInv
<1> QED BY <1>1, <1>2, <1>3, <1>4, TopParts, TopReplaced

(* An alignment tab ends a cell.                                            *)
LEMMA AlignmentTabGood == ASSUME IInv, AlignmentTab PROVE After
<1> DEFINE g == WithCell(Top, pos + 1)
<1>1. /\ MathRules(Top) /\ ~Waiting(Top) /\ Idle(Top)
      /\ \/ Fail("misplaced alignment tab")
         \/ Fail("extra alignment tab")
         \/ OutOfMemory
         \/ Becomes(SetTop(stack, g), items, nodes)
  BY DEF AlignmentTab, Allowed, MathToken, Refused, NeverScripts, Idle
<1>2. /\ g \in FrameType /\ Same(Top, g) /\ g.list = << >>
      /\ g.collect = Top.collect /\ g.pending = Top.pending /\ g.wait = Top.wait
  BY TopParts, WithCellTyped
<1> HIDE DEF g
<1>3. Good(SetTop(stack, g), items, nodes) BY <1>1, <1>2, EmptiedGood
<1>4. "misplaced alignment tab" \in Messages /\ "extra alignment tab" \in Messages
  BY DEF Messages
<1> QED BY <1>1, <1>3, <1>4, FailedGood, NoMemory, BecameGood

(* The tokens a row terminator looks at.                                   *)
LEMMA TokensAreSource ==
  /\ Alphabet \subseteq Source /\ "END" \in Source /\ "BAD" \in Source /\ "SPACE" \in Source
  /\ "\\\\" \in Source /\ Names \subseteq Source
  /\ \A seen : Scannable(seen) \subseteq Source
<1>1. Alphabet \subseteq Tokens BY SourceAssumption DEF Alphabet
<1>2. Tokens \subseteq Source /\ "END" \in Source BY DEF Source
<1>3. "BAD" \in Tokens /\ "SPACE" \in Tokens BY DEF Tokens, Blank
<1>4. "\\\\" \in Controls BY DEF Controls
<1>5. "\\\\" \in Tokens BY <1>4 DEF Tokens
<1>6. Names \subseteq Source BY SourceAssumption DEF Source
<1> HIDE DEF Tokens, Source
<1>7. \A seen : Scannable(seen) \subseteq Source BY <1>1, <1>2 DEF Scannable
<1> QED BY <1>1, <1>2, <1>3, <1>5, <1>6, <1>7

(* A lookahead is a non-empty sequence of source tokens.                    *)
LEMMA LookaheadTyped ==
  ASSUME NEW seen, NEW look \in Lookaheads(seen)
  PROVE  look \in Seq(Source) /\ look # << >> /\ Len(look) \in Nat
<1> HIDE DEF Source
<1>1. CASE \E t \in Scannable(seen) \ Blank : look = <<t>>
  <2>1. PICK t \in Source : look = <<t>> BY <1>1, TokensAreSource
  <2> QED BY <2>1
<1>2. CASE \E b \in Scannable(seen) \cap Blank, t \in Scannable(Append(seen, "SPACE")) :
             look = <<b, t>>
  <2>1. PICK b \in Source, t \in Source : look = <<b, t>> BY <1>2, TokensAreSource
  <2> QED BY <2>1
<1> QED BY <1>1, <1>2 DEF Lookaheads

(* The text extended by a token.                                            *)
LEMMA WithTyped ==
  ASSUME text \in Seq(Source), NEW t \in Source
  PROVE  With(t) \in Seq(Source)
BY DEF With

(* A row terminator, whatever its lookahead found.                          *)
LEMMA RowEndedGood ==
  ASSUME IInv, MathRules(Top), ~Waiting(Top), Idle(Top),
         NEW seen \in Seq(Source), NEW consumed \in Nat, NEW look \in Seq(Source),
         look # << >>, RowEnded(seen, consumed, look)
  PROVE  After /\ text' \in Seq(Source) /\ pos' \in Nat
<1> DEFINE at == Len(seen) + Len(look) - 1
           g  == WithRow(Top, consumed)
<1>1. /\ text' = seen \o look /\ pos' = consumed
      /\ \/ OutOfMemory
         \/ Malformed(at)
         \/ Refuse("unsupported row spacing", at, at + 1)
         \/ Becomes(SetTop(stack, g), items, nodes)
  BY DEF RowEnded
<1>2. at \in Nat /\ at + 1 \in Nat
  <2>1. Len(seen) \in Nat /\ Len(look) \in Nat /\ Len(look) >= 1 OBVIOUS
  <2> QED BY <2>1
<1>3. "unsupported row spacing" \in Messages BY DEF Messages
<1>4. /\ g \in FrameType /\ Same(Top, g) /\ g.list = << >>
      /\ g.collect = Top.collect /\ g.pending = Top.pending /\ g.wait = Top.wait
  BY WithRowTyped
<1> HIDE DEF g, at
<1>5. Good(SetTop(stack, g), items, nodes) BY <1>4, EmptiedGood
<1>6. After BY <1>1, <1>2, <1>3, <1>5, NoMemory, MalformedGood, RefusedGood, BecameGood
<1>7. seen \o look \in Seq(Source) OBVIOUS
<1> QED BY <1>1, <1>6, <1>7

(* A row terminator ends a row and scans ahead.                             *)
LEMMA RowTerminatorGood ==
  ASSUME IInv, RowTerminator
  PROVE  After /\ text' \in Seq(Source) /\ pos' \in Nat
<1> DEFINE seen == With("\\\\")
<1>1. MathRules(Top) /\ ~Waiting(Top) /\ Idle(Top) BY DEF RowTerminator
<1>2. PICK look \in Lookaheads(seen) :
        \/ RowEnded(seen, pos + 1, look)
        \/ \E more \in Lookaheads(seen \o look) :
             RowEnded(seen \o look, pos + 1 + Len(look), more)
  BY DEF RowTerminator
<1>3. seen \in Seq(Source)
  <2>1. "\\\\" \in Source BY TokensAreSource
  <2>2. text \in Seq(Source) BY DEF IInv
  <2> QED BY <2>1, <2>2, WithTyped
<1>4. look \in Seq(Source) /\ look # << >> /\ Len(look) \in Nat BY <1>2, LookaheadTyped
<1>5. seen \o look \in Seq(Source) BY <1>3, <1>4
<1>6. pos + 1 \in Nat /\ pos + 1 + Len(look) \in Nat BY <1>4, TopParts
<1> HIDE DEF seen
<1>7. CASE RowEnded(seen, pos + 1, look)
  BY <1>1, <1>3, <1>4, <1>6, <1>7, RowEndedGood
<1>8. CASE \E more \in Lookaheads(seen \o look) :
             RowEnded(seen \o look, pos + 1 + Len(look), more)
  <2>1. PICK more \in Lookaheads(seen \o look) :
               RowEnded(seen \o look, pos + 1 + Len(look), more)
    BY <1>8
  <2>2. more \in Seq(Source) /\ more # << >> BY <2>1, LookaheadTyped
  <2> QED BY <1>1, <1>5, <1>6, <2>1, <2>2, RowEndedGood
<1> QED BY <1>2, <1>7, <1>8

(* A well-formed known name is an environment.                              *)
LEMMA NamedEnvironment ==
  ASSUME NEW name \in Named, name \notin {"END", "BAD", "unknown"}
  PROVE  name \in Environments
BY SourceAssumption DEF Named

(* An environment name that is none.                                        *)
LEMMA BadNameGood == ASSUME IInv, BadName PROVE After
<1>1. "missing environment name" \in Messages BY DEF Messages
<1> QED BY <1>1, TopParts, RefusedGood, MalformedGood DEF BadName

(* \begin pushes a cell.                                                    *)
LEMMA BeginEnvironmentGood ==
  ASSUME IInv, NEW name \in Named, BeginEnvironment(name)
  PROVE  After
<1> DEFINE base == Inside("CELL", Top, pos)
           f == [base EXCEPT !.env = name, !.stretched = @ \/ Stretches(name),
                             !.cellStart = pos + 2]
<1>1. /\ MathRules(Top) /\ ~Waiting(Top) /\ Idle(Top)
      /\ \/ Fail("missing environment name")
         \/ BadName
         \/ Refuse("unsupported environment", pos, pos + 2)
         \/ name \notin {"END", "BAD", "unknown"} /\ Open(stack, f, pos, pos + 2)
  BY DEF BeginEnvironment
<1>2. "missing environment name" \in Messages /\ "unsupported environment" \in Messages
  BY DEF Messages
<1>3. CASE name \notin {"END", "BAD", "unknown"} /\ Open(stack, f, pos, pos + 2)
  <2>1. "CELL" \in Roles BY DEF Roles
  <2>2. /\ base \in FrameType /\ base.role = "CELL" /\ base.list = << >> /\ ~base.text
        /\ ~Collecting(base) /\ ~Pending(base) /\ ~Waiting(base)
    BY <2>1, TopParts, FreshFrame DEF Inside
  <2>3. name \in Environments BY <1>3, NamedEnvironment
  <2> HIDE DEF base
  <2>4. base.stretched \in BOOLEAN BY <2>2 DEF FrameType
  <2>5. (base.stretched \/ Stretches(name)) \in BOOLEAN BY <2>4 DEF Stretches
  <2>6. pos + 2 \in Nat BY TopParts
  <2>7. /\ f \in FrameType /\ f.role = base.role /\ f.list = base.list
        /\ f.text = base.text /\ f.collect = base.collect /\ f.pending = base.pending
        /\ f.wait = base.wait
    <3> DEFINE stretched == base.stretched \/ Stretches(name)
    <3>1. f = [base EXCEPT !.env = name, !.stretched = stretched, !.cellStart = pos + 2]
      OBVIOUS
    <3>2. stretched \in BOOLEAN BY <2>5
    <3> HIDE DEF stretched, f, Environments
    <3> QED BY <2>2, <2>3, <2>6, <3>1, <3>2 DEF FrameType
  <2> HIDE DEF f
  <2>8. ~Collecting(f) /\ ~Pending(f) /\ ~Waiting(f) /\ ~f.text /\ f.role = "CELL"
    BY <2>2, <2>7 DEF Collecting, Pending, Waiting
  <2>9. Steady(f) BY <2>8, SteadyFresh
  <2>10. PushedOn(Top, f) BY <1>1, <2>8 DEF PushedOn, Idle, MathRules
  <2>11. PushedOn(stack[Len(stack)], f) /\ Good(stack, items, nodes)
    BY <2>10 DEF Top, IInv
  <2>12. f.list = << >> /\ f \in FrameType BY <2>2, <2>7
  <2> QED BY <1>3, <2>6, <2>9, <2>11, <2>12, TopParts, OpenedGood
<1> HIDE DEF f
<1> QED BY <1>1, <1>2, <1>3, TopParts, BadNameGood, FailedGood, RefusedGood

(* \end pops a cell and delivers the array.                                 *)
LEMMA EndEnvironmentGood ==
  ASSUME IInv, NEW name \in Named, EndEnvironment(name)
  PROVE  After
<1> DEFINE rows  == LastRow(Top).rows
           strut == Strut(Top)
           base  == Node("ARRAY", Top.open)
           node  == [base EXCEPT !.rows = rows, !.strut = strut]
           field == NodeField("ARRAY", Len(nodes) + 1, Top.open, pos + 2)
           class == ArrayClass(Top.env)
           nds   == Append(nodes, node)
<1>1. \/ Fail("missing environment name")
      \/ BadName
      \/ Refuse("unmatched \\end", pos, pos + 2)
      \/ Refuse("mismatched \\end", pos, pos + 2)
      \/ OutOfMemory
      \/ Top.role = "CELL" /\ Deliver(Below(stack), items, nds, field, class)
  BY DEF EndEnvironment
<1>2. /\ "missing environment name" \in Messages /\ "unmatched \\end" \in Messages
      /\ "mismatched \\end" \in Messages
  BY DEF Messages
<1>3. CASE Top.role = "CELL" /\ Deliver(Below(stack), items, nds, field, class)
  <2>1. rows \in Seq(Seq(Cell))
    <3>1. Top.cellStart \in Nat /\ Top.rows \in Seq(Seq(Cell)) BY TopParts DEF FrameType
    <3>2. WithRow(Top, Top.cellStart) \in FrameType BY <3>1, WithRowTyped
    <3>3. WithRow(Top, Top.cellStart).rows \in Seq(Seq(Cell)) BY <3>2 DEF FrameType
    <3> QED BY <3>1, <3>3 DEF LastRow
  <2>2. strut \in Struts BY DEF Strut, Struts
  <2>3. base \in Built BY TopParts, NodeTyped
  <2> HIDE DEF rows, strut, base
  <2>4. node \in Built BY <2>1, <2>2, <2>3 DEF Built
  <2> HIDE DEF node
  <2>5. nds \in Seq(Built) BY <2>4, TopParts
  <2>6. field \in Field
    <3>1. "ARRAY" \in FieldKinds /\ Len(nodes) + 1 \in Nat BY TopParts DEF FieldKinds
    <3> QED BY <3>1, TopParts, NodeFieldTyped
  <2>7. class \in Classes BY DEF ArrayClass, Classes
  <2> HIDE DEF nds, field, class
  <2>8. Good(Below(stack), items, nodes) BY <1>3, BelowGood
  <2>9. Good(Below(stack), items, nds) BY <2>5, <2>8, GoodNodes
  <2> QED BY <1>3, <2>6, <2>7, <2>9, DeliveredGood
<1> HIDE DEF field, nds, class
<1> QED BY <1>1, <1>2, <1>3, TopParts, BadNameGood, FailedGood, RefusedGood,
        NoMemory

(* A command that starts to collect its arguments.                         *)
LEMMA CollectBegunGood ==
  ASSUME IInv, MathRules(Top), ~Waiting(Top), ~Collecting(Top),
         NEW kind \in {"FRACTION", "RADICAL", "ACCENT", "STYLE"}, NEW face \in Faces,
         NEW node \in Nat, NEW nds \in Seq(Built), CollectBegin(kind, face, node, nds)
  PROVE  After
<1> DEFINE collect == [NoCollect EXCEPT !.kind = kind, !.begin = pos, !.node = node,
                                        !.face = face]
           class   == IF kind = "FRACTION" THEN "INNER" ELSE "ORD"
           atom    == Atom(class, Empty(pos))
           eager   == [atom EXCEPT !.sup = Empty(pos + 1), !.sub = Empty(pos + 1),
                                   !.end = pos + 1]
           owed    == Top.pending
           c1      == [collect EXCEPT !.script = owed]
           g1      == [Top EXCEPT !.pending = NoScript, !.collect = c1]
           stk     == Linked(stack, items)
           f2      == stk[Len(stk)]
           c2      == [collect EXCEPT !.item = Len(items) + 1]
           g2      == [f2 EXCEPT !.collect = c2]
           more    == Append(items, eager)
<1>1. \/ Pending(Top) /\ Becomes(SetTop(stack, g1), items, nds)
      \/ ~Pending(Top) /\ Becomes(SetTop(stk, g2), more, nds)
  BY DEF CollectBegin
<1>2. collect \in Collect BY TopParts, Absent DEF Collect
<1>3. owed \in Script /\ Len(items) + 1 \in Nat BY TopParts
<1> HIDE DEF collect, owed
<1>4. c1 \in Collect /\ c2 \in Collect BY <1>2, <1>3 DEF Collect
<1> HIDE DEF c1, c2
<1>5. CASE Pending(Top) /\ Becomes(SetTop(stack, g1), items, nds)
  <2> DEFINE f0 == Top
  <2>0. f0 \in FrameType BY TopParts
  <2>1. /\ g1 \in FrameType /\ Same(f0, g1) /\ g1.list = f0.list
        /\ g1.pending = NoScript /\ g1.wait = f0.wait
    <3>1. g1 = [f0 EXCEPT !.pending = NoScript, !.collect = c1] OBVIOUS
    <3> HIDE DEF f0, g1
    <3> QED BY <1>4, <2>0, <3>1, Absent DEF FrameType, Same
  <2> HIDE DEF g1
  <2>2. ~Pending(g1) /\ ~Waiting(g1) BY <2>1 DEF Pending, NoScript, Waiting
  <2>3. Steady(g1) BY <2>1, <2>2, SteadyMath
  <2>4. Good(SetTop(stack, g1), items, nds)
    BY <2>1, <2>3, TopParts, TopChanged DEF IInv, Top
  <2> QED BY <1>5, <2>4, BecameGood
<1>6. CASE ~Pending(Top) /\ Becomes(SetTop(stk, g2), more, nds)
  <2>1. Empty(pos) \in Field /\ Empty(pos + 1) \in Field /\ class \in Classes
    BY TopParts, EmptyTyped DEF Classes
  <2>2. atom \in Item BY <2>1, AtomTyped
  <2> HIDE DEF atom
  <2>3. eager \in Item BY <2>1, <2>2, TopParts DEF Item
  <2> HIDE DEF eager, stk
  <2>4. Good(stack, items, nodes) BY DEF IInv
  <2>5. /\ Good(stk, more, nodes) /\ f2 \in FrameType
        /\ Same(Top, f2) /\ f2.pending = Top.pending /\ f2.wait = Top.wait
    BY <2>3, <2>4, ItemLinked DEF Top, stk
  <2>6. more \in Seq(Item) BY <2>5, TopGood
  <2> HIDE DEF f2
  <2>7. /\ g2 \in FrameType /\ Same(f2, g2) /\ g2.list = f2.list
        /\ g2.pending = f2.pending /\ g2.wait = f2.wait
    BY <1>4, <2>5, CollectSet
  <2> HIDE DEF g2, more
  <2>8. ~Pending(g2) /\ ~Waiting(g2) /\ MathRules(f2)
    BY <1>6, <2>5, <2>7 DEF Pending, Waiting, MathRules, Same
  <2>9. Steady(g2) BY <2>7, <2>8, SteadyMath
  <2>10. Good(SetTop(stk, g2), more, nds)
    BY <2>5, <2>6, <2>7, <2>9, TopChanged DEF f2
  <2> QED BY <1>6, <2>10, BecameGood
<1> QED BY <1>1, <1>5, <1>6

(* A style switch starts to collect.                                        *)
LEMMA StyleCommandGood == ASSUME IInv, NEW t, StyleCommand(t) PROVE After
<1>1. /\ MathRules(Top) /\ ~Waiting(Top) /\ ~Collecting(Top)
      /\ OutOfMemory \/ CollectBegin("STYLE", FaceOf(t), 0, nodes)
  BY DEF StyleCommand, Allowed, MathToken, Refused, NeverArguments
<1>2. FaceOf(t) \in Faces BY DEF FaceOf, Faces
<1>3. 0 \in Nat /\ nodes \in Seq(Built) BY TopParts
<1> QED BY <1>1, <1>2, <1>3, NoMemory, CollectBegunGood

(* A fraction, accent or radical starts to collect.                         *)
LEMMA ConstructCommandGood == ASSUME IInv, NEW t, ConstructCommand(t) PROVE After
<1> DEFINE kind == CollectorOf(t)
           node == Node(kind, pos + 1)
           nds  == Append(nodes, node)
<1>1. /\ MathRules(Top) /\ ~Waiting(Top) /\ ~Collecting(Top) /\ t \notin Styles
      /\ OutOfMemory \/ CollectBegin(kind, "NONE", Len(nodes) + 1, nds)
  BY DEF ConstructCommand, Allowed, MathToken, Refused
<1>2. kind \in {"FRACTION", "RADICAL", "ACCENT"} BY <1>1 DEF CollectorOf
<1> HIDE DEF kind
<1>3. node \in Built BY <1>2, TopParts, NodeTyped
<1> HIDE DEF node
<1>4. nds \in Seq(Built) /\ Len(nodes) + 1 \in Nat BY <1>3, TopParts
<1>5. "NONE" \in Faces BY DEF Faces
<1> HIDE DEF nds
<1> QED BY <1>1, <1>2, <1>4, <1>5, NoMemory, CollectBegunGood

(* A glyph at the current token is a field.                                 *)
LEMMA GlyphTyped ==
  ASSUME IInv, NEW t, NEW face \in Faces
  PROVE  Glyph(t, face) \in Field
BY TopParts, CharTyped DEF Glyph

(* An item allocated and not yet linked changes nothing else.               *)
LEMMA GoodMoreItems ==
  ASSUME NEW stk, NEW its, NEW nds, Good(stk, its, nds), NEW item \in Item
  PROVE  Good(stk, Append(its, item), nds)
<1> DEFINE its2 == Append(its, item)
<1>1. its \in Seq(Item) BY DEF Good, Typed
<1>2. its2 \in Seq(Item) /\ DOMAIN its \subseteq DOMAIN its2 BY <1>1
<1> HIDE DEF its2
<1>3. LinkedTo(stk, its2) BY <1>2 DEF Good, Typed, LinkedTo
<1>4. Good(stk, its2, nds) BY <1>2, <1>3 DEF Good, Typed
<1> QED BY <1>4 DEF its2

(* An operator is appended, or delivered as a list.                         *)
LEMMA OperatorGood == ASSUME IInv, NEW t, Operator(t) PROVE After
<1> DEFINE letter  == Atom("ORD", Glyph(t, "FIXED"))
           its     == IF t \in Functions THEN Append(items, letter) ELSE items
           nucleus == IF t \in Functions THEN ListField(<<Len(its)>>, pos, pos + 1)
                      ELSE Glyph(t, "FIXED")
           base    == Atom("OP", nucleus)
           op      == [base EXCEPT !.limits = LimitsOf(t)]
           arg     == ListField(<<Len(its) + 1>>, pos, pos + 1)
<1>1. \/ OutOfMemory
      \/ Deliver(stack, Append(its, op), nodes, arg, "ORD")
      \/ Becomes(Linked(stack, its), Append(its, op), nodes)
  BY DEF Operator
<1>2. "FIXED" \in Faces /\ "ORD" \in Classes /\ "OP" \in Classes BY DEF Faces, Classes
<1>3. Glyph(t, "FIXED") \in Field BY <1>2, GlyphTyped
<1>4. letter \in Item BY <1>2, <1>3, AtomTyped
<1> HIDE DEF letter
<1>5. Good(stack, its, nodes) BY <1>4, GoodMoreItems DEF IInv
<1> HIDE DEF its
<1>6. its \in Seq(Item) BY <1>5, TopGood
<1>7. Len(its) \in Nat /\ <<Len(its)>> \in Seq(Nat) /\ <<Len(its) + 1>> \in Seq(Nat)
  <2>1. Len(its) \in Nat /\ Len(its) + 1 \in Nat BY <1>6
  <2> QED BY <2>1
<1>8. nucleus \in Field /\ arg \in Field
  <2>1. ListField(<<Len(its)>>, pos, pos + 1) \in Field BY <1>7, TopParts, ListTyped
  <2>2. arg \in Field BY <1>7, TopParts, ListTyped
  <2> QED BY <1>3, <2>1, <2>2
<1> HIDE DEF nucleus, arg
<1>9. base \in Item BY <1>2, <1>8, AtomTyped
<1> HIDE DEF base
<1>10. op \in Item
  <2>1. LimitsOf(t) \in {"DISPLAY", "ALWAYS", "NEVER"} BY DEF LimitsOf
  <2> QED BY <1>9, <2>1 DEF Item
<1> HIDE DEF op
<1>11. Good(stack, Append(its, op), nodes) BY <1>5, <1>10, GoodMoreItems
<1>12. Good(Linked(stack, its), Append(its, op), nodes) BY <1>5, <1>10, ItemLinked
<1> QED BY <1>1, <1>2, <1>8, <1>11, <1>12, NoMemory, DeliveredGood, BecameGood

(* \limits and \nolimits change the last operator.                          *)
LEMMA LimitsCommandGood == ASSUME IInv, NEW t, LimitsCommand(t) PROVE After
<1> DEFINE k    == Tail1(Top)
           item == [items[k] EXCEPT !.limits = LimitsOf(t), !.end = pos + 1]
           its  == [items EXCEPT ![k] = item]
<1>1. \/ HasAtomTail(Top) /\ Becomes(stack, its, nodes)
      \/ Fail("misplaced limits")
  BY DEF LimitsCommand
<1>2. LimitsOf(t) \in {"DISPLAY", "ALWAYS", "NEVER"} BY DEF LimitsOf
<1>3. k \in DOMAIN items => item \in Item
  <2> SUFFICES ASSUME k \in DOMAIN items PROVE item \in Item OBVIOUS
  <2>1. items[k] \in Item BY TopParts
  <2> HIDE DEF k
  <2> QED BY <1>2, <2>1, TopParts DEF Item
<1> HIDE DEF item, k
<1>4. its \in Seq(Item) /\ DOMAIN its = DOMAIN items BY <1>3, TopParts, ExceptTyped
<1> HIDE DEF its
<1>5. Good(stack, its, nodes) BY <1>4, GoodItems DEF IInv
<1>6. "misplaced limits" \in Messages BY DEF Messages
<1> QED BY <1>1, <1>5, <1>6, FailedGood, BecameGood

(* A glyph is delivered.                                                    *)
LEMMA GlyphTokenGood == ASSUME IInv, NEW t, GlyphToken(t) PROVE After
<1>1. FaceOfGlyph(t) \in Faces BY DEF FaceOfGlyph, Faces
<1>2. Glyph(t, FaceOfGlyph(t)) \in Field BY <1>1, GlyphTyped
<1>3. Deliver(stack, items, nodes, Glyph(t, FaceOfGlyph(t)), ClassOf(t)) BY DEF GlyphToken
<1>4. Good(stack, items, nodes) BY DEF IInv
<1> QED BY <1>2, <1>3, <1>4, ClassTyped, DeliveredGood

(* A glyph under the document rules is appended.                            *)
LEMMA TextGlyphGood == ASSUME IInv, NEW t, TextGlyph(t) PROVE After
<1>1. "FIXED" \in Faces /\ "ORD" \in Classes BY DEF Faces, Classes
<1>2. Glyph(t, "FIXED") \in Field BY <1>1, GlyphTyped
<1>3. Atom("ORD", Glyph(t, "FIXED")) \in Item BY <1>1, <1>2, AtomTyped
<1> QED BY <1>3, AppendedGood DEF TextGlyph

(* A spacing command appends a space.                                       *)
LEMMA SpacingCommandGood == ASSUME IInv, NEW t, SpacingCommand(t) PROVE After
<1>1. Space(pos, pos + 1) \in Item BY TopParts, SpaceTyped
<1> QED BY <1>1, AppendedGood DEF SpacingCommand

-----------------------------------------------------------------------------
(***************************************************************************)
(* The whole step, and the theorems.                                       *)
(***************************************************************************)
Read == text' \in Seq(Source) /\ pos' \in Nat

(* Reading one token keeps the text and the position typed.                 *)
LEMMA ScanTyped == ASSUME IInv, NEW t, Scan(t) PROVE Read
<1>1. text \in Seq(Source) /\ pos \in Nat BY DEF IInv
<1>2. text' = With(t) /\ pos' = pos + 1 /\ Upcoming(t) BY DEF Scan
<1>3. CASE pos < Len(text) BY <1>1, <1>2, <1>3 DEF With, Read
<1>4. CASE ~(pos < Len(text))
  <2>1. t \in Source BY <1>2, <1>4, TokensAreSource DEF Upcoming, MayCome
  <2>2. With(t) \in Seq(Source) BY <1>1, <2>1, WithTyped
  <2> QED BY <1>1, <1>2, <2>2 DEF Read
<1> QED BY <1>3, <1>4

(* Reading a command and a name keeps the text and the position typed.      *)
LEMMA ScanNamedTyped ==
  ASSUME IInv, NEW t \in Source, NEW name \in Named, ScanNamed(t, name)
  PROVE  Read
<1>1. text' = Append(With(t), name) /\ pos' = pos + 2 BY DEF ScanNamed
<1>2. With(t) \in Seq(Source) BY WithTyped DEF IInv
<1>3. name \in Source BY TokensAreSource DEF Named
<1> HIDE DEF Source
<1> QED BY <1>1, <1>2, <1>3, TopParts DEF Read

(* The invariant follows from what a step leaves and what it read.         *)
LEMMA Together == ASSUME After, Read PROVE IInv'
BY DEF After, Read, IInv, Good, Typed, LinkedTo, Disciplined

(* Each step of the parser keeps the invariant.                            *)
LEMMA NextKept == ASSUME IInv, Next PROVE IInv'
<1>1. CASE Accept
  <2>1. After BY <1>1, AcceptGood
  <2>2. Read BY <1>1, ScanTyped DEF Accept
  <2> QED BY <2>1, <2>2, Together
<1>2. CASE EndTooEarly
  <2>1. After BY <1>2, EndTooEarlyGood
  <2>2. Read BY <1>2, ScanTyped DEF EndTooEarly
  <2> QED BY <2>1, <2>2, Together
<1>3. CASE ScanError
  <2>1. After BY <1>3, ScanErrorGood
  <2>2. Read BY <1>3, ScanTyped DEF ScanError
  <2> QED BY <2>1, <2>2, Together
<1>4. CASE ParagraphBreak
  <2>1. After BY <1>4, ParagraphBreakGood
  <2>2. Read BY <1>4, ScanTyped DEF ParagraphBreak
  <2> QED BY <2>1, <2>2, Together
<1>5. CASE MathBlank
  <2>1. After BY <1>5, MathBlankGood
  <2>2. Read BY <1>5, ScanTyped DEF MathBlank
  <2> QED BY <2>1, <2>2, Together
<1>6. CASE WordSpace
  <2>1. After BY <1>6, WordSpaceGood
  <2>2. Read BY <1>6, ScanTyped DEF WordSpace
  <2> QED BY <2>1, <2>2, Together
<1>7. CASE OpenIndex
  <2>1. After BY <1>7, OpenIndexGood
  <2>2. Read BY <1>7, ScanTyped DEF OpenIndex, MathToken
  <2> QED BY <2>1, <2>2, Together
<1>8. CASE CloseIndex
  <2>1. After BY <1>8, CloseIndexGood
  <2>2. Read BY <1>8, ScanTyped DEF CloseIndex, Allowed, MathToken
  <2> QED BY <2>1, <2>2, Together
<1>9. CASE OpenGroup
  <2>1. After BY <1>9, OpenGroupGood
  <2>2. Read BY <1>9, ScanTyped DEF OpenGroup, MathToken
  <2> QED BY <2>1, <2>2, Together
<1>10. CASE CloseText
  <2>1. After BY <1>10, CloseTextGood
  <2>2. Read BY <1>10, ScanTyped DEF CloseText
  <2> QED BY <2>1, <2>2, Together
<1>11. CASE CloseGroup
  <2>1. After BY <1>11, CloseGroupGood
  <2>2. Read BY <1>11, ScanTyped DEF CloseGroup, Allowed, MathToken
  <2> QED BY <2>1, <2>2, Together
<1>12. CASE CloseScript
  <2>1. After BY <1>12, CloseScriptGood
  <2>2. Read BY <1>12, ScanTyped DEF CloseScript, Allowed, MathToken
  <2> QED BY <2>1, <2>2, Together
<1>13. CASE UnmatchedBrace
  <2>1. After BY <1>13, UnmatchedBraceGood
  <2>2. Read BY <1>13, ScanTyped DEF UnmatchedBrace, Allowed, MathToken
  <2> QED BY <2>1, <2>2, Together
<1>14. CASE AlignmentTab
  <2>1. After BY <1>14, AlignmentTabGood
  <2>2. Read BY <1>14, ScanTyped DEF AlignmentTab, Allowed, MathToken
  <2> QED BY <2>1, <2>2, Together
<1>15. CASE MisplacedRow
  <2>1. After BY <1>15, MisplacedRowGood
  <2>2. Read BY <1>15, ScanTyped DEF MisplacedRow, Allowed, MathToken
  <2> QED BY <2>1, <2>2, Together
<1>16. CASE RowTerminator
  <2>1. After /\ Read BY <1>16, RowTerminatorGood DEF Read
  <2> QED BY <2>1, Together
<1>17. ASSUME NEW name \in Named, BeginEnvironment(name) PROVE IInv'
  <2>1. After BY <1>17, BeginEnvironmentGood
  <2>2. "\\begin" \in Source BY DEF Source, Tokens, Controls
  <2>3. Read BY <1>17, <2>2, ScanNamedTyped DEF BeginEnvironment
  <2> QED BY <2>1, <2>3, Together
<1>18. ASSUME NEW name \in Named, EndEnvironment(name) PROVE IInv'
  <2>1. After BY <1>18, EndEnvironmentGood
  <2>2. "\\end" \in Source BY DEF Source, Tokens, Controls
  <2>3. Read BY <1>18, <2>2, ScanNamedTyped DEF EndEnvironment
  <2> QED BY <2>1, <2>3, Together
<1>19. ASSUME NEW t \in Alphabet, MissingDelimiter(t) PROVE IInv'
  <2>1. After BY <1>19, MissingDelimiterGood
  <2>2. Read BY <1>19, ScanTyped DEF MissingDelimiter, AwaitsDelimiter
  <2> QED BY <2>1, <2>2, Together
<1>20. ASSUME NEW t \in Alphabet, OpenFence(t) PROVE IInv'
  <2>1. After BY <1>20, OpenFenceGood
  <2>2. Read BY <1>20, ScanTyped DEF OpenFence, AwaitsDelimiter
  <2> QED BY <2>1, <2>2, Together
<1>21. ASSUME NEW t \in Alphabet, CloseFence(t) PROVE IInv'
  <2>1. After BY <1>21, CloseFenceGood
  <2>2. Read BY <1>21, ScanTyped DEF CloseFence, AwaitsDelimiter
  <2> QED BY <2>1, <2>2, Together
<1>22. ASSUME NEW t \in Alphabet, SizedDelimiter(t) PROVE IInv'
  <2>1. After BY <1>22, SizedDelimiterGood
  <2>2. Read BY <1>22, ScanTyped DEF SizedDelimiter, AwaitsDelimiter
  <2> QED BY <2>1, <2>2, Together
<1>23. ASSUME NEW t \in Alphabet, AskForDelimiter(t) PROVE IInv'
  <2>1. After BY <1>23, AskForDelimiterGood
  <2>2. Read BY <1>23, ScanTyped DEF AskForDelimiter, MathToken
  <2> QED BY <2>1, <2>2, Together
<1>24. ASSUME NEW t \in Alphabet, MissingArgument(t) PROVE IInv'
  <2>1. After BY <1>24, MissingArgumentGood
  <2>2. Read BY <1>24, ScanTyped DEF MissingArgument, MathToken
  <2> QED BY <2>1, <2>2, Together
<1>25. ASSUME NEW t \in Alphabet, ScriptMark(t) PROVE IInv'
  <2>1. After BY <1>25, ScriptMarkGood
  <2>2. Read BY <1>25, ScanTyped DEF ScriptMark, Allowed, MathToken
  <2> QED BY <2>1, <2>2, Together
<1>26. ASSUME NEW t \in Alphabet, StyleCommand(t) PROVE IInv'
  <2>1. After BY <1>26, StyleCommandGood
  <2>2. Read BY <1>26, ScanTyped DEF StyleCommand, Allowed, MathToken
  <2> QED BY <2>1, <2>2, Together
<1>27. ASSUME NEW t \in Alphabet, ConstructCommand(t) PROVE IInv'
  <2>1. After BY <1>27, ConstructCommandGood
  <2>2. Read BY <1>27, ScanTyped DEF ConstructCommand, Allowed, MathToken
  <2> QED BY <2>1, <2>2, Together
<1>28. ASSUME NEW t \in Alphabet, Operator(t) PROVE IInv'
  <2>1. After BY <1>28, OperatorGood
  <2>2. Read BY <1>28, ScanTyped DEF Operator, Allowed, MathToken
  <2> QED BY <2>1, <2>2, Together
<1>29. ASSUME NEW t \in Alphabet, LimitsCommand(t) PROVE IInv'
  <2>1. After BY <1>29, LimitsCommandGood
  <2>2. Read BY <1>29, ScanTyped DEF LimitsCommand, Allowed, MathToken
  <2> QED BY <2>1, <2>2, Together
<1>30. ASSUME NEW t \in Alphabet, GlyphToken(t) PROVE IInv'
  <2>1. After BY <1>30, GlyphTokenGood
  <2>2. Read BY <1>30, ScanTyped DEF GlyphToken, Allowed, MathToken
  <2> QED BY <2>1, <2>2, Together
<1>31. ASSUME NEW t \in Alphabet, TextGlyph(t) PROVE IInv'
  <2>1. After BY <1>31, TextGlyphGood
  <2>2. Read BY <1>31, ScanTyped DEF TextGlyph
  <2> QED BY <2>1, <2>2, Together
<1>32. ASSUME NEW t \in Alphabet, SpacingCommand(t) PROVE IInv'
  <2>1. After BY <1>32, SpacingCommandGood
  <2>2. Read BY <1>32, ScanTyped DEF SpacingCommand
  <2> QED BY <2>1, <2>2, Together
<1>33. ASSUME NEW t \in Alphabet, Unsupported(t) PROVE IInv'
  <2>1. After BY <1>33, UnsupportedGood
  <2>2. Read BY <1>33, ScanTyped DEF Unsupported
  <2> QED BY <2>1, <2>2, Together
<1> QED
  BY <1>1, <1>2, <1>3, <1>4, <1>5, <1>6, <1>7, <1>8, <1>9, <1>10, <1>11,
     <1>12, <1>13, <1>14, <1>15, <1>16, <1>17, <1>18, <1>19, <1>20, <1>21,
     <1>22, <1>23, <1>24, <1>25, <1>26, <1>27, <1>28, <1>29, <1>30, <1>31,
     <1>32, <1>33
  DEF Next

(* txc_parse starts in the invariant.                                       *)
LEMMA InitIInv == Init => IInv
<1> SUFFICES ASSUME Init PROVE IInv OBVIOUS
<1> DEFINE f == Frame("ROOT", "NONE", FALSE, 0)
<1>1. text = << >> /\ pos = 0 /\ items = << >> /\ nodes = << >> BY DEF Init
<1>2. stack = <<f>> BY DEF Init
<1>3. result = [status |-> "RUNNING", what |-> "", begin |-> 0, end |-> 0] BY DEF Init
<1>4. f \in FrameType
  <2>1. "ROOT" \in Roles /\ "NONE" \in Faces BY DEF Roles, Faces
  <2> QED BY <2>1, FrameTyped
<1>5. /\ f.role = "ROOT" /\ f.list = << >> /\ f.text = FALSE
      /\ f.collect = NoCollect /\ f.pending = NoScript /\ f.wait = NoWait
  BY DEF Frame
<1> HIDE DEF f
<1>6. ~Collecting(f) /\ ~Pending(f) /\ ~Waiting(f)
  BY <1>5 DEF Collecting, Pending, Waiting, NoScript, NoCollect, NoWait
<1>7. Steady(f) BY <1>6, SteadyFresh
<1>8. /\ stack \in Seq(FrameType) /\ stack # << >> /\ Len(stack) = 1
      /\ stack[1] = f /\ DOMAIN stack = 1 .. 1
  BY <1>2, <1>4
<1>9. LinkedTo(stack, items) BY <1>5, <1>8 DEF LinkedTo
<1>10. Disciplined(stack) BY <1>5, <1>7, <1>8 DEF Disciplined
<1>11. << >> \in Seq(Item) /\ << >> \in Seq(Built) /\ << >> \in Seq(Source) OBVIOUS
<1>12. Typed(stack, items, nodes) BY <1>1, <1>8, <1>9, <1>11 DEF Typed
<1>13. Len(stack) - 1 <= DepthLimit BY <1>8, BoundAssumption
<1>14. result \in Verdict BY <1>3 DEF Verdict, Statuses, Messages
<1>15. text \in Seq(Source) /\ pos \in Nat BY <1>1, <1>11
<1> QED BY <1>10, <1>12, <1>13, <1>14, <1>15 DEF IInv, Good

(* A step that changes nothing keeps the invariant.                         *)
LEMMA StutterKept == ASSUME IInv, UNCHANGED vars PROVE IInv'
BY DEF IInv, vars, Good, Typed, LinkedTo, Disciplined

(* The invariant holds of every state of every behaviour.                  *)
THEOREM Invariance == Spec => []IInv
<1>1. Init => IInv BY InitIInv
<1>2. IInv /\ [Next \/ Returned]_vars => IInv'
  BY NextKept, StutterKept DEF Returned
<1> QED BY <1>1, <1>2, PTL DEF Spec

(* The parser's state has its types, whatever the source: every link of a  *)
(* frame's list is an item of the arena.                                   *)
THEOREM TypeCorrect == Spec => []TypeOK
<1>1. IInv => TypeOK BY DEF IInv, Good, TypeOK
<1> QED BY <1>1, Invariance, PTL

(* The frame txc_parse pops is the one it believes it pops: an index is on *)
(* a radical still without one, a \text group on its switch, and a script, *)
(* a fence and a cell on a frame that waits for nothing else.              *)
THEOREM Discipline == Spec => []StackDiscipline
<1>1. IInv => StackDiscipline BY DEF IInv, Good, StackDiscipline
<1> QED BY <1>1, Invariance, PTL

(* No source opens more frames than TXC_GROUP_DEPTH_LIMIT.                 *)
THEOREM Depth == Spec => []DepthBound
<1>1. IInv => DepthBound BY DEF IInv, Good, DepthBound
<1> QED BY <1>1, Invariance, PTL

(* The frames of every source, of any length and alphabet, are popped by   *)
(* what opened them, and are never more than the limit.                    *)
THEOREM Frames == Spec => []FramesInOrder
BY Discipline, Depth, PTL DEF FramesInOrder

-----------------------------------------------------------------------------
(***************************************************************************)
(* What the frames hold to beyond their types: where each will write, what *)
(* it builds, and when it was begun.  Like Good, a property of any stack   *)
(* and arenas a handler builds; p is how many tokens have been read.       *)
(***************************************************************************)

(* Vacant, of any arena of items.                                          *)
OpenFor(f, script, its) ==
  /\ f.list # << >> /\ script.target = Tail1(f)
  /\ its[script.target].kind = "ATOM"
  /\ ScriptField(its[script.target], script.kind).kind = "EMPTY"

(* The atom a command appended for its construct is still empty.           *)
Bare(f, its) ==
  /\ f.list # << >> /\ f.collect.item = Tail1(f)
  /\ its[f.collect.item].kind = "ATOM"
  /\ its[f.collect.item].nucleus.kind = "EMPTY"
  /\ its[f.collect.item].sup.kind = "EMPTY" /\ its[f.collect.item].sub.kind = "EMPTY"

Building(f) == Collecting(f) /\ f.collect.kind # "STYLE"

(* The construct a frame collects has the arguments collected so far.      *)
Begun(c, nds) ==
  /\ c.node \in DOMAIN nds /\ nds[c.node].kind = c.kind
  /\ nds[c.node].last.kind = "EMPTY"
  /\ ~c.second => nds[c.node].first.kind = "EMPTY"
  /\ c.second /\ c.kind = "FRACTION" => nds[c.node].first.kind # "EMPTY"

(* What a frame was opened or marked by has been read.                     *)
Dated(f, p) ==
  /\ f.role # "ROOT" => f.open + 1 <= p
  /\ f.role = "CELL" => f.open + 2 <= p
  /\ Pending(f) => f.pending.mark + 1 <= p
  /\ Collecting(f) => f.collect.begin + 1 <= p
  /\ Waiting(f) => f.wait.at + 1 <= p

(* Where the document rules hold the list holds spaces and characters.     *)
Textual(f, its) == ~Math \/ f.text => \A j \in DOMAIN f.list : Plain(its[f.list[j]])

(* Destinations are open: nothing a frame will write is there yet.         *)
Aimed(f, its) ==
  /\ Pending(f) => OpenFor(f, f.pending, its)
  /\ Collecting(f) /\ f.collect.item = 0 => OpenFor(f, f.collect.script, its)
  /\ Collecting(f) /\ f.collect.item # 0 => Bare(f, its)

Rising(list) == \A j, k \in DOMAIN list : j < k => list[j] < list[k]

Firm(f, its, nds, p) ==
  /\ Aimed(f, its)
  /\ Building(f) => Begun(f.collect, nds)
  /\ Textual(f, its)
  /\ Dated(f, p)
  /\ Rising(f.list)

(* The items and the construct of a frame are older than those above it.   *)
Apart(f, g) ==
  /\ \A j \in DOMAIN f.list, k \in DOMAIN g.list : f.list[j] < g.list[k]
  /\ Building(f) /\ Building(g) => f.collect.node < g.collect.node

(* A script frame was pushed for a script its parent's last atom lacks.    *)
Owed(parent, f, its) == f.role = "SCRIPT" => OpenFor(parent, f.script, its)

Pierced(stk) ==
  \A i \in DOMAIN stk : stk[i].stretched <=> \E j \in 1 .. i : stk[j].env = "cases"

Sound(stk, its, nds, p) ==
  /\ \A i \in DOMAIN stk : Firm(stk[i], its, nds, p)
  /\ \A i, j \in DOMAIN stk : i < j => Apart(stk[i], stk[j])
  /\ \A i \in 2 .. Len(stk) : Owed(stk[i - 1], stk[i], its)
  /\ Pierced(stk)

(* What the frame refers to reads the same in other arenas.                *)
SameRefs(f, its, nds, its2, nds2) ==
  /\ \A j \in DOMAIN f.list : its2[f.list[j]] = its[f.list[j]]
  /\ Building(f) => /\ f.collect.node \in DOMAIN nds2
                    /\ nds2[f.collect.node] = nds[f.collect.node]

(* A frame holds to what it did while what it refers to stays.             *)
LEMMA FirmKept ==
  ASSUME NEW f \in FrameType, NEW its, NEW nds, NEW p \in Nat, Firm(f, its, nds, p),
         NEW its2, NEW nds2, NEW q \in Nat, p <= q, SameRefs(f, its, nds, its2, nds2)
  PROVE  Firm(f, its2, nds2, q)
<1>1. f.list \in Seq(Nat) /\ f.open \in Nat BY DEF FrameType
<1>2. f.list # << >> => its2[Tail1(f)] = its[Tail1(f)]
  BY <1>1 DEF SameRefs, Tail1
<1>3. Aimed(f, its2) BY <1>2 DEF Firm, Aimed, OpenFor, Bare
<1>4. Building(f) => Begun(f.collect, nds2) BY DEF Firm, Begun, SameRefs
<1>5. Textual(f, its2) BY DEF Firm, Textual, SameRefs
<1>6. Dated(f, q)
  <2>1. /\ f.pending.mark \in Nat /\ f.collect.begin \in Nat /\ f.wait.at \in Nat
    BY DEF FrameType, Script, Collect, Wait
  <2> QED BY <1>1, <2>1 DEF Firm, Dated
<1> QED BY <1>3, <1>4, <1>5, <1>6 DEF Firm

(* A script is owed to the same atom while that atom stays.                *)
LEMMA OwedKept ==
  ASSUME NEW parent \in FrameType, NEW f, NEW its, NEW its2, Owed(parent, f, its),
         \A j \in DOMAIN parent.list : its2[parent.list[j]] = its[parent.list[j]]
  PROVE  Owed(parent, f, its2)
<1>1. parent.list \in Seq(Nat) BY DEF FrameType
<1>2. parent.list # << >> => its2[Tail1(parent)] = its[Tail1(parent)] BY <1>1 DEF Tail1
<1> QED BY <1>2 DEF Owed, OpenFor

(* The top frame replaced, and the arenas changed where no frame below     *)
(* looks.                                                                  *)
LEMMA SoundTop ==
  ASSUME NEW stk, NEW its, NEW nds, NEW p \in Nat, Good(stk, its, nds), Sound(stk, its, nds, p),
         NEW g \in FrameType, Same(stk[Len(stk)], g),
         NEW its2, NEW nds2, NEW q \in Nat, p <= q,
         \A i \in 1 .. Len(stk) - 1 : SameRefs(stk[i], its, nds, its2, nds2),
         \A i \in 1 .. Len(stk) - 1 : Apart(stk[i], g),
         Firm(g, its2, nds2, q)
  PROVE  Sound(SetTop(stk, g), its2, nds2, q)
<1> DEFINE new == SetTop(stk, g)
           n   == Len(stk)
<1>1. stk \in Seq(FrameType) /\ stk # << >> /\ n \in Nat /\ n >= 1 /\ DOMAIN stk = 1 .. n
      /\ \A i \in 1 .. n : stk[i] \in FrameType
  BY DEF Good, Typed
<1>2. /\ Len(new) = n /\ DOMAIN new = 1 .. n
      /\ new[n] = g /\ \A i \in 1 .. n - 1 : new[i] = stk[i]
  <2>1. new \in Seq(FrameType) /\ Len(new) = n BY <1>1, SetTopTyped
  <2>2. new[n] = g /\ \A i \in 1 .. n - 1 : new[i] = stk[i] BY <1>1, SetTopTyped
  <2> QED BY <1>1, <2>1, <2>2
<1>3. /\ \A i \in 1 .. n : Firm(stk[i], its, nds, p)
      /\ \A i, j \in 1 .. n : i < j => Apart(stk[i], stk[j])
      /\ \A i \in 2 .. n : Owed(stk[i - 1], stk[i], its)
      /\ \A i \in 1 .. n : stk[i].stretched <=> \E j \in 1 .. i : stk[j].env = "cases"
  BY <1>1 DEF Sound, Pierced
<1> DEFINE f == stk[n]
<1>4. /\ Same(f, g) /\ Firm(g, its2, nds2, q)
      /\ \A i \in 1 .. n - 1 : SameRefs(stk[i], its, nds, its2, nds2)
      /\ \A i \in 1 .. n - 1 : Apart(stk[i], g)
  OBVIOUS
<1> HIDE DEF new, n
<1>5. ASSUME NEW i \in 1 .. n PROVE Firm(new[i], its2, nds2, q)
  <2>1. CASE i = n BY <1>2, <1>4, <2>1
  <2>2. CASE i # n
    <3>1. i \in 1 .. n - 1 /\ new[i] = stk[i] BY <1>1, <1>2, <2>2
    <3>2. stk[i] \in FrameType /\ Firm(stk[i], its, nds, p)
          /\ SameRefs(stk[i], its, nds, its2, nds2)
      BY <1>1, <1>3, <1>4, <3>1
    <3>3. Firm(stk[i], its2, nds2, q) BY <3>2, FirmKept
    <3> QED BY <3>1, <3>3
  <2> QED BY <2>1, <2>2
<1>6. ASSUME NEW i \in 1 .. n, NEW j \in 1 .. n, i < j PROVE Apart(new[i], new[j])
  <2>1. i \in 1 .. n - 1 /\ new[i] = stk[i] BY <1>1, <1>2, <1>6
  <2>2. CASE j = n BY <1>2, <1>4, <2>1, <2>2
  <2>3. CASE j # n
    <3>1. new[j] = stk[j] BY <1>1, <1>2, <2>3
    <3> QED BY <1>3, <1>6, <2>1, <3>1
  <2> QED BY <2>2, <2>3
<1>7. ASSUME NEW i \in 2 .. n PROVE Owed(new[i - 1], new[i], its2)
  <2>1. i - 1 \in 1 .. n - 1 /\ i \in 1 .. n BY <1>1
  <2>2. new[i - 1] = stk[i - 1] /\ stk[i - 1] \in FrameType
        /\ Owed(stk[i - 1], stk[i], its)
    BY <1>1, <1>2, <1>3, <2>1
  <2>3. Owed(stk[i - 1], stk[i], its2) BY <1>4, <2>1, <2>2, OwedKept DEF SameRefs
  <2>4. new[i].role = stk[i].role /\ new[i].script = stk[i].script
    <3>1. CASE i = n BY <1>2, <1>4, <3>1 DEF Same
    <3>2. CASE i # n BY <1>1, <1>2, <3>2
    <3> QED BY <3>1, <3>2
  <2> QED BY <2>2, <2>3, <2>4 DEF Owed
<1>8. Pierced(new)
  <2>1. ASSUME NEW i \in 1 .. n
        PROVE  new[i].stretched = stk[i].stretched /\ new[i].env = stk[i].env
    <3>1. CASE i = n BY <1>2, <1>4, <3>1 DEF Same
    <3>2. CASE i # n BY <1>1, <1>2, <3>2
    <3> QED BY <3>1, <3>2
  <2>2. ASSUME NEW i \in 1 .. n
        PROVE  new[i].stretched <=> \E j \in 1 .. i : new[j].env = "cases"
    <3>1. \A j \in 1 .. i : j \in 1 .. n BY <1>1
    <3>2. stk[i].stretched <=> \E j \in 1 .. i : stk[j].env = "cases" BY <1>3
    <3> QED BY <2>1, <3>1, <3>2
  <2> QED BY <1>2, <2>2 DEF Pierced
<1>9. Sound(new, its2, nds2, q) BY <1>2, <1>5, <1>6, <1>7, <1>8 DEF Sound
<1> QED BY <1>9 DEF new

(* The arenas changed where no frame looks, and time passing.              *)
LEMMA SoundArenas ==
  ASSUME NEW stk, NEW its, NEW nds, NEW p \in Nat, Good(stk, its, nds), Sound(stk, its, nds, p),
         NEW its2, NEW nds2, NEW q \in Nat, p <= q,
         \A i \in DOMAIN stk : SameRefs(stk[i], its, nds, its2, nds2)
  PROVE  Sound(stk, its2, nds2, q)
<1>1. stk \in Seq(FrameType) /\ DOMAIN stk = 1 .. Len(stk) /\ Len(stk) \in Nat
      /\ \A i \in DOMAIN stk : stk[i] \in FrameType
  BY DEF Good, Typed
<1>2. ASSUME NEW i \in DOMAIN stk PROVE Firm(stk[i], its2, nds2, q)
  BY <1>1, FirmKept DEF Sound
<1>3. ASSUME NEW i \in 2 .. Len(stk) PROVE Owed(stk[i - 1], stk[i], its2)
  <2>1. i - 1 \in DOMAIN stk BY <1>1
  <2> QED BY <1>1, <2>1, OwedKept DEF Sound, SameRefs
<1> QED BY <1>2, <1>3 DEF Sound

(* The push of an empty frame that owes what its parent has room for.      *)
LEMMA SoundPush ==
  ASSUME NEW stk, NEW its, NEW nds, NEW p \in Nat, Good(stk, its, nds), Sound(stk, its, nds, p),
         NEW f \in FrameType, f.list = << >>, ~Collecting(f), ~Pending(f), ~Waiting(f),
         f.role # "ROOT" => f.open + 1 <= p, f.role = "CELL" => f.open + 2 <= p,
         Owed(stk[Len(stk)], f, its),
         f.stretched <=> (stk[Len(stk)].stretched \/ f.env = "cases")
  PROVE  Sound(Append(stk, f), its, nds, p)
<1> DEFINE new == Append(stk, f)
           n   == Len(stk)
<1>1. /\ stk \in Seq(FrameType) /\ n \in Nat /\ n >= 1 /\ DOMAIN stk = 1 .. n
      /\ \A i \in 1 .. n : stk[i] \in FrameType
  BY DEF Good, Typed
<1>2. /\ Len(new) = n + 1 /\ DOMAIN new = 1 .. n + 1
      /\ new[n + 1] = f /\ \A i \in 1 .. n : new[i] = stk[i]
  BY <1>1
<1>3. /\ \A i \in 1 .. n : Firm(stk[i], its, nds, p)
      /\ \A i, j \in 1 .. n : i < j => Apart(stk[i], stk[j])
      /\ \A i \in 2 .. n : Owed(stk[i - 1], stk[i], its)
      /\ \A i \in 1 .. n : stk[i].stretched <=> \E j \in 1 .. i : stk[j].env = "cases"
      /\ f.stretched <=> (stk[n].stretched \/ f.env = "cases")
      /\ Owed(stk[n], f, its)
  BY <1>1 DEF Sound, Pierced
<1> HIDE DEF new, n
<1>4. Firm(f, its, nds, p)
  BY DEF Firm, Aimed, Building, Textual, Dated, Rising
<1>5. \A i \in 1 .. n : Apart(stk[i], f) BY DEF Apart, Building
<1>6. ASSUME NEW i \in 1 .. n + 1 PROVE Firm(new[i], its, nds, p)
  <2>1. CASE i = n + 1 BY <1>2, <1>4, <2>1
  <2>2. CASE i # n + 1
    <3>1. i \in 1 .. n BY <1>1, <2>2
    <3> QED BY <1>2, <1>3, <3>1
  <2> QED BY <2>1, <2>2
<1>7. ASSUME NEW i \in 1 .. n + 1, NEW j \in 1 .. n + 1, i < j PROVE Apart(new[i], new[j])
  <2>1. i \in 1 .. n /\ new[i] = stk[i] BY <1>1, <1>2, <1>7
  <2>2. CASE j = n + 1 BY <1>2, <1>5, <2>1, <2>2
  <2>3. CASE j # n + 1
    <3>1. j \in 1 .. n /\ new[j] = stk[j] BY <1>1, <1>2, <2>3
    <3> QED BY <1>3, <1>7, <2>1, <3>1
  <2> QED BY <2>2, <2>3
<1>8. ASSUME NEW i \in 2 .. n + 1 PROVE Owed(new[i - 1], new[i], its)
  <2>1. CASE i = n + 1
    <3>1. new[i] = f /\ new[i - 1] = stk[n] BY <1>1, <1>2, <2>1
    <3> QED BY <1>3, <3>1
  <2>2. CASE i # n + 1
    <3>1. i \in 2 .. n /\ new[i] = stk[i] /\ new[i - 1] = stk[i - 1] BY <1>1, <1>2, <2>2
    <3> QED BY <1>3, <3>1
  <2> QED BY <2>1, <2>2
<1>9. ASSUME NEW i \in 1 .. n + 1
      PROVE  new[i].stretched <=> \E j \in 1 .. i : new[j].env = "cases"
  <2>1. CASE i = n + 1
    <3>1. stk[n].stretched <=> \E j \in 1 .. n : stk[j].env = "cases" BY <1>1, <1>3
    <3>2. (\E j \in 1 .. i : new[j].env = "cases")
             <=> ((\E j \in 1 .. n : stk[j].env = "cases") \/ f.env = "cases")
      BY <1>1, <1>2, <2>1
    <3> QED BY <1>2, <1>3, <2>1, <3>1, <3>2
  <2>2. CASE i # n + 1
    <3>1. i \in 1 .. n /\ \A j \in 1 .. i : j \in 1 .. n BY <1>1, <2>2
    <3> QED BY <1>2, <1>3, <3>1
  <2> QED BY <2>1, <2>2
<1>10. Sound(new, its, nds, p) BY <1>2, <1>6, <1>7, <1>8, <1>9 DEF Sound, Pierced
<1> QED BY <1>10 DEF new

(* A pop: the frame under the top becomes the top.                         *)
LEMMA SoundPop ==
  ASSUME NEW stk, NEW its, NEW nds, NEW p \in Nat, Good(stk, its, nds), Sound(stk, its, nds, p),
         Len(stk) >= 2
  PROVE  /\ Sound(Below(stk), its, nds, p)
         /\ LET below == Below(stk)[Len(Below(stk))] IN
              Owed(below, stk[Len(stk)], its) /\ Apart(below, stk[Len(stk)])
<1> DEFINE new == Below(stk)
           n   == Len(stk)
<1>1. stk \in Seq(FrameType) /\ n \in Nat /\ n >= 2 /\ DOMAIN stk = 1 .. n
  BY DEF Good, Typed
<1>2. Len(new) = n - 1 /\ DOMAIN new = 1 .. n - 1 /\ \A i \in 1 .. n - 1 : new[i] = stk[i]
  <2>1. new \in Seq(FrameType) /\ Len(new) = n - 1 BY <1>1, BelowTyped
  <2>2. \A i \in 1 .. n - 1 : new[i] = stk[i] BY <1>1, BelowTyped
  <2> QED BY <1>1, <2>1, <2>2
<1>3. /\ \A i \in 1 .. n : Firm(stk[i], its, nds, p)
      /\ \A i, j \in 1 .. n : i < j => Apart(stk[i], stk[j])
      /\ \A i \in 2 .. n : Owed(stk[i - 1], stk[i], its)
      /\ \A i \in 1 .. n : stk[i].stretched <=> \E j \in 1 .. i : stk[j].env = "cases"
  BY <1>1 DEF Sound, Pierced
<1> HIDE DEF new, n
<1>4. \A i \in 1 .. n - 1 : i \in 1 .. n /\ Firm(new[i], its, nds, p) BY <1>1, <1>2, <1>3
<1>5. \A i, j \in 1 .. n - 1 : i < j => Apart(new[i], new[j]) BY <1>2, <1>3, <1>4
<1>6. ASSUME NEW i \in 2 .. n - 1 PROVE Owed(new[i - 1], new[i], its)
  <2>1. i \in 2 .. n /\ new[i] = stk[i] /\ new[i - 1] = stk[i - 1] BY <1>1, <1>2
  <2> QED BY <1>3, <2>1
<1>7. Pierced(new)
  <2>1. ASSUME NEW i \in 1 .. n - 1
        PROVE  new[i].stretched <=> \E j \in 1 .. i : new[j].env = "cases"
    <3>1. i \in 1 .. n /\ \A j \in 1 .. i : j \in 1 .. n - 1 BY <1>1
    <3>2. stk[i].stretched <=> \E j \in 1 .. i : stk[j].env = "cases" BY <1>3, <3>1
    <3> QED BY <1>2, <3>1, <3>2
  <2> QED BY <1>2, <2>1 DEF Pierced
<1>8. Sound(new, its, nds, p) BY <1>2, <1>4, <1>5, <1>6, <1>7 DEF Sound
<1>9. new[Len(new)] = stk[n - 1] BY <1>1, <1>2
<1>10. Owed(stk[n - 1], stk[n], its) /\ Apart(stk[n - 1], stk[n]) BY <1>1, <1>3
<1> QED BY <1>8, <1>9, <1>10 DEF new, n

-----------------------------------------------------------------------------
(***************************************************************************)
(* The arenas only grow, and no field is written twice.                    *)
(***************************************************************************)
GrownItems(a, b) ==
  \A i \in DOMAIN a :
    /\ i \in DOMAIN b /\ b[i].kind = a[i].kind
    /\ Kept(a[i].nucleus, b[i].nucleus) /\ Kept(a[i].sup, b[i].sup) /\ Kept(a[i].sub, b[i].sub)

GrownNodes(a, b) ==
  \A i \in DOMAIN a :
    /\ i \in DOMAIN b /\ b[i].kind = a[i].kind
    /\ Kept(a[i].first, b[i].first) /\ Kept(a[i].last, b[i].last)

(* What stays has grown.                                                   *)
LEMMA GrownStill == ASSUME NEW a PROVE GrownItems(a, a) /\ GrownNodes(a, a)
BY DEF GrownItems, GrownNodes, Kept

(* What grows twice has grown.                                             *)
LEMMA GrownTwice ==
  ASSUME NEW a, NEW b, NEW c
  PROVE  /\ GrownItems(a, b) /\ GrownItems(b, c) => GrownItems(a, c)
         /\ GrownNodes(a, b) /\ GrownNodes(b, c) => GrownNodes(a, c)
BY DEF GrownItems, GrownNodes, Kept

(* A sequence grows by an append.                                          *)
LEMMA GrownByOne ==
  ASSUME NEW S, NEW s \in Seq(S), NEW v
  PROVE  /\ GrownItems(s, Append(s, v)) /\ GrownNodes(s, Append(s, v))
         /\ \A i \in DOMAIN s : i \in DOMAIN Append(s, v) /\ Append(s, v)[i] = s[i]
         /\ Append(s, v)[Len(s) + 1] = v /\ Len(s) + 1 \in DOMAIN Append(s, v)
         /\ Len(s) + 1 \notin DOMAIN s
         /\ \A i \in DOMAIN Append(s, v) : i \in DOMAIN s \/ i = Len(s) + 1
<1>1. /\ \A i \in DOMAIN s : i \in DOMAIN Append(s, v) /\ Append(s, v)[i] = s[i]
      /\ Append(s, v)[Len(s) + 1] = v /\ Len(s) + 1 \in DOMAIN Append(s, v)
      /\ Len(s) + 1 \notin DOMAIN s
      /\ \A i \in DOMAIN Append(s, v) : i \in DOMAIN s \/ i = Len(s) + 1
  OBVIOUS
<1> QED BY <1>1 DEF GrownItems, GrownNodes, Kept

(* An arena grows when a field that was empty is set.                      *)
LEMMA GrownAt ==
  ASSUME NEW its, NEW k, NEW v,
         k \in DOMAIN its => /\ v.kind = its[k].kind
                             /\ Kept(its[k].nucleus, v.nucleus)
                             /\ Kept(its[k].sup, v.sup) /\ Kept(its[k].sub, v.sub)
  PROVE  GrownItems(its, [its EXCEPT ![k] = v])
BY DEF GrownItems, Kept

(* A construct given an argument it lacked.                                *)
LEMMA GrownNodeAt ==
  ASSUME NEW nds, NEW k, NEW v,
         k \in DOMAIN nds => /\ v.kind = nds[k].kind
                             /\ Kept(nds[k].first, v.first) /\ Kept(nds[k].last, v.last)
  PROVE  GrownNodes(nds, [nds EXCEPT ![k] = v])
BY DEF GrownNodes, Kept

-----------------------------------------------------------------------------
(***************************************************************************)
(* The top frame is the only one that writes.                              *)
(***************************************************************************)
ItemsBut(its, its2, f) ==
  \A m \in DOMAIN its : its2[m] = its[m] \/ (f.list # << >> /\ m = Tail1(f))

NodesBut(nds, nds2, f) ==
  \A m \in DOMAIN nds :
    /\ m \in DOMAIN nds2
    /\ nds2[m] = nds[m] \/ (Building(f) /\ m = f.collect.node)

(* What the top frame writes, no frame below refers to.                    *)
LEMMA BelowUntouched ==
  ASSUME NEW stk, NEW its, NEW nds, NEW p, Good(stk, its, nds), Sound(stk, its, nds, p),
         NEW its2, NEW nds2, ItemsBut(its, its2, stk[Len(stk)]), NodesBut(nds, nds2, stk[Len(stk)])
  PROVE  \A i \in 1 .. Len(stk) - 1 : SameRefs(stk[i], its, nds, its2, nds2)
<1> DEFINE n == Len(stk)
           f == stk[n]
<1> SUFFICES ASSUME NEW i \in 1 .. n - 1 PROVE SameRefs(stk[i], its, nds, its2, nds2)
  OBVIOUS
<1>1. /\ stk \in Seq(FrameType) /\ n \in Nat /\ n >= 1 /\ DOMAIN stk = 1 .. n
      /\ i \in 1 .. n /\ n \in 1 .. n /\ i < n
      /\ f \in FrameType /\ stk[i] \in FrameType
  <2>1. stk \in Seq(FrameType) /\ n \in Nat /\ n >= 1 BY DEF Good, Typed
  <2> QED BY <2>1
<1>2. Apart(stk[i], f) /\ Firm(stk[i], its, nds, p) BY <1>1 DEF Sound
<1>3. /\ f.list \in Seq(Nat) /\ stk[i].list \in Seq(Nat)
      /\ \A j \in DOMAIN stk[i].list : stk[i].list[j] \in DOMAIN its
      /\ f.collect \in Collect /\ stk[i].collect \in Collect
  BY <1>1 DEF FrameType, Good, Typed, LinkedTo
<1>4. f.collect.node \in Nat /\ stk[i].collect.node \in Nat BY <1>3 DEF Collect
<1>5. ItemsBut(its, its2, f) /\ NodesBut(nds, nds2, f) OBVIOUS
<1> DEFINE l == stk[i]
<1>6. l.list \in Seq(Nat) /\ Apart(l, f) /\ Firm(l, its, nds, p) /\ l.collect.node \in Nat
      /\ \A j \in DOMAIN l.list : l.list[j] \in DOMAIN its
  BY <1>2, <1>3, <1>4
<1> HIDE DEF f, l
<1>7. ASSUME NEW j \in DOMAIN l.list PROVE its2[l.list[j]] = its[l.list[j]]
  <2>1. f.list # << >> => l.list[j] < Tail1(f)
    <3> SUFFICES ASSUME f.list # << >> PROVE l.list[j] < Tail1(f) OBVIOUS
    <3>1. Len(f.list) \in DOMAIN f.list BY <1>3
    <3> QED BY <1>6, <3>1 DEF Apart, Tail1
  <2>2. l.list[j] \in Nat BY <1>6
  <2> QED BY <1>5, <1>6, <2>1, <2>2 DEF ItemsBut
<1>8. Building(l) => /\ l.collect.node \in DOMAIN nds2
                     /\ nds2[l.collect.node] = nds[l.collect.node]
  <2> SUFFICES ASSUME Building(l)
               PROVE  /\ l.collect.node \in DOMAIN nds2
                      /\ nds2[l.collect.node] = nds[l.collect.node]
    OBVIOUS
  <2>1. l.collect.node \in DOMAIN nds BY <1>6 DEF Firm, Begun
  <2>2. Building(f) => l.collect.node < f.collect.node BY <1>6 DEF Apart
  <2> QED BY <1>4, <1>5, <1>6, <2>1, <2>2 DEF NodesBut
<1>9. SameRefs(l, its, nds, its2, nds2) BY <1>7, <1>8 DEF SameRefs
<1> QED BY <1>9 DEF l

(* The list a handler leaves the top frame: as it was, emptied into a cell,*)
(* or with the new item.                                                   *)
Relisted(f, g, its) ==
  g.list = f.list \/ g.list = << >> \/ g.list = Append(f.list, Len(its) + 1)

(* The construct a handler leaves the top frame: the one it had, or a new  *)
(* one.                                                                    *)
Rebuilt(f, g, nds) ==
  Building(g) => (Building(f) /\ g.collect.node = f.collect.node) \/ g.collect.node > Len(nds)

(* A handler's write through the top frame.                                *)
LEMMA TopSound ==
  ASSUME NEW stk, NEW its, NEW nds, NEW p \in Nat, Good(stk, its, nds), Sound(stk, its, nds, p),
         NEW g \in FrameType, Same(stk[Len(stk)], g),
         Relisted(stk[Len(stk)], g, its), Rebuilt(stk[Len(stk)], g, nds),
         NEW its2, NEW nds2, ItemsBut(its, its2, stk[Len(stk)]), NodesBut(nds, nds2, stk[Len(stk)]),
         NEW q \in Nat, p <= q,
         Aimed(g, its2), Building(g) => Begun(g.collect, nds2), Textual(g, its2), Dated(g, q)
  PROVE  Sound(SetTop(stk, g), its2, nds2, q)
<1> DEFINE n == Len(stk)
           f == stk[n]
<1>1. /\ stk \in Seq(FrameType) /\ n \in Nat /\ n >= 1 /\ DOMAIN stk = 1 .. n /\ n \in 1 .. n
      /\ f \in FrameType /\ its \in Seq(Item) /\ nds \in Seq(Built)
      /\ \A i \in 1 .. n : stk[i] \in FrameType
  <2>1. stk \in Seq(FrameType) /\ n \in Nat /\ n >= 1 /\ its \in Seq(Item) /\ nds \in Seq(Built)
    BY DEF Good, Typed
  <2> QED BY <2>1
<1>2. /\ f.list \in Seq(Nat) /\ g.list \in Seq(Nat)
      /\ \A i \in 1 .. n : \A j \in DOMAIN stk[i].list : stk[i].list[j] \in DOMAIN its
  BY <1>1 DEF FrameType, Good, Typed, LinkedTo
<1>3. \A j \in DOMAIN f.list : f.list[j] \in DOMAIN its BY <1>1, <1>2
<1>4. Rising(f.list) BY <1>1 DEF Sound, Firm
<1>5. Relisted(f, g, its) /\ Rebuilt(f, g, nds) OBVIOUS
<1>6. \A i \in 1 .. n - 1 : SameRefs(stk[i], its, nds, its2, nds2) BY BelowUntouched
<1> HIDE DEF f
<1>7. DOMAIN its = 1 .. Len(its) /\ Len(its) \in Nat /\ DOMAIN nds = 1 .. Len(nds)
      /\ Len(nds) \in Nat
  BY <1>1
<1> DEFINE old == f.list
           m   == Len(its) + 1
<1>8. /\ old \in Seq(Nat) /\ m \in Nat /\ \A j \in DOMAIN old : old[j] < m
      /\ \A j, k \in DOMAIN old : j < k => old[j] < old[k]
      /\ g.list = old \/ g.list = << >> \/ g.list = Append(old, m)
  BY <1>2, <1>3, <1>4, <1>5, <1>7 DEF Relisted, Rising
<1> HIDE DEF old, m
<1>9. /\ \A j \in DOMAIN g.list : (j \in DOMAIN old /\ g.list[j] = old[j]) \/ g.list[j] = m
      /\ Rising(g.list)
  <2>1. CASE g.list = old BY <1>8, <2>1 DEF Rising
  <2>2. CASE g.list = << >> BY <2>2 DEF Rising
  <2>3. CASE g.list = Append(old, m)
    <3> DEFINE new == Append(old, m)
    <3>1. /\ DOMAIN new = 1 .. Len(old) + 1 /\ DOMAIN old = 1 .. Len(old) /\ Len(old) \in Nat
          /\ new[Len(old) + 1] = m /\ \A j \in 1 .. Len(old) : new[j] = old[j]
      BY <1>8
    <3> HIDE DEF new
    <3>2. \A j \in DOMAIN new : (j \in DOMAIN old /\ new[j] = old[j]) \/ new[j] = m BY <3>1
    <3>3. ASSUME NEW j \in DOMAIN new, NEW k \in DOMAIN new, j < k PROVE new[j] < new[k]
      <4>1. j \in DOMAIN old /\ new[j] = old[j] BY <3>1, <3>3
      <4>2. CASE k = Len(old) + 1 BY <1>8, <3>1, <4>1, <4>2
      <4>3. CASE k # Len(old) + 1
        <5>1. k \in DOMAIN old /\ new[k] = old[k] BY <3>1, <4>3
        <5> QED BY <1>8, <3>3, <4>1, <5>1
      <4> QED BY <4>2, <4>3
    <3> QED BY <2>3, <3>2, <3>3 DEF Rising, new
  <2> QED BY <1>8, <2>1, <2>2, <2>3
<1>10. Firm(g, its2, nds2, q) BY <1>9 DEF Firm
<1>11. ASSUME NEW i \in 1 .. n - 1 PROVE Apart(stk[i], g)
  <2>1. i \in 1 .. n /\ i < n BY <1>1
  <2>2. Apart(stk[i], f) /\ Firm(stk[i], its, nds, p) BY <1>1, <2>1 DEF Sound, f
  <2>3. stk[i].list \in Seq(Nat) /\ stk[i].collect.node \in Nat BY <1>1, <2>1 DEF FrameType, Collect
  <2>4. ASSUME NEW j \in DOMAIN stk[i].list, NEW k \in DOMAIN g.list
        PROVE  stk[i].list[j] < g.list[k]
    <3>1. stk[i].list[j] \in DOMAIN its BY <1>2, <2>1
    <3>2. stk[i].list[j] < m BY <1>7, <3>1 DEF m
    <3> QED BY <1>9, <2>2, <3>2 DEF Apart, old
  <2>5. Building(stk[i]) => stk[i].collect.node \in DOMAIN nds BY <2>2 DEF Firm, Begun
  <2>6. g.collect.node \in Nat BY DEF FrameType, Collect
  <2>7. Building(stk[i]) /\ Building(g) => stk[i].collect.node < g.collect.node
    BY <1>5, <1>7, <2>2, <2>3, <2>5, <2>6 DEF Rebuilt, Apart
  <2> QED BY <2>4, <2>7 DEF Apart
<1> QED BY <1>6, <1>10, <1>11, SoundTop

-----------------------------------------------------------------------------
(***************************************************************************)
(* Nothing built is left half done or unreferenced: every construct is     *)
(* finished and held by a field, or some frame is building it; every atom  *)
(* has something in it, or some frame will write there.  `loose` is the    *)
(* construct a handler has allocated and not yet delivered.                *)
(***************************************************************************)
Holds(field, n) == field.kind # "EMPTY" /\ field.node = n

Held(n, its, nds) ==
  \E j \in DOMAIN its :
    \/ \E field \in FieldsOf(its[j]) : Holds(field, n)
    \/ \E k \in DOMAIN nds : \E field \in NodeFields(nds[k]) : Holds(field, n)

Finished(node) ==
  /\ node.kind \in {"FRACTION", "RADICAL", "ACCENT"} => node.last.kind # "EMPTY"
  /\ node.kind = "FRACTION" => node.first.kind # "EMPTY"

Done(n, its, nds) == Finished(nds[n]) /\ Held(n, its, nds)

Whole(item) ==
  \/ item.kind # "ATOM"
  \/ item.nucleus.kind # "EMPTY" \/ item.sup.kind # "EMPTY" \/ item.sub.kind # "EMPTY"

Builds(f, n) == Building(f) /\ f.collect.node = n

Reaches(f, k) ==
  \/ Pending(f) /\ f.pending.target = k
  \/ Collecting(f) /\ f.collect.item # 0 /\ f.collect.item = k
  \/ Collecting(f) /\ f.collect.item = 0 /\ f.collect.script.target = k
  \/ f.role = "SCRIPT" /\ f.script.target = k

Complete(stk, its, nds, loose) ==
  /\ \A n \in DOMAIN nds :
       n = loose \/ (\E i \in DOMAIN stk : Builds(stk[i], n)) \/ Done(n, its, nds)
  /\ \A k \in DOMAIN its : Whole(its[k]) \/ \E i \in DOMAIN stk : Reaches(stk[i], k)

(* What is done stays done while the arenas grow.                          *)
LEMMA DoneKept ==
  ASSUME NEW its, NEW nds, NEW its2, NEW nds2, GrownItems(its, its2), GrownNodes(nds, nds2)
  PROVE  /\ \A n \in DOMAIN nds : Done(n, its, nds) => Done(n, its2, nds2)
         /\ \A k \in DOMAIN its : Whole(its[k]) => Whole(its2[k])
<1>1. ASSUME NEW n \in DOMAIN nds, Done(n, its, nds) PROVE Done(n, its2, nds2)
  <2>1. Finished(nds2[n]) BY <1>1 DEF Done, Finished, GrownNodes, Kept
  <2>2. PICK j \in DOMAIN its :
           \/ \E field \in FieldsOf(its[j]) : Holds(field, n)
           \/ \E k \in DOMAIN nds : \E field \in NodeFields(nds[k]) : Holds(field, n)
    BY <1>1 DEF Done, Held
  <2>3. j \in DOMAIN its2 BY DEF GrownItems
  <2>4. (\E field \in FieldsOf(its[j]) : Holds(field, n))
           => \E field \in FieldsOf(its2[j]) : Holds(field, n)
    BY DEF GrownItems, FieldsOf, Holds, Kept
  <2>5. ASSUME NEW k \in DOMAIN nds, \E field \in NodeFields(nds[k]) : Holds(field, n)
        PROVE  k \in DOMAIN nds2 /\ \E field \in NodeFields(nds2[k]) : Holds(field, n)
    BY <2>5 DEF GrownNodes, NodeFields, Holds, Kept
  <2>6. Held(n, its2, nds2) BY <2>2, <2>3, <2>4, <2>5 DEF Held
  <2> QED BY <2>1, <2>6 DEF Done
<1>2. ASSUME NEW k \in DOMAIN its, Whole(its[k]) PROVE Whole(its2[k])
  BY <1>2 DEF GrownItems, Whole, Kept
<1> QED BY <1>1, <1>2

(* What becomes of the frames' constructs and destinations decides.        *)
LEMMA CompleteKept ==
  ASSUME NEW stk, NEW its, NEW nds, NEW loose, Complete(stk, its, nds, loose),
         NEW new, NEW its2, NEW nds2, NEW loose2, GrownItems(its, its2), GrownNodes(nds, nds2),
         \A n \in DOMAIN nds2 :
           (n \notin DOMAIN nds \/ n = loose \/ \E i \in DOMAIN stk : Builds(stk[i], n))
             => (n = loose2 \/ (\E i \in DOMAIN new : Builds(new[i], n)) \/ Done(n, its2, nds2)),
         \A k \in DOMAIN its2 :
           (k \notin DOMAIN its \/ \E i \in DOMAIN stk : Reaches(stk[i], k))
             => (Whole(its2[k]) \/ \E i \in DOMAIN new : Reaches(new[i], k))
  PROVE  Complete(new, its2, nds2, loose2)
<1>1. ASSUME NEW n \in DOMAIN nds2
      PROVE  n = loose2 \/ (\E i \in DOMAIN new : Builds(new[i], n)) \/ Done(n, its2, nds2)
  <2>1. CASE n \in DOMAIN nds /\ Done(n, its, nds) BY <2>1, DoneKept
  <2>2. CASE n \notin DOMAIN nds \/ n = loose \/ \E i \in DOMAIN stk : Builds(stk[i], n)
    BY <2>2
  <2> QED BY <2>1, <2>2 DEF Complete
<1>2. ASSUME NEW k \in DOMAIN its2
      PROVE  Whole(its2[k]) \/ \E i \in DOMAIN new : Reaches(new[i], k)
  <2>1. CASE k \in DOMAIN its /\ Whole(its[k]) BY <2>1, DoneKept
  <2>2. CASE k \notin DOMAIN its \/ \E i \in DOMAIN stk : Reaches(stk[i], k) BY <2>2
  <2> QED BY <2>1, <2>2 DEF Complete
<1> QED BY <1>1, <1>2 DEF Complete

(* The top frame replaced: only what it was building or aiming at counts.  *)
LEMMA TopComplete ==
  ASSUME NEW stk, NEW its, NEW nds, NEW loose, Good(stk, its, nds), Complete(stk, its, nds, loose),
         NEW g \in FrameType, NEW its2, NEW nds2, NEW loose2,
         GrownItems(its, its2), GrownNodes(nds, nds2),
         \A n \in DOMAIN nds2 :
           (n \notin DOMAIN nds \/ n = loose \/ Builds(stk[Len(stk)], n))
             => (n = loose2 \/ Builds(g, n) \/ Done(n, its2, nds2)),
         \A k \in DOMAIN its2 :
           (k \notin DOMAIN its \/ Reaches(stk[Len(stk)], k))
             => (Whole(its2[k]) \/ Reaches(g, k))
  PROVE  Complete(SetTop(stk, g), its2, nds2, loose2)
<1> DEFINE new == SetTop(stk, g)
           m   == Len(stk)
<1>1. stk \in Seq(FrameType) /\ stk # << >> /\ m \in Nat /\ m >= 1 /\ DOMAIN stk = 1 .. m
  BY DEF Good, Typed
<1>2. /\ DOMAIN new = 1 .. m /\ new[m] = g /\ \A i \in 1 .. m - 1 : new[i] = stk[i]
  <2>1. new \in Seq(FrameType) /\ Len(new) = m BY <1>1, SetTopTyped
  <2>2. new[m] = g /\ \A i \in 1 .. m - 1 : new[i] = stk[i] BY <1>1, SetTopTyped
  <2> QED BY <1>1, <2>1, <2>2
<1>3. \A i \in DOMAIN stk : i = m \/ (i \in DOMAIN new /\ new[i] = stk[i]) BY <1>1, <1>2
<1>4. m \in DOMAIN new BY <1>1, <1>2
<1> HIDE DEF new, m
<1>5. ASSUME NEW n \in DOMAIN nds2,
             n \notin DOMAIN nds \/ n = loose \/ \E i \in DOMAIN stk : Builds(stk[i], n)
      PROVE  n = loose2 \/ (\E i \in DOMAIN new : Builds(new[i], n)) \/ Done(n, its2, nds2)
  <2>1. CASE n \notin DOMAIN nds \/ n = loose \/ Builds(stk[m], n) BY <1>2, <1>4, <2>1 DEF m
  <2>2. CASE \E i \in DOMAIN stk : i # m /\ Builds(stk[i], n) BY <1>3, <2>2
  <2> QED BY <1>5, <2>1, <2>2
<1>6. ASSUME NEW k \in DOMAIN its2,
             k \notin DOMAIN its \/ \E i \in DOMAIN stk : Reaches(stk[i], k)
      PROVE  Whole(its2[k]) \/ \E i \in DOMAIN new : Reaches(new[i], k)
  <2>1. CASE k \notin DOMAIN its \/ Reaches(stk[m], k) BY <1>2, <1>4, <2>1 DEF m
  <2>2. CASE \E i \in DOMAIN stk : i # m /\ Reaches(stk[i], k) BY <1>3, <2>2
  <2> QED BY <1>6, <2>1, <2>2
<1>7. Complete(new, its2, nds2, loose2) BY <1>5, <1>6, CompleteKept
<1> QED BY <1>7 DEF new

(* The arenas grown by what is whole or held, the frames as they were.     *)
LEMMA CompleteArenas ==
  ASSUME NEW stk, NEW its, NEW nds, NEW loose, Complete(stk, its, nds, loose),
         NEW its2, NEW nds2, NEW loose2, GrownItems(its, its2), GrownNodes(nds, nds2),
         \A n \in DOMAIN nds2 : (n \notin DOMAIN nds \/ n = loose) => n = loose2,
         \A k \in DOMAIN its2 : k \notin DOMAIN its => Whole(its2[k])
  PROVE  Complete(stk, its2, nds2, loose2)
<1>1. \A n \in DOMAIN nds2 :
        (n \notin DOMAIN nds \/ n = loose \/ \E i \in DOMAIN stk : Builds(stk[i], n))
          => (n = loose2 \/ (\E i \in DOMAIN stk : Builds(stk[i], n)) \/ Done(n, its2, nds2))
  OBVIOUS
<1>2. \A k \in DOMAIN its2 :
        (k \notin DOMAIN its \/ \E i \in DOMAIN stk : Reaches(stk[i], k))
          => (Whole(its2[k]) \/ \E i \in DOMAIN stk : Reaches(stk[i], k))
  OBVIOUS
<1> QED BY <1>1, <1>2, CompleteKept

(* A frame pushed takes over what the frame under it no longer reaches.    *)
LEMMA PushComplete ==
  ASSUME NEW stk, NEW its, NEW nds, Complete(stk, its, nds, 0), Good(stk, its, nds),
         NEW g \in FrameType, NEW f \in FrameType,
         \A n : Builds(stk[Len(stk)], n) => Builds(g, n),
         \A k : Reaches(stk[Len(stk)], k) => Reaches(g, k) \/ Reaches(f, k)
  PROVE  Complete(Append(SetTop(stk, g), f), its, nds, 0)
<1> DEFINE new == Append(SetTop(stk, g), f)
           m   == Len(stk)
<1>1. stk \in Seq(FrameType) /\ stk # << >> /\ m \in Nat /\ m >= 1 /\ DOMAIN stk = 1 .. m
  BY DEF Good, Typed
<1>2. /\ DOMAIN new = 1 .. m + 1 /\ new[m] = g /\ new[m + 1] = f
      /\ \A i \in 1 .. m - 1 : new[i] = stk[i]
  <2> DEFINE low == SetTop(stk, g)
  <2>1. low \in Seq(FrameType) /\ Len(low) = m BY <1>1, SetTopTyped
  <2>2. low[m] = g /\ \A i \in 1 .. m - 1 : low[i] = stk[i] BY <1>1, SetTopTyped
  <2> HIDE DEF low
  <2>3. /\ DOMAIN Append(low, f) = 1 .. m + 1 /\ Append(low, f)[m + 1] = f
        /\ \A i \in 1 .. m : Append(low, f)[i] = low[i]
    BY <1>1, <2>1
  <2>4. new = Append(low, f) BY DEF low
  <2> HIDE DEF new
  <2>5. m \in 1 .. m /\ \A i \in 1 .. m - 1 : i \in 1 .. m BY <1>1
  <2> QED BY <2>2, <2>3, <2>4, <2>5
<1> HIDE DEF new, m
<1>3. \A i \in DOMAIN stk : i = m \/ (i \in DOMAIN new /\ new[i] = stk[i])
  <2>1. \A i \in 1 .. m : i = m \/ (i \in 1 .. m - 1 /\ i \in 1 .. m + 1) BY <1>1
  <2> QED BY <1>1, <1>2, <2>1
<1>4. m \in DOMAIN new /\ m + 1 \in DOMAIN new BY <1>1, <1>2
<1>5. ASSUME NEW n, \E i \in DOMAIN stk : Builds(stk[i], n)
      PROVE  \E i \in DOMAIN new : Builds(new[i], n)
  <2>1. CASE Builds(stk[m], n) BY <1>2, <1>4, <2>1 DEF m
  <2>2. CASE \E i \in DOMAIN stk : i # m /\ Builds(stk[i], n) BY <1>3, <2>2
  <2> QED BY <1>5, <2>1, <2>2
<1>6. ASSUME NEW k, \E i \in DOMAIN stk : Reaches(stk[i], k)
      PROVE  \E i \in DOMAIN new : Reaches(new[i], k)
  <2>1. CASE Reaches(stk[m], k) BY <1>2, <1>4, <2>1 DEF m
  <2>2. CASE \E i \in DOMAIN stk : i # m /\ Reaches(stk[i], k) BY <1>3, <2>2
  <2> QED BY <1>6, <2>1, <2>2
<1>7. Complete(new, its, nds, 0) BY <1>5, <1>6 DEF Complete
<1> QED BY <1>7 DEF new

(* A frame popped was building nothing, and what it reached is written.    *)
LEMMA PopComplete ==
  ASSUME NEW stk, NEW its, NEW nds, NEW loose, Good(stk, its, nds), Complete(stk, its, nds, loose),
         Len(stk) >= 2, Idle(stk[Len(stk)]), NEW its2, GrownItems(its, its2),
         DOMAIN its2 = DOMAIN its,
         \A k \in DOMAIN its2 : Reaches(stk[Len(stk)], k) => Whole(its2[k])
  PROVE  Complete(Below(stk), its2, nds, loose)
<1> DEFINE new == Below(stk)
           m   == Len(stk)
<1>1. stk \in Seq(FrameType) /\ m \in Nat /\ m >= 2 /\ DOMAIN stk = 1 .. m
  BY DEF Good, Typed
<1>2. DOMAIN new = 1 .. m - 1 /\ \A i \in 1 .. m - 1 : new[i] = stk[i]
  <2>1. new \in Seq(FrameType) /\ Len(new) = m - 1 BY <1>1, BelowTyped
  <2>2. \A i \in 1 .. m - 1 : new[i] = stk[i] BY <1>1, BelowTyped
  <2> QED BY <1>1, <2>1, <2>2
<1>3. \A i \in DOMAIN stk : i = m \/ (i \in DOMAIN new /\ new[i] = stk[i]) BY <1>1, <1>2
<1>4. \A n : ~Builds(stk[m], n) BY DEF Builds, Building, Idle
<1> HIDE DEF new, m
<1>5. \A n \in DOMAIN nds :
        (n \notin DOMAIN nds \/ n = loose \/ \E i \in DOMAIN stk : Builds(stk[i], n))
          => (n = loose \/ (\E i \in DOMAIN new : Builds(new[i], n)) \/ Done(n, its2, nds))
  BY <1>3, <1>4
<1>6. ASSUME NEW k \in DOMAIN its2,
             k \notin DOMAIN its \/ \E i \in DOMAIN stk : Reaches(stk[i], k)
      PROVE  Whole(its2[k]) \/ \E i \in DOMAIN new : Reaches(new[i], k)
  <2>1. CASE Reaches(stk[m], k) BY <2>1 DEF m
  <2>2. CASE \E i \in DOMAIN stk : i # m /\ Reaches(stk[i], k) BY <1>3, <2>2
  <2> QED BY <1>6, <2>1, <2>2
<1>7. GrownNodes(nds, nds) BY GrownStill
<1>8. Complete(new, its2, nds, loose) BY <1>5, <1>6, <1>7, CompleteKept
<1> QED BY <1>8 DEF new

-----------------------------------------------------------------------------
(***************************************************************************)
(* A field delivered: to a script, to the atom of a construct, to a        *)
(* construct, or to an atom of its own.                                    *)
(***************************************************************************)

(* The last item of a frame's list has been given a field that holds n.    *)
Wrote(its, its2, f, n) ==
  /\ DOMAIN its2 = DOMAIN its /\ f.list # << >> /\ Tail1(f) \in DOMAIN its2
  /\ ItemsBut(its, its2, f) /\ GrownItems(its, its2)
  /\ Whole(its2[Tail1(f)])
  /\ \E part \in FieldsOf(its2[Tail1(f)]) : Holds(part, n)

(* Replacing the last item of a frame's list by one that keeps its fields. *)
LEMMA WroteAt ==
  ASSUME NEW its \in Seq(Item), NEW f \in FrameType, f.list # << >>,
         \A j \in DOMAIN f.list : f.list[j] \in DOMAIN its,
         NEW v, v.kind = its[Tail1(f)].kind,
         Kept(its[Tail1(f)].nucleus, v.nucleus),
         Kept(its[Tail1(f)].sup, v.sup), Kept(its[Tail1(f)].sub, v.sub),
         NEW n, \E part \in FieldsOf(v) : Holds(part, n)
  PROVE  Wrote(its, [its EXCEPT ![Tail1(f)] = v], f, n)
<1> DEFINE k    == Tail1(f)
           its2 == [its EXCEPT ![k] = v]
<1>1. k \in DOMAIN its
  <2>1. f.list \in Seq(Nat) BY DEF FrameType
  <2>2. Len(f.list) \in DOMAIN f.list BY <2>1
  <2> QED BY <2>2 DEF Tail1
<1>2. GrownItems(its, its2) BY GrownAt
<1>3. DOMAIN its2 = DOMAIN its /\ its2[k] = v /\ \A m \in DOMAIN its : m = k \/ its2[m] = its[m]
  BY <1>1
<1>4. v.nucleus.kind # "EMPTY" \/ v.sup.kind # "EMPTY" \/ v.sub.kind # "EMPTY"
  BY DEF FieldsOf, Holds
<1> HIDE DEF k, its2
<1>5. Wrote(its, its2, f, n) BY <1>1, <1>2, <1>3, <1>4 DEF Wrote, ItemsBut, Whole, k
<1> QED BY <1>5 DEF its2, k

(* A script is filled once, and nothing else is touched.                   *)
LEMMA FilledOnce ==
  ASSUME NEW its \in Seq(Item), NEW f \in FrameType,
         \A j \in DOMAIN f.list : f.list[j] \in DOMAIN its,
         NEW script, OpenFor(f, script, its), NEW field \in Field, field.kind # "EMPTY"
  PROVE  Wrote(its, FillScript(its, script, field), f, field.node)
<1> DEFINE k == Tail1(f)
           v == Scripted(its[k], script, field)
<1>1. f.list # << >> /\ script.target = k /\ ScriptField(its[k], script.kind).kind = "EMPTY"
  BY DEF OpenFor
<1>2. FillScript(its, script, field) = [its EXCEPT ![k] = v] BY <1>1 DEF FillScript
<1>3. its[k] \in Item
  <2>1. f.list \in Seq(Nat) BY DEF FrameType
  <2>2. Len(f.list) \in DOMAIN f.list BY <1>1, <2>1
  <2> QED BY <2>2 DEF Tail1
<1> DEFINE it    == its[k]
           whole == [field EXCEPT !.begin = script.mark]
<1>4. whole.kind = field.kind /\ whole.node = field.node BY DEF Field
<1>5. /\ v.kind = it.kind /\ v.nucleus = it.nucleus
      /\ script.kind = "SUP" => v.sup = whole /\ v.sub = it.sub
      /\ script.kind # "SUP" => v.sub = whole /\ v.sup = it.sup
  <2> HIDE DEF it, whole
  <2>1. it \in Item BY <1>3 DEF it
  <2>2. v = Scripted(it, script, field) BY DEF it
  <2> HIDE DEF v
  <2> QED BY <2>1, <2>2 DEF Scripted, Item, whole
<1>6. Kept(it.nucleus, v.nucleus) /\ Kept(it.sup, v.sup) /\ Kept(it.sub, v.sub)
  BY <1>1, <1>5 DEF Kept, ScriptField
<1>7. \E part \in FieldsOf(v) : Holds(part, field.node)
  <2> HIDE DEF v, whole
  <2> QED BY <1>4, <1>5 DEF FieldsOf, Holds
<1>8. v.kind = its[Tail1(f)].kind BY <1>5
<1> HIDE DEF v, whole
<1>9. Wrote(its, [its EXCEPT ![Tail1(f)] = v], f, field.node)
  BY <1>1, <1>6, <1>7, <1>8, WroteAt
<1> QED BY <1>2, <1>9

(* What a finished collector stages lands where the command said.          *)
LEMMA LandedOnce ==
  ASSUME NEW its \in Seq(Item), NEW f \in FrameType,
         \A j \in DOMAIN f.list : f.list[j] \in DOMAIN its,
         Collecting(f), Aimed(f, its), NEW staged \in Field, staged.kind # "EMPTY"
  PROVE  Wrote(its, Landed(its, f.collect, staged), f, staged.node)
<1> DEFINE c == f.collect
           k == Tail1(f)
<1>1. CASE c.item = 0 BY <1>1, FilledOnce DEF Landed, Aimed
<1>2. CASE c.item # 0
  <2> DEFINE nucleus == [staged EXCEPT !.begin = c.begin]
             at == staged.end
             it == its[k]
             v  == [it EXCEPT !.nucleus = nucleus, !.sup = Empty(at), !.sub = Empty(at),
                              !.begin = c.begin, !.end = at]
  <2>1. /\ f.list # << >> /\ c.item = k /\ it.nucleus.kind = "EMPTY"
        /\ it.sup.kind = "EMPTY" /\ it.sub.kind = "EMPTY"
    BY <1>2 DEF Aimed, Bare
  <2>2. Landed(its, c, staged) = [its EXCEPT ![k] = v] BY <1>2, <2>1 DEF Landed
  <2>3. it \in Item
    <3>1. f.list \in Seq(Nat) BY DEF FrameType
    <3>2. Len(f.list) \in DOMAIN f.list BY <2>1, <3>1
    <3> QED BY <3>2 DEF Tail1
  <2>4. nucleus.kind = staged.kind /\ nucleus.node = staged.node BY DEF Field
  <2>5. v.kind = it.kind /\ v.nucleus = nucleus
    <3> HIDE DEF it, nucleus, at
    <3> QED BY <2>3 DEF Item
  <2>6. \E part \in FieldsOf(v) : Holds(part, staged.node)
    <3> HIDE DEF v, nucleus
    <3> QED BY <2>4, <2>5 DEF FieldsOf, Holds
  <2>7. Kept(it.nucleus, v.nucleus) /\ Kept(it.sup, v.sup) /\ Kept(it.sub, v.sub)
    BY <2>1 DEF Kept
  <2> HIDE DEF v, nucleus
  <2> QED BY <2>1, <2>2, <2>5, <2>6, <2>7, WroteAt
<1> QED BY <1>1, <1>2

(* Stamping a face changes neither the kind of a field nor what it holds.  *)
LEMMA StampedHolds ==
  ASSUME NEW f, NEW field \in Field
  PROVE  Stamped(f, field).kind = field.kind /\ Stamped(f, field).node = field.node
BY DEF Stamped, Field

(* What is staged holds the construct collected, or the argument itself.   *)
LEMMA StagedHolds ==
  ASSUME NEW c \in Collect, c.kind # "NONE", NEW field \in Field, field.kind # "EMPTY"
  PROVE  /\ Staged(c, field).kind # "EMPTY"
         /\ Staged(c, field).node = IF c.kind = "STYLE" THEN field.node ELSE c.node
<1>1. CASE c.kind # "STYLE"
  <2>1. /\ NodeField(c.kind, c.node, field.begin, field.end).kind = c.kind
        /\ NodeField(c.kind, c.node, field.begin, field.end).node = c.node
    BY DEF NodeField, Empty
  <2>2. c.kind # "EMPTY" BY DEF Collect
  <2> QED BY <1>1, <2>1, <2>2 DEF Staged
<1>2. CASE c.kind = "STYLE" BY <1>2 DEF Staged, TextArgument, Field
<1> QED BY <1>1, <1>2

(* A construct is held once a field of an item, or of a construct, is it.  *)
LEMMA HeldBy ==
  ASSUME NEW its, NEW nds, NEW n, NEW j \in DOMAIN its,
         \/ \E part \in FieldsOf(its[j]) : Holds(part, n)
         \/ \E k \in DOMAIN nds : \E part \in NodeFields(nds[k]) : Holds(part, n)
  PROVE  Held(n, its, nds)
BY DEF Held

(* A construct that is finished stays so.                                  *)
LEMMA FinishedKept ==
  ASSUME NEW nds, NEW nds2, GrownNodes(nds, nds2), NEW n \in DOMAIN nds, Finished(nds[n])
  PROVE  Finished(nds2[n])
BY DEF Finished, GrownNodes, Kept

-----------------------------------------------------------------------------
(***************************************************************************)
(* What a handler has when it delivers, and what it leaves.                *)
(***************************************************************************)

(* A stack under the math rules; n is the construct being delivered.       *)
Ready(stk, its, nds, q, n) ==
  /\ Good(stk, its, nds) /\ Sound(stk, its, nds, q) /\ Complete(stk, its, nds, n)
  /\ MathRules(stk[Len(stk)])
  /\ n \in DOMAIN nds => Finished(nds[n])

(* The frames and arenas left, against the arenas before.                  *)
Fits(its, nds, stk2, its2, nds2, q) ==
  /\ Sound(stk2, its2, nds2, q) /\ Complete(stk2, its2, nds2, 0)
  /\ GrownItems(its, its2) /\ GrownNodes(nds, nds2)

(* The top frame of a sound stack, with its parts.                         *)
LEMMA TopFirm ==
  ASSUME NEW stk, NEW its, NEW nds, NEW q, Good(stk, its, nds), Sound(stk, its, nds, q)
  PROVE  LET f == stk[Len(stk)] IN
           /\ f \in FrameType /\ Steady(f) /\ Firm(f, its, nds, q)
           /\ f.list \in Seq(Nat) /\ \A j \in DOMAIN f.list : f.list[j] \in DOMAIN its
           /\ f.list # << >> => Tail1(f) \in DOMAIN its
           /\ f.collect \in Collect /\ f.pending \in Script /\ f.script \in Script
<1> DEFINE f == stk[Len(stk)]
<1>1. f \in FrameType /\ Steady(f) /\ Len(stk) \in DOMAIN stk BY TopGood
<1>2. Firm(f, its, nds, q) BY <1>1 DEF Sound
<1>3. \A j \in DOMAIN f.list : f.list[j] \in DOMAIN its BY <1>1 DEF Good, Typed, LinkedTo
<1> HIDE DEF f
<1>4. f.list \in Seq(Nat) /\ f.collect \in Collect /\ f.pending \in Script
      /\ f.script \in Script
  BY <1>1 DEF FrameType
<1>5. f.list # << >> => Tail1(f) \in DOMAIN its
  <2> SUFFICES ASSUME f.list # << >> PROVE Tail1(f) \in DOMAIN its OBVIOUS
  <2>1. Len(f.list) \in DOMAIN f.list BY <1>4
  <2> QED BY <1>3, <2>1 DEF Tail1
<1> QED BY <1>1, <1>2, <1>3, <1>4, <1>5 DEF f

(* The first argument of a fraction is stored.                             *)
LEMMA FirstFits ==
  ASSUME NEW stk, NEW its, NEW nds, NEW q \in Nat, NEW field \in Field, field.kind # "EMPTY",
         Ready(stk, its, nds, q, field.node),
         stk[Len(stk)].collect.kind = "FRACTION", ~stk[Len(stk)].collect.second
  PROVE  LET f == stk[Len(stk)] IN
         Fits(its, nds, SetTop(stk, [f EXCEPT !.collect.second = TRUE]), its,
              [nds EXCEPT ![f.collect.node] = [@ EXCEPT !.first = field]], q)
<1> DEFINE f    == stk[Len(stk)]
           c    == f.collect
           half == [c EXCEPT !.second = TRUE]
           g    == [f EXCEPT !.collect = half]
           node == [nds[c.node] EXCEPT !.first = field]
           nds2 == [nds EXCEPT ![c.node] = node]
<1>0. Good(stk, its, nds) /\ Sound(stk, its, nds, q) /\ Complete(stk, its, nds, field.node)
      /\ MathRules(f)
      /\ (field.node \in DOMAIN nds => Finished(nds[field.node]))
  BY DEF Ready
<1>1. /\ f \in FrameType /\ Steady(f) /\ Firm(f, its, nds, q) /\ c \in Collect
      /\ f.list # << >> => Tail1(f) \in DOMAIN its
  BY <1>0, TopFirm
<1>2. c.kind = "FRACTION" /\ ~c.second OBVIOUS
<1>3. Building(f) /\ Collecting(f) BY <1>2 DEF Building, Collecting
<1> HIDE DEF f
<1>4. half \in Collect /\ half = [c EXCEPT !.second = TRUE] BY <1>1 DEF Collect
<1>5. /\ half.kind = c.kind /\ half.begin = c.begin /\ half.node = c.node
      /\ half.item = c.item /\ half.script = c.script /\ half.second
  BY <1>1 DEF Collect
<1> HIDE DEF half
<1>6. /\ g \in FrameType /\ Same(f, g) /\ g.list = f.list
      /\ g.collect = half /\ g.pending = f.pending /\ g.wait = f.wait
  BY <1>1, <1>4, CollectSet
<1> HIDE DEF g
<1>7. /\ c.node \in DOMAIN nds /\ nds[c.node].kind = c.kind
      /\ nds[c.node].last.kind = "EMPTY" /\ nds[c.node].first.kind = "EMPTY"
  BY <1>1, <1>2, <1>3 DEF Firm, Begun
<1>8. nds[c.node] \in Built
  <2>1. nds \in Seq(Built) BY <1>0 DEF Good, Typed
  <2> QED BY <1>7, <2>1
<1>9. /\ node.kind = nds[c.node].kind /\ node.first = field
      /\ node.last = nds[c.node].last
  BY <1>8 DEF Built
<1> HIDE DEF node
<1>10. DOMAIN nds2 = DOMAIN nds /\ nds2[c.node] = node
       /\ \A m \in DOMAIN nds : m = c.node \/ nds2[m] = nds[m]
  BY <1>7
<1>11. GrownNodes(nds, nds2) BY <1>7, <1>9, GrownNodeAt DEF Kept
<1> HIDE DEF nds2
<1>12. Aimed(g, its)
  BY <1>1, <1>5, <1>6 DEF Firm, Aimed, OpenFor, Bare, Collecting, Pending, Tail1
<1>13. Begun(g.collect, nds2) BY <1>2, <1>5, <1>6, <1>7, <1>9, <1>10 DEF Begun
<1>14. Textual(g, its) BY <1>0, <1>6 DEF Textual, Same, MathRules
<1>15. Dated(g, q)
  BY <1>1, <1>5, <1>6 DEF Firm, Dated, Same, Collecting, Pending, Waiting
<1>16. /\ Relisted(f, g, its) /\ Rebuilt(f, g, nds)
       /\ ItemsBut(its, its, f) /\ NodesBut(nds, nds2, f)
  BY <1>3, <1>5, <1>6, <1>10 DEF Relisted, Rebuilt, ItemsBut, NodesBut
<1>17. Sound(SetTop(stk, g), its, nds2, q)
  BY <1>0, <1>6, <1>12, <1>13, <1>14, <1>15, <1>16, TopSound DEF f
<1>18. GrownItems(its, its) BY GrownStill
<1>19. Tail1(f) \in DOMAIN its
  BY <1>1, <1>3 DEF Firm, Aimed, OpenFor, Bare
<1>20. ASSUME NEW n \in DOMAIN nds2, n \notin DOMAIN nds \/ n = field.node \/ Builds(f, n)
       PROVE  n = 0 \/ Builds(g, n) \/ Done(n, its, nds2)
  <2>1. CASE Builds(f, n)
    BY <1>2, <1>5, <1>6, <2>1 DEF Builds, Building, Collecting
  <2>2. CASE n = field.node
    <3>1. Finished(nds2[n]) BY <1>0, <1>10, <1>11, <2>2, FinishedKept
    <3>2. \E part \in NodeFields(nds2[c.node]) : Holds(part, n)
      BY <1>9, <1>10, <2>2 DEF NodeFields, Holds
    <3>3. c.node \in DOMAIN nds2 BY <1>7, <1>10
    <3>4. Held(n, its, nds2) BY <1>19, <3>2, <3>3, HeldBy
    <3> QED BY <3>1, <3>4 DEF Done
  <2> QED BY <1>10, <1>20, <2>1, <2>2
<1>21. \A k \in DOMAIN its :
         (k \notin DOMAIN its \/ Reaches(f, k)) => (Whole(its[k]) \/ Reaches(g, k))
  BY <1>3, <1>5, <1>6 DEF Reaches, Same, Collecting, Pending
<1>22. Complete(SetTop(stk, g), its, nds2, 0)
  BY <1>0, <1>6, <1>11, <1>18, <1>20, <1>21, TopComplete DEF f
<1>23. Fits(its, nds, SetTop(stk, g), its, nds2, q) BY <1>11, <1>17, <1>18, <1>22 DEF Fits
<1> QED BY <1>23 DEF f, g, half, nds2, node

(* The last argument finishes the construct, which lands.                  *)
LEMMA LastFits ==
  ASSUME NEW stk, NEW its, NEW nds, NEW q \in Nat, NEW field \in Field, field.kind # "EMPTY",
         Ready(stk, its, nds, q, field.node), Collecting(stk[Len(stk)]),
         stk[Len(stk)].collect.kind = "FRACTION" => stk[Len(stk)].collect.second
  PROVE  LET f == stk[Len(stk)]
             c == f.collect
         IN Fits(its, nds, SetTop(stk, [f EXCEPT !.collect = NoCollect]),
                 Landed(its, c, Staged(c, field)),
                 IF c.kind = "STYLE" THEN nds
                 ELSE [nds EXCEPT ![c.node] = [@ EXCEPT !.last = field]], q)
<1> DEFINE f    == stk[Len(stk)]
           c    == f.collect
           g    == [f EXCEPT !.collect = NoCollect]
           node == [nds[c.node] EXCEPT !.last = field]
           nds2 == IF c.kind = "STYLE" THEN nds ELSE [nds EXCEPT ![c.node] = node]
           staged == Staged(c, field)
           its2 == Landed(its, c, staged)
<1>0. Good(stk, its, nds) /\ Sound(stk, its, nds, q) /\ Complete(stk, its, nds, field.node)
      /\ MathRules(f)
      /\ (field.node \in DOMAIN nds => Finished(nds[field.node]))
  BY DEF Ready
<1>1. /\ f \in FrameType /\ Steady(f) /\ Firm(f, its, nds, q) /\ c \in Collect
      /\ \A j \in DOMAIN f.list : f.list[j] \in DOMAIN its
  BY <1>0, TopFirm
<1>2. Collecting(f) /\ (c.kind = "FRACTION" => c.second) OBVIOUS
<1>3. its \in Seq(Item) /\ nds \in Seq(Built) BY <1>0 DEF Good, Typed
<1> HIDE DEF f
<1>4. c.kind # "NONE" BY <1>2 DEF Collecting
<1>5. /\ staged \in Field /\ staged.kind # "EMPTY"
      /\ staged.node = IF c.kind = "STYLE" THEN field.node ELSE c.node
  BY <1>1, <1>4, StagedTyped, StagedHolds
<1> HIDE DEF staged
<1>6. Wrote(its, its2, f, staged.node)
  BY <1>1, <1>2, <1>3, <1>5, LandedOnce DEF Firm
<1> HIDE DEF its2
<1>7. /\ g \in FrameType /\ Same(f, g) /\ g.list = f.list
      /\ g.collect = NoCollect /\ g.pending = f.pending /\ g.wait = f.wait
  BY <1>1, CollectSet, Absent
<1> HIDE DEF g
<1>8. ~Collecting(g) /\ ~Pending(g) /\ ~Pending(f)
  BY <1>1, <1>2, <1>7 DEF Collecting, Pending, NoCollect, Steady
<1>9. c.kind # "STYLE" =>
        /\ c.node \in DOMAIN nds /\ nds[c.node].kind = c.kind
        /\ nds[c.node].last.kind = "EMPTY"
        /\ c.kind = "FRACTION" => nds[c.node].first.kind # "EMPTY"
  BY <1>1, <1>2 DEF Firm, Begun, Building
<1>10. c.kind # "STYLE" =>
         /\ node.kind = nds[c.node].kind /\ node.last = field
         /\ node.first = nds[c.node].first
  <2>1. c.kind # "STYLE" => nds[c.node] \in Built BY <1>3, <1>9
  <2> QED BY <2>1 DEF Built
<1> HIDE DEF node
<1>11. /\ DOMAIN nds2 = DOMAIN nds
       /\ c.kind # "STYLE" => nds2[c.node] = node
       /\ c.kind = "STYLE" => nds2 = nds
       /\ \A m \in DOMAIN nds : nds2[m] = nds[m] \/ (Building(f) /\ m = c.node)
  BY <1>2, <1>9 DEF Building
<1>12. GrownNodes(nds, nds2)
  <2>1. CASE c.kind = "STYLE" BY <2>1, GrownStill
  <2>2. CASE c.kind # "STYLE" BY <1>9, <1>10, <2>2, GrownNodeAt DEF Kept
  <2> QED BY <2>1, <2>2
<1> HIDE DEF nds2
<1>13. Aimed(g, its2) /\ ~Building(g) BY <1>8 DEF Aimed, Building
<1>14. Textual(g, its2) BY <1>0, <1>7 DEF Textual, Same, MathRules
<1>15. Dated(g, q)
  BY <1>1, <1>7, <1>8 DEF Firm, Dated, Same, Waiting
<1>16. /\ Relisted(f, g, its) /\ Rebuilt(f, g, nds)
       /\ ItemsBut(its, its2, f) /\ NodesBut(nds, nds2, f)
  BY <1>6, <1>7, <1>11, <1>13 DEF Relisted, Rebuilt, NodesBut, Wrote
<1>17. Sound(SetTop(stk, g), its2, nds2, q)
  BY <1>0, <1>7, <1>13, <1>14, <1>15, <1>16, TopSound DEF f
<1>18. GrownItems(its, its2) /\ Tail1(f) \in DOMAIN its2 /\ DOMAIN its2 = DOMAIN its
       /\ Whole(its2[Tail1(f)])
  BY <1>6 DEF Wrote
<1>19. Held(staged.node, its2, nds2) BY <1>6, HeldBy DEF Wrote
<1>20. ASSUME NEW n \in DOMAIN nds2, n \notin DOMAIN nds \/ n = field.node \/ Builds(f, n)
       PROVE  n = 0 \/ Builds(g, n) \/ Done(n, its2, nds2)
  <2>1. CASE Builds(f, n)
    <3>1. n = c.node /\ c.kind # "STYLE" BY <2>1 DEF Builds, Building
    <3>2. Finished(nds2[n]) BY <1>9, <1>10, <1>11, <3>1 DEF Finished
    <3> QED BY <1>5, <1>19, <3>1, <3>2 DEF Done
  <2>2. CASE n = field.node
    <3>1. Finished(nds2[n]) BY <1>0, <1>11, <1>12, <2>2, FinishedKept
    <3>2. CASE c.kind = "STYLE" BY <1>5, <1>19, <2>2, <3>1, <3>2 DEF Done
    <3>3. CASE c.kind # "STYLE"
      <4>1. c.node \in DOMAIN nds2 /\ \E part \in NodeFields(nds2[c.node]) : Holds(part, n)
        BY <1>9, <1>10, <1>11, <2>2, <3>3 DEF NodeFields, Holds
      <4>2. Held(n, its2, nds2) BY <1>18, <4>1, HeldBy
      <4> QED BY <3>1, <4>2 DEF Done
    <3> QED BY <3>2, <3>3
  <2> QED BY <1>11, <1>20, <2>1, <2>2
<1>21. ASSUME NEW k \in DOMAIN its2, Reaches(f, k) PROVE Whole(its2[k]) \/ Reaches(g, k)
  <2>1. CASE f.role = "SCRIPT" /\ f.script.target = k BY <1>7, <2>1 DEF Reaches, Same
  <2>2. CASE k = Tail1(f) BY <1>18, <2>2
  <2> QED BY <1>1, <1>2, <1>8, <1>21, <2>1, <2>2 DEF Reaches, Firm, Aimed, OpenFor, Bare
<1>22. Complete(SetTop(stk, g), its2, nds2, 0)
  BY <1>0, <1>7, <1>12, <1>18, <1>20, <1>21, TopComplete DEF f
<1>23. Fits(its, nds, SetTop(stk, g), its2, nds2, q) BY <1>12, <1>17, <1>18, <1>22 DEF Fits
<1> QED BY <1>23 DEF f, g, staged, its2, nds2, node

(* The field fills the script that was marked.                             *)
LEMMA MarkedFits ==
  ASSUME NEW stk, NEW its, NEW nds, NEW q \in Nat, NEW field \in Field, field.kind # "EMPTY",
         Ready(stk, its, nds, q, field.node),
         ~Collecting(stk[Len(stk)]), Pending(stk[Len(stk)])
  PROVE  LET f == stk[Len(stk)] IN
         Fits(its, nds, SetTop(stk, [f EXCEPT !.pending = NoScript]),
              FillScript(its, f.pending, field), nds, q)
<1> DEFINE f    == stk[Len(stk)]
           g    == [f EXCEPT !.pending = NoScript]
           its2 == FillScript(its, f.pending, field)
<1>0. Good(stk, its, nds) /\ Sound(stk, its, nds, q) /\ Complete(stk, its, nds, field.node)
      /\ MathRules(f)
      /\ (field.node \in DOMAIN nds => Finished(nds[field.node]))
  BY DEF Ready
<1>1. /\ f \in FrameType /\ Firm(f, its, nds, q)
      /\ \A j \in DOMAIN f.list : f.list[j] \in DOMAIN its
  BY <1>0, TopFirm
<1>2. ~Collecting(f) /\ Pending(f) OBVIOUS
<1>3. its \in Seq(Item) BY <1>0 DEF Good, Typed
<1> HIDE DEF f
<1>6. Wrote(its, its2, f, field.node)
  BY <1>1, <1>2, <1>3, FilledOnce DEF Firm, Aimed
<1> HIDE DEF its2
<1>7. /\ g \in FrameType /\ Same(f, g) /\ g.list = f.list
      /\ g.collect = f.collect /\ g.pending = NoScript /\ g.wait = f.wait
  BY <1>1, PendingSet, Absent
<1> HIDE DEF g
<1>8. ~Collecting(g) /\ ~Pending(g) BY <1>2, <1>7 DEF Collecting, Pending, NoScript
<1>13. Aimed(g, its2) /\ ~Building(g) BY <1>8 DEF Aimed, Building
<1>14. Textual(g, its2) BY <1>0, <1>7 DEF Textual, Same, MathRules
<1>15. Dated(g, q) BY <1>1, <1>7, <1>8 DEF Firm, Dated, Same, Waiting
<1>16. /\ Relisted(f, g, its) /\ Rebuilt(f, g, nds)
       /\ ItemsBut(its, its2, f) /\ NodesBut(nds, nds, f)
  BY <1>6, <1>7, <1>13 DEF Relisted, Rebuilt, NodesBut, Wrote
<1>17. Sound(SetTop(stk, g), its2, nds, q)
  BY <1>0, <1>7, <1>13, <1>14, <1>15, <1>16, TopSound DEF f
<1>18. GrownItems(its, its2) /\ Tail1(f) \in DOMAIN its2 /\ DOMAIN its2 = DOMAIN its
       /\ Whole(its2[Tail1(f)])
  BY <1>6 DEF Wrote
<1>19. Held(field.node, its2, nds) BY <1>6, HeldBy DEF Wrote
<1>20. ASSUME NEW n \in DOMAIN nds, n \notin DOMAIN nds \/ n = field.node \/ Builds(f, n)
       PROVE  n = 0 \/ Builds(g, n) \/ Done(n, its2, nds)
  <2>1. ~Builds(f, n) BY <1>2 DEF Builds, Building
  <2> QED BY <1>0, <1>19, <1>20, <2>1 DEF Done
<1>21. ASSUME NEW k \in DOMAIN its2, Reaches(f, k) PROVE Whole(its2[k]) \/ Reaches(g, k)
  <2>1. CASE f.role = "SCRIPT" /\ f.script.target = k BY <1>7, <2>1 DEF Reaches, Same
  <2>2. CASE k = Tail1(f) BY <1>18, <2>2
  <2> QED BY <1>1, <1>2, <1>21, <2>1, <2>2 DEF Reaches, Firm, Aimed, OpenFor
<1>12. GrownNodes(nds, nds) BY GrownStill
<1>22. Complete(SetTop(stk, g), its2, nds, 0)
  BY <1>0, <1>7, <1>12, <1>18, <1>20, <1>21, TopComplete DEF f
<1>23. Fits(its, nds, SetTop(stk, g), its2, nds, q) BY <1>12, <1>17, <1>18, <1>22 DEF Fits
<1> QED BY <1>23 DEF f, g, its2

(* An item appended to the list of a frame that waits for nothing else.    *)
LEMMA LinkedFits ==
  ASSUME NEW stk, NEW its, NEW nds, NEW q \in Nat, NEW item \in Item, NEW n \in Nat,
         Good(stk, its, nds), Sound(stk, its, nds, q), Complete(stk, its, nds, n),
         Idle(stk[Len(stk)]), Whole(item),
         n \in DOMAIN nds => Finished(nds[n]) /\ Holds(item.nucleus, n),
         MathRules(stk[Len(stk)]) \/ Plain(item)
  PROVE  Fits(its, nds, Linked(stk, its), Append(its, item), nds, q)
<1> DEFINE f    == stk[Len(stk)]
           list == Append(f.list, Len(its) + 1)
           g    == [f EXCEPT !.list = list]
           its2 == Append(its, item)
<1>1. /\ f \in FrameType /\ Firm(f, its, nds, q) /\ f.list \in Seq(Nat)
      /\ \A j \in DOMAIN f.list : f.list[j] \in DOMAIN its
  BY TopFirm
<1>2. Idle(f) /\ (MathRules(f) \/ Plain(item)) OBVIOUS
<1>3. its \in Seq(Item) BY DEF Good, Typed
<1>4. Linked(stk, its) = SetTop(stk, g) BY DEF Linked
<1> HIDE DEF f
<1>5. /\ GrownItems(its, its2)
      /\ \A i \in DOMAIN its : i \in DOMAIN its2 /\ its2[i] = its[i]
      /\ its2[Len(its) + 1] = item /\ Len(its) + 1 \in DOMAIN its2
      /\ Len(its) + 1 \notin DOMAIN its
      /\ \A i \in DOMAIN its2 : i \in DOMAIN its \/ i = Len(its) + 1
  BY <1>3, GrownByOne
<1>6. list \in Seq(Nat) /\ Len(its) + 1 \in Nat BY <1>1, <1>3
<1> HIDE DEF its2
<1>7. /\ g \in FrameType /\ Same(f, g) /\ g.list = list
      /\ g.collect = f.collect /\ g.pending = f.pending /\ g.wait = f.wait
  <2> HIDE DEF list
  <2> QED BY <1>1, <1>6, ListSet
<1> HIDE DEF g
<1>8. ~Collecting(g) /\ ~Pending(g) BY <1>2, <1>7 DEF Idle, Collecting, Pending
<1>13. Aimed(g, its2) /\ ~Building(g) BY <1>8 DEF Aimed, Building
<1>14. Textual(g, its2)
  <2>1. CASE MathRules(f) BY <1>7, <2>1 DEF Textual, Same, MathRules
  <2>2. CASE Plain(item) /\ ~MathRules(f)
    <3>1. \A j \in DOMAIN f.list : Plain(its2[f.list[j]])
      BY <1>1, <1>5, <2>2 DEF Firm, Textual, MathRules
    <3>2. \A j \in DOMAIN list : list[j] = Len(its) + 1
                                   \/ (j \in DOMAIN f.list /\ list[j] = f.list[j])
      <4> DEFINE old == f.list
                 m   == Len(its) + 1
      <4>1. old \in Seq(Nat) /\ list = Append(old, m) BY <1>1
      <4> HIDE DEF old, m, list
      <4>2. \A j \in DOMAIN list : list[j] = m \/ (j \in DOMAIN old /\ list[j] = old[j])
        BY <4>1
      <4> QED BY <4>2 DEF old, m
    <3> QED BY <1>5, <1>7, <2>2, <3>1, <3>2 DEF Textual
  <2> QED BY <1>2, <2>1, <2>2
<1>15. Dated(g, q) BY <1>1, <1>7, <1>8 DEF Firm, Dated, Same, Waiting
<1>16. /\ Relisted(f, g, its) /\ Rebuilt(f, g, nds)
       /\ ItemsBut(its, its2, f) /\ NodesBut(nds, nds, f)
  BY <1>5, <1>7, <1>13 DEF Relisted, Rebuilt, NodesBut, ItemsBut
<1>17. Sound(SetTop(stk, g), its2, nds, q)
  BY <1>7, <1>13, <1>14, <1>15, <1>16, TopSound DEF f
<1>20. ASSUME NEW k \in DOMAIN nds, k \notin DOMAIN nds \/ k = n \/ Builds(f, k)
       PROVE  k = 0 \/ Builds(g, k) \/ Done(k, its2, nds)
  <2>1. ~Builds(f, k) BY <1>2 DEF Builds, Building, Idle
  <2>2. k = n BY <1>20, <2>1
  <2>3. \E part \in FieldsOf(its2[Len(its) + 1]) : Holds(part, n)
    BY <1>5, <2>2 DEF FieldsOf
  <2>4. Held(n, its2, nds) BY <1>5, <2>3, HeldBy
  <2> QED BY <2>2, <2>4 DEF Done
<1>21. ASSUME NEW k \in DOMAIN its2, k \notin DOMAIN its \/ Reaches(f, k)
       PROVE  Whole(its2[k]) \/ Reaches(g, k)
  <2>1. CASE Reaches(f, k) BY <1>2, <1>7, <2>1 DEF Reaches, Same, Idle
  <2>2. CASE k \notin DOMAIN its BY <1>5, <2>2
  <2> QED BY <1>21, <2>1, <2>2
<1>12. GrownNodes(nds, nds) BY GrownStill
<1>22. Complete(SetTop(stk, g), its2, nds, 0)
  BY <1>5, <1>7, <1>12, <1>20, <1>21, TopComplete DEF f
<1>23. Fits(its, nds, SetTop(stk, g), its2, nds, q) BY <1>5, <1>12, <1>17, <1>22 DEF Fits
<1> QED BY <1>4, <1>23 DEF its2

-----------------------------------------------------------------------------
(***************************************************************************)
(* A step: what has been read when a handler runs, and what it does to the *)
(* frames that are open.                                                   *)
(***************************************************************************)
Shapes(stk) == [i \in 1 .. Len(stk) - 1 |-> Shape(stk[i + 1])]

(* The text holds what is consumed and at most a lookahead of two tokens,  *)
(* the first of them a blank; no end of source has been passed.            *)
ReadTo(txt, p) ==
  /\ p <= Len(txt) /\ Len(txt) <= p + 2
  /\ Len(txt) = p + 2 => txt[p + 1] = "SPACE"

Reading == /\ ReadTo(text, pos)
           /\ result.status = "RUNNING" => \A i \in 1 .. pos : text[i] # "END"

(* The verdict, once it is known.                                          *)
Concluded == /\ result.status = "OK" => Len(stack) = 1 /\ Idle(Top)
             /\ ErrorNamesSource

(* The invariant of the destinations, the constructs and the source.       *)
Standing == /\ IInv
          /\ Sound(stack, items, nodes, pos) /\ Complete(stack, items, nodes, 0)
          /\ Reading /\ Concluded

(* The handler of a token has been entered.                                *)
Poised ==
  /\ IInv /\ result.status = "RUNNING"
  /\ Sound(stack, items, nodes, pos') /\ Complete(stack, items, nodes, 0)
  /\ text' \in Seq(Source) /\ pos' \in Nat /\ pos + 1 <= pos' /\ ReadTo(text', pos')
  /\ \A i \in 1 .. pos' - 1 : text'[i] # "END"

Onward == Fits(items, nodes, stack', items', nodes', pos')

Goes == result' = result /\ text'[pos'] # "END"

Stays   == Goes /\ Shapes(stack') = Shapes(stack)
Enters  == /\ Goes /\ Len(stack) - 1 # DepthLimit
           /\ \E f \in FrameType : /\ f.role # "ROOT"
                                   /\ Nest!OpenedBy(Shape(f), text'[pos'])
                                   /\ Shapes(stack') = Append(Shapes(stack), Shape(f))
Leaves  == /\ Goes /\ Len(stack) >= 2
           /\ Nest!ClosedBy(Shape(Top), text'[pos'])
           /\ Shapes(stack') = Shapes(Below(stack))
Starves == stack' = stack /\ result'.status = "ALLOCATION_FAILED"
Refuses == /\ stack' = stack /\ result'.status \in {"UNSUPPORTED", "INVALID_UTF8"}
           /\ result'.begin < result'.end /\ result'.end <= Len(text')
           /\ text'[result'.end] # "END"
Accepts == /\ stack' = stack /\ result'.status = "OK"
           /\ text'[pos'] = "END" /\ Len(stack) = 1 /\ Idle(Top)

Turn  == Stays \/ Enters \/ Leaves \/ Starves \/ Refuses \/ Accepts
Moves == Onward /\ Turn

(* What is open depends on the roles and environments of the frames alone. *)
LEMMA ShapesKept ==
  ASSUME NEW stk \in Seq(FrameType), stk # << >>, NEW g \in FrameType, Same(stk[Len(stk)], g)
  PROVE  Shapes(SetTop(stk, g)) = Shapes(stk)
<1> DEFINE new == SetTop(stk, g)
           n   == Len(stk)
<1>1. Len(new) = n /\ n \in Nat BY SetTopTyped
<1>2. new[n] = g /\ \A i \in 1 .. n - 1 : new[i] = stk[i] BY SetTopTyped
<1>3. Same(stk[n], g) OBVIOUS
<1> HIDE DEF new, n
<1>4. ASSUME NEW i \in 1 .. n - 1 PROVE Shape(new[i + 1]) = Shape(stk[i + 1])
  <2>1. CASE i + 1 = n BY <1>2, <1>3, <2>1 DEF Shape, Same
  <2>2. CASE i + 1 # n
    <3>1. i + 1 \in 1 .. n - 1 BY <1>1, <2>2
    <3> QED BY <1>2, <3>1
  <2> QED BY <2>1, <2>2
<1>5. Shapes(new) = [i \in 1 .. n - 1 |-> Shape(new[i + 1])] BY <1>1 DEF Shapes
<1>6. Shapes(stk) = [i \in 1 .. n - 1 |-> Shape(stk[i + 1])] BY DEF Shapes, n
<1> QED BY <1>4, <1>5, <1>6 DEF new

(* A push opens one more.                                                  *)
LEMMA ShapesPushed ==
  ASSUME NEW stk \in Seq(FrameType), stk # << >>, NEW f \in FrameType
  PROVE  Shapes(Append(stk, f)) = Append(Shapes(stk), Shape(f))
<1> DEFINE new == Append(stk, f)
           n   == Len(stk)
           a   == Shapes(stk)
<1>1. /\ n \in Nat /\ n >= 1 /\ Len(new) = n + 1 /\ new[n + 1] = f
      /\ \A i \in 1 .. n : new[i] = stk[i]
  OBVIOUS
<1>2. a = [i \in 1 .. n - 1 |-> Shape(stk[i + 1])] BY DEF Shapes
<1>3. Shapes(new) = [i \in 1 .. n |-> Shape(new[i + 1])] BY <1>1 DEF Shapes
<1> HIDE DEF new, n, a
<1> DEFINE S == [role : Roles, env : Environments \cup {"NONE"}]
           s == Shape(f)
<1>4. a \in Seq(S) /\ Len(a) = n - 1 /\ s \in S
  <2>1. \A g \in FrameType : Shape(g) \in S BY DEF Shape, FrameType
  <2>2. \A i \in 1 .. n - 1 : i + 1 \in 1 .. n /\ stk[i + 1] \in FrameType BY <1>1 DEF n
  <2> HIDE DEF S
  <2>3. \A i \in 1 .. n - 1 : Shape(stk[i + 1]) \in S BY <2>1, <2>2
  <2> QED BY <1>1, <1>2, <2>1, <2>3
<1>5. \A i \in 1 .. n - 1 : Shape(new[i + 1]) = a[i]
  <2> SUFFICES ASSUME NEW i \in 1 .. n - 1 PROVE Shape(new[i + 1]) = a[i] OBVIOUS
  <2>1. i + 1 \in 1 .. n BY <1>1
  <2> QED BY <1>1, <1>2, <2>1
<1>6. Shape(new[n + 1]) = s BY <1>1
<1> HIDE DEF S, s
<1> DEFINE t == Append(a, s)
<1>7. t \in Seq(S) /\ DOMAIN t = 1 .. n BY <1>1, <1>4
<1>8. \A i \in 1 .. n : t[i] = IF i = n THEN s ELSE a[i] BY <1>1, <1>4
<1>10. t = [i \in 1 .. n |-> t[i]]
  <2> HIDE DEF t
  <2> QED BY <1>7
<1> HIDE DEF t
<1>9. \A i \in 1 .. n : Shape(new[i + 1]) = IF i = n THEN s ELSE a[i]
  BY <1>1, <1>5, <1>6
<1> QED BY <1>3, <1>8, <1>9, <1>10 DEF new, a, s, t

(* A pop closes the innermost.                                             *)
LEMMA ShapesPopped ==
  ASSUME NEW stk \in Seq(FrameType), Len(stk) >= 2
  PROVE  /\ Shapes(stk) # << >> /\ Shapes(stk)[Len(Shapes(stk))] = Shape(stk[Len(stk)])
         /\ Shapes(Below(stk)) = SubSeq(Shapes(stk), 1, Len(Shapes(stk)) - 1)
<1> DEFINE n   == Len(stk)
           a   == Shapes(stk)
           new == Below(stk)
<1>1. n \in Nat /\ n >= 2 /\ Len(new) = n - 1 BY BelowTyped
<1>2. \A i \in 1 .. n - 1 : new[i] = stk[i] BY BelowTyped
<1>3. a = [i \in 1 .. n - 1 |-> Shape(stk[i + 1])] BY DEF Shapes
<1>4. Shapes(new) = [i \in 1 .. n - 2 |-> Shape(new[i + 1])] BY <1>1 DEF Shapes
<1> HIDE DEF n, a, new
<1>5. Len(a) = n - 1 /\ DOMAIN a = 1 .. n - 1 BY <1>1, <1>3
<1>6. a # << >> BY <1>1, <1>5
<1>7. a[n - 1] = Shape(stk[n])
  <2>1. n - 1 \in 1 .. n - 1 /\ (n - 1) + 1 = n BY <1>1
  <2> QED BY <1>3, <2>1
<1>8. SubSeq(a, 1, n - 2) = [i \in 1 .. n - 2 |-> a[i]] BY <1>1, <1>5
<1>9. \A i \in 1 .. n - 2 : Shape(new[i + 1]) = a[i]
  <2> SUFFICES ASSUME NEW i \in 1 .. n - 2 PROVE Shape(new[i + 1]) = a[i] OBVIOUS
  <2>1. i + 1 \in 1 .. n - 1 /\ i \in 1 .. n - 1 BY <1>1
  <2> QED BY <1>2, <1>3, <2>1
<1>10. Shapes(new) = SubSeq(a, 1, n - 2) BY <1>4, <1>8, <1>9
<1>11. (n - 1) - 1 = n - 2 BY <1>1
<1> QED BY <1>5, <1>6, <1>7, <1>10, <1>11 DEF n, a, new

(* A stop keeps what was built.                                            *)
LEMMA StopOnward ==
  ASSUME Poised, NEW status, NEW what, NEW b, NEW e, Stop(status, what, b, e)
  PROVE  /\ Onward /\ stack' = stack
         /\ result'.status = status /\ result'.begin = b /\ result'.end = e
<1>1. /\ stack' = stack /\ items' = items /\ nodes' = nodes
      /\ result'.status = status /\ result'.begin = b /\ result'.end = e
  BY DEF Stop
<1>2. GrownItems(items, items) /\ GrownNodes(nodes, nodes) BY GrownStill
<1>3. Sound(stack, items, nodes, pos') /\ Complete(stack, items, nodes, 0) BY DEF Poised
<1>4. Fits(items, nodes, stack, items, nodes, pos') BY <1>2, <1>3 DEF Fits
<1> QED BY <1>1, <1>4 DEF Onward

(* A failed allocation keeps what was built.                               *)
LEMMA Starved == ASSUME Poised, OutOfMemory PROVE Onward /\ Starves
<1>1. Stop("ALLOCATION_FAILED", "allocation failed", 0, 0) BY DEF OutOfMemory
<1> QED BY <1>1, StopOnward DEF Starves

(* So does one that a handler meets.                                       *)
LEMMA StarvedMoves == ASSUME Poised, OutOfMemory PROVE Moves
BY Starved DEF Moves, Turn

(* A refusal names tokens of the source.                                   *)
LEMMA RefusedMoves ==
  ASSUME Poised, NEW what, NEW b, NEW e, Refuse(what, b, e),
         b < e, e <= Len(text'), text'[e] # "END"
  PROVE  Moves
<1>1. Stop("UNSUPPORTED", what, b, e) BY DEF Refuse
<1> QED BY <1>1, StopOnward DEF Moves, Turn, Refuses

(* A refusal of the token being read names it.                             *)
LEMMA FailedMoves ==
  ASSUME Poised, NEW what, Fail(what), text'[pos + 1] # "END"
  PROVE  Moves
<1>1. Refuse(what, pos, pos + 1) BY DEF Fail
<1>2. text' \in Seq(Source) /\ pos \in Nat /\ pos' \in Nat /\ pos + 1 <= pos' /\ pos' <= Len(text')
  BY DEF Poised, ReadTo, IInv
<1>3. pos < pos + 1 /\ pos + 1 <= Len(text') BY <1>2
<1> QED BY <1>1, <1>3, RefusedMoves

(* So does the report of a malformed token.                                *)
LEMMA MalformedMoves ==
  ASSUME Poised, NEW at \in Nat, Malformed(at), at + 1 <= Len(text'), text'[at + 1] # "END"
  PROVE  Moves
<1>1. PICK status \in {"UNSUPPORTED", "INVALID_UTF8"} :
        Stop(status, "malformed token", at, at + 1)
  BY DEF Malformed
<1>2. at < at + 1 OBVIOUS
<1> QED BY <1>1, <1>2, StopOnward DEF Moves, Turn, Refuses

(* A handler that leaves frames and arenas that fit.                       *)
LEMMA BecameOnward ==
  ASSUME NEW stk, NEW its, NEW nds, Becomes(stk, its, nds),
         Fits(items, nodes, stk, its, nds, pos')
  PROVE  Onward /\ stack' = stk /\ result' = result
BY DEF Becomes, Onward

(* A handler that opens and closes nothing.                                *)
LEMMA BecameMoves ==
  ASSUME NEW stk, NEW its, NEW nds, Becomes(stk, its, nds), text'[pos'] # "END",
         Fits(items, nodes, stk, its, nds, pos'), Shapes(stk) = Shapes(stack)
  PROVE  Moves
<1>1. Onward /\ stack' = stk /\ result' = result BY BecameOnward
<1> QED BY <1>1 DEF Moves, Turn, Stays, Goes

(* What fits after what has grown fits.                                    *)
LEMMA FitsTwice ==
  ASSUME NEW a, NEW c, NEW a2, NEW c2, GrownItems(a, a2), GrownNodes(c, c2),
         NEW stk, NEW its, NEW nds, NEW q, Fits(a2, c2, stk, its, nds, q)
  PROVE  Fits(a, c, stk, its, nds, q)
BY GrownTwice DEF Fits

(* txc_deliver, whichever destination it takes.                            *)
LEMMA DeliverOnward ==
  ASSUME Poised, text'[pos'] # "END",
         NEW stk, NEW its, NEW nds, NEW construct \in Field, construct.kind # "EMPTY",
         NEW class \in Classes, Ready(stk, its, nds, pos', construct.node),
         GrownItems(items, its), GrownNodes(nodes, nds),
         Deliver(stk, its, nds, construct, class)
  PROVE  Onward /\ ((Goes /\ Shapes(stack') = Shapes(stk)) \/ Starves)
<1> DEFINE f     == stk[Len(stk)]
           c     == f.collect
           field == Stamped(f, construct)
           part1 == [nds EXCEPT ![c.node] = [@ EXCEPT !.first = field]]
           part2 == IF c.kind = "STYLE" THEN nds
                    ELSE [nds EXCEPT ![c.node] = [@ EXCEPT !.last = field]]
           g1    == [f EXCEPT !.collect.second = TRUE]
           g2    == [f EXCEPT !.collect = NoCollect]
           g3    == [f EXCEPT !.pending = NoScript]
           its2  == Landed(its, c, Staged(c, field))
           its3  == FillScript(its, f.pending, field)
           atom  == Atom(class, field)
<1>1. \/ c.kind = "FRACTION" /\ ~c.second /\ Becomes(SetTop(stk, g1), its, part1)
      \/ /\ Collecting(f) /\ ~(c.kind = "FRACTION" /\ ~c.second)
         /\ Becomes(SetTop(stk, g2), its2, part2)
      \/ ~Collecting(f) /\ Pending(f) /\ Becomes(SetTop(stk, g3), its3, nds)
      \/ Idle(f) /\ OutOfMemory
      \/ Idle(f) /\ Becomes(Linked(stk, its), Append(its, atom), nds)
  BY DEF Deliver
<1>2. /\ Good(stk, its, nds) /\ f \in FrameType /\ stk \in Seq(FrameType) /\ stk # << >>
      /\ MathRules(f)
      /\ construct.node \in DOMAIN nds => Finished(nds[construct.node])
  BY TopGood DEF Ready
<1>3. field \in Field /\ field.kind # "EMPTY" /\ field.node = construct.node
  BY <1>2, StampedTyped, StampedHolds
<1>4. Ready(stk, its, nds, pos', field.node) BY <1>3
<1>5. pos' \in Nat BY DEF Poised
<1> HIDE DEF field
<1>6. ASSUME NEW stk2, NEW its4, NEW nds2, Becomes(stk2, its4, nds2),
             Fits(its, nds, stk2, its4, nds2, pos'), Shapes(stk2) = Shapes(stk)
      PROVE  Onward /\ Goes /\ Shapes(stack') = Shapes(stk)
  <2>1. Fits(items, nodes, stk2, its4, nds2, pos') BY <1>6, FitsTwice
  <2> QED BY <1>6, <2>1, BecameOnward DEF Goes
<1>7. f.collect \in Collect BY <1>2 DEF FrameType
<1>8. Same(f, g1) /\ g1 \in FrameType
  <2> DEFINE half == [c EXCEPT !.second = TRUE]
  <2>1. half \in Collect BY <1>7 DEF Collect
  <2>2. g1 = [f EXCEPT !.collect = half] OBVIOUS
  <2> HIDE DEF half, g1, f
  <2> QED BY <1>2, <2>1, <2>2, CollectSet
<1>9. Same(f, g2) /\ g2 \in FrameType BY <1>2, CollectSet, Absent
<1>10. Same(f, g3) /\ g3 \in FrameType BY <1>2, PendingSet, Absent
<1>11. CASE c.kind = "FRACTION" /\ ~c.second /\ Becomes(SetTop(stk, g1), its, part1)
  <2>1. Fits(its, nds, SetTop(stk, g1), its, part1, pos')
    BY <1>3, <1>4, <1>5, <1>11, FirstFits
  <2>2. Shapes(SetTop(stk, g1)) = Shapes(stk) BY <1>2, <1>8, ShapesKept
  <2> QED BY <1>6, <1>11, <2>1, <2>2
<1>12. CASE /\ Collecting(f) /\ ~(c.kind = "FRACTION" /\ ~c.second)
            /\ Becomes(SetTop(stk, g2), its2, part2)
  <2>1. Fits(its, nds, SetTop(stk, g2), its2, part2, pos')
    BY <1>3, <1>4, <1>5, <1>12, LastFits
  <2>2. Shapes(SetTop(stk, g2)) = Shapes(stk) BY <1>2, <1>9, ShapesKept
  <2> QED BY <1>6, <1>12, <2>1, <2>2
<1>13. CASE ~Collecting(f) /\ Pending(f) /\ Becomes(SetTop(stk, g3), its3, nds)
  <2>1. Fits(its, nds, SetTop(stk, g3), its3, nds, pos')
    BY <1>3, <1>4, <1>5, <1>13, MarkedFits
  <2>2. Shapes(SetTop(stk, g3)) = Shapes(stk) BY <1>2, <1>10, ShapesKept
  <2> QED BY <1>6, <1>13, <2>1, <2>2
<1>14. CASE OutOfMemory BY <1>14, Starved
<1>15. CASE Idle(f) /\ Becomes(Linked(stk, its), Append(its, atom), nds)
  <2>1. atom \in Item BY <1>3, AtomTyped
  <2>2. atom.nucleus = field /\ Whole(atom) BY <1>3 DEF Atom, Whole
  <2>3. Holds(atom.nucleus, field.node) BY <1>3, <2>2 DEF Holds
  <2>4. field.node \in Nat BY <1>3 DEF Field
  <2> HIDE DEF atom
  <2>5. Fits(its, nds, Linked(stk, its), Append(its, atom), nds, pos')
    BY <1>2, <1>3, <1>4, <1>5, <1>15, <2>1, <2>2, <2>3, <2>4, LinkedFits DEF Ready
  <2>6. Shapes(Linked(stk, its)) = Shapes(stk)
    <3> DEFINE g == [f EXCEPT !.list = Append(@, Len(its) + 1)]
    <3>1. Append(f.list, Len(its) + 1) \in Seq(Nat)
      <4>1. its \in Seq(Item) /\ f.list \in Seq(Nat)
        BY <1>2 DEF Good, Typed, FrameType
      <4> QED BY <4>1
    <3>2. g \in FrameType /\ Same(f, g)
      <4> DEFINE list == Append(f.list, Len(its) + 1)
      <4>1. g = [f EXCEPT !.list = list] /\ list \in Seq(Nat) BY <3>1
      <4> HIDE DEF list, g, f
      <4> QED BY <1>2, <4>1, ListSet
    <3>3. Linked(stk, its) = SetTop(stk, g) BY DEF Linked
    <3> HIDE DEF g
    <3> QED BY <1>2, <3>2, <3>3, ShapesKept
  <2> QED BY <1>6, <1>15, <2>5, <2>6
<1> QED BY <1>1, <1>11, <1>12, <1>13, <1>14, <1>15

(* Reading on changes nothing of what the frames hold to.                  *)
LEMMA SoundLater ==
  ASSUME NEW stk, NEW its, NEW nds, NEW p \in Nat, Good(stk, its, nds), Sound(stk, its, nds, p),
         NEW q \in Nat, p <= q
  PROVE  Sound(stk, its, nds, q)
<1>1. \A i \in DOMAIN stk : SameRefs(stk[i], its, nds, its, nds)
  BY DEF Sound, Firm, Begun, SameRefs
<1> QED BY <1>1, SoundArenas

(* The text with token t drawn, if it was not scanned ahead already.       *)
LEMMA WithRead ==
  ASSUME text \in Seq(Source), pos \in Nat, ReadTo(text, pos), NEW t \in Source, Upcoming(t)
  PROVE  /\ With(t) \in Seq(Source) /\ pos + 1 <= Len(With(t)) /\ Len(With(t)) <= pos + 2
         /\ t # "SPACE" => Len(With(t)) = pos + 1
         /\ With(t)[pos + 1] = t /\ \A i \in 1 .. pos : With(t)[i] = text[i]
<1> HIDE DEF Source
<1>1. CASE pos < Len(text)
  <2>1. With(t) = text /\ text[pos + 1] = t BY <1>1 DEF With, Upcoming
  <2> QED BY <1>1, <2>1 DEF ReadTo
<1>2. CASE ~(pos < Len(text))
  <2>1. With(t) = Append(text, t) /\ Len(text) = pos BY <1>2 DEF With, ReadTo
  <2> QED BY <2>1
<1> QED BY <1>1, <1>2

(* A handler entered by one token.                                         *)
LEMMA ScanPoised ==
  ASSUME Standing, NEW t \in Source, Scan(t)
  PROVE  Poised /\ pos' = pos + 1 /\ text'[pos + 1] = t /\ text'[pos'] = t
<1>1. /\ IInv /\ text \in Seq(Source) /\ pos \in Nat /\ ReadTo(text, pos)
      /\ Good(stack, items, nodes)
      /\ Sound(stack, items, nodes, pos) /\ Complete(stack, items, nodes, 0)
  BY DEF Standing, IInv, Reading
<1>2. /\ result.status = "RUNNING" /\ Upcoming(t) /\ text' = With(t) /\ pos' = pos + 1
  BY DEF Scan
<1>3. /\ With(t) \in Seq(Source) /\ pos + 1 <= Len(With(t)) /\ Len(With(t)) <= pos + 2
      /\ With(t)[pos + 1] = t /\ \A i \in 1 .. pos : With(t)[i] = text[i]
  BY <1>1, <1>2, WithRead
<1> HIDE DEF Source
<1>4. pos' \in Nat /\ pos <= pos' /\ pos + 1 <= pos' BY <1>1, <1>2
<1>5. Sound(stack, items, nodes, pos') BY <1>1, <1>4, SoundLater
<1>6. ReadTo(text', pos')
  <2>1. Len(text') \in Nat BY <1>2, <1>3
  <2> QED BY <1>1, <1>2, <1>3, <2>1 DEF ReadTo
<1>7. \A i \in 1 .. pos' - 1 : text'[i] # "END"
  <2>1. \A i \in 1 .. pos : text[i] # "END" BY <1>2 DEF Standing, Reading
  <2>2. pos' - 1 = pos BY <1>1, <1>2
  <2> QED BY <1>2, <1>3, <2>1, <2>2
<1> QED BY <1>1, <1>2, <1>3, <1>4, <1>5, <1>6, <1>7 DEF Poised

(* A handler entered by a command and a name.                              *)
LEMMA NamedPoised ==
  ASSUME Standing, NEW t \in Source \ {"SPACE", "END"}, NEW name \in Source, ScanNamed(t, name)
  PROVE  /\ Poised /\ pos' = pos + 2 /\ Len(text') = pos + 2
         /\ text'[pos + 1] = t /\ text'[pos + 2] = name
<1>1. /\ IInv /\ text \in Seq(Source) /\ pos \in Nat /\ ReadTo(text, pos)
      /\ Good(stack, items, nodes)
      /\ Sound(stack, items, nodes, pos) /\ Complete(stack, items, nodes, 0)
  BY DEF Standing, IInv, Reading
<1>2. /\ result.status = "RUNNING" /\ Upcoming(t)
      /\ text' = Append(With(t), name) /\ pos' = pos + 2
  BY DEF ScanNamed
<1>3. t \in Source /\ t # "SPACE" /\ t # "END" OBVIOUS
<1> HIDE DEF Source
<1>4. /\ With(t) \in Seq(Source) /\ Len(With(t)) = pos + 1
      /\ With(t)[pos + 1] = t /\ \A i \in 1 .. pos : With(t)[i] = text[i]
  BY <1>1, <1>2, <1>3, WithRead
<1>5. /\ text' \in Seq(Source) /\ Len(text') = pos + 2 /\ text'[pos + 2] = name
      /\ text'[pos + 1] = t /\ \A i \in 1 .. pos : text'[i] = text[i]
  <2> DEFINE w == With(t)
  <2>1. w \in Seq(Source) /\ Len(w) = pos + 1 /\ text' = Append(w, name) BY <1>2, <1>4
  <2>2. w[pos + 1] = t /\ \A i \in 1 .. pos : w[i] = text[i] BY <1>4
  <2> HIDE DEF w
  <2>3. /\ text' \in Seq(Source) /\ Len(text') = pos + 2 /\ text'[pos + 2] = name
        /\ \A i \in 1 .. pos + 1 : text'[i] = w[i]
    BY <1>1, <2>1
  <2> QED BY <1>1, <2>2, <2>3
<1>6. pos' \in Nat /\ pos <= pos' /\ pos + 1 <= pos' BY <1>1, <1>2
<1>7. Sound(stack, items, nodes, pos') BY <1>1, <1>6, SoundLater
<1>8. ReadTo(text', pos') BY <1>1, <1>2, <1>5 DEF ReadTo
<1>9. \A i \in 1 .. pos' - 1 : text'[i] # "END"
  <2>1. \A i \in 1 .. pos : text[i] # "END" BY <1>2 DEF Standing, Reading
  <2>2. pos' - 1 = pos + 1 BY <1>1, <1>2
  <2>3. ASSUME NEW i \in 1 .. pos + 1 PROVE text'[i] # "END"
    <3>1. i \in 1 .. pos \/ i = pos + 1 BY <1>1
    <3> QED BY <1>3, <1>5, <2>1, <3>1
  <2> QED BY <2>2, <2>3
<1> QED BY <1>1, <1>2, <1>5, <1>6, <1>7, <1>8, <1>9 DEF Poised

(* What is read is a token of the source; only "END" ends it.              *)
LEMMA AlphabetRead ==
  /\ Alphabet \subseteq Source /\ "END" \notin Alphabet
  /\ {"BAD", "PAR", "SPACE", "END", "[", "]", "{", "}", "&"} \subseteq Source
  /\ {"\\\\", "\\begin", "\\end"} \subseteq Source
  /\ Named \subseteq Source
<1>1. Alphabet \subseteq Tokens BY SourceAssumption DEF Alphabet
<1>2. "END" \notin Tokens
  BY DEF Tokens, Characters, MathChars, TextChars, Letters, Digits, Reserved, Controls, Blank,
         Spacings, Fractions, BigOps, Functions, Limits, Styles, Accents, Sizes, Symbols
<1>3. {"BAD", "PAR", "SPACE", "[", "]", "{", "}", "&"} \subseteq Tokens
  BY DEF Tokens, Characters, MathChars, Reserved, Blank
<1>4. {"\\\\", "\\begin", "\\end"} \subseteq Tokens BY DEF Tokens, Controls
<1>5. Tokens \subseteq Source /\ "END" \in Source BY DEF Source
<1>6. Names \subseteq Source BY SourceAssumption DEF Source
<1> HIDE DEF Tokens, Source
<1> QED BY <1>1, <1>2, <1>3, <1>4, <1>5, <1>6 DEF Named

-----------------------------------------------------------------------------
(***************************************************************************)
(* What the handlers share.                                                *)
(***************************************************************************)

(* The parts of a state in which a handler has been entered.               *)
LEMMA PoisedParts ==
  ASSUME Poised
  PROVE  /\ IInv /\ Good(stack, items, nodes)
         /\ Sound(stack, items, nodes, pos') /\ Complete(stack, items, nodes, 0)
         /\ Top = stack[Len(stack)] /\ Top \in FrameType /\ Steady(Top)
         /\ Firm(Top, items, nodes, pos')
         /\ stack \in Seq(FrameType) /\ stack # << >> /\ Len(stack) \in DOMAIN stack
         /\ pos \in Nat /\ pos' \in Nat /\ pos + 1 <= pos' /\ pos' <= Len(text')
         /\ text' \in Seq(Source) /\ Len(text') \in Nat
<1>1. /\ IInv /\ Good(stack, items, nodes) /\ pos \in Nat
      /\ Sound(stack, items, nodes, pos') /\ Complete(stack, items, nodes, 0)
      /\ pos' \in Nat /\ pos + 1 <= pos' /\ pos' <= Len(text') /\ text' \in Seq(Source)
  BY DEF Poised, IInv, ReadTo
<1>2. Firm(Top, items, nodes, pos') BY <1>1, TopFirm DEF Top
<1>3. Len(text') \in Nat BY <1>1
<1>4. Len(stack) \in DOMAIN stack BY <1>1, TopGood
<1> QED BY <1>1, <1>2, <1>3, <1>4, TopParts

(* An item linked opens and closes nothing.                                *)
LEMMA ShapesLinked ==
  ASSUME NEW stk, NEW its, NEW nds, Good(stk, its, nds)
  PROVE  Shapes(Linked(stk, its)) = Shapes(stk)
<1> DEFINE f    == stk[Len(stk)]
           list == Append(f.list, Len(its) + 1)
           g    == [f EXCEPT !.list = list]
<1>1. f \in FrameType /\ stk \in Seq(FrameType) /\ stk # << >> /\ its \in Seq(Item) BY TopGood
<1>2. list \in Seq(Nat)
  <2>1. f.list \in Seq(Nat) BY <1>1 DEF FrameType
  <2> QED BY <1>1, <2>1
<1>3. Linked(stk, its) = SetTop(stk, g) BY DEF Linked
<1>4. g \in FrameType /\ Same(f, g)
  <2> HIDE DEF list, f
  <2> QED BY <1>1, <1>2, ListSet
<1> HIDE DEF g
<1> QED BY <1>1, <1>3, <1>4, ShapesKept

(* A blank or a bare character, and an item under the math rules.          *)
LEMMA AppendedMoves ==
  ASSUME Poised, text'[pos'] # "END", NEW item \in Item, Whole(item), Idle(Top),
         MathRules(Top) \/ Plain(item), AppendItem(stack, item)
  PROVE  Moves
<1>1. CASE OutOfMemory BY <1>1, StarvedMoves
<1>2. CASE Becomes(Linked(stack, items), Append(items, item), nodes)
  <2>1. Fits(items, nodes, Linked(stack, items), Append(items, item), nodes, pos')
    <3>1. 0 \in Nat /\ 0 \notin DOMAIN nodes
      <4>1. nodes \in Seq(Built) BY PoisedParts DEF Good, Typed
      <4> QED BY <4>1
    <3>2. Good(stack, items, nodes) /\ Sound(stack, items, nodes, pos')
          /\ Complete(stack, items, nodes, 0) /\ pos' \in Nat /\ Top = stack[Len(stack)]
      BY PoisedParts
    <3> QED BY <3>1, <3>2, LinkedFits
  <2>2. Shapes(Linked(stack, items)) = Shapes(stack) BY PoisedParts, ShapesLinked
  <2> QED BY <1>2, <2>1, <2>2, BecameMoves
<1> QED BY <1>1, <1>2 DEF AppendItem

(* The top frame awaits another delimiter, or none any more.               *)
LEMMA WaitFits ==
  ASSUME Poised, NEW w \in Wait, w.kind # "NONE" => w.at + 1 <= pos'
  PROVE  LET g == [Top EXCEPT !.wait = w] IN
           /\ Fits(items, nodes, SetTop(stack, g), items, nodes, pos')
           /\ Shapes(SetTop(stack, g)) = Shapes(stack)
<1> DEFINE f == Top
           g == [f EXCEPT !.wait = w]
<1>1. /\ Good(stack, items, nodes) /\ Sound(stack, items, nodes, pos')
      /\ Complete(stack, items, nodes, 0) /\ f = stack[Len(stack)] /\ f \in FrameType
      /\ Firm(f, items, nodes, pos') /\ stack \in Seq(FrameType) /\ stack # << >>
      /\ pos' \in Nat
  BY PoisedParts
<1> HIDE DEF f
<1>2. /\ g \in FrameType /\ Same(f, g) /\ g.list = f.list
      /\ g.collect = f.collect /\ g.pending = f.pending /\ g.wait = w
  BY <1>1, WaitSet
<1> HIDE DEF g
<1>3. /\ Aimed(g, items) /\ (Building(g) => Begun(g.collect, nodes)) /\ Textual(g, items)
  BY <1>1, <1>2 DEF Firm, Aimed, OpenFor, Bare, Textual, Building, Collecting, Pending,
                    Same, Tail1
<1>4. Dated(g, pos')
  BY <1>1, <1>2 DEF Firm, Dated, Same, Collecting, Pending, Waiting
<1>5. /\ Relisted(f, g, items) /\ Rebuilt(f, g, nodes)
      /\ ItemsBut(items, items, f) /\ NodesBut(nodes, nodes, f)
  BY <1>2 DEF Relisted, Rebuilt, ItemsBut, NodesBut, Building, Collecting
<1>6. Sound(SetTop(stack, g), items, nodes, pos')
  BY <1>1, <1>2, <1>3, <1>4, <1>5, TopSound
<1>7. GrownItems(items, items) /\ GrownNodes(nodes, nodes) BY GrownStill
<1>8. /\ \A n : Builds(f, n) => Builds(g, n)
      /\ \A k : Reaches(f, k) => Reaches(g, k)
  BY <1>2 DEF Builds, Building, Reaches, Same, Collecting, Pending
<1>9. \A n \in DOMAIN nodes :
        (n \notin DOMAIN nodes \/ n = 0 \/ Builds(f, n))
          => (n = 0 \/ Builds(g, n) \/ Done(n, items, nodes))
  BY <1>8
<1>10. \A k \in DOMAIN items :
         (k \notin DOMAIN items \/ Reaches(f, k)) => (Whole(items[k]) \/ Reaches(g, k))
  BY <1>8
<1>11. Complete(SetTop(stack, g), items, nodes, 0)
  BY <1>1, <1>2, <1>7, <1>9, <1>10, TopComplete
<1>12. Shapes(SetTop(stack, g)) = Shapes(stack) BY <1>1, <1>2, ShapesKept
<1> QED BY <1>6, <1>7, <1>11, <1>12 DEF Fits, f, g

(* More frames build and reach no less.                                    *)
LEMMA PushedComplete ==
  ASSUME NEW stk \in Seq(FrameType), NEW its, NEW nds, NEW loose,
         Complete(stk, its, nds, loose), NEW f \in FrameType
  PROVE  Complete(Append(stk, f), its, nds, loose)
<1> DEFINE new == Append(stk, f)
<1>1. \A i \in DOMAIN stk : i \in DOMAIN new /\ new[i] = stk[i] OBVIOUS
<1> HIDE DEF new
<1>2. Complete(new, its, nds, loose) BY <1>1 DEF Complete
<1> QED BY <1>2 DEF new

(* Every push: too deep, out of memory, or one frame more.                 *)
LEMMA OpenedMoves ==
  ASSUME Poised, text'[pos'] # "END",
         NEW stk, Good(stk, items, nodes), Sound(stk, items, nodes, pos'),
         Shapes(stk) = Shapes(stack), Len(stk) = Len(stack),
         NEW f \in FrameType, f.list = << >>, ~Collecting(f), ~Pending(f), ~Waiting(f),
         f.role # "ROOT", f.open + 1 <= pos', f.role = "CELL" => f.open + 2 <= pos',
         Owed(stk[Len(stk)], f, items),
         f.stretched <=> (stk[Len(stk)].stretched \/ f.env = "cases"),
         Complete(Append(stk, f), items, nodes, 0),
         Nest!OpenedBy(Shape(f), text'[pos']),
         NEW b, NEW e, b < e, e <= Len(text'), text'[e] # "END", Open(stk, f, b, e)
  PROVE  Moves
<1>1. CASE TooDeep(stk)
  <2>1. Refuse("group nesting too deep", b, e) BY <1>1 DEF Open
  <2> QED BY <2>1, RefusedMoves
<1>2. CASE ~TooDeep(stk)
  <2>1. OutOfMemory \/ Becomes(Append(stk, f), items, nodes) BY <1>2 DEF Open
  <2>2. CASE OutOfMemory BY <2>2, StarvedMoves
  <2>3. CASE Becomes(Append(stk, f), items, nodes)
    <3>1. pos' \in Nat BY DEF Poised
    <3>2. Sound(Append(stk, f), items, nodes, pos') BY <3>1, SoundPush
    <3>3. GrownItems(items, items) /\ GrownNodes(nodes, nodes) BY GrownStill
    <3>4. Fits(items, nodes, Append(stk, f), items, nodes, pos') BY <3>2, <3>3 DEF Fits
    <3>5. Onward /\ stack' = Append(stk, f) /\ result' = result BY <2>3, <3>4, BecameOnward
    <3>6. stk \in Seq(FrameType) /\ stk # << >> BY TopGood
    <3>7. Shapes(stack') = Append(Shapes(stack), Shape(f)) BY <3>5, <3>6, ShapesPushed
    <3>8. Len(stack) - 1 # DepthLimit BY <1>2 DEF TooDeep
    <3> QED BY <3>5, <3>7, <3>8 DEF Moves, Turn, Enters, Goes
  <2> QED BY <2>1, <2>2, <2>3
<1> QED BY <1>1, <1>2

(* What a token pushes under the frame it was read in.                     *)
LEMMA InsideFresh ==
  ASSUME Poised, NEW role \in Roles, NEW open \in Nat
  PROVE  LET f == Inside(role, Top, open) IN
           /\ f \in FrameType /\ f.role = role /\ f.list = << >> /\ ~f.text
           /\ ~Collecting(f) /\ ~Pending(f) /\ ~Waiting(f)
           /\ f.open = open /\ f.env = "NONE" /\ f.stretched = Top.stretched
<1>1. Top.face \in Faces /\ Top.stretched \in BOOLEAN BY PoisedParts DEF FrameType
<1>2. /\ Inside(role, Top, open).open = open /\ Inside(role, Top, open).env = "NONE"
      /\ Inside(role, Top, open).stretched = Top.stretched
  BY DEF Inside, Frame
<1> QED BY <1>1, <1>2, FreshFrame DEF Inside

(* The frame under a closed one is ready for what the closed one built.    *)
LEMMA ClosedReady ==
  ASSUME Poised, Math, Idle(Top), Top.role # "ROOT", Top.role # "SCRIPT"
  PROVE  Ready(Below(stack), items, nodes, pos', 0) /\ Len(stack) >= 2
<1>1. /\ Good(Below(stack), items, nodes) /\ Len(stack) >= 2
      /\ LET p == Below(stack)[Len(Below(stack))] IN
           PushedOn(p, Top) /\ Steady(p) /\ p \in FrameType
  BY PoisedParts, BelowGood
<1>2. Sound(Below(stack), items, nodes, pos') BY <1>1, PoisedParts, SoundPop
<1>3. Complete(Below(stack), items, nodes, 0)
  <2>1. \A k \in DOMAIN items : Reaches(stack[Len(stack)], k) => Whole(items[k])
    BY PoisedParts DEF Reaches, Idle
  <2>2. GrownItems(items, items) BY GrownStill
  <2> QED BY <1>1, <2>1, <2>2, PoisedParts, PopComplete
<1>4. 0 \notin DOMAIN nodes
  <2>1. nodes \in Seq(Built) BY PoisedParts DEF Good, Typed
  <2> QED BY <2>1
<1>5. MathRules(Below(stack)[Len(Below(stack))]) BY <1>1 DEF PushedOn, MathRules
<1> QED BY <1>1, <1>2, <1>3, <1>4, <1>5 DEF Ready

(* A construct allocated, not yet delivered.                               *)
LEMMA LooseReady ==
  ASSUME NEW stk, NEW its, NEW nds, NEW q \in Nat, Ready(stk, its, nds, q, 0),
         NEW node \in Built, Finished(node)
  PROVE  /\ Ready(stk, its, Append(nds, node), q, Len(nds) + 1)
         /\ GrownNodes(nds, Append(nds, node))
<1> DEFINE nds2 == Append(nds, node)
           n    == Len(nds) + 1
<1>1. /\ Good(stk, its, nds) /\ Sound(stk, its, nds, q) /\ Complete(stk, its, nds, 0)
      /\ MathRules(stk[Len(stk)]) /\ nds \in Seq(Built)
  BY DEF Ready, Good, Typed
<1>2. /\ GrownNodes(nds, nds2) /\ \A i \in DOMAIN nds : i \in DOMAIN nds2 /\ nds2[i] = nds[i]
      /\ nds2[n] = node /\ \A i \in DOMAIN nds2 : i \in DOMAIN nds \/ i = n
  BY <1>1, GrownByOne
<1>3. nds2 \in Seq(Built) /\ 0 \notin DOMAIN nds2 BY <1>1
<1> HIDE DEF nds2, n
<1>4. Good(stk, its, nds2) BY <1>1, <1>3, GoodNodes
<1>5. Sound(stk, its, nds2, q)
  <2>1. \A i \in DOMAIN stk : SameRefs(stk[i], its, nds, its, nds2)
    BY <1>1, <1>2 DEF Sound, Firm, Begun, SameRefs
  <2> QED BY <1>1, <2>1, SoundArenas
<1>6. Complete(stk, its, nds2, n)
  <2>1. GrownItems(its, its) BY GrownStill
  <2>2. \A i \in DOMAIN nds2 : (i \notin DOMAIN nds \/ i = 0) => i = n BY <1>2, <1>3
  <2> QED BY <1>1, <1>2, <2>1, <2>2, CompleteArenas
<1>7. Ready(stk, its, nds2, q, n) BY <1>1, <1>2, <1>4, <1>5, <1>6 DEF Ready
<1> QED BY <1>2, <1>7 DEF nds2, n

(* A delivery into the top frame.                                          *)
LEMMA DeliveredMoves ==
  ASSUME Poised, text'[pos'] # "END",
         NEW stk, NEW its, NEW construct \in Field, construct.kind # "EMPTY",
         NEW class \in Classes, Ready(stk, its, nodes, pos', construct.node),
         GrownItems(items, its), Shapes(stk) = Shapes(stack),
         Deliver(stk, its, nodes, construct, class)
  PROVE  Moves
<1>1. GrownNodes(nodes, nodes) BY GrownStill
<1>2. Onward /\ ((Goes /\ Shapes(stack') = Shapes(stk)) \/ Starves) BY <1>1, DeliverOnward
<1> QED BY <1>2 DEF Moves, Turn, Stays

(* A delivery of what the top frame held into the frame under it.          *)
LEMMA HandedDownMoves ==
  ASSUME Poised, text'[pos'] # "END", Len(stack) >= 2,
         Nest!ClosedBy(Shape(Top), text'[pos']),
         NEW nds, NEW construct \in Field, construct.kind # "EMPTY",
         NEW class \in Classes, Ready(Below(stack), items, nds, pos', construct.node),
         GrownNodes(nodes, nds),
         Deliver(Below(stack), items, nds, construct, class)
  PROVE  Moves
<1>1. GrownItems(items, items) BY GrownStill
<1>2. Onward /\ ((Goes /\ Shapes(stack') = Shapes(Below(stack))) \/ Starves)
  BY <1>1, DeliverOnward
<1> QED BY <1>2 DEF Moves, Turn, Leaves

-----------------------------------------------------------------------------
(***************************************************************************)
(* The handlers one by one: what each leaves fits, and takes one turn.     *)
(***************************************************************************)

(* A handler entered by a token that is not the end of the source.         *)
LEMMA TokenPoised ==
  ASSUME Standing, NEW t, t \in Source, t # "END", Scan(t)
  PROVE  /\ Poised /\ pos' = pos + 1
         /\ text'[pos'] = t /\ text'[pos'] # "END" /\ text'[pos + 1] # "END"
BY ScanPoised

(* A refusal of the token read.                                            *)
LEMMA TokenRefused ==
  ASSUME Standing, NEW t, t \in Source, t # "END", Scan(t), NEW what, Fail(what)
  PROVE  Poised /\ Moves
BY TokenPoised, FailedMoves

(* The source ends with nothing open.                                      *)
LEMMA AcceptMoves == ASSUME Standing, Accept PROVE Poised /\ Moves
<1>1. Scan("END") /\ Top.role = "ROOT" /\ Idle(Top) /\ Stop("OK", "", 0, 0) BY DEF Accept
<1>2. "END" \in Source BY AlphabetRead
<1>3. Poised /\ text'[pos'] = "END" BY <1>1, <1>2, ScanPoised
<1>4. Onward /\ stack' = stack /\ result'.status = "OK" BY <1>1, <1>3, StopOnward
<1>5. Len(stack) = 1
  <2> DEFINE n == Len(stack)
  <2>1. /\ stack \in Seq(FrameType) /\ stack # << >> /\ Disciplined(stack)
        /\ stack[n].role = "ROOT"
    BY <1>1, <1>3, PoisedParts, TopParts
  <2>2. n \in Nat /\ n >= 1 BY <2>1
  <2>3. n \in 2 .. n => stack[n].role # "ROOT" BY <2>1 DEF Disciplined, PushedOn
  <2> HIDE DEF n
  <2>4. n = 1 BY <2>1, <2>2, <2>3
  <2> QED BY <2>4 DEF n
<1> QED BY <1>1, <1>3, <1>4, <1>5 DEF Moves, Turn, Accepts

(* What the end of the source reports was read.                            *)
LEMMA UnfinishedDated ==
  ASSUME NEW f \in FrameType, NEW p \in Nat, Dated(f, p),
         ~(f.role = "ROOT" /\ Idle(f) /\ ~Waiting(f))
  PROVE  LET u == Unfinished(f) IN
           u[2] \in Nat /\ u[3] \in Nat /\ u[2] < u[3] /\ u[3] <= p
<1>1. /\ f.wait.at \in Nat /\ f.collect.begin \in Nat /\ f.open \in Nat
      /\ f.pending.mark \in Nat
  BY DEF FrameType, Wait, Collect, Script
<1> QED BY <1>1 DEF Unfinished, Dated, Idle

(* The source ends with something open.                                    *)
LEMMA EndTooEarlyMoves == ASSUME Standing, EndTooEarly PROVE Poised /\ Moves
<1> DEFINE u == Unfinished(Top)
<1>1. /\ Scan("END") /\ ~(Top.role = "ROOT" /\ Idle(Top) /\ ~Waiting(Top))
      /\ Refuse(u[1], u[2], u[3])
  BY DEF EndTooEarly
<1>2. "END" \in Source BY AlphabetRead
<1>3. Poised /\ pos' = pos + 1 BY <1>1, <1>2, ScanPoised
<1>4. Dated(Top, pos)
  <2>1. Good(stack, items, nodes) /\ Sound(stack, items, nodes, pos) BY DEF Standing, IInv
  <2> QED BY <2>1, TopFirm DEF Top, Firm
<1>5. /\ Top \in FrameType /\ pos \in Nat /\ pos' <= Len(text') /\ Len(text') \in Nat
  BY <1>3, PoisedParts
<1>6. u[2] \in Nat /\ u[3] \in Nat /\ u[2] < u[3] /\ u[3] <= pos
  BY <1>1, <1>4, <1>5, UnfinishedDated
<1> HIDE DEF u
<1>7. u[3] <= Len(text') /\ u[3] \in 1 .. pos' - 1 BY <1>3, <1>5, <1>6
<1>8. text'[u[3]] # "END" BY <1>3, <1>7 DEF Poised
<1>9. Moves BY <1>1, <1>3, <1>6, <1>7, <1>8, RefusedMoves
<1> QED BY <1>3, <1>9

(* The scanner rejects the source.                                         *)
LEMMA ScanErrorMoves == ASSUME Standing, ScanError PROVE Poised /\ Moves
<1>1. Scan("BAD") /\ Malformed(pos) BY DEF ScanError
<1>2. "BAD" \in Source /\ "BAD" # "END" BY AlphabetRead
<1>3. Poised /\ pos' = pos + 1 /\ text'[pos + 1] # "END" BY <1>1, <1>2, TokenPoised
<1>4. pos \in Nat /\ pos + 1 <= Len(text') BY <1>3, PoisedParts
<1> QED BY <1>1, <1>3, <1>4, MalformedMoves

(* A paragraph break.                                                      *)
LEMMA ParagraphBreakMoves == ASSUME Standing, ParagraphBreak PROVE Poised /\ Moves
<1>1. Scan("PAR") /\ Fail("unsupported paragraph break") BY DEF ParagraphBreak
<1>2. "PAR" \in Source /\ "PAR" # "END" BY AlphabetRead
<1> QED BY <1>1, <1>2, TokenRefused

(* A blank the math rules ignore.                                          *)
LEMMA MathBlankMoves == ASSUME Standing, MathBlank PROVE Poised /\ Moves
<1>1. Scan("SPACE") /\ UNCHANGED <<stack, items, nodes, result>> BY DEF MathBlank
<1>2. "SPACE" \in Source /\ "SPACE" # "END" BY AlphabetRead
<1>3. Poised /\ text'[pos'] # "END" BY <1>1, <1>2, TokenPoised
<1>4. Sound(stack, items, nodes, pos') /\ Complete(stack, items, nodes, 0)
  BY <1>3, PoisedParts
<1>5. GrownItems(items, items) /\ GrownNodes(nodes, nodes) BY GrownStill
<1>6. Becomes(stack, items, nodes) BY <1>1 DEF Becomes
<1>7. Fits(items, nodes, stack, items, nodes, pos') BY <1>4, <1>5 DEF Fits
<1> QED BY <1>3, <1>6, <1>7, BecameMoves

(* A space is whole, and content of the document rules.                    *)
LEMMA SpaceWhole == ASSUME NEW b, NEW e PROVE Whole(Space(b, e)) /\ Plain(Space(b, e))
<1>1. Space(b, e).kind = "SPACE" BY DEF Space, Atom
<1> QED BY <1>1 DEF Whole, Plain

(* Where the document rules hold nothing is pending or collected.          *)
LEMMA TextIdle == ASSUME Poised, ~MathRules(Top) PROVE Idle(Top)
BY PoisedParts DEF Steady

(* A word space.                                                           *)
LEMMA WordSpaceMoves == ASSUME Standing, WordSpace PROVE Poised /\ Moves
<1>1. Scan("SPACE") /\ ~MathRules(Top) /\ AppendItem(stack, Space(pos, pos + 1))
  BY DEF WordSpace
<1>2. "SPACE" \in Source /\ "SPACE" # "END" BY AlphabetRead
<1>3. Poised /\ text'[pos'] # "END" BY <1>1, <1>2, TokenPoised
<1>4. Space(pos, pos + 1) \in Item
  <2>1. IInv BY DEF Standing
  <2> QED BY <2>1, TopParts, SpaceTyped
<1>5. Idle(Top) BY <1>1, <1>3, TextIdle
<1> QED BY <1>1, <1>3, <1>4, <1>5, SpaceWhole, AppendedMoves

(* A spacing command appends a space.                                      *)
LEMMA SpacingCommandMoves ==
  ASSUME Standing, NEW t \in Alphabet, SpacingCommand(t) PROVE Poised /\ Moves
<1>1. Scan(t) /\ Idle(Top) /\ AppendItem(stack, Space(pos, pos + 1)) BY DEF SpacingCommand
<1>2. t \in Source /\ t # "END" BY AlphabetRead
<1>3. Poised /\ text'[pos'] # "END" BY <1>1, <1>2, TokenPoised
<1>4. Space(pos, pos + 1) \in Item
  <2>1. IInv BY DEF Standing
  <2> QED BY <2>1, TopParts, SpaceTyped
<1> QED BY <1>1, <1>3, <1>4, SpaceWhole, AppendedMoves

(* A glyph is a field with something in it.                                *)
LEMMA GlyphFilled ==
  ASSUME NEW t, NEW face PROVE Glyph(t, face).kind = "CHAR" /\ Glyph(t, face).node = 0
BY DEF Glyph, CharField, Empty

(* A glyph under the document rules is appended.                           *)
LEMMA TextGlyphMoves == ASSUME Standing, NEW t \in Alphabet, TextGlyph(t) PROVE Poised /\ Moves
<1> DEFINE glyph == Glyph(t, "FIXED")
           atom  == Atom("ORD", glyph)
<1>1. Scan(t) /\ ~MathRules(Top) /\ AppendItem(stack, atom) BY DEF TextGlyph
<1>2. t \in Source /\ t # "END" BY AlphabetRead
<1>3. Poised /\ text'[pos'] # "END" BY <1>1, <1>2, TokenPoised
<1>4. glyph \in Field /\ atom \in Item
  <2>1. IInv BY DEF Standing
  <2>2. "FIXED" \in Faces /\ "ORD" \in Classes BY DEF Faces, Classes
  <2>3. glyph \in Field BY <2>1, <2>2, GlyphTyped
  <2> QED BY <2>2, <2>3, AtomTyped
<1>5. glyph.kind = "CHAR" BY GlyphFilled
<1> HIDE DEF glyph
<1>6. Whole(atom) /\ Plain(atom) BY <1>5 DEF Whole, Plain, Atom, Empty
<1>7. Idle(Top) BY <1>1, <1>3, TextIdle
<1> QED BY <1>1, <1>3, <1>4, <1>6, <1>7, AppendedMoves

(* A token that is no delimiter where one is awaited.                      *)
LEMMA MissingDelimiterMoves ==
  ASSUME Standing, NEW t \in Alphabet, MissingDelimiter(t) PROVE Poised /\ Moves
<1>1. Scan(t) /\ Fail("missing delimiter") BY DEF MissingDelimiter, AwaitsDelimiter
<1> QED BY <1>1, AlphabetRead, TokenRefused

(* A token refused where an argument or a script is due.                   *)
LEMMA MissingArgumentMoves ==
  ASSUME Standing, NEW t \in Alphabet, MissingArgument(t) PROVE Poised /\ Moves
<1>1. Scan(t) /\ Fail("missing argument") BY DEF MissingArgument, MathToken
<1> QED BY <1>1, AlphabetRead, TokenRefused

(* A token outside the surface.                                            *)
LEMMA UnsupportedMoves ==
  ASSUME Standing, NEW t \in Alphabet, Unsupported(t) PROVE Poised /\ Moves
<1>1. Scan(t) /\ Fail("unsupported token") BY DEF Unsupported
<1> QED BY <1>1, AlphabetRead, TokenRefused

(* A row terminator outside an environment.                                *)
LEMMA MisplacedRowMoves == ASSUME Standing, MisplacedRow PROVE Poised /\ Moves
<1>1. Scan("\\\\") /\ Fail("misplaced \\\\") BY DEF MisplacedRow, Allowed, MathToken
<1>2. "\\\\" \in Source BY AlphabetRead
<1> QED BY <1>1, <1>2, TokenRefused

(* A closing brace that closes no group.                                   *)
LEMMA UnmatchedBraceMoves == ASSUME Standing, UnmatchedBrace PROVE Poised /\ Moves
<1>1. Scan("}") /\ \E what : Fail(what) BY DEF UnmatchedBrace, Allowed, MathToken
<1>2. "}" \in Source BY AlphabetRead
<1> QED BY <1>1, <1>2, TokenRefused

(* A glyph is delivered.                                                   *)
LEMMA GlyphTokenMoves ==
  ASSUME Standing, NEW t \in Alphabet, GlyphToken(t) PROVE Poised /\ Moves
<1> DEFINE glyph == Glyph(t, FaceOfGlyph(t))
<1>1. Scan(t) /\ MathRules(Top) /\ Deliver(stack, items, nodes, glyph, ClassOf(t))
  BY DEF GlyphToken, Allowed, MathToken
<1>2. Poised /\ text'[pos'] # "END" BY <1>1, AlphabetRead, TokenPoised
<1>3. FaceOfGlyph(t) \in Faces BY DEF FaceOfGlyph, Faces
<1>4. glyph \in Field BY <1>3, GlyphTyped DEF Standing
<1>5. glyph.kind # "EMPTY" /\ glyph.node = 0 BY GlyphFilled
<1>6. 0 \notin DOMAIN nodes
  <2>1. nodes \in Seq(Built) BY <1>2, PoisedParts DEF Good, Typed
  <2> QED BY <2>1
<1>7. Ready(stack, items, nodes, pos', 0) BY <1>1, <1>2, <1>6, PoisedParts DEF Ready
<1>8. GrownItems(items, items) BY GrownStill
<1> HIDE DEF glyph
<1> QED BY <1>1, <1>2, <1>4, <1>5, <1>7, <1>8, ClassTyped, DeliveredMoves

(* What a \left, a \right or a size command awaits.                        *)
LEMMA AskForDelimiterMoves ==
  ASSUME Standing, NEW t \in Alphabet, AskForDelimiter(t) PROVE Poised /\ Moves
<1> DEFINE kind == CASE t = "\\left" -> "LEFT" [] t = "\\right" -> "RIGHT"
                     [] OTHER -> "EXPLICIT"
           w == [kind |-> kind, at |-> pos, class |-> ClassOf(t)]
           g == [Top EXCEPT !.wait = w]
<1>1. Scan(t) /\ (Fail("unmatched \\right") \/ Becomes(SetTop(stack, g), items, nodes))
  BY DEF AskForDelimiter, MathToken
<1>2. Poised /\ pos' = pos + 1 /\ text'[pos'] # "END" BY <1>1, AlphabetRead, TokenPoised
<1>3. pos \in Nat BY <1>2, PoisedParts
<1>4. w \in Wait /\ w.at + 1 <= pos' BY <1>2, <1>3, ClassTyped DEF Wait
<1> HIDE DEF w
<1>5. CASE Fail("unmatched \\right") BY <1>1, <1>5, AlphabetRead, TokenRefused
<1>6. CASE Becomes(SetTop(stack, g), items, nodes)
  <2>1. /\ Fits(items, nodes, SetTop(stack, g), items, nodes, pos')
        /\ Shapes(SetTop(stack, g)) = Shapes(stack)
    BY <1>2, <1>4, WaitFits
  <2> QED BY <1>2, <1>6, <2>1, BecameMoves
<1> QED BY <1>1, <1>5, <1>6

(* The delimiter awaited has come: what the frame holds to is unchanged.   *)
LEMMA ServedFits ==
  ASSUME Poised, MathRules(Top)
  PROVE  LET stk == SetTop(stack, Served) IN
           /\ Good(stk, items, nodes) /\ Sound(stk, items, nodes, pos')
           /\ Complete(stk, items, nodes, 0) /\ Shapes(stk) = Shapes(stack)
           /\ Len(stk) = Len(stack) /\ stk[Len(stk)] = Served /\ Same(Top, Served)
           /\ stk \in Seq(FrameType)
<1> DEFINE stk == SetTop(stack, Served)
<1>1. /\ Good(stk, items, nodes) /\ Served \in FrameType /\ Same(Top, Served)
      /\ stk[Len(stk)] = Served
  BY ServedGood, PoisedParts
<1>2. NoWait \in Wait /\ NoWait.kind = "NONE" BY Absent DEF NoWait
<1>3. Fits(items, nodes, stk, items, nodes, pos') /\ Shapes(stk) = Shapes(stack)
  BY <1>2, WaitFits DEF Served
<1>4. Len(stk) = Len(stack) /\ stk \in Seq(FrameType) BY <1>1, PoisedParts, SetTopTyped
<1> QED BY <1>1, <1>3, <1>4 DEF Fits

(* The delimiter after a size command is delivered.                        *)
LEMMA SizedDelimiterMoves ==
  ASSUME Standing, NEW t \in Alphabet, SizedDelimiter(t) PROVE Poised /\ Moves
<1> DEFINE stk   == SetTop(stack, Served)
           field == NodeField("DELIMITER", 0, Top.wait.at, pos + 1)
<1>1. /\ Scan(t) /\ MathRules(Top)
      /\ Deliver(stk, items, nodes, field, Top.wait.class)
  BY DEF SizedDelimiter, AwaitsDelimiter
<1>2. Poised /\ text'[pos'] # "END" BY <1>1, AlphabetRead, TokenPoised
<1>3. /\ Good(stk, items, nodes) /\ Sound(stk, items, nodes, pos')
      /\ Complete(stk, items, nodes, 0) /\ Shapes(stk) = Shapes(stack)
      /\ stk[Len(stk)] = Served /\ Same(Top, Served)
  BY <1>1, <1>2, ServedFits
<1>4. IInv BY DEF Standing
<1>5. field \in Field /\ field.kind # "EMPTY" /\ field.node = 0
  <2>1. "DELIMITER" \in FieldKinds /\ 0 \in Nat BY DEF FieldKinds
  <2>2. field \in Field BY <1>4, <2>1, TopParts, NodeFieldTyped
  <2> QED BY <2>2 DEF NodeField, Empty
<1>6. 0 \notin DOMAIN nodes
  <2>1. nodes \in Seq(Built) BY <1>4, TopParts
  <2> QED BY <2>1
<1>7. Top.wait.class \in Classes BY <1>4, TopParts
<1> HIDE DEF stk, field
<1>8. MathRules(stk[Len(stk)]) BY <1>1, <1>3 DEF MathRules, Same
<1>9. Ready(stk, items, nodes, pos', 0) BY <1>3, <1>6, <1>8 DEF Ready
<1>10. GrownItems(items, items) BY GrownStill
<1> QED BY <1>1, <1>2, <1>3, <1>5, <1>7, <1>9, <1>10, DeliveredMoves

(* What is read up to a token that does not end the source is no end.      *)
LEMMA ReadToken ==
  ASSUME Poised, text'[pos'] # "END", NEW e \in Nat, 1 <= e, e <= pos'
  PROVE  e <= Len(text') /\ text'[e] # "END"
<1> DEFINE q == pos'
           n == Len(text')
<1>1. q \in Nat /\ q <= n /\ n \in Nat /\ e <= q BY PoisedParts
<1>2. \A i \in 1 .. q - 1 : text'[i] # "END" BY DEF Poised
<1> HIDE DEF q, n
<1>3. e <= n BY <1>1
<1>4. e \in 1 .. q - 1 \/ e = q BY <1>1
<1> QED BY <1>2, <1>3, <1>4 DEF q, n

(* The delimiter after \left pushes a fence.                               *)
LEMMA OpenFenceMoves == ASSUME Standing, NEW t \in Alphabet, OpenFence(t) PROVE Poised /\ Moves
<1> DEFINE stk == SetTop(stack, Served)
           at  == Top.wait.at
           f   == Inside("FENCED", Top, at)
<1>1. /\ Scan(t) /\ MathRules(Top) /\ Waiting(Top) /\ t \in Delimiters
      /\ Open(stk, f, at, at + 1)
  BY DEF OpenFence, AwaitsDelimiter
<1>2. Poised /\ text'[pos'] = t /\ text'[pos'] # "END" BY <1>1, AlphabetRead, TokenPoised
<1>3. /\ Good(stk, items, nodes) /\ Sound(stk, items, nodes, pos')
      /\ Complete(stk, items, nodes, 0) /\ Shapes(stk) = Shapes(stack)
      /\ Len(stk) = Len(stack) /\ stk[Len(stk)] = Served /\ Same(Top, Served)
      /\ stk \in Seq(FrameType)
  BY <1>1, <1>2, ServedFits
<1>4. at \in Nat /\ at + 1 <= pos'
  <2>1. at \in Nat BY TopParts DEF Standing
  <2>2. Dated(Top, pos') BY <1>2, PoisedParts DEF Firm
  <2> QED BY <1>1, <2>1, <2>2 DEF Dated
<1>5. "FENCED" \in Roles BY DEF Roles
<1> HIDE DEF Roles, at
<1>6. /\ f \in FrameType /\ f.role = "FENCED" /\ f.list = << >>
      /\ ~Collecting(f) /\ ~Pending(f) /\ ~Waiting(f)
      /\ f.open = at /\ f.env = "NONE" /\ f.stretched = Top.stretched
  BY <1>2, <1>4, <1>5, InsideFresh
<1> HIDE DEF f, stk
<1>7. Complete(Append(stk, f), items, nodes, 0) BY <1>3, <1>6, PushedComplete
<1>8. Owed(stk[Len(stk)], f, items) BY <1>6 DEF Owed
<1>9. Nest!OpenedBy(Shape(f), text'[pos']) BY <1>1, <1>2, <1>6 DEF Nest!OpenedBy, Shape
<1>10. f.stretched <=> (stk[Len(stk)].stretched \/ f.env = "cases")
  BY <1>3, <1>6 DEF Same
<1>11. at < at + 1 /\ at + 1 <= Len(text') /\ text'[at + 1] # "END"
  BY <1>2, <1>4, ReadToken
<1>12. Moves
  BY <1>1, <1>2, <1>3, <1>4, <1>6, <1>7, <1>8, <1>9, <1>10, <1>11, OpenedMoves
<1> QED BY <1>2, <1>12

(* The bracket after \sqrt pushes an index.                                *)
LEMMA OpenIndexMoves == ASSUME Standing, OpenIndex PROVE Poised /\ Moves
<1> DEFINE f == Inside("INDEX", Top, pos)
<1>1. Scan("[") /\ Open(stack, f, pos, pos + 1) BY DEF OpenIndex, MathToken
<1>2. "[" \in Source BY AlphabetRead
<1>3. Poised /\ pos' = pos + 1 /\ text'[pos'] = "[" /\ text'[pos'] # "END"
  BY <1>1, <1>2, TokenPoised
<1>4. /\ Good(stack, items, nodes) /\ Sound(stack, items, nodes, pos')
      /\ Complete(stack, items, nodes, 0) /\ stack \in Seq(FrameType)
      /\ Top = stack[Len(stack)] /\ pos \in Nat
  BY <1>3, PoisedParts
<1>5. "INDEX" \in Roles BY DEF Roles
<1> HIDE DEF Roles
<1>6. /\ f \in FrameType /\ f.role = "INDEX" /\ f.list = << >>
      /\ ~Collecting(f) /\ ~Pending(f) /\ ~Waiting(f)
      /\ f.open = pos /\ f.env = "NONE" /\ f.stretched = Top.stretched
  BY <1>3, <1>4, <1>5, InsideFresh
<1> HIDE DEF f
<1>7. Complete(Append(stack, f), items, nodes, 0) BY <1>4, <1>6, PushedComplete
<1>8. Owed(stack[Len(stack)], f, items) BY <1>6 DEF Owed
<1>9. Nest!OpenedBy(Shape(f), text'[pos']) BY <1>3, <1>6 DEF Nest!OpenedBy, Shape
<1>10. f.stretched <=> (stack[Len(stack)].stretched \/ f.env = "cases") BY <1>4, <1>6
<1>11. pos < pos + 1 /\ pos + 1 <= Len(text') /\ text'[pos + 1] # "END"
  BY <1>3, <1>4, ReadToken
<1>12. f.open + 1 <= pos' /\ f.role # "ROOT" /\ f.role # "CELL" BY <1>3, <1>4, <1>6
<1>13. Moves
  BY <1>1, <1>3, <1>4, <1>6, <1>7, <1>8, <1>9, <1>10, <1>11, <1>12, OpenedMoves
<1> QED BY <1>3, <1>13

(* The frame of a braced group, and the top frame it takes the mark of.    *)
LEMMA GroupTaken ==
  ASSUME Poised, pos' = pos + 1
  PROVE  LET f == GroupFrame(Top)
             p == [Top EXCEPT !.pending = NoScript]
         IN /\ f.role \in {"GROUP", "SCRIPT"} /\ (f.role = "SCRIPT" <=> Pending(Top))
            /\ f.script = Top.pending /\ f.open = pos /\ f.env = "NONE"
            /\ f.stretched = Top.stretched
            /\ ~Collecting(f) /\ ~Pending(f) /\ ~Waiting(f)
            /\ p \in FrameType /\ Same(Top, p) /\ p.list = Top.list
            /\ p.collect = Top.collect /\ ~Pending(p) /\ p.wait = Top.wait
<1>1. Top \in FrameType BY PoisedParts
<1> DEFINE p == [Top EXCEPT !.pending = NoScript]
           f == GroupFrame(Top)
<1>2. /\ p \in FrameType /\ Same(Top, p) /\ p.list = Top.list
      /\ p.collect = Top.collect /\ p.pending = NoScript /\ p.wait = Top.wait
  BY <1>1, PendingSet, Absent
<1>3. ~Pending(p) BY <1>2 DEF Pending, NoScript
<1>4. /\ f.role = IF Pending(Top) THEN "SCRIPT" ELSE "GROUP"
      /\ f.script = Top.pending /\ f.open = pos /\ f.env = "NONE"
      /\ f.stretched = Top.stretched /\ f.collect = NoCollect /\ f.pending = NoScript
      /\ f.wait = NoWait
  BY DEF GroupFrame, Frame
<1> HIDE DEF f, p
<1>5. ~Collecting(f) /\ ~Pending(f) /\ ~Waiting(f)
  BY <1>4 DEF Collecting, Pending, Waiting, NoCollect, NoScript, NoWait
<1> QED BY <1>2, <1>3, <1>4, <1>5 DEF f, p

(* An opening brace pushes a group, a script or a text.                    *)
LEMMA OpenGroupMoves == ASSUME Standing, OpenGroup PROVE Poised /\ Moves
<1> DEFINE f   == GroupFrame(Top)
           p   == [Top EXCEPT !.pending = NoScript]
           stk == SetTop(stack, p)
<1>1. /\ Scan("{") /\ MathRules(Top) /\ ~Waiting(Top)
      /\ Open(stk, f, pos, pos + 1)
  BY DEF OpenGroup, MathToken
<1>2. "{" \in Source BY AlphabetRead
<1>3. Poised /\ pos' = pos + 1 /\ text'[pos'] = "{" /\ text'[pos'] # "END"
  BY <1>1, <1>2, TokenPoised
<1>4. /\ Good(stack, items, nodes) /\ Sound(stack, items, nodes, pos')
      /\ Complete(stack, items, nodes, 0) /\ stack \in Seq(FrameType) /\ stack # << >>
      /\ Top = stack[Len(stack)] /\ Top \in FrameType /\ Firm(Top, items, nodes, pos')
      /\ pos \in Nat /\ pos' \in Nat /\ IInv
  BY <1>3, PoisedParts
<1>5. f \in FrameType /\ f.list = << >> /\ Good(stk, items, nodes)
  BY <1>1, <1>4, GroupFramed
<1>6. /\ f.role \in {"GROUP", "SCRIPT"} /\ (f.role = "SCRIPT" <=> Pending(Top))
      /\ f.script = Top.pending /\ f.open = pos /\ f.env = "NONE"
      /\ f.stretched = Top.stretched
      /\ ~Collecting(f) /\ ~Pending(f) /\ ~Waiting(f)
      /\ p \in FrameType /\ Same(Top, p) /\ p.list = Top.list
      /\ p.collect = Top.collect /\ ~Pending(p) /\ p.wait = Top.wait
  BY <1>3, GroupTaken
<1> HIDE DEF f, p
<1>7. Sound(stk, items, nodes, pos')
  <2>1. /\ Aimed(p, items) /\ (Building(p) => Begun(p.collect, nodes)) /\ Textual(p, items)
    BY <1>4, <1>6 DEF Firm, Aimed, OpenFor, Bare, Textual, Building, Collecting, Same, Tail1
  <2>2. Dated(p, pos') BY <1>4, <1>6 DEF Firm, Dated, Same, Collecting, Waiting
  <2>3. /\ Relisted(Top, p, items) /\ Rebuilt(Top, p, nodes)
        /\ ItemsBut(items, items, Top) /\ NodesBut(nodes, nodes, Top)
    BY <1>6 DEF Relisted, Rebuilt, ItemsBut, NodesBut, Building, Collecting
  <2> QED BY <1>4, <1>6, <2>1, <2>2, <2>3, TopSound
<1>8. stk[Len(stk)] = p /\ Len(stk) = Len(stack)
  <2>1. Len(stk) = Len(stack) /\ stk[Len(stack)] = p BY <1>4, <1>6, SetTopTyped
  <2> QED BY <2>1
<1>9. Shapes(stk) = Shapes(stack) BY <1>4, <1>6, ShapesKept
<1>10. Complete(Append(stk, f), items, nodes, 0)
  <2>1. \A n : Builds(Top, n) => Builds(p, n) BY <1>6 DEF Builds, Building, Collecting
  <2>2. \A k : Reaches(Top, k) => Reaches(p, k) \/ Reaches(f, k)
    BY <1>6 DEF Reaches, Collecting, Same
  <2> QED BY <1>4, <1>5, <1>6, <2>1, <2>2, PushComplete
<1>11. Owed(p, f, items)
  BY <1>4, <1>6 DEF Owed, Firm, Aimed, OpenFor, Tail1
<1>12. Nest!OpenedBy(Shape(f), text'[pos']) BY <1>3, <1>6 DEF Nest!OpenedBy, Shape
<1>13. f.stretched <=> (p.stretched \/ f.env = "cases") BY <1>6 DEF Same
<1>14. pos < pos + 1 /\ pos + 1 <= Len(text') /\ text'[pos + 1] # "END"
  <2>1. pos \in Nat BY <1>4
  <2>2. pos' = pos + 1 BY <1>3
  <2>3. pos + 1 \in Nat /\ 1 <= pos + 1 /\ pos + 1 <= pos' /\ pos < pos + 1 BY <2>1, <2>2
  <2> QED BY <1>3, <2>3, ReadToken
<1>15. f.open + 1 <= pos' /\ f.role # "ROOT" /\ f.role # "CELL"
  <2>1. f.open = pos /\ f.role \in {"GROUP", "SCRIPT"} BY <1>6
  <2>2. pos \in Nat BY <1>4
  <2>3. pos' = pos + 1 BY <1>3
  <2> QED BY <2>1, <2>2, <2>3
<1> HIDE DEF stk
<1>16. Moves
  BY <1>1, <1>3, <1>5, <1>6, <1>7, <1>8, <1>9, <1>10, <1>11, <1>12, <1>13, <1>14, <1>15,
     OpenedMoves
<1> QED BY <1>3, <1>16

(* The list of a closed group is a field with something in it.             *)
LEMMA GroupListFilled ==
  ASSUME IInv PROVE GroupList \in Field /\ GroupList.kind = "LIST" /\ GroupList.node = 0
<1>1. GroupList.kind = "LIST" /\ GroupList.node = 0 BY DEF GroupList, ListField, Empty
<1> QED BY <1>1, GroupListTyped

(* A group is closed: its list is handed to the frame under it.            *)
LEMMA GroupClosedMoves ==
  ASSUME Poised, text'[pos'] = "}", Math, Idle(Top), Top.role = "GROUP",
         Deliver(Below(stack), items, nodes, GroupList, "ORD")
  PROVE  Moves
<1>1. Ready(Below(stack), items, nodes, pos', 0) /\ Len(stack) >= 2 BY ClosedReady
<1>2. Nest!ClosedBy(Shape(Top), text'[pos']) BY DEF Nest!ClosedBy, Shape
<1>3. GrownNodes(nodes, nodes) BY GrownStill
<1>4. GroupList \in Field /\ GroupList.kind # "EMPTY" /\ GroupList.node = 0
  BY PoisedParts, GroupListFilled
<1>5. "ORD" \in Classes /\ text'[pos'] # "END" BY DEF Classes
<1> QED BY <1>1, <1>2, <1>3, <1>4, <1>5, HandedDownMoves

(* A closing brace pops a \text group and delivers it.                     *)
LEMMA CloseTextMoves == ASSUME Standing, CloseText PROVE Poised /\ Moves
<1>1. /\ Scan("}") /\ Math /\ Top.text
      /\ Deliver(Below(stack), items, nodes, GroupList, "ORD")
  BY DEF CloseText
<1>2. "}" \in Source BY AlphabetRead
<1>3. Poised /\ text'[pos'] = "}" BY <1>1, <1>2, TokenPoised
<1>4. Idle(Top) BY <1>1, <1>3, TextIdle DEF MathRules
<1>5. Top.role = "GROUP" BY <1>1, <1>3, PoisedParts, BelowGood DEF PushedOn
<1> QED BY <1>1, <1>3, <1>4, <1>5, GroupClosedMoves

(* A brace that closes something closes a frame with nothing left to do.   *)
LEMMA BraceIdle ==
  ASSUME Allowed("}") PROVE Scan("}") /\ Math /\ MathRules(Top) /\ Idle(Top)
BY DEF Allowed, MathToken, Refused, NeverScripts, Idle, MathRules

(* A closing brace pops a group and delivers it.                           *)
LEMMA CloseGroupMoves == ASSUME Standing, CloseGroup PROVE Poised /\ Moves
<1>1. /\ Allowed("}") /\ Top.role = "GROUP"
      /\ Deliver(Below(stack), items, nodes, GroupList, "ORD")
  BY DEF CloseGroup
<1>2. Scan("}") /\ Math /\ Idle(Top) BY <1>1, BraceIdle
<1>3. "}" \in Source BY AlphabetRead
<1>4. Poised /\ text'[pos'] = "}" BY <1>2, <1>3, TokenPoised
<1> QED BY <1>1, <1>2, <1>4, GroupClosedMoves

(* The delimiter after \right pops the fence and delivers it.              *)
LEMMA CloseFenceMoves == ASSUME Standing, NEW t \in Alphabet, CloseFence(t) PROVE Poised /\ Moves
<1> DEFINE node  == [Node("FENCED", Top.open) EXCEPT !.list = Top.list]
           field == NodeField("FENCED", Len(nodes) + 1, Top.open, pos + 1)
           nds   == Append(nodes, node)
<1>1. /\ Scan(t) /\ MathRules(Top) /\ t \in Delimiters /\ Top.wait.kind = "RIGHT"
      /\ OutOfMemory \/ Deliver(Below(stack), items, nds, field, "INNER")
  BY DEF CloseFence, AwaitsDelimiter
<1>2. Poised /\ text'[pos'] = t /\ text'[pos'] # "END" BY <1>1, AlphabetRead, TokenPoised
<1>3. Top.role = "FENCED" /\ Idle(Top) BY <1>1, <1>2, PoisedParts DEF Steady
<1>4. IInv BY DEF Standing
<1>5. node \in Built /\ Finished(node)
  <2>1. Node("FENCED", Top.open) \in Built BY <1>4, TopParts, NodeTyped
  <2>2. node \in Built BY <1>4, <2>1, TopParts DEF Built
  <2>3. node.kind = "FENCED" BY DEF Node
  <2> QED BY <2>2, <2>3 DEF Finished
<1>6. field \in Field /\ field.kind # "EMPTY" /\ field.node = Len(nodes) + 1
  <2>1. "FENCED" \in FieldKinds /\ Len(nodes) + 1 \in Nat BY <1>4, TopParts DEF FieldKinds
  <2>2. field \in Field BY <1>4, <2>1, TopParts, NodeFieldTyped
  <2> QED BY <2>2 DEF NodeField, Empty
<1> HIDE DEF node, field
<1>7. Ready(Below(stack), items, nodes, pos', 0) /\ Len(stack) >= 2
  BY <1>1, <1>2, <1>3, ClosedReady DEF MathRules
<1>8. pos' \in Nat BY <1>2, PoisedParts
<1>9. Ready(Below(stack), items, nds, pos', Len(nodes) + 1) /\ GrownNodes(nodes, nds)
  BY <1>5, <1>7, <1>8, LooseReady
<1>10. Nest!ClosedBy(Shape(Top), text'[pos']) BY <1>1, <1>2, <1>3 DEF Nest!ClosedBy, Shape
<1>11. "INNER" \in Classes BY DEF Classes
<1> HIDE DEF nds
<1>12. CASE OutOfMemory BY <1>2, <1>12, StarvedMoves
<1>13. CASE Deliver(Below(stack), items, nds, field, "INNER")
  <2>1. Moves BY <1>2, <1>6, <1>7, <1>9, <1>10, <1>11, <1>13, HandedDownMoves
  <2> QED BY <1>2, <2>1
<1> QED BY <1>1, <1>12, <1>13

(* A frame replaced by itself changes nothing.                             *)
LEMMA TopStill ==
  ASSUME NEW stk \in Seq(FrameType), stk # << >>
  PROVE  SetTop(stk, stk[Len(stk)]) = stk
BY DEF SetTop

(* A closing brace pops a script into its atom.                            *)
LEMMA CloseScriptMoves == ASSUME Standing, CloseScript PROVE Poised /\ Moves
<1> DEFINE its == FillScript(items, Top.script, GroupList)
           stk == Below(stack)
           b   == stk[Len(stk)]
<1>1. Allowed("}") /\ Top.role = "SCRIPT" /\ Becomes(stk, its, nodes) BY DEF CloseScript
<1>2. Scan("}") /\ Math /\ Idle(Top) BY <1>1, BraceIdle
<1>3. "}" \in Source BY AlphabetRead
<1>4. Poised /\ text'[pos'] = "}" /\ text'[pos'] # "END" BY <1>2, <1>3, TokenPoised
<1>5. /\ Good(stack, items, nodes) /\ Sound(stack, items, nodes, pos')
      /\ Complete(stack, items, nodes, 0) /\ stack \in Seq(FrameType)
      /\ Top = stack[Len(stack)] /\ pos' \in Nat /\ IInv /\ items \in Seq(Item)
  BY <1>4, PoisedParts, TopGood
<1>6. /\ Good(stk, items, nodes) /\ Len(stack) >= 2
      /\ PushedOn(b, Top) /\ b \in FrameType
  BY <1>1, <1>5, BelowGood
<1>7. Sound(stk, items, nodes, pos') /\ Owed(b, Top, items) BY <1>5, <1>6, SoundPop
<1>8. OpenFor(b, Top.script, items) BY <1>1, <1>7 DEF Owed
<1>9. /\ Firm(b, items, nodes, pos') /\ stk \in Seq(FrameType) /\ stk # << >>
      /\ \A j \in DOMAIN b.list : b.list[j] \in DOMAIN items
  BY <1>6, <1>7, TopFirm, TopGood
<1>10. GroupList \in Field /\ GroupList.kind # "EMPTY" BY <1>5, GroupListFilled
<1>11. Wrote(items, its, b, GroupList.node) BY <1>5, <1>6, <1>8, <1>9, <1>10, FilledOnce
<1>12. Idle(b) /\ MathRules(b) BY <1>1, <1>2, <1>6 DEF PushedOn, MathRules
<1> HIDE DEF its, stk, b
<1>13. /\ ItemsBut(items, its, b) /\ GrownItems(items, its) /\ DOMAIN its = DOMAIN items
       /\ Whole(its[Tail1(b)])
  BY <1>11 DEF Wrote
<1>14. Sound(stk, its, nodes, pos')
  <2>1. Aimed(b, its) /\ (Building(b) => Begun(b.collect, nodes)) /\ Textual(b, its)
    BY <1>12 DEF Aimed, Textual, Building, Idle, MathRules
  <2>2. Dated(b, pos') BY <1>9 DEF Firm
  <2>3. Relisted(b, b, items) /\ Rebuilt(b, b, nodes) /\ NodesBut(nodes, nodes, b) /\ Same(b, b)
    BY DEF Relisted, Rebuilt, NodesBut, Same
  <2>4. Sound(SetTop(stk, b), its, nodes, pos')
    BY <1>5, <1>6, <1>7, <1>13, <2>1, <2>2, <2>3, TopSound DEF b
  <2> QED BY <1>9, <2>4, TopStill DEF b
<1>15. Complete(stk, its, nodes, 0)
  <2>1. \A k \in DOMAIN its : Reaches(Top, k) => Whole(its[k])
    BY <1>2, <1>8, <1>13 DEF Reaches, Idle, OpenFor
  <2> QED BY <1>2, <1>5, <1>6, <1>13, <2>1, PopComplete DEF stk
<1>16. GrownNodes(nodes, nodes) BY GrownStill
<1>17. Fits(items, nodes, stk, its, nodes, pos') BY <1>13, <1>14, <1>15, <1>16 DEF Fits
<1>18. Onward /\ stack' = stk /\ result' = result BY <1>1, <1>17, BecameOnward
<1>19. Nest!ClosedBy(Shape(Top), text'[pos']) BY <1>1, <1>4 DEF Nest!ClosedBy, Shape
<1>20. Moves BY <1>4, <1>6, <1>18, <1>19 DEF Moves, Turn, Leaves, Goes, stk
<1> QED BY <1>4, <1>20

(* The closing bracket pops the index into its radical.                    *)
LEMMA CloseIndexMoves == ASSUME Standing, CloseIndex PROVE Poised /\ Moves
<1> DEFINE stk    == Below(stack)
           b      == stack[Len(stack) - 1]
           c      == b.collect
           index  == ListField(Top.list, Top.open, pos + 1)
           half   == [c EXCEPT !.second = TRUE]
           g      == [b EXCEPT !.collect = half]
           node   == [nodes[c.node] EXCEPT !.first = index]
           nds    == [nodes EXCEPT ![c.node] = node]
<1>1. Allowed("]") /\ Top.role = "INDEX" /\ Becomes(SetTop(stk, g), items, nds)
  BY DEF CloseIndex
<1>2. Scan("]") /\ MathRules(Top) /\ Idle(Top)
  BY <1>1 DEF Allowed, MathToken, Refused
<1>3. "]" \in Source BY AlphabetRead
<1>4. Poised /\ text'[pos'] = "]" /\ text'[pos'] # "END" BY <1>2, <1>3, TokenPoised
<1>5. /\ Good(stack, items, nodes) /\ Sound(stack, items, nodes, pos')
      /\ Complete(stack, items, nodes, 0) /\ stack \in Seq(FrameType)
      /\ Top = stack[Len(stack)] /\ pos' \in Nat /\ IInv
  BY <1>4, PoisedParts
<1>6. Len(stack) >= 2 /\ Good(stk, items, nodes) BY <1>1, <1>5, BelowGood
<1>7. stk[Len(stk)] = b
  <2>1. /\ Len(stk) = Len(stack) - 1 /\ \A i \in 1 .. Len(stack) - 1 : stk[i] = stack[i]
    BY <1>5, <1>6, BelowTyped
  <2>2. Len(stack) - 1 \in 1 .. Len(stack) - 1 BY <1>5, <1>6
  <2> QED BY <2>1, <2>2
<1>8. PushedOn(b, Top) /\ b \in FrameType BY <1>1, <1>5, <1>7, BelowGood
<1>9. Sound(stk, items, nodes, pos') BY <1>5, <1>6, SoundPop
<1>10. Firm(b, items, nodes, pos') /\ c \in Collect BY <1>6, <1>7, <1>9, TopFirm
<1>11. /\ Complete(stk, items, nodes, 0)
       /\ nodes \in Seq(Built) /\ stk \in Seq(FrameType) /\ stk # << >>
  <2>1. Ready(stk, items, nodes, pos', 0)
    BY <1>1, <1>2, <1>4, ClosedReady DEF MathRules
  <2> QED BY <1>6, <2>1, TopGood DEF Ready
<1> HIDE DEF stk, b
<1>12. c.kind = "RADICAL" /\ ~c.second BY <1>1, <1>8 DEF PushedOn, Collects
<1>13. /\ half \in Collect /\ half.kind = c.kind /\ half.node = c.node /\ half.begin = c.begin
       /\ half.item = c.item /\ half.script = c.script /\ half.second
  BY <1>10 DEF Collect
<1> HIDE DEF half
<1>14. /\ g \in FrameType /\ Same(b, g) /\ g.list = b.list
       /\ g.collect = half /\ g.pending = b.pending /\ g.wait = b.wait
  BY <1>8, <1>13, CollectSet
<1> HIDE DEF g
<1>15. Building(b) /\ Building(g) BY <1>12, <1>13, <1>14 DEF Building, Collecting
<1>16. /\ c.node \in DOMAIN nodes /\ nodes[c.node].kind = c.kind
       /\ nodes[c.node].last.kind = "EMPTY" /\ nodes[c.node].first.kind = "EMPTY"
  BY <1>10, <1>12, <1>15 DEF Firm, Begun
<1>17. /\ node.kind = nodes[c.node].kind /\ node.last = nodes[c.node].last
  <2>1. nodes[c.node] \in Built BY <1>11, <1>16
  <2> QED BY <2>1 DEF Built
<1> HIDE DEF node
<1>18. /\ DOMAIN nds = DOMAIN nodes /\ nds[c.node] = node
       /\ \A m \in DOMAIN nodes : m = c.node \/ nds[m] = nodes[m]
  BY <1>16
<1>19. GrownNodes(nodes, nds) BY <1>16, <1>17, GrownNodeAt DEF Kept
<1> HIDE DEF nds, c
<1>20. Sound(SetTop(stk, g), items, nds, pos')
  <2>1. Aimed(g, items) /\ Textual(g, items)
    BY <1>10, <1>13, <1>14 DEF Firm, Aimed, OpenFor, Bare, Textual, Collecting, Pending,
                                Same, Tail1, c
  <2>2. Begun(g.collect, nds)
    BY <1>12, <1>13, <1>14, <1>16, <1>17, <1>18 DEF Begun
  <2>3. Dated(g, pos')
    BY <1>10, <1>13, <1>14 DEF Firm, Dated, Same, Collecting, Pending, Waiting, c
  <2>4. /\ Relisted(b, g, items) /\ Rebuilt(b, g, nodes)
        /\ ItemsBut(items, items, b) /\ NodesBut(nodes, nds, b)
    BY <1>13, <1>14, <1>15, <1>18 DEF Relisted, Rebuilt, ItemsBut, NodesBut, c
  <2> QED BY <1>5, <1>6, <1>7, <1>9, <1>14, <2>1, <2>2, <2>3, <2>4, TopSound
<1>21. Complete(SetTop(stk, g), items, nds, 0)
  <2>1. \A n : Builds(b, n) => Builds(g, n)
    BY <1>13, <1>14, <1>15 DEF Builds, c
  <2>2. \A k : Reaches(b, k) => Reaches(g, k)
    BY <1>13, <1>14 DEF Reaches, Same, Collecting, Pending, c
  <2>3. \A n \in DOMAIN nds :
          (n \notin DOMAIN nodes \/ n = 0 \/ Builds(b, n))
            => (n = 0 \/ Builds(g, n) \/ Done(n, items, nds))
    BY <1>18, <2>1
  <2>4. \A k \in DOMAIN items :
          (k \notin DOMAIN items \/ Reaches(b, k)) => (Whole(items[k]) \/ Reaches(g, k))
    BY <2>2
  <2>5. GrownItems(items, items) BY GrownStill
  <2> QED BY <1>6, <1>7, <1>11, <1>14, <1>19, <2>3, <2>4, <2>5, TopComplete
<1>22. Fits(items, nodes, SetTop(stk, g), items, nds, pos')
  <2>1. GrownItems(items, items) BY GrownStill
  <2> QED BY <1>19, <1>20, <1>21, <2>1 DEF Fits
<1>23. Onward /\ stack' = SetTop(stk, g) /\ result' = result
  BY <1>1, <1>22, BecameOnward
<1>24. Shapes(stack') = Shapes(stk) BY <1>7, <1>11, <1>14, <1>23, ShapesKept
<1>25. Nest!ClosedBy(Shape(Top), text'[pos']) BY <1>1, <1>4 DEF Nest!ClosedBy, Shape
<1>26. Moves BY <1>4, <1>6, <1>23, <1>24, <1>25 DEF Moves, Turn, Leaves, Goes, stk
<1> QED BY <1>4, <1>26

(* Under the math rules: the top frame relisted, marked or made to collect.*)
LEMMA TopTurned ==
  ASSUME Poised, MathRules(Top), NEW g \in FrameType, Same(Top, g),
         Relisted(Top, g, items), Rebuilt(Top, g, nodes),
         NEW its, NEW nds, GrownItems(items, its), GrownNodes(nodes, nds),
         ItemsBut(items, its, Top), NodesBut(nodes, nds, Top),
         Aimed(g, its), Building(g) => Begun(g.collect, nds), Dated(g, pos'),
         \A n \in DOMAIN nds : (n \notin DOMAIN nodes \/ Builds(Top, n)) => Builds(g, n),
         \A k \in DOMAIN its : (k \notin DOMAIN items \/ Reaches(Top, k)) => Reaches(g, k)
  PROVE  /\ Fits(items, nodes, SetTop(stack, g), its, nds, pos')
         /\ Shapes(SetTop(stack, g)) = Shapes(stack)
<1>1. /\ Good(stack, items, nodes) /\ Sound(stack, items, nodes, pos')
      /\ Complete(stack, items, nodes, 0) /\ Top = stack[Len(stack)]
      /\ stack \in Seq(FrameType) /\ stack # << >> /\ pos' \in Nat
  BY PoisedParts
<1>2. Textual(g, its) BY DEF Textual, MathRules, Same
<1>3. Sound(SetTop(stack, g), its, nds, pos') BY <1>1, <1>2, TopSound
<1>4. 0 \notin DOMAIN nodes
  <2>1. nodes \in Seq(Built) BY <1>1 DEF Good, Typed
  <2> QED BY <2>1
<1>5. \A n \in DOMAIN nds :
        (n \notin DOMAIN nodes \/ n = 0 \/ Builds(Top, n))
          => (n = 0 \/ Builds(g, n) \/ Done(n, its, nds))
  OBVIOUS
<1>6. \A k \in DOMAIN its :
        (k \notin DOMAIN items \/ Reaches(Top, k)) => (Whole(its[k]) \/ Reaches(g, k))
  OBVIOUS
<1>7. Complete(SetTop(stack, g), its, nds, 0) BY <1>1, <1>5, <1>6, TopComplete
<1>8. Shapes(SetTop(stack, g)) = Shapes(stack) BY <1>1, ShapesKept
<1> QED BY <1>3, <1>7, <1>8 DEF Fits

(* A handler that only turns the top frame.                                *)
LEMMA TurnedMoves ==
  ASSUME Poised, text'[pos'] # "END", MathRules(Top), NEW g \in FrameType, Same(Top, g),
         Relisted(Top, g, items), Rebuilt(Top, g, nodes),
         NEW its, NEW nds, GrownItems(items, its), GrownNodes(nodes, nds),
         ItemsBut(items, its, Top), NodesBut(nodes, nds, Top),
         Aimed(g, its), Building(g) => Begun(g.collect, nds), Dated(g, pos'),
         \A n \in DOMAIN nds : (n \notin DOMAIN nodes \/ Builds(Top, n)) => Builds(g, n),
         \A k \in DOMAIN its : (k \notin DOMAIN items \/ Reaches(Top, k)) => Reaches(g, k),
         Becomes(SetTop(stack, g), its, nds)
  PROVE  Moves
<1>1. /\ Fits(items, nodes, SetTop(stack, g), its, nds, pos')
      /\ Shapes(SetTop(stack, g)) = Shapes(stack)
  BY TopTurned
<1> QED BY <1>1, BecameMoves

(* The list of the top frame closed into a cell.                           *)
LEMMA EmptiedMoves ==
  ASSUME Poised, text'[pos'] # "END", MathRules(Top), ~Waiting(Top), Idle(Top),
         NEW g \in FrameType, Same(Top, g), g.list = << >>,
         g.collect = Top.collect, g.pending = Top.pending, g.wait = Top.wait,
         Becomes(SetTop(stack, g), items, nodes)
  PROVE  Moves
<1>1. Firm(Top, items, nodes, pos') BY PoisedParts
<1>2. ~Collecting(g) /\ ~Pending(g) /\ ~Waiting(g) /\ ~Collecting(Top) /\ ~Pending(Top)
  BY DEF Idle, Collecting, Pending, Waiting
<1>3. Aimed(g, items) /\ (Building(g) => Begun(g.collect, nodes))
  BY <1>2 DEF Aimed, Building
<1>4. Dated(g, pos') BY <1>1, <1>2 DEF Firm, Dated, Same
<1>5. /\ Relisted(Top, g, items) /\ Rebuilt(Top, g, nodes)
      /\ ItemsBut(items, items, Top) /\ NodesBut(nodes, nodes, Top)
  BY <1>2 DEF Relisted, Rebuilt, ItemsBut, NodesBut, Building
<1>6. GrownItems(items, items) /\ GrownNodes(nodes, nodes) BY GrownStill
<1>7. /\ \A n \in DOMAIN nodes : (n \notin DOMAIN nodes \/ Builds(Top, n)) => Builds(g, n)
      /\ \A k \in DOMAIN items : (k \notin DOMAIN items \/ Reaches(Top, k)) => Reaches(g, k)
  BY <1>2 DEF Builds, Building, Reaches, Same
<1> QED BY <1>3, <1>4, <1>5, <1>6, <1>7, TurnedMoves

(* An alignment tab ends a cell.                                           *)
LEMMA AlignmentTabMoves == ASSUME Standing, AlignmentTab PROVE Poised /\ Moves
<1> DEFINE g == WithCell(Top, pos + 1)
<1>1. /\ Scan("&") /\ MathRules(Top) /\ ~Waiting(Top) /\ Idle(Top)
      /\ \/ Fail("misplaced alignment tab")
         \/ Fail("extra alignment tab")
         \/ OutOfMemory
         \/ Becomes(SetTop(stack, g), items, nodes)
  BY DEF AlignmentTab, Allowed, MathToken, Refused, NeverScripts, Idle
<1>2. "&" \in Source /\ "&" # "END" BY AlphabetRead
<1>3. Poised /\ text'[pos'] # "END" BY <1>1, <1>2, TokenPoised
<1>4. /\ g \in FrameType /\ Same(Top, g) /\ g.list = << >>
      /\ g.collect = Top.collect /\ g.pending = Top.pending /\ g.wait = Top.wait
  <2>1. IInv /\ pos + 1 \in Nat BY TopParts DEF Standing
  <2> QED BY <2>1, WithCellTyped
<1> HIDE DEF g
<1>5. CASE Becomes(SetTop(stack, g), items, nodes)
  <2>1. Moves BY <1>1, <1>3, <1>4, <1>5, EmptiedMoves
  <2> QED BY <1>3, <2>1
<1> QED BY <1>1, <1>2, <1>3, <1>5, TokenRefused, StarvedMoves

(* A lookahead is a token, or a blank and a token.                         *)
LEMMA LookaheadShort ==
  ASSUME NEW seen, NEW look \in Lookaheads(seen)
  PROVE  /\ look \in Seq(Source) /\ Len(look) \in Nat /\ (Len(look) = 1 \/ Len(look) = 2)
         /\ Len(look) = 2 => look[1] = "SPACE"
<1> HIDE DEF Source
<1>1. CASE \E t \in Scannable(seen) \ Blank : look = <<t>>
  <2>1. PICK t \in Source : look = <<t>> BY <1>1, TokensAreSource
  <2> QED BY <2>1
<1>2. CASE \E b \in Scannable(seen) \cap Blank, t \in Scannable(Append(seen, "SPACE")) :
             look = <<b, t>>
  <2>1. PICK b \in Source, t \in Source : look = <<b, t>> /\ b \in Blank
    BY <1>2, TokensAreSource
  <2>2. b = "SPACE" BY <2>1 DEF Blank
  <2> QED BY <2>1, <2>2
<1> QED BY <1>1, <1>2 DEF Lookaheads

(* Two sequences of tokens, one after the other.                           *)
LEMMA JoinedParts ==
  ASSUME NEW a \in Seq(Source), NEW b \in Seq(Source), Len(b) = 1 \/ Len(b) = 2
  PROVE  LET all == a \o b IN
           /\ all \in Seq(Source) /\ Len(all) = Len(a) + Len(b)
           /\ all[Len(a) + 1] = b[1] /\ all[Len(a) + Len(b)] = b[Len(b)]
           /\ \A i \in 1 .. Len(a) : all[i] = a[i]
<1> HIDE DEF Source
<1>1. a \o b \in Seq(Source) /\ Len(a \o b) = Len(a) + Len(b) OBVIOUS
<1>2. \A i \in 1 .. Len(a) : (a \o b)[i] = a[i] OBVIOUS
<1>3. (a \o b)[Len(a) + 1] = b[1] OBVIOUS
<1>4. (a \o b)[Len(a) + Len(b)] = b[Len(b)] OBVIOUS
<1> QED BY <1>1, <1>2, <1>3, <1>4

(* A row terminator, with what it has consumed and what it looked at.      *)
LEMMA RowEndedMoves ==
  ASSUME Standing, result.status = "RUNNING", MathRules(Top), ~Waiting(Top), Idle(Top),
         NEW seen \in Seq(Source), NEW consumed \in Nat, Len(seen) = consumed,
         pos + 1 <= consumed, \A i \in 1 .. consumed : seen[i] # "END",
         NEW look \in Lookaheads(seen), RowEnded(seen, consumed, look)
  PROVE  Poised /\ Moves
<1> DEFINE last == look[Len(look)]
           at   == Len(seen) + Len(look) - 1
           g    == WithRow(Top, consumed)
<1>1. /\ text' = seen \o look /\ pos' = consumed
      /\ \/ OutOfMemory
         \/ last = "BAD" /\ Malformed(at)
         \/ last = "[" /\ Refuse("unsupported row spacing", at, at + 1)
         \/ Becomes(SetTop(stack, g), items, nodes)
  BY DEF RowEnded
<1>2. /\ look \in Seq(Source) /\ Len(look) \in Nat /\ (Len(look) = 1 \/ Len(look) = 2)
      /\ Len(look) = 2 => look[1] = "SPACE"
  BY LookaheadShort
<1> DEFINE all == seen \o look
           m   == Len(look)
<1>3. /\ all \in Seq(Source) /\ Len(all) = consumed + m
      /\ all[consumed + 1] = look[1] /\ all[consumed + m] = last
      /\ \A i \in 1 .. consumed : all[i] = seen[i]
  BY <1>2, JoinedParts
<1>4. text' = all BY <1>1
<1>2a. m \in Nat /\ (m = 1 \/ m = 2) /\ (m = 2 => look[1] = "SPACE") BY <1>2
<1>8a. at = consumed + m - 1 OBVIOUS
<1> HIDE DEF Source, all, last, m, at
<1>8. at \in Nat /\ at + 1 = consumed + m /\ at < at + 1 BY <1>2a, <1>8a
<1>5. pos \in Nat /\ IInv /\ Good(stack, items, nodes) /\ Sound(stack, items, nodes, pos)
      /\ Complete(stack, items, nodes, 0)
  BY DEF Standing, IInv
<1>6. Poised
  <2>1. pos' \in Nat /\ pos + 1 <= pos' /\ text' \in Seq(Source) BY <1>1, <1>3, <1>4
  <2>2. Sound(stack, items, nodes, pos')
    <3>1. pos <= consumed BY <1>5
    <3> QED BY <1>1, <1>5, <3>1, SoundLater
  <2>3. ReadTo(all, consumed) BY <1>2a, <1>3 DEF ReadTo
  <2>4. \A i \in 1 .. consumed - 1 : all[i] # "END" BY <1>3
  <2> QED BY <1>1, <1>4, <1>5, <2>1, <2>2, <2>3, <2>4 DEF Poised
<1>7. text'[pos'] # "END"
  <2>1. consumed \in 1 .. consumed BY <1>5
  <2> QED BY <1>1, <1>3, <1>4, <2>1
<1>9. at + 1 <= Len(text') /\ text'[at + 1] = last BY <1>2a, <1>3, <1>4, <1>8
<1>10. /\ g \in FrameType /\ Same(Top, g) /\ g.list = << >>
       /\ g.collect = Top.collect /\ g.pending = Top.pending /\ g.wait = Top.wait
  BY <1>5, WithRowTyped
<1> HIDE DEF g
<1>11. CASE OutOfMemory BY <1>6, <1>11, StarvedMoves
<1>12. CASE last = "BAD" /\ Malformed(at) BY <1>6, <1>8, <1>9, <1>12, MalformedMoves
<1>13. CASE last = "[" /\ Refuse("unsupported row spacing", at, at + 1)
  BY <1>6, <1>8, <1>9, <1>13, RefusedMoves
<1>14. CASE Becomes(SetTop(stack, g), items, nodes)
  <2>1. Moves BY <1>6, <1>7, <1>10, <1>14, EmptiedMoves
  <2> QED BY <1>6, <2>1
<1> QED BY <1>1, <1>11, <1>12, <1>13, <1>14

(* A row terminator ends a row and scans ahead, past a star.               *)
LEMMA RowTerminatorMoves == ASSUME Standing, RowTerminator PROVE Poised /\ Moves
<1> DEFINE seen == With("\\\\")
<1>1. /\ result.status = "RUNNING" /\ Upcoming("\\\\")
      /\ MathRules(Top) /\ ~Waiting(Top) /\ Idle(Top)
  BY DEF RowTerminator
<1>2. PICK look \in Lookaheads(seen) :
        \/ RowEnded(seen, pos + 1, look)
        \/ /\ look[Len(look)] = "*"
           /\ \E more \in Lookaheads(seen \o look) :
                RowEnded(seen \o look, pos + 1 + Len(look), more)
  BY DEF RowTerminator
<1>3. /\ text \in Seq(Source) /\ pos \in Nat /\ ReadTo(text, pos)
      /\ \A i \in 1 .. pos : text[i] # "END"
  BY <1>1 DEF Standing, IInv, Reading
<1>4. "\\\\" \in Source /\ "\\\\" # "SPACE" BY AlphabetRead
<1> HIDE DEF Source
<1>5. /\ seen \in Seq(Source) /\ Len(seen) = pos + 1
      /\ seen[pos + 1] = "\\\\" /\ \A i \in 1 .. pos : seen[i] = text[i]
  BY <1>1, <1>3, <1>4, WithRead
<1> HIDE DEF seen
<1>6. \A i \in 1 .. pos + 1 : seen[i] # "END"
  <2> SUFFICES ASSUME NEW i \in 1 .. pos + 1 PROVE seen[i] # "END" OBVIOUS
  <2>1. i \in 1 .. pos \/ i = pos + 1 BY <1>3
  <2> QED BY <1>3, <1>5, <2>1
<1>7. CASE RowEnded(seen, pos + 1, look)
  <2>1. pos + 1 \in Nat /\ pos + 1 <= pos + 1 BY <1>3
  <2> QED BY <1>1, <1>5, <1>6, <1>7, <2>1, RowEndedMoves
<1>8. CASE /\ look[Len(look)] = "*"
           /\ \E more \in Lookaheads(seen \o look) :
                RowEnded(seen \o look, pos + 1 + Len(look), more)
  <2> DEFINE all == seen \o look
             n   == pos + 1 + Len(look)
  <2>1. PICK more \in Lookaheads(all) : RowEnded(all, n, more) BY <1>8
  <2>2. /\ look \in Seq(Source) /\ Len(look) \in Nat /\ (Len(look) = 1 \/ Len(look) = 2)
        /\ Len(look) = 2 => look[1] = "SPACE"
    BY LookaheadShort
  <2> DEFINE m == Len(look)
  <2>2a. /\ all \in Seq(Source) /\ Len(all) = Len(seen) + m
         /\ all[Len(seen) + 1] = look[1] /\ all[Len(seen) + m] = look[m]
         /\ \A i \in 1 .. Len(seen) : all[i] = seen[i]
    BY <1>5, <2>2, JoinedParts
  <2>2b. m \in Nat /\ (m = 1 \/ m = 2) /\ (m = 2 => look[1] = "SPACE") BY <2>2
  <2>2c. n = pos + 1 + m OBVIOUS
  <2> HIDE DEF all, n, m
  <2>2d. n \in Nat /\ pos + 1 <= n /\ (n = pos + 2 \/ n = pos + 3) BY <1>3, <2>2b, <2>2c
  <2>2e. m = 2 <=> n # pos + 2 BY <1>3, <2>2b, <2>2c
  <2>3. /\ all \in Seq(Source) /\ Len(all) = n
        /\ \A i \in 1 .. pos + 1 : all[i] = seen[i]
        /\ all[pos + 2] = look[1] /\ all[n] = look[m]
    <3>1. Len(seen) + 1 = pos + 2 /\ Len(seen) + m = n BY <1>3, <1>5, <2>2b, <2>2c
    <3> QED BY <1>5, <2>2a, <3>1
  <2>4. n = pos + 2 \/ n = pos + 3 BY <2>2d
  <2>5. ASSUME NEW i \in 1 .. n PROVE all[i] # "END"
    <3>1. i \in 1 .. pos + 1 \/ i = pos + 2 \/ i = n BY <1>3, <2>4
    <3>2. all[n] = "*" BY <1>8, <2>3 DEF m
    <3>3. n # pos + 2 => all[pos + 2] = "SPACE" BY <2>2b, <2>2e, <2>3
    <3> QED BY <1>6, <2>3, <3>1, <3>2, <3>3
  <2> QED BY <1>1, <2>1, <2>2d, <2>3, <2>5, RowEndedMoves
<1> QED BY <1>2, <1>7, <1>8

(* A handler entered by \begin or \end and the name after it.              *)
LEMMA NamedEntered ==
  ASSUME Standing, NEW t \in {"\\begin", "\\end"}, NEW name \in Named, ScanNamed(t, name)
  PROVE  /\ Poised /\ pos \in Nat /\ pos' = pos + 2 /\ Len(text') = pos + 2
         /\ text'[pos + 1] # "END" /\ text'[pos + 2] = name /\ text'[pos'] = name
<1>1. t \in Source \ {"SPACE", "END"} /\ name \in Source BY AlphabetRead
<1> HIDE DEF Source
<1>2. /\ Poised /\ pos' = pos + 2 /\ Len(text') = pos + 2
      /\ text'[pos + 1] = t /\ text'[pos + 2] = name
  BY <1>1, NamedPoised
<1>3. pos \in Nat BY <1>2, PoisedParts
<1> QED BY <1>1, <1>2, <1>3

(* The command and its name are refused.                                   *)
LEMMA NamedRefused ==
  ASSUME Poised, pos \in Nat, Len(text') = pos + 2, text'[pos + 1] # "END",
         NEW name, text'[pos + 2] = name,
         \/ \E what : Fail(what)
         \/ name = "BAD" /\ BadName
         \/ name # "END" /\ \E what : Refuse(what, pos, pos + 2)
  PROVE  Moves
<1>1. /\ pos + 2 <= Len(text') /\ pos + 1 + 1 <= Len(text')
      /\ pos < pos + 2 /\ pos + 1 < pos + 2 /\ pos + 1 + 1 = pos + 2 /\ pos + 1 \in Nat
  OBVIOUS
<1>2. CASE \E what : Fail(what) BY <1>2, FailedMoves
<1>3. CASE name = "BAD" /\ BadName
  <2>1. text'[pos + 2] # "END" BY <1>3
  <2>2. CASE Refuse("missing environment name", pos + 1, pos + 2)
    BY <1>1, <2>1, <2>2, RefusedMoves
  <2>3. CASE Malformed(pos + 1) BY <1>1, <2>1, <2>3, MalformedMoves
  <2> QED BY <1>3, <2>2, <2>3 DEF BadName
<1>4. CASE name # "END" /\ \E what : Refuse(what, pos, pos + 2)
  BY <1>1, <1>4, RefusedMoves
<1> QED BY <1>2, <1>3, <1>4

(* \begin pushes a cell.                                                   *)
LEMMA BeginEnvironmentMoves ==
  ASSUME Standing, NEW name \in Named, BeginEnvironment(name)
  PROVE  Poised /\ Moves
<1> DEFINE base == Inside("CELL", Top, pos)
           stretched == base.stretched \/ Stretches(name)
           f == [base EXCEPT !.env = name, !.stretched = stretched, !.cellStart = pos + 2]
<1>1. /\ ScanNamed("\\begin", name)
      /\ \/ Fail("missing environment name")
         \/ name = "BAD" /\ BadName
         \/ name # "END" /\ Refuse("unsupported environment", pos, pos + 2)
         \/ name \notin {"END", "BAD", "unknown"} /\ Open(stack, f, pos, pos + 2)
  BY DEF BeginEnvironment
<1>2. /\ Poised /\ pos \in Nat /\ pos' = pos + 2 /\ Len(text') = pos + 2
      /\ text'[pos + 1] # "END" /\ text'[pos + 2] = name /\ text'[pos'] = name
  BY <1>1, NamedEntered
<1>3. CASE name \notin {"END", "BAD", "unknown"} /\ Open(stack, f, pos, pos + 2)
  <2>1. "CELL" \in Roles BY DEF Roles
  <2>2. /\ base \in FrameType /\ base.role = "CELL" /\ base.list = << >>
        /\ ~Collecting(base) /\ ~Pending(base) /\ ~Waiting(base)
        /\ base.open = pos /\ base.stretched = Top.stretched
    BY <1>2, <2>1, InsideFresh
  <2>3. name \in Environments BY <1>3, NamedEnvironment
  <2>4. stretched \in BOOLEAN /\ (stretched <=> (Top.stretched \/ name = "cases"))
    <3>1. Top.stretched \in BOOLEAN BY <1>2, PoisedParts DEF FrameType
    <3> QED BY <2>2, <3>1 DEF Stretches
  <2>5. pos + 2 \in Nat BY <1>2
  <2> HIDE DEF stretched, base
  <2>6. /\ f \in FrameType /\ f.role = "CELL" /\ f.list = << >> /\ f.open = pos
        /\ f.collect = base.collect /\ f.pending = base.pending /\ f.wait = base.wait
        /\ f.env = name /\ f.stretched = stretched
    <3> HIDE DEF f, Environments
    <3> QED BY <2>2, <2>3, <2>4, <2>5 DEF FrameType, f
  <2> HIDE DEF f
  <2>7. ~Collecting(f) /\ ~Pending(f) /\ ~Waiting(f)
    BY <2>2, <2>6 DEF Collecting, Pending, Waiting
  <2>8. /\ Good(stack, items, nodes) /\ Sound(stack, items, nodes, pos')
        /\ Complete(stack, items, nodes, 0) /\ stack \in Seq(FrameType)
        /\ Top = stack[Len(stack)]
    BY <1>2, PoisedParts
  <2>9. Complete(Append(stack, f), items, nodes, 0) BY <2>6, <2>8, PushedComplete
  <2>10. Owed(stack[Len(stack)], f, items) BY <2>6 DEF Owed
  <2>11. Nest!OpenedBy(Shape(f), text'[pos'])
    BY <1>2, <2>3, <2>6 DEF Nest!OpenedBy, Shape
  <2>12. f.stretched <=> (stack[Len(stack)].stretched \/ f.env = "cases") BY <2>4, <2>6, <2>8
  <2>13. pos < pos + 2 /\ pos + 2 <= Len(text') /\ text'[pos + 2] # "END" /\ text'[pos'] # "END"
    BY <1>2, <1>3
  <2>14. f.open + 1 <= pos' /\ f.open + 2 <= pos' /\ f.role # "ROOT" BY <1>2, <2>6
  <2>15. Moves
    BY <1>2, <1>3, <2>6, <2>7, <2>8, <2>9, <2>10, <2>11, <2>12, <2>13, <2>14, OpenedMoves
  <2> QED BY <1>2, <2>15
<1> QED BY <1>1, <1>2, <1>3, NamedRefused

(* \end pops a cell and delivers its array.                                *)
LEMMA EndEnvironmentMoves ==
  ASSUME Standing, NEW name \in Named, EndEnvironment(name)
  PROVE  Poised /\ Moves
<1> DEFINE rows  == LastRow(Top).rows
           strut == Strut(Top)
           base  == Node("ARRAY", Top.open)
           node  == [base EXCEPT !.rows = rows, !.strut = strut]
           field == NodeField("ARRAY", Len(nodes) + 1, Top.open, pos + 2)
           class == ArrayClass(Top.env)
           nds   == Append(nodes, node)
<1>1. /\ ScanNamed("\\end", name) /\ MathRules(Top) /\ Idle(Top)
      /\ \/ Fail("missing environment name")
         \/ name = "BAD" /\ BadName
         \/ name # "END" /\ Refuse("unmatched \\end", pos, pos + 2)
         \/ name # "END" /\ Refuse("mismatched \\end", pos, pos + 2)
         \/ OutOfMemory
         \/ /\ name # "END" /\ Top.role = "CELL" /\ name = Top.env
            /\ Deliver(Below(stack), items, nds, field, class)
  BY DEF EndEnvironment
<1>2. /\ Poised /\ pos \in Nat /\ pos' = pos + 2 /\ Len(text') = pos + 2
      /\ text'[pos + 1] # "END" /\ text'[pos + 2] = name /\ text'[pos'] = name
  BY <1>1, NamedEntered
<1>3. CASE /\ name # "END" /\ Top.role = "CELL" /\ name = Top.env
           /\ Deliver(Below(stack), items, nds, field, class)
  <2>0. IInv BY DEF Standing
  <2>1. rows \in Seq(Seq(Cell))
    <3>1. Top.cellStart \in Nat /\ Top.rows \in Seq(Seq(Cell)) BY <2>0, TopParts DEF FrameType
    <3>2. WithRow(Top, Top.cellStart) \in FrameType BY <2>0, <3>1, WithRowTyped
    <3>3. WithRow(Top, Top.cellStart).rows \in Seq(Seq(Cell)) BY <3>2 DEF FrameType
    <3> QED BY <3>1, <3>3 DEF LastRow
  <2>2. strut \in Struts BY DEF Strut, Struts
  <2>3. base \in Built /\ base.kind = "ARRAY" BY <2>0, TopParts, NodeTyped DEF Node
  <2>4. class \in Classes BY DEF ArrayClass, Classes
  <2>5. field \in Field /\ field.kind # "EMPTY" /\ field.node = Len(nodes) + 1
    <3>1. "ARRAY" \in FieldKinds /\ Len(nodes) + 1 \in Nat BY <2>0, TopParts DEF FieldKinds
    <3>2. field \in Field BY <2>0, <3>1, TopParts, NodeFieldTyped
    <3> QED BY <3>2 DEF NodeField, Empty
  <2> HIDE DEF rows, strut, base, field, class
  <2>6. node \in Built /\ node.kind = "ARRAY" BY <2>1, <2>2, <2>3 DEF Built
  <2> HIDE DEF node
  <2>7. Finished(node) BY <2>6 DEF Finished
  <2>8. Ready(Below(stack), items, nodes, pos', 0) /\ Len(stack) >= 2
    BY <1>1, <1>2, <1>3, ClosedReady DEF MathRules
  <2>9. pos' \in Nat BY <1>2, PoisedParts
  <2>10. Ready(Below(stack), items, nds, pos', Len(nodes) + 1) /\ GrownNodes(nodes, nds)
    BY <2>6, <2>7, <2>8, <2>9, LooseReady
  <2>11. Nest!ClosedBy(Shape(Top), text'[pos']) /\ text'[pos'] # "END"
    BY <1>2, <1>3 DEF Nest!ClosedBy, Shape
  <2> HIDE DEF nds
  <2>12. Moves BY <1>2, <1>3, <2>4, <2>5, <2>8, <2>10, <2>11, HandedDownMoves
  <2> QED BY <1>2, <2>12
<1>4. CASE OutOfMemory BY <1>2, <1>4, StarvedMoves
<1> QED BY <1>1, <1>2, <1>3, <1>4, NamedRefused

(* The top frame replaced twice.                                           *)
LEMMA SetTopTwice ==
  ASSUME NEW stk \in Seq(FrameType), stk # << >>, NEW f \in FrameType, NEW g \in FrameType
  PROVE  SetTop(SetTop(stk, f), g) = SetTop(stk, g)
<1>1. Len(SetTop(stk, f)) = Len(stk) BY SetTopTyped
<1> DEFINE n == Len(stk)
<1>2. SetTop(SetTop(stk, f), g) = [[stk EXCEPT ![n] = f] EXCEPT ![n] = g] BY <1>1 DEF SetTop
<1> QED BY <1>2 DEF SetTop

(* The top frame with the item just allocated at the end of its list.      *)
LEMMA LinkedTop ==
  ASSUME Poised
  PROVE  LET f == [Top EXCEPT !.list = Append(@, Len(items) + 1)] IN
           /\ Linked(stack, items) = SetTop(stack, f)
           /\ Linked(stack, items)[Len(Linked(stack, items))] = f
           /\ f \in FrameType /\ Same(Top, f)
           /\ f.list = Append(Top.list, Len(items) + 1)
           /\ f.list # << >> /\ f.list[Len(f.list)] = Len(items) + 1
           /\ f.collect = Top.collect /\ f.pending = Top.pending /\ f.wait = Top.wait
<1> DEFINE list == Append(Top.list, Len(items) + 1)
           f    == [Top EXCEPT !.list = list]
<1>1. /\ Top \in FrameType /\ Top.list \in Seq(Nat) /\ stack \in Seq(FrameType)
      /\ stack # << >> /\ items \in Seq(Item) /\ Top = stack[Len(stack)]
  BY PoisedParts, TopParts
<1>2. list \in Seq(Nat) /\ list # << >> /\ list[Len(list)] = Len(items) + 1 BY <1>1
<1>3. Linked(stack, items) = SetTop(stack, f) BY <1>1 DEF Linked
<1> HIDE DEF list
<1>4. /\ f \in FrameType /\ Same(Top, f) /\ f.list = list
      /\ f.collect = Top.collect /\ f.pending = Top.pending /\ f.wait = Top.wait
  BY <1>1, <1>2, ListSet
<1> HIDE DEF f
<1>5. SetTop(stack, f)[Len(SetTop(stack, f))] = f
  <2>1. Len(SetTop(stack, f)) = Len(stack) /\ SetTop(stack, f)[Len(stack)] = f
    BY <1>1, <1>4, SetTopTyped
  <2> QED BY <2>1
<1> QED BY <1>2, <1>3, <1>4, <1>5 DEF f, list

(* A script mark marks the last atom, or an empty one of its own.          *)
LEMMA ScriptMarkMoves == ASSUME Standing, NEW t \in Alphabet, ScriptMark(t) PROVE Poised /\ Moves
<1> DEFINE kind == IF t = "^" THEN "SUP" ELSE "SUB"
           m(target) == [kind |-> kind, target |-> target, mark |-> pos]
           more == Append(items, Atom("ORD", Empty(pos)))
           f2   == [Top EXCEPT !.list = Append(@, Len(items) + 1)]
           g1   == [Top EXCEPT !.pending = m(Tail1(Top))]
           g2   == [f2 EXCEPT !.pending = m(Len(items) + 1)]
<1>1. /\ Scan(t) /\ MathRules(Top) /\ ~Waiting(Top) /\ Idle(Top)
  BY DEF ScriptMark, Allowed, MathToken, Refused, NeverScripts, Idle
<1>2. Poised /\ pos' = pos + 1 /\ text'[pos'] # "END" BY <1>1, AlphabetRead, TokenPoised
<1>3. /\ Linked(stack, items) = SetTop(stack, f2)
      /\ Linked(stack, items)[Len(Linked(stack, items))] = f2
      /\ f2 \in FrameType /\ Same(Top, f2)
      /\ f2.list = Append(Top.list, Len(items) + 1)
      /\ f2.list # << >> /\ f2.list[Len(f2.list)] = Len(items) + 1
      /\ f2.collect = Top.collect /\ f2.pending = Top.pending /\ f2.wait = Top.wait
  BY <1>2, LinkedTop
<1>4. \/ Fail("double script")
      \/ /\ HasAtomTail(Top) /\ ScriptField(TailItem(Top), kind).kind = "EMPTY"
         /\ Becomes(SetTop(stack, g1), items, nodes)
      \/ OutOfMemory
      \/ Becomes(SetTop(SetTop(stack, f2), g2), more, nodes)
  BY <1>3 DEF ScriptMark, Top
<1>5. /\ Top \in FrameType /\ Top.list \in Seq(Nat) /\ pos \in Nat /\ pos' \in Nat
      /\ items \in Seq(Item) /\ stack \in Seq(FrameType) /\ stack # << >>
      /\ Firm(Top, items, nodes, pos')
      /\ \A j \in DOMAIN Top.list : Top.list[j] \in DOMAIN items
  BY <1>2, PoisedParts, TopParts
<1>6. kind \in {"SUP", "SUB"} /\ \A n \in Nat : m(n) \in Script
  BY <1>5 DEF Script
<1>7. \A n : m(n).kind = kind /\ m(n).target = n /\ m(n).mark = pos OBVIOUS
<1> HIDE DEF m, kind, f2
<1>8. ~Collecting(Top) /\ ~Pending(Top) BY <1>1 DEF Idle
<1>9. ASSUME NEW f \in FrameType, Same(Top, f), f.collect = Top.collect, f.wait = Top.wait,
             NEW n \in Nat, NEW g, g = [f EXCEPT !.pending = m(n)]
      PROVE  /\ g \in FrameType /\ Same(Top, g) /\ g.list = f.list
             /\ g.pending = m(n) /\ ~Collecting(g) /\ ~Waiting(g) /\ Pending(g)
             /\ Dated(g, pos') /\ \A k : Reaches(Top, k) => Reaches(g, k)
  <2>1. /\ g \in FrameType /\ Same(f, g) /\ g.list = f.list
        /\ g.collect = Top.collect /\ g.pending = m(n) /\ g.wait = Top.wait
    BY <1>6, <1>9, PendingSet
  <2>2. Same(Top, g) BY <1>9, <2>1 DEF Same
  <2>3. ~Collecting(g) /\ ~Waiting(g) /\ Pending(g)
    BY <1>1, <1>6, <1>7, <1>8, <2>1 DEF Collecting, Waiting, Pending
  <2>4. g.pending.mark + 1 <= pos' BY <1>2, <1>5, <1>7, <2>1
  <2>5. Dated(g, pos') BY <1>5, <2>2, <2>3, <2>4 DEF Firm, Dated, Same
  <2>6. \A k : Reaches(Top, k) => Reaches(g, k) BY <1>8, <2>2 DEF Reaches, Same
  <2> QED BY <2>1, <2>2, <2>3, <2>5, <2>6
<1>10. CASE Fail("double script") BY <1>1, <1>10, AlphabetRead, TokenRefused
<1>11. CASE OutOfMemory BY <1>2, <1>11, StarvedMoves
<1>12. CASE /\ HasAtomTail(Top) /\ ScriptField(TailItem(Top), kind).kind = "EMPTY"
            /\ Becomes(SetTop(stack, g1), items, nodes)
  <2>1. Tail1(Top) \in Nat /\ Top.list # << >> BY <1>5, <1>12 DEF HasAtomTail, Tail1
  <2>2. Same(Top, Top) BY DEF Same
  <2>3. /\ g1 \in FrameType /\ Same(Top, g1) /\ g1.list = Top.list
        /\ g1.pending = m(Tail1(Top)) /\ ~Collecting(g1) /\ ~Waiting(g1) /\ Pending(g1)
        /\ Dated(g1, pos') /\ \A k : Reaches(Top, k) => Reaches(g1, k)
    BY <1>5, <1>9, <2>1, <2>2
  <2> HIDE DEF g1
  <2>4. Aimed(g1, items)
    BY <1>7, <1>12, <2>1, <2>3 DEF Aimed, OpenFor, HasAtomTail, TailItem, Tail1
  <2>5. /\ Relisted(Top, g1, items) /\ Rebuilt(Top, g1, nodes) /\ ~Building(g1)
        /\ ItemsBut(items, items, Top) /\ NodesBut(nodes, nodes, Top) /\ ~Building(Top)
    BY <1>8, <2>3 DEF Relisted, Rebuilt, ItemsBut, NodesBut, Building
  <2>6. GrownItems(items, items) /\ GrownNodes(nodes, nodes) BY GrownStill
  <2>7. /\ \A n \in DOMAIN nodes : (n \notin DOMAIN nodes \/ Builds(Top, n)) => Builds(g1, n)
        /\ \A k \in DOMAIN items : (k \notin DOMAIN items \/ Reaches(Top, k)) => Reaches(g1, k)
    BY <2>3, <2>5 DEF Builds
  <2>8. Moves BY <1>1, <1>2, <1>12, <2>3, <2>4, <2>5, <2>6, <2>7, TurnedMoves
  <2> QED BY <1>2, <2>8
<1>13. CASE Becomes(SetTop(SetTop(stack, f2), g2), more, nodes)
  <2>1. Len(items) + 1 \in Nat BY <1>5
  <2>2. /\ g2 \in FrameType /\ Same(Top, g2) /\ g2.list = f2.list
        /\ g2.pending = m(Len(items) + 1) /\ ~Collecting(g2) /\ ~Waiting(g2) /\ Pending(g2)
        /\ Dated(g2, pos') /\ \A k : Reaches(Top, k) => Reaches(g2, k)
    BY <1>3, <1>9, <2>1
  <2> HIDE DEF g2
  <2>3. Becomes(SetTop(stack, g2), more, nodes) BY <1>3, <1>5, <1>13, <2>2, SetTopTwice
  <2> DEFINE atom == Atom("ORD", Empty(pos))
  <2>4. atom.kind = "ATOM" /\ atom.sup.kind = "EMPTY" /\ atom.sub.kind = "EMPTY"
    BY DEF Atom, Empty
  <2> HIDE DEF atom
  <2>5. /\ GrownItems(items, more) /\ more[Len(items) + 1] = atom
        /\ \A i \in DOMAIN items : i \in DOMAIN more /\ more[i] = items[i]
        /\ \A i \in DOMAIN more : i \in DOMAIN items \/ i = Len(items) + 1
    BY <1>5, GrownByOne DEF atom
  <2> HIDE DEF more
  <2>6. Aimed(g2, more)
    BY <1>3, <1>7, <2>2, <2>4, <2>5 DEF Aimed, OpenFor, Tail1, ScriptField
  <2>7. /\ Relisted(Top, g2, items) /\ Rebuilt(Top, g2, nodes) /\ ~Building(g2)
        /\ ItemsBut(items, more, Top) /\ NodesBut(nodes, nodes, Top) /\ ~Building(Top)
    BY <1>3, <1>8, <2>2, <2>5 DEF Relisted, Rebuilt, ItemsBut, NodesBut, Building
  <2>8. GrownNodes(nodes, nodes) BY GrownStill
  <2>9. \A n \in DOMAIN nodes : (n \notin DOMAIN nodes \/ Builds(Top, n)) => Builds(g2, n)
    BY <2>7 DEF Builds
  <2>10. \A k \in DOMAIN more : (k \notin DOMAIN items \/ Reaches(Top, k)) => Reaches(g2, k)
    <3>1. Reaches(g2, Len(items) + 1) BY <1>7, <2>2 DEF Reaches
    <3> QED BY <2>2, <2>5, <3>1
  <2>11. Moves BY <1>1, <1>2, <2>2, <2>3, <2>5, <2>6, <2>7, <2>8, <2>9, <2>10, TurnedMoves
  <2> QED BY <1>2, <2>11
<1> QED BY <1>4, <1>10, <1>11, <1>12, <1>13

(* The constructs of a command that starts to collect: as they were, or    *)
(* one more, still without its arguments.                                  *)
Allocates(kind, node, nds) ==
  \/ kind = "STYLE" /\ nds = nodes
  \/ /\ kind # "STYLE" /\ node = Len(nodes) + 1
     /\ nds = Append(nodes, Node(kind, pos + 1))

(* The construct allocated is new, and the others are as they were.        *)
LEMMA NodesBegun ==
  ASSUME NEW kind, NEW node, NEW nds, nodes \in Seq(Built), Allocates(kind, node, nds)
  PROVE  /\ GrownNodes(nodes, nds)
         /\ \A m \in DOMAIN nodes : m \in DOMAIN nds /\ nds[m] = nodes[m]
         /\ kind # "STYLE" => /\ node \in DOMAIN nds /\ nds[node].kind = kind
                              /\ nds[node].last.kind = "EMPTY"
                              /\ nds[node].first.kind = "EMPTY" /\ node > Len(nodes)
         /\ \A n \in DOMAIN nds : n \notin DOMAIN nodes => kind # "STYLE" /\ n = node
<1>1. CASE kind = "STYLE" /\ nds = nodes BY <1>1, GrownStill
<1>2. CASE /\ kind # "STYLE" /\ node = Len(nodes) + 1
           /\ nds = Append(nodes, Node(kind, pos + 1))
  <2> DEFINE new == Node(kind, pos + 1)
  <2>1. new.kind = kind /\ new.first.kind = "EMPTY" /\ new.last.kind = "EMPTY"
    BY DEF Node, Empty
  <2> HIDE DEF new
  <2>2. /\ GrownNodes(nodes, nds) /\ nds[node] = new /\ node \in DOMAIN nds
        /\ \A i \in DOMAIN nodes : i \in DOMAIN nds /\ nds[i] = nodes[i]
        /\ \A i \in DOMAIN nds : i \in DOMAIN nodes \/ i = node
    BY <1>2, GrownByOne DEF new
  <2>3. node > Len(nodes) BY <1>2
  <2> QED BY <1>2, <2>1, <2>2, <2>3
<1> QED BY <1>1, <1>2 DEF Allocates

(* A command starts to collect: its destination is open, its construct     *)
(* begun.                                                                  *)
LEMMA CollectBegunMoves ==
  ASSUME Poised, pos' = pos + 1, text'[pos'] # "END",
         MathRules(Top), ~Waiting(Top), ~Collecting(Top),
         NEW kind \in {"FRACTION", "RADICAL", "ACCENT", "STYLE"}, NEW face \in Faces,
         NEW node \in Nat, NEW nds, CollectBegin(kind, face, node, nds),
         Allocates(kind, node, nds)
  PROVE  Moves
<1> DEFINE collect == [NoCollect EXCEPT !.kind = kind, !.begin = pos, !.node = node,
                                        !.face = face]
           class   == IF kind = "FRACTION" THEN "INNER" ELSE "ORD"
           atom    == Atom(class, Empty(pos))
           eager   == [atom EXCEPT !.sup = Empty(pos + 1), !.sub = Empty(pos + 1),
                                   !.end = pos + 1]
           owed    == Top.pending
           c1      == [collect EXCEPT !.script = owed]
           g1      == [Top EXCEPT !.pending = NoScript, !.collect = c1]
           f2      == [Top EXCEPT !.list = Append(@, Len(items) + 1)]
           c2      == [collect EXCEPT !.item = Len(items) + 1]
           g2      == [f2 EXCEPT !.collect = c2]
           more    == Append(items, eager)
<1>1. /\ Linked(stack, items) = SetTop(stack, f2)
      /\ Linked(stack, items)[Len(Linked(stack, items))] = f2
      /\ f2 \in FrameType /\ Same(Top, f2)
      /\ f2.list = Append(Top.list, Len(items) + 1)
      /\ f2.list # << >> /\ f2.list[Len(f2.list)] = Len(items) + 1
      /\ f2.collect = Top.collect /\ f2.pending = Top.pending /\ f2.wait = Top.wait
  BY LinkedTop
<1>2. \/ Pending(Top) /\ Becomes(SetTop(stack, g1), items, nds)
      \/ ~Pending(Top) /\ Becomes(SetTop(SetTop(stack, f2), g2), more, nds)
  BY <1>1 DEF CollectBegin
<1>3. /\ Top \in FrameType /\ pos \in Nat /\ pos' \in Nat /\ pos + 1 <= pos'
      /\ items \in Seq(Item) /\ nodes \in Seq(Built)
      /\ stack \in Seq(FrameType) /\ stack # << >> /\ Firm(Top, items, nodes, pos')
      /\ owed \in Script
  BY PoisedParts, TopParts
<1>4. collect \in Collect BY <1>3, Absent DEF Collect
<1>5. /\ collect.kind = kind /\ collect.begin = pos /\ collect.node = node
      /\ ~collect.second /\ collect.item = 0
  BY DEF NoCollect
<1>6. Len(items) + 1 \in Nat /\ Len(items) + 1 # 0 BY <1>3
<1> HIDE DEF collect, owed
<1>7. /\ c1 \in Collect /\ c1.kind = kind /\ c1.begin = pos /\ c1.node = node
      /\ ~c1.second /\ c1.item = 0 /\ c1.script = owed
  BY <1>3, <1>4, <1>5 DEF Collect
<1>8. /\ c2 \in Collect /\ c2.kind = kind /\ c2.begin = pos /\ c2.node = node
      /\ ~c2.second /\ c2.item = Len(items) + 1
  BY <1>4, <1>5, <1>6 DEF Collect
<1> HIDE DEF c1, c2, f2
<1>9. kind # "NONE" OBVIOUS
<1>10. ~Building(Top) BY DEF Building
<1>13. /\ GrownNodes(nodes, nds)
       /\ \A m \in DOMAIN nodes : m \in DOMAIN nds /\ nds[m] = nodes[m]
       /\ kind # "STYLE" => /\ node \in DOMAIN nds /\ nds[node].kind = kind
                            /\ nds[node].last.kind = "EMPTY"
                            /\ nds[node].first.kind = "EMPTY" /\ node > Len(nodes)
       /\ \A n \in DOMAIN nds : n \notin DOMAIN nodes => kind # "STYLE" /\ n = node
  BY <1>3, NodesBegun
<1>14. NodesBut(nodes, nds, Top) BY <1>13 DEF NodesBut
<1>11. CASE Pending(Top) /\ Becomes(SetTop(stack, g1), items, nds)
  <2>1. /\ g1 \in FrameType /\ Same(Top, g1) /\ g1.list = Top.list
        /\ g1.collect = c1 /\ g1.pending = NoScript /\ g1.wait = Top.wait
    <3> DEFINE f0 == Top
    <3>1. g1 = [f0 EXCEPT !.pending = NoScript, !.collect = c1] OBVIOUS
    <3>2. f0 \in FrameType BY <1>3
    <3> HIDE DEF f0, g1
    <3>3. /\ g1 \in FrameType /\ Same(f0, g1) /\ g1.list = f0.list
          /\ g1.collect = c1 /\ g1.pending = NoScript /\ g1.wait = f0.wait
      BY <1>7, <3>1, <3>2, Absent DEF FrameType, Same
    <3> QED BY <3>3 DEF f0
  <2> HIDE DEF g1
  <2>2. ~Pending(g1) /\ ~Waiting(g1) /\ Collecting(g1)
        /\ (Building(g1) <=> kind # "STYLE")
    BY <1>7, <1>9, <2>1 DEF Pending, NoScript, Waiting, Collecting, Building
  <2>3. OpenFor(g1, owed, items)
    BY <1>3, <1>11, <2>1 DEF Firm, Aimed, OpenFor, Tail1, owed
  <2>4. Aimed(g1, items) BY <1>7, <2>1, <2>2, <2>3 DEF Aimed
  <2>5. g1.collect.begin + 1 <= pos' BY <1>3, <1>7, <2>1
  <2>6. Dated(g1, pos') BY <1>3, <2>1, <2>2, <2>5 DEF Firm, Dated, Same
  <2>7. /\ GrownNodes(nodes, nds) /\ NodesBut(nodes, nds, Top)
        /\ kind # "STYLE" => Begun(c1, nds) /\ node > Len(nodes)
        /\ \A n \in DOMAIN nds : n \notin DOMAIN nodes => kind # "STYLE" /\ n = node
    BY <1>7, <1>13, <1>14 DEF Begun
  <2>8. Building(g1) => Begun(g1.collect, nds) BY <2>1, <2>2, <2>7
  <2>9. Relisted(Top, g1, items) /\ Rebuilt(Top, g1, nodes) /\ ItemsBut(items, items, Top)
    BY <1>7, <2>1, <2>2, <2>7 DEF Relisted, Rebuilt, ItemsBut
  <2>10. GrownItems(items, items) BY GrownStill
  <2>11. \A n \in DOMAIN nds : (n \notin DOMAIN nodes \/ Builds(Top, n)) => Builds(g1, n)
    BY <1>7, <1>10, <2>1, <2>2, <2>7 DEF Builds
  <2>12. \A k \in DOMAIN items : (k \notin DOMAIN items \/ Reaches(Top, k)) => Reaches(g1, k)
    BY <1>7, <2>1, <2>2 DEF Reaches, Same, owed
  <2> QED BY <1>11, <2>1, <2>4, <2>6, <2>7, <2>8, <2>9, <2>10, <2>11, <2>12, TurnedMoves
<1>12. CASE ~Pending(Top) /\ Becomes(SetTop(SetTop(stack, f2), g2), more, nds)
  <2>1. /\ g2 \in FrameType /\ Same(f2, g2) /\ g2.list = f2.list
        /\ g2.collect = c2 /\ g2.pending = Top.pending /\ g2.wait = Top.wait
    BY <1>1, <1>8, CollectSet
  <2> HIDE DEF g2
  <2>2. Same(Top, g2) BY <1>1, <2>1 DEF Same
  <2>3. Becomes(SetTop(stack, g2), more, nds) BY <1>1, <1>3, <1>12, <2>1, SetTopTwice
  <2>4. ~Pending(g2) /\ ~Waiting(g2) /\ Collecting(g2)
        /\ (Building(g2) <=> kind # "STYLE")
    BY <1>8, <1>9, <1>12, <2>1 DEF Pending, Waiting, Collecting, Building
  <2>5. /\ eager.kind = "ATOM" /\ eager.nucleus.kind = "EMPTY"
        /\ eager.sup.kind = "EMPTY" /\ eager.sub.kind = "EMPTY"
    BY DEF Atom, Empty
  <2> HIDE DEF eager
  <2>6. /\ GrownItems(items, more) /\ more[Len(items) + 1] = eager
        /\ \A i \in DOMAIN items : i \in DOMAIN more /\ more[i] = items[i]
        /\ \A i \in DOMAIN more : i \in DOMAIN items \/ i = Len(items) + 1
    BY <1>3, GrownByOne
  <2> HIDE DEF more
  <2>7. Bare(g2, more) BY <1>1, <1>8, <2>1, <2>5, <2>6 DEF Bare, Tail1
  <2>8. Aimed(g2, more) BY <1>6, <1>8, <2>1, <2>4, <2>7 DEF Aimed
  <2>9. g2.collect.begin + 1 <= pos' BY <1>3, <1>8, <2>1
  <2>10. Dated(g2, pos') BY <1>3, <2>2, <2>4, <2>9 DEF Firm, Dated, Same
  <2>11. /\ GrownNodes(nodes, nds) /\ NodesBut(nodes, nds, Top)
         /\ kind # "STYLE" => Begun(c2, nds) /\ node > Len(nodes)
         /\ \A n \in DOMAIN nds : n \notin DOMAIN nodes => kind # "STYLE" /\ n = node
    BY <1>8, <1>13, <1>14 DEF Begun
  <2>12. Building(g2) => Begun(g2.collect, nds) BY <2>1, <2>4, <2>11
  <2>13. Relisted(Top, g2, items) /\ Rebuilt(Top, g2, nodes) /\ ItemsBut(items, more, Top)
    BY <1>1, <1>8, <2>1, <2>4, <2>6, <2>11 DEF Relisted, Rebuilt, ItemsBut
  <2>14. \A n \in DOMAIN nds : (n \notin DOMAIN nodes \/ Builds(Top, n)) => Builds(g2, n)
    BY <1>8, <1>10, <2>1, <2>4, <2>11 DEF Builds
  <2>15. \A k \in DOMAIN more : (k \notin DOMAIN items \/ Reaches(Top, k)) => Reaches(g2, k)
    <3>1. Reaches(g2, Len(items) + 1) BY <1>6, <1>8, <2>1, <2>4 DEF Reaches
    <3>2. \A k : Reaches(Top, k) => Reaches(g2, k) BY <1>12, <2>2 DEF Reaches, Same
    <3> QED BY <2>6, <3>1, <3>2
  <2> QED BY <2>1, <2>2, <2>3, <2>6, <2>8, <2>10, <2>11, <2>12, <2>13, <2>14, <2>15,
             TurnedMoves
<1> QED BY <1>2, <1>11, <1>12

(* A style switch starts to collect.                                       *)
LEMMA StyleCommandMoves ==
  ASSUME Standing, NEW t \in Alphabet, StyleCommand(t) PROVE Poised /\ Moves
<1>1. /\ Scan(t) /\ MathRules(Top) /\ ~Waiting(Top) /\ ~Collecting(Top)
      /\ OutOfMemory \/ CollectBegin("STYLE", FaceOf(t), 0, nodes)
  BY DEF StyleCommand, Allowed, MathToken, Refused, NeverArguments
<1>2. Poised /\ pos' = pos + 1 /\ text'[pos'] # "END" BY <1>1, AlphabetRead, TokenPoised
<1>3. FaceOf(t) \in Faces BY DEF FaceOf, Faces
<1>4. CASE OutOfMemory BY <1>2, <1>4, StarvedMoves
<1>5. CASE CollectBegin("STYLE", FaceOf(t), 0, nodes)
  <2>0. Allocates("STYLE", 0, nodes) BY DEF Allocates
  <2>1. Moves BY <1>1, <1>2, <1>3, <1>5, <2>0, CollectBegunMoves
  <2> QED BY <1>2, <2>1
<1> QED BY <1>1, <1>4, <1>5

(* A fraction, accent or radical starts to collect.                        *)
LEMMA ConstructCommandMoves ==
  ASSUME Standing, NEW t \in Alphabet, ConstructCommand(t) PROVE Poised /\ Moves
<1> DEFINE kind == CollectorOf(t)
           nds  == Append(nodes, Node(kind, pos + 1))
<1>1. /\ Scan(t) /\ MathRules(Top) /\ ~Waiting(Top) /\ ~Collecting(Top) /\ t \notin Styles
      /\ OutOfMemory \/ CollectBegin(kind, "NONE", Len(nodes) + 1, nds)
  BY DEF ConstructCommand, Allowed, MathToken, Refused
<1>2. Poised /\ pos' = pos + 1 /\ text'[pos'] # "END" BY <1>1, AlphabetRead, TokenPoised
<1>3. kind \in {"FRACTION", "RADICAL", "ACCENT"} BY <1>1 DEF CollectorOf
<1>4. "NONE" \in Faces BY DEF Faces
<1>5. Len(nodes) + 1 \in Nat BY <1>2, PoisedParts, TopParts
<1> HIDE DEF kind
<1>6. CASE OutOfMemory BY <1>2, <1>6, StarvedMoves
<1>7. CASE CollectBegin(kind, "NONE", Len(nodes) + 1, nds)
  <2>0. Allocates(kind, Len(nodes) + 1, nds) BY <1>3 DEF Allocates
  <2> HIDE DEF nds
  <2>1. Moves BY <1>1, <1>2, <1>3, <1>4, <1>5, <1>7, <2>0, CollectBegunMoves
  <2> QED BY <1>2, <2>1
<1> QED BY <1>1, <1>6, <1>7

(* An item allocated and not linked takes nothing from what is ready.      *)
LEMMA LooseItems ==
  ASSUME NEW stk, NEW its, NEW nds, NEW q \in Nat, NEW n, Ready(stk, its, nds, q, n),
         NEW item \in Item, Whole(item)
  PROVE  Ready(stk, Append(its, item), nds, q, n) /\ GrownItems(its, Append(its, item))
<1> DEFINE its2 == Append(its, item)
<1>1. /\ Good(stk, its, nds) /\ Sound(stk, its, nds, q) /\ Complete(stk, its, nds, n)
      /\ its \in Seq(Item)
  BY DEF Ready, Good, Typed
<1>2. /\ GrownItems(its, its2) /\ \A i \in DOMAIN its : i \in DOMAIN its2 /\ its2[i] = its[i]
      /\ its2[Len(its) + 1] = item /\ \A i \in DOMAIN its2 : i \in DOMAIN its \/ i = Len(its) + 1
  BY <1>1, GrownByOne
<1>3. Good(stk, its2, nds) BY <1>1, GoodMoreItems
<1> HIDE DEF its2
<1>4. Sound(stk, its2, nds, q)
  <2>1. \A i \in DOMAIN stk : SameRefs(stk[i], its, nds, its2, nds)
    BY <1>1, <1>2 DEF Good, Typed, LinkedTo, Sound, Firm, Begun, SameRefs
  <2> QED BY <1>1, <2>1, SoundArenas
<1>5. GrownNodes(nds, nds) BY GrownStill
<1>6. Complete(stk, its2, nds, n) BY <1>1, <1>2, <1>5, CompleteArenas
<1>7. Ready(stk, its2, nds, q, n) BY <1>3, <1>4, <1>6 DEF Ready
<1> QED BY <1>2, <1>7 DEF its2

(* An operator is linked, or delivered as a list of one.                   *)
LEMMA OperatorMoves == ASSUME Standing, NEW t \in Alphabet, Operator(t) PROVE Poised /\ Moves
<1> DEFINE letter  == Atom("ORD", Glyph(t, "FIXED"))
           its     == IF t \in Functions THEN Append(items, letter) ELSE items
           nucleus == IF t \in Functions THEN ListField(<<Len(its)>>, pos, pos + 1)
                      ELSE Glyph(t, "FIXED")
           base    == Atom("OP", nucleus)
           op      == [base EXCEPT !.limits = LimitsOf(t)]
           arg     == ListField(<<Len(its) + 1>>, pos, pos + 1)
<1>1. /\ Scan(t) /\ MathRules(Top)
      /\ \/ OutOfMemory
         \/ ~Idle(Top) /\ Deliver(stack, Append(its, op), nodes, arg, "ORD")
         \/ Idle(Top) /\ Becomes(Linked(stack, its), Append(its, op), nodes)
  BY DEF Operator, Allowed, MathToken
<1>2. Poised /\ text'[pos'] # "END" BY <1>1, AlphabetRead, TokenPoised
<1>3. IInv BY DEF Standing
<1>4. "FIXED" \in Faces /\ "ORD" \in Classes /\ "OP" \in Classes BY DEF Faces, Classes
<1>5. Glyph(t, "FIXED") \in Field /\ Glyph(t, "FIXED").kind # "EMPTY"
  BY <1>3, <1>4, GlyphTyped, GlyphFilled
<1>6. letter \in Item /\ Whole(letter)
  <2>1. letter \in Item BY <1>4, <1>5, AtomTyped
  <2>2. letter.nucleus = Glyph(t, "FIXED") BY DEF Atom
  <2> QED BY <1>5, <2>1, <2>2 DEF Whole
<1> HIDE DEF letter
<1>7. pos' \in Nat /\ Top = stack[Len(stack)] BY <1>2, PoisedParts
<1>8. 0 \notin DOMAIN nodes
  <2>1. nodes \in Seq(Built) BY <1>3, TopParts
  <2> QED BY <2>1
<1>9. Ready(stack, items, nodes, pos', 0) BY <1>1, <1>2, <1>8, PoisedParts DEF Ready
<1>10. Ready(stack, its, nodes, pos', 0) /\ GrownItems(items, its)
  BY <1>6, <1>7, <1>9, LooseItems, GrownStill
<1>11. its \in Seq(Item) /\ Good(stack, its, nodes) BY <1>10, TopGood DEF Ready
<1> HIDE DEF its
<1>12. <<Len(its)>> \in Seq(Nat) /\ <<Len(its) + 1>> \in Seq(Nat)
  <2>1. Len(its) \in Nat /\ Len(its) + 1 \in Nat BY <1>11
  <2> QED BY <2>1
<1>13. nucleus \in Field /\ arg \in Field
  <2>1. ListField(<<Len(its)>>, pos, pos + 1) \in Field BY <1>3, <1>12, TopParts, ListTyped
  <2>2. arg \in Field BY <1>3, <1>12, TopParts, ListTyped
  <2> QED BY <1>5, <2>1, <2>2
<1>14. nucleus.kind # "EMPTY" /\ arg.kind # "EMPTY" /\ arg.node = 0
  <2>1. ListField(<<Len(its)>>, pos, pos + 1).kind = "LIST" BY DEF ListField, Empty
  <2>2. arg.kind = "LIST" /\ arg.node = 0 BY DEF ListField, Empty
  <2> QED BY <1>5, <2>1, <2>2
<1> HIDE DEF nucleus, arg
<1>15. base \in Item /\ base.nucleus = nucleus BY <1>4, <1>13, AtomTyped DEF Atom
<1> HIDE DEF base
<1>16. op \in Item /\ op.nucleus = nucleus
  <2>1. LimitsOf(t) \in {"DISPLAY", "ALWAYS", "NEVER"} BY DEF LimitsOf
  <2> QED BY <1>15, <2>1 DEF Item
<1>17. Whole(op) BY <1>14, <1>16 DEF Whole
<1> HIDE DEF op
<1>18. CASE OutOfMemory BY <1>2, <1>18, StarvedMoves
<1>19. CASE Deliver(stack, Append(its, op), nodes, arg, "ORD")
  <2>1. Ready(stack, Append(its, op), nodes, pos', 0) /\ GrownItems(its, Append(its, op))
    BY <1>7, <1>10, <1>16, <1>17, LooseItems
  <2>2. GrownItems(items, Append(its, op)) BY <1>10, <2>1, GrownTwice
  <2>3. Moves BY <1>2, <1>4, <1>13, <1>14, <1>19, <2>1, <2>2, DeliveredMoves
  <2> QED BY <1>2, <2>3
<1>20. CASE Idle(Top) /\ Becomes(Linked(stack, its), Append(its, op), nodes)
  <2>1. /\ Sound(stack, its, nodes, pos') /\ Complete(stack, its, nodes, 0) /\ 0 \in Nat
    BY <1>10 DEF Ready
  <2>2. Fits(its, nodes, Linked(stack, its), Append(its, op), nodes, pos')
    BY <1>1, <1>7, <1>8, <1>11, <1>16, <1>17, <1>20, <2>1, LinkedFits
  <2>3. GrownNodes(nodes, nodes) BY GrownStill
  <2>4. Fits(items, nodes, Linked(stack, its), Append(its, op), nodes, pos')
    BY <1>10, <2>2, <2>3, FitsTwice
  <2>5. Shapes(Linked(stack, its)) = Shapes(stack) BY <1>11, ShapesLinked
  <2>6. Moves BY <1>2, <1>20, <2>4, <2>5, BecameMoves
  <2> QED BY <1>2, <2>6
<1> QED BY <1>1, <1>18, <1>19, <1>20

(* \limits and \nolimits change the last operator.                         *)
LEMMA LimitsCommandMoves ==
  ASSUME Standing, NEW t \in Alphabet, LimitsCommand(t) PROVE Poised /\ Moves
<1> DEFINE k    == Tail1(Top)
           item == [items[k] EXCEPT !.limits = LimitsOf(t), !.end = pos + 1]
           its  == [items EXCEPT ![k] = item]
<1>1. /\ Scan(t) /\ MathRules(Top) /\ ~Waiting(Top) /\ Idle(Top)
      /\ \/ HasAtomTail(Top) /\ Becomes(stack, its, nodes)
         \/ Fail("misplaced limits")
  BY DEF LimitsCommand, Allowed, MathToken, Refused, NeverScripts, Idle
<1>2. Poised /\ text'[pos'] # "END" BY <1>1, AlphabetRead, TokenPoised
<1>3. /\ Top \in FrameType /\ Top = stack[Len(stack)] /\ stack \in Seq(FrameType)
      /\ stack # << >> /\ items \in Seq(Item) /\ Firm(Top, items, nodes, pos')
  BY <1>2, PoisedParts, TopParts
<1>4. CASE HasAtomTail(Top) /\ Becomes(stack, its, nodes)
  <2>1. Becomes(SetTop(stack, Top), its, nodes) BY <1>3, <1>4, TopStill
  <2>2. ~Collecting(Top) /\ ~Pending(Top) /\ ~Building(Top) BY <1>1 DEF Idle, Building
  <2>3. k \in DOMAIN items =>
          /\ item.kind = items[k].kind /\ item.nucleus = items[k].nucleus
          /\ item.sup = items[k].sup /\ item.sub = items[k].sub
    <3> SUFFICES ASSUME k \in DOMAIN items
                 PROVE  /\ item.kind = items[k].kind /\ item.nucleus = items[k].nucleus
                        /\ item.sup = items[k].sup /\ item.sub = items[k].sub
      OBVIOUS
    <3>1. items[k] \in Item BY <1>3
    <3> HIDE DEF k
    <3> QED BY <3>1 DEF Item
  <2> HIDE DEF item
  <2>4. GrownItems(items, its) BY <2>3, GrownAt DEF Kept
  <2>5. DOMAIN its = DOMAIN items /\ \A m \in DOMAIN items : m = k \/ its[m] = items[m] OBVIOUS
  <2>6. ItemsBut(items, its, Top) BY <1>4, <2>5 DEF ItemsBut, HasAtomTail
  <2> HIDE DEF its
  <2>7. /\ Relisted(Top, Top, items) /\ Rebuilt(Top, Top, nodes) /\ Same(Top, Top)
        /\ NodesBut(nodes, nodes, Top)
    BY DEF Relisted, Rebuilt, Same, NodesBut
  <2>8. Aimed(Top, its) /\ Dated(Top, pos') BY <1>3, <2>2 DEF Aimed, Firm
  <2>9. GrownNodes(nodes, nodes) BY GrownStill
  <2>10. /\ \A n \in DOMAIN nodes : (n \notin DOMAIN nodes \/ Builds(Top, n)) => Builds(Top, n)
         /\ \A j \in DOMAIN its : (j \notin DOMAIN items \/ Reaches(Top, j)) => Reaches(Top, j)
    BY <2>5
  <2>11. Moves
    BY <1>1, <1>2, <1>3, <2>1, <2>2, <2>4, <2>6, <2>7, <2>8, <2>9, <2>10, TurnedMoves
  <2> QED BY <1>2, <2>11
<1>5. CASE Fail("misplaced limits") BY <1>1, <1>5, AlphabetRead, TokenRefused
<1> QED BY <1>1, <1>4, <1>5

-----------------------------------------------------------------------------
(***************************************************************************)
(* Every step, and with it the invariant.                                  *)
(***************************************************************************)

(* What a handler leaves, where the next one starts.                       *)
LEMMA TurnKept == ASSUME Poised, Moves, IInv' PROVE Standing'
<1>1. /\ text' \in Seq(Source) /\ pos' \in Nat /\ ReadTo(text', pos')
      /\ \A i \in 1 .. pos' - 1 : text'[i] # "END"
  BY DEF Poised
<1>2. Onward /\ Turn BY DEF Moves
<1>3. /\ Sound(stack', items', nodes', pos') /\ Complete(stack', items', nodes', 0)
  BY <1>2 DEF Onward, Fits
<1>4. result.status = "RUNNING" BY DEF Poised
<1>5. result'.status = "RUNNING" => text'[pos'] # "END"
  BY <1>2, <1>4 DEF Turn, Stays, Enters, Leaves, Starves, Refuses, Accepts, Goes
<1>6. result'.status = "RUNNING" => \A i \in 1 .. pos' : text'[i] # "END"
  <2> SUFFICES ASSUME result'.status = "RUNNING", NEW i \in 1 .. pos' PROVE text'[i] # "END"
    OBVIOUS
  <2>1. pos' \in Nat BY <1>1
  <2>2. \A p \in Nat : \A j \in 1 .. p : j = p \/ j \in 1 .. p - 1 OBVIOUS
  <2>3. i = pos' \/ i \in 1 .. pos' - 1 BY <2>1, <2>2
  <2> QED BY <1>1, <1>5, <2>3
<1>7. result'.status = "OK" => Len(stack') = 1 /\ Idle(stack'[Len(stack')])
  BY <1>2, <1>4 DEF Turn, Stays, Enters, Leaves, Starves, Refuses, Accepts, Goes, Top
<1>8. result'.status \in {"UNSUPPORTED", "INVALID_UTF8"} =>
        /\ result'.begin < result'.end /\ result'.end <= Len(text')
        /\ text'[result'.end] # "END"
  BY <1>2, <1>4 DEF Turn, Stays, Enters, Leaves, Starves, Refuses, Accepts, Goes
<1>9. Sound(stack, items, nodes, pos)' BY <1>3 DEF Sound, Pierced
<1>10. Complete(stack, items, nodes, 0)' BY <1>3 DEF Complete
<1>11. Reading' BY <1>1, <1>6 DEF Reading, ReadTo
<1>12. Concluded' BY <1>7, <1>8 DEF Concluded, ErrorNamesSource, Top
<1> QED BY <1>9, <1>10, <1>11, <1>12 DEF Standing

(* Every handler starts where the source has been read on, and leaves what *)
(* fits.                                                                   *)
LEMMA NextMoves == ASSUME Standing, Next PROVE Poised /\ Moves
<1>1. CASE Accept BY <1>1, AcceptMoves
<1>2. CASE EndTooEarly BY <1>2, EndTooEarlyMoves
<1>3. CASE ScanError BY <1>3, ScanErrorMoves
<1>4. CASE ParagraphBreak BY <1>4, ParagraphBreakMoves
<1>5. CASE MathBlank BY <1>5, MathBlankMoves
<1>6. CASE WordSpace BY <1>6, WordSpaceMoves
<1>7. CASE OpenIndex BY <1>7, OpenIndexMoves
<1>8. CASE CloseIndex BY <1>8, CloseIndexMoves
<1>9. CASE OpenGroup BY <1>9, OpenGroupMoves
<1>10. CASE CloseText BY <1>10, CloseTextMoves
<1>11. CASE CloseGroup BY <1>11, CloseGroupMoves
<1>12. CASE CloseScript BY <1>12, CloseScriptMoves
<1>13. CASE UnmatchedBrace BY <1>13, UnmatchedBraceMoves
<1>14. CASE AlignmentTab BY <1>14, AlignmentTabMoves
<1>15. CASE MisplacedRow BY <1>15, MisplacedRowMoves
<1>16. CASE RowTerminator BY <1>16, RowTerminatorMoves
<1>17. ASSUME NEW name \in Named, BeginEnvironment(name) PROVE Poised /\ Moves
  BY <1>17, BeginEnvironmentMoves
<1>18. ASSUME NEW name \in Named, EndEnvironment(name) PROVE Poised /\ Moves
  BY <1>18, EndEnvironmentMoves
<1>19. ASSUME NEW t \in Alphabet, MissingDelimiter(t) PROVE Poised /\ Moves
  BY <1>19, MissingDelimiterMoves
<1>20. ASSUME NEW t \in Alphabet, OpenFence(t) PROVE Poised /\ Moves
  BY <1>20, OpenFenceMoves
<1>21. ASSUME NEW t \in Alphabet, CloseFence(t) PROVE Poised /\ Moves
  BY <1>21, CloseFenceMoves
<1>22. ASSUME NEW t \in Alphabet, SizedDelimiter(t) PROVE Poised /\ Moves
  BY <1>22, SizedDelimiterMoves
<1>23. ASSUME NEW t \in Alphabet, AskForDelimiter(t) PROVE Poised /\ Moves
  BY <1>23, AskForDelimiterMoves
<1>24. ASSUME NEW t \in Alphabet, MissingArgument(t) PROVE Poised /\ Moves
  BY <1>24, MissingArgumentMoves
<1>25. ASSUME NEW t \in Alphabet, ScriptMark(t) PROVE Poised /\ Moves
  BY <1>25, ScriptMarkMoves
<1>26. ASSUME NEW t \in Alphabet, StyleCommand(t) PROVE Poised /\ Moves
  BY <1>26, StyleCommandMoves
<1>27. ASSUME NEW t \in Alphabet, ConstructCommand(t) PROVE Poised /\ Moves
  BY <1>27, ConstructCommandMoves
<1>28. ASSUME NEW t \in Alphabet, Operator(t) PROVE Poised /\ Moves
  BY <1>28, OperatorMoves
<1>29. ASSUME NEW t \in Alphabet, LimitsCommand(t) PROVE Poised /\ Moves
  BY <1>29, LimitsCommandMoves
<1>30. ASSUME NEW t \in Alphabet, GlyphToken(t) PROVE Poised /\ Moves
  BY <1>30, GlyphTokenMoves
<1>31. ASSUME NEW t \in Alphabet, TextGlyph(t) PROVE Poised /\ Moves
  BY <1>31, TextGlyphMoves
<1>32. ASSUME NEW t \in Alphabet, SpacingCommand(t) PROVE Poised /\ Moves
  BY <1>32, SpacingCommandMoves
<1>33. ASSUME NEW t \in Alphabet, Unsupported(t) PROVE Poised /\ Moves
  BY <1>33, UnsupportedMoves
<1> QED
  BY <1>1, <1>2, <1>3, <1>4, <1>5, <1>6, <1>7, <1>8, <1>9, <1>10, <1>11, <1>12,
     <1>13, <1>14, <1>15, <1>16, <1>17, <1>18, <1>19, <1>20, <1>21, <1>22,
     <1>23, <1>24, <1>25, <1>26, <1>27, <1>28, <1>29, <1>30, <1>31, <1>32, <1>33
  DEF Next

(* txc_parse starts with a root frame that holds nothing.                  *)
LEMMA InitStanding == Init => Standing
<1> SUFFICES ASSUME Init PROVE Standing OBVIOUS
<1> DEFINE f == Frame("ROOT", "NONE", FALSE, 0)
<1>1. text = << >> /\ pos = 0 /\ items = << >> /\ nodes = << >> BY DEF Init
<1>0. stack = <<f>> /\ result.status = "RUNNING" BY DEF Init
<1>2. IInv BY InitIInv
<1>3. /\ f.role = "ROOT" /\ f.list = << >> /\ f.text = FALSE /\ f.env = "NONE"
      /\ f.stretched = FALSE
      /\ f.collect = NoCollect /\ f.pending = NoScript /\ f.wait = NoWait
  BY DEF Frame
<1> HIDE DEF f
<1>4. ~Collecting(f) /\ ~Pending(f) /\ ~Waiting(f)
  BY <1>3 DEF Collecting, Pending, Waiting, NoScript, NoCollect, NoWait
<1>5. Firm(f, items, nodes, pos)
  BY <1>3, <1>4 DEF Firm, Aimed, Building, Textual, Dated, Rising
<1>6. Len(stack) = 1 /\ stack[1] = f /\ DOMAIN stack = 1 .. 1 BY <1>0
<1>7. Pierced(stack)
  <2>1. \A i \in 1 .. 1 : i = 1 OBVIOUS
  <2>2. \A i \in 1 .. 1 : 1 .. i = 1 .. 1 BY <2>1
  <2> QED BY <1>3, <1>6, <2>1, <2>2 DEF Pierced
<1>8. Sound(stack, items, nodes, pos)
  <2>1. \A i \in DOMAIN stack : stack[i] = f BY <1>6
  <2>2. \A i, j \in DOMAIN stack : ~(i < j) BY <1>6
  <2>3. 2 .. Len(stack) = {} BY <1>6
  <2> QED BY <1>5, <1>7, <2>1, <2>2, <2>3 DEF Sound
<1>9. DOMAIN items = {} /\ DOMAIN nodes = {} BY <1>1
<1>10. Complete(stack, items, nodes, 0) BY <1>9 DEF Complete
<1>11. Reading /\ Concluded
  <2>1. Len(text) = 0 /\ pos = 0 /\ 1 .. pos = {} BY <1>1
  <2> QED BY <1>0, <2>1 DEF Reading, ReadTo, Concluded, ErrorNamesSource
<1> QED BY <1>2, <1>8, <1>10, <1>11 DEF Standing

(* A step that changes nothing.                                            *)
LEMMA StandingStill == ASSUME Standing, UNCHANGED vars PROVE Standing'
<1>1. IInv' BY StutterKept DEF Standing
<1>2. text' = text /\ pos' = pos /\ stack' = stack /\ items' = items /\ nodes' = nodes
      /\ result' = result
  BY DEF vars
<1>3. Sound(stack, items, nodes, pos)' BY <1>2 DEF Standing, Sound, Pierced
<1>4. Complete(stack, items, nodes, 0)' BY <1>2 DEF Standing, Complete
<1>5. Reading' BY <1>2 DEF Standing, Reading, ReadTo
<1>6. Concluded' BY <1>2 DEF Standing, Concluded, ErrorNamesSource, Top
<1> QED BY <1>1, <1>3, <1>4, <1>5, <1>6 DEF Standing

(* The whole invariant holds of every state of every behaviour.            *)
THEOREM StandingKept == Spec => []Standing
<1>1. Init => Standing BY InitStanding
<1>2. Standing /\ [Next \/ Returned]_vars => Standing'
  <2>1. ASSUME Standing, Next PROVE Standing'
    <3>1. IInv' BY <2>1, NextKept DEF Standing
    <3> QED BY <2>1, <3>1, NextMoves, TurnKept
  <2> QED BY <2>1, StandingStill DEF Returned
<1> QED BY <1>1, <1>2, PTL DEF Spec

-----------------------------------------------------------------------------
(***************************************************************************)
(* What follows from the invariant.                                        *)
(***************************************************************************)

(* Where an argument or a script of the source will land is still empty,   *)
(* in the last item of the list of the frame that owes it: txc_deliver     *)
(* overwrites nothing and follows no stale index.                          *)
THEOREM Destinations == Spec => []DestinationOpen
<1>1. ASSUME Standing PROVE DestinationOpen
  <2>1. /\ stack \in Seq(FrameType) /\ stack # << >> /\ stack[1].role = "ROOT"
        /\ \A i \in DOMAIN stack : Aimed(stack[i], items)
        /\ \A i \in 2 .. Len(stack) : Owed(stack[i - 1], stack[i], items)
    BY <1>1 DEF Standing, IInv, Good, Typed, Disciplined, Sound, Firm
  <2>2. \A f, script : OpenFor(f, script, items) <=> Vacant(f, script)
    BY DEF OpenFor, Vacant
  <2> SUFFICES ASSUME NEW i \in DOMAIN stack
               PROVE  LET f == stack[i]
                          c == f.collect
                      IN /\ Pending(f) => Vacant(f, f.pending)
                         /\ f.role = "SCRIPT" => Vacant(stack[i - 1], f.script)
                         /\ Collecting(f) /\ c.item = 0 => Vacant(f, c.script)
                         /\ Collecting(f) /\ c.item # 0 =>
                              /\ f.list # << >> /\ c.item = Tail1(f)
                              /\ items[c.item].nucleus.kind = "EMPTY"
                              /\ items[c.item].sup.kind = "EMPTY"
                              /\ items[c.item].sub.kind = "EMPTY"
    BY DEF DestinationOpen
  <2>3. stack[i].role = "SCRIPT" => i \in 2 .. Len(stack) BY <2>1
  <2>4. stack[i].role = "SCRIPT" => Vacant(stack[i - 1], stack[i].script)
    BY <2>1, <2>2, <2>3 DEF Owed
  <2>5. /\ Pending(stack[i]) => Vacant(stack[i], stack[i].pending)
        /\ Collecting(stack[i]) /\ stack[i].collect.item = 0 =>
             Vacant(stack[i], stack[i].collect.script)
    BY <2>1, <2>2 DEF Aimed
  <2>6. Collecting(stack[i]) /\ stack[i].collect.item # 0 => Bare(stack[i], items)
    BY <2>1 DEF Aimed
  <2> QED BY <2>4, <2>5, <2>6 DEF Bare
<1> QED BY <1>1, StandingKept, PTL

(* Where the document rules hold, in document mode and inside a \text      *)
(* group, the parser links only spaces and bare Ord characters.            *)
THEOREM DocumentContent == Spec => []DocumentRules
<1>1. Standing => DocumentRules BY DEF Standing, Sound, Firm, Textual, DocumentRules
<1> QED BY <1>1, StandingKept, PTL

(* The stretch of a cases pierces every frame opened inside it and no      *)
(* other.                                                                  *)
THEOREM Stretch == Spec => []StretchPierces
<1>1. Standing => StretchPierces BY DEF Standing, Sound, Pierced, StretchPierces
<1> QED BY <1>1, StandingKept, PTL

(* An accepted parse has every argument of every construct, every atom has *)
(* something in it, and every construct is in the tree; a refused one      *)
(* names a token of the source.                                            *)
THEOREM Verdicts == Spec => []VerdictJustified
<1>1. ASSUME Standing PROVE VerdictJustified
  <2>1. ErrorNamesSource BY <1>1 DEF Standing, Concluded
  <2> SUFFICES ASSUME result.status = "OK"
               PROVE  /\ \A i \in DOMAIN nodes :
                           /\ nodes[i].kind \in {"FRACTION", "RADICAL", "ACCENT"} =>
                                nodes[i].last.kind # "EMPTY"
                           /\ nodes[i].kind = "FRACTION" => nodes[i].first.kind # "EMPTY"
                           /\ \E j \in DOMAIN items : \E f \in FieldsOf(items[j]) :
                                \/ f.node = i
                                \/ \E k \in DOMAIN nodes :
                                     \E g \in NodeFields(nodes[k]) : g.node = i
                      /\ \A i \in DOMAIN items :
                           items[i].kind = "ATOM" => Filled(FieldsOf(items[i])) # {}
    BY <2>1 DEF VerdictJustified, AcceptedComplete
  <2>2. /\ stack \in Seq(FrameType) /\ stack[1].role = "ROOT"
        /\ Complete(stack, items, nodes, 0) /\ nodes \in Seq(Built)
        /\ Len(stack) = 1 /\ Idle(stack[Len(stack)])
    BY <1>1 DEF Standing, IInv, Good, Typed, Disciplined, Concluded, Top
  <2>3. \A i \in DOMAIN stack : i = 1 BY <2>2
  <2>4. \A i \in DOMAIN stack : stack[i].role = "ROOT" /\ Idle(stack[i]) BY <2>2, <2>3
  <2>5. \A i \in DOMAIN stack : \A n : ~Builds(stack[i], n) /\ ~Reaches(stack[i], n)
    BY <2>4 DEF Builds, Building, Reaches, Idle
  <2>6. \A n \in DOMAIN nodes : n # 0 BY <2>2
  <2>7. \A n \in DOMAIN nodes : Done(n, items, nodes) BY <2>2, <2>5, <2>6 DEF Complete
  <2>8. \A k \in DOMAIN items : Whole(items[k]) BY <2>2, <2>5 DEF Complete
  <2>9. ASSUME NEW n \in DOMAIN nodes
        PROVE  \E j \in DOMAIN items : \E f \in FieldsOf(items[j]) :
                 \/ f.node = n
                 \/ \E k \in DOMAIN nodes : \E g \in NodeFields(nodes[k]) : g.node = n
    <3>1. PICK j \in DOMAIN items :
            \/ \E field \in FieldsOf(items[j]) : Holds(field, n)
            \/ \E k \in DOMAIN nodes : \E field \in NodeFields(nodes[k]) : Holds(field, n)
      BY <2>7 DEF Done, Held
    <3>2. CASE \E field \in FieldsOf(items[j]) : Holds(field, n) BY <3>2 DEF Holds
    <3>3. CASE \E k \in DOMAIN nodes : \E field \in NodeFields(nodes[k]) : Holds(field, n)
      <4>1. items[j].nucleus \in FieldsOf(items[j]) BY DEF FieldsOf
      <4> QED BY <3>3, <4>1 DEF Holds
    <3> QED BY <3>1, <3>2, <3>3
  <2>10. \A k \in DOMAIN items : items[k].kind = "ATOM" => Filled(FieldsOf(items[k])) # {}
    <3> SUFFICES ASSUME NEW k \in DOMAIN items, items[k].kind = "ATOM"
                 PROVE  \E f \in FieldsOf(items[k]) : f.kind # "EMPTY"
      BY DEF Filled
    <3>1. \/ items[k].nucleus.kind # "EMPTY" \/ items[k].sup.kind # "EMPTY"
          \/ items[k].sub.kind # "EMPTY"
      BY <2>8 DEF Whole
    <3> QED BY <3>1 DEF FieldsOf
  <2> QED BY <2>7, <2>9, <2>10 DEF Done, Finished
<1> QED BY <1>1, StandingKept, PTL

(* A step of the parser replaces nothing a field already holds, and takes  *)
(* back no item and no construct.                                          *)
THEOREM WritesOnce == Spec => WrittenOnce
<1> DEFINE A == /\ \A i \in DOMAIN items :
                     /\ i \in DOMAIN items'
                     /\ Kept(items[i].nucleus, items'[i].nucleus)
                     /\ Kept(items[i].sup, items'[i].sup) /\ Kept(items[i].sub, items'[i].sub)
                /\ \A i \in DOMAIN nodes :
                     /\ i \in DOMAIN nodes'
                     /\ Kept(nodes[i].first, nodes'[i].first) /\ Kept(nodes[i].last, nodes'[i].last)
<1>1. ASSUME Standing, Next PROVE A
  <2>1. Onward BY <1>1, NextMoves DEF Moves
  <2> QED BY <2>1 DEF Onward, Fits, GrownItems, GrownNodes
<1>2. Standing /\ [Next \/ Returned]_vars => [A]_vars BY <1>1 DEF Returned
<1> QED BY <1>2, StandingKept, PTL DEF Spec, WrittenOnce

(* What is open, and the token that opens or closes it.                    *)
LEMMA OpenIsShapes == OpenFrames = Shapes(stack) /\ OpenFrames' = Shapes(stack')
BY DEF OpenFrames, Shapes

(* Each step of the parser opens one construct, closes the innermost, only *)
(* reads, or ends.                                                         *)
LEMMA NestingStep == ASSUME Standing, Next PROVE Nest!Step
<1>1. Poised /\ Turn /\ IInv BY NextMoves DEF Moves, Standing
<1>2. /\ stack \in Seq(FrameType) /\ stack # << >> /\ Top = stack[Len(stack)]
      /\ Top \in FrameType /\ pos \in Nat /\ pos' \in Nat /\ pos + 1 <= pos'
  BY <1>1, PoisedParts
<1>3. Len(stack) - 1 <= DepthLimit BY <1>1 DEF IInv, Good
<1>4. result.status = "RUNNING" BY <1>1 DEF Poised
<1>5. (IF pos' = 0 THEN "" ELSE text'[pos']) = text'[pos']
  <2>1. \A p, q \in Nat : p + 1 <= q => q # 0 OBVIOUS
  <2> QED BY <1>2, <2>1
<1> DEFINE t == text'[pos']
<1> HIDE DEF t
<1>6. Len(Shapes(stack)) = Len(stack) - 1 BY <1>2 DEF Shapes
<1>7. CASE Stays
  <2>1. Nest!Read BY <1>7, OpenIsShapes DEF Nest!Read, Stays, Goes
  <2> QED BY <1>4, <2>1 DEF Nest!Step
<1>8. CASE Enters
  <2>1. Len(Shapes(stack)) < DepthLimit BY <1>2, <1>3, <1>6, <1>8, BoundAssumption DEF Enters
  <2>2. PICK f \in FrameType : /\ f.role # "ROOT" /\ Nest!OpenedBy(Shape(f), text'[pos'])
                               /\ Shapes(stack') = Append(Shapes(stack), Shape(f))
    BY <1>8 DEF Enters
  <2>3. Shape(f) \in [role : {"GROUP", "SCRIPT", "INDEX", "FENCED", "CELL"},
                      env : Environments \cup {"NONE"}]
    BY <2>2 DEF FrameType, Roles, Shape
  <2>4. result'.status = result.status BY <1>8 DEF Enters, Goes
  <2>5. Nest!Enter BY <1>5, <2>1, <2>2, <2>3, <2>4, OpenIsShapes DEF Nest!Enter
  <2> QED BY <1>4, <2>5 DEF Nest!Step
<1>9. CASE Leaves
  <2>1. /\ Shapes(stack) # << >> /\ Shapes(stack)[Len(Shapes(stack))] = Shape(Top)
        /\ Shapes(stack') = SubSeq(Shapes(stack), 1, Len(Shapes(stack)) - 1)
    BY <1>2, <1>9, ShapesPopped DEF Leaves
  <2>2. Nest!Leave BY <1>5, <1>9, <2>1, OpenIsShapes DEF Nest!Leave, Leaves, Goes
  <2> QED BY <1>4, <2>2 DEF Nest!Step
<1>10. CASE Starves \/ Refuses
  <2>1. Nest!Finish BY <1>10, OpenIsShapes DEF Nest!Finish, Starves, Refuses
  <2> QED BY <1>4, <2>1 DEF Nest!Step
<1>11. CASE Accepts
  <2>1. Shapes(stack) = << >> BY <1>2, <1>6, <1>11 DEF Accepts, Shapes
  <2>2. Nest!Finish BY <1>5, <1>11, <2>1, OpenIsShapes DEF Nest!Finish, Accepts
  <2> QED BY <1>4, <2>2 DEF Nest!Step
<1> QED BY <1>1, <1>7, <1>8, <1>9, <1>10, <1>11 DEF Turn

(* The parser implements Nesting: constructs are opened and closed last in,*)
(* first out, each by its own tokens, within the limit, and a source is    *)
(* accepted only at its end with nothing open.                             *)
THEOREM NestingImplemented == Spec => NestingRefined
<1>1. Init => Nest!Begin
  <2> SUFFICES ASSUME Init PROVE Nest!Begin OBVIOUS
  <2>1. Len(stack) = 1 /\ result.status = "RUNNING" BY DEF Init
  <2>2. OpenFrames = << >> BY <2>1 DEF OpenFrames
  <2> QED BY <2>1, <2>2 DEF Nest!Begin
<1>2. Standing /\ [Next \/ Returned]_vars => [Nest!Step]_(Nest!nest)
  <2>1. ASSUME UNCHANGED vars PROVE UNCHANGED Nest!nest
    BY <2>1 DEF vars, Nest!nest, OpenFrames
  <2> QED BY <2>1, NestingStep DEF Returned
<1> QED BY <1>1, <1>2, StandingKept, PTL DEF Spec, NestingRefined, Nest!Spec

-----------------------------------------------------------------------------
(***************************************************************************)
(* Where everything built lies in the source: the inductive invariant that *)
(* the ranges of the tree rest on.  b is where the top frame is in the     *)
(* source, txt what has been read.                                         *)
(***************************************************************************)
InOrder(list, its) ==
  /\ \A j \in DOMAIN list : list[j] \in DOMAIN its /\ its[list[j]].begin <= its[list[j]].end
  /\ \A j, k \in DOMAIN list : j < k => its[list[j]].end <= its[list[k]].begin

Spans(list, its, b, e) ==
  \A j \in DOMAIN list : /\ list[j] \in DOMAIN its
                         /\ b <= its[list[j]].begin /\ its[list[j]].end <= e

(* The constructs whose arguments are collected one by one.                *)
Three == {"FRACTION", "RADICAL", "ACCENT"}

(* A field holds a construct that is finished, and lies around it.         *)
Holding(field, n, its) ==
  /\ n.kind = field.kind
  /\ n.kind \in Three => n.last.kind # "EMPTY"
  /\ \A g \in Filled(NodeFields(n)) : field.begin <= g.begin /\ g.end <= field.end
  /\ n.kind \in {"FRACTION", "RADICAL"} /\ n.first.kind # "EMPTY" => n.first.end <= n.last.begin
  /\ Spans(n.list, its, field.begin, field.end)

FieldFits(field, its, nds) ==
  /\ field.begin < field.end
  /\ InOrder(field.list, its) /\ Spans(field.list, its, field.begin, field.end)
  /\ field.node # 0 => field.node \in DOMAIN nds /\ Holding(field, nds[field.node], its)

ScriptsApart(it) ==
  /\ it.sup.kind # "EMPTY" => it.nucleus.end <= it.sup.begin
  /\ it.sub.kind # "EMPTY" => it.nucleus.end <= it.sub.begin
  /\ it.sup.kind # "EMPTY" /\ it.sub.kind # "EMPTY" =>
       it.sup.end <= it.sub.begin \/ it.sub.end <= it.sup.begin
  /\ it.subFirst <=> /\ it.sub.kind # "EMPTY"
                     /\ it.sup.kind = "EMPTY" \/ it.sub.begin < it.sup.begin

ItemFits(it, its, nds) ==
  /\ it.begin <= it.nucleus.begin /\ it.nucleus.begin <= it.nucleus.end
  /\ it.nucleus.end <= it.end
  /\ \A f \in Filled(FieldsOf(it)) :
       it.begin <= f.begin /\ f.end <= it.end /\ FieldFits(f, its, nds)
  /\ ScriptsApart(it)

(* Cells follow one another, along the rows and from row to row.           *)
CellFits(cell, its) == cell.begin <= cell.end /\ Spans(cell.list, its, cell.begin, cell.end)

RowsFit(rows, most, its) ==
  /\ \A r \in DOMAIN rows :
       /\ Len(rows[r]) >= 1 /\ (most = 0 \/ Len(rows[r]) <= most)
       /\ \A c \in DOMAIN rows[r] : CellFits(rows[r][c], its)
  /\ \A r, s \in DOMAIN rows : \A c \in DOMAIN rows[r], d \in DOMAIN rows[s] :
       r < s \/ (r = s /\ c < d) => rows[r][c].end < rows[s][d].begin

NodeFits(n, its, nds) ==
  /\ \A f \in Filled(NodeFields(n)) : FieldFits(f, its, nds)
  /\ InOrder(n.list, its)
  /\ n.kind \in Three => n.list = << >>
  /\ RowsFit(n.rows, 0, its)

(* How far a frame has got: to a delimiter it awaits, else to b; what it   *)
(* has settled ends where the script or the construct in progress begins.  *)
Edge(f, b) == IF Waiting(f) THEN f.wait.at ELSE b
Settled(f, b) ==
  IF Collecting(f) THEN IF f.collect.item = 0 THEN f.collect.script.mark ELSE f.collect.begin
  ELSE IF Pending(f) THEN f.pending.mark ELSE Edge(f, b)

(* Where the list of a frame may begin, and where the frame itself does.   *)
Floor(f)   == IF f.role = "CELL" THEN f.cellStart ELSE f.open
Opening(f) == IF f.role = "SCRIPT" THEN f.script.mark ELSE f.open

Reaching(f, s, its) ==
  \A j \in DOMAIN f.list :
    /\ Floor(f) <= its[f.list[j]].begin
    /\ IF Collecting(f) /\ f.list[j] = f.collect.item
         THEN its[f.list[j]].begin = f.collect.begin
         ELSE its[f.list[j]].end <= s

MarksFit(f, b) ==
  /\ f.role = "SCRIPT" => f.script.mark <= f.open
  /\ Floor(f) <= Settled(f, b)
  /\ Waiting(f) => f.wait.at <= b
  /\ Pending(f) => f.pending.mark <= Edge(f, b)
  /\ Collecting(f) => /\ f.collect.begin <= Edge(f, b)
                      /\ f.collect.item = 0 => f.collect.script.mark <= f.collect.begin

(* The first argument of the construct collected is inside it.             *)
ArgumentFits(f, b, nds) ==
  Building(f) /\ nds[f.collect.node].first.kind # "EMPTY" =>
    /\ f.collect.begin <= nds[f.collect.node].first.begin
    /\ nds[f.collect.node].first.end <= Edge(f, b)

AllRows(f) == IF f.cells = << >> THEN f.rows ELSE Append(f.rows, f.cells)

EndBefore(rows, at) == \A r \in DOMAIN rows : \A c \in DOMAIN rows[r] : rows[r][c].end < at

CellsFit(f, its) ==
  f.role = "CELL" =>
    /\ RowsFit(AllRows(f), Columns(f.env), its)
    /\ EndBefore(AllRows(f), f.cellStart)
    /\ Columns(f.env) # 0 => Len(f.cells) < Columns(f.env)

(* Nothing the root has settled is skipped, but blanks.                    *)
Covering(f, s, its, txt) ==
  f.role = "ROOT" =>
    \A p \in DOMAIN txt : p <= s /\ txt[p] \notin Blank \cup {"END"} =>
      \E j \in DOMAIN f.list : its[f.list[j]].begin < p /\ p <= its[f.list[j]].end

FrameFits(f, b, its, nds, txt) ==
  /\ InOrder(f.list, its) /\ Reaching(f, Settled(f, b), its)
  /\ MarksFit(f, b) /\ ArgumentFits(f, b, nds) /\ CellsFit(f, its)
  /\ Covering(f, Settled(f, b), its, txt)

BoundAt(stk, i, b) == IF i = Len(stk) THEN b ELSE Opening(stk[i + 1])

Ranged(stk, its, nds, b, txt) ==
  /\ \A k \in DOMAIN its : ItemFits(its[k], its, nds)
  /\ \A n \in DOMAIN nds : NodeFits(nds[n], its, nds)
  /\ \A i \in DOMAIN stk : FrameFits(stk[i], BoundAt(stk, i, b), its, nds, txt)

-----------------------------------------------------------------------------
(***************************************************************************)
(* What fits goes on fitting while what it refers to stays.                *)
(***************************************************************************)

(* A list reads the same in other arenas.                                  *)
Agree(list, its, its2) ==
  \A j \in DOMAIN list : list[j] \in DOMAIN its2 /\ its2[list[j]] = its[list[j]]

RowsAgree(rows, its, its2) ==
  \A r \in DOMAIN rows : \A c \in DOMAIN rows[r] : Agree(rows[r][c].list, its, its2)

(* A construct changes only while its last argument is missing.            *)
NodesStay(nds, nds2) ==
  \A n \in DOMAIN nds :
    /\ n \in DOMAIN nds2
    /\ nds2[n] = nds[n] \/ (nds[n].kind \in Three /\ nds[n].last.kind = "EMPTY")

FencesAgree(its, nds, its2) == \A n \in DOMAIN nds : Agree(nds[n].list, its, its2)

(* Every list there is, but that of the top frame, reads the same.         *)
AllAgree(stk, its, nds, its2) ==
  /\ \A k \in DOMAIN its : \A f \in Filled(FieldsOf(its[k])) : Agree(f.list, its, its2)
  /\ \A n \in DOMAIN nds : \A f \in Filled(NodeFields(nds[n])) : Agree(f.list, its, its2)
  /\ FencesAgree(its, nds, its2)
  /\ \A n \in DOMAIN nds : RowsAgree(nds[n].rows, its, its2)
  /\ \A i \in DOMAIN stk : stk[i].role = "CELL" => RowsAgree(AllRows(stk[i]), its, its2)
  /\ \A i \in 1 .. Len(stk) - 1 : Agree(stk[i].list, its, its2)

(* Order and span of a list are read from its items.                       *)
LEMMA ListKept ==
  ASSUME NEW list, NEW its, NEW its2, Agree(list, its, its2)
  PROVE  /\ InOrder(list, its) => InOrder(list, its2)
         /\ \A b, e : Spans(list, its, b, e) => Spans(list, its2, b, e)
BY DEF Agree, InOrder, Spans

(* A field fits in the arenas that its list and its construct stay in.     *)
LEMMA FieldKept ==
  ASSUME NEW field, NEW its, NEW nds, FieldFits(field, its, nds),
         NEW its2, NEW nds2, Agree(field.list, its, its2),
         NodesStay(nds, nds2), FencesAgree(its, nds, its2)
  PROVE  FieldFits(field, its2, nds2)
<1>1. InOrder(field.list, its2) /\ Spans(field.list, its2, field.begin, field.end)
  BY ListKept DEF FieldFits
<1>2. ASSUME field.node # 0
      PROVE  field.node \in DOMAIN nds2 /\ Holding(field, nds2[field.node], its2)
  <2> DEFINE n == nds[field.node]
  <2>1. field.node \in DOMAIN nds /\ Holding(field, n, its) BY <1>2 DEF FieldFits
  <2>2. field.node \in DOMAIN nds2 /\ nds2[field.node] = n
    BY <2>1 DEF NodesStay, Holding
  <2>3. Agree(n.list, its, its2) BY <2>1 DEF FencesAgree
  <2> HIDE DEF n
  <2>4. Holding(field, n, its2) BY <2>1, <2>3, ListKept DEF Holding
  <2> QED BY <2>2, <2>4
<1> QED BY <1>1, <1>2 DEF FieldFits

(* So does an item, ...                                                    *)
LEMMA ItemKept ==
  ASSUME NEW it, NEW its, NEW nds, ItemFits(it, its, nds),
         NEW its2, NEW nds2, \A f \in Filled(FieldsOf(it)) : Agree(f.list, its, its2),
         NodesStay(nds, nds2), FencesAgree(its, nds, its2)
  PROVE  ItemFits(it, its2, nds2)
<1>1. \A f \in Filled(FieldsOf(it)) : FieldFits(f, its2, nds2) BY FieldKept DEF ItemFits
<1> QED BY <1>1 DEF ItemFits

(* ... rows and their cells, ...                                           *)
LEMMA RowsKept ==
  ASSUME NEW rows, NEW most, NEW its, RowsFit(rows, most, its),
         NEW its2, RowsAgree(rows, its, its2)
  PROVE  RowsFit(rows, most, its2)
<1>1. \A r \in DOMAIN rows : \A c \in DOMAIN rows[r] : CellFits(rows[r][c], its2)
  <2> SUFFICES ASSUME NEW r \in DOMAIN rows, NEW c \in DOMAIN rows[r]
               PROVE  CellFits(rows[r][c], its2)
    OBVIOUS
  <2>1. CellFits(rows[r][c], its) BY DEF RowsFit
  <2>2. Agree(rows[r][c].list, its, its2) BY DEF RowsAgree
  <2> QED BY <2>1, <2>2, ListKept DEF CellFits
<1> QED BY <1>1 DEF RowsFit

(* ... and a construct.                                                    *)
LEMMA NodeKept ==
  ASSUME NEW n, NEW its, NEW nds, NodeFits(n, its, nds), NEW its2, NEW nds2,
         \A f \in Filled(NodeFields(n)) : Agree(f.list, its, its2),
         Agree(n.list, its, its2), RowsAgree(n.rows, its, its2),
         NodesStay(nds, nds2), FencesAgree(its, nds, its2)
  PROVE  NodeFits(n, its2, nds2)
<1>1. \A f \in Filled(NodeFields(n)) : FieldFits(f, its2, nds2) BY FieldKept DEF NodeFits
<1>2. InOrder(n.list, its2) BY ListKept DEF NodeFits
<1>3. RowsFit(n.rows, 0, its2) BY RowsKept DEF NodeFits
<1> QED BY <1>1, <1>2, <1>3 DEF NodeFits

(* A frame fits while its list, its cells and its construct stay.          *)
LEMMA FrameKept ==
  ASSUME NEW f, NEW b, NEW its, NEW nds, NEW txt, FrameFits(f, b, its, nds, txt),
         NEW its2, NEW nds2, Agree(f.list, its, its2),
         f.role = "CELL" => RowsAgree(AllRows(f), its, its2),
         Building(f) => nds2[f.collect.node] = nds[f.collect.node]
  PROVE  FrameFits(f, b, its2, nds2, txt)
<1>1. InOrder(f.list, its2) BY ListKept DEF FrameFits
<1>2. Reaching(f, Settled(f, b), its2) BY DEF FrameFits, Reaching, Agree
<1>3. ArgumentFits(f, b, nds2) BY DEF FrameFits, ArgumentFits
<1>4. CellsFit(f, its2) BY RowsKept DEF FrameFits, CellsFit
<1>5. Covering(f, Settled(f, b), its2, txt)
  <2>1. Covering(f, Settled(f, b), its, txt) BY DEF FrameFits
  <2> DEFINE s == Settled(f, b)
  <2> HIDE DEF s
  <2>2. Covering(f, s, its, txt) BY <2>1 DEF s
  <2>3. Covering(f, s, its2, txt)
    <3> SUFFICES ASSUME f.role = "ROOT", NEW p \in DOMAIN txt, p <= s,
                        txt[p] \notin Blank \cup {"END"}
                 PROVE  \E j \in DOMAIN f.list :
                          its2[f.list[j]].begin < p /\ p <= its2[f.list[j]].end
      BY DEF Covering
    <3>1. PICK j \in DOMAIN f.list : its[f.list[j]].begin < p /\ p <= its[f.list[j]].end
      BY <2>2 DEF Covering
    <3>2. its2[f.list[j]] = its[f.list[j]] BY DEF Agree
    <3> QED BY <3>1, <3>2
  <2> QED BY <2>3 DEF s
<1> QED BY <1>1, <1>2, <1>3, <1>4, <1>5 DEF FrameFits

(* What is finished stays, and so does what the frames below build.        *)
Spared(stk, nds, nds2) ==
  /\ NodesStay(nds, nds2)
  /\ \A i \in 1 .. Len(stk) - 1 :
       Building(stk[i]) => nds2[stk[i].collect.node] = nds[stk[i].collect.node]

(* Nothing changed spares everything.                                      *)
LEMMA SparedStill == ASSUME NEW stk, NEW nds PROVE Spared(stk, nds, nds)
BY DEF Spared, NodesStay

(* The top frame writes only to the construct it builds, or a new one.     *)
LEMMA NodesKept ==
  ASSUME NEW stk, NEW its, NEW nds, NEW p, Good(stk, its, nds), Sound(stk, its, nds, p),
         NEW nds2, NodesBut(nds, nds2, stk[Len(stk)])
  PROVE  Spared(stk, nds, nds2)
<1> DEFINE f == stk[Len(stk)]
<1>1. ItemsBut(its, its, f) BY DEF ItemsBut
<1>2. \A i \in 1 .. Len(stk) - 1 : SameRefs(stk[i], its, nds, its, nds2)
  BY <1>1, BelowUntouched
<1>3. Firm(f, its, nds, p) /\ f.collect \in Collect BY TopFirm
<1>4. NodesBut(nds, nds2, f) OBVIOUS
<1> HIDE DEF f
<1>5. Building(f) => /\ nds[f.collect.node].kind \in Three
                     /\ nds[f.collect.node].last.kind = "EMPTY"
  BY <1>3 DEF Building, Collecting, Firm, Begun, Collect, Three
<1>6. NodesStay(nds, nds2) BY <1>4, <1>5 DEF NodesStay, NodesBut
<1> QED BY <1>2, <1>6 DEF SameRefs, Spared

(* A step of the top frame: what it writes fits, and so does the frame.    *)
LEMMA RangedTop ==
  ASSUME NEW stk \in Seq(FrameType), stk # << >>, NEW its, NEW nds,
         NEW b, NEW txt, Ranged(stk, its, nds, b, txt), NEW its2, NEW nds2,
         AllAgree(stk, its, nds, its2), Spared(stk, nds, nds2),
         \A k \in DOMAIN its2 :
           (k \in DOMAIN its /\ its2[k] = its[k]) \/ ItemFits(its2[k], its2, nds2),
         \A n \in DOMAIN nds2 :
           (n \in DOMAIN nds /\ nds2[n] = nds[n]) \/ NodeFits(nds2[n], its2, nds2),
         NEW g \in FrameType, NEW b2, FrameFits(g, b2, its2, nds2, txt),
         Opening(g) = Opening(stk[Len(stk)])
  PROVE  Ranged(SetTop(stk, g), its2, nds2, b2, txt)
<1> DEFINE new == SetTop(stk, g)
           n   == Len(stk)
<1>0. stk \in Seq(FrameType) /\ stk # << >> OBVIOUS
<1>1. /\ n \in Nat /\ n >= 1 /\ DOMAIN stk = 1 .. n /\ Len(new) = n /\ DOMAIN new = 1 .. n
      /\ new[n] = g /\ \A i \in 1 .. n - 1 : new[i] = stk[i]
  <2>1. n \in Nat /\ n >= 1 /\ DOMAIN stk = 1 .. n BY <1>0
  <2>2. /\ new \in Seq(FrameType) /\ Len(new) = n /\ new[n] = g
        /\ \A i \in 1 .. n - 1 : new[i] = stk[i]
    BY <1>0, SetTopTyped
  <2> HIDE DEF new, n
  <2>3. DOMAIN new = 1 .. n BY <2>2
  <2> QED BY <2>1, <2>2, <2>3
<1>2. /\ NodesStay(nds, nds2)
      /\ \A i \in 1 .. n - 1 :
           Building(stk[i]) => nds2[stk[i].collect.node] = nds[stk[i].collect.node]
  BY DEF Spared
<1>3. ASSUME NEW k \in DOMAIN its2 PROVE ItemFits(its2[k], its2, nds2)
  <2>1. CASE k \in DOMAIN its /\ its2[k] = its[k]
    <3>1. ItemFits(its[k], its, nds) BY <2>1 DEF Ranged
    <3>2. \A f \in Filled(FieldsOf(its[k])) : Agree(f.list, its, its2) BY <2>1 DEF AllAgree
    <3>3. FencesAgree(its, nds, its2) BY DEF AllAgree
    <3> QED BY <1>2, <2>1, <3>1, <3>2, <3>3, ItemKept
  <2> QED BY <2>1
<1>4. ASSUME NEW k \in DOMAIN nds2 PROVE NodeFits(nds2[k], its2, nds2)
  <2>1. CASE k \in DOMAIN nds /\ nds2[k] = nds[k]
    <3>1. NodeFits(nds[k], its, nds) BY <2>1 DEF Ranged
    <3>2. FencesAgree(its, nds, its2) BY DEF AllAgree
    <3>3. /\ \A f \in Filled(NodeFields(nds[k])) : Agree(f.list, its, its2)
          /\ Agree(nds[k].list, its, its2) /\ RowsAgree(nds[k].rows, its, its2)
      BY <2>1 DEF AllAgree, FencesAgree
    <3> QED BY <1>2, <2>1, <3>1, <3>2, <3>3, NodeKept
  <2> QED BY <2>1
<1>5. /\ \A i \in 1 .. n : FrameFits(stk[i], BoundAt(stk, i, b), its, nds, txt)
      /\ \A i \in 1 .. n : stk[i].role = "CELL" => RowsAgree(AllRows(stk[i]), its, its2)
      /\ \A i \in 1 .. n - 1 : Agree(stk[i].list, its, its2)
  BY <1>1 DEF Ranged, AllAgree
<1>6. /\ \A i \in 1 .. n - 1 : BoundAt(stk, i, b) = Opening(stk[i + 1])
      /\ \A i \in 1 .. n - 1 : BoundAt(new, i, b2) = Opening(new[i + 1])
      /\ BoundAt(new, n, b2) = b2
  <2>1. /\ \A i : BoundAt(stk, i, b) = IF i = n THEN b ELSE Opening(stk[i + 1])
        /\ \A i : BoundAt(new, i, b2) = IF i = Len(new) THEN b2 ELSE Opening(new[i + 1])
    BY DEF BoundAt
  <2>2. n \in Nat /\ Len(new) = n BY <1>1
  <2> HIDE DEF new, n
  <2> QED BY <2>1, <2>2
<1>7. Opening(g) = Opening(stk[n]) /\ FrameFits(g, b2, its2, nds2, txt) OBVIOUS
<1> HIDE DEF new, n
<1>8. ASSUME NEW i \in 1 .. n
      PROVE  FrameFits(new[i], BoundAt(new, i, b2), its2, nds2, txt)
  <2>1. CASE i = n BY <1>1, <1>6, <1>7, <2>1
  <2>2. CASE i # n
    <3>1. i \in 1 .. n - 1 /\ i + 1 \in 1 .. n BY <1>1, <2>2
    <3>2. Opening(new[i + 1]) = Opening(stk[i + 1])
      <4>1. CASE i + 1 = n BY <1>1, <1>7, <4>1
      <4>2. CASE i + 1 # n
        <5>1. i + 1 \in 1 .. n - 1 BY <1>1, <3>1, <4>2
        <5> QED BY <1>1, <5>1
      <4> QED BY <4>1, <4>2
    <3> DEFINE x == BoundAt(stk, i, b)
    <3>3. BoundAt(new, i, b2) = x BY <1>6, <3>1, <3>2
    <3>4. /\ FrameFits(stk[i], x, its, nds, txt) /\ Agree(stk[i].list, its, its2)
          /\ stk[i].role = "CELL" => RowsAgree(AllRows(stk[i]), its, its2)
          /\ Building(stk[i]) => nds2[stk[i].collect.node] = nds[stk[i].collect.node]
      BY <1>2, <1>5, <3>1
    <3> HIDE DEF x
    <3>5. FrameFits(stk[i], x, its2, nds2, txt) BY <3>4, FrameKept
    <3> QED BY <1>1, <3>1, <3>3, <3>5
  <2> QED BY <2>1, <2>2
<1>9. Ranged(new, its2, nds2, b2, txt) BY <1>1, <1>3, <1>4, <1>8 DEF Ranged
<1> QED BY <1>9 DEF new

-----------------------------------------------------------------------------
(***************************************************************************)
(* What has been consumed of the source is not read again.                 *)
(***************************************************************************)
TextStays == \A i \in 1 .. pos : text'[i] = text[i]

(* A token, or a command and a name.                                       *)
LEMMA ScanStays ==
  ASSUME Standing, NEW t \in Source
  PROVE  (Scan(t) => TextStays) /\ \A name \in Source : ScanNamed(t, name) => TextStays
<1>1. text \in Seq(Source) /\ pos \in Nat /\ ReadTo(text, pos)
  BY DEF Standing, IInv, Reading
<1> HIDE DEF Source
<1>2. ASSUME Upcoming(t)
      PROVE  /\ With(t) \in Seq(Source) /\ pos + 1 <= Len(With(t))
             /\ \A i \in 1 .. pos : With(t)[i] = text[i]
  BY <1>1, <1>2, WithRead
<1>3. Scan(t) => TextStays BY <1>2 DEF Scan, TextStays
<1>4. ASSUME NEW name \in Source, ScanNamed(t, name) PROVE TextStays
  <2> DEFINE w == With(t)
  <2>1. Upcoming(t) /\ text' = Append(w, name) BY <1>4 DEF ScanNamed
  <2>2. w \in Seq(Source) /\ pos + 1 <= Len(w) /\ \A i \in 1 .. pos : w[i] = text[i]
    BY <1>2, <2>1
  <2> HIDE DEF w
  <2>3. \A i \in 1 .. pos : Append(w, name)[i] = w[i] BY <1>1, <2>2
  <2> QED BY <2>1, <2>2, <2>3 DEF TextStays
<1> QED BY <1>3, <1>4

(* A row terminator, whatever it looks ahead at.                           *)
LEMMA RowStays == ASSUME Standing, RowTerminator PROVE TextStays
<1> DEFINE seen == With("\\\\")
<1>1. result.status = "RUNNING" /\ Upcoming("\\\\") BY DEF RowTerminator
<1>2. PICK look \in Lookaheads(seen) :
        \/ RowEnded(seen, pos + 1, look)
        \/ \E more \in Lookaheads(seen \o look) :
             RowEnded(seen \o look, pos + 1 + Len(look), more)
  BY DEF RowTerminator
<1>3. text \in Seq(Source) /\ pos \in Nat /\ ReadTo(text, pos)
  BY DEF Standing, IInv, Reading
<1>4. "\\\\" \in Source /\ "\\\\" # "SPACE" BY AlphabetRead
<1> HIDE DEF Source
<1>5. /\ seen \in Seq(Source) /\ Len(seen) = pos + 1
      /\ \A i \in 1 .. pos : seen[i] = text[i]
  BY <1>1, <1>3, <1>4, WithRead
<1> HIDE DEF seen
<1>6. /\ look \in Seq(Source) /\ Len(look) \in Nat /\ (Len(look) = 1 \/ Len(look) = 2)
  BY LookaheadShort
<1> DEFINE all == seen \o look
<1>7. /\ all \in Seq(Source) /\ Len(all) = pos + 1 + Len(look)
      /\ \A i \in 1 .. pos : all[i] = text[i]
  <2>1. /\ all \in Seq(Source) /\ Len(all) = Len(seen) + Len(look)
        /\ \A i \in 1 .. Len(seen) : all[i] = seen[i]
    BY <1>5, <1>6, JoinedParts
  <2>2. \A i \in 1 .. pos : i \in 1 .. Len(seen) BY <1>3, <1>5
  <2> HIDE DEF all
  <2> QED BY <1>5, <2>1, <2>2
<1>8. CASE RowEnded(seen, pos + 1, look)
  <2>1. text' = all BY <1>8 DEF RowEnded
  <2> HIDE DEF all
  <2> QED BY <1>7, <2>1 DEF TextStays
<1>9. ASSUME NEW more \in Lookaheads(all), RowEnded(all, pos + 1 + Len(look), more)
      PROVE  TextStays
  <2>1. text' = all \o more BY <1>9 DEF RowEnded
  <2> HIDE DEF all
  <2>2. more \in Seq(Source) /\ (Len(more) = 1 \/ Len(more) = 2) BY LookaheadShort
  <2>3. \A i \in 1 .. Len(all) : (all \o more)[i] = all[i] BY <1>7, <2>2, JoinedParts
  <2>4. \A i \in 1 .. pos : i \in 1 .. Len(all) BY <1>3, <1>6, <1>7
  <2> QED BY <1>7, <2>1, <2>3, <2>4 DEF TextStays
<1> QED BY <1>2, <1>8, <1>9

(* Every handler.                                                          *)
LEMMA NextStays == ASSUME Standing, Next PROVE TextStays
<1>1. /\ Alphabet \subseteq Source /\ Named \subseteq Source
      /\ \A t \in {"BAD", "PAR", "SPACE", "END", "[", "]", "{", "}", "&"} : t \in Source
      /\ "\\\\" \in Source /\ "\\begin" \in Source /\ "\\end" \in Source
  BY AlphabetRead
<1> HIDE DEF Source
<1>2. ASSUME NEW t \in {"BAD", "PAR", "SPACE", "END", "[", "]", "{", "}", "&", "\\\\"}, Scan(t)
      PROVE  TextStays
  BY <1>1, <1>2, ScanStays
<1>3. ASSUME NEW t \in Alphabet, Scan(t) PROVE TextStays BY <1>1, <1>3, ScanStays
<1>4. CASE \/ Accept \/ EndTooEarly \/ ScanError \/ ParagraphBreak \/ MathBlank \/ WordSpace
  BY <1>2, <1>4 DEF Accept, EndTooEarly, ScanError, ParagraphBreak, MathBlank, WordSpace
<1>5. CASE \/ OpenIndex \/ CloseIndex \/ OpenGroup \/ CloseText \/ CloseGroup \/ CloseScript
           \/ UnmatchedBrace \/ AlignmentTab \/ MisplacedRow
  BY <1>2, <1>5
  DEF OpenIndex, CloseIndex, OpenGroup, CloseText, CloseGroup, CloseScript, UnmatchedBrace,
      AlignmentTab, MisplacedRow, Allowed, MathToken
<1>6. CASE RowTerminator BY <1>6, RowStays
<1>7. ASSUME NEW name \in Named, BeginEnvironment(name) \/ EndEnvironment(name)
      PROVE  TextStays
  <2>1. ScanNamed("\\begin", name) \/ ScanNamed("\\end", name)
    BY <1>7 DEF BeginEnvironment, EndEnvironment
  <2> QED BY <1>1, <2>1, ScanStays
<1>8. ASSUME NEW t \in Alphabet,
             \/ MissingDelimiter(t) \/ OpenFence(t) \/ CloseFence(t) \/ SizedDelimiter(t)
             \/ AskForDelimiter(t) \/ MissingArgument(t) \/ ScriptMark(t)
             \/ StyleCommand(t) \/ ConstructCommand(t) \/ Operator(t) \/ LimitsCommand(t)
             \/ GlyphToken(t) \/ TextGlyph(t) \/ SpacingCommand(t) \/ Unsupported(t)
      PROVE  TextStays
  <2>1. Scan(t)
    BY <1>8
    DEF MissingDelimiter, OpenFence, CloseFence, SizedDelimiter, AskForDelimiter,
        MissingArgument, ScriptMark, StyleCommand, ConstructCommand, Operator, LimitsCommand,
        GlyphToken, TextGlyph, SpacingCommand, Unsupported, AwaitsDelimiter, MathToken, Allowed
  <2> QED BY <1>3, <2>1
<1> QED BY <1>4, <1>5, <1>6, <1>7, <1>8 DEF Next

-----------------------------------------------------------------------------
(***************************************************************************)
(* How a frame goes on fitting when it turns, grows or is amended.         *)
(***************************************************************************)

(* Where a frame is, is a place in the source.                             *)
LEMMA Measures ==
  ASSUME NEW f \in FrameType, NEW b \in Nat
  PROVE  /\ Edge(f, b) \in Nat /\ Settled(f, b) \in Nat /\ Floor(f) \in Nat /\ Opening(f) \in Nat
         /\ f.open \in Nat /\ f.cellStart \in Nat /\ f.wait.at \in Nat
         /\ f.pending.mark \in Nat /\ f.script.mark \in Nat
         /\ f.collect.begin \in Nat /\ f.collect.script.mark \in Nat /\ f.list \in Seq(Nat)
<1>1. /\ f.open \in Nat /\ f.cellStart \in Nat /\ f.wait \in Wait /\ f.pending \in Script
      /\ f.script \in Script /\ f.collect \in Collect /\ f.list \in Seq(Nat)
  BY DEF FrameType
<1>2. /\ f.wait.at \in Nat /\ f.pending.mark \in Nat /\ f.script.mark \in Nat
      /\ f.collect.begin \in Nat /\ f.collect.script \in Script
  BY <1>1 DEF Wait, Script, Collect
<1>3. f.collect.script.mark \in Nat BY <1>2 DEF Script
<1> QED BY <1>1, <1>2, <1>3 DEF Edge, Settled, Floor, Opening

(* So is where an item begins and ends.                                    *)
LEMMA ItemSpans ==
  ASSUME NEW its \in Seq(Item)
  PROVE  \A k \in DOMAIN its : its[k] \in Item /\ its[k].begin \in Nat /\ its[k].end \in Nat
<1>1. \A k \in DOMAIN its : its[k] \in Item OBVIOUS
<1> QED BY <1>1 DEF Item

(* The same frame, but for what it collects and what it waits for.         *)
Kindred(f, g) ==
  /\ g.role = f.role /\ g.open = f.open /\ g.script = f.script /\ g.env = f.env
  /\ g.cellStart = f.cellStart /\ g.cells = f.cells /\ g.rows = f.rows

(* What a frame collects has its place in the list, or none.               *)
Grasps(f, g) ==
  \/ /\ Collecting(f) /\ Collecting(g)
     /\ g.collect.item = f.collect.item /\ g.collect.begin = f.collect.begin
  \/ ~Collecting(f) /\ (Collecting(g) => g.collect.item = 0)

(* A frame turns to something else, its list as it is.                     *)
LEMMA FrameTurned ==
  ASSUME NEW f \in FrameType, NEW b \in Nat, NEW its \in Seq(Item), NEW nds, NEW txt,
         FrameFits(f, b, its, nds, txt),
         NEW g \in FrameType, Kindred(f, g), g.list = f.list, Grasps(f, g),
         NEW b2 \in Nat, Settled(g, b2) = Settled(f, b),
         NEW its2, Agree(f.list, its, its2), f.role = "CELL" => RowsAgree(AllRows(f), its, its2),
         NEW nds2, MarksFit(g, b2), ArgumentFits(g, b2, nds2)
  PROVE  FrameFits(g, b2, its2, nds2, txt)
<1> DEFINE s == Settled(f, b)
<1>1. InOrder(f.list, its) /\ Reaching(f, s, its) /\ CellsFit(f, its) /\ Covering(f, s, its, txt)
  BY DEF FrameFits
<1>2. Settled(g, b2) = s OBVIOUS
<1> HIDE DEF s
<1>3. /\ InOrder(g.list, its2) BY <1>1, ListKept
<1>4. \A j \in DOMAIN f.list : f.list[j] # 0 /\ its2[f.list[j]] = its[f.list[j]]
  <2>1. \A k \in DOMAIN its : k # 0 OBVIOUS
  <2> QED BY <1>1, <2>1 DEF InOrder, Agree
<1>5. Reaching(g, s, its2)
  <2>1. Floor(g) = Floor(f) BY DEF Floor, Kindred
  <2> QED BY <1>1, <1>4, <2>1 DEF Reaching, Grasps
<1>6. CellsFit(g, its2)
  <2>1. AllRows(g) = AllRows(f) /\ g.role = f.role /\ g.env = f.env /\ g.cells = f.cells
        /\ g.cellStart = f.cellStart
    BY DEF AllRows, Kindred
  <2>2. f.role = "CELL" => RowsFit(AllRows(f), Columns(f.env), its2)
    BY <1>1, RowsKept DEF CellsFit
  <2> QED BY <1>1, <2>1, <2>2 DEF CellsFit
<1>7. Covering(g, s, its2, txt)
  <2>1. g.role = f.role /\ g.list = f.list BY DEF Kindred
  <2> SUFFICES ASSUME f.role = "ROOT", NEW p \in DOMAIN txt, p <= s,
                      txt[p] \notin Blank \cup {"END"}
               PROVE  \E j \in DOMAIN f.list : its2[f.list[j]].begin < p /\ p <= its2[f.list[j]].end
    BY <2>1 DEF Covering
  <2>2. PICK j \in DOMAIN f.list : its[f.list[j]].begin < p /\ p <= its[f.list[j]].end
    BY <1>1 DEF Covering
  <2> QED BY <1>4, <2>2
<1> QED BY <1>2, <1>3, <1>5, <1>6, <1>7 DEF FrameFits

(* An idle frame has settled all it has read.                              *)
LEMMA IdleMarks ==
  ASSUME NEW f, NEW b, Idle(f), ~Waiting(f), NEW nds
  PROVE  /\ Settled(f, b) = b /\ ArgumentFits(f, b, nds)
         /\ Floor(f) <= b /\ (f.role = "SCRIPT" => f.script.mark <= f.open) => MarksFit(f, b)
BY DEF Idle, Settled, Edge, ArgumentFits, Building, MarksFit

(* One that has just been pushed fits.                                     *)
LEMMA FrameFresh ==
  ASSUME NEW f, NEW b, f.list = << >>, Idle(f), ~Waiting(f), f.role # "ROOT",
         f.cells = << >>, f.rows = << >>, Floor(f) <= b,
         f.role = "SCRIPT" => f.script.mark <= f.open,
         f.role = "CELL" => f.env \in Environments, NEW its, NEW nds, NEW txt
  PROVE  FrameFits(f, b, its, nds, txt)
<1>1. Settled(f, b) = b /\ ArgumentFits(f, b, nds) /\ MarksFit(f, b) BY IdleMarks
<1>2. InOrder(f.list, its) /\ Reaching(f, Settled(f, b), its) BY DEF InOrder, Reaching
<1>3. CellsFit(f, its)
  <2>1. AllRows(f) = << >> BY DEF AllRows
  <2>2. Len(f.cells) = 0 /\ (f.role = "CELL" => Columns(f.env) \in Nat)
    BY BoundAssumption DEF Columns
  <2> QED BY <2>1, <2>2 DEF CellsFit, RowsFit, EndBefore
<1> QED BY <1>1, <1>2, <1>3 DEF FrameFits, Covering

(* An item is appended to the list of a frame that has settled all.        *)
LEMMA FrameGrown ==
  ASSUME NEW f \in FrameType, NEW b \in Nat, NEW its \in Seq(Item), NEW nds, NEW txt,
         FrameFits(f, b, its, nds, txt), Idle(f), ~Waiting(f),
         NEW g \in FrameType, Kindred(f, g), NEW k, k \notin DOMAIN its, g.list = Append(f.list, k),
         NEW its2 \in Seq(Item), k \in DOMAIN its2, Agree(f.list, its, its2),
         f.role = "CELL" => RowsAgree(AllRows(f), its, its2),
         b <= its2[k].begin, its2[k].begin <= its2[k].end,
         NEW b2 \in Nat, NEW s2 \in Nat, Settled(g, b2) = s2,
         s2 = b \/ (its2[k].begin = b /\ its2[k].end = s2),
         Collecting(g) => g.collect.item = k /\ its2[k].begin = g.collect.begin,
         ~Collecting(g) => its2[k].end <= s2,
         NEW nds2, MarksFit(g, b2), ArgumentFits(g, b2, nds2), DOMAIN txt \subseteq Nat
  PROVE  FrameFits(g, b2, its2, nds2, txt)
<1>1. /\ InOrder(f.list, its) /\ Reaching(f, b, its) /\ CellsFit(f, its)
      /\ Covering(f, b, its, txt) /\ Floor(f) <= b /\ ~Collecting(f)
  BY IdleMarks DEF FrameFits, MarksFit, Idle
<1>2. /\ f.list \in Seq(Nat) /\ Len(f.list) \in Nat /\ Floor(f) \in Nat
      /\ DOMAIN f.list = 1 .. Len(f.list)
  <2>1. f.list \in Seq(Nat) /\ Floor(f) \in Nat BY Measures
  <2> QED BY <2>1
<1> DEFINE n == Len(f.list) + 1
           x == its2[k].begin
           e == its2[k].end
<1>3. /\ DOMAIN g.list = 1 .. n /\ g.list[n] = k /\ n \in Nat
      /\ \A j \in DOMAIN f.list : j \in DOMAIN g.list /\ g.list[j] = f.list[j] /\ j < n
      /\ \A j \in DOMAIN g.list : j \in DOMAIN f.list \/ j = n
  <2> DEFINE l == f.list
             m == Append(l, k)
  <2>1. l \in Seq(Nat) /\ g.list = m BY <1>2
  <2>2. k \in Nat OBVIOUS
  <2> HIDE DEF l
  <2>3. /\ DOMAIN m = 1 .. Len(l) + 1 /\ m[Len(l) + 1] = k /\ Len(l) \in Nat
        /\ \A j \in 1 .. Len(l) : m[j] = l[j]
    BY <2>1, <2>2
  <2>4. DOMAIN l = 1 .. Len(l) BY <2>1
  <2> HIDE DEF m
  <2>5. /\ \A j \in DOMAIN l : j \in DOMAIN m /\ m[j] = l[j] /\ j < Len(l) + 1
        /\ \A j \in DOMAIN m : j \in DOMAIN l \/ j = Len(l) + 1
    BY <2>3, <2>4
  <2> QED BY <2>1, <2>3, <2>5 DEF l
<1>4. x \in Nat /\ e \in Nat /\ b <= x /\ x <= e BY ItemSpans
<1>5. \A j \in DOMAIN f.list :
        /\ f.list[j] \in DOMAIN its /\ f.list[j] # k
        /\ f.list[j] \in DOMAIN its2 /\ its2[f.list[j]] = its[f.list[j]]
        /\ its[f.list[j]].begin \in Nat /\ its[f.list[j]].end \in Nat
        /\ its[f.list[j]].begin <= its[f.list[j]].end /\ its[f.list[j]].end <= b
        /\ Floor(f) <= its[f.list[j]].begin
  <2> SUFFICES ASSUME NEW j \in DOMAIN f.list
               PROVE  /\ f.list[j] \in DOMAIN its /\ f.list[j] # k
                      /\ f.list[j] \in DOMAIN its2 /\ its2[f.list[j]] = its[f.list[j]]
                      /\ its[f.list[j]].begin \in Nat /\ its[f.list[j]].end \in Nat
                      /\ its[f.list[j]].begin <= its[f.list[j]].end /\ its[f.list[j]].end <= b
                      /\ Floor(f) <= its[f.list[j]].begin
    OBVIOUS
  <2>1. f.list[j] \in DOMAIN its /\ its[f.list[j]].begin <= its[f.list[j]].end
    BY <1>1 DEF InOrder
  <2>2. f.list[j] # k BY <2>1
  <2>3. f.list[j] \in DOMAIN its2 /\ its2[f.list[j]] = its[f.list[j]] BY DEF Agree
  <2>4. its[f.list[j]].begin \in Nat /\ its[f.list[j]].end \in Nat BY <2>1, ItemSpans
  <2>5. its[f.list[j]].end <= b /\ Floor(f) <= its[f.list[j]].begin BY <1>1 DEF Reaching
  <2> QED BY <2>1, <2>2, <2>3, <2>4, <2>5
<1>6. \/ s2 = b
      \/ x = b /\ e = s2
  OBVIOUS
<1>7. b <= s2 BY <1>4, <1>6
<1>8. IF Collecting(g) THEN g.collect.item = k /\ x = g.collect.begin ELSE e <= s2 OBVIOUS
<1> HIDE DEF n
<1>9. InOrder(g.list, its2)
  <2>1. \A j \in DOMAIN g.list :
          g.list[j] \in DOMAIN its2 /\ its2[g.list[j]].begin <= its2[g.list[j]].end
    BY <1>3, <1>4, <1>5
  <2>2. ASSUME NEW i \in DOMAIN g.list, NEW j \in DOMAIN g.list, i < j
        PROVE  its2[g.list[i]].end <= its2[g.list[j]].begin
    <3>0. i \in Nat /\ j \in Nat /\ i <= n /\ j <= n BY <1>3
    <3>1. i \in DOMAIN f.list BY <1>3, <2>2, <3>0
    <3>2. CASE j \in DOMAIN f.list
      <4>1. its[f.list[i]].end <= its[f.list[j]].begin BY <1>1, <2>2, <3>1, <3>2 DEF InOrder
      <4> QED BY <1>3, <1>5, <3>1, <3>2, <4>1
    <3>3. CASE j = n
      <4>1. its2[g.list[i]] = its[f.list[i]] /\ its[f.list[i]].end \in Nat
            /\ its[f.list[i]].end <= b /\ its2[g.list[j]].begin = x
        BY <1>3, <1>5, <3>1, <3>3
      <4> DEFINE u == its[f.list[i]].end
      <4>2. u <= x
        <5>1. u \in Nat /\ u <= b BY <4>1
        <5> HIDE DEF u, x
        <5> QED BY <1>4, <5>1
      <4> HIDE DEF x
      <4> QED BY <4>1, <4>2
    <3> QED BY <1>3, <3>2, <3>3
  <2> QED BY <2>1, <2>2 DEF InOrder
<1>10. Reaching(g, s2, its2)
  <2>1. Floor(g) = Floor(f) BY DEF Floor, Kindred
  <2> SUFFICES ASSUME NEW j \in DOMAIN g.list
               PROVE  /\ Floor(g) <= its2[g.list[j]].begin
                      /\ IF Collecting(g) /\ g.list[j] = g.collect.item
                           THEN its2[g.list[j]].begin = g.collect.begin
                           ELSE its2[g.list[j]].end <= s2
    BY DEF Reaching
  <2>2. CASE j \in DOMAIN f.list
    <3>1. g.list[j] = f.list[j] /\ its2[g.list[j]] = its[f.list[j]] /\ g.list[j] # k
      BY <1>3, <1>5, <2>2
    <3>2. ~(Collecting(g) /\ g.list[j] = g.collect.item) BY <1>8, <3>1
    <3> QED BY <1>5, <1>7, <2>1, <2>2, <3>1, <3>2
  <2>3. CASE j = n BY <1>1, <1>2, <1>3, <1>4, <1>8, <2>1, <2>3
  <2> QED BY <1>3, <2>2, <2>3
<1>11. CellsFit(g, its2)
  <2>1. AllRows(g) = AllRows(f) /\ g.role = f.role /\ g.env = f.env /\ g.cells = f.cells
        /\ g.cellStart = f.cellStart
    BY DEF AllRows, Kindred
  <2>2. f.role = "CELL" => RowsFit(AllRows(f), Columns(f.env), its2)
    BY <1>1, RowsKept DEF CellsFit
  <2> QED BY <1>1, <2>1, <2>2 DEF CellsFit
<1>12. Covering(g, s2, its2, txt)
  <2>1. g.role = f.role BY DEF Kindred
  <2> SUFFICES ASSUME f.role = "ROOT", NEW p \in DOMAIN txt, p <= s2,
                      txt[p] \notin Blank \cup {"END"}
               PROVE  \E j \in DOMAIN g.list : its2[g.list[j]].begin < p /\ p <= its2[g.list[j]].end
    BY <2>1 DEF Covering
  <2>2. p \in Nat OBVIOUS
  <2>3. CASE p <= b
    <3>1. PICK j \in DOMAIN f.list : its[f.list[j]].begin < p /\ p <= its[f.list[j]].end
      BY <1>1, <2>3 DEF Covering
    <3>2. g.list[j] = f.list[j] /\ its2[f.list[j]] = its[f.list[j]] /\ j \in DOMAIN g.list
      BY <1>3, <1>5
    <3>3. its2[g.list[j]] = its[f.list[j]] BY <3>2
    <3> QED BY <3>1, <3>2, <3>3
  <2>4. CASE ~(p <= b)
    <3>1. x = b /\ e = s2 /\ b < p BY <1>6, <2>2, <2>4
    <3>2. n \in DOMAIN g.list /\ its2[g.list[n]].begin < p /\ p <= its2[g.list[n]].end
      BY <1>2, <1>3, <3>1
    <3> QED BY <3>2
  <2> QED BY <2>3, <2>4
<1> QED BY <1>9, <1>10, <1>11, <1>12 DEF FrameFits

(* The last item of a list is amended: the frame is idle again at its end. *)
LEMMA FrameAmended ==
  ASSUME NEW f \in FrameType, NEW b \in Nat, NEW its \in Seq(Item), NEW nds, NEW txt,
         FrameFits(f, b, its, nds, txt), Rising(f.list), f.list # << >>,
         NEW v \in Item, v.begin = its[Tail1(f)].begin, NEW q \in Nat, v.end = q,
         Settled(f, b) <= q,
         NEW its2, its2 = [its EXCEPT ![Tail1(f)] = v],
         f.role = "CELL" => RowsAgree(AllRows(f), its, its2),
         NEW g \in FrameType, Kindred(f, g), g.list = f.list, Idle(g), ~Waiting(g), NEW nds2,
         DOMAIN txt \subseteq Nat
  PROVE  FrameFits(g, q, its2, nds2, txt)
<1> DEFINE s == Settled(f, b)
           k == Tail1(f)
           n == Len(f.list)
           x == its[k].begin
<1>1. /\ InOrder(f.list, its) /\ Reaching(f, s, its) /\ MarksFit(f, b) /\ CellsFit(f, its)
      /\ Covering(f, s, its, txt)
  BY DEF FrameFits
<1>2. /\ s \in Nat /\ Floor(f) \in Nat /\ f.list \in Seq(Nat)
  BY Measures
<1>3. /\ n \in Nat /\ n >= 1 /\ DOMAIN f.list = 1 .. n /\ k = f.list[n]
  BY <1>2 DEF Tail1
<1>4. /\ Floor(f) <= s /\ (f.role = "SCRIPT" => f.script.mark <= f.open) BY <1>1 DEF MarksFit
<1>5. /\ Settled(f, b) = s /\ s <= q OBVIOUS
<1>6. Collecting(f) /\ f.collect.item # 0 => s = f.collect.begin BY DEF Settled
<1> HIDE DEF s, n
<1>7. /\ k \in DOMAIN its /\ DOMAIN its2 = DOMAIN its /\ its2[k] = v
      /\ \A m \in DOMAIN its : m # k => its2[m] = its[m]
  <2>1. n \in DOMAIN f.list BY <1>3
  <2>2. k \in DOMAIN its BY <1>1, <1>3, <2>1 DEF InOrder
  <2> HIDE DEF k
  <2> QED BY <2>2 DEF k
<1>8. x \in Nat /\ v.begin = x /\ x <= s
  <2>1. x \in Nat /\ its[k].end \in Nat /\ k # 0 BY <1>7, ItemSpans
  <2>2. n \in DOMAIN f.list BY <1>3
  <2>3. x <= its[k].end BY <1>1, <1>3, <2>2 DEF InOrder
  <2>4. IF Collecting(f) /\ k = f.collect.item THEN x = f.collect.begin ELSE its[k].end <= s
    BY <1>1, <1>3, <2>2 DEF Reaching
  <2> QED BY <1>2, <1>6, <2>1, <2>3, <2>4
<1>9. \A j \in DOMAIN f.list : j # n =>
        /\ j < n /\ its2[f.list[j]] = its[f.list[j]] /\ its[f.list[j]].end <= x
        /\ f.list[j] \in DOMAIN its
  <2> SUFFICES ASSUME NEW j \in DOMAIN f.list, j # n
               PROVE  /\ j < n /\ its2[f.list[j]] = its[f.list[j]] /\ its[f.list[j]].end <= x
                      /\ f.list[j] \in DOMAIN its
    OBVIOUS
  <2>1. j < n /\ n \in DOMAIN f.list BY <1>3
  <2>2. f.list[j] < f.list[n] /\ f.list[j] \in Nat /\ f.list[n] \in Nat
    BY <1>2, <2>1 DEF Rising
  <2>3. f.list[j] \in DOMAIN its /\ its[f.list[j]].end <= its[f.list[n]].begin
    BY <1>1, <2>1 DEF InOrder
  <2>4. f.list[j] # k BY <1>3, <2>2
  <2> QED BY <1>3, <1>7, <2>1, <2>3, <2>4
<1>10. its2[f.list[n]] = v /\ n \in DOMAIN f.list BY <1>3, <1>7
<1>11. \A m \in DOMAIN its : its[m].begin \in Nat /\ its[m].end \in Nat BY ItemSpans
<1> HIDE DEF k, x
<1>12. InOrder(g.list, its2)
  <2>1. \A j \in DOMAIN f.list :
          f.list[j] \in DOMAIN its2 /\ its2[f.list[j]].begin <= its2[f.list[j]].end
    <3> SUFFICES ASSUME NEW j \in DOMAIN f.list
                 PROVE  /\ f.list[j] \in DOMAIN its2
                        /\ its2[f.list[j]].begin <= its2[f.list[j]].end
      OBVIOUS
    <3>1. CASE j = n BY <1>2, <1>3, <1>5, <1>7, <1>8, <1>10, <3>1
    <3>2. CASE j # n BY <1>1, <1>7, <1>9, <3>2 DEF InOrder
    <3> QED BY <3>1, <3>2
  <2>2. ASSUME NEW i \in DOMAIN f.list, NEW j \in DOMAIN f.list, i < j
        PROVE  its2[f.list[i]].end <= its2[f.list[j]].begin
    <3>1. i # n BY <1>3, <2>2
    <3>2. CASE j = n BY <1>8, <1>9, <1>10, <3>1, <3>2
    <3>3. CASE j # n BY <1>1, <1>9, <2>2, <3>1, <3>3 DEF InOrder
    <3> QED BY <3>2, <3>3
  <2> QED BY <2>1, <2>2 DEF InOrder
<1>13. Settled(g, q) = q /\ ArgumentFits(g, q, nds2) /\ MarksFit(g, q)
  <2>1. Floor(g) = Floor(f) /\ g.role = f.role /\ g.script = f.script /\ g.open = f.open
    BY DEF Floor, Kindred
  <2>2. Floor(g) <= q BY <1>2, <1>4, <1>5, <2>1
  <2> QED BY <1>4, <2>1, <2>2, IdleMarks
<1>14. Reaching(g, q, its2)
  <2>1. Floor(g) = Floor(f) BY DEF Floor, Kindred
  <2>2. ~Collecting(g) BY DEF Idle
  <2> SUFFICES ASSUME NEW j \in DOMAIN f.list
               PROVE  Floor(f) <= its2[f.list[j]].begin /\ its2[f.list[j]].end <= q
    BY <2>1, <2>2 DEF Reaching
  <2>3. Floor(f) <= its[f.list[j]].begin BY <1>1 DEF Reaching
  <2>4. CASE j = n BY <1>3, <1>8, <1>10, <2>3, <2>4 DEF x
  <2>5. CASE j # n
    <3>1. its2[f.list[j]] = its[f.list[j]] /\ its[f.list[j]].end <= x
          /\ its[f.list[j]].end \in Nat
      BY <1>9, <1>11, <2>5
    <3> QED BY <1>2, <1>5, <1>8, <2>3, <3>1
  <2> QED BY <2>4, <2>5
<1>15. CellsFit(g, its2)
  <2>1. AllRows(g) = AllRows(f) /\ g.role = f.role /\ g.env = f.env /\ g.cells = f.cells
        /\ g.cellStart = f.cellStart
    BY DEF AllRows, Kindred
  <2>2. f.role = "CELL" => RowsFit(AllRows(f), Columns(f.env), its2)
    BY <1>1, RowsKept DEF CellsFit
  <2> QED BY <1>1, <2>1, <2>2 DEF CellsFit
<1>16. Covering(g, q, its2, txt)
  <2>1. g.role = f.role BY DEF Kindred
  <2> SUFFICES ASSUME f.role = "ROOT", NEW p \in DOMAIN txt, p <= q,
                      txt[p] \notin Blank \cup {"END"}
               PROVE  \E j \in DOMAIN f.list : its2[f.list[j]].begin < p /\ p <= its2[f.list[j]].end
    BY <2>1 DEF Covering
  <2>2. p \in Nat OBVIOUS
  <2>3. CASE p <= s
    <3>1. PICK j \in DOMAIN f.list : its[f.list[j]].begin < p /\ p <= its[f.list[j]].end
      BY <1>1, <2>3 DEF Covering
    <3>2. CASE j = n
      <4>1. x < p BY <1>3, <3>1, <3>2 DEF x
      <4> QED BY <1>8, <1>10, <4>1
    <3>3. CASE j # n BY <1>9, <3>1, <3>3
    <3> QED BY <3>2, <3>3
  <2>4. CASE ~(p <= s)
    <3>1. x < p BY <1>2, <1>8, <2>2, <2>4
    <3> QED BY <1>8, <1>10, <3>1
  <2> QED BY <2>3, <2>4
<1> QED BY <1>12, <1>13, <1>14, <1>15, <1>16 DEF FrameFits

-----------------------------------------------------------------------------
(***************************************************************************)
(* Pushing and popping a frame, and building aside.                        *)
(***************************************************************************)

(* A frame pushed where the top one is.                                    *)
LEMMA RangedPush ==
  ASSUME NEW stk \in Seq(FrameType), stk # << >>, NEW its, NEW nds, NEW b, NEW txt,
         Ranged(stk, its, nds, b, txt),
         NEW g \in FrameType, Opening(g) = b, NEW b2, FrameFits(g, b2, its, nds, txt)
  PROVE  Ranged(Append(stk, g), its, nds, b2, txt)
<1> DEFINE new == Append(stk, g)
           n   == Len(stk)
<1>0. stk \in Seq(FrameType) OBVIOUS
<1>1. /\ n \in Nat /\ n >= 1 /\ DOMAIN stk = 1 .. n BY <1>0
<1>2. /\ Len(new) = n + 1 /\ DOMAIN new = 1 .. n + 1 /\ new[n + 1] = g
      /\ \A i \in 1 .. n : new[i] = stk[i]
  <2> HIDE DEF FrameType
  <2> QED BY <1>0
<1>3. /\ \A i : BoundAt(stk, i, b) = IF i = n THEN b ELSE Opening(stk[i + 1])
      /\ \A i : BoundAt(new, i, b2) = IF i = Len(new) THEN b2 ELSE Opening(new[i + 1])
  BY DEF BoundAt
<1>4. /\ \A i \in 1 .. n : FrameFits(stk[i], BoundAt(stk, i, b), its, nds, txt)
      /\ \A k \in DOMAIN its : ItemFits(its[k], its, nds)
      /\ \A k \in DOMAIN nds : NodeFits(nds[k], its, nds)
  BY <1>1 DEF Ranged
<1>5. FrameFits(g, b2, its, nds, txt) /\ Opening(g) = b OBVIOUS
<1> HIDE DEF new, n
<1>6. \A i \in 1 .. n : BoundAt(new, i, b2) = BoundAt(stk, i, b)
  <2> SUFFICES ASSUME NEW i \in 1 .. n PROVE BoundAt(new, i, b2) = BoundAt(stk, i, b) OBVIOUS
  <2>1. BoundAt(new, i, b2) = Opening(new[i + 1]) BY <1>1, <1>2, <1>3
  <2>2. CASE i = n BY <1>2, <1>3, <1>5, <2>1, <2>2
  <2>3. CASE i # n
    <3>1. i + 1 \in 1 .. n BY <1>1, <2>3
    <3> QED BY <1>2, <1>3, <2>1, <2>3, <3>1
  <2> QED BY <2>2, <2>3
<1>7. BoundAt(new, n + 1, b2) = b2 BY <1>2, <1>3
<1>8. ASSUME NEW i \in 1 .. n + 1
      PROVE  FrameFits(new[i], BoundAt(new, i, b2), its, nds, txt)
  <2>1. CASE i = n + 1 BY <1>2, <1>5, <1>7, <2>1
  <2>2. CASE i # n + 1
    <3>1. i \in 1 .. n BY <1>1, <2>2
    <3> QED BY <1>2, <1>4, <1>6, <3>1
  <2> QED BY <2>1, <2>2
<1>9. Ranged(new, its, nds, b2, txt) BY <1>2, <1>4, <1>8 DEF Ranged
<1> QED BY <1>9 DEF new

(* The frame below is where the popped one began.                          *)
LEMMA RangedPop ==
  ASSUME NEW stk \in Seq(FrameType), Len(stk) >= 2, NEW its, NEW nds, NEW b, NEW txt,
         Ranged(stk, its, nds, b, txt)
  PROVE  /\ Ranged(Below(stk), its, nds, Opening(stk[Len(stk)]), txt)
         /\ FrameFits(stk[Len(stk)], b, its, nds, txt)
<1> DEFINE new == Below(stk)
           n   == Len(stk)
           b2  == Opening(stk[n])
<1>1. n \in Nat /\ n >= 2 /\ DOMAIN stk = 1 .. n OBVIOUS
<1>2. /\ Len(new) = n - 1 /\ DOMAIN new = 1 .. n - 1 /\ \A i \in 1 .. n - 1 : new[i] = stk[i]
  <2>1. new \in Seq(FrameType) /\ Len(new) = n - 1 /\ \A i \in 1 .. n - 1 : new[i] = stk[i]
    BY BelowTyped
  <2> HIDE DEF new, n
  <2>2. DOMAIN new = 1 .. n - 1 BY <2>1
  <2> QED BY <2>1, <2>2
<1>3. /\ \A i : BoundAt(stk, i, b) = IF i = n THEN b ELSE Opening(stk[i + 1])
      /\ \A i : BoundAt(new, i, b2) = IF i = Len(new) THEN b2 ELSE Opening(new[i + 1])
  BY DEF BoundAt
<1>4. /\ \A i \in 1 .. n : FrameFits(stk[i], BoundAt(stk, i, b), its, nds, txt)
      /\ \A k \in DOMAIN its : ItemFits(its[k], its, nds)
      /\ \A k \in DOMAIN nds : NodeFits(nds[k], its, nds)
  BY <1>1 DEF Ranged
<1>5. b2 = Opening(stk[n]) OBVIOUS
<1> HIDE DEF new, n, b2
<1>6. \A i \in 1 .. n - 1 : BoundAt(new, i, b2) = BoundAt(stk, i, b)
  <2> SUFFICES ASSUME NEW i \in 1 .. n - 1 PROVE BoundAt(new, i, b2) = BoundAt(stk, i, b)
    OBVIOUS
  <2>1. BoundAt(stk, i, b) = Opening(stk[i + 1]) BY <1>1, <1>3
  <2>2. CASE i = n - 1
    <3>1. i + 1 = n BY <1>1, <2>2
    <3> QED BY <1>2, <1>3, <1>5, <2>1, <2>2, <3>1
  <2>3. CASE i # n - 1
    <3>1. i + 1 \in 1 .. n - 1 BY <1>1, <2>3
    <3> QED BY <1>2, <1>3, <2>1, <2>3, <3>1
  <2> QED BY <2>2, <2>3
<1>7. ASSUME NEW i \in 1 .. n - 1
      PROVE  FrameFits(new[i], BoundAt(new, i, b2), its, nds, txt)
  <2>1. i \in 1 .. n BY <1>1
  <2> QED BY <1>2, <1>4, <1>6, <2>1
<1>8. Ranged(new, its, nds, b2, txt) BY <1>2, <1>4, <1>7 DEF Ranged
<1>9. FrameFits(stk[n], b, its, nds, txt)
  <2>1. n \in 1 .. n /\ BoundAt(stk, n, b) = b BY <1>1, <1>3
  <2> QED BY <1>4, <2>1
<1> QED BY <1>8, <1>9 DEF new, b2, n

-----------------------------------------------------------------------------
(***************************************************************************)
(* What is written to the arenas fits.                                     *)
(***************************************************************************)

(* A field that begins earlier, at the mark of its script or the command   *)
(* of its construct.                                                       *)
Widened(field, x) == [field EXCEPT !.begin = x]

(* A widened field is a field.                                             *)
LEMMA WidenedIs ==
  ASSUME NEW field \in Field, NEW x \in Nat
  PROVE  LET w == Widened(field, x) IN
         /\ w \in Field /\ w.begin = x /\ w.end = field.end /\ w.list = field.list
         /\ w.node = field.node /\ w.kind = field.kind
BY DEF Widened, Field

(* What lies in a range lies in a wider one.                               *)
LEMMA SpansWider ==
  ASSUME NEW its \in Seq(Item), NEW list, NEW b \in Nat, NEW e \in Nat, Spans(list, its, b, e),
         NEW x \in Nat, x <= b, NEW y \in Nat, e <= y
  PROVE  Spans(list, its, x, y)
<1> SUFFICES ASSUME NEW j \in DOMAIN list
             PROVE  /\ list[j] \in DOMAIN its
                    /\ x <= its[list[j]].begin /\ its[list[j]].end <= y
  BY DEF Spans
<1>1. /\ list[j] \in DOMAIN its
      /\ b <= its[list[j]].begin /\ its[list[j]].end <= e
  BY DEF Spans
<1>2. its[list[j]].begin \in Nat /\ its[list[j]].end \in Nat BY <1>1, ItemSpans
<1> QED BY <1>1, <1>2

(* It goes on fitting.                                                     *)
LEMMA WidenedFits ==
  ASSUME NEW its \in Seq(Item), NEW nds \in Seq(Built), NEW field \in Field,
         FieldFits(field, its, nds), NEW x \in Nat, x <= field.begin
  PROVE  FieldFits(Widened(field, x), its, nds)
<1> DEFINE w == Widened(field, x)
<1>1. /\ w.begin = x /\ w.end = field.end /\ w.list = field.list
      /\ w.node = field.node /\ w.kind = field.kind
  BY WidenedIs
<1>2. /\ field.begin < field.end /\ InOrder(field.list, its)
      /\ Spans(field.list, its, field.begin, field.end)
      /\ field.node # 0 => field.node \in DOMAIN nds /\ Holding(field, nds[field.node], its)
  BY DEF FieldFits
<1>3. field.begin \in Nat /\ field.end \in Nat BY DEF Field
<1> HIDE DEF w
<1>4. w.begin < w.end BY <1>1, <1>2, <1>3
<1>5. Spans(w.list, its, w.begin, w.end) BY <1>1, <1>2, <1>3, SpansWider
<1>6. ASSUME w.node # 0 PROVE w.node \in DOMAIN nds /\ Holding(w, nds[w.node], its)
  <2> DEFINE n == nds[field.node]
  <2>1. field.node \in DOMAIN nds /\ Holding(field, n, its) BY <1>1, <1>2, <1>6
  <2>2. n \in Built BY <2>1
  <2> HIDE DEF n
  <2>3. n.first \in Field /\ n.last \in Field BY <2>2 DEF Built
  <2>4. \A g \in Filled(NodeFields(n)) : w.begin <= g.begin /\ g.end <= w.end
    <3> SUFFICES ASSUME NEW g \in Filled(NodeFields(n))
                 PROVE  w.begin <= g.begin /\ g.end <= w.end
      OBVIOUS
    <3>1. g \in Field BY <2>3 DEF Filled, NodeFields
    <3>2. g.begin \in Nat BY <3>1 DEF Field
    <3>3. field.begin <= g.begin /\ g.end <= field.end BY <2>1 DEF Holding
    <3> QED BY <1>1, <1>3, <3>2, <3>3
  <2>5. Spans(n.list, its, w.begin, w.end)
    <3>1. Spans(n.list, its, field.begin, field.end) BY <2>1 DEF Holding
    <3> QED BY <1>1, <1>3, <3>1, SpansWider
  <2>6. Holding(w, n, its) BY <1>1, <2>1, <2>4, <2>5 DEF Holding
  <2> QED BY <1>1, <2>1, <2>6 DEF n
<1>7. InOrder(w.list, its) BY <1>1, <1>2
<1> QED BY <1>4, <1>5, <1>6, <1>7 DEF FieldFits, w

(* A face is no part of a range.                                           *)
LEMMA StampedRange ==
  ASSUME NEW f, NEW field \in Field, NEW its, NEW nds, FieldFits(field, its, nds)
  PROVE  LET s == Stamped(f, field) IN
         /\ s.begin = field.begin /\ s.end = field.end /\ FieldFits(s, its, nds)
<1> DEFINE s == Stamped(f, field)
<1>1. /\ s.begin = field.begin /\ s.end = field.end /\ s.list = field.list
      /\ s.node = field.node /\ s.kind = field.kind
  BY DEF Stamped, Field
<1> HIDE DEF s
<1>2. FieldFits(s, its, nds) BY <1>1 DEF FieldFits, Holding
<1> QED BY <1>1, <1>2 DEF s

(* An item without scripts fits around its nucleus.                        *)
LEMMA PlainFits ==
  ASSUME NEW it \in Item, NEW its, NEW nds,
         it.sup.kind = "EMPTY", it.sub.kind = "EMPTY", ~it.subFirst,
         it.begin <= it.nucleus.begin, it.nucleus.begin <= it.nucleus.end,
         it.nucleus.end <= it.end,
         it.nucleus.kind # "EMPTY" => FieldFits(it.nucleus, its, nds)
  PROVE  ItemFits(it, its, nds)
<1>1. ScriptsApart(it) BY DEF ScriptsApart
<1>2. \A f \in Filled(FieldsOf(it)) : f = it.nucleus BY DEF Filled, FieldsOf
<1>3. \A f \in Filled(FieldsOf(it)) :
        it.begin <= f.begin /\ f.end <= it.end /\ FieldFits(f, its, nds)
  BY <1>2 DEF Filled
<1> QED BY <1>1, <1>3 DEF ItemFits

(* An atom, ...                                                            *)
LEMMA AtomFits ==
  ASSUME NEW class \in Classes, NEW field \in Field, NEW its, NEW nds,
         IF field.kind = "EMPTY" THEN field.begin <= field.end ELSE FieldFits(field, its, nds)
  PROVE  LET it == Atom(class, field) IN
         /\ it \in Item /\ it.begin = field.begin /\ it.end = field.end
         /\ it.nucleus = field /\ it.sup.kind = "EMPTY" /\ it.sub.kind = "EMPTY" /\ ~it.subFirst
         /\ ItemFits(it, its, nds)
<1> DEFINE it == Atom(class, field)
<1>1. it \in Item BY AtomTyped
<1>2. /\ it.begin = field.begin /\ it.end = field.end /\ it.nucleus = field
      /\ it.sup.kind = "EMPTY" /\ it.sub.kind = "EMPTY" /\ it.subFirst = FALSE
  BY DEF Atom, Empty
<1>3. field.begin \in Nat /\ field.end \in Nat BY DEF Field
<1>4. field.begin <= field.end BY <1>3 DEF FieldFits
<1> HIDE DEF it
<1>5. ItemFits(it, its, nds)
  <2>1. it.begin <= it.nucleus.begin /\ it.nucleus.end <= it.end BY <1>2, <1>3
  <2>2. it.nucleus.begin <= it.nucleus.end BY <1>2, <1>4
  <2>3. it.nucleus.kind # "EMPTY" => FieldFits(it.nucleus, its, nds) BY <1>2
  <2>4. ~it.subFirst BY <1>2
  <2> QED BY <1>1, <1>2, <2>1, <2>2, <2>3, <2>4, PlainFits
<1>6. ~it.subFirst BY <1>2
<1> QED BY <1>1, <1>2, <1>5, <1>6 DEF it

(* ... and a blank.                                                        *)
LEMMA SpaceFits ==
  ASSUME NEW b \in Nat, NEW e \in Nat, b <= e, NEW its, NEW nds
  PROVE  LET it == Space(b, e) IN
         it \in Item /\ it.begin = b /\ it.end = e /\ ItemFits(it, its, nds)
         /\ \A f \in FieldsOf(it) : f.kind = "EMPTY"
<1> DEFINE it == Space(b, e)
<1>1. it \in Item BY SpaceTyped
<1>2. /\ it.begin = b /\ it.end = e /\ it.nucleus = Empty(b)
      /\ it.sup.kind = "EMPTY" /\ it.sub.kind = "EMPTY" /\ it.subFirst = FALSE
  BY DEF Space, Atom, Empty
<1>3. it.nucleus.begin = b /\ it.nucleus.end = b /\ it.nucleus.kind = "EMPTY"
  BY <1>2 DEF Empty
<1> HIDE DEF it
<1>4. it.begin <= it.nucleus.begin /\ it.nucleus.begin <= it.nucleus.end
      /\ it.nucleus.end <= it.end
  BY <1>2, <1>3
<1>5. ~it.subFirst BY <1>2
<1>6. ItemFits(it, its, nds) BY <1>1, <1>2, <1>3, <1>4, <1>5, PlainFits
<1>7. \A f \in FieldsOf(it) : f.kind = "EMPTY" BY <1>2, <1>3 DEF FieldsOf
<1> QED BY <1>1, <1>2, <1>6, <1>7 DEF it

(* A script is written after all the item holds.                           *)
LEMMA ScriptedFits ==
  ASSUME NEW its \in Seq(Item), NEW nds \in Seq(Built), NEW it \in Item, ItemFits(it, its, nds),
         NEW script \in Script, ScriptField(it, script.kind).kind = "EMPTY",
         NEW field \in Field, field.kind # "EMPTY",
         FieldFits(Widened(field, script.mark), its, nds), it.end <= script.mark
  PROVE  LET v == Scripted(it, script, field) IN
         /\ v \in Item /\ v.begin = it.begin /\ v.end = field.end /\ ItemFits(v, its, nds)
         /\ \A f \in FieldsOf(v) : f \in FieldsOf(it) \/ f.list = field.list
<1> DEFINE v == Scripted(it, script, field)
           m == script.mark
           w == Widened(field, m)
<1>1. m \in Nat BY DEF Script
<1>2. /\ w \in Field /\ w.begin = m /\ w.end = field.end /\ w.list = field.list
      /\ w.kind = field.kind /\ FieldFits(w, its, nds)
  BY <1>1, WidenedIs
<1>3. v \in Item BY ScriptedTyped
<1>4. w = [field EXCEPT !.begin = script.mark] BY DEF Widened
<1> HIDE DEF w
<1>5. /\ v.begin = it.begin /\ v.end = field.end /\ v.nucleus = it.nucleus
      /\ script.kind = "SUP" => v.sup = w /\ v.sub = it.sub
      /\ script.kind # "SUP" => v.sub = w /\ v.sup = it.sup
  BY <1>4 DEF Scripted, Item
<1>6. /\ script.kind = "SUP" => (v.subFirst <=> it.subFirst)
      /\ script.kind # "SUP" => (v.subFirst <=> (it.subFirst \/ it.sup.kind = "EMPTY"))
  BY DEF Scripted, Item
<1>7. /\ script.kind = "SUP" => it.sup.kind = "EMPTY"
      /\ script.kind # "SUP" => it.sub.kind = "EMPTY"
  BY DEF ScriptField
<1>8. /\ it.begin \in Nat /\ it.end \in Nat /\ it.nucleus \in Field /\ it.sup \in Field
      /\ it.sub \in Field
  BY DEF Item
<1>9. /\ it.nucleus.begin \in Nat /\ it.nucleus.end \in Nat /\ it.sup.begin \in Nat
      /\ it.sup.end \in Nat /\ it.sub.begin \in Nat /\ it.sub.end \in Nat
      /\ field.begin \in Nat /\ field.end \in Nat
  BY <1>8 DEF Field
<1>10. /\ it.begin <= it.nucleus.begin /\ it.nucleus.begin <= it.nucleus.end
       /\ it.nucleus.end <= it.end /\ ScriptsApart(it)
       /\ \A f \in Filled(FieldsOf(it)) :
            it.begin <= f.begin /\ f.end <= it.end /\ FieldFits(f, its, nds)
  BY DEF ItemFits
<1>11. it.end <= m /\ m < field.end BY <1>2 DEF FieldFits
<1>12. /\ it.end <= v.end /\ it.begin <= m /\ it.end \in Nat BY <1>1, <1>5, <1>8, <1>9, <1>10, <1>11
<1>13. /\ it.sup.kind # "EMPTY" => it.sup.end <= it.end /\ it.sup.begin < it.sup.end
       /\ it.sub.kind # "EMPTY" => it.sub.end <= it.end /\ it.sub.begin < it.sub.end
  BY <1>10 DEF Filled, FieldsOf, FieldFits
<1>14. field.kind # "EMPTY" OBVIOUS
<1> HIDE DEF v, m
<1>15. \A f \in Filled(FieldsOf(v)) :
         v.begin <= f.begin /\ f.end <= v.end /\ FieldFits(f, its, nds)
  <2> SUFFICES ASSUME NEW f \in Filled(FieldsOf(v))
               PROVE  v.begin <= f.begin /\ f.end <= v.end /\ FieldFits(f, its, nds)
    OBVIOUS
  <2>1. f = w \/ f \in Filled(FieldsOf(it)) BY <1>5 DEF Filled, FieldsOf
  <2>2. CASE f = w BY <1>2, <1>5, <1>9, <1>12, <2>2
  <2>3. CASE f \in Filled(FieldsOf(it))
    <3>1. it.begin <= f.begin /\ f.end <= it.end /\ FieldFits(f, its, nds) BY <1>10, <2>3
    <3>2. f.end \in Nat BY <1>9, <2>3 DEF Filled, FieldsOf
    <3> QED BY <1>5, <1>9, <1>12, <3>1, <3>2
  <2> QED BY <2>1, <2>2, <2>3
<1>16. ScriptsApart(v)
  <2>1. CASE script.kind = "SUP"
    <3>1. v.sup = w /\ v.sub = it.sub /\ (v.subFirst <=> it.subFirst) /\ v.nucleus = it.nucleus
          /\ it.sup.kind = "EMPTY"
      BY <1>5, <1>6, <1>7, <2>1
    <3>2. it.subFirst <=> it.sub.kind # "EMPTY" BY <1>10, <3>1 DEF ScriptsApart
    <3>3. it.nucleus.end <= m BY <1>1, <1>8, <1>9, <1>10, <1>11
    <3>4. it.sub.kind # "EMPTY" => it.sub.end <= m /\ it.sub.begin < m
      BY <1>1, <1>8, <1>9, <1>11, <1>13
    <3>5. it.sub.kind # "EMPTY" => it.nucleus.end <= it.sub.begin BY <1>10 DEF ScriptsApart
    <3>6. v.sup.kind # "EMPTY" /\ v.sup.begin = m BY <1>2, <1>14, <3>1
    <3>7. v.subFirst <=> /\ v.sub.kind # "EMPTY"
                         /\ v.sup.kind = "EMPTY" \/ v.sub.begin < v.sup.begin
      BY <3>1, <3>2, <3>4, <3>6
    <3>8. /\ v.sup.kind # "EMPTY" => v.nucleus.end <= v.sup.begin
          /\ v.sub.kind # "EMPTY" => v.nucleus.end <= v.sub.begin
          /\ v.sup.kind # "EMPTY" /\ v.sub.kind # "EMPTY" =>
               v.sup.end <= v.sub.begin \/ v.sub.end <= v.sup.begin
      BY <3>1, <3>3, <3>4, <3>5, <3>6
    <3> QED BY <3>7, <3>8 DEF ScriptsApart
  <2>2. CASE script.kind # "SUP"
    <3>1. v.sub = w /\ v.sup = it.sup /\ v.nucleus = it.nucleus /\ it.sub.kind = "EMPTY"
      BY <1>5, <1>7, <2>2
    <3>2. v.subFirst <=> it.sup.kind = "EMPTY"
      <4>1. ~it.subFirst BY <1>10, <3>1 DEF ScriptsApart
      <4> QED BY <1>6, <2>2, <4>1
    <3>3. it.nucleus.end <= m BY <1>1, <1>8, <1>9, <1>10, <1>11
    <3>4. it.sup.kind # "EMPTY" => it.sup.end <= m /\ ~(m < it.sup.begin)
      BY <1>1, <1>8, <1>9, <1>11, <1>13
    <3>5. it.sup.kind # "EMPTY" => it.nucleus.end <= it.sup.begin BY <1>10 DEF ScriptsApart
    <3>6. v.sub.kind # "EMPTY" /\ v.sub.begin = m BY <1>2, <1>14, <3>1
    <3>7. v.subFirst <=> /\ v.sub.kind # "EMPTY"
                         /\ v.sup.kind = "EMPTY" \/ v.sub.begin < v.sup.begin
      BY <3>1, <3>2, <3>4, <3>6
    <3>8. /\ v.sup.kind # "EMPTY" => v.nucleus.end <= v.sup.begin
          /\ v.sub.kind # "EMPTY" => v.nucleus.end <= v.sub.begin
          /\ v.sup.kind # "EMPTY" /\ v.sub.kind # "EMPTY" =>
               v.sup.end <= v.sub.begin \/ v.sub.end <= v.sup.begin
      BY <3>1, <3>3, <3>4, <3>5, <3>6
    <3> QED BY <3>7, <3>8 DEF ScriptsApart
  <2> QED BY <2>1, <2>2
<1>17. ItemFits(v, its, nds)
  <2>1. /\ v.begin <= v.nucleus.begin /\ v.nucleus.begin <= v.nucleus.end
        /\ v.nucleus.end <= v.end
    BY <1>5, <1>9, <1>10, <1>12
  <2> QED BY <1>15, <1>16, <2>1 DEF ItemFits
<1>18. \A f \in FieldsOf(v) : f \in FieldsOf(it) \/ f.list = field.list
  BY <1>2, <1>5 DEF FieldsOf
<1> QED BY <1>3, <1>5, <1>17, <1>18 DEF v

(* What a collector stages fits around its construct, widened to it.       *)
LEMMA StagedFits ==
  ASSUME NEW its \in Seq(Item), NEW nds \in Seq(Built),
         NEW c \in Collect, c.kind # "NONE", NEW field \in Field, field.kind # "EMPTY",
         FieldFits(field, its, nds), c.begin <= field.begin, NEW x \in Nat, x <= c.begin,
         c.kind # "STYLE" =>
           /\ c.node \in DOMAIN nds /\ nds[c.node].kind = c.kind /\ nds[c.node].last = field
           /\ nds[c.node].list = << >>
           /\ nds[c.node].first.kind # "EMPTY" =>
                c.begin <= nds[c.node].first.begin /\ nds[c.node].first.end <= field.begin
  PROVE  FieldFits(Widened(Staged(c, field), x), its, nds)
<1>1. /\ field.begin \in Nat /\ field.end \in Nat /\ c.begin \in Nat /\ c.node \in Nat
      /\ c.kind \in {"FRACTION", "RADICAL", "ACCENT", "STYLE"}
  BY DEF Field, Collect
<1>2. /\ field.begin < field.end /\ InOrder(field.list, its)
      /\ Spans(field.list, its, field.begin, field.end)
      /\ field.node # 0 => field.node \in DOMAIN nds /\ Holding(field, nds[field.node], its)
  BY DEF FieldFits
<1>3. CASE c.kind # "STYLE"
  <2> DEFINE s == Staged(c, field)
             w == Widened(s, x)
             n == nds[c.node]
  <2>1. s \in Field BY StagedTyped
  <2>2. /\ s.kind = c.kind /\ s.list = << >> /\ s.node = c.node /\ s.end = field.end
    BY <1>3 DEF Staged, NodeField, Empty
  <2> HIDE DEF s
  <2>3. /\ w.begin = x /\ w.end = field.end /\ w.list = << >> /\ w.node = c.node
        /\ w.kind = c.kind
    BY <2>1, <2>2, WidenedIs
  <2> HIDE DEF w
  <2>4. /\ c.node \in DOMAIN nds /\ n.kind = c.kind /\ n.last = field /\ n.list = << >>
        /\ n.first.kind # "EMPTY" =>
             c.begin <= n.first.begin /\ n.first.end <= field.begin
    BY <1>3
  <2>5. n.first.begin \in Nat /\ n.first.end \in Nat
    <3>1. n \in Built BY <2>4
    <3> HIDE DEF n
    <3>2. n.first \in Field BY <3>1 DEF Built
    <3> QED BY <3>2 DEF Field
  <2>6. field.kind # "EMPTY" /\ x <= c.begin /\ c.begin <= field.begin OBVIOUS
  <2> HIDE DEF n
  <2>7. InOrder(w.list, its) /\ Spans(w.list, its, w.begin, w.end)
        /\ Spans(n.list, its, w.begin, w.end)
    BY <2>3, <2>4 DEF InOrder, Spans
  <2>8. w.begin < w.end BY <1>1, <1>2, <2>3, <2>6
  <2>9. \A g \in Filled(NodeFields(n)) : w.begin <= g.begin /\ g.end <= w.end
    <3> SUFFICES ASSUME NEW g \in Filled(NodeFields(n))
                 PROVE  w.begin <= g.begin /\ g.end <= w.end
      OBVIOUS
    <3>1. g.kind # "EMPTY" /\ (g = n.first \/ g = field) BY <2>4 DEF Filled, NodeFields
    <3>2. CASE g = field BY <1>1, <2>3, <2>6, <3>2
    <3>3. CASE g = n.first BY <1>1, <1>2, <2>3, <2>4, <2>5, <2>6, <3>1, <3>3
    <3> QED BY <3>1, <3>2, <3>3
  <2>10. Holding(w, n, its) BY <2>3, <2>4, <2>6, <2>7, <2>9 DEF Holding
  <2>11. FieldFits(w, its, nds) BY <2>3, <2>4, <2>7, <2>8, <2>10 DEF FieldFits, n
  <2> QED BY <2>11 DEF w, s
<1>4. CASE c.kind = "STYLE"
  <2> DEFINE s == Staged(c, field)
  <2>1. s \in Field BY StagedTyped
  <2>2. /\ s.list = field.list /\ s.node = field.node /\ s.begin = field.begin
        /\ s.end = field.end /\ (s.kind = field.kind \/ field.kind = "LIST")
    BY <1>4 DEF Staged, TextArgument, Field
  <2> HIDE DEF s
  <2>3. field.node # 0 => field.kind # "LIST"
    <3> SUFFICES ASSUME field.node # 0 PROVE field.kind # "LIST" OBVIOUS
    <3>1. field.node \in DOMAIN nds /\ nds[field.node].kind = field.kind
      BY <1>2 DEF Holding
    <3>2. nds[field.node] \in Built BY <3>1
    <3> QED BY <3>1, <3>2 DEF Built
  <2>4. field.node # 0 => Holding(s, nds[field.node], its) BY <1>2, <2>2, <2>3 DEF Holding
  <2>5. FieldFits(s, its, nds) BY <1>2, <2>2, <2>4 DEF FieldFits
  <2>6. x <= s.begin BY <1>1, <2>2
  <2>7. FieldFits(Widened(s, x), its, nds) BY <2>1, <2>5, <2>6, WidenedFits
  <2> QED BY <2>7 DEF s
<1> QED BY <1>3, <1>4

(* The atom a construct lands on.                                          *)
LandedOn(it, staged, x) ==
  [it EXCEPT !.nucleus = [staged EXCEPT !.begin = x],
             !.sup = Empty(staged.end), !.sub = Empty(staged.end),
             !.begin = x, !.end = staged.end]

(* It fits around what lands.                                              *)
LEMMA LandedFits ==
  ASSUME NEW its \in Seq(Item), NEW nds \in Seq(Built),
         NEW it \in Item, it.kind = "ATOM", ~it.subFirst,
         NEW x \in Nat, NEW staged \in Field, staged.kind # "EMPTY",
         FieldFits(Widened(staged, x), its, nds)
  PROVE  LET v == LandedOn(it, staged, x) IN
         /\ v \in Item /\ v.begin = x /\ v.end = staged.end /\ ItemFits(v, its, nds)
         /\ \A f \in FieldsOf(v) : f.list = << >> \/ f.list = staged.list
<1> DEFINE w == Widened(staged, x)
           at == staged.end
           v == LandedOn(it, staged, x)
<1>1. /\ w \in Field /\ w.begin = x /\ w.end = at /\ w.list = staged.list
      /\ w.kind = staged.kind
  BY WidenedIs
<1>2. v = [it EXCEPT !.nucleus = w, !.sup = Empty(at), !.sub = Empty(at),
                     !.begin = x, !.end = at]
  BY DEF Widened, LandedOn
<1>3. at \in Nat BY DEF Field
<1>4. Empty(at) \in Field /\ Empty(at).kind = "EMPTY" /\ Empty(at).list = << >>
  BY <1>3, EmptyTyped DEF Empty
<1>5. w.begin < w.end BY DEF FieldFits
<1>6. FieldFits(w, its, nds) OBVIOUS
<1> HIDE DEF w, at, v
<1>7. /\ v \in Item /\ v.nucleus = w /\ v.sup = Empty(at) /\ v.sub = Empty(at)
      /\ v.begin = x /\ v.end = at /\ v.subFirst = it.subFirst
  BY <1>1, <1>2, <1>3, <1>4 DEF Item
<1>8. ItemFits(v, its, nds)
  <2>1. /\ v.begin <= v.nucleus.begin /\ v.nucleus.begin <= v.nucleus.end
        /\ v.nucleus.end <= v.end
    BY <1>1, <1>3, <1>5, <1>7
  <2>2. v.sup.kind = "EMPTY" /\ v.sub.kind = "EMPTY" BY <1>4, <1>7
  <2>3. ~v.subFirst BY <1>7
  <2>4. FieldFits(v.nucleus, its, nds) BY <1>6, <1>7
  <2> QED BY <1>7, <2>1, <2>2, <2>3, <2>4, PlainFits
<1>9. \A f \in FieldsOf(v) : f.list = << >> \/ f.list = staged.list
  BY <1>1, <1>4, <1>7 DEF FieldsOf
<1> QED BY <1>7, <1>8, <1>9 DEF at, v

(* A construct goes on fitting when an argument that fits is stored.       *)
LEMMA StoredFits ==
  ASSUME NEW nd \in Built, NEW its, NEW nds, NodeFits(nd, its, nds),
         NEW field, field.kind # "EMPTY", FieldFits(field, its, nds)
  PROVE  /\ NodeFits([nd EXCEPT !.first = field], its, nds)
         /\ NodeFits([nd EXCEPT !.last = field], its, nds)
<1> DEFINE u == [nd EXCEPT !.first = field]
           v == [nd EXCEPT !.last = field]
<1>1. /\ u.first = field /\ u.last = nd.last /\ u.list = nd.list /\ u.rows = nd.rows
      /\ u.kind = nd.kind
      /\ v.last = field /\ v.first = nd.first /\ v.list = nd.list /\ v.rows = nd.rows
      /\ v.kind = nd.kind
  BY DEF Built
<1> HIDE DEF u, v
<1>2. \A f \in Filled(NodeFields(u)) : FieldFits(f, its, nds)
  BY <1>1 DEF NodeFits, Filled, NodeFields
<1>3. \A f \in Filled(NodeFields(v)) : FieldFits(f, its, nds)
  BY <1>1 DEF NodeFits, Filled, NodeFields
<1>4. NodeFits(u, its, nds) BY <1>1, <1>2 DEF NodeFits
<1>5. NodeFits(v, its, nds) BY <1>1, <1>3 DEF NodeFits
<1> QED BY <1>4, <1>5 DEF u, v

(* A construct that has no argument yet.                                   *)
LEMMA BeginFits ==
  ASSUME NEW n, n.first.kind = "EMPTY", n.last.kind = "EMPTY", NEW its, NEW nds,
         InOrder(n.list, its), n.kind \in Three => n.list = << >>, RowsFit(n.rows, 0, its)
  PROVE  NodeFits(n, its, nds)
<1>1. Filled(NodeFields(n)) = {} BY DEF Filled, NodeFields
<1> QED BY <1>1 DEF NodeFits

(* A frame goes past a blank.                                              *)
LEMMA BlankFits ==
  ASSUME NEW f \in FrameType, NEW b \in Nat, NEW its \in Seq(Item),
         NEW nds \in Seq(Built), Building(f) => f.collect.node \in DOMAIN nds,
         NEW txt, FrameFits(f, b, its, nds, txt), DOMAIN txt \subseteq Nat,
         b + 1 \in DOMAIN txt => txt[b + 1] \in Blank
  PROVE  FrameFits(f, b + 1, its, nds, txt)
<1> DEFINE s == Settled(f, b)
           s2 == Settled(f, b + 1)
<1>1. /\ s \in Nat /\ s2 \in Nat /\ Edge(f, b) \in Nat /\ Edge(f, b + 1) \in Nat
      /\ Floor(f) \in Nat /\ f.collect.begin \in Nat /\ f.collect.script.mark \in Nat
      /\ f.wait.at \in Nat /\ f.pending.mark \in Nat /\ f.list \in Seq(Nat)
  <2>1. b + 1 \in Nat OBVIOUS
  <2> QED BY <2>1, Measures
<1>2. Edge(f, b) <= Edge(f, b + 1) BY <1>1 DEF Edge
<1>3. s2 = s \/ (s = b /\ s2 = b + 1) BY DEF Settled, Edge
<1>4. MarksFit(f, b) /\ ArgumentFits(f, b, nds) /\ Reaching(f, s, its)
      /\ Covering(f, s, its, txt) /\ InOrder(f.list, its)
  BY DEF FrameFits
<1>5. s <= s2 BY <1>1, <1>3
<1>6. MarksFit(f, b + 1)
  <2>1. Floor(f) <= s2 BY <1>1, <1>4, <1>5 DEF MarksFit
  <2>2. Waiting(f) => f.wait.at <= b + 1 BY <1>1, <1>4 DEF MarksFit
  <2>3. Pending(f) => f.pending.mark <= Edge(f, b + 1) BY <1>1, <1>2, <1>4 DEF MarksFit
  <2>4. Collecting(f) => f.collect.begin <= Edge(f, b + 1) BY <1>1, <1>2, <1>4 DEF MarksFit
  <2> QED BY <1>4, <2>1, <2>2, <2>3, <2>4 DEF MarksFit
<1>7. Reaching(f, s2, its)
  <2> SUFFICES ASSUME NEW j \in DOMAIN f.list
               PROVE  /\ Floor(f) <= its[f.list[j]].begin
                      /\ IF Collecting(f) /\ f.list[j] = f.collect.item
                           THEN its[f.list[j]].begin = f.collect.begin
                           ELSE its[f.list[j]].end <= s2
    BY DEF Reaching
  <2>1. f.list[j] \in DOMAIN its BY <1>4 DEF InOrder
  <2>2. its[f.list[j]].end \in Nat BY <2>1, ItemSpans
  <2> DEFINE e == its[f.list[j]].end
  <2> HIDE DEF s, s2, e
  <2>3. e <= s => e <= s2
    <3>1. e \in Nat BY <2>2 DEF e
    <3> QED BY <1>1, <1>5, <3>1
  <2> USE DEF e
  <2> QED BY <1>4, <2>3 DEF Reaching
<1>8. Covering(f, s2, its, txt)
  <2> SUFFICES ASSUME f.role = "ROOT", NEW p \in DOMAIN txt, p <= s2,
                      txt[p] \notin Blank \cup {"END"}
               PROVE  \E j \in DOMAIN f.list :
                        its[f.list[j]].begin < p /\ p <= its[f.list[j]].end
    BY DEF Covering
  <2>1. p \in Nat OBVIOUS
  <2> HIDE DEF s, s2
  <2>2. p <= s \/ p = b + 1 BY <1>1, <1>3, <2>1
  <2>3. p # b + 1 OBVIOUS
  <2> QED BY <1>4, <2>2, <2>3 DEF Covering
<1>9. ArgumentFits(f, b + 1, nds)
  <2> SUFFICES ASSUME Building(f), nds[f.collect.node].first.kind # "EMPTY"
               PROVE  /\ f.collect.begin <= nds[f.collect.node].first.begin
                      /\ nds[f.collect.node].first.end <= Edge(f, b + 1)
    BY DEF ArgumentFits
  <2>1. /\ f.collect.begin <= nds[f.collect.node].first.begin
        /\ nds[f.collect.node].first.end <= Edge(f, b)
    BY <1>4 DEF ArgumentFits
  <2> DEFINE e == nds[f.collect.node].first.end
  <2>2. e \in Nat
    <3>1. nds[f.collect.node] \in Built OBVIOUS
    <3> QED BY <3>1 DEF Built, Field
  <2>3. e <= Edge(f, b) BY <2>1
  <2> HIDE DEF e
  <2>4. e <= Edge(f, b + 1) BY <1>1, <1>2, <2>2, <2>3
  <2> QED BY <2>1, <2>4 DEF e
<1> QED BY <1>4, <1>6, <1>7, <1>8, <1>9 DEF FrameFits
=============================================================================
