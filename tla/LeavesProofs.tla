---------------------------- MODULE LeavesProofs ----------------------------
(***************************************************************************)
(* The searches are right for every order, every sorted table and every    *)
(* key; the decoder accepts what Unicode's table has at every position of  *)
(* every source, and the tokens of a scanner are its source.               *)
(***************************************************************************)
EXTENDS LeavesProps, WellFoundedInduction, SequenceTheorems, TLAPS

(* A search in its table: the one for a command leaves behind no entry     *)
(* that is the key, and its answer is right once it has one.               *)
SearchInv ==
  /\ table \in Tables /\ key \in Keys /\ by \in {"COMMAND", "METRIC"}
  /\ low \in 0 .. Len(table) /\ high \in 0 .. Len(table) /\ low <= high
  /\ \A k \in 1 .. low : Below(table[k], key)
  /\ \A k \in high + 1 .. Len(table) :
       ~Below(table[k], key) /\ (by = "COMMAND" => table[k] # key)
  /\ found # << >> =>
       IF key \in Entries THEN found[1] < Len(table) /\ table[found[1] + 1] = key
       ELSE found[1] = Len(table)

Inv == IF running = "SEARCH" THEN SearchInv ELSE SearchIdle

-----------------------------------------------------------------------------
(* The entry probed is in what is left.                                    *)
LEMMA MiddleWithin ==
  ASSUME NEW l \in Int, NEW h \in Int, l < h
  PROVE  Middle(l, h) \in l .. h - 1
<1> DEFINE half == (h - l) \div 2
<1>1. half \in Int /\ half >= 0 /\ half < h - l  OBVIOUS
<1> QED  BY <1>1 DEF Middle

(* What a table of Tables is.                                              *)
LEMMA TableFacts ==
  ASSUME NEW t \in Tables
  PROVE  /\ Len(t) \in Nat /\ DOMAIN t = 1 .. Len(t)
         /\ \A k \in 1 .. Len(t) : t[k] \in Keys
         /\ \A j, k \in 1 .. Len(t) : j < k => Below(t[j], t[k])
<1>1. t \in Seq(Keys) /\ Sorted(t)  BY SearchAssumption
<1> QED  BY <1>1 DEF Sorted

LEMMA Start == Init => Inv
<1> SUFFICES ASSUME Init PROVE Inv  OBVIOUS
<1>1. CASE running = "SEARCH" /\ SearchInit
  <2>1. Len(table) \in Nat  BY <1>1, TableFacts DEF SearchInit
  <2> QED  BY <1>1, <2>1 DEF SearchInit, Inv, SearchInv
<1>2. CASE running # "SEARCH" /\ SearchIdle  BY <1>2 DEF Inv
<1> QED  BY <1>1, <1>2 DEF Init

LEMMA UpperKeeps ==
  ASSUME SearchInv, SearchUpper
  PROVE  SearchInv'
<1> DEFINE m == Middle(low, high)
<1>1. low \in Int /\ high \in Int /\ low < high /\ found = << >>
  BY DEF SearchInv, SearchUpper, Searching
<1>2. m \in low .. high - 1  BY <1>1, MiddleWithin
<1>3. /\ low' = m + 1 /\ table' = table /\ key' = key /\ by' = by
      /\ high' = high /\ found' = found
  BY DEF SearchUpper, Above
<1>4. table \in Tables /\ Len(table) \in Nat /\ high <= Len(table) /\ 0 <= low
  BY TableFacts DEF SearchInv
<1>5. Below(table[m + 1], key)  BY DEF SearchUpper, Probe
<1> HIDE DEF m
<1>6. ASSUME NEW k \in 1 .. m + 1 PROVE Below(table[k], key)
  <2>1. k \in 1 .. Len(table) /\ m + 1 \in 1 .. Len(table)  BY <1>1, <1>2, <1>4
  <2>2. CASE k = m + 1  BY <1>5, <2>2
  <2>3. CASE k < m + 1
    <3>1. Below(table[k], table[m + 1])  BY <1>4, <2>1, <2>3, TableFacts
    <3>2. table[k] \in Keys /\ table[m + 1] \in Keys /\ key \in Keys
      BY <1>4, <2>1, TableFacts DEF SearchInv
    <3> QED  BY <1>5, <3>1, <3>2, SearchAssumption
  <2> QED  BY <1>1, <1>2, <2>2, <2>3
<1>7. m + 1 \in 0 .. Len(table) /\ m + 1 <= high  BY <1>1, <1>2, <1>4
<1> QED  BY <1>1, <1>3, <1>6, <1>7 DEF SearchInv

LEMMA LowerKeeps ==
  ASSUME SearchInv, SearchLower
  PROVE  SearchInv'
<1> DEFINE m == Middle(low, high)
<1>1. low \in Int /\ high \in Int /\ low < high /\ found = << >>
  BY DEF SearchInv, SearchLower, Searching
<1>2. m \in low .. high - 1  BY <1>1, MiddleWithin
<1>3. /\ high' = m /\ table' = table /\ key' = key /\ by' = by
      /\ low' = low /\ found' = found
  BY DEF SearchLower, Under
<1>4. table \in Tables /\ Len(table) \in Nat /\ high <= Len(table) /\ 0 <= low
  BY TableFacts DEF SearchInv
<1>5. ~Below(table[m + 1], key) /\ (by = "COMMAND" => table[m + 1] # key)
  BY DEF SearchLower, Probe
<1> HIDE DEF m
<1>6. ASSUME NEW k \in m + 1 .. Len(table)
      PROVE  ~Below(table[k], key) /\ (by = "COMMAND" => table[k] # key)
  <2>1. k \in 1 .. Len(table) /\ m + 1 \in 1 .. Len(table)  BY <1>1, <1>2, <1>4
  <2>2. CASE k = m + 1  BY <1>5, <2>2
  <2>3. CASE m + 1 < k
    <3>1. Below(table[m + 1], table[k])  BY <1>4, <2>1, <2>3, TableFacts
    <3>2. table[k] \in Keys /\ table[m + 1] \in Keys /\ key \in Keys
      BY <1>4, <2>1, TableFacts DEF SearchInv
    <3>3. table[k] # key  BY <1>5, <3>1
    <3>4. ~Below(table[k], key)  BY <1>5, <3>1, <3>2, SearchAssumption
    <3> QED  BY <3>3, <3>4
  <2> QED  BY <1>1, <1>2, <2>1, <2>2, <2>3
<1>7. m \in 0 .. Len(table) /\ low <= m  BY <1>1, <1>2, <1>4
<1> QED  BY <1>1, <1>3, <1>6, <1>7 DEF SearchInv

LEMMA MatchKeeps ==
  ASSUME SearchInv, SearchMatch
  PROVE  SearchInv'
<1> DEFINE m == Middle(low, high)
<1>1. low \in Int /\ high \in Int /\ low < high  BY DEF SearchInv, SearchMatch, Searching
<1>2. m \in low .. high - 1  BY <1>1, MiddleWithin
<1>3. found' = <<m>> /\ UNCHANGED <<table, key, by, low, high>>  BY DEF SearchMatch
<1>4. table[m + 1] = key  BY DEF SearchMatch, Probe
<1>5. DOMAIN table = 1 .. Len(table) /\ Len(table) \in Nat /\ high <= Len(table) /\ 0 <= low
  BY TableFacts DEF SearchInv
<1> HIDE DEF m
<1>6. m < Len(table) /\ m + 1 \in DOMAIN table  BY <1>1, <1>2, <1>5
<1>7. key \in Entries  BY <1>4, <1>6 DEF Entries
<1>8. found'[1] = m /\ Entries' = Entries  BY <1>3 DEF Entries
<1> QED  BY <1>3, <1>4, <1>6, <1>7, <1>8 DEF SearchInv

LEMMA EndKeeps ==
  ASSUME SearchInv, SearchEnd
  PROVE  SearchInv'
<1>1. UNCHANGED <<table, key, by, low, high>>  BY DEF SearchEnd
<1>2. low \in Nat /\ low = high /\ low <= Len(table)  BY DEF SearchInv, SearchEnd
<1>3. /\ DOMAIN table = 1 .. Len(table) /\ Len(table) \in Nat /\ key \in Keys
      /\ \A k \in 1 .. Len(table) : table[k] \in Keys
      /\ \A j, k \in 1 .. Len(table) : j < k => Below(table[j], table[k])
  BY TableFacts DEF SearchInv
<1> DEFINE Hit == by = "METRIC" /\ low < Len(table) /\ table[low + 1] = key
<1>4. found' = IF Hit THEN <<low>> ELSE <<Len(table)>>  BY DEF SearchEnd
<1>5. CASE Hit
  <2>1. key \in Entries /\ low < Len(table) /\ table[low + 1] = key  BY <1>2, <1>3, <1>5 DEF Entries
  <2>2. found'[1] = low /\ Entries' = Entries  BY <1>1, <1>4, <1>5 DEF Entries
  <2> QED  BY <1>1, <2>1, <2>2 DEF SearchInv
<1>6. CASE ~Hit
  <2>1. key \notin Entries
    <3> SUFFICES ASSUME NEW k \in 1 .. Len(table), table[k] = key PROVE FALSE
      BY <1>3 DEF Entries
    <3>1. ~Below(key, key)  BY <1>3, SearchAssumption
    <3>2. k > low  BY <1>2, <3>1 DEF SearchInv
    <3>3. k \in high + 1 .. Len(table) /\ low + 1 \in high + 1 .. Len(table)  BY <1>2, <1>3, <3>2
    <3>4. by = "METRIC"  BY <3>3 DEF SearchInv
    <3>5. low < Len(table) /\ ~Below(table[low + 1], key)  BY <1>2, <1>3, <3>3 DEF SearchInv
    <3>6. k # low + 1  BY <1>6, <3>4, <3>5
    <3>7. Below(table[low + 1], table[k])  BY <1>2, <1>3, <3>2, <3>5, <3>6
    <3> QED  BY <3>5, <3>7
  <2>2. found'[1] = Len(table) /\ Entries' = Entries  BY <1>1, <1>4, <1>6 DEF Entries
  <2> QED  BY <1>1, <2>1, <2>2 DEF SearchInv
<1> QED  BY <1>5, <1>6

LEMMA Preserved == Inv /\ [Next]_vars => Inv'
<1> SUFFICES ASSUME Inv, [Next]_vars PROVE Inv'  OBVIOUS
<1>1. CASE running = "SEARCH" /\ SearchStep /\ running' = running
  <2>1. SearchInv  BY <1>1 DEF Inv
  <2>2. SearchInv'
    BY <1>1, <2>1, UpperKeeps, LowerKeeps, MatchKeeps, EndKeeps DEF SearchStep
  <2> QED  BY <1>1, <2>2 DEF Inv
<1>2. CASE UNCHANGED <<searchVars, running>>
  BY <1>2 DEF searchVars, Inv, SearchInv, SearchIdle, Entries
<1> QED  BY <1>1, <1>2 DEF Next, Run, Returned, vars

THEOREM SearchInvariance == Spec => []Inv
  BY Start, Preserved, PTL DEF Spec

(* The bracket of a bisection holds at every probe, and no probe leaves    *)
(* the table, for every order and every table sorted by it.                *)
THEOREM BracketKept == Spec => []Bracket
<1>1. Inv => Bracket
  <2>1. CASE running = "SEARCH"
    BY <2>1 DEF Inv, SearchInv, Bracket
  <2>2. CASE running # "SEARCH"
    BY <2>2 DEF Inv, SearchIdle, Bracket
  <2> QED  BY <2>1, <2>2
<1> QED  BY <1>1, SearchInvariance, PTL

(* Both searches find the entry of their key whenever the table has it,    *)
(* and answer that there is none only when there is none.                  *)
THEOREM LookupCorrect == Spec => []FoundIfPresent
<1>1. Inv => FoundIfPresent  BY DEF Inv, SearchInv, FoundIfPresent
<1> QED  BY <1>1, SearchInvariance, PTL

(* The bisections of both tables are right.                                *)
THEOREM SearchesRight == Spec => []SearchRight
BY BracketKept, LookupCorrect, PTL DEF SearchRight

-----------------------------------------------------------------------------
(***************************************************************************)
(* The decoder.                                                            *)
(***************************************************************************)
(* Induction over the naturals, for a set.                                 *)
LEMMA SetInduction ==
  ASSUME NEW S, 0 \in S, \A n \in Nat : n \in S => n + 1 \in S
  PROVE  Nat \subseteq S
<1> DEFINE R == OpToRel(<, Nat)
           T == Nat \ S
<1>1. IsWellFoundedOn(R, Nat)  BY NatLessThanWellFounded, Zenon
<1>2. \A m, n \in Nat : m < n => <<m, n>> \in R  BY DEF OpToRel
<1> HIDE DEF R
<1> SUFFICES ASSUME T # {} PROVE FALSE  OBVIOUS
<1>3. T \subseteq Nat  OBVIOUS
<1> HIDE DEF T
<1>4. PICK x \in T : \A y \in T : ~(<<y, x>> \in R)  BY <1>1, <1>3, WFMin
<1>5. x \in Nat /\ x # 0 /\ x \notin S  BY <1>3, <1>4 DEF T
<1>6. x - 1 \in Nat /\ x - 1 < x /\ (x - 1) + 1 = x  BY <1>5
<1>7. <<x - 1, x>> \in R  BY <1>2, <1>5, <1>6
<1>8. x - 1 \in S  BY <1>4, <1>6, <1>7 DEF T
<1> QED  BY <1>5, <1>6, <1>8

(* The least element of a set of naturals.                                 *)
LEMMA Least ==
  ASSUME NEW T \in SUBSET Nat, T # {}
  PROVE  \E x \in T : \A y \in T : x <= y
<1> DEFINE R == OpToRel(<, Nat)
<1>1. IsWellFoundedOn(R, Nat)  BY NatLessThanWellFounded, Zenon
<1>2. \A m, n \in Nat : m < n => <<m, n>> \in R  BY DEF OpToRel
<1> HIDE DEF R
<1>3. PICK x \in T : \A y \in T : ~(<<y, x>> \in R)  BY <1>1, WFMin
<1>4. ASSUME NEW y \in T PROVE x <= y
  <2>1. x \in Nat /\ y \in Nat /\ <<y, x>> \notin R  BY <1>3
  <2>2. ~(y < x)  BY <1>2, <2>1
  <2> QED  BY <2>1, <2>2
<1> QED  BY <1>3, <1>4

(* Bytes of a source, from a position.                                     *)
Cut(src, p, n) == SubSeq(src, p + 1, p + n)

LEMMA CutOf ==
  ASSUME NEW src \in Seq(Byte), NEW p \in Nat, NEW n \in Nat, p + n <= Len(src)
  PROVE  /\ Cut(src, p, n) \in Seq(Byte) /\ Len(Cut(src, p, n)) = n
         /\ \A k \in 1 .. n : Cut(src, p, n)[k] = At(src, p + k - 1)
<1>1. Len(src) \in Nat  OBVIOUS
<1> QED  BY <1>1 DEF Cut, At

LEMMA AtByte ==
  ASSUME NEW src \in Seq(Byte), NEW p \in 0 .. Len(src) - 1
  PROVE  At(src, p) \in 0 .. 255
<1>1. p + 1 \in 1 .. Len(src)  OBVIOUS
<1>2. src[p + 1] \in Byte  BY <1>1
<1> QED  BY <1>2 DEF At, Byte

(* The forms, one by one.                                                  *)
LEMMA FormsAre ==
  /\ DOMAIN Forms = 1 .. 3
  /\ Forms[1] = [mark |-> 6,  bits |-> 32, expected |-> 2, minimum |-> 128]
  /\ Forms[2] = [mark |-> 14, bits |-> 16, expected |-> 3, minimum |-> 2048]
  /\ Forms[3] = [mark |-> 30, bits |-> 8,  expected |-> 4, minimum |-> 65536]
BY DEF Forms

LEMMA FormsChosen ==
  ASSUME NEW lead \in 0 .. 255
  PROVE  /\ 1 \in FormsOf(lead) <=> lead \in 192 .. 223
         /\ 2 \in FormsOf(lead) <=> lead \in 224 .. 239
         /\ 3 \in FormsOf(lead) <=> lead \in 240 .. 247
         /\ FormsOf(lead) \subseteq {1, 2, 3}
<1>1. \A k \in 1 .. 3 : k = 1 \/ k = 2 \/ k = 3  OBVIOUS
<1>2. (lead \div 32 = 6) <=> lead \in 192 .. 223  OBVIOUS
<1>3. (lead \div 16 = 14) <=> lead \in 224 .. 239  OBVIOUS
<1>4. (lead \div 8 = 30) <=> lead \in 240 .. 247  OBVIOUS
<1>5. FormsOf(lead) = {k \in 1 .. 3 : lead \div Forms[k].bits = Forms[k].mark}
  BY FormsAre DEF FormsOf
<1>6. 1 \in FormsOf(lead) <=> lead \div 32 = 6  BY <1>5, FormsAre
<1>7. 2 \in FormsOf(lead) <=> lead \div 16 = 14  BY <1>5, FormsAre
<1>8. 3 \in FormsOf(lead) <=> lead \div 8 = 30  BY <1>5, FormsAre
<1> QED  BY <1>1, <1>2, <1>3, <1>4, <1>5, <1>6, <1>7, <1>8

(* The value of two, three or four bytes.                                  *)
LEMMA ValueOf ==
  ASSUME NEW src, NEW p \in Nat, NEW form, form.expected \in 2 .. 4
  PROVE  LET v1 == At(src, p) % form.bits
             v2 == v1 * 64 + (At(src, p + 1) % 64)
             v3 == v2 * 64 + (At(src, p + 2) % 64)
             v4 == v3 * 64 + (At(src, p + 3) % 64)
         IN  /\ form.expected = 2 => Value(src, p, form) = v2
             /\ form.expected = 3 => Value(src, p, form) = v3
             /\ form.expected = 4 => Value(src, p, form) = v4
<1> DEFINE n == form.expected
           six(k) == At(src, p + k - 1) % 64
           b1 == At(src, p) % form.bits
           b2 == b1 * 64 + six(2)
           b3 == b2 * 64 + six(3)
           b4 == b3 * 64 + six(4)
           Body(g) == [k \in 1 .. n |-> IF k = 1 THEN b1 ELSE g[k - 1] * 64 + six(k)]
           f == [k \in 1 .. n |-> IF k = 1 THEN b1 ELSE IF k = 2 THEN b2 ELSE IF k = 3 THEN b3 ELSE b4]
<1>1. n = 2 \/ n = 3 \/ n = 4  OBVIOUS
<1>2. p + 2 - 1 = p + 1 /\ p + 3 - 1 = p + 2 /\ p + 4 - 1 = p + 3  OBVIOUS
<1> HIDE DEF n
<1>3. ASSUME NEW k \in 1 .. n
      PROVE  f[k] = IF k = 1 THEN b1 ELSE f[k - 1] * 64 + six(k)
  <2> HIDE DEF b1, six
  <2>1. k = 1 \/ k = 2 \/ k = 3 \/ k = 4  BY <1>1
  <2>2. /\ f[1] = b1 /\ f[2] = b2 /\ (3 \in 1 .. n => f[3] = b3) /\ (4 \in 1 .. n => f[4] = b4)
    <3>1. 1 \in 1 .. n /\ 2 \in 1 .. n  BY <1>1
    <3> QED  BY <3>1
  <2> QED  BY <1>1, <2>1, <2>2
<1>4. f = Body(f)  BY <1>3
<1>5. Value(src, p, form) = (CHOOSE g : g = Body(g))[n]  BY DEF Value, n
<1> DEFINE g == CHOOSE g : g = Body(g)
<1>6. g = Body(g)
  <2> HIDE DEF f, Body
  <2> QED  BY <1>4
<1> HIDE DEF g, f
<1>7. \A k \in 1 .. n : g[k] = IF k = 1 THEN b1 ELSE g[k - 1] * 64 + six(k)  BY <1>6
<1> HIDE DEF b1, six
<1>8. /\ g[1] = b1 /\ g[2] = b2 /\ (n >= 3 => g[3] = b3) /\ (n = 4 => g[4] = b4)
  <2>1. 1 \in 1 .. n /\ 2 \in 1 .. n /\ (n >= 3 => 3 \in 1 .. n) /\ (n = 4 => 4 \in 1 .. n)  BY <1>1
  <2>2. g[1] = b1  BY <1>7, <2>1
  <2>3. g[2] = b2  BY <1>7, <2>1, <2>2
  <2>4. n >= 3 => g[3] = b3  BY <1>7, <2>1, <2>3
  <2>5. n = 4 => g[4] = b4  BY <1>1, <1>7, <2>1, <2>4
  <2> QED  BY <2>2, <2>3, <2>4, <2>5
<1>9. Value(src, p, form) = g[n]  BY <1>5 DEF g
<1> QED  BY <1>1, <1>2, <1>8, <1>9 DEF b1, six, n

LEMMA Tails ==
  ASSUME NEW byte \in 0 .. 255
  PROVE  /\ IsTail(byte) <=> byte \in Trailing
         /\ byte \in Trailing => byte % 64 = byte - 128
<1>1. (byte \div 64 = 2) <=> byte \in 128 .. 191  OBVIOUS
<1>2. byte \in 128 .. 191 => byte % 64 = byte - 128  OBVIOUS
<1> QED  BY <1>1, <1>2 DEF IsTail, Trailing

(* The lengths of well-formed sequences, and their bytes but the first.    *)
LEMMA WellFormedHas ==
  ASSUME NEW s, WellFormed(s)
  PROVE  /\ s[1] \in (0 .. 127) \cup (194 .. 244)
         /\ s[1] \in 0 .. 127 => Len(s) = 1
         /\ s[1] \in 192 .. 223 => Len(s) = 2
         /\ s[1] \in 224 .. 239 => Len(s) = 3
         /\ s[1] \in 240 .. 247 => Len(s) = 4
         /\ \A k \in 2 .. Len(s) : s[k] \in Trailing
<1>1. CASE Len(s) = 1 /\ s[1] \in 0 .. 127
  <2>1. 2 .. Len(s) = {}  BY <1>1
  <2> QED  BY <1>1, <2>1
<1>2. CASE Len(s) = 2 /\ s[1] \in 194 .. 223 /\ s[2] \in Trailing
  <2>1. \A k \in 2 .. Len(s) : k = 2  BY <1>2
  <2> QED  BY <1>2, <2>1
<1>3. CASE /\ Len(s) = 3 /\ s[3] \in Trailing
           /\ \/ s[1] \in {224} /\ s[2] \in 160 .. 191
              \/ s[1] \in (225 .. 236) \cup (238 .. 239) /\ s[2] \in Trailing
              \/ s[1] \in {237} /\ s[2] \in 128 .. 159
  <2>1. \A k \in 2 .. Len(s) : k = 2 \/ k = 3  BY <1>3
  <2>2. s[2] \in Trailing /\ s[1] \in 224 .. 239  BY <1>3 DEF Trailing
  <2> QED  BY <1>3, <2>1, <2>2
<1>4. CASE /\ Len(s) = 4 /\ s[3] \in Trailing /\ s[4] \in Trailing
           /\ \/ s[1] \in {240} /\ s[2] \in 144 .. 191
              \/ s[1] \in 241 .. 243 /\ s[2] \in Trailing
              \/ s[1] \in {244} /\ s[2] \in 128 .. 143
  <2>1. \A k \in 2 .. Len(s) : k = 2 \/ k = 3 \/ k = 4  BY <1>4
  <2>2. s[2] \in Trailing /\ s[1] \in 240 .. 244  BY <1>4 DEF Trailing
  <2> QED  BY <1>4, <2>1, <2>2
<1> QED  BY <1>1, <1>2, <1>3, <1>4 DEF WellFormed

TwoOf(c) == <<192 + c \div 64, 128 + (c % 64)>>

LEMMA EncodedTwo ==
  ASSUME NEW c \in Int, c >= 128, c < 2048
  PROVE  Encoded(c) = TwoOf(c)
<1>1. ~(c < 128) /\ c < 2048  OBVIOUS
<1> QED  BY <1>1 DEF Encoded, TwoOf

ThreeOf(c) == <<224 + c \div 4096, 128 + ((c \div 64) % 64), 128 + (c % 64)>>

LEMMA EncodedThree ==
  ASSUME NEW c \in Int, c >= 2048, c < 65536
  PROVE  Encoded(c) = ThreeOf(c)
<1>1. ~(c < 128) /\ ~(c < 2048) /\ c < 65536  OBVIOUS
<1> QED  BY <1>1 DEF Encoded, ThreeOf

FourOf(c) == <<240 + c \div 262144, 128 + ((c \div 4096) % 64),
               128 + ((c \div 64) % 64), 128 + (c % 64)>>

LEMMA EncodedFour ==
  ASSUME NEW c \in Int, c >= 65536
  PROVE  Encoded(c) = FourOf(c)
<1>1. ~(c < 128) /\ ~(c < 2048) /\ ~(c < 65536)  OBVIOUS
<1> QED  BY <1>1 DEF Encoded, FourOf

LEMMA ScalarIs ==
  ASSUME NEW v \in Int, NEW m \in Int
  PROVE  Scalar(v, m) <=> v >= m /\ v <= 1114111 /\ ~(v >= 55296 /\ v <= 57343)
BY DEF Scalar

LEMMA ScalarIn ==
  ASSUME NEW v \in Int, NEW m \in Nat, Scalar(v, m)
  PROVE  v \in Codepoints
<1>1. v >= m /\ v <= 1114111  BY SMT, ScalarIs
<1>2. v >= 0  BY <1>1
<1>3. v <= MaxCodepoint  BY SMT, <1>1 DEF MaxCodepoint
<1>4. MaxCodepoint \in Int  BY SMT DEF MaxCodepoint
<1> QED  BY <1>2, <1>3, <1>4 DEF Codepoints

(* A value is a scalar one just when its bytes are well-formed, and they   *)
(* are then what encodes it.                                               *)
Agree(v, m, s) ==
  /\ Scalar(v, m) <=> WellFormed(s)
  /\ Scalar(v, m) => Encoded(v) = s

LEMMA TwoBytes ==
  ASSUME NEW a \in 192 .. 223, NEW b \in Trailing, NEW s, Len(s) = 2, s = <<a, b>>,
         NEW v, v = (a % 32) * 64 + (b % 64)
  PROVE  Agree(v, 128, s)
<1>1. b \in 128 .. 191 /\ a % 32 = a - 192 /\ b % 64 = b - 128  BY DEF Trailing
<1>2. v = (a - 192) * 64 + (b - 128) /\ v \in Int  BY <1>1
<1>0. v \in Int  BY <1>2
<1>3. v \div 64 = a - 192 /\ v % 64 = b - 128  BY <1>1, <1>2
<1>4. Scalar(v, 128) <=> a >= 194
  <2>1. Scalar(v, 128) <=> v >= 128 /\ v <= 1114111 /\ ~(v >= 55296 /\ v <= 57343)
    BY <1>2, ScalarIs
  <2> QED  BY <1>1, <1>2, <2>1
<1>5. WellFormed(s) <=> a >= 194
  <2>1. s[1] = a /\ s[2] = b  OBVIOUS
  <2>2. WellFormed(s) <=> a \in 194 .. 223  BY <2>1 DEF WellFormed
  <2> QED  BY <2>2
<1>6. ASSUME a >= 194 PROVE Encoded(v) = s
  <2>1. v >= 128 /\ v < 2048  BY <1>1, <1>2, <1>6
  <2>2. Encoded(v) = TwoOf(v)  BY <1>0, <2>1, EncodedTwo
  <2>3. 192 + v \div 64 = a /\ 128 + (v % 64) = b  BY <1>1, <1>3
  <2> QED  BY <2>2, <2>3 DEF TwoOf
<1> QED  BY <1>4, <1>5, <1>6 DEF Agree

ThreeAgree(a, b, c) ==
  Agree(((a % 16) * 64 + (b % 64)) * 64 + (c % 64), 2048, <<a, b, c>>)

LEMMA ThreeBytes ==
  ASSUME NEW a \in 224 .. 239, NEW b \in Trailing, NEW c \in Trailing
  PROVE  ThreeAgree(a, b, c)
<1> DEFINE s == <<a, b, c>>
           v == ((a % 16) * 64 + (b % 64)) * 64 + (c % 64)
<1>a. Len(s) = 3 /\ s = <<a, b, c>>  OBVIOUS
<1>b. v = ((a % 16) * 64 + (b % 64)) * 64 + (c % 64)  OBVIOUS
<1> SUFFICES Agree(v, 2048, s)  BY DEF ThreeAgree
<1> HIDE DEF s, v
<1>1. /\ b \in 128 .. 191 /\ c \in 128 .. 191
      /\ a % 16 = a - 224 /\ b % 64 = b - 128 /\ c % 64 = c - 128
  BY DEF Trailing
<1>2. v = ((a - 224) * 64 + (b - 128)) * 64 + (c - 128) /\ v \in Int  BY <1>1, <1>b
<1>0. v \in Int  BY <1>2
<1>3. /\ v \div 64 = (a - 224) * 64 + (b - 128) /\ v % 64 = c - 128
      /\ v \div 4096 = a - 224
  BY <1>1, <1>2
<1>4. (v \div 64) % 64 = b - 128
  <2>1. ((a - 224) * 64 + (b - 128)) % 64 = b - 128  BY <1>1
  <2> QED  BY <1>3, <2>1
<1> DEFINE Good == (a = 224 => b >= 160) /\ (a = 237 => b <= 159)
<1>5. Scalar(v, 2048) <=> Good
  <2>1. v >= 2048 <=> (a = 224 => b >= 160)  BY <1>1, <1>2
  <2>2. v <= 1114111  BY <1>1, <1>2
  <2>3. ~(v >= 55296 /\ v <= 57343) <=> (a = 237 => b <= 159)  BY <1>1, <1>2
  <2>4. Scalar(v, 2048) <=> v >= 2048 /\ v <= 1114111 /\ ~(v >= 55296 /\ v <= 57343)
    BY <1>2, ScalarIs
  <2>5. Scalar(v, 2048) <=> (a = 224 => b >= 160) /\ (a = 237 => b <= 159)
    BY ONLY <2>1, <2>2, <2>3, <2>4
  <2> QED  BY <2>5
<1>6. WellFormed(s) <=> Good
  <2>1. s[1] = a /\ s[2] = b /\ s[3] = c  BY <1>a
  <2>2. WellFormed(s) <=>
          \/ a \in {224} /\ b \in 160 .. 191
          \/ a \in (225 .. 236) \cup (238 .. 239) /\ b \in Trailing
          \/ a \in {237} /\ b \in 128 .. 159
    BY <1>a, <2>1 DEF WellFormed
  <2> QED  BY <1>1, <2>2
<1>7. ASSUME Good PROVE Encoded(v) = s
  <2>1. v >= 2048 /\ v < 65536  BY <1>1, <1>2, <1>7
  <2>2. Encoded(v) = ThreeOf(v)  BY <1>0, <2>1, EncodedThree
  <2>3. 224 + v \div 4096 = a /\ 128 + ((v \div 64) % 64) = b /\ 128 + (v % 64) = c
    BY <1>1, <1>3, <1>4
  <2> QED  BY <1>a, <2>2, <2>3 DEF ThreeOf
<1> QED  BY <1>5, <1>6, <1>7 DEF Agree

FourAgree(a, b, c, d) ==
  Agree((((a % 8) * 64 + (b % 64)) * 64 + (c % 64)) * 64 + (d % 64), 65536, <<a, b, c, d>>)

LEMMA FourBytes ==
  ASSUME NEW a \in 240 .. 247, NEW b \in Trailing, NEW c \in Trailing, NEW d \in Trailing
  PROVE  FourAgree(a, b, c, d)
<1> DEFINE s == <<a, b, c, d>>
           v == (((a % 8) * 64 + (b % 64)) * 64 + (c % 64)) * 64 + (d % 64)
<1>a. Len(s) = 4 /\ s = <<a, b, c, d>>  OBVIOUS
<1>b. v = (((a % 8) * 64 + (b % 64)) * 64 + (c % 64)) * 64 + (d % 64)  OBVIOUS
<1> SUFFICES Agree(v, 65536, s)  BY DEF FourAgree
<1> HIDE DEF s, v
<1>1. /\ b \in 128 .. 191 /\ c \in 128 .. 191 /\ d \in 128 .. 191
      /\ a % 8 = a - 240 /\ b % 64 = b - 128 /\ c % 64 = c - 128 /\ d % 64 = d - 128
  BY DEF Trailing
<1>2. v = (((a - 240) * 64 + (b - 128)) * 64 + (c - 128)) * 64 + (d - 128) /\ v \in Int  BY <1>1, <1>b
<1>0. v \in Int  BY <1>2
<1>3. /\ v \div 64 = ((a - 240) * 64 + (b - 128)) * 64 + (c - 128) /\ v % 64 = d - 128
      /\ v \div 4096 = (a - 240) * 64 + (b - 128)
      /\ v \div 262144 = a - 240
  BY <1>1, <1>2
<1>4. (v \div 64) % 64 = c - 128
  <2>1. (((a - 240) * 64 + (b - 128)) * 64 + (c - 128)) % 64 = c - 128  BY <1>1
  <2> QED  BY <1>3, <2>1
<1>5. (v \div 4096) % 64 = b - 128
  <2>1. ((a - 240) * 64 + (b - 128)) % 64 = b - 128  BY <1>1
  <2> QED  BY <1>3, <2>1
<1> DEFINE Good == (a = 240 => b >= 144) /\ a <= 244 /\ (a = 244 => b <= 143)
<1>6. Scalar(v, 65536) <=> Good
  <2>1. v >= 65536 <=> (a = 240 => b >= 144)  BY <1>1, <1>2
  <2>2. v <= 1114111 <=> a <= 244 /\ (a = 244 => b <= 143)  BY <1>1, <1>2
  <2>3. v \in Int  BY <1>2
  <2>4. Scalar(v, 65536) <=> v >= 65536 /\ v <= 1114111
    <3>1. Scalar(v, 65536) <=> v >= 65536 /\ v <= 1114111 /\ ~(v >= 55296 /\ v <= 57343)
      BY <2>3, ScalarIs
    <3>2. v >= 65536 => ~(v >= 55296 /\ v <= 57343)  BY ONLY <2>3
    <3> QED  BY ONLY <3>1, <3>2
  <2> HIDE DEF Good
  <2>5. Scalar(v, 65536) <=> (a = 240 => b >= 144) /\ a <= 244 /\ (a = 244 => b <= 143)
    BY ONLY <2>1, <2>2, <2>4
  <2> QED  BY <2>5 DEF Good
<1>7. WellFormed(s) <=> Good
  <2>1. s[1] = a /\ s[2] = b /\ s[3] = c /\ s[4] = d  BY <1>a
  <2>2. WellFormed(s) <=>
          \/ a \in {240} /\ b \in 144 .. 191
          \/ a \in 241 .. 243 /\ b \in Trailing
          \/ a \in {244} /\ b \in 128 .. 143
    BY <1>a, <2>1 DEF WellFormed
  <2> QED  BY <1>1, <2>2
<1>8. ASSUME Good PROVE Encoded(v) = s
  <2>1. v >= 65536  BY <1>1, <1>2, <1>8
  <2>2. Encoded(v) = FourOf(v)  BY <1>0, <2>1, EncodedFour
  <2>3. /\ 240 + v \div 262144 = a /\ 128 + ((v \div 4096) % 64) = b
        /\ 128 + ((v \div 64) % 64) = c /\ 128 + (v % 64) = d
    BY <1>1, <1>3, <1>4, <1>5
  <2> QED  BY <1>a, <2>2, <2>3 DEF FourOf
<1> QED  BY <1>6, <1>7, <1>8 DEF Agree

LEMMA CutOne ==
  ASSUME NEW src \in Seq(Byte), NEW p \in Nat, p + 1 <= Len(src)
  PROVE  Cut(src, p, 1) = <<At(src, p)>> /\ Len(Cut(src, p, 1)) = 1
<1>1. /\ Cut(src, p, 1) \in Seq(Byte) /\ Len(Cut(src, p, 1)) = 1
      /\ \A k \in 1 .. 1 : Cut(src, p, 1)[k] = At(src, p + k - 1)
  BY CutOf
<1>2. Cut(src, p, 1)[1] = At(src, p)  BY <1>1
<1> DEFINE c == Cut(src, p, 1)
<1> HIDE DEF c
<1> QED  BY <1>1, <1>2 DEF c

LEMMA CutTwo ==
  ASSUME NEW src \in Seq(Byte), NEW p \in Nat, p + 2 <= Len(src)
  PROVE  Cut(src, p, 2) = <<At(src, p), At(src, p + 1)>> /\ Len(Cut(src, p, 2)) = 2
<1> DEFINE c == Cut(src, p, 2)
<1>1. c \in Seq(Byte) /\ Len(c) = 2 /\ \A k \in 1 .. 2 : c[k] = At(src, p + k - 1)
  BY CutOf
<1>2. p + 1 - 1 = p /\ p + 2 - 1 = p + 1  OBVIOUS
<1> HIDE DEF c
<1>3. c[1] = At(src, p) /\ c[2] = At(src, p + 1)  BY <1>1, <1>2
<1> QED  BY <1>1, <1>3 DEF c

LEMMA CutThree ==
  ASSUME NEW src \in Seq(Byte), NEW p \in Nat, p + 3 <= Len(src)
  PROVE  /\ Cut(src, p, 3) = <<At(src, p), At(src, p + 1), At(src, p + 2)>>
         /\ Len(Cut(src, p, 3)) = 3
<1> DEFINE c == Cut(src, p, 3)
<1>1. c \in Seq(Byte) /\ Len(c) = 3 /\ \A k \in 1 .. 3 : c[k] = At(src, p + k - 1)
  BY CutOf
<1>2. p + 1 - 1 = p /\ p + 2 - 1 = p + 1 /\ p + 3 - 1 = p + 2  OBVIOUS
<1> HIDE DEF c
<1>3. c[1] = At(src, p) /\ c[2] = At(src, p + 1) /\ c[3] = At(src, p + 2)  BY <1>1, <1>2
<1> QED  BY <1>1, <1>3 DEF c

LEMMA CutFour ==
  ASSUME NEW src \in Seq(Byte), NEW p \in Nat, p + 4 <= Len(src)
  PROVE  /\ Cut(src, p, 4) = <<At(src, p), At(src, p + 1), At(src, p + 2), At(src, p + 3)>>
         /\ Len(Cut(src, p, 4)) = 4
<1> DEFINE c == Cut(src, p, 4)
<1>1. c \in Seq(Byte) /\ Len(c) = 4 /\ \A k \in 1 .. 4 : c[k] = At(src, p + k - 1)
  BY CutOf
<1>2. p + 1 - 1 = p /\ p + 2 - 1 = p + 1 /\ p + 3 - 1 = p + 2 /\ p + 4 - 1 = p + 3  OBVIOUS
<1> HIDE DEF c
<1>3. /\ c[1] = At(src, p) /\ c[2] = At(src, p + 1)
      /\ c[3] = At(src, p + 2) /\ c[4] = At(src, p + 3)
  BY <1>1, <1>2
<1> QED  BY <1>1, <1>3 DEF c

(* What a decoding says of the source at a position.                       *)
Decodes(src, p, r) ==
  \/ \E n \in 1 .. 4, c \in Codepoints :
       /\ r = Valid(c, n) /\ p + n <= Len(src)
       /\ WellFormed(Cut(src, p, n)) /\ Encoded(c) = Cut(src, p, n)
  \/ \E n \in 1 .. 4 :
       /\ r = Invalid(n) /\ p + n <= Len(src)
       /\ \A m \in 1 .. Len(src) - p : ~WellFormed(Cut(src, p, m))

LEMMA ValidDecodes ==
  ASSUME NEW src, NEW p, NEW n \in 1 .. 4, p + n <= Len(src), NEW c \in Codepoints,
         WellFormed(Cut(src, p, n)), Encoded(c) = Cut(src, p, n)
  PROVE  Decodes(src, p, Valid(c, n))
BY Zenon DEF Decodes

LEMMA InvalidDecodes ==
  ASSUME NEW src, NEW p, NEW n \in 1 .. 4, p + n <= Len(src),
         \A m \in 1 .. Len(src) - p : ~WellFormed(Cut(src, p, m))
  PROVE  Decodes(src, p, Invalid(n))
BY Zenon DEF Decodes

Leads(lead, n) ==
  /\ lead \in (0 .. 127) \cup (194 .. 244)
  /\ lead \in 192 .. 223 => n = 2
  /\ lead \in 224 .. 239 => n = 3
  /\ lead \in 240 .. 247 => n = 4

(* A well-formed sequence at a position: its lead byte, its length, its    *)
(* tail.                                                                   *)
LEMMA WellFormedAt ==
  ASSUME NEW src \in Seq(Byte), NEW p \in Nat, NEW n \in 1 .. Len(src) - p, WellFormed(Cut(src, p, n))
  PROVE  /\ Leads(At(src, p), n)
         /\ \A k \in 1 .. n - 1 : At(src, p + k) \in Trailing
<1> DEFINE s == Cut(src, p, n)
<1>1. Len(src) \in Nat /\ n \in Nat /\ p + n <= Len(src)  OBVIOUS
<1>2. Len(s) = n /\ \A k \in 1 .. n : s[k] = At(src, p + k - 1)  BY <1>1, CutOf
<1>3. WellFormed(s)  OBVIOUS
<1> HIDE DEF s
<1>4. s[1] = At(src, p)  BY <1>1, <1>2
<1>5. /\ s[1] \in (0 .. 127) \cup (194 .. 244)
      /\ s[1] \in 192 .. 223 => Len(s) = 2
      /\ s[1] \in 224 .. 239 => Len(s) = 3
      /\ s[1] \in 240 .. 247 => Len(s) = 4
      /\ \A k \in 2 .. Len(s) : s[k] \in Trailing
  BY <1>3, WellFormedHas
<1>6. ASSUME NEW k \in 1 .. n - 1 PROVE At(src, p + k) \in Trailing
  <2>1. k + 1 \in 1 .. n /\ k + 1 \in 2 .. Len(s) /\ p + (k + 1) - 1 = p + k  BY <1>1, <1>2
  <2> QED  BY <1>2, <1>5, <2>1
<1> QED  BY <1>2, <1>4, <1>5, <1>6 DEF Leads

FormFor(lead, k, e) ==
  \/ k = 1 /\ lead \in 192 .. 223 /\ e = 2
  \/ k = 2 /\ lead \in 224 .. 239 /\ e = 3
  \/ k = 3 /\ lead \in 240 .. 247 /\ e = 4

LEMMA FormIs ==
  ASSUME NEW lead \in 0 .. 255, NEW k \in FormsOf(lead)
  PROVE  FormFor(lead, k, Forms[k].expected)
<1>1. k \in {1, 2, 3}  BY FormsChosen
<1> QED  BY <1>1, FormsChosen, FormsAre DEF FormFor

(* A sequence whose form lacks a tail byte is cut off before it.           *)
LEMMA CutOff ==
  ASSUME NEW src \in Seq(Byte), NEW p \in 0 .. Len(src) - 1, NEW k \in FormsOf(At(src, p)),
         Missing(src, p, Forms[k]) # {}
  PROVE  Decodes(src, p, Decoded(src, p, Forms[k]))
<1> DEFINE M == Missing(src, p, Forms[k])
           e == Forms[k].expected
           m == CHOOSE x \in M : \A j \in M : x <= j
           lead == At(src, p)
<1>0. p \in Nat /\ Len(src) \in Nat  OBVIOUS
<1>1. lead \in 0 .. 255  BY AtByte
<1>2. /\ e \in 2 .. 4
      /\ \/ e = 2 /\ lead \in 192 .. 223
         \/ e = 3 /\ lead \in 224 .. 239
         \/ e = 4 /\ lead \in 240 .. 247
  <2>1. k \in FormsOf(lead)  OBVIOUS
  <2> HIDE DEF lead
  <2>2. FormFor(lead, k, e)  BY <1>1, <2>1, FormIs
  <2> HIDE DEF e
  <2> QED  BY <2>2 DEF FormFor
<1>3. M = {x \in 1 .. e - 1 : p + x >= Len(src) \/ ~IsTail(At(src, p + x))}  BY DEF Missing
<1>4. Decoded(src, p, Forms[k]) = Invalid(m)  BY DEF Decoded
<1> HIDE DEF e, M
<1>5. M \in SUBSET Nat /\ M # {}  BY <1>2, <1>3 DEF M
<1>6. m \in M /\ \A j \in M : m <= j  BY <1>5, Least
<1> HIDE DEF m, lead
<1>7. m \in 1 .. e - 1 /\ m \in Nat  BY <1>2, <1>3, <1>6
<1>8. p + m <= Len(src)
  <2>1. CASE m = 1  BY <1>0, <2>1
  <2>2. CASE m > 1
    <3>1. m - 1 \in 1 .. e - 1 /\ m - 1 \notin M  BY <1>2, <1>6, <1>7, <2>2
    <3>2. ~(p + (m - 1) >= Len(src))  BY <1>3, <3>1
    <3> QED  BY <1>0, <1>7, <3>2
  <2> QED  BY <1>7, <2>1, <2>2
<1>9. ASSUME NEW n \in 1 .. Len(src) - p, WellFormed(Cut(src, p, n)) PROVE FALSE
  <2>1. n = e /\ \A x \in 1 .. n - 1 : At(src, p + x) \in Trailing
    <3>1. Leads(lead, n) /\ \A x \in 1 .. n - 1 : At(src, p + x) \in Trailing
      BY <1>0, <1>9, WellFormedAt DEF lead
    <3> HIDE DEF lead
    <3> QED  BY <1>2, <3>1 DEF Leads
  <2>a. m \in 1 .. n - 1  BY <1>7, <2>1
  <2>b. n \in Nat /\ p + n <= Len(src)  BY <1>0
  <2>c. At(src, p + m) \in Trailing  BY <2>1, <2>a
  <2>d. p + m < Len(src)  BY <1>0, <1>7, <2>a, <2>b
  <2>2. At(src, p + m) \in Trailing /\ p + m < Len(src)  BY <2>c, <2>d
  <2>3. At(src, p + m) \in 0 .. 255  BY <2>2 DEF Trailing
  <2>4. IsTail(At(src, p + m))  BY <2>2, <2>3, Tails
  <2> QED  BY <1>0, <1>3, <1>6, <1>7, <2>2, <2>4
<1>10. m \in 1 .. 4  BY <1>2, <1>7
<1> QED  BY <1>0, <1>4, <1>8, <1>9, <1>10, InvalidDecodes

(* A sequence that has its tail is valid if its value is a scalar one.     *)
LEMMA Whole ==
  ASSUME NEW src \in Seq(Byte), NEW p \in 0 .. Len(src) - 1, NEW k \in FormsOf(At(src, p)),
         Missing(src, p, Forms[k]) = {}
  PROVE  Decodes(src, p, Decoded(src, p, Forms[k]))
<1> DEFINE e == Forms[k].expected
           min == Forms[k].minimum
           lead == At(src, p)
           v == Value(src, p, Forms[k])
           s == Cut(src, p, e)
<1>0. p \in Nat /\ Len(src) \in Nat  OBVIOUS
<1>1. lead \in 0 .. 255  BY AtByte
<1>2. /\ e \in 2 .. 4
      /\ \/ k = 1 /\ e = 2 /\ lead \in 192 .. 223
         \/ k = 2 /\ e = 3 /\ lead \in 224 .. 239
         \/ k = 3 /\ e = 4 /\ lead \in 240 .. 247
  <2>1. k \in FormsOf(lead)  OBVIOUS
  <2> HIDE DEF lead
  <2>2. FormFor(lead, k, e)  BY <1>1, <2>1, FormIs
  <2> HIDE DEF e
  <2> QED  BY <2>2 DEF FormFor
<1>3. \A x \in 1 .. e - 1 : p + x < Len(src) /\ At(src, p + x) \in Trailing
  <2> SUFFICES ASSUME NEW x \in 1 .. e - 1 PROVE p + x < Len(src) /\ At(src, p + x) \in Trailing
    OBVIOUS
  <2>1. ~(p + x >= Len(src)) /\ IsTail(At(src, p + x))  BY DEF Missing
  <2>2. x \in Nat /\ p + x < Len(src)  BY <1>0, <1>2, <2>1
  <2>3. p + x \in 0 .. Len(src) - 1  BY <1>0, <2>2
  <2>4. At(src, p + x) \in 0 .. 255  BY <2>3, AtByte
  <2> QED  BY <2>1, <2>2, <2>4, Tails
<1>4. p + e <= Len(src)
  <2>1. e - 1 \in 1 .. e - 1  BY <1>2
  <2>2. p + (e - 1) < Len(src)  BY <1>3, <2>1
  <2> QED  BY <1>0, <1>2, <2>2
<1>5. Decoded(src, p, Forms[k]) = IF Scalar(v, min) THEN Valid(v, e) ELSE Invalid(e)
  BY DEF Decoded
<1>6. /\ Scalar(v, min) <=> WellFormed(s)
      /\ Scalar(v, min) => Encoded(v) = s
      /\ Scalar(v, min) => v \in Codepoints
  <2> HIDE DEF s
  <2>1. CASE k = 1
    <3>1. e = 2 /\ min = 128 /\ Forms[k].bits = 32 /\ lead \in 192 .. 223  BY <1>2, <2>1, FormsAre
    <3>2. v = (lead % 32) * 64 + (At(src, p + 1) % 64)  BY <1>0, <3>1, ValueOf
    <3>3. s = <<lead, At(src, p + 1)>> /\ Len(s) = 2  BY <1>0, <1>4, <3>1, CutTwo DEF s
    <3>4. At(src, p + 1) \in Trailing  BY <1>3, <3>1
    <3> HIDE DEF v, lead, min, e
    <3>5. Agree(v, 128, s)
      BY <3>1, <3>2, <3>3, <3>4, TwoBytes
    <3>6. v \in Int  BY <3>1, <3>2, <3>4 DEF Trailing
    <3>7. Scalar(v, 128) => v \in Codepoints  BY <3>6, ScalarIn
    <3> QED  BY <3>1, <3>5, <3>7 DEF Agree
  <2>2. CASE k = 2
    <3> DEFINE b == At(src, p + 1)
           c == At(src, p + 2)
    <3>1. e = 3 /\ min = 2048 /\ Forms[k].bits = 16 /\ lead \in 224 .. 239  BY <1>2, <2>2, FormsAre
    <3>2. v = ((lead % 16) * 64 + (b % 64)) * 64 + (c % 64)
      BY <1>0, <3>1, ValueOf
    <3>3. s = <<lead, b, c>> /\ Len(s) = 3  BY <1>0, <1>4, <3>1, CutThree DEF s
    <3>4. b \in Trailing /\ c \in Trailing  BY <1>3, <3>1
    <3> HIDE DEF v, lead, min, e
    <3>5. Agree(v, 2048, s)
      <4> HIDE DEF b, c
      <4>1. ThreeAgree(lead, b, c)
        <5>1. lead \in 224 .. 239  BY <3>1
        <5>2. b \in Trailing  BY <3>4
        <5>3. c \in Trailing  BY <3>4
        <5> QED  BY ONLY <5>1, <5>2, <5>3, ThreeBytes, Zenon
      <4> QED  BY <3>2, <3>3, <4>1 DEF ThreeAgree
    <3>6. v \in Int  BY <3>1, <3>2, <3>4 DEF Trailing
    <3>7. Scalar(v, 2048) => v \in Codepoints  BY <3>6, ScalarIn
    <3> QED  BY <3>1, <3>5, <3>7 DEF Agree
  <2>3. CASE k = 3
    <3> DEFINE b == At(src, p + 1)
           c == At(src, p + 2)
           d == At(src, p + 3)
    <3>1. e = 4 /\ min = 65536 /\ Forms[k].bits = 8 /\ lead \in 240 .. 247  BY <1>2, <2>3, FormsAre
    <3>2. v = (((lead % 8) * 64 + (b % 64)) * 64 + (c % 64)) * 64
                + (d % 64)
      BY <1>0, <3>1, ValueOf
    <3>3. s = <<lead, b, c, d>> /\ Len(s) = 4
      BY <1>0, <1>4, <3>1, CutFour DEF s
    <3>4. /\ b \in Trailing /\ c \in Trailing
          /\ d \in Trailing
      BY <1>3, <3>1
    <3> HIDE DEF v, lead, min, e
    <3>5. Agree(v, 65536, s)
      <4> HIDE DEF b, c, d
      <4>1. FourAgree(lead, b, c, d)
        <5>1. lead \in 240 .. 247  BY <3>1
        <5>2. b \in Trailing  BY <3>4
        <5>3. c \in Trailing  BY <3>4
        <5>4. d \in Trailing  BY <3>4
        <5> QED  BY ONLY <5>1, <5>2, <5>3, <5>4, FourBytes, Zenon
      <4> QED  BY <3>2, <3>3, <4>1 DEF FourAgree
    <3>6. v \in Int  BY <3>1, <3>2, <3>4 DEF Trailing
    <3>7. Scalar(v, 65536) => v \in Codepoints  BY <3>6, ScalarIn
    <3> QED  BY <3>1, <3>5, <3>7 DEF Agree
  <2> QED  BY <1>2, <2>1, <2>2, <2>3
<1>7. CASE Scalar(v, min)
  <2>1. v \in Codepoints /\ WellFormed(Cut(src, p, e)) /\ Encoded(v) = Cut(src, p, e)
    BY <1>6, <1>7
  <2>2. e \in 1 .. 4  BY <1>2
  <2> HIDE DEF v, e, min
  <2>3. Decodes(src, p, Valid(v, e))  BY <1>0, <1>4, <2>1, <2>2, ValidDecodes
  <2> QED  BY <1>5, <1>7, <2>3
<1>8. CASE ~Scalar(v, min)
  <2>1. ~WellFormed(Cut(src, p, e))  BY <1>6, <1>8
  <2>2. e \in 1 .. 4  BY <1>2
  <2> HIDE DEF v, e, min, s
  <2>3. ASSUME NEW n \in 1 .. Len(src) - p, WellFormed(Cut(src, p, n)) PROVE FALSE
    <3>1. Leads(lead, n)  BY <1>0, <2>3, WellFormedAt
    <3>2. n = e
      <4> HIDE DEF lead
      <4> QED  BY <1>2, <3>1 DEF Leads, e
    <3> QED  BY <2>1, <2>3, <3>2
  <2>4. Decodes(src, p, Invalid(e))  BY <1>0, <1>4, <2>2, <2>3, InvalidDecodes
  <2> QED  BY <1>5, <1>8, <2>4
<1> QED  BY <1>7, <1>8

(* The decoder is right at every position of every source.                 *)
LEMMA NextDecodes ==
  ASSUME NEW src \in Seq(Byte), NEW p \in 0 .. Len(src) - 1
  PROVE  Decodes(src, p, Utf8Next(src, p))
<1> DEFINE lead == At(src, p)
<1>0. p \in Nat /\ Len(src) \in Nat /\ p + 1 <= Len(src)  OBVIOUS
<1>1. lead \in 0 .. 255  BY AtByte
<1>2. CASE lead < 128
  <2>1. Utf8Next(src, p) = Valid(lead, 1)  BY <1>2 DEF Utf8Next
  <2>2. Cut(src, p, 1) = <<lead>> /\ Len(Cut(src, p, 1)) = 1  BY <1>0, CutOne
  <2> DEFINE s == Cut(src, p, 1)
  <2> HIDE DEF lead, s
  <2>3. lead \in 0 .. 127 /\ s = <<lead>> /\ Len(s) = 1  BY <1>1, <1>2, <2>2 DEF s
  <2>4. WellFormed(s)  BY <2>3 DEF WellFormed
  <2>5. Encoded(lead) = s  BY <2>3 DEF Encoded
  <2>6. lead \in Codepoints
    <3>1. MaxCodepoint \in Int /\ 127 <= MaxCodepoint  BY SMT DEF MaxCodepoint
    <3> QED  BY <2>3, <3>1 DEF Codepoints
  <2>7. Decodes(src, p, Valid(lead, 1))  BY <1>0, <2>4, <2>5, <2>6, ValidDecodes DEF s
  <2> QED  BY <2>1, <2>7
<1>3. CASE ~(lead < 128) /\ FormsOf(lead) = {}
  <2>1. Utf8Next(src, p) = Invalid(1)  BY <1>3 DEF Utf8Next
  <2> HIDE DEF lead
  <2>2. lead \notin 192 .. 247 /\ lead >= 128
    <3>1. /\ lead \notin 192 .. 223 /\ lead \notin 224 .. 239 /\ lead \notin 240 .. 247
      BY <1>1, <1>3, FormsChosen
    <3> QED  BY <1>1, <1>3, <3>1
  <2>3. ASSUME NEW n \in 1 .. Len(src) - p, WellFormed(Cut(src, p, n)) PROVE FALSE
    <3>1. Leads(lead, n)  BY <1>0, <2>3, WellFormedAt DEF lead
    <3> QED  BY <1>1, <2>2, <3>1 DEF Leads
  <2>4. Decodes(src, p, Invalid(1))  BY <1>0, <2>3, InvalidDecodes
  <2> QED  BY <2>1, <2>4
<1>4. CASE ~(lead < 128) /\ FormsOf(lead) # {}
  <2> DEFINE k == CHOOSE k \in FormsOf(lead) : TRUE
  <2>1. k \in FormsOf(lead)  BY <1>4
  <2>2. Utf8Next(src, p) = Decoded(src, p, Forms[k])  BY <1>4 DEF Utf8Next
  <2> HIDE DEF k
  <2>3. Decodes(src, p, Decoded(src, p, Forms[k]))  BY <2>1, CutOff, Whole
  <2> QED  BY <2>2, <2>3
<1> QED  BY <1>2, <1>3, <1>4

-----------------------------------------------------------------------------
(***************************************************************************)
(* Runs of blanks.                                                         *)
(***************************************************************************)
Ends == {LineFeed, CarriageReturn}

(* Line ends and paragraphs, of any source.                                *)
EndsIn(src, begin, end) == {p \in begin .. end - 1 : At(src, p) \in Ends}

PairAt(src, p, q) == q = p + 1 /\ At(src, p) = CarriageReturn /\ At(src, q) = LineFeed

TwoEnds(src, begin, end) ==
  \E p, q \in EndsIn(src, begin, end) : p < q /\ ~PairAt(src, p, q)

LEMMA ParagraphIs ==
  ASSUME NEW begin, NEW end
  PROVE  Paragraph(begin, end) <=> TwoEnds(source, begin, end)
BY DEF Paragraph, TwoEnds, Terminators, EndsIn, Ends, PairAt

(* A run from q to e in which there are none, one or more line ends.       *)
Ran(src, q, e, n) ==
  /\ e \in q .. Len(src) /\ n \in Nat
  /\ \A p \in q .. e - 1 : At(src, p) \in Blanks
  /\ e = Len(src) \/ At(src, e) \notin Blanks
  /\ n = 0 => EndsIn(src, q, e) = {}
  /\ n > 0 => EndsIn(src, q, e) # {}
  /\ n >= 2 => TwoEnds(src, q, e)
  /\ n < 2 => ~TwoEnds(src, q, e)

LEMMA RanStop ==
  ASSUME NEW src \in Seq(Byte), NEW q \in 0 .. Len(src), q = Len(src) \/ At(src, q) \notin Blanks
  PROVE  Ran(src, q, q, 0)
<1>1. q .. q - 1 = {}  OBVIOUS
<1>2. EndsIn(src, q, q) = {}  BY <1>1 DEF EndsIn
<1>3. ~TwoEnds(src, q, q)  BY <1>2 DEF TwoEnds
<1> QED  BY <1>1, <1>2, <1>3 DEF Ran

LEMMA EndsMore ==
  ASSUME NEW src, NEW q \in Nat, NEW e \in Nat, q < e
  PROVE  /\ At(src, q) \in Ends => EndsIn(src, q, e) = {q} \cup EndsIn(src, q + 1, e)
         /\ At(src, q) \notin Ends => EndsIn(src, q, e) = EndsIn(src, q + 1, e)
<1>1. q .. e - 1 = {q} \cup (q + 1 .. e - 1)  OBVIOUS
<1> QED  BY <1>1 DEF EndsIn

LEMMA RanBlanks ==
  ASSUME NEW src, NEW q \in Nat, NEW e \in q + 1 .. Len(src), At(src, q) \in Blanks, Len(src) \in Nat,
         \A p \in q + 1 .. e - 1 : At(src, p) \in Blanks
  PROVE  e \in q .. Len(src) /\ \A p \in q .. e - 1 : At(src, p) \in Blanks
<1>1. q .. e - 1 = {q} \cup (q + 1 .. e - 1)  OBVIOUS
<1> QED  BY <1>1

LEMMA RanPlain ==
  ASSUME NEW src \in Seq(Byte), NEW q \in 0 .. Len(src) - 1, At(src, q) \in Blanks, At(src, q) \notin Ends,
         NEW e, NEW n, Ran(src, q + 1, e, n)
  PROVE  Ran(src, q, e, n)
<1>0. Len(src) \in Nat /\ q \in Nat  OBVIOUS
<1>1. /\ e \in q + 1 .. Len(src) /\ n \in Nat
      /\ \A p \in q + 1 .. e - 1 : At(src, p) \in Blanks
      /\ e = Len(src) \/ At(src, e) \notin Blanks
  BY DEF Ran
<1>2. e \in q .. Len(src) /\ \A p \in q .. e - 1 : At(src, p) \in Blanks  BY <1>0, <1>1, RanBlanks
<1>3. EndsIn(src, q, e) = EndsIn(src, q + 1, e)
  <2>1. e \in Nat /\ q < e  BY <1>0, <1>1
  <2> QED  BY <1>0, <2>1, EndsMore
<1>4. TwoEnds(src, q, e) <=> TwoEnds(src, q + 1, e)  BY <1>3 DEF TwoEnds
<1> QED  BY <1>1, <1>2, <1>3, <1>4 DEF Ran

LEMMA RanLine ==
  ASSUME NEW src \in Seq(Byte), NEW q \in 0 .. Len(src) - 1, At(src, q) \in Ends,
         ~(At(src, q) = CarriageReturn /\ q + 1 < Len(src) /\ At(src, q + 1) = LineFeed),
         NEW e, NEW n, Ran(src, q + 1, e, n)
  PROVE  Ran(src, q, e, n + 1)
<1>0. Len(src) \in Nat /\ q \in Nat /\ At(src, q) \in Blanks  BY DEF Ends, Blanks
<1>1. /\ e \in q + 1 .. Len(src) /\ n \in Nat
      /\ \A p \in q + 1 .. e - 1 : At(src, p) \in Blanks
      /\ e = Len(src) \/ At(src, e) \notin Blanks
      /\ n = 0 => EndsIn(src, q + 1, e) = {}
      /\ n > 0 => EndsIn(src, q + 1, e) # {}
  BY DEF Ran
<1>2. e \in q .. Len(src) /\ \A p \in q .. e - 1 : At(src, p) \in Blanks  BY <1>0, <1>1, RanBlanks
<1>3. EndsIn(src, q, e) = {q} \cup EndsIn(src, q + 1, e)
  <2>1. e \in Nat /\ q < e  BY <1>0, <1>1
  <2> QED  BY <1>0, <2>1, EndsMore
<1>4. \A p \in EndsIn(src, q + 1, e) : p \in Nat /\ p > q /\ p < Len(src) /\ ~PairAt(src, q, p)
  <2> SUFFICES ASSUME NEW p \in EndsIn(src, q + 1, e)
               PROVE  p \in Nat /\ p > q /\ p < Len(src) /\ ~PairAt(src, q, p)
    OBVIOUS
  <2>1. p \in q + 1 .. e - 1  BY DEF EndsIn
  <2>2. p \in Nat /\ p > q /\ p < Len(src)  BY <1>0, <1>1, <2>1
  <2> QED  BY <1>0, <2>2 DEF PairAt
<1>5. ASSUME EndsIn(src, q + 1, e) # {} PROVE TwoEnds(src, q, e)
  <2>1. PICK t : t \in EndsIn(src, q + 1, e)  BY <1>5
  <2> QED  BY <1>3, <1>4, <2>1 DEF TwoEnds
<1>6. ASSUME EndsIn(src, q + 1, e) = {} PROVE ~TwoEnds(src, q, e)
  <2>1. EndsIn(src, q, e) = {q}  BY <1>3, <1>6
  <2> QED  BY <1>0, <2>1 DEF TwoEnds
<1>7. EndsIn(src, q, e) # {}  BY <1>3
<1>8. n + 1 \in Nat /\ n + 1 # 0 /\ (n + 1 >= 2 <=> n > 0) /\ (n + 1 < 2 <=> n = 0)  BY <1>1
<1> QED  BY <1>1, <1>2, <1>5, <1>6, <1>7, <1>8 DEF Ran

LEMMA RanPair ==
  ASSUME NEW src \in Seq(Byte), NEW q \in 0 .. Len(src) - 1,
         At(src, q) = CarriageReturn, q + 1 < Len(src), At(src, q + 1) = LineFeed,
         NEW e, NEW n, Ran(src, q + 2, e, n)
  PROVE  Ran(src, q, e, n + 1)
<1>0. /\ Len(src) \in Nat /\ q \in Nat /\ q + 1 \in Nat /\ (q + 1) + 1 = q + 2
      /\ At(src, q) \in Blanks /\ At(src, q + 1) \in Blanks
      /\ At(src, q) \in Ends /\ At(src, q + 1) \in Ends
  BY DEF Ends, Blanks
<1>1. /\ e \in q + 2 .. Len(src) /\ n \in Nat
      /\ \A p \in q + 2 .. e - 1 : At(src, p) \in Blanks
      /\ e = Len(src) \/ At(src, e) \notin Blanks
      /\ n = 0 => EndsIn(src, q + 2, e) = {}
      /\ n > 0 => EndsIn(src, q + 2, e) # {}
  BY DEF Ran
<1>2. e \in q .. Len(src) /\ \A p \in q .. e - 1 : At(src, p) \in Blanks
  <2>1. q .. e - 1 = {q, q + 1} \cup (q + 2 .. e - 1)  BY <1>0, <1>1
  <2>2. e \in q .. Len(src)  BY <1>0, <1>1
  <2> QED  BY <1>0, <1>1, <2>1, <2>2
<1>3. EndsIn(src, q, e) = {q, q + 1} \cup EndsIn(src, q + 2, e)
  <2>1. q .. e - 1 = {q, q + 1} \cup (q + 2 .. e - 1)  BY <1>0, <1>1
  <2> QED  BY <1>0, <2>1 DEF EndsIn
<1>4. \A p \in EndsIn(src, q + 2, e) : p \in Nat /\ p > q /\ ~PairAt(src, q, p)
  <2> SUFFICES ASSUME NEW p \in EndsIn(src, q + 2, e)
               PROVE  p \in Nat /\ p > q /\ ~PairAt(src, q, p)
    OBVIOUS
  <2>1. p \in q + 2 .. e - 1  BY DEF EndsIn
  <2>2. p \in Nat /\ p > q /\ p # q + 1  BY <1>0, <1>1, <2>1
  <2> QED  BY <2>2 DEF PairAt
<1>5. ASSUME EndsIn(src, q + 2, e) # {} PROVE TwoEnds(src, q, e)
  <2>1. PICK t : t \in EndsIn(src, q + 2, e)  BY <1>5
  <2> QED  BY <1>3, <1>4, <2>1 DEF TwoEnds
<1>6. ASSUME EndsIn(src, q + 2, e) = {} PROVE ~TwoEnds(src, q, e)
  <2>1. EndsIn(src, q, e) = {q, q + 1}  BY <1>3, <1>6
  <2>2. PairAt(src, q, q + 1)  BY DEF PairAt
  <2> SUFFICES ASSUME NEW a \in EndsIn(src, q, e), NEW b \in EndsIn(src, q, e), a < b, ~PairAt(src, a, b)
               PROVE  FALSE
    BY DEF TwoEnds
  <2>3. a = q /\ b = q + 1  BY <1>0, <2>1
  <2> QED  BY <2>2, <2>3
<1>7. EndsIn(src, q, e) # {}  BY <1>3
<1>8. n + 1 \in Nat /\ n + 1 # 0 /\ (n + 1 >= 2 <=> n > 0) /\ (n + 1 < 2 <=> n = 0)  BY <1>1
<1> QED  BY <1>1, <1>2, <1>5, <1>6, <1>7, <1>8 DEF Ran

(* The run as the recursion has it: its value at q, of those after it.     *)
Paired(src, q) == At(src, q) = CarriageReturn /\ q + 1 < Len(src) /\ At(src, q + 1) = LineFeed

After(src, q) == IF Paired(src, q) THEN q + 2 ELSE q + 1

Stops(src, q) == q = Len(src) \/ At(src, q) \notin Blanks

RunAt(src, g, q) ==
  IF Stops(src, q) THEN [end |-> q, lines |-> 0]
  ELSE [end   |-> g[After(src, q)].end,
        lines |-> g[After(src, q)].lines + (IF At(src, q) \in {LineFeed, CarriageReturn} THEN 1 ELSE 0)]

RunFrom(src, g, q0) == \A q \in 0 .. Len(src) : q >= q0 => g[q] = RunAt(src, g, q)

LEMMA AfterWithin ==
  ASSUME NEW src \in Seq(Byte), NEW q \in 0 .. Len(src), ~Stops(src, q)
  PROVE  After(src, q) \in 0 .. Len(src) /\ After(src, q) > q
<1>1. Len(src) \in Nat /\ q \in Nat /\ q < Len(src)  BY DEF Stops
<1>2. CASE Paired(src, q)  BY <1>1, <1>2 DEF After, Paired
<1>3. CASE ~Paired(src, q)  BY <1>1, <1>3 DEF After
<1> QED  BY <1>2, <1>3

LEMMA RunAtDepends ==
  ASSUME NEW src, NEW g, NEW h, NEW q, ~Stops(src, q) => g[After(src, q)] = h[After(src, q)]
  PROVE  RunAt(src, g, q) = RunAt(src, h, q)
BY DEF RunAt

LEMMA RunExtends ==
  ASSUME NEW src \in Seq(Byte), NEW g, NEW q0 \in 1 .. Len(src), RunFrom(src, g, q0)
  PROVE  \E h : RunFrom(src, h, q0 - 1)
<1> DEFINE h == [q \in 0 .. Len(src) |-> IF q = q0 - 1 THEN RunAt(src, g, q) ELSE g[q]]
<1>0. Len(src) \in Nat /\ q0 \in Nat /\ q0 - 1 \in 0 .. Len(src)  OBVIOUS
<1>1. /\ h[q0 - 1] = RunAt(src, g, q0 - 1)
      /\ \A q \in 0 .. Len(src) : q >= q0 => h[q] = g[q]
  BY <1>0
<1> HIDE DEF h
<1>2. ASSUME NEW q \in 0 .. Len(src), q >= q0 - 1
      PROVE  RunAt(src, g, q) = RunAt(src, h, q)
  <2>1. ASSUME ~Stops(src, q) PROVE g[After(src, q)] = h[After(src, q)]
    <3>1. After(src, q) \in 0 .. Len(src) /\ After(src, q) > q  BY <2>1, AfterWithin
    <3>2. After(src, q) >= q0  BY <1>0, <1>2, <3>1
    <3> QED  BY <1>1, <3>1, <3>2
  <2> QED  BY <2>1, RunAtDepends
<1>3. ASSUME NEW q \in 0 .. Len(src), q >= q0 - 1
      PROVE  h[q] = RunAt(src, h, q)
  <2>1. RunAt(src, g, q) = RunAt(src, h, q)  BY <1>2, <1>3
  <2>2. CASE q = q0 - 1  BY <1>1, <2>1, <2>2
  <2>3. CASE q >= q0
    <3>1. g[q] = RunAt(src, g, q)  BY <2>3 DEF RunFrom
    <3> QED  BY <1>1, <2>1, <2>3, <3>1
  <2> QED  BY <1>0, <1>3, <2>2, <2>3
<1>4. RunFrom(src, h, q0 - 1)  BY <1>3 DEF RunFrom
<1> QED  BY <1>4

LEMMA RunExists ==
  ASSUME NEW src \in Seq(Byte)
  PROVE  \E g : RunFrom(src, g, 0)
<1> DEFINE S == {m \in Nat : m <= Len(src) => \E g : RunFrom(src, g, Len(src) - m)}
<1>0. Len(src) \in Nat  OBVIOUS
<1>1. 0 \in S
  <2> DEFINE g == [q \in 0 .. Len(src) |-> [end |-> Len(src), lines |-> 0]]
  <2>1. g[Len(src)] = [end |-> Len(src), lines |-> 0]  BY <1>0
  <2>2. RunAt(src, g, Len(src)) = [end |-> Len(src), lines |-> 0]  BY DEF RunAt, Stops
  <2> HIDE DEF g
  <2>3. \A q \in 0 .. Len(src) : q >= Len(src) => q = Len(src)  BY <1>0
  <2>4. RunFrom(src, g, Len(src))  BY <2>1, <2>2, <2>3 DEF RunFrom
  <2>5. Len(src) - 0 = Len(src)  BY <1>0
  <2> QED  BY <2>4, <2>5
<1>2. ASSUME NEW m \in Nat, m \in S PROVE m + 1 \in S
  <2> SUFFICES ASSUME m + 1 <= Len(src) PROVE \E g : RunFrom(src, g, Len(src) - (m + 1))
    OBVIOUS
  <2>1. m <= Len(src)  BY <1>0
  <2>2. PICK g : RunFrom(src, g, Len(src) - m)  BY <1>2, <2>1
  <2>3. Len(src) - m \in 1 .. Len(src) /\ (Len(src) - m) - 1 = Len(src) - (m + 1)  BY <1>0
  <2>4. \E h : RunFrom(src, h, (Len(src) - m) - 1)  BY <2>2, <2>3, RunExtends
  <2> QED  BY <2>3, <2>4
<1> HIDE DEF S
<1>3. Nat \subseteq S  BY <1>1, <1>2, SetInduction
<1>4. Len(src) \in S  BY <1>0, <1>3
<1>5. Len(src) - Len(src) = 0 /\ Len(src) <= Len(src)  BY <1>0
<1> QED  BY <1>4, <1>5 DEF S

LEMMA BlankRunIs ==
  ASSUME NEW src \in Seq(Byte)
  PROVE  \E g : RunFrom(src, g, 0) /\ \A p \in 0 .. Len(src) : BlankRun(src, p) = g[p]
<1> DEFINE Body(g) == [q \in 0 .. Len(src) |-> RunAt(src, g, q)]
           c == CHOOSE g : g = Body(g)
<1>1. \E g : g = Body(g)
  <2>1. PICK g : RunFrom(src, g, 0)  BY RunExists
  <2> DEFINE f == [q \in 0 .. Len(src) |-> g[q]]
  <2>2. ASSUME NEW q \in 0 .. Len(src) PROVE f[q] = RunAt(src, f, q)
    <3>1. f[q] = g[q] /\ g[q] = RunAt(src, g, q)  BY <2>1 DEF RunFrom
    <3>2. ASSUME ~Stops(src, q) PROVE g[After(src, q)] = f[After(src, q)]
      <4>1. After(src, q) \in 0 .. Len(src)  BY <3>2, AfterWithin
      <4> QED  BY <4>1
    <3> HIDE DEF f
    <3>3. RunAt(src, g, q) = RunAt(src, f, q)  BY <3>2, RunAtDepends
    <3> QED  BY <3>1, <3>3
  <2>3. f = Body(f)  BY <2>2
  <2> QED  BY <2>3
<1>2. c = Body(c)
  <2> HIDE DEF Body
  <2> QED  BY <1>1
<1>3. \A p \in 0 .. Len(src) : BlankRun(src, p) = c[p]
  BY DEF BlankRun, RunAt, Stops, After, Paired
<1> HIDE DEF c
<1>4. RunFrom(src, c, 0)  BY <1>2 DEF RunFrom
<1> QED  BY <1>3, <1>4

LEMMA RunRan ==
  ASSUME NEW src \in Seq(Byte), NEW g, RunFrom(src, g, 0)
  PROVE  \A q \in 0 .. Len(src) : Ran(src, q, g[q].end, g[q].lines)
<1> DEFINE Good(q) == Ran(src, q, g[q].end, g[q].lines)
           S == {m \in Nat : \A q \in 0 .. Len(src) : q >= Len(src) - m => Good(q)}
<1>0. Len(src) \in Nat  OBVIOUS
<1>1. ASSUME NEW q \in 0 .. Len(src), \A r \in 0 .. Len(src) : r > q => Good(r)
      PROVE  Good(q)
  <2>1. g[q] = RunAt(src, g, q)  BY DEF RunFrom
  <2>2. CASE Stops(src, q)
    <3>1. g[q].end = q /\ g[q].lines = 0  BY <2>1, <2>2 DEF RunAt
    <3>2. Ran(src, q, q, 0)  BY <2>2, RanStop DEF Stops
    <3> QED  BY <3>1, <3>2
  <2>3. CASE ~Stops(src, q)
    <3> DEFINE r == After(src, q)
               e == g[r].end
               n == g[r].lines
    <3>1. r \in 0 .. Len(src) /\ r > q  BY <2>3, AfterWithin
    <3>2. Ran(src, r, e, n)  BY <1>1, <3>1
    <3>3. g[q].end = e /\ g[q].lines = n + (IF At(src, q) \in Ends THEN 1 ELSE 0)
      BY <2>1, <2>3 DEF RunAt, Ends
    <3>4. At(src, q) \in Blanks /\ q \in 0 .. Len(src) - 1  BY <1>0, <2>3 DEF Stops
    <3>5. n \in Nat  BY <3>2 DEF Ran
    <3> HIDE DEF e, n
    <3>6. CASE Paired(src, q)
      <4>1. r = q + 2  BY <3>6 DEF After
      <4>2. At(src, q) = CarriageReturn /\ q + 1 < Len(src) /\ At(src, q + 1) = LineFeed
        BY <3>6 DEF Paired
      <4>3. g[q].lines = n + 1  BY <3>3, <4>2 DEF Ends
      <4>4. Ran(src, q + 2, e, n)  BY <3>2, <4>1
      <4>5. Ran(src, q, e, n + 1)  BY <3>4, <4>2, <4>4, RanPair
      <4> QED  BY <3>3, <4>3, <4>5
    <3>7. CASE ~Paired(src, q) /\ At(src, q) \in Ends
      <4>1. r = q + 1  BY <3>7 DEF After
      <4>2. g[q].lines = n + 1  BY <3>3, <3>7
      <4>3. Ran(src, q + 1, e, n)  BY <3>2, <4>1
      <4>4. Ran(src, q, e, n + 1)  BY <3>4, <3>7, <4>3, RanLine DEF Paired
      <4> QED  BY <3>3, <4>2, <4>4
    <3>8. CASE At(src, q) \notin Ends
      <4>1. ~Paired(src, q)  BY <3>8 DEF Paired, Ends
      <4>2. r = q + 1  BY <4>1 DEF After
      <4>3. g[q].lines = n  BY <3>3, <3>5, <3>8
      <4>4. Ran(src, q + 1, e, n)  BY <3>2, <4>2
      <4>5. Ran(src, q, e, n)  BY <3>4, <3>8, <4>4, RanPlain
      <4> QED  BY <3>3, <4>3, <4>5
    <3> QED  BY <3>6, <3>7, <3>8
  <2> QED  BY <2>2, <2>3
<1> HIDE DEF Good
<1>2. 0 \in S
  <2> SUFFICES ASSUME NEW q \in 0 .. Len(src), q >= Len(src) - 0 PROVE Good(q)  OBVIOUS
  <2>1. \A r \in 0 .. Len(src) : ~(r > q)  BY <1>0
  <2> QED  BY <1>1, <2>1
<1>3. ASSUME NEW m \in Nat, m \in S PROVE m + 1 \in S
  <2> SUFFICES ASSUME NEW q \in 0 .. Len(src), q >= Len(src) - (m + 1) PROVE Good(q)  OBVIOUS
  <2>1. \A r \in 0 .. Len(src) : r > q => r >= Len(src) - m  BY <1>0
  <2>2. \A r \in 0 .. Len(src) : r > q => Good(r)  BY <1>3, <2>1
  <2> QED  BY <1>1, <2>2
<1> HIDE DEF S
<1>4. Nat \subseteq S  BY <1>2, <1>3, SetInduction
<1>5. Len(src) \in S  BY <1>0, <1>4
<1>6. \A q \in 0 .. Len(src) : q >= Len(src) - Len(src)  BY <1>0
<1>7. \A q \in 0 .. Len(src) : Good(q)  BY <1>5, <1>6 DEF S
<1> QED  BY <1>7 DEF Good

(* A run of blanks ends where the blanks do, and counts none, one or more  *)
(* line ends as there are.                                                 *)
LEMMA BlankRunRan ==
  ASSUME NEW src \in Seq(Byte), NEW p \in 0 .. Len(src)
  PROVE  Ran(src, p, BlankRun(src, p).end, BlankRun(src, p).lines)
<1>1. PICK g : RunFrom(src, g, 0) /\ \A q \in 0 .. Len(src) : BlankRun(src, q) = g[q]
  BY BlankRunIs
<1>2. Ran(src, p, g[p].end, g[p].lines)  BY <1>1, RunRan
<1>3. BlankRun(src, p) = g[p]  BY <1>1
<1> QED  BY <1>2, <1>3

LEMMA BlankRunMoves ==
  ASSUME NEW src \in Seq(Byte), NEW p \in 0 .. Len(src) - 1, At(src, p) \in Blanks, NEW n, NEW e, Ran(src, p, e, n)
  PROVE  e > p
<1>1. Len(src) \in Nat /\ p \in Nat  OBVIOUS
<1> QED  BY <1>1 DEF Ran

(* The end of a run of letters.                                            *)
LEMMA WordEndIs ==
  ASSUME NEW src \in Seq(Byte), NEW p \in 0 .. Len(src) - 1, At(src, p) \in Letters
  PROVE  /\ WordEnd(src, p) \in p + 1 .. Len(src)
         /\ \A k \in p .. WordEnd(src, p) - 1 : At(src, k) \in Letters
<1> DEFINE Stop(q) == /\ q = Len(src) \/ At(src, q) \notin Letters
                      /\ \A k \in p .. q - 1 : At(src, k) \in Letters
           T == {q \in p .. Len(src) : q = Len(src) \/ At(src, q) \notin Letters}
<1>0. Len(src) \in Nat /\ p \in Nat /\ p < Len(src)  OBVIOUS
<1>1. T \in SUBSET Nat /\ T # {}
  <2>1. Len(src) \in T  BY <1>0
  <2> QED  BY <1>0, <2>1
<1>2. PICK x \in T : \A y \in T : x <= y
  <2> HIDE DEF T
  <2> QED  BY <1>1, Least
<1>3. x \in p .. Len(src) /\ (x = Len(src) \/ At(src, x) \notin Letters)  OBVIOUS
<1>4. ASSUME NEW k \in p .. x - 1 PROVE At(src, k) \in Letters
  <2>1. k \in p .. Len(src) /\ k # Len(src) /\ ~(x <= k)  BY <1>0, <1>3
  <2> QED  BY <1>2, <2>1
<1>5. \E q \in p .. Len(src) : Stop(q)  BY <1>3, <1>4
<1>6. WordEnd(src, p) = CHOOSE q \in p .. Len(src) : Stop(q)  BY DEF WordEnd
<1> DEFINE w == WordEnd(src, p)
<1>7. w \in p .. Len(src) /\ Stop(w)
  <2> HIDE DEF Stop
  <2> QED  BY <1>5, <1>6
<1> HIDE DEF w
<1>8. w # p  BY <1>0, <1>7
<1> QED  BY <1>0, <1>7, <1>8 DEF w

-----------------------------------------------------------------------------
(***************************************************************************)
(* The scanner.                                                            *)
(***************************************************************************)
TokenSet ==
  [kind : {"CHARACTER", "CONTROL", "SPACE", "PAR", "END"}, codepoint : Codepoints,
   begin : Nat, end : Nat]

(* Bytes of a source, between two positions.                               *)
Part(src, begin, end) == SubSeq(src, begin + 1, end)

(* What one token says of the source.                                      *)
TokenGood(src, t) ==
  /\ t.kind = "END" => t.begin = Len(src) /\ t.end = Len(src)
  /\ t.kind # "END" => t.begin < t.end /\ t.end <= Len(src)
  /\ t.kind = "CHARACTER" => /\ WellFormed(Part(src, t.begin, t.end))
                             /\ Encoded(t.codepoint) = Part(src, t.begin, t.end)
  /\ t.kind = "CONTROL" /\ At(src, t.begin + 1) \notin Letters =>
       WellFormed(Part(src, t.begin + 1, t.end))
  /\ t.kind = "PAR" => TwoEnds(src, t.begin, t.end)
  /\ t.kind = "SPACE" => ~TwoEnds(src, t.begin, t.end)
  /\ t.kind \in {"PAR", "SPACE"} /\ t.end < Len(src) => At(src, t.end) \notin Blanks

(* What is passed over after a token.                                      *)
Gap(src, t, next) ==
  /\ next \in 0 .. Len(src) /\ t.end <= next
  /\ t.end # next => /\ t.kind = "CONTROL" /\ At(src, t.begin + 1) \in Letters
                     /\ \A p \in t.end .. next - 1 : At(src, p) \in Blanks
  /\ ~TwoEnds(src, t.end, next)

Follows(src, t, u, err) ==
  /\ t.kind # "END"
  /\ Gap(src, t, u.begin) \/ (err # << >> /\ u.kind = "END")

EndedBy(toks) == toks # << >> /\ toks[Len(toks)].kind = "END"

(* How far the tokens before an error reach.                               *)
Reached(toks) ==
  IF toks = << >> \/ toks[1].kind = "END" THEN 0
  ELSE LET last == IF EndedBy(toks) THEN Len(toks) - 1 ELSE Len(toks) IN toks[last].end

ErrorGood(src, toks, e) ==
  /\ e.begin \in Nat /\ e.end \in Nat /\ e.begin < e.end /\ e.end <= Len(src)
  /\ e.status = "INVALID_UTF8" =>
       \A end \in e.begin + 1 .. Len(src) : ~WellFormed(Part(src, e.begin, end))
  /\ e.status = "UNSUPPORTED" => Part(src, e.begin, Len(src)) = <<Backslash>>
  /\ \A p \in Reached(toks) .. e.begin - 1 : At(src, p) \in Blanks \cup {Backslash}

(* What has been scanned: the tokens, one by one and one after another,    *)
(* and where the scanner stands.                                           *)
Scanned(src, pos, toks, err) ==
  /\ src \in Seq(Byte) /\ pos \in 0 .. Len(src) /\ toks \in Seq(TokenSet)
  /\ \A k \in 1 .. Len(toks) : TokenGood(src, toks[k])
  /\ \A k \in 1 .. Len(toks) - 1 : Follows(src, toks[k], toks[k + 1], err)
  /\ toks # << >> => toks[1].begin = 0 \/ err # << >>
  /\ err = << >> => IF toks = << >> THEN pos = 0 ELSE Gap(src, toks[Len(toks)], pos)
  /\ err # << >> \/ EndedBy(toks) => pos = Len(src)
  /\ err # << >> => Len(err) = 1 /\ ErrorGood(src, toks, err[1])

ScanInv == Scanned(source, position, tokens, error)

LEMMA AppendIs ==
  ASSUME NEW S, NEW s \in Seq(S), NEW u \in S
  PROVE  /\ Append(s, u) \in Seq(S) /\ Len(s) \in Nat /\ Len(Append(s, u)) = Len(s) + 1
         /\ Append(s, u) # << >> /\ Append(s, u)[Len(s) + 1] = u
         /\ \A k \in 1 .. Len(s) : Append(s, u)[k] = s[k]
         /\ s # << >> => Len(s) >= 1
<1>1. Append(s, u) \in Seq(S) /\ Len(s) \in Nat /\ Len(Append(s, u)) = Len(s) + 1  OBVIOUS
<1>2. Append(s, u)[Len(s) + 1] = u /\ \A k \in 1 .. Len(s) : Append(s, u)[k] = s[k]  OBVIOUS
<1>3. Append(s, u) # << >>  BY <1>1
<1>4. s # << >> => Len(s) >= 1  OBVIOUS
<1> QED  BY <1>1, <1>2, <1>3, <1>4

(* Nothing between a position and itself.                                  *)
LEMMA NoEnds ==
  ASSUME NEW src, NEW p \in Int
  PROVE  ~TwoEnds(src, p, p)
<1>1. p .. p - 1 = {}  OBVIOUS
<1> QED  BY <1>1 DEF TwoEnds, EndsIn

(* The tokens and one more keep what each says of the source, and of the   *)
(* one after it.                                                           *)
LEMMA TokensMore ==
  ASSUME NEW src, NEW err, NEW toks \in Seq(TokenSet), NEW u \in TokenSet, TokenGood(src, u),
         \A k \in 1 .. Len(toks) : TokenGood(src, toks[k]),
         \A k \in 1 .. Len(toks) - 1 : Follows(src, toks[k], toks[k + 1], err),
         toks # << >> => Follows(src, toks[Len(toks)], u, err)
  PROVE  /\ \A k \in 1 .. Len(Append(toks, u)) : TokenGood(src, Append(toks, u)[k])
         /\ \A k \in 1 .. Len(Append(toks, u)) - 1 :
              Follows(src, Append(toks, u)[k], Append(toks, u)[k + 1], err)
<1> DEFINE more == Append(toks, u)
           n == Len(toks)
<1>1. /\ n \in Nat /\ Len(more) = n + 1 /\ more[n + 1] = u
      /\ \A k \in 1 .. n : more[k] = toks[k]
  BY AppendIs
<1>2. n >= 1 => toks # << >>  OBVIOUS
<1> HIDE DEF more, n
<1>3. ASSUME NEW k \in 1 .. n + 1 PROVE TokenGood(src, more[k])
  <2>1. CASE k = n + 1  BY <1>1, <2>1
  <2>2. CASE k \in 1 .. n  BY <1>1, <2>2 DEF n
  <2> QED  BY <1>1, <2>1, <2>2
<1>4. ASSUME NEW k \in 1 .. n PROVE Follows(src, more[k], more[k + 1], err)
  <2>1. CASE k = n
    <3>1. more[k] = toks[Len(toks)] /\ more[k + 1] = u  BY <1>1, <2>1 DEF n
    <3>2. toks # << >>  BY <1>1, <1>2
    <3> QED  BY <3>1, <3>2
  <2>2. CASE k < n
    <3>1. k + 1 \in 1 .. n /\ k \in 1 .. Len(toks) - 1  BY <1>1, <2>2 DEF n
    <3> QED  BY <1>1, <3>1
  <2> QED  BY <1>1, <2>1, <2>2
<1>5. (n + 1) - 1 = n  BY <1>1
<1> QED  BY <1>1, <1>3, <1>4, <1>5 DEF more

LEMMA EndedMore ==
  ASSUME NEW toks \in Seq(TokenSet), NEW u \in TokenSet
  PROVE  EndedBy(Append(toks, u)) <=> u.kind = "END"
<1>1. Append(toks, u) # << >> /\ Append(toks, u)[Len(Append(toks, u))] = u
  <2>1. /\ Len(Append(toks, u)) = Len(toks) + 1 /\ Append(toks, u)[Len(toks) + 1] = u
        /\ Append(toks, u) # << >>
    BY AppendIs
  <2> QED  BY <2>1
<1> QED  BY <1>1 DEF EndedBy

(* A token is given, and it is not the end.                                *)
LEMMA GiveKeeps ==
  ASSUME NEW src, NEW pos, NEW toks, Scanned(src, pos, toks, << >>), ~EndedBy(toks),
         NEW u \in TokenSet, u.kind # "END", u.begin = pos, TokenGood(src, u),
         NEW next, Gap(src, u, next)
  PROVE  Scanned(src, next, Append(toks, u), << >>)
<1> DEFINE more == Append(toks, u)
<1>1. /\ src \in Seq(Byte) /\ toks \in Seq(TokenSet) /\ pos \in 0 .. Len(src)
      /\ \A k \in 1 .. Len(toks) : TokenGood(src, toks[k])
      /\ \A k \in 1 .. Len(toks) - 1 : Follows(src, toks[k], toks[k + 1], << >>)
      /\ toks # << >> => toks[1].begin = 0
      /\ IF toks = << >> THEN pos = 0 ELSE Gap(src, toks[Len(toks)], pos)
  BY DEF Scanned
<1>2. /\ more \in Seq(TokenSet) /\ Len(toks) \in Nat /\ Len(more) = Len(toks) + 1
      /\ more # << >> /\ more[Len(toks) + 1] = u
      /\ \A k \in 1 .. Len(toks) : more[k] = toks[k]
      /\ toks # << >> => Len(toks) >= 1
  BY <1>1, AppendIs
<1>3. toks # << >> => Follows(src, toks[Len(toks)], u, << >>)
  BY <1>1 DEF Follows, EndedBy
<1>4. /\ \A k \in 1 .. Len(more) : TokenGood(src, more[k])
      /\ \A k \in 1 .. Len(more) - 1 : Follows(src, more[k], more[k + 1], << >>)
  BY <1>1, <1>3, TokensMore
<1>5. ~EndedBy(more)  BY <1>1, EndedMore
<1>6. more[1].begin = 0
  <2>1. CASE toks = << >>
    <3>1. Len(toks) = 0  BY <2>1
    <3> QED  BY <1>1, <1>2, <2>1, <3>1
  <2>2. CASE toks # << >>
    <3>1. more[1] = toks[1]  BY <1>2, <2>2
    <3> QED  BY <1>1, <2>2, <3>1
  <2> QED  BY <2>1, <2>2
<1>7. more[Len(more)] = u  BY <1>2
<1>8. next \in 0 .. Len(src)  BY DEF Gap
<1> HIDE DEF more
<1>9. Scanned(src, next, more, << >>)  BY <1>1, <1>2, <1>4, <1>5, <1>6, <1>7, <1>8 DEF Scanned
<1> QED  BY <1>9 DEF more

(* The tokens before an error are not the end.                             *)
LEMMA FirstGoesOn ==
  ASSUME NEW src, NEW err, NEW toks \in Seq(TokenSet), ~EndedBy(toks), toks # << >>,
         \A k \in 1 .. Len(toks) - 1 : Follows(src, toks[k], toks[k + 1], err)
  PROVE  toks[1].kind # "END" /\ Len(toks) >= 1 /\ Reached(toks) = toks[Len(toks)].end
<1>1. Len(toks) \in Nat /\ Len(toks) >= 1  OBVIOUS
<1>2. toks[1].kind # "END"
  <2>1. CASE Len(toks) = 1  BY <2>1 DEF EndedBy
  <2>2. CASE Len(toks) > 1
    <3>1. 1 \in 1 .. Len(toks) - 1  BY <1>1, <2>2
    <3> QED  BY <3>1 DEF Follows
  <2>3. Len(toks) = 1 \/ Len(toks) > 1
    <3> DEFINE n == Len(toks)
    <3>1. n \in Nat /\ n >= 1  BY <1>1
    <3> HIDE DEF n
    <3>2. n = 1 \/ n > 1  BY ONLY <3>1
    <3> QED  BY <3>2 DEF n
  <2> QED  BY <2>1, <2>2, <2>3
<1> QED  BY <1>1, <1>2 DEF Reached

LEMMA ReachedMore ==
  ASSUME NEW src, NEW err, NEW toks \in Seq(TokenSet), ~EndedBy(toks), NEW u \in TokenSet, u.kind = "END",
         \A k \in 1 .. Len(toks) - 1 : Follows(src, toks[k], toks[k + 1], err)
  PROVE  Reached(Append(toks, u)) = Reached(toks)
<1> DEFINE more == Append(toks, u)
<1>1. /\ Len(toks) \in Nat /\ Len(more) = Len(toks) + 1
      /\ more # << >> /\ more[Len(toks) + 1] = u
      /\ \A k \in 1 .. Len(toks) : more[k] = toks[k]
  BY AppendIs
<1>2. EndedBy(more)  BY EndedMore
<1> HIDE DEF more
<1>3. CASE toks = << >>
  <2>1. more[1].kind = "END"  BY <1>1, <1>3
  <2> QED  BY <1>3, <2>1 DEF Reached, more
<1>4. CASE toks # << >>
  <2>1. toks[1].kind # "END" /\ Len(toks) >= 1 /\ Reached(toks) = toks[Len(toks)].end
    BY <1>4, FirstGoesOn
  <2>2. more[1] = toks[1] /\ more[Len(more) - 1] = toks[Len(toks)]  BY <1>1, <2>1
  <2>3. Reached(more) = more[Len(more) - 1].end  BY <1>1, <1>2, <2>1, <2>2 DEF Reached
  <2> QED  BY <2>1, <2>2, <2>3 DEF more
<1> QED  BY <1>3, <1>4

(* The end is given.                                                       *)
LEMMA EndGiven ==
  ASSUME NEW src, NEW pos, NEW toks, NEW err, Scanned(src, pos, toks, err), ~EndedBy(toks),
         pos >= Len(src), NEW u \in TokenSet, u.kind = "END", u.begin = Len(src), u.end = Len(src)
  PROVE  Scanned(src, pos, Append(toks, u), err)
<1> DEFINE more == Append(toks, u)
<1>1. /\ src \in Seq(Byte) /\ toks \in Seq(TokenSet) /\ pos \in 0 .. Len(src)
      /\ \A k \in 1 .. Len(toks) : TokenGood(src, toks[k])
      /\ \A k \in 1 .. Len(toks) - 1 : Follows(src, toks[k], toks[k + 1], err)
      /\ toks # << >> => toks[1].begin = 0 \/ err # << >>
      /\ err = << >> => IF toks = << >> THEN pos = 0 ELSE Gap(src, toks[Len(toks)], pos)
      /\ err # << >> => Len(err) = 1 /\ ErrorGood(src, toks, err[1])
  BY DEF Scanned
<1>2. /\ more \in Seq(TokenSet) /\ Len(toks) \in Nat /\ Len(more) = Len(toks) + 1
      /\ more # << >> /\ more[Len(toks) + 1] = u
      /\ \A k \in 1 .. Len(toks) : more[k] = toks[k]
      /\ toks # << >> => Len(toks) >= 1
  BY <1>1, AppendIs
<1>3. pos = Len(src) /\ Len(src) \in Nat  BY <1>1
<1>4. toks # << >> => Follows(src, toks[Len(toks)], u, err)
  BY <1>1, <1>3 DEF Follows, EndedBy
<1>5. TokenGood(src, u)  BY DEF TokenGood
<1>6. /\ \A k \in 1 .. Len(more) : TokenGood(src, more[k])
      /\ \A k \in 1 .. Len(more) - 1 : Follows(src, more[k], more[k + 1], err)
  BY <1>1, <1>4, <1>5, TokensMore
<1>7. more[1].begin = 0 \/ err # << >>
  <2>1. CASE toks = << >>
    <3>1. Len(toks) = 0  BY <2>1
    <3> QED  BY <1>1, <1>2, <1>3, <2>1, <3>1
  <2>2. CASE toks # << >>
    <3>1. more[1] = toks[1]  BY <1>2, <2>2
    <3> QED  BY <1>1, <2>2, <3>1
  <2> QED  BY <2>1, <2>2
<1>8. more[Len(more)] = u  BY <1>2
<1>9. Gap(src, u, pos)  BY <1>3, NoEnds DEF Gap
<1>10. Reached(more) = Reached(toks)  BY <1>1, ReachedMore
<1>11. err # << >> => Len(err) = 1 /\ ErrorGood(src, more, err[1])
  BY <1>1, <1>10 DEF ErrorGood
<1> HIDE DEF more
<1>12. Scanned(src, pos, more, err)
  BY <1>1, <1>2, <1>3, <1>6, <1>7, <1>8, <1>9, <1>11 DEF Scanned
<1> QED  BY <1>12 DEF more

(* A failure parks the scanner at the end.                                 *)
LEMMA FailKeeps ==
  ASSUME NEW src, NEW pos, NEW toks, Scanned(src, pos, toks, << >>), ~EndedBy(toks),
         NEW e, e.begin \in Nat, e.end \in Nat, e.begin < e.end, e.end <= Len(src),
         e.status = "INVALID_UTF8" =>
           \A end \in e.begin + 1 .. Len(src) : ~WellFormed(Part(src, e.begin, end)),
         e.status = "UNSUPPORTED" => Part(src, e.begin, Len(src)) = <<Backslash>>,
         \A p \in pos .. e.begin - 1 : At(src, p) \in Blanks \cup {Backslash}
  PROVE  Scanned(src, Len(src), toks, <<e>>)
<1>1. /\ src \in Seq(Byte) /\ toks \in Seq(TokenSet) /\ pos \in 0 .. Len(src)
      /\ \A k \in 1 .. Len(toks) : TokenGood(src, toks[k])
      /\ \A k \in 1 .. Len(toks) - 1 : Follows(src, toks[k], toks[k + 1], << >>)
      /\ IF toks = << >> THEN pos = 0 ELSE Gap(src, toks[Len(toks)], pos)
  BY DEF Scanned
<1>2. \A p \in Reached(toks) .. e.begin - 1 : At(src, p) \in Blanks \cup {Backslash}
  <2>1. CASE toks = << >>
    <3>1. Reached(toks) = 0 /\ pos = 0  BY <1>1, <2>1 DEF Reached
    <3> QED  BY <3>1
  <2>2. CASE toks # << >>
    <3> DEFINE r == Reached(toks)
    <3>1. r = toks[Len(toks)].end /\ Len(toks) >= 1  BY <1>1, <2>2, FirstGoesOn
    <3>2. toks[Len(toks)] \in TokenSet  BY <1>1, <3>1
    <3>3. r \in Nat  BY <3>1, <3>2 DEF TokenSet
    <3>4. Gap(src, toks[Len(toks)], pos)  BY <1>1, <2>2
    <3>5. \A p \in r .. pos - 1 : At(src, p) \in Blanks
      <4> HIDE DEF r
      <4>1. CASE r = pos
        <5>1. r .. pos - 1 = {}  BY <1>1, <4>1
        <5> QED  BY <5>1
      <4>2. CASE r # pos  BY <3>1, <3>4, <4>2 DEF Gap
      <4> QED  BY <4>1, <4>2
    <3> HIDE DEF r
    <3>6. ASSUME NEW p \in r .. e.begin - 1 PROVE At(src, p) \in Blanks \cup {Backslash}
      <4>1. p \in Int /\ pos \in Int  BY <1>1, <3>3
      <4>2. CASE p < pos
        <5>1. p \in r .. pos - 1  BY <3>3, <4>1, <4>2
        <5> QED  BY <3>5, <5>1
      <4>3. CASE p >= pos
        <5>1. p \in pos .. e.begin - 1  BY <3>3, <4>1, <4>3
        <5> QED  BY <5>1
      <4> QED  BY <4>1, <4>2, <4>3
    <3> QED  BY <3>6 DEF r
  <2> QED  BY <2>1, <2>2
<1>3. ErrorGood(src, toks, e)  BY <1>2 DEF ErrorGood
<1>4. <<e>> # << >> /\ Len(<<e>>) = 1 /\ <<e>>[1] = e  OBVIOUS
<1>5. \A k \in 1 .. Len(toks) - 1 : Follows(src, toks[k], toks[k + 1], <<e>>)
  BY <1>1 DEF Follows
<1>6. Len(src) \in 0 .. Len(src)  BY <1>1
<1> DEFINE err == <<e>>
<1> HIDE DEF err
<1>7. err # << >> /\ Len(err) = 1 /\ err[1] = e  BY <1>4 DEF err
<1>8. \A k \in 1 .. Len(toks) - 1 : Follows(src, toks[k], toks[k + 1], err)  BY <1>5 DEF err
<1>9. Scanned(src, Len(src), toks, err)  BY <1>1, <1>3, <1>6, <1>7, <1>8 DEF Scanned
<1> QED  BY <1>9 DEF err

-----------------------------------------------------------------------------
(* One scan, action by action.                                             *)
LEMMA TokenOfIs ==
  ASSUME NEW kind, NEW c, NEW b, NEW e
  PROVE  /\ TokenOf(kind, c, b, e).kind = kind /\ TokenOf(kind, c, b, e).codepoint = c
         /\ TokenOf(kind, c, b, e).begin = b /\ TokenOf(kind, c, b, e).end = e
BY DEF TokenOf

LEMMA TokenOfIn ==
  ASSUME NEW kind \in {"CHARACTER", "CONTROL", "SPACE", "PAR", "END"}, NEW c \in Codepoints,
         NEW b \in Nat, NEW e \in Nat
  PROVE  TokenOf(kind, c, b, e) \in TokenSet
BY DEF TokenOf, TokenSet

LEMMA ZeroIn == 0 \in Codepoints
<1>1. MaxCodepoint \in Nat  BY SMT DEF MaxCodepoint
<1> QED  BY <1>1 DEF Codepoints

(* The scanner before it takes a token.                                    *)
Scanning ==
  /\ ScanInv /\ error = << >> /\ ~EndedBy(tokens) /\ source \in Seq(Byte)
  /\ Len(source) \in Nat /\ position \in Nat /\ position \in 0 .. Len(source) - 1

LEMMA ScanningIs ==
  ASSUME ScanInv, ~AtEnd
  PROVE  Scanning
<1>1. source \in Seq(Byte) /\ position \in 0 .. Len(source)  BY DEF ScanInv, Scanned
<1>2. Len(source) \in Nat  BY <1>1
<1>3. position \in 0 .. Len(source) - 1 /\ position # Len(source)  BY <1>1, <1>2 DEF AtEnd
<1>4. error = << >> /\ ~EndedBy(tokens)  BY <1>3 DEF ScanInv, Scanned
<1> QED  BY <1>1, <1>2, <1>3, <1>4 DEF Scanning

(* A token is given.                                                       *)
LEMMA GivenIs ==
  ASSUME Scanning, NEW kind \in {"CHARACTER", "CONTROL", "SPACE", "PAR"}, NEW c \in Codepoints,
         NEW e \in Nat, NEW next, Give(TokenOf(kind, c, position, e), next),
         TokenGood(source, TokenOf(kind, c, position, e)),
         Gap(source, TokenOf(kind, c, position, e), next)
  PROVE  ScanInv'
<1> DEFINE u == TokenOf(kind, c, position, e)
<1>1. u \in TokenSet /\ u.kind # "END" /\ u.begin = position
  BY TokenOfIn, TokenOfIs DEF Scanning
<1>2. /\ tokens' = Append(tokens, u) /\ position' = next
      /\ source' = source /\ error' = error
  BY DEF Give
<1>3. TokenGood(source, u) /\ Gap(source, u, next)  OBVIOUS
<1> HIDE DEF u
<1>4. Scanned(source, position, tokens, << >>) /\ ~EndedBy(tokens) /\ error = << >>
  BY DEF Scanning, ScanInv
<1>5. Scanned(source, next, Append(tokens, u), << >>)  BY <1>1, <1>3, <1>4, GiveKeeps
<1> QED  BY <1>2, <1>4, <1>5 DEF ScanInv

LEMMA FailedIs ==
  ASSUME Scanning, NEW status, NEW b \in Nat, NEW e \in Nat, Fail(status, b, e), b < e, e <= Len(source),
         status = "INVALID_UTF8" =>
           \A end \in b + 1 .. Len(source) : ~WellFormed(Part(source, b, end)),
         status = "UNSUPPORTED" => Part(source, b, Len(source)) = <<Backslash>>,
         \A p \in position .. b - 1 : At(source, p) \in Blanks \cup {Backslash}
  PROVE  ScanInv'
<1> DEFINE x == [status |-> status, begin |-> b, end |-> e]
<1>1. x.status = status /\ x.begin = b /\ x.end = e  OBVIOUS
<1>2. /\ error' = <<x>> /\ position' = Len(source)
      /\ source' = source /\ tokens' = tokens
  BY DEF Fail
<1> HIDE DEF x
<1>3. Scanned(source, position, tokens, << >>) /\ ~EndedBy(tokens)  BY DEF Scanning, ScanInv
<1>4. Scanned(source, Len(source), tokens, <<x>>)  BY <1>1, <1>3, FailKeeps
<1> QED  BY <1>2, <1>4 DEF ScanInv

LEMMA EndKeepsScan ==
  ASSUME ScanInv, ScanEnd
  PROVE  ScanInv'
<1> DEFINE u == TokenOf("END", 0, Len(source), Len(source))
<1>1. source \in Seq(Byte) /\ Len(source) \in Nat
  <2>1. source \in Seq(Byte)  BY DEF ScanInv, Scanned
  <2> QED  BY <2>1
<1>2. u \in TokenSet /\ u.kind = "END" /\ u.begin = Len(source) /\ u.end = Len(source)
  BY <1>1, ZeroIn, TokenOfIn, TokenOfIs
<1>3. /\ tokens' = Append(tokens, u) /\ position' = position
      /\ source' = source /\ error' = error
  BY DEF ScanEnd, Give
<1> HIDE DEF u
<1>4. ~EndedBy(tokens) /\ position >= Len(source)  BY DEF ScanEnd, Ended, EndedBy, AtEnd
<1>5. Scanned(source, position, tokens, error)  BY DEF ScanInv
<1>6. Scanned(source, position, Append(tokens, u), error)  BY <1>2, <1>4, <1>5, EndGiven
<1> QED  BY <1>3, <1>6 DEF ScanInv

LEMMA BlankKeeps ==
  ASSUME ScanInv, ScanBlank
  PROVE  ScanInv'
<1> DEFINE run == BlankRun(source, position)
           e == run.end
           n == run.lines
           kind == IF n >= 2 THEN "PAR" ELSE "SPACE"
           u == TokenOf(kind, 0, position, e)
<1>1. Scanning  BY ScanningIs DEF ScanBlank
<1>2. source \in Seq(Byte) /\ position \in 0 .. Len(source) - 1 /\ Len(source) \in Nat
      /\ position \in 0 .. Len(source) /\ position \in Nat
  BY <1>1 DEF Scanning
<1>3. Ran(source, position, e, n)  BY <1>2, BlankRunRan
<1>4. At(source, position) \in Blanks  BY DEF ScanBlank, Here
<1>5. Give(u, e)  BY DEF ScanBlank
<1> HIDE DEF e, n
<1>6. e > position  BY <1>2, <1>3, <1>4, BlankRunMoves
<1>7. e \in position .. Len(source) /\ n \in Nat /\ (e = Len(source) \/ At(source, e) \notin Blanks)
      /\ (n >= 2 => TwoEnds(source, position, e)) /\ (n < 2 => ~TwoEnds(source, position, e))
  BY <1>3 DEF Ran
<1>8. e \in Nat /\ e <= Len(source)  BY <1>2, <1>7
<1>9. /\ u.kind = kind /\ u.begin = position /\ u.end = e  BY TokenOfIs
<1>10. kind \in {"SPACE", "PAR"} /\ (kind = "PAR" => n >= 2) /\ (kind = "SPACE" => n < 2)
  BY <1>7
<1>11. kind \in {"CHARACTER", "CONTROL", "SPACE", "PAR"} /\ 0 \in Codepoints  BY <1>10, ZeroIn
<1> HIDE DEF kind
<1>12. Give(TokenOf(kind, 0, position, e), e)  BY <1>5
<1> HIDE DEF u
<1>13. TokenGood(source, u)
  BY <1>6, <1>7, <1>8, <1>9, <1>10 DEF TokenGood
<1>14. Gap(source, u, e)  BY <1>2, <1>7, <1>8, <1>9, NoEnds DEF Gap
<1> QED  BY <1>1, <1>8, <1>11, <1>12, <1>13, <1>14, GivenIs DEF u

LEMMA WordKeeps ==
  ASSUME ScanInv, ScanWord
  PROVE  ScanInv'
<1> DEFINE e == WordEnd(source, position + 1)
           run == BlankRun(source, e)
           r == run.end
           n == run.lines
           next == Discarded(e)
           u == TokenOf("CONTROL", 0, position, e)
<1>1. Scanning  BY ScanningIs DEF ScanWord
<1>2. /\ source \in Seq(Byte) /\ Len(source) \in Nat /\ position \in Nat
      /\ position + 1 \in 0 .. Len(source) - 1 /\ At(source, position + 1) \in Letters
  <2>1. source \in Seq(Byte) /\ Len(source) \in Nat /\ position \in Nat  BY <1>1 DEF Scanning
  <2>2. position + 1 < Len(source) /\ At(source, position + 1) \in Letters  BY DEF ScanWord
  <2> QED  BY <2>1, <2>2
<1>3. e \in (position + 1) + 1 .. Len(source)  BY <1>2, WordEndIs
<1>4. Give(u, next)  BY DEF ScanWord
<1> HIDE DEF e
<1>5. e \in 0 .. Len(source) /\ e \in Nat /\ position < e /\ e <= Len(source)  BY <1>2, <1>3
<1>6. Ran(source, e, r, n)  BY <1>2, <1>5, BlankRunRan
<1>7. next = IF n < 2 THEN r ELSE e  BY DEF Discarded
<1> HIDE DEF next, r, n
<1>8. u.kind = "CONTROL" /\ u.begin = position /\ u.end = e  BY TokenOfIs
<1>9. 0 \in Codepoints  BY ZeroIn
<1>10. Give(TokenOf("CONTROL", 0, position, e), next)  BY <1>4
<1> HIDE DEF u
<1>11. TokenGood(source, u)  BY <1>2, <1>5, <1>8 DEF TokenGood
<1>12. Gap(source, u, next)
  <2>1. CASE n < 2
    <3>1. next = r  BY <1>7, <2>1
    <3>2. r \in e .. Len(source) /\ (\A p \in e .. r - 1 : At(source, p) \in Blanks) /\ ~TwoEnds(source, e, r)
      BY <1>6, <2>1 DEF Ran
    <3>3. r \in 0 .. Len(source) /\ e <= r  BY <1>2, <1>5, <3>2
    <3> QED  BY <1>2, <1>8, <3>1, <3>2, <3>3 DEF Gap
  <2>2. CASE ~(n < 2)
    <3>1. next = e  BY <1>7, <2>2
    <3> QED  BY <1>5, <1>8, <3>1, NoEnds DEF Gap
  <2> QED  BY <2>1, <2>2
<1> QED  BY <1>1, <1>5, <1>9, <1>10, <1>11, <1>12, GivenIs DEF u

LEMMA IncompleteKeeps ==
  ASSUME ScanInv, ScanIncomplete
  PROVE  ScanInv'
<1>1. Scanning  BY ScanningIs DEF ScanIncomplete
<1>2. /\ source \in Seq(Byte) /\ Len(source) \in Nat /\ position \in Nat
      /\ position + 1 = Len(source) /\ At(source, position) = Backslash
  BY <1>1 DEF Scanning, ScanIncomplete, Here
<1>3. Fail("UNSUPPORTED", position, Len(source))  BY DEF ScanIncomplete
<1>4. Part(source, position, Len(source)) = <<Backslash>>
  <2>1. Cut(source, position, 1) = <<At(source, position)>>  BY <1>2, CutOne
  <2> QED  BY <1>2, <2>1 DEF Cut, Part
<1>5. position .. position - 1 = {}  BY <1>2
<1> QED  BY <1>1, <1>2, <1>3, <1>4, <1>5, FailedIs

(* A decoding, seen from the slices.                                       *)
LEMMA DecodedPart ==
  ASSUME NEW src \in Seq(Byte), NEW p \in 0 .. Len(src) - 1
  PROVE  \/ \E n \in 1 .. 4, c \in Codepoints :
              /\ Utf8Next(src, p) = Valid(c, n) /\ p + n <= Len(src)
              /\ WellFormed(Part(src, p, p + n)) /\ Encoded(c) = Part(src, p, p + n)
         \/ \E n \in 1 .. 4 :
              /\ Utf8Next(src, p) = Invalid(n) /\ p + n <= Len(src)
              /\ \A end \in p + 1 .. Len(src) : ~WellFormed(Part(src, p, end))
<1> DEFINE x == Utf8Next(src, p)
<1>0. Len(src) \in Nat /\ p \in Nat  OBVIOUS
<1>1. Decodes(src, p, x)  BY NextDecodes
<1>2. \A n : Cut(src, p, n) = Part(src, p, p + n)  BY DEF Cut, Part
<1> HIDE DEF x
<1>3. CASE \E n \in 1 .. 4, c \in Codepoints :
             /\ x = Valid(c, n) /\ p + n <= Len(src)
             /\ WellFormed(Cut(src, p, n)) /\ Encoded(c) = Cut(src, p, n)
  <2>1. \E n \in 1 .. 4, c \in Codepoints :
          /\ x = Valid(c, n) /\ p + n <= Len(src)
          /\ WellFormed(Part(src, p, p + n)) /\ Encoded(c) = Part(src, p, p + n)
    BY <1>2, <1>3
  <2> QED  BY <2>1 DEF x
<1>4. CASE \E n \in 1 .. 4 :
             /\ x = Invalid(n) /\ p + n <= Len(src)
             /\ \A m \in 1 .. Len(src) - p : ~WellFormed(Cut(src, p, m))
  <2>1. PICK n \in 1 .. 4 :
          /\ x = Invalid(n) /\ p + n <= Len(src)
          /\ \A m \in 1 .. Len(src) - p : ~WellFormed(Cut(src, p, m))
    BY <1>4
  <2>2. ASSUME NEW end \in p + 1 .. Len(src) PROVE ~WellFormed(Part(src, p, end))
    <3>1. end - p \in 1 .. Len(src) - p /\ p + (end - p) = end  BY <1>0
    <3>2. ~WellFormed(Cut(src, p, end - p))  BY <2>1, <3>1
    <3>3. Cut(src, p, end - p) = Part(src, p, p + (end - p))  BY <1>2
    <3> QED  BY <3>1, <3>2, <3>3
  <2> QED  BY <2>1, <2>2 DEF x
<1> QED  BY <1>1, <1>3, <1>4 DEF Decodes

LEMMA SymbolKeeps ==
  ASSUME ScanInv, ScanSymbol
  PROVE  ScanInv'
<1> DEFINE q == position + 1
           x == Utf8Next(source, q)
<1>1. Scanning  BY ScanningIs DEF ScanSymbol
<1>2. /\ source \in Seq(Byte) /\ Len(source) \in Nat /\ position \in Nat
      /\ q \in 0 .. Len(source) - 1 /\ At(source, q) \notin Letters
      /\ At(source, position) = Backslash
  <2>1. source \in Seq(Byte) /\ Len(source) \in Nat /\ position \in Nat  BY <1>1 DEF Scanning
  <2>2. q < Len(source) /\ At(source, q) \notin Letters /\ At(source, position) = Backslash
    BY DEF ScanSymbol, Here
  <2> QED  BY <2>1, <2>2
<1>3. IF x.ok THEN Give(TokenOf("CONTROL", 0, position, q + x.length), q + x.length)
      ELSE Fail("INVALID_UTF8", q, q + x.length)
  BY DEF ScanSymbol
<1>a. q = position + 1 /\ q \in Nat  BY <1>2
<1>4. \/ \E n \in 1 .. 4, c \in Codepoints :
           /\ x = Valid(c, n) /\ q + n <= Len(source)
           /\ WellFormed(Part(source, q, q + n)) /\ Encoded(c) = Part(source, q, q + n)
      \/ \E n \in 1 .. 4 :
           /\ x = Invalid(n) /\ q + n <= Len(source)
           /\ \A end \in q + 1 .. Len(source) : ~WellFormed(Part(source, q, end))
  BY <1>2, DecodedPart
<1> HIDE DEF x
<1>5. ASSUME NEW n \in 1 .. 4, NEW c \in Codepoints, x = Valid(c, n), q + n <= Len(source),
             WellFormed(Part(source, q, q + n))
      PROVE  ScanInv'
  <2> DEFINE e == q + n
             u == TokenOf("CONTROL", 0, position, e)
  <2>1. x.ok = TRUE /\ x.length = n  BY <1>5 DEF Valid
  <2>2. Give(TokenOf("CONTROL", 0, position, e), e)  BY <1>3, <2>1
  <2>3. e \in Nat /\ position < e /\ e <= Len(source)  BY <1>2, <1>5, <1>a
  <2>4. WellFormed(Part(source, position + 1, e))  BY <1>5, <1>a
  <2>5. 0 \in Codepoints  BY ZeroIn
  <2> HIDE DEF e
  <2>6. u.kind = "CONTROL" /\ u.begin = position /\ u.end = e  BY TokenOfIs
  <2> HIDE DEF u, q
  <2>7. TokenGood(source, u)  BY <1>2, <2>3, <2>4, <2>6 DEF TokenGood
  <2>8. Gap(source, u, e)  BY <1>2, <2>3, <2>6, NoEnds DEF Gap
  <2> QED  BY <1>1, <2>2, <2>3, <2>5, <2>7, <2>8, GivenIs DEF u
<1>6. ASSUME NEW n \in 1 .. 4, x = Invalid(n), q + n <= Len(source),
             \A end \in q + 1 .. Len(source) : ~WellFormed(Part(source, q, end))
      PROVE  ScanInv'
  <2> DEFINE e == q + n
  <2>1. x.ok = FALSE /\ x.length = n  BY <1>6 DEF Invalid
  <2>2. Fail("INVALID_UTF8", q, e)  BY <1>3, <2>1
  <2>3. e \in Nat /\ q < e /\ e <= Len(source)  BY <1>6, <1>a
  <2>4. \A p \in position .. q - 1 : p = position  BY <1>2, <1>a
  <2>5. \A p \in position .. q - 1 : At(source, p) \in Blanks \cup {Backslash}  BY <1>2, <2>4
  <2> HIDE DEF e, q
  <2> QED  BY <1>1, <1>6, <1>a, <2>2, <2>3, <2>5, FailedIs
<1> QED  BY <1>4, <1>5, <1>6

LEMMA CharacterKeeps ==
  ASSUME ScanInv, ScanCharacter
  PROVE  ScanInv'
<1> DEFINE q == position
           x == Utf8Next(source, q)
<1>1. Scanning  BY ScanningIs DEF ScanCharacter
<1>2. source \in Seq(Byte) /\ Len(source) \in Nat /\ q \in Nat /\ q \in 0 .. Len(source) - 1
  BY <1>1 DEF Scanning
<1>3. IF x.ok THEN Give(TokenOf("CHARACTER", x.codepoint, q, q + x.length), q + x.length)
      ELSE Fail("INVALID_UTF8", q, q + x.length)
  BY DEF ScanCharacter
<1>4. \/ \E n \in 1 .. 4, c \in Codepoints :
           /\ x = Valid(c, n) /\ q + n <= Len(source)
           /\ WellFormed(Part(source, q, q + n)) /\ Encoded(c) = Part(source, q, q + n)
      \/ \E n \in 1 .. 4 :
           /\ x = Invalid(n) /\ q + n <= Len(source)
           /\ \A end \in q + 1 .. Len(source) : ~WellFormed(Part(source, q, end))
  BY <1>2, DecodedPart
<1> HIDE DEF x
<1>5. ASSUME NEW n \in 1 .. 4, NEW c \in Codepoints, x = Valid(c, n), q + n <= Len(source),
             WellFormed(Part(source, q, q + n)), Encoded(c) = Part(source, q, q + n)
      PROVE  ScanInv'
  <2> DEFINE e == q + n
             u == TokenOf("CHARACTER", c, position, e)
  <2>1. x.ok = TRUE /\ x.length = n /\ x.codepoint = c  BY <1>5 DEF Valid
  <2>2. Give(TokenOf("CHARACTER", c, position, e), e)  BY <1>3, <2>1
  <2>3. e \in Nat /\ position < e /\ e <= Len(source)  BY <1>2, <1>5
  <2>4. WellFormed(Part(source, position, e)) /\ Encoded(c) = Part(source, position, e)  BY <1>5
  <2> HIDE DEF e
  <2>6. u.kind = "CHARACTER" /\ u.begin = position /\ u.end = e /\ u.codepoint = c  BY TokenOfIs
  <2> HIDE DEF u
  <2>7. TokenGood(source, u)  BY <1>2, <2>3, <2>4, <2>6 DEF TokenGood
  <2>8. Gap(source, u, e)  BY <1>2, <2>3, <2>6, NoEnds DEF Gap
  <2> QED  BY <1>1, <2>2, <2>3, <2>7, <2>8, GivenIs DEF u
<1>6. ASSUME NEW n \in 1 .. 4, x = Invalid(n), q + n <= Len(source),
             \A end \in q + 1 .. Len(source) : ~WellFormed(Part(source, q, end))
      PROVE  ScanInv'
  <2> DEFINE e == q + n
  <2>1. x.ok = FALSE /\ x.length = n  BY <1>6 DEF Invalid
  <2>2. Fail("INVALID_UTF8", q, e)  BY <1>3, <2>1
  <2>3. e \in Nat /\ q < e /\ e <= Len(source)  BY <1>2, <1>6
  <2>4. position .. q - 1 = {}  BY <1>2
  <2>5. \A p \in position .. q - 1 : At(source, p) \in Blanks \cup {Backslash}  BY <2>4
  <2> HIDE DEF e
  <2>6. "INVALID_UTF8" # "UNSUPPORTED"  OBVIOUS
  <2> QED  BY <1>1, <1>2, <1>6, <2>2, <2>3, <2>5, <2>6, FailedIs
<1> QED  BY <1>4, <1>5, <1>6

LEMMA ScanKeeps ==
  ASSUME ScanInv, Scan
  PROVE  ScanInv'
BY EndKeepsScan, BlankKeeps, WordKeeps, SymbolKeeps, IncompleteKeeps, CharacterKeeps DEF Scan

LEMMA ScannedStart ==
  ASSUME NEW src \in Seq(Byte)
  PROVE  Scanned(src, 0, << >>, << >>)
<1>1. Len(src) \in Nat /\ Len(<< >>) = 0 /\ << >> \in Seq(TokenSet)  OBVIOUS
<1>2. 0 \in 0 .. Len(src)  BY <1>1
<1>3. 1 .. 0 = {} /\ 1 .. 0 - 1 = {}  OBVIOUS
<1> QED  BY <1>1, <1>2, <1>3 DEF Scanned, EndedBy

-----------------------------------------------------------------------------
(***************************************************************************)
(* The printer: what is left of the fraction, and how far it is known.     *)
(***************************************************************************)
PrintInv ==
  /\ fraction \in 0 .. 10 * One - 5 /\ delta \in Nat /\ delta >= 10 /\ digits \in Seq(0 .. 9)
  /\ ~printed => fraction > delta \/ (delta = 10 /\ fraction >= 5)

LEMMA Halves ==
  ASSUME NEW n \in Nat
  PROVE  2 * (n \div 2) <= n /\ n <= 2 * (n \div 2) + 1 /\ n \div 2 \in Nat
OBVIOUS

LEMMA RoundedWithin ==
  ASSUME NEW f \in 0 .. 10 * One - 5, NEW d \in Nat, d >= 10, f > d \/ (d = 10 /\ f >= 5)
  PROVE  (IF d > One THEN f + One \div 2 - d \div 2 ELSE f) \in 0 .. 10 * One - 1
<1>1. One \in Nat /\ One >= 1  BY DecimalAssumption
<1> DEFINE h == One \div 2
           e == d \div 2
<1>2. /\ h \in Nat /\ e \in Nat
      /\ 2 * h <= One /\ One <= 2 * h + 1
      /\ 2 * e <= d /\ d <= 2 * e + 1
  BY <1>1, Halves
<1> HIDE DEF h, e
<1>3. f \in Int /\ f >= 0 /\ f <= 10 * One - 5  BY <1>1
<1>4. ASSUME d > One PROVE f + h - e >= 0 /\ f + h - e <= 10 * One - 1 /\ f + h - e \in Int
  <2>1. h <= e  BY <1>1, <1>2, <1>4
  <2>2. f >= e  BY <1>1, <1>2, <1>3
  <2> QED  BY <1>1, <1>2, <1>3, <2>1, <2>2
<1>5. CASE d > One
  <2>1. (f + h - e) \in 0 .. 10 * One - 1  BY <1>1, <1>4, <1>5
  <2> QED  BY <1>5, <2>1 DEF h, e
<1>6. CASE ~(d > One)
  <2>1. f \in 0 .. 10 * One - 1  BY <1>1, <1>3
  <2> QED  BY <1>6, <2>1
<1> QED  BY <1>5, <1>6

LEMMA DigitWithin ==
  ASSUME NEW r \in 0 .. 10 * One - 1
  PROVE  r \div One \in 0 .. 9 /\ 10 * (r % One) \in 0 .. 10 * One - 5
<1>1. One \in Nat /\ One >= 1  BY DecimalAssumption
<1>2. r = One * (r \div One) + (r % One) /\ r % One \in 0 .. One - 1 /\ r \div One \in Int  BY <1>1
<1> DEFINE q == r \div One
           m == r % One
<1>3. r = One * q + m /\ m \in 0 .. One - 1 /\ q \in Int /\ r >= 0 /\ r <= 10 * One - 1
  BY <1>1, <1>2
<1> HIDE DEF q, m
<1>4. q >= 0
  <2> SUFFICES ASSUME q <= 0 - 1 PROVE FALSE  BY <1>3
  <2>1. One * q <= One * (0 - 1)  BY <1>1, <1>3
  <2> QED  BY <1>1, <1>3, <2>1
<1>5. q <= 9
  <2> SUFFICES ASSUME q >= 10 PROVE FALSE  BY <1>3
  <2>1. One * q >= One * 10  BY <1>1, <1>3
  <2> QED  BY <1>1, <1>3, <2>1
<1>6. 10 * m \in 0 .. 10 * One - 5  BY <1>1, <1>3
<1> QED  BY <1>3, <1>4, <1>5, <1>6 DEF q, m

LEMMA PrintStart ==
  ASSUME DecimalInit \/ DecimalIdle
  PROVE  PrintInv
<1>1. One \in Nat /\ One >= 1 /\ Fractions \subseteq 0 .. One - 1  BY DecimalAssumption
<1>2. << >> \in Seq(0 .. 9)  OBVIOUS
<1>3. CASE DecimalInit
  <2>1. scaled \in 0 .. One - 1 /\ fraction = 10 * scaled + 5 /\ delta = 10 /\ digits = << >>
    BY <1>1, <1>3 DEF DecimalInit
  <2>2. fraction \in 0 .. 10 * One - 5 /\ fraction >= 5  BY <1>1, <2>1
  <2> QED  BY <1>2, <2>1, <2>2 DEF PrintInv
<1>4. CASE DecimalIdle
  <2>1. fraction = 5 /\ delta = 10 /\ digits = << >>  BY <1>4 DEF DecimalIdle
  <2>2. fraction \in 0 .. 10 * One - 5 /\ fraction >= 5  BY <1>1, <2>1
  <2> QED  BY <1>2, <2>1, <2>2 DEF PrintInv
<1> QED  BY <1>3, <1>4

LEMMA PrintKeeps ==
  ASSUME PrintInv, PrintDigit
  PROVE  PrintInv'
<1> DEFINE r == Rounded
<1>1. /\ fraction \in 0 .. 10 * One - 5 /\ delta \in Nat /\ delta >= 10
      /\ fraction > delta \/ (delta = 10 /\ fraction >= 5)
      /\ digits \in Seq(0 .. 9)
  BY DEF PrintInv, PrintDigit
<1>2. r \in 0 .. 10 * One - 1  BY <1>1, RoundedWithin DEF Rounded
<1>3. /\ digits' = Append(digits, r \div One) /\ fraction' = 10 * (r % One)
      /\ delta' = 10 * delta
  BY DEF PrintDigit
<1>4. printed' = (fraction' <= delta')  BY Zenon DEF PrintDigit, Enough
<1> HIDE DEF r
<1>5. r \div One \in 0 .. 9 /\ fraction' \in 0 .. 10 * One - 5  BY <1>2, <1>3, DigitWithin
<1>6. digits' \in Seq(0 .. 9)  BY <1>1, <1>3, <1>5
<1>7. delta' \in Nat /\ delta' >= 10  BY <1>1, <1>3
<1>8. ~printed' => ~(fraction' <= delta')  BY <1>4, Zenon
<1>9. ~(fraction' <= delta') => fraction' > delta'
  <2>1. One \in Nat  BY DecimalAssumption
  <2>2. fraction' \in Int /\ delta' \in Int  BY <1>5, <1>7, <2>1
  <2> QED  BY <2>2
<1>10. ~printed' => fraction' > delta' \/ (delta' = 10 /\ fraction' >= 5)  BY <1>8, <1>9, Zenon
<1> QED  BY <1>5, <1>6, <1>7, <1>10, Zenon DEF PrintInv

-----------------------------------------------------------------------------
(* A search has one answer, once it has one.                               *)
FoundInv == found = << >> \/ \E x : found = <<x>>

LeafInv == ScanInv /\ PrintInv /\ FoundInv

LEMMA LeafStart == Init => LeafInv
<1> SUFFICES ASSUME Init PROVE LeafInv  OBVIOUS
<1>1. ScanInv
  <2>1. ScannerInit \/ ScannerIdle  BY DEF Init
  <2>2. << >> \in Seq(Byte)  OBVIOUS
  <2>3. source \in Seq(Byte) /\ position = 0 /\ tokens = << >> /\ error = << >>
    BY <2>1, <2>2, SourcesAssumption DEF ScannerInit, ScannerIdle
  <2> QED  BY <2>3, ScannedStart DEF ScanInv
<1>2. PrintInv  BY PrintStart DEF Init
<1>3. FoundInv
  <2>1. SearchInit \/ SearchIdle  BY DEF Init
  <2> QED  BY <2>1 DEF SearchInit, SearchIdle, FoundInv
<1> QED  BY <1>1, <1>2, <1>3 DEF LeafInv

LEMMA LeafKeeps == LeafInv /\ [Next]_vars => LeafInv'
<1> SUFFICES ASSUME LeafInv, [Next]_vars PROVE LeafInv'  OBVIOUS
<1>0. ScanInv /\ PrintInv /\ FoundInv  BY DEF LeafInv
<1>1. UNCHANGED scannerVars => ScanInv'
  <2> SUFFICES ASSUME UNCHANGED scannerVars PROVE ScanInv'  OBVIOUS
  <2>1. source' = source /\ position' = position /\ tokens' = tokens /\ error' = error
    BY DEF scannerVars
  <2> QED  BY <1>0, <2>1 DEF ScanInv
<1>2. UNCHANGED decimalVars => PrintInv'
  <2> SUFFICES ASSUME UNCHANGED decimalVars PROVE PrintInv'  OBVIOUS
  <2>1. fraction' = fraction /\ delta' = delta /\ digits' = digits /\ printed' = printed
    BY DEF decimalVars
  <2> QED  BY <1>0, <2>1, Zenon DEF PrintInv
<1>3. UNCHANGED searchVars => FoundInv'  BY <1>0 DEF searchVars, FoundInv
<1>4. CASE Scan /\ UNCHANGED <<searchVars, decimalVars, running>>
  <2>1. ScanInv'  BY <1>0, <1>4, ScanKeeps
  <2>2. UNCHANGED searchVars /\ UNCHANGED decimalVars  BY <1>4
  <2> QED  BY <1>2, <1>3, <2>1, <2>2 DEF LeafInv
<1>5. CASE SearchStep /\ UNCHANGED <<scannerVars, decimalVars, running>>
  <2>1. found' = found \/ \E x : found' = <<x>>
    BY <1>5 DEF SearchStep, SearchUpper, SearchLower, SearchMatch, SearchEnd
  <2>2. FoundInv'  BY <1>0, <2>1 DEF FoundInv
  <2>3. UNCHANGED scannerVars /\ UNCHANGED decimalVars  BY <1>5
  <2> QED  BY <1>1, <1>2, <2>2, <2>3 DEF LeafInv
<1>6. CASE PrintDigit /\ UNCHANGED <<scannerVars, searchVars, running>>
  <2>1. PrintInv'  BY <1>0, <1>6, PrintKeeps
  <2>2. UNCHANGED scannerVars /\ UNCHANGED searchVars  BY <1>6
  <2> QED  BY <1>1, <1>3, <2>1, <2>2 DEF LeafInv
<1>7. CASE UNCHANGED vars
  <2>1. UNCHANGED scannerVars /\ UNCHANGED searchVars /\ UNCHANGED decimalVars  BY <1>7 DEF vars
  <2> QED  BY <1>1, <1>2, <1>3, <2>1 DEF LeafInv
<1> QED  BY <1>4, <1>5, <1>6, <1>7 DEF Next, Run, Returned

(* The invariant of the scanner and of the printer, for every source and   *)
(* every fraction.                                                         *)
THEOREM LeafInvariance == Spec => []LeafInv
  BY LeafStart, LeafKeeps, PTL DEF Spec

-----------------------------------------------------------------------------
(* What the invariant says of the tokens.                                  *)
LEMMA ScannedIs ==
  ASSUME ScanInv
  PROVE  /\ source \in Seq(Byte) /\ position \in 0 .. Len(source) /\ tokens \in Seq(TokenSet)
         /\ Len(source) \in Nat /\ Len(tokens) \in Nat /\ DOMAIN tokens = 1 .. Len(tokens)
         /\ \A k \in 1 .. Len(tokens) : tokens[k] \in TokenSet /\ TokenGood(source, tokens[k])
         /\ \A k \in 1 .. Len(tokens) - 1 : Follows(source, tokens[k], tokens[k + 1], error)
<1>1. /\ source \in Seq(Byte) /\ position \in 0 .. Len(source) /\ tokens \in Seq(TokenSet)
      /\ \A k \in 1 .. Len(tokens) : TokenGood(source, tokens[k])
      /\ \A k \in 1 .. Len(tokens) - 1 : Follows(source, tokens[k], tokens[k + 1], error)
  BY DEF ScanInv, Scanned
<1>2. Len(source) \in Nat /\ Len(tokens) \in Nat /\ DOMAIN tokens = 1 .. Len(tokens)  BY <1>1
<1>3. \A k \in 1 .. Len(tokens) : tokens[k] \in TokenSet  BY <1>1, <1>2
<1> QED  BY <1>1, <1>2, <1>3

LEMMA TypeHolds == LeafInv /\ Inv => TypeOK
<1> SUFFICES ASSUME LeafInv, Inv PROVE TypeOK  OBVIOUS
<1>0. ScanInv /\ PrintInv /\ FoundInv  BY DEF LeafInv
<1>1. /\ source \in Seq(Byte) /\ position \in 0 .. Len(source)
      /\ \A k \in DOMAIN tokens : tokens[k] \in TokenSet
  BY <1>0, ScannedIs
<1>2. \A k \in DOMAIN tokens :
        tokens[k] \in [kind : {"CHARACTER", "CONTROL", "SPACE", "PAR", "END"},
                       codepoint : Codepoints, begin : Nat, end : Nat]
  BY <1>1 DEF TokenSet
<1>3. Len(error) <= 1
  <2>1. error # << >> => Len(error) = 1  BY <1>0 DEF ScanInv, Scanned
  <2>2. error = << >> => Len(error) = 0  OBVIOUS
  <2>3. Len(error) = 0 \/ Len(error) = 1  BY <2>1, <2>2
  <2> DEFINE n == Len(error)
  <2> HIDE DEF n
  <2>4. n = 0 \/ n = 1  BY <2>3 DEF n
  <2>5. n <= 1  BY ONLY <2>4
  <2> QED  BY <2>5 DEF n
<1>4. low \in 0 .. Len(table) /\ high \in 0 .. Len(table)
  <2>1. CASE running = "SEARCH"  BY <2>1 DEF Inv, SearchInv
  <2>2. CASE running # "SEARCH"  BY <2>2 DEF Inv, SearchIdle
  <2> QED  BY <2>1, <2>2
<1>5. Len(found) <= 1  BY <1>0 DEF FoundInv
<1>6. fraction \in Nat /\ delta \in Nat /\ digits \in Seq(0 .. 9)
  <2>1. One \in Nat  BY DecimalAssumption
  <2> QED  BY <1>0, <2>1 DEF PrintInv
<1> QED  BY <1>1, <1>2, <1>3, <1>4, <1>5, <1>6, Zenon DEF TypeOK

LEMMA CharactersHold == LeafInv => CharactersExact
<1> SUFFICES ASSUME ScanInv PROVE CharactersExact  BY DEF LeafInv
<1>1. \A k \in DOMAIN tokens : TokenGood(source, tokens[k])  BY ScannedIs
<1>2. \A b, e : Slice(b, e) = Part(source, b, e)  BY DEF Slice, Part
<1> QED  BY <1>1, <1>2 DEF CharactersExact, TokenGood

LEMMA ErrorsHold == LeafInv => ErrorsExact
<1> SUFFICES ASSUME ScanInv, error # << >> PROVE ErrorsExact  BY DEF LeafInv, ErrorsExact
<1> DEFINE e == error[1]
<1>1. ErrorGood(source, tokens, e)  BY DEF ScanInv, Scanned
<1>2. \A b, x : Slice(b, x) = Part(source, b, x)  BY DEF Slice, Part
<1> HIDE DEF e
<1>3. /\ e.begin < e.end /\ e.end <= Len(source)
      /\ e.status = "INVALID_UTF8" =>
           \A end \in e.begin + 1 .. Len(source) : ~WellFormed(Slice(e.begin, end))
      /\ e.status = "UNSUPPORTED" => Slice(e.begin, Len(source)) = <<Backslash>>
      /\ \A p \in Reached(tokens) .. e.begin - 1 : At(source, p) \in Blanks \cup {Backslash}
  BY <1>1, <1>2 DEF ErrorGood
<1> QED  BY <1>3 DEF e, ErrorsExact, Reached, EndedBy, Ended

LEMMA TileHolds == LeafInv => TokensTile
<1> SUFFICES ASSUME ScanInv PROVE TokensTile  BY DEF LeafInv
<1>1. tokens # << >> => tokens[1].begin = 0 \/ error # << >>  BY DEF ScanInv, Scanned
<1>2. ASSUME NEW k \in 1 .. Len(tokens) - 1
      PROVE  LET t == tokens[k]
                 u == tokens[k + 1]
             IN  /\ t.kind # "END" /\ t.begin < t.end /\ t.end <= u.begin
                 /\ t.end # u.begin =>
                      \/ error # << >> /\ u.kind = "END"
                      \/ /\ t.kind = "CONTROL" /\ At(source, t.begin + 1) \in Letters
                         /\ \A p \in t.end .. u.begin - 1 : At(source, p) \in Blanks
  <2> DEFINE t == tokens[k]
             u == tokens[k + 1]
  <2>1. Len(tokens) \in Nat  BY ScannedIs
  <2>2. k \in 1 .. Len(tokens) /\ k + 1 \in 1 .. Len(tokens)  BY <2>1
  <2>3. TokenGood(source, t) /\ TokenGood(source, u) /\ Follows(source, t, u, error)
    BY <2>2, ScannedIs
  <2> HIDE DEF t, u
  <2>4. t.kind # "END" /\ t.begin < t.end /\ t.end <= Len(source)  BY <2>3 DEF Follows, TokenGood
  <2>5. CASE Gap(source, t, u.begin)  BY <2>4, <2>5 DEF Gap, t, u
  <2>6. CASE error # << >> /\ u.kind = "END"
    <3>1. u.begin = Len(source)  BY <2>3, <2>6 DEF TokenGood
    <3> QED  BY <2>4, <2>6, <3>1 DEF t, u
  <2> QED  BY <2>3, <2>5, <2>6 DEF Follows
<1> QED  BY <1>1, <1>2 DEF TokensTile

LEMMA ParagraphsHold == LeafInv => ParagraphsKept
<1> SUFFICES ASSUME ScanInv, NEW k \in DOMAIN tokens
             PROVE  LET t    == tokens[k]
                        next == IF k = Len(tokens) THEN position ELSE tokens[k + 1].begin
                    IN  /\ t.kind = "PAR" => Paragraph(t.begin, t.end)
                        /\ t.kind = "SPACE" => ~Paragraph(t.begin, t.end)
                        /\ t.kind \in {"PAR", "SPACE"} /\ t.end < Len(source) => At(source, t.end) \notin Blanks
                        /\ error = << >> => ~Paragraph(t.end, next)
  BY DEF LeafInv, ParagraphsKept
<1> DEFINE t == tokens[k]
           next == IF k = Len(tokens) THEN position ELSE tokens[k + 1].begin
<1>1. Len(tokens) \in Nat /\ k \in 1 .. Len(tokens)  BY ScannedIs
<1>2. TokenGood(source, t)  BY <1>1, ScannedIs
<1>3. error = << >> => Gap(source, t, next)
  <2> SUFFICES ASSUME error = << >> PROVE Gap(source, t, next)  OBVIOUS
  <2>1. CASE k = Len(tokens)
    <3>1. tokens # << >>  BY <1>1
    <3>2. Gap(source, tokens[Len(tokens)], position)  BY <3>1 DEF ScanInv, Scanned
    <3> QED  BY <2>1, <3>2
  <2>2. CASE k # Len(tokens)
    <3>1. k \in 1 .. Len(tokens) - 1  BY <1>1, <2>2
    <3>2. Follows(source, tokens[k], tokens[k + 1], error)  BY <3>1, ScannedIs
    <3> QED  BY <2>2, <3>2 DEF Follows
  <2> QED  BY <2>1, <2>2
<1> HIDE DEF t, next
<1>4. \A b, e : Paragraph(b, e) <=> TwoEnds(source, b, e)  BY ParagraphIs
<1>5. /\ t.kind = "PAR" => Paragraph(t.begin, t.end)
      /\ t.kind = "SPACE" => ~Paragraph(t.begin, t.end)
      /\ t.kind \in {"PAR", "SPACE"} /\ t.end < Len(source) => At(source, t.end) \notin Blanks
  BY <1>2, <1>4 DEF TokenGood
<1>6. error = << >> => ~Paragraph(t.end, next)  BY <1>3, <1>4 DEF Gap
<1> QED  BY <1>5, <1>6 DEF t, next

(* Whatever the bytes of a source, a character is the codepoint its bytes  *)
(* encode by Unicode's table, nothing else is taken for one, and an error  *)
(* is where no well-formed sequence begins, with nothing but blanks and a  *)
(* backslash between it and the last token.                                *)
THEOREM DecodingExact == Spec => []DecodedExactly
<1>1. LeafInv => DecodedExactly  BY CharactersHold, ErrorsHold DEF DecodedExactly
<1> QED  BY <1>1, LeafInvariance, PTL

(* Whatever the bytes of a source, the tokens tile it, nothing but blanks  *)
(* after a control word is passed over, and a run of blanks is a paragraph *)
(* just when it has two line ends.                                         *)
THEOREM ScanningFaithful == Spec => []TokensFaithful
<1>1. LeafInv /\ Inv => TokensFaithful
  BY TypeHolds, TileHolds, ParagraphsHold DEF TokensFaithful
<1> QED  BY <1>1, LeafInvariance, SearchInvariance, PTL
=============================================================================
