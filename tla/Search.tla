------------------------------- MODULE Search -------------------------------
(***************************************************************************)
(* The two bisections of the core over its sorted tables: the command of   *)
(* a name (txc_command_lookup, parse.c), which stops at a match, and the   *)
(* metric of a codepoint (txc_metric_find, metrics.c), which narrows down  *)
(* to the first entry not below it.  One step is one probe.                *)
(***************************************************************************)
EXTENDS Integers, Sequences

CONSTANTS
  Keys,          (* the names, or the codepoints                           *)
  Tables,        (* the tables, sequences of keys                          *)
  Below(_, _)    (* the order of the keys: of bytes, then of lengths       *)

Sorted(t) == \A j, k \in DOMAIN t : j < k => Below(t[j], t[k])

(* The order is strict and total, and the tables are sorted by it.         *)
ASSUME SearchAssumption ==
  /\ \A a, b \in Keys : Below(a, b) \in BOOLEAN /\ ~(Below(a, b) /\ Below(b, a))
  /\ \A a, b \in Keys : a # b => Below(a, b) \/ Below(b, a)
  /\ \A a, b, c \in Keys : Below(a, b) /\ Below(b, c) => Below(a, c)
  /\ \A t \in Tables : t \in Seq(Keys) /\ Sorted(t)

(* txc_command_order: memcmp over what both have, then the lengths.  The   *)
(* metrics are ordered by codepoint, as names of one byte are.             *)
NameBelow(a, b) ==
  LET shared == IF Len(a) < Len(b) THEN Len(a) ELSE Len(b)
      differ == {k \in 1 .. shared : a[k] # b[k]}
  IN  IF differ = {} THEN Len(a) < Len(b)
      ELSE \E k \in differ : (\A j \in differ : k <= j) /\ a[k] < b[k]

VARIABLES
  table, key,
  by,         (* the caller: "COMMAND" or "METRIC"                         *)
  low, high,  (* what is left of the table, offsets into it                *)
  found       (* << >> until it returns, then the offset of the entry, or  *)
              (* the length of the table when there is none                *)

searchVars == <<table, key, by, low, high, found>>

SearchInit ==
  /\ table \in Tables /\ key \in Keys /\ by \in {"COMMAND", "METRIC"}
  /\ low = 0 /\ high = Len(table) /\ found = << >>

Middle(l, h) == l + (h - l) \div 2

Probe == table[Middle(low, high) + 1]

Searching == found = << >> /\ low < high

(* The entry is below the key: the half up to it is left behind.           *)
AboveKeeping(middle) == middle              (* mutant: the entry is kept      *)

Above(middle) == middle + 1

SearchUpper ==
  /\ Searching /\ Below(Probe, key)
  /\ low' = Above(Middle(low, high))
  /\ UNCHANGED <<table, key, by, high, found>>

(* The entry is not below the key: what is left ends before it.            *)
UnderSkipping(middle) == middle - 1         (* mutant: as if the end were in  *)

Under(middle) == middle

SearchLower ==
  /\ Searching /\ ~Below(Probe, key) /\ (by = "COMMAND" => Probe # key)
  /\ high' = Under(Middle(low, high))
  /\ UNCHANGED <<table, key, by, low, found>>

SearchMatch ==
  /\ Searching /\ by = "COMMAND" /\ Probe = key
  /\ found' = <<Middle(low, high)>>
  /\ UNCHANGED <<table, key, by, low, high>>

(* Nothing is left: only the second caller looks at the entry at low.      *)
SearchEnd ==
  /\ found = << >> /\ low >= high
  /\ found' = IF by = "METRIC" /\ low < Len(table) /\ table[low + 1] = key
              THEN <<low>> ELSE <<Len(table)>>
  /\ UNCHANGED <<table, key, by, low, high>>

SearchStep == SearchUpper \/ SearchLower \/ SearchMatch \/ SearchEnd
=============================================================================
