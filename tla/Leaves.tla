------------------------------- MODULE Leaves -------------------------------
(***************************************************************************)
(* The leaves of the core: the scanner, the searches of its tables and the *)
(* printing of its measures.  They share nothing; a behaviour runs one of  *)
(* them to its end.                                                        *)
(***************************************************************************)
EXTENDS Scanner, Search, Decimal

VARIABLE running    (* the one that runs                                   *)

vars == <<scannerVars, searchVars, decimalVars, running>>

ScannerIdle == source = << >> /\ position = 0 /\ tokens = << >> /\ error = << >>

SearchIdle ==
  table = << >> /\ key = << >> /\ by = "METRIC" /\ low = 0 /\ high = 0 /\ found = <<0>>

DecimalIdle ==
  scaled = 0 /\ fraction = 5 /\ delta = 10 /\ digits = << >> /\ printed = TRUE

Init ==
  \/ running = "SCAN"   /\ ScannerInit /\ SearchIdle /\ DecimalIdle
  \/ running = "SEARCH" /\ ScannerIdle /\ SearchInit /\ DecimalIdle
  \/ running = "PRINT"  /\ ScannerIdle /\ SearchIdle /\ DecimalInit

Finished ==
  CASE running = "SCAN"   -> Ended
    [] running = "SEARCH" -> found # << >>
    [] running = "PRINT"  -> printed

Run ==
  \/ running = "SCAN"   /\ Scan       /\ UNCHANGED <<searchVars, decimalVars, running>>
  \/ running = "SEARCH" /\ SearchStep /\ UNCHANGED <<scannerVars, decimalVars, running>>
  \/ running = "PRINT"  /\ PrintDigit /\ UNCHANGED <<scannerVars, searchVars, running>>

Returned == Finished /\ UNCHANGED vars

Next == Run \/ Returned

Spec == Init /\ [][Next]_vars

(* A loop takes its next iteration as long as it has one.                  *)
FairSpec == Spec /\ WF_vars(Run)
=============================================================================
