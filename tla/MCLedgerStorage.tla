---------------------------- MODULE MCLedgerStorage ----------------------------
(***************************************************************************)
(* Small instances of LedgerStorage: days d1 < d2, of which d1 has several *)
(* instants, so that a day can be revisited after the other one was opened.*)
(***************************************************************************)
EXTENDS LedgerInductive

MCDay == {1, 2}

MCTime == 1..3

MCDayOf == [n \in MCTime |-> IF n <= 2 THEN 1 ELSE 2]

MCNoFacade == {}

MCCrashes == {"write_error", "crash"}

MCAllFaults == FaultKind

MCNoFaults == {}
================================================================================
