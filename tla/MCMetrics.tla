----------------------------- MODULE MCMetrics ------------------------------
(* Instances of Metrics for TLC.                                           *)
EXTENDS Metrics

Episode(surface, recovered, cost, stop) ==
    [surface |-> surface, recovered_paise |-> recovered, cost_paise |-> cost, stop_reason |-> stop]

MCResults == {Episode("payment", 0, 0, "exhausted"), Episode("payment", 70, 0, "recovered"),
              Episode("payment", 7, 5, "recovered"), Episode("invoice", 500, 0, "recovered"),
              Episode("invoice", 0, 9, "exhausted")}
=============================================================================
