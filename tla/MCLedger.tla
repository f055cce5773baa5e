------------------------------ MODULE MCLedger ------------------------------
(* Three events handed over in order: a holdout one and a treated one stand  *)
(* behind a treated one that the contract closes before its first decision.  *)
EXTENDS Ledger

MCCohort == <<"gone", "treated", "control">>
MCArm == [e \in {"gone", "treated", "control"} |->
             IF e = "control" THEN "holdout" ELSE "treatment"]
MCSilent == {"gone"}
=============================================================================
