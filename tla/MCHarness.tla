----------------------------- MODULE MCHarness ------------------------------
(***************************************************************************)
(* The two halves of an evaluation, one after the other in the code: the   *)
(* trial of an event, and the report over the episodes that such trials    *)
(* gave.  The episodes of the report are chosen freely, so an instance     *)
(* runs one half or the other while the variables of the other rest.       *)
(***************************************************************************)
EXTENDS MCTrial, MCMetrics

VARIABLE half

harnessVars == <<half, vars, metricsVars>>

\* The trial that rests where none is run.
AnyTruth ==
    CHOOSE truth \in LatentStates(Intents, LiquidityDays, Clears, Thresholds, Hours, Draws) :
        truth.class = "FUNDS" /\ truth.downtime_clears = 0 /\ ~truth.merchant_config

Resting ==
    /\ latent = AnyTruth /\ ~placebo
    /\ event = [source_type |-> "payment",
                error |-> [reason |-> "insufficient_funds", source |-> "customer"]]

HarnessInit ==
    /\ Init /\ MetricsInit
    /\ \/ half = "trial"
       \/ half = "report" /\ Resting

HarnessNext ==
    \/ half = "trial" /\ Next /\ UNCHANGED <<half, metricsVars>>
    \/ half = "report" /\ MetricsNext /\ UNCHANGED <<half, vars>>

HarnessSpec == HarnessInit /\ [][HarnessNext]_harnessVars
=============================================================================
