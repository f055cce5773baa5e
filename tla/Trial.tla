------------------------------- MODULE Trial --------------------------------
(***************************************************************************)
(* The randomised trial and its negative control (eval/generate_cohort.py, *)
(* run_batch.make_observe, validate.placebo): one event of the cohort is   *)
(* watched in the holdout arm and worked in the treatment arm, against the *)
(* same hidden truth and the same draws.  What the agent chooses among the *)
(* actions on offer, and what the contract withholds, is free.  The event  *)
(* is observed at midnight on the first of a month.                        *)
(***************************************************************************)
EXTENDS World

CONSTANTS
    Intents, LiquidityDays, Thresholds, Hours, Draws,   \* bounds: latent values
    Clears,             \* hours until an outage clears
    Offsets,            \* hours ahead for which an action may be scheduled
    MAX_DECISIONS, MaxDays, CoolOff, FollowUp

ASSUME TrialAssumption ==
    /\ {MAX_DECISIONS, MaxDays, CoolOff, FollowUp} \subseteq Nat \ {0}
    /\ Thresholds \subseteq Nat \ {0}
    /\ Intents \subseteq 0..1000
    /\ Offsets \subseteq Nat
    /\ \A draws \in Draws, n \in 0..(MAX_DECISIONS - 1) : draws[n] \in Int

VARIABLES
    event,      \* what the agent sees: source_type, error
    latent,     \* what is true
    placebo,    \* whether validate.placebo is in force
    hold,       \* the holdout's episode
    treat       \* the treated episode

vars == <<event, latent, placebo, hold, treat>>

-----------------------------------------------------------------------------
(* The cohort. *)

POOLS ==
    [c \in CustomerClasses |->
        {r \in Reasons : Rows[r].failure_class = c /\ Rows[r].recoverability = "CUSTOMER_RECOVERABLE"}]

MERCHANT_CONFIG_REASONS == {r \in Reasons : Rows[r].recoverability = "MERCHANT_CONFIG"}

OPAQUE_REASONS == {"payment_failed"}

\* Opaque, misleading or truthful: the reason tells something of the class, never all.
EmitReasons(class) ==
    OPAQUE_REASONS \cup POOLS[class] \cup UNION {POOLS[c] : c \in CustomerClasses \ {class}}

\* Mutant: a merchant's bug is reported with a reason drawn like any other.
EmittedReasons_AnyReason(truth, no_gateway_attempt) ==
    IF no_gateway_attempt THEN {NoReason} ELSE EmitReasons(truth.class)

EmittedReasons(truth, no_gateway_attempt) ==
    CASE no_gateway_attempt -> {NoReason}
      [] ~no_gateway_attempt /\ truth.merchant_config -> MERCHANT_CONFIG_REASONS
      [] ~no_gateway_attempt /\ ~truth.merchant_config -> EmitReasons(truth.class)

\* An invoice was never charged and a checkout may not have been; neither can be the
\* merchant's bug then.  Only an outage has a time at which it clears.
Generated(source_type, truth, no_gateway_attempt) ==
    /\ no_gateway_attempt => source_type \in {"invoice", "checkout"} /\ ~truth.merchant_config
    /\ source_type = "invoice" => no_gateway_attempt
    /\ truth.class # "TRANSIENT_INFRA" => truth.downtime_clears = 0

Mapping == Classify(event.error, event.source_type)

-----------------------------------------------------------------------------
(* The two arms. *)

NewArm == [open |-> TRUE, seq |-> 0, now |-> 0, contacts |-> 0, acted |-> 0, p |-> 0,
           paid |-> FALSE, opted_out |-> FALSE]

Init ==
    /\ latent \in LatentStates(Intents, LiquidityDays, Clears, Thresholds, Hours, Draws)
    /\ \E source_type \in SourceTypes, no_gateway_attempt \in BOOLEAN :
          /\ Generated(source_type, latent, no_gateway_attempt)
          /\ \E reason \in EmittedReasons(latent, no_gateway_attempt) :
                event = [source_type |-> source_type,
                         error |-> [reason |-> reason, source |-> "customer"]]
    /\ placebo \in BOOLEAN
    /\ hold = NewArm /\ treat = NewArm

\* validate.placebo replaces success_probability and resolve in their module; run_batch
\* has already imported resolve by name and goes on calling the original, which looks up
\* success_probability afresh.
World(action, at, prior, seq) ==
    LET p == IF placebo THEN SuccessProbability(latent, "NO_ACTION", at, at, 0)
             ELSE SuccessProbability(latent, action, at, at, prior)
        outcome == Resolve(latent, p, action, prior, seq)
    IN  [p |-> p, recovered |-> outcome.recovered, opted_out |-> outcome.opted_out]

AgeDays(arm) == arm.now \div 24

\* Mutant: the control arm is looked at once.
HoldoutObserve_Once ==
    /\ hold.open
    /\ LET w == World("NO_ACTION", hold.now, 0, hold.seq)
       IN  hold' = [hold EXCEPT !.seq = @ + 1, !.p = w.p, !.paid = w.recovered, !.open = FALSE]
    /\ UNCHANGED <<event, latent, placebo, treat>>

\* As many chances to pay as the treated arm has.
HoldoutObserve ==
    /\ hold.open
    /\ LET w == World("NO_ACTION", hold.now, 0, hold.seq)
           later == [hold EXCEPT !.now = IF w.recovered THEN @ ELSE @ + CoolOff]
       IN  hold' = [later EXCEPT !.seq = @ + 1, !.p = w.p, !.paid = w.recovered,
                                 !.open = /\ ~w.recovered
                                          /\ hold.seq < MAX_DECISIONS - 1
                                          /\ AgeDays(later) <= MaxDays]
    /\ UNCHANGED <<event, latent, placebo, treat>>

\* The holdout's episode is over when the treated one begins.
Working == ~hold.open /\ treat.open

\* What may be done at all: a human or nothing where it is not the customer's to solve, no
\* payment to retry where none was tried.
Offered ==
    IF Mapping.recoverability # "CUSTOMER_RECOVERABLE" THEN {"ESCALATE_HUMAN"}
    ELSE IF event.source_type = "invoice" THEN ContactActions
    ELSE AllActions \ {"NO_ACTION"}

IsCustomerContact(action) ==
    \/ action = "NUDGE"
    \/ action = "ESCALATE_HUMAN" /\ Mapping.recoverability = "CUSTOMER_RECOVERABLE"

\* The contract closes an episode that is paid, left or too old on the next pass.
Continue(arm) ==
    [arm EXCEPT !.seq = @ + 1,
                !.open = /\ ~arm.paid /\ ~arm.opted_out
                         /\ treat.seq < MAX_DECISIONS - 1
                         /\ AgeDays(arm) <= MaxDays]

\* Mutant: a pass on which nothing is sent gives the customer no chance to pay.
LeaveAlone_Unobserved ==
    /\ Working
    /\ treat' = Continue([treat EXCEPT !.now = @ + CoolOff])
    /\ UNCHANGED <<event, latent, placebo, hold>>

\* Refused, blocked or without a template: the world is asked about doing nothing.
LeaveAlone ==
    /\ Working
    /\ LET w == World("NO_ACTION", treat.now, 0, treat.seq)
       IN  treat' = Continue([treat EXCEPT !.p = w.p, !.paid = w.recovered,
                                           !.now = @ + CoolOff])
    /\ UNCHANGED <<event, latent, placebo, hold>>

PriorContacts(contacts) == IF contacts = 0 THEN 0 ELSE contacts - 1

Act(action, offset) ==
    /\ Working
    /\ action \in Offered
    /\ action \in ContactActions \cup {"RETRY_SCHEDULED"} \/ offset = 0
    /\ LET contacts == treat.contacts + (IF IsCustomerContact(action) THEN 1 ELSE 0)
           at == treat.now + offset
           w == World(action, at, PriorContacts(contacts), treat.seq)
       IN  treat' = Continue([treat EXCEPT !.contacts = contacts, !.acted = @ + 1, !.p = w.p,
                                           !.paid = w.recovered, !.opted_out = w.opted_out,
                                           !.now = at + FollowUp])
    /\ UNCHANGED <<event, latent, placebo, hold>>

Next ==
    \/ HoldoutObserve
    \/ LeaveAlone
    \/ \E action \in AllActions, offset \in Offsets : Act(action, offset)

Spec == Init /\ [][Next]_vars

-----------------------------------------------------------------------------
(* Properties. *)

\* With every action made as good as none, working an event recovers nothing that leaving
\* it alone would not have recovered at least as early: the harness gives the treated arm
\* no chance to pay that the control arm lacks (run_episode, run_batch, validate.placebo;
\* a control arm observed once had shown a lift of 18 points here).
PlaceboNeverFavoursTreatment ==
    placebo /\ treat.paid => hold.paid /\ hold.seq <= treat.seq

\* A treated episode in which nothing was ever done ends exactly like its twin in the
\* control arm: refusals and blocks cost the customer no chance to pay (run_episode).
UntouchedMatchesTwin ==
    treat.acted = 0 /\ ~treat.open => treat.paid = hold.paid /\ treat.seq = hold.seq

\* What the generator makes the merchant's bug is recognised as one from the reason it
\* emits, and its customer hears nothing; and of what it makes the customer's, nothing is
\* taken for one (generate, _reason_pools, classify).
TriageMatchesTruth ==
    /\ latent.merchant_config <=> Mapping.recoverability = "MERCHANT_CONFIG"
    /\ latent.merchant_config => treat.contacts = 0

\* validate.py: under the placebo "actions are inert in BOTH directions: no uplift, and no
\* opt-out either".
PlaceboLosesNobody == placebo => ~treat.opted_out
=============================================================================
