------------------------------- MODULE World --------------------------------
(***************************************************************************)
(* The simulated world (eval/latents.py): what is really true of an event, *)
(* and the chance that an action recovers its money.  Chances are in       *)
(* 1/10000, factors in hundredths, intent in thousandths, times in hours.  *)
(***************************************************************************)
EXTENDS Taxonomy

RetryActions == {"RETRY_NOW", "RETRY_SCHEDULED"}
ContactActions == {"NUDGE", "ESCALATE_HUMAN"}
AllActions == RetryActions \cup ContactActions \cup {"NO_ACTION", "SWITCH_METHOD"}

BASELINE_RECOVERY ==
    [TRANSIENT_INFRA |-> 4500, FUNDS |-> 3000, AUTH_ABANDON |-> 2500, LIMIT_EXCEEDED |-> 2000,
     INSTRUMENT_INVALID |-> 800, RISK_DECLINE |-> 300, UNKNOWN |-> 1500]

\* Everything the generator draws once, and the agent never sees.
LatentStates(intents, days, clears, thresholds, hours, draws) ==
    [class: CustomerClasses, intent: intents, liquidity_day: days, instrument_dead: BOOLEAN,
     downtime_clears: clears, annoyance_threshold: thresholds, success_hour: hours,
     merchant_config: BOOLEAN, draws: draws]

Scaled(p, factor) == (p * factor) \div 100

\* min(p, MAX_P)
Capped(p) == IF p > 9700 THEN 9700 ELSE p

Fatigued(p, prior) ==
    LET f[n \in 0..prior] == IF n = 0 THEN p ELSE Scaled(f[n - 1], 90) IN f[prior]

\* Whether what blocks a retry has cleared: the outage, the balance, the limit.
Aligned(latent, at, hours) ==
    CASE latent.class = "TRANSIENT_INFRA" -> hours >= latent.downtime_clears
      [] latent.class = "FUNDS" ->
            ((at \div 24) % 30) + 1 >= latent.liquidity_day \/ hours >= 24 * 20
      [] latent.class = "LIMIT_EXCEEDED" -> hours >= 24

RetryProbability(latent, base, at, hours) ==
    CASE latent.instrument_dead -> 200
      [] ~latent.instrument_dead /\ latent.class = "RISK_DECLINE" -> 100
      [] ~latent.instrument_dead /\ latent.class \in {"TRANSIENT_INFRA", "FUNDS", "LIMIT_EXCEEDED"} ->
            Capped(Scaled(base, IF Aligned(latent, at, hours) THEN 205 ELSE 45))
      [] OTHER -> Capped(Scaled(base, 115))

NudgeFactor(latent, at) ==
    IF latent.instrument_dead \/ latent.class = "RISK_DECLINE" THEN 105
    ELSE (Scaled(190, IF (at % 24) - latent.success_hour \in -1..1 THEN 135 ELSE 80)
             * latent.intent) \div 1000

SwitchFactor(latent) ==
    IF latent.instrument_dead /\ latent.class # "RISK_DECLINE" THEN 340 ELSE 110

\* The chance with an action; a merchant's bug yields to nothing but a human.
ActionProbability(latent, base, action, at, hours, prior) ==
    LET with(factor) == Capped(Fatigued(Scaled(base, factor), prior))
    IN  CASE latent.merchant_config ->
                Capped(IF action = "ESCALATE_HUMAN" THEN Scaled(base, 320) ELSE base)
          [] action \in RetryActions /\ ~latent.merchant_config ->
                RetryProbability(latent, base, at, hours)
          [] action = "SWITCH_METHOD" /\ ~latent.merchant_config -> with(SwitchFactor(latent))
          [] action = "NUDGE" /\ ~latent.merchant_config -> with(NudgeFactor(latent, at))
          [] action = "ESCALATE_HUMAN" /\ ~latent.merchant_config -> with(260)

BaseProbability(latent) ==
    (BASELINE_RECOVERY[latent.class] * (500 + latent.intent)) \div 1000

SuccessProbability(latent, action, at, hours, prior) ==
    IF action = "NO_ACTION" THEN Capped(BaseProbability(latent))
    ELSE ActionProbability(latent, BaseProbability(latent), action, at, hours, prior)

\* What happened, given the chance p: the draw for this place in the sequence decides, and
\* an unsuccessful contact beyond what the customer tolerates loses the customer.
Resolve(latent, p, action, prior, seq) ==
    LET recovered == latent.draws[seq] < p
    IN  [recovered |-> recovered,
         opted_out |-> /\ action \in ContactActions
                       /\ ~recovered
                       /\ prior + 1 > latent.annoyance_threshold]
=============================================================================
