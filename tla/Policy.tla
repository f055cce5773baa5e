------------------------------- MODULE Policy -------------------------------
(***************************************************************************)
(* The policy engine (src/policy/engine.py): a pure function from a        *)
(* decision, the observable state of its episode and the current time to a *)
(* verdict.  Every rule of the contract (policy.yaml) is an operator of its*)
(* own, named after the Python function; evaluate() collects what they say.*)
(*                                                                         *)
(* Time is a natural number of ticks since some local midnight; DayTicks   *)
(* ticks make a day.  All windows of policy.yaml are given in ticks.       *)
(***************************************************************************)
EXTENDS Integers, FiniteSets

CONSTANTS
    DayTicks,                  \* ticks in 24 hours
    QuietStart, QuietEnd,      \* contact.quiet_hours, as ticks of the day
    MaxContactsPer7d,          \* contact.max_per_customer_per_7d
    MinTicksBetween,           \* contact.min_hours_between
    MaxAttempts,               \* retry.max_attempts_per_episode
    MaxMandateAttempts,        \* retry.max_attempts_per_mandate_cycle
    PreDebitTicks,             \* retry.pre_debit_notification_hours
    MaxDays,                   \* episode.max_days
    DailyActionBudget,         \* merchant.daily_action_budget
    DailySpendCap,             \* merchant.daily_spend_cap_paise
    ToHumanAbove,              \* escalation.to_human_above_paise
    MaxEscalationsPerDay       \* escalation.max_per_day

ASSUME ClockAssumption ==
    /\ DayTicks \in Nat \ {0}
    /\ QuietEnd \in 0..(DayTicks - 1)
    /\ QuietStart \in (QuietEnd + 1)..DayTicks

ASSUME LimitAssumption ==
    /\ MaxContactsPer7d \in Nat \ {0}
    /\ MinTicksBetween \in Nat \ {0}
    /\ {MaxAttempts, MaxMandateAttempts, PreDebitTicks, MaxDays, DailyActionBudget,
        DailySpendCap, ToHumanAbove, MaxEscalationsPerDay} \subseteq Nat

Actions == {"NO_ACTION", "RETRY_NOW", "RETRY_SCHEDULED", "SWITCH_METHOD",
            "NUDGE", "ESCALATE_HUMAN"}
CONTACT_ACTIONS == {"NUDGE", "ESCALATE_HUMAN"}
RETRY_ACTIONS == {"RETRY_NOW", "RETRY_SCHEDULED", "SWITCH_METHOD"}

FailureClasses == {"FUNDS", "AUTH_ABANDON", "INSTRUMENT_INVALID", "TRANSIENT_INFRA",
                   "LIMIT_EXCEEDED", "RISK_DECLINE", "UNKNOWN"}
Recoverabilities == {"CUSTOMER_RECOVERABLE", "MERCHANT_CONFIG", "TERMINAL"}
SourceTypes == {"payment", "checkout", "mandate", "invoice"}
Channels == {"sms", "whatsapp", "email", "voice"}

FORBIDDEN_CLASSES == {"RISK_DECLINE", "INSTRUMENT_INVALID"}
FORBIDDEN_RECOVERABILITY == {"MERCHANT_CONFIG", "TERMINAL"}
REQUIRE_CONSENT == {"sms", "whatsapp", "voice"}
REQUIRE_TEMPLATE == {"sms", "whatsapp"}

NoTime == -1                   \* None where the code has datetime | None
NoChannel == "none"
Ticks == Nat
MaybeTicks == Nat \cup {NoTime}

(***************************************************************************)
(* What the rules read.  `at` is params["scheduled_at"], NoTime when the   *)
(* action carries none; amount, source and channel are params too.         *)
(***************************************************************************)
Decisions ==
    [action: Actions, at: MaybeTicks, channel: Channels \cup {NoChannel},
     template: BOOLEAN, class: FailureClasses, recoverability: Recoverabilities,
     source: SourceTypes, amount: Nat]

EpisodeStates ==
    [started_at: Ticks, attempts_made: Nat, mandate_attempts: Nat, contacts_7d: Nat,
     last_contact_at: MaybeTicks, pre_debit_at: MaybeTicks,
     consented: SUBSET Channels, opted_out: BOOLEAN, paid: BOOLEAN, disputed: BOOLEAN,
     late_authorised: BOOLEAN, actions_today: Nat, spend_today: Nat,
     escalations_today: Nat, broken_promise: BOOLEAN, action_cost: Nat]

-----------------------------------------------------------------------------
(* Quiet hours: the window wraps midnight. *)

InQuietHours(t) ==
    \/ t % DayTicks >= QuietStart
    \/ t % DayTicks < QuietEnd

\* The next QuietEnd strictly after t.
NextAllowed(t) ==
    LET candidate == t - (t % DayTicks) + QuietEnd
    IN  IF candidate <= t THEN candidate + DayTicks ELSE candidate

\* timedelta.days: whole days only.
AgeDays(from, to) == (to - from) \div DayTicks

\* Mutant: an action without a time of its own is not given the current one.
ScheduledAt_NoDefault(d, now) == d.at

ScheduledAt(d, now) == IF d.at = NoTime THEN now ELSE d.at

-----------------------------------------------------------------------------
(* The rules.  Each is TRUE when it blocks the decision. *)

StopOnPayment(s) == s.paid
StopOnLateAuth(s) == s.late_authorised
StopOnOptOut(s) == s.opted_out
StopOnDispute(s) == s.disputed
MaxDaysExceeded(s, now) == AgeDays(s.started_at, now) > MaxDays

ForbiddenRecoverability(d) ==
    /\ d.action # "ESCALATE_HUMAN"
    /\ d.recoverability \in FORBIDDEN_RECOVERABILITY

\* Switching rails is the remedy for a dead instrument.
ForbiddenClass(d) ==
    /\ d.action \in RETRY_ACTIONS
    /\ d.class \in FORBIDDEN_CLASSES
    /\ ~ (d.action = "SWITCH_METHOD" /\ d.class = "INSTRUMENT_INVALID")

AttemptsSpent(d, s) ==
    d.action \in RETRY_ACTIONS /\ s.attempts_made >= MaxAttempts

MandateAttemptsSpent(d, s) ==
    /\ d.source = "mandate"
    /\ d.action \in RETRY_ACTIONS
    /\ s.mandate_attempts >= MaxMandateAttempts

PreDebitNoticeMissing(d, s, now) ==
    /\ d.source = "mandate"
    /\ d.action \in RETRY_ACTIONS
    /\ \/ s.pre_debit_at = NoTime
       \/ now - s.pre_debit_at < PreDebitTicks

\* Mutant: the cap is off by one.
ContactsSpent_OffByOne(d, s) ==
    d.action \in CONTACT_ACTIONS /\ s.contacts_7d > MaxContactsPer7d

ContactsSpent(d, s) ==
    d.action \in CONTACT_ACTIONS /\ s.contacts_7d >= MaxContactsPer7d

\* Mutant: a contact scheduled for later does not count yet.
MinGapViolated_PastOnly(d, s, now) ==
    /\ d.action \in CONTACT_ACTIONS
    /\ s.last_contact_at # NoTime
    /\ now - s.last_contact_at \in 0..(MinTicksBetween - 1)

\* A contact that has not landed yet makes the elapsed time negative: still a block.
MinGapViolated(d, s, now) ==
    /\ d.action \in CONTACT_ACTIONS
    /\ s.last_contact_at # NoTime
    /\ now - s.last_contact_at < MinTicksBetween

ConsentMissing(d, s) ==
    /\ d.action = "NUDGE"
    /\ d.channel \in REQUIRE_CONSENT
    /\ d.channel \notin s.consented

TemplateMissing(d) ==
    /\ d.action = "NUDGE"
    /\ d.channel \in REQUIRE_TEMPLATE
    /\ ~ d.template

ActionBudgetSpent(d, s) ==
    d.action # "NO_ACTION" /\ s.actions_today >= DailyActionBudget

\* Mutant: the cap is applied to each action alone.
SpendCapExceeded_PerAction(d, s) ==
    d.action # "NO_ACTION" /\ s.action_cost > DailySpendCap

SpendCapExceeded(d, s) ==
    d.action # "NO_ACTION" /\ s.spend_today + s.action_cost > DailySpendCap

PromiseBroken(d, s) ==
    s.broken_promise /\ d.action \notin {"ESCALATE_HUMAN", "NO_ACTION"}

\* Mutant: the capacity is off by one.
EscalationCapacitySpent_OffByOne(d, s) ==
    d.action = "ESCALATE_HUMAN" /\ s.escalations_today > MaxEscalationsPerDay

EscalationCapacitySpent(d, s) ==
    d.action = "ESCALATE_HUMAN" /\ s.escalations_today >= MaxEscalationsPerDay

AboveAutomationCeiling(d) ==
    d.amount > ToHumanAbove /\ d.action \notin {"ESCALATE_HUMAN", "NO_ACTION"}

-----------------------------------------------------------------------------
(* evaluate(): every rule is consulted, whatever the others said. *)

RuleIds ==
    {"stop_on_payment", "stop_on_late_authorisation", "stop_on_opt_out",
     "stop_on_dispute", "max_days", "forbidden_for_recoverability",
     "forbidden_for_classes", "max_attempts_per_episode",
     "max_attempts_per_mandate_cycle", "pre_debit_notification_hours",
     "max_per_customer_per_7d", "min_hours_between", "require_consent",
     "require_registered_template", "daily_action_budget", "daily_spend_cap_paise",
     "after_broken_promise_to_pay", "max_per_day", "to_human_above_paise"}

RulesBlocked(d, s, now) ==
    {r \in RuleIds :
        \/ r = "stop_on_payment"                 /\ StopOnPayment(s)
        \/ r = "stop_on_late_authorisation"      /\ StopOnLateAuth(s)
        \/ r = "stop_on_opt_out"                 /\ StopOnOptOut(s)
        \/ r = "stop_on_dispute"                 /\ StopOnDispute(s)
        \/ r = "max_days"                        /\ MaxDaysExceeded(s, now)
        \/ r = "forbidden_for_recoverability"    /\ ForbiddenRecoverability(d)
        \/ r = "forbidden_for_classes"           /\ ForbiddenClass(d)
        \/ r = "max_attempts_per_episode"        /\ AttemptsSpent(d, s)
        \/ r = "max_attempts_per_mandate_cycle"  /\ MandateAttemptsSpent(d, s)
        \/ r = "pre_debit_notification_hours"    /\ PreDebitNoticeMissing(d, s, now)
        \/ r = "max_per_customer_per_7d"         /\ ContactsSpent(d, s)
        \/ r = "min_hours_between"               /\ MinGapViolated(d, s, now)
        \/ r = "require_consent"                 /\ ConsentMissing(d, s)
        \/ r = "require_registered_template"     /\ TemplateMissing(d)
        \/ r = "daily_action_budget"             /\ ActionBudgetSpent(d, s)
        \/ r = "daily_spend_cap_paise"           /\ SpendCapExceeded(d, s)
        \/ r = "after_broken_promise_to_pay"     /\ PromiseBroken(d, s)
        \/ r = "max_per_day"                     /\ EscalationCapacitySpent(d, s)
        \/ r = "to_human_above_paise"            /\ AboveAutomationCeiling(d)}

Allowed(d, s, now) == RulesBlocked(d, s, now) = {}

\* contact.quiet_hours, the one modifying rule: it moves a contact, never cancels it.
ShiftedAt(d, now) ==
    IF d.action \in CONTACT_ACTIONS /\ InQuietHours(ScheduledAt(d, now))
    THEN NextAllowed(ScheduledAt(d, now))
    ELSE ScheduledAt(d, now)

\* PolicyVerdict.required_action: the one mandating rule asks for a human.
RequiresHuman(d) == AboveAutomationCeiling(d)
=============================================================================
