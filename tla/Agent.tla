------------------------------- MODULE Agent --------------------------------
(***************************************************************************)
(* The agent loop (src/agent.py): one Agent object runs recovery episodes  *)
(* one after another.  Each episode advances a clock of its own, so the    *)
(* next episode may start EARLIER than the previous one ended: the contact *)
(* log of a customer and the budget of a merchant, which outlive episodes, *)
(* are read and written by episodes that overlap in time.                  *)
(*                                                                         *)
(* One action is one pass of the loop: step 0 (may the contract continue?),*)
(* decide, govern, then one of refuse / block / no template / act.  What   *)
(* the world answers (observe) and which candidate the learned scores put  *)
(* first are nondeterministic.                                             *)
(***************************************************************************)
EXTENDS Policy, Sequences

CONSTANTS
    Customers, Merchants,      \* identifiers
    EventProfiles,             \* what a risk event may look like, see Profiles
    StartTimes,                \* bound: times at which an event may be observed
    MaxEpisodes,               \* bound: number of episodes
    MAX_DECISIONS,             \* decision points of an episode
    CoolOffTicks,              \* wait after a refusal or a block (30 hours)
    FollowUpTicks,             \* wait after an action (6 hours)
    PromiseTicks,              \* promise_window_hours
    WeekTicks,                 \* the contact window (7 days)
    HoldoutDays,               \* literal 21 of the holdout branch
    RETRY_OFFSETS, NUDGE_OFFSETS, DowntimeOffset, \* candidate times, in ticks
    MonthTicks, SalaryTick,    \* next salary window: first of the month, 10:00
    HorizonTicks,              \* EPISODE_HORIZON_H
    NudgeCost, RetryCost, EscalateCost,           \* direct cost per action
    AttentionCost,             \* attention cost after n recent contacts
    MAX_CUSTOMERS_TRACKED, MAX_MERCHANT_DAYS,     \* limits of the in-memory maps
    LedgerAttached             \* Agent.ledger is not None

(***************************************************************************)
(* The part of a RiskEvent the loop depends on.  classes: the diagnoses    *)
(* _diagnose may return for it (the taxonomy's class, and the ones the     *)
(* sampled trust in the model can put first).  slots_valid: its template   *)
(* slots pass validate_slot.                                               *)
(***************************************************************************)
Profiles ==
    [source: SourceTypes, classes: (SUBSET FailureClasses) \ {{}},
     recoverability: Recoverabilities, amount: Nat, channels: SUBSET Channels,
     contacts_7d: Nat, opted_out: BOOLEAN, min_delay: Nat, downtime: BOOLEAN,
     alternative: BOOLEAN, slots_valid: BOOLEAN]

ASSUME WorldAssumption ==
    /\ EventProfiles \subseteq Profiles
    /\ StartTimes \subseteq Ticks
    /\ IsFiniteSet(Customers)

ASSUME LoopAssumption ==
    /\ {MaxEpisodes, CoolOffTicks, FollowUpTicks, PromiseTicks, HoldoutDays, RetryCost,
        EscalateCost, DowntimeOffset, SalaryTick, HorizonTicks} \subseteq Nat
    /\ {MAX_DECISIONS, WeekTicks, MAX_CUSTOMERS_TRACKED, MAX_MERCHANT_DAYS, MonthTicks}
          \subseteq Nat \ {0}
    /\ RETRY_OFFSETS \subseteq Nat
    /\ NUDGE_OFFSETS \subseteq Nat
    /\ NudgeCost \in [Channels -> Nat]
    /\ LedgerAttached \in BOOLEAN

\* Superlinear in the code; what matters here is that it never falls.
ASSUME AttentionAssumption ==
    /\ AttentionCost \in [0..MaxContactsPer7d -> Nat]
    /\ \A m, n \in 0..MaxContactsPer7d : m <= n => AttentionCost[m] <= AttentionCost[n]

VARIABLES
    ep,                  \* locals of run_episode for the current (or last) episode
    customer_contacts,   \* Agent._customer_contacts: the log of each tracked customer
    tracked,             \* its keys in insertion order
    merchant_days,       \* Agent._merchant_days: (merchant, date) -> counters
    ledger,              \* rows appended to the ledger
    sent,                \* history: every contact ever made, by customer
    totals,              \* history: every action ever executed, by (merchant, date)
    evicted,             \* history: customers dropped from customer_contacts
    unsubscribed,        \* history: customers who asked to stop in some episode
    lapsed,              \* history: merchant days dropped from merchant_days
    observed             \* history: the episode's last call of observe, how many there
                         \* were, and when the messages it was told of landed

contacts_memory == <<customer_contacts, tracked, sent, evicted>>
memory == <<contacts_memory, unsubscribed>>
budgets == <<merchant_days, totals, lapsed>>
vars == <<ep, memory, budgets, ledger, observed>>

-----------------------------------------------------------------------------
(* Candidates and costs (src/decide/ev.py, src/act/costs.py, messaging.py). *)

TEMPLATE_CHANNELS == {"sms", "whatsapp", "voice"}

\* RISK_DECLINE and UNKNOWN have no registered template; an invoice has its own.
CanRender(class, source, channel) ==
    /\ source = "invoice" \/ class \in FailureClasses \ {"RISK_DECLINE", "UNKNOWN"}
    /\ channel \in TEMPLATE_CHANNELS

Option(p, class, action, at, channel) ==
    [action |-> action, at |-> at, channel |-> channel, template |-> action = "NUDGE",
     class |-> class, recoverability |-> p.recoverability, source |-> p.source,
     amount |-> p.amount]

NudgeOptions(p, class, now) ==
    {Option(p, class, "NUDGE", now + offset, channel) :
        offset \in NUDGE_OFFSETS,
        channel \in {ch \in p.channels : CanRender(class, p.source, ch)}}

\* The first salary tick of a later month.
NextSalaryWindow(now) == now - (now % MonthTicks) + MonthTicks + SalaryTick

RetryTimes(p, class, now) ==
    {now + offset : offset \in {o \in RETRY_OFFSETS : o >= p.min_delay}}
    \cup (IF p.downtime THEN {now + DowntimeOffset} ELSE {})
    \cup (IF class = "FUNDS" /\ NextSalaryWindow(now) - now <= HorizonTicks
          THEN {NextSalaryWindow(now)} ELSE {})

\* Only a customer-recoverable failure offers more than a human; an invoice has no failed
\* charge to retry.
CandidateActions(p, class, now) ==
    LET plain(action) == Option(p, class, action, NoTime, NoChannel)
        customer == p.recoverability = "CUSTOMER_RECOVERABLE"
        charge   == customer /\ p.source # "invoice"
    IN  {plain("NO_ACTION"), plain("ESCALATE_HUMAN")}
        \cup {d \in NudgeOptions(p, class, now) : customer}
        \cup {d \in {plain("RETRY_NOW")} : charge /\ p.min_delay = 0}
        \cup {d \in {plain("SWITCH_METHOD")} : charge /\ p.alternative}
        \cup {Option(p, class, "RETRY_SCHEDULED", t, NoChannel) :
                t \in {u \in RetryTimes(p, class, now) : charge}}

IsCustomerContact(d) ==
    \/ d.action = "NUDGE"
    \/ d.action = "ESCALATE_HUMAN" /\ d.recoverability = "CUSTOMER_RECOVERABLE"

\* A contact at or above the weekly cap is never executed: one price stands for all.
AttentionAfter(contacts) ==
    AttentionCost[IF contacts < MaxContactsPer7d THEN contacts ELSE MaxContactsPer7d]

CostOf(d, contacts) ==
    LET direct == IF d.action = "NUDGE" THEN NudgeCost[d.channel]
                  ELSE IF d.action \in RETRY_ACTIONS THEN RetryCost
                  ELSE IF d.action = "ESCALATE_HUMAN" THEN EscalateCost ELSE 0
    IN  direct + (IF IsCustomerContact(d) THEN AttentionAfter(contacts) ELSE 0)

-----------------------------------------------------------------------------
(* Memory shared by the episodes. *)

RecentContacts(c, now) ==
    {i \in DOMAIN customer_contacts[c] : customer_contacts[c][i] > now - WeekTicks}

\* _contacts_in_last_7d
ContactsInLast7d(c, now, inbound) == inbound + Cardinality(RecentContacts(c, now))

\* Mutant: the first contact of the log.
LastContactAt_First(c) ==
    IF customer_contacts[c] = <<>> THEN NoTime ELSE customer_contacts[c][1]

\* _last_contact_at: max(log).
LastContactAt(c) ==
    LET log == customer_contacts[c]
    IN  IF log = <<>> THEN NoTime
        ELSE CHOOSE t \in {log[i] : i \in DOMAIN log} :
                \A i \in DOMAIN log : log[i] <= t

\* _record_contact: a customer not tracked yet may push out the first one inserted.
RecordContact(c, at) ==
    LET known == \E i \in DOMAIN tracked : tracked[i] = c
        full  == Len(tracked) >= MAX_CUSTOMERS_TRACKED
        gone  == IF ~known /\ full THEN {Head(tracked)} ELSE {}
    IN  /\ tracked' = IF known THEN tracked
                      ELSE Append(IF full THEN Tail(tracked) ELSE tracked, c)
        /\ customer_contacts' =
              [x \in Customers |-> IF x = c THEN Append(customer_contacts[c], at)
                                  ELSE IF x \in gone THEN <<>> ELSE customer_contacts[x]]
        /\ sent' = [sent EXCEPT ![c] = Append(@, at)]
        /\ evicted' = evicted \cup gone

(***************************************************************************)
(* merchant_day and the charges made to it.  A day is created on first use;*)
(* when the map is full the entry with the oldest date goes (which one of  *)
(* several is left open).                                                  *)
(***************************************************************************)
NoCharge == [actions |-> 0, spend |-> 0, escalations |-> 0]

At(days, key) == IF key \in DOMAIN days THEN days[key] ELSE NoCharge

Put(days, key, counters) ==
    [k \in DOMAIN days \cup {key} |-> IF k = key THEN counters ELSE days[k]]

Evictable(key) ==
    IF key \in DOMAIN merchant_days \/ Cardinality(DOMAIN merchant_days) < MAX_MERCHANT_DAYS
    THEN {{}}
    ELSE {{k} : k \in {old \in DOMAIN merchant_days :
                          \A other \in DOMAIN merchant_days : old[2] <= other[2]}}

Charged(counters, charge) ==
    [actions     |-> counters.actions + charge.actions,
     spend       |-> counters.spend + charge.spend,
     escalations |-> counters.escalations + charge.escalations]

Today(e) == <<e.merchant, e.now \div DayTicks>>

ChargeToday(charge) ==
    LET key == Today(ep)
    IN  \E gone \in Evictable(key) :
          /\ merchant_days' =
                Put([k \in DOMAIN merchant_days \ gone |-> merchant_days[k]], key,
                    Charged(At(merchant_days, key), charge))
          /\ totals' = Put(totals, key, Charged(At(totals, key), charge))
          /\ lapsed' = lapsed \cup gone

-----------------------------------------------------------------------------
(* Episode records. *)

Outcomes == {"exhausted", "refused_negative_ev", "recovered", "recovered_unprompted",
             "opted_out", "late_authorised", "episode_expired", "holdout_observed"}

NewEpisode(n, c, m, p, arm, start) ==
    [id |-> n, arm |-> arm, open |-> TRUE, customer |-> c, merchant |-> m, profile |-> p,
     started |-> start, now |-> start, seq |-> 0, decisions |-> 0,
     attempts |-> 0, contacts |-> 0, messages |-> 0,
     promise_due_at |-> NoTime, promise_broken |-> FALSE, pre_debit_notice_at |-> NoTime,
     refused_actions |-> {}, cost |-> 0, recovered |-> 0,
     paid |-> FALSE, paid_unprompted |-> FALSE, opted_out |-> FALSE,
     late_authorised |-> FALSE, stop_reason |-> "exhausted"]

NotObserved == [action |-> "NO_ACTION", at |-> 0, prior_contacts |-> 0, priced |-> 0, calls |-> 0,
                nudges |-> {}]

Init ==
    /\ \E c \in Customers, m \in Merchants, p \in EventProfiles :
          ep = [NewEpisode(0, c, m, p, "treatment", 0) EXCEPT !.open = FALSE]
    /\ customer_contacts = [c \in Customers |-> <<>>]
    /\ sent = [c \in Customers |-> <<>>]
    /\ tracked = <<>>
    /\ evicted = {}
    /\ unsubscribed = {}
    /\ merchant_days = <<>>
    /\ totals = <<>>
    /\ lapsed = {}
    /\ ledger = <<>>
    /\ observed = NotObserved

\* run_batch hands the events over in the order they were observed.
StartEpisode(c, m, p, arm, start) ==
    /\ ~ep.open
    /\ ep.id < MaxEpisodes
    /\ start >= ep.started
    /\ ep' = NewEpisode(ep.id + 1, c, m, p, arm, start)
    /\ observed' = NotObserved
    /\ UNCHANGED <<memory, budgets, ledger>>

-----------------------------------------------------------------------------
(* observe, _log *)

Observe(action, at, prior, priced) ==
    observed' = [action |-> action, at |-> at, prior_contacts |-> prior, priced |-> priced,
                 calls |-> observed.calls + 1,
                 nudges |-> observed.nudges \cup {t \in {at} : action = "NUDGE"}]

Row(cost, recovered) ==
    [event |-> ep.id, seq |-> ep.seq, cost |-> cost, recovered |-> recovered]

\* Mutant: only actions are logged.
Log_ActionsOnly(cost, recovered) ==
    ledger' = IF LedgerAttached /\ cost > 0 THEN Append(ledger, Row(cost, recovered))
              ELSE ledger

Log(cost, recovered) ==
    ledger' = IF LedgerAttached THEN Append(ledger, Row(cost, recovered)) ELSE ledger

Amount(got) == IF got THEN ep.profile.amount ELSE 0

(***************************************************************************)
(* The holdout arm: observed MAX_DECISIONS times at most, never touched.   *)
(***************************************************************************)
HoldoutObserve(got) ==
    LET last == \/ ep.seq = MAX_DECISIONS - 1
                \/ AgeDays(ep.started, ep.now + CoolOffTicks) > HoldoutDays
    IN  /\ ep.open /\ ep.arm = "holdout"
        /\ Observe("NO_ACTION", ep.now, 0, 0)
        /\ Log(0, Amount(got))
        /\ ep' = [ep EXCEPT !.decisions = ep.seq + 1,
                            !.seq = IF got \/ last THEN @ ELSE @ + 1,
                            !.now = IF got THEN @ ELSE @ + CoolOffTicks,
                            !.recovered = Amount(got),
                            !.open = ~got /\ ~last,
                            !.stop_reason = IF got THEN "recovered_unprompted"
                                            ELSE "holdout_observed"]
        /\ UNCHANGED <<memory, budgets>>

(***************************************************************************)
(* Step 0 of the treatment loop: the contract decides whether to continue. *)
(***************************************************************************)
\* Mutant: what is said in the episode is forgotten.
OptedOut_InboundOnly(e) == e.profile.opted_out

OptedOut(e) == e.opted_out \/ e.profile.opted_out

\* Mutant: does not tell an unprompted payment from one we caused.
EpisodeClosed_OneLabel(e) ==
    IF e.paid THEN "recovered"
    ELSE IF OptedOut(e) THEN "opted_out"
    ELSE IF AgeDays(e.started, e.now) > MaxDays THEN "episode_expired"
    ELSE "open"

\* The rules of the contract that close an episode, in the order they are evaluated.
EpisodeClosed(e) ==
    IF e.paid /\ e.paid_unprompted THEN "recovered_unprompted"
    ELSE IF e.paid THEN "recovered"
    ELSE IF e.late_authorised THEN "late_authorised"
    ELSE IF OptedOut(e) THEN "opted_out"
    ELSE IF AgeDays(e.started, e.now) > MaxDays THEN "episode_expired"
    ELSE "open"

InLoop == ep.open /\ ep.arm = "treatment"

Close ==
    /\ InLoop
    /\ EpisodeClosed(ep) # "open"
    /\ ep' = [ep EXCEPT !.open = FALSE, !.stop_reason = EpisodeClosed(ep)]
    /\ UNCHANGED <<memory, budgets, ledger, observed>>

\* The extra pass: the last decision is spent and nothing closes the episode.
Exhaust ==
    /\ InLoop
    /\ EpisodeClosed(ep) = "open"
    /\ ep.seq = MAX_DECISIONS
    /\ ep' = [ep EXCEPT !.open = FALSE]
    /\ UNCHANGED <<memory, budgets, ledger, observed>>

\* Mutant: the extra pass may decide once more.
Deciding_ExtraPass ==
    /\ InLoop
    /\ EpisodeClosed(ep) = "open"
    /\ ep.seq <= MAX_DECISIONS

Deciding ==
    /\ InLoop
    /\ EpisodeClosed(ep) = "open"
    /\ ep.seq < MAX_DECISIONS

-----------------------------------------------------------------------------
(* Steps 1-4: diagnose, decide, govern. *)

Seen == ContactsInLast7d(ep.customer, ep.now, ep.profile.contacts_7d)

\* Mutant: the window's end is never noticed.
PromiseBrokenNow_NotNoticed == ep.promise_broken

\* A promise window that has closed unpaid, noticed at a decision and latched.
PromiseBrokenNow ==
    \/ ep.promise_broken
    \/ ep.promise_due_at # NoTime /\ ep.now > ep.promise_due_at

Refused(d) == d.action \in ep.refused_actions

\* _decide: refused types are dropped while others remain, a mandated type is kept
\* alone if it is still there; the scores then pick any one of what is left.
Decide(force) ==
    UNION {LET considered == {d \in CandidateActions(ep.profile, class, ep.now) : ~Refused(d)}
               mandated   == {d \in considered : d.action \in force}
           IN  IF mandated # {} THEN mandated ELSE considered :
           class \in ep.profile.classes}

\* The EpisodeState handed to the policy engine, built once, for the first decision.
StateFor(d) ==
    LET today == At(merchant_days, Today(ep))
    IN  [started_at |-> ep.started, attempts_made |-> ep.attempts,
         mandate_attempts |-> ep.attempts, contacts_7d |-> Seen,
         last_contact_at |-> LastContactAt(ep.customer),
         pre_debit_at |-> ep.pre_debit_notice_at, consented |-> ep.profile.channels,
         opted_out |-> OptedOut(ep), paid |-> FALSE, disputed |-> FALSE,
         late_authorised |-> FALSE, actions_today |-> today.actions,
         spend_today |-> today.spend, escalations_today |-> today.escalations,
         broken_promise |-> PromiseBrokenNow, action_cost |-> CostOf(d, Seen)]

\* GOVERN: a mandated action replaces the decision; the state stays that of the first.
Governed ==
    UNION {{[d |-> d, s |-> StateFor(first)] :
              d \in IF RequiresHuman(first) THEN Decide({"ESCALATE_HUMAN"}) ELSE {first}} :
           first \in Decide({})}

\* What every pass that reaches a decision does to the locals.
Decided == [ep EXCEPT !.decisions = @ + 1, !.seq = @ + 1,
                      !.promise_broken = PromiseBrokenNow]

-----------------------------------------------------------------------------
(* NO_ACTION: taken before the verdict is looked at. *)

Refuse(g, got) ==
    /\ g.d.action = "NO_ACTION"
    /\ Observe("NO_ACTION", ep.now, ep.contacts, Seen)
    /\ Log(0, Amount(got))
    /\ ep' = [Decided EXCEPT
                 !.recovered = @ + Amount(got),
                 !.open = ~got,
                 !.now = IF got THEN @ ELSE @ + CoolOffTicks,
                 !.stop_reason = IF got THEN "recovered_unprompted"
                                 ELSE IF ep.seq = MAX_DECISIONS - 1
                                 THEN "refused_negative_ev" ELSE @]
    /\ ChargeToday(NoCharge)
    /\ UNCHANGED memory

\* Nothing goes out: the type is not proposed again, the customer may still pay.
Withhold(g, got) ==
    /\ Observe("NO_ACTION", ep.now, ep.contacts, Seen)
    /\ Log(0, Amount(got))
    /\ ep' = [Decided EXCEPT
                 !.refused_actions = @ \cup {g.d.action},
                 !.recovered = @ + Amount(got),
                 !.paid = @ \/ got,
                 !.paid_unprompted = @ \/ got,
                 !.now = IF got THEN @ ELSE @ + CoolOffTicks]
    /\ ChargeToday(NoCharge)
    /\ UNCHANGED memory

Block(g, got) ==
    /\ g.d.action # "NO_ACTION"
    /\ ~Allowed(g.d, g.s, ep.now)
    /\ Withhold(g, got)

\* _render_message returns None: no registered template, or a slot fails validation.
NotRendered(d) ==
    d.action = "NUDGE" /\ ~(CanRender(d.class, d.source, d.channel) /\ ep.profile.slots_valid)

NoTemplate(g, got) ==
    /\ g.d.action # "NO_ACTION"
    /\ Allowed(g.d, g.s, ep.now)
    /\ NotRendered(g.d)
    /\ Withhold(g, got)

-----------------------------------------------------------------------------
(* Steps 5-6: act, and let the world answer. *)

\* After a nudge: payment closes the promise, anything else opens a fresh window.
PromiseAfter(d, scheduled, got) ==
    IF d.action # "NUDGE" THEN ep.promise_due_at
    ELSE IF got THEN NoTime ELSE scheduled + PromiseTicks

\* Mutant: whatever reaches the customer counts as the notice.
NoticeAfter_AnyContact(d, scheduled) ==
    IF IsCustomerContact(d) /\ d.source = "mandate" THEN scheduled ELSE ep.pre_debit_notice_at

\* On a mandate a message that went out is the pre-debit notice.
NoticeAfter(d, scheduled) ==
    IF d.action = "NUDGE" /\ d.source = "mandate" THEN scheduled ELSE ep.pre_debit_notice_at

Act(g, got, quit) ==
    LET d         == g.d
        scheduled == ShiftedAt(d, ep.now)
        nudge     == d.action = "NUDGE"
        contact   == IsCustomerContact(d)
        cost      == CostOf(d, Seen)
        contacts  == IF contact THEN ep.contacts + 1 ELSE ep.contacts
    IN  /\ d.action # "NO_ACTION"
        /\ Allowed(d, g.s, ep.now)
        /\ ~NotRendered(d)
        /\ ChargeToday([actions |-> 1, spend |-> cost,
                        escalations |-> IF d.action = "ESCALATE_HUMAN" THEN 1 ELSE 0])
        /\ IF contact THEN RecordContact(ep.customer, scheduled)
           ELSE UNCHANGED contacts_memory
        /\ unsubscribed' = IF quit /\ ~got THEN unsubscribed \cup {ep.customer}
                           ELSE unsubscribed
        /\ Observe(d.action, scheduled, IF contacts = 0 THEN 0 ELSE contacts - 1, Seen)
        /\ Log(cost, Amount(got))
        /\ ep' = [Decided EXCEPT
                     !.attempts = IF d.action \in RETRY_ACTIONS THEN @ + 1 ELSE @,
                     !.contacts = contacts,
                     !.messages = IF nudge THEN @ + 1 ELSE @,
                     !.pre_debit_notice_at = NoticeAfter(d, scheduled),
                     !.promise_due_at = PromiseAfter(d, scheduled, got),
                     !.promise_broken = ~nudge /\ PromiseBrokenNow,
                     !.cost = @ + cost,
                     !.recovered = @ + Amount(got),
                     !.paid = got,
                     !.opted_out = ~got /\ quit,
                     !.now = IF got \/ quit THEN @
                             ELSE (IF scheduled > ep.now THEN scheduled ELSE ep.now)
                                  + FollowUpTicks]

-----------------------------------------------------------------------------
Step ==
    \/ Close
    \/ Exhaust
    \/ \E got \in BOOLEAN : HoldoutObserve(got)
    \/ Deciding /\ \E g \in Governed, got \in BOOLEAN :
          \/ Refuse(g, got)
          \/ Block(g, got)
          \/ NoTemplate(g, got)
          \/ \E quit \in BOOLEAN : Act(g, got, quit)

Arrive ==
    \E c \in Customers, m \in Merchants, p \in EventProfiles,
       arm \in {"treatment", "holdout"}, start \in StartTimes :
          StartEpisode(c, m, p, arm, start)

\* Nothing is left to run: the batch may stay as it is, the loop itself never stops short.
BatchOver == ~ep.open /\ ep.id = MaxEpisodes /\ UNCHANGED vars

Next == Step \/ Arrive \/ BatchOver

Spec == Init /\ [][Next]_vars
=============================================================================
