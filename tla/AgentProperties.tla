--------------------------- MODULE AgentProperties --------------------------
(***************************************************************************)
(* What must be true of the agent loop: the properties the runs check and  *)
(* the theorems of AgentProofs and EpisodeProofs are about.                *)
(***************************************************************************)
EXTENDS Agent, Sums

Counters == [actions: Nat, spend: Nat, escalations: Nat]

Episodes ==
    [id: Nat, arm: {"treatment", "holdout"}, open: BOOLEAN, customer: Customers,
     merchant: Merchants, profile: EventProfiles, started: Ticks, now: Ticks,
     seq: Nat, decisions: Nat, attempts: Nat, contacts: Nat, messages: Nat,
     promise_due_at: MaybeTicks, promise_broken: BOOLEAN,
     pre_debit_notice_at: MaybeTicks, refused_actions: SUBSET Actions, cost: Nat,
     recovered: Nat, paid: BOOLEAN, paid_unprompted: BOOLEAN, opted_out: BOOLEAN,
     late_authorised: BOOLEAN, stop_reason: Outcomes]

\* The types of everything the agent keeps in memory (src/agent.py, Agent and the
\* locals of run_episode) and of the history kept beside it.
TypeOK ==
    /\ ep \in Episodes
    /\ customer_contacts \in [Customers -> Seq(Ticks)]
    /\ tracked \in Seq(Customers)
    /\ sent \in [Customers -> Seq(Ticks)]
    /\ evicted \subseteq Customers
    /\ unsubscribed \subseteq Customers
    /\ \A days \in {merchant_days, totals} :
          /\ DOMAIN days \subseteq Merchants \X Nat
          /\ \A key \in DOMAIN days : days[key] \in Counters
    /\ lapsed \subseteq Merchants \X Nat
    /\ ledger \in Seq([event: Nat, seq: Nat, cost: Nat, recovered: Nat])
    /\ observed \in [action: Actions, at: Ticks, prior_contacts: Nat, priced: Nat, calls: Nat,
                    nudges: SUBSET Ticks]

-----------------------------------------------------------------------------
(* Contacts of one customer, across all the episodes that touched them. *)

\* No customer is contacted twice within contact.min_hours_between, whichever episodes
\* the contacts belong to and however their clocks overlap - as long as the agent has
\* not dropped the customer from memory.
ContactSpacing ==
    \A c \in Customers \ evicted : \A i, j \in DOMAIN sent[c] :
       i < j => sent[c][j] - sent[c][i] >= MinTicksBetween

\* No customer receives more than contact.max_per_customer_per_7d contacts in any seven
\* days, counted at the times the contacts LAND (quiet hours and offsets included), not
\* at the times they were decided.
ContactCap ==
    \A c \in Customers \ evicted : \A i \in DOMAIN sent[c] :
       i > MaxContactsPer7d => sent[c][i] - sent[c][i - MaxContactsPer7d] >= WeekTicks

\* Every contact reaches the customer inside the contact window, also the ones scheduled
\* a day ahead or moved by the quiet-hours rule.
ContactsInHours ==
    \A c \in Customers : \A i \in DOMAIN sent[c] : ~InQuietHours(sent[c][i])

\* The agent loop implements the customer's contract, while nobody has been evicted.
Contract == INSTANCE ContactContract WITH
    log <- sent, MinGap <- MinTicksBetween, Window <- WeekTicks,
    Cap <- MaxContactsPer7d, Quiet <- InQuietHours

ContractSpec == Contract!Spec

-----------------------------------------------------------------------------
(* Limits of one merchant's day. *)

\* No merchant day takes more actions or escalations than its contract allows, while its
\* counters are in memory.
DailyLimits ==
    \A key \in DOMAIN totals \ lapsed :
       /\ totals[key].actions <= DailyActionBudget
       /\ totals[key].escalations <= MaxEscalationsPerDay

\* An escalation the ceiling mandates is let through on the cost of the action it
\* replaces, so a day may go over the spend cap - by one escalation at most, because the
\* day is then closed to everything else.
SpendOvershootBounded ==
    \A key \in DOMAIN totals \ lapsed :
       totals[key].spend <= DailySpendCap + EscalateCost
                             + AttentionCost[MaxContactsPer7d - 1]

-----------------------------------------------------------------------------
(* One episode. *)

Acted == ep'.id = ep.id /\ totals' # totals /\ observed'.action # "NO_ACTION"

\* Once the money is in, once the customer has asked to be left alone - in this episode or
\* before it - and once the event is too old, the episode takes no further action and makes
\* no further contact.
NothingAfterStop ==
    [][(/\ ep'.id = ep.id /\ ep.arm = "treatment"
        /\ \/ ep.paid \/ ep.opted_out \/ ep.profile.opted_out
           \/ ep.now - ep.started >= (MaxDays + 1) * DayTicks) =>
          UNCHANGED <<sent, totals, observed>>]_vars

\* A mandate is debited only when a message of this episode LANDED at least
\* pre_debit_notification_hours earlier (it may itself have been moved to the next
\* morning), and at most MaxMandateAttempts times.  A human's call is no notice, nor is
\* what another episode sent the customer.
MandateDebits ==
    [][(Acted /\ ep.profile.source = "mandate" /\ observed'.action \in RETRY_ACTIONS) =>
          /\ \E t \in observed.nudges : observed'.at - t >= PreDebitTicks
          /\ ep'.attempts <= MaxMandateAttempts]_vars

\* Above the automation ceiling, and once a promise-to-pay window has closed unpaid, no
\* automated action is taken for the rest of the episode: only a human may still act.
OnlyAHumanActs ==
    [][(/\ Acted
        /\ \/ ep.profile.amount > ToHumanAbove
           \/ ep.promise_due_at # NoTime /\ ep.now > ep.promise_due_at) =>
          observed'.action = "ESCALATE_HUMAN"]_vars

\* Money is counted once, and the reason an episode stopped is the true one: recovered
\* exactly when the amount was, unprompted exactly when no action was being scored.
OutcomeTruthful ==
    /\ ep.recovered \in {0, ep.profile.amount}
    /\ ~ep.open /\ ep.id > 0 =>
          /\ ep.recovered = IF ep.stop_reason \in {"recovered", "recovered_unprompted"}
                            THEN ep.profile.amount ELSE 0
          /\ ep.stop_reason = "recovered" => observed.action # "NO_ACTION"
          /\ ep.stop_reason = "recovered_unprompted" => observed.action = "NO_ACTION"
          /\ ep.stop_reason = "opted_out" => OptedOut(ep)

\* Both arms get the same number of chances: one call of observe per decision, and never
\* more than MAX_DECISIONS, in whatever way each pass of the loop ended.
FairTrial ==
    /\ observed.calls = ep.decisions
    /\ observed.calls <= MAX_DECISIONS
    /\ ep.arm = "holdout" => ep.contacts = 0 /\ ep.cost = 0 /\ ep.attempts = 0

\* The ledger is the audit trail: one row per decision, in order, and the rows of an
\* episode add up to the cost and the recovery its result reports.
RowsOf(n) == {i \in DOMAIN ledger : ledger[i].event = n}

SpentOn(rows) == SumOver([i \in DOMAIN ledger |-> ledger[i].cost], rows)
WonBy(rows)   == SumOver([i \in DOMAIN ledger |-> ledger[i].recovered], rows)

LedgerFaithful ==
    LET rows  == RowsOf(ep.id)
        first == Len(ledger) - Cardinality(rows)
    IN  (LedgerAttached /\ ep.id > 0) =>
          /\ Cardinality(rows) = ep.decisions
          /\ \A i \in rows : ledger[i].seq = i - first - 1
          /\ SpentOn(rows) = ep.cost
          /\ WonBy(rows) = ep.recovered

\* However many customers and days go by, the agent holds no more of them than its maps
\* have room for (_record_contact, merchant_day and what they evict).
MemoryBounded ==
    /\ Cardinality({c \in Customers : customer_contacts[c] # <<>>}) <= MAX_CUSTOMERS_TRACKED
    /\ Cardinality(DOMAIN merchant_days) <= MAX_MERCHANT_DAYS

\* What is left of an episode, and that every pass of the loop, however it ends, uses some
\* of it up: only the next event gives a fresh lot (run_episode, range(MAX_DECISIONS + 1)).
Remaining == IF ep.open THEN MAX_DECISIONS + 1 - ep.seq ELSE 0

EveryPassCounts == [][ep'.id = ep.id => Remaining' < Remaining]_vars

\* The loop is never without a decision to take or a place to charge it to, whatever was
\* refused or blocked before: refusing to act is itself never refused (_decide drops what
\* is refused "while others remain", and others always do), and a full map of days has a
\* day to drop (merchant_day).
NeverStuck == Deciding => Governed # {} /\ Evictable(Today(ep)) # {}

-----------------------------------------------------------------------------
(* What the documents say and the loop does not keep. *)

\* ARCHITECTURE.md: "Customer opts out: Episode ends immediately and permanently"; README:
\* customers who asked us to stop "were never contacted again".  opted_out is a local of
\* run_episode: the customer's next event is contacted as if nothing had been said.
OptOutIsPermanent ==
    [][\A c \in unsubscribed : sent'[c] = sent[c]]_vars
=============================================================================
