# Recura: a verification development

Recura recovers failed payments: it takes one *risk event* (a failed payment, a lapsed
mandate, an unpaid invoice, an abandoned checkout), and for up to 21 simulated days
retries, nudges the customer, hands the case to a human, or leaves it alone, under a
declarative contract (`src/policy.yaml`).  This directory holds TLA+ models of that
program, the TLC runs that check them and the TLAPS proofs about them.  Paths below are
relative to the repository (`src/src/agent.py` is written `agent.py`).

* [1. The system](#1-the-system): components, state, operations, interactions
* [2. What is hard here](#2-what-is-hard-here)
* [3. The modules](#3-the-modules) and how they correspond to the code
* [4. The runs](#4-the-runs): what each shows, bounds, fairness
* [5. The proofs](#5-the-proofs)
* [6. What the code does not keep](#6-what-the-code-does-not-keep)
* [7. What is not modelled](#7-what-is-not-modelled)
* [8. Plan](#8-plan)

## 1. The system

| Component | State it keeps | Operations | Talks to |
|---|---|---|---|
| **Agent loop** `agent.py` | across episodes, in memory: the contact log of each customer, a budget per (merchant, date), a census of rule blocks; per episode: some twenty locals of `run_episode` (clock, attempts, contacts, promise window, notice, refused types, money, terminal facts) | `run_episode` (holdout and treatment arms) and its helpers `_decide`, `_episode_closed`, `_record_contact`, `merchant_day`, `_render_message`, `_log` | calls every other component; the *world* answers it through the `observe` callback |
| **Policy engine** `policy/engine.py`, `policy.yaml` | none: a pure function of decision, episode state, time | 20 rules, `evaluate` | called once or twice per decision |
| **Candidates and EV** `decide/ev.py`, `act/costs.py` | none | `candidate_actions`, `score_candidates`, `choose`, prices | reads the bandit's posteriors |
| **Bandit, multipliers** `decide/bandit.py`, `decide/multipliers.py` | Beta posteriors per (class, action), trust in each diagnosis source, learned timing multipliers | `update_distribution`, `update_source`, Thompson draws | updated by the loop after every observation |
| **Diagnosis** `decide/llm.py`, `decide/providers.py`, `eval/generate_fixtures.py` | a key ring with spent keys; on disk the fixtures (answers by cache key) and the manifest that names their model | `propose_root_cause`, `diagnose` with retries and `_rotate`, fallback to rules; planning, pruning and stamping the fixture set | called by `_diagnose` and by the generator |
| **Taxonomy** `taxonomy/mapping.py` | counters of reasons it does not know | `classify`, `refine_by_source` | called by `_diagnose`, the fallback and the import's report |
| **Messages** `act/messaging.py`, `config/templates.yaml` | none: registry | `can_render`, `template_for`, `render`, `validate_slot` | called by `ev` and by `_render_message` |
| **Action providers** `act/provider.py` | idempotency keys seen, actions executed | `retry_payment`, `switch_method`, `send_nudge`, `fetch_downtimes` | `send_nudge` is the only one the loop calls |
| **Ledger** `ledger/store.py` | an append-only table, the only state that survives the process | `append`, reads, triggers refusing UPDATE and DELETE | written by `_log` |
| **Webhook ingest** `ingest/webhook.py`, `ingest/signature.py`, `api/main.py` | the set of event ids seen | signature check, de-duplication, parse into a risk event or a STOP signal | would feed the loop; today it answers the HTTP caller |
| **File import** `ingest/import_file.py` | none | row-by-row import with errors collected | produces risk events |
| **Batch driver** `eval/run_batch.py` | the cohort, the results, the report | hands the events in order to *one* `Agent` | owns `observe` |
| **World, cohort, placebo** `eval/latents.py`, `eval/generate_cohort.py`, `eval/validate.py` | the hidden truth of every event and its fixed draws | `success_probability`, `resolve`, `generate`, `placebo` | answers `observe`; the placebo patches it |
| **Metrics** `eval/metrics.py` | none | `summarise`, `compare`, `compare_segments`, `stop_reasons` | fed by the driver with both arms |
| **Voice, demo, markets, clock** | none | presentation and tables | |

The interaction that carries the system is a loop of six steps, once per decision point:
*may the contract continue? - re-observe - diagnose and decide - govern - act (or refuse,
or be blocked, or fail to render) - observe and learn*.  There are no threads.  What
takes the place of concurrency is **virtual time**: every episode owns a clock that
starts when its event was observed and jumps ahead by 6 or 30 hours, or to wherever an
action was scheduled.  Episodes run one after another, sorted by start, so an episode
that starts on day 1 runs *after* one that has already written contacts and charges
dated day 4.  Everything shared between episodes (contact log, merchant days) is
therefore read and written by actors that overlap in time and run in an order of their
own.

What makes each component correct:

* *Agent loop*: a customer's contacts keep their spacing and weekly cap over all
  episodes; a merchant's day keeps its limits; the episode stops when the money is in or
  the customer asks, ends in any case, reports the true reason and the true amounts;
  both arms of the experiment get the same chances; the ledger adds up.
* *Policy engine*: a rule blocks exactly what the contract forbids, at boundaries and
  for times in the future; a shift lands in the contact window.
* *Ingest*: a redelivered event starts no second episode; a STOP stops.
* *Ledger*: rows are never lost, changed or doubled, also when a batch is run again.
* *Diagnosis*: always answers, by the rules if need be; the ring tries every live key.
* *Learning*: exactly one observation's worth of evidence per answer of the world, about
  what was really done, credited to whose word it was done on.
* *Trial and placebo*: the harness itself gives neither arm a chance the other lacks.
* *Metrics*: the headline numbers of a report agree with each other and with its parts.
* *File import*: every row ends as an event that says what the row says, or as a named
  rejection; the report on the rest is true.

## 2. What is hard here

`PROJECT.json` lists each hazard at its line with the properties that cover it.  The
families:

* **Overlapping clocks.**  The last contact may lie in the *future* of the decision that
  is being judged (`agent.py:399`, `engine.py:294`): elapsed times are negative, and a
  seven-day window counted back from now includes contacts that have not landed.
* **Decided at one time, lands at another.**  Quiet hours and offsets move contacts; the
  rules judge the decision's time, customers and regulators the landing time.
* **Judged on stale state.**  A mandated re-decision is judged on the state built for
  the action it replaces; the promise window is compared before the action lands; an
  opt-out is a local that dies with the episode.
* **Limits of maps and counters.**  Eviction of customers and of merchant days; off by
  one at each cap.
* **Long legal sequences.**  Refusals, blocks, renders that fail, unprompted payments and
  the extra pass must combine to a right label, right sums and an end.
* **Message before row.**  The executor carries out and the loop charges before the row
  is written; a crash, or a primary key that refuses, falls in between.
* **Evidence.**  One answer of the world is spread over classes and sources, after the
  contract may have replaced what was asked about.
* **Two arms, one truth.**  Any path of the treated loop that gives the customer a chance
  to pay more or fewer than the holdout's loop would be reported as an effect.
* **Failure outside the loop.**  Webhooks are redelivered and reordered, answers to them
  lost; keys run out one by one; a crash tears the fixture being written; re-running
  after a crash meets the ledger's primary key.

## 3. The modules

```
Policy  <-  Agent  <-  AgentProperties  <-  MCAgent
                            |    \
                            |     AgentProofs  <-  EpisodeProofs
                            ContactContract  (INSTANCE, log <- sent)

Sums       <-  AgentProperties, Ledger, Learning, Metrics
Ledger     <-  LedgerProofs,     MCLedger       AppendOnly  (INSTANCE, in Ledger)
Diagnosis  <-  DiagnosisProofs,  MCDiagnosis
Ranking    <-  Learning  <-  LearningProofs,  MCLearning
Intake     <-  MCIntake                         Intake, Import  <-  IngestProofs
Taxonomy   <-  Import    <-  MCImport           MCIntake, MCImport  <-  MCIngest
Taxonomy   <-  World     <-  Trial  <-  MCTrial
Metrics    <-  MCMetrics                        Trial, Metrics  <-  HarnessProofs
                                                MCTrial, MCMetrics  <-  MCHarness
SumProofs  <-  AgentProofs, LedgerProofs, LearningProofs, HarnessProofs
```

**Policy** - `policy/engine.py` and `policy.yaml`.  Every rule is an operator named
after its function; `RulesBlocked` is `evaluate`: all rules are consulted whatever the
others said.  `ShiftedAt` is the one rule that modifies (quiet hours), `RequiresHuman`
the one that mandates.  `Decisions` and `EpisodeStates` name the fields the rules read.

**Agent** - `run_episode` with everything it calls that changes state.  The variable
`ep` is the record of the function's locals; `customer_contacts`, `tracked`,
`merchant_days` are the attributes of `Agent`; `ledger` the rows it appended.  One TLA+
action is one pass of the loop body:

| Action | Code |
|---|---|
| `StartEpisode` | a call of `run_episode` by `run_batch.py:120-126`, in order of start |
| `HoldoutObserve` | one pass of the holdout loop, with its 21-day break |
| `Close`, `Exhaust` | step 0: `_episode_closed` gives a label; the extra pass breaks |
| `Refuse` | NO_ACTION: observe, log, maybe end; taken before the verdict is looked at |
| `Block` | the verdict forbids: remember the type, observe, cool off |
| `NoTemplate` | allowed, but the message cannot be rendered: the same, nothing charged |
| `Act` | charge the day, record the contact, observe, open or close a promise, log, move the clock |

`Governed` is steps 3 and 4: any first choice among the candidates, its `EpisodeState`,
and - when the contract mandates a human - a second choice judged on the *same* state,
as in the code.  `RecordContact` and `ChargeToday` include their evictions.

The variables `sent`, `totals`, `evicted`, `lapsed`, `unsubscribed`, `observed` are
*history*: the code does not have them and no guard reads them.  They remember what was
really done to a customer and charged to a day, also after the program forgot it, so
that properties are stated about the outside world and not about the program's memory.
`observed.nudges` are the times at which the messages of the running episode landed.

**ContactContract** - the abstract specification: a log of contacts per customer to
which a contact may be added at any time that keeps the gap, the cap and the quiet
hours.  No episode, no agent.  `Contract == INSTANCE ContactContract WITH log <- sent`.

**AgentProperties** - the type invariant and the properties of the loop, with the one
statement of the documents about it that a run refutes.
**MCAgent** - instances for TLC.  **AgentProofs** (types, contacts, days, memory) and
**EpisodeProofs** (one episode, its rows, its passes) - section 5.

**Ledger** - what survives a run and what does not: the table on disk with its triggers
and primary key (`ledger/store.py`), the executor's idempotency keys
(`act/provider.py`), the process that hands the cohort over (`eval/run_batch.py`) and
may die between any two steps.

| Action | Code |
|---|---|
| `Start` | a new process: everything in memory afresh, the file as it was left |
| `CreateAll`, `InstallTriggers` | `Ledger.__post_init__`, in its two steps; a refused trigger is passed over |
| `NextEvent`, `Repeat`, `Finish` | the driver's loop; an event handed over a second time (a redelivered webhook gives the same `event_id`); the report |
| `Act` | first half of a pass: `send_nudge`, the tallies, `observe` |
| `AppendRow`, `AppendRefused` | second half: `_log` and `Ledger.append`, or its `IntegrityError`, which ends the run; then on, or out |
| `Crash`, `Tamper` | the process dies; another client of the database takes a row away |

A pass of the loop is one action in `Agent` and two here, because a crash may fall
between them; what `Agent` says in detail about a pass is a free choice of action and
answer here.  **AppendOnly** is what the store promises its readers: rows are added one
at a time, an identity once, nothing is changed.  **LedgerProofs** - section 5.

**Intake** - `ingest/webhook.py` behind `api/main.py`.  One action is one HTTP request:
the handler awaits the body first and nothing after it.

| Action | Code |
|---|---|
| `Deliver`, `Rejected` | no secret (503) or a bad signature (401): nothing changes |
| `Deliver`, `Handled` | `normalise` classifies, builds and remembers; 200, 422 (malformed) or an exception (500); the answer reaches Razorpay or does not |
| `Restart` | the store is a module global: a new process has an empty one |

`seen` is the store; `built`, `ever`, `stopped` are history, `settled` is what Razorpay
believes.

**Diagnosis** - `propose_root_cause`, `GeminiProvider.diagnose` and `generate_fixtures`.

| Action | Code |
|---|---|
| `Propose` | routing gate, cache key, fixture, no provider - or the call is opened |
| `Answered` | the model answers; `write_fixture` succeeds, or fails before or after it truncates the file |
| `Failed` | one exception of the client: retry the same key, rotate, or raise to the fallback |
| `Generate` | a run of the generator up to its first question: plan, prune, stamp (its questions are `Propose`) |
| `Restart` | the process is killed, perhaps during `write_text`; the ring starts afresh, files stay |

`call.made` and `call.limit` are history.

**Ranking** - `score_candidates`, `choose`, `multipliers.adjust` and the filters of
`_decide`, in thousandths and over a given slate of candidates.  **Learning** - the
posteriors of `decide/bandit.py` and every update `run_episode` makes to them; its
decisions are priced by `Ranking` from what it has learned.

| Action | Code |
|---|---|
| `StartEpisode`, `HoldoutObserve` | as in `Agent`; the control arm teaches nothing |
| `Pass` | one pass: `_diagnose` (whom to trust, what to believe), `_decide`, then one of |
| `Refuse` | NO_ACTION: learned from, the source credited |
| `Withhold` | blocked or without a template: learned from as NO_ACTION, nobody credited |
| `Act` | learned from at once as what was done, the source credited |

`told` and `vouched` are history: what the world was asked and answered, and what came of
the decisions carried out on each source's word, kept by `Pass` and not by the update of
the posteriors.  `seen`, the customer's contacts of the last seven days in whatever
episode, is free: a pass is handed any of `ContactCounts`, prices by it and charges by it.

**Taxonomy** - `classify` and `refine_by_source` over the table of reasons.
**World** - `success_probability` and `resolve`: what the hidden truth answers.
**Trial** - one event of the generated cohort in both arms, on the same truth and the
same draws, with and without `validate.placebo`.

| Action | Code |
|---|---|
| `Init` | `generate`: any truth, with any reason it may emit for it |
| `HoldoutObserve` | one pass of the holdout loop |
| `LeaveAlone` | a treated pass that does nothing: refused, blocked, no template |
| `Act` | a treated pass that acts, at the time and with the count of contacts the loop tells the world |

**Metrics** - `summarise`, `compare`, `compare_segments`, `stop_reasons`, fed episode by
episode.  Rates are compared by cross-multiplying; roundings are the code's.

**Import** - `import_file.main`, one row per action: `ReadRows`, `Normalise`, `Reject`,
`HandlerRaises` (what the handler itself raises on), `Summarise`, `Report`.

**MCIngest** runs the webhook server or an import, **MCHarness** a trial or a report: each
pair shares nothing that changes, so an instance picks one and lets the other rest.

**Sums** - sums over finite sets and sequences, as every module that adds up money or
evidence writes them, through the fold of the community modules.
**HarnessProofs** (trial, world and metrics), **IngestProofs** (intake and import),
**LearningProofs**, **SumProofs** - section 5.

### Abstractions

* *Choices.*  In `Agent`, expected values, Thompson draws, the ablation's random chooser
  and the trust in the model are one free choice among the candidates that survive the
  filters of `_decide`, in the class `_diagnose` may return: every property of the loop
  holds whatever the bandit has learnt.  The choice itself is in `Ranking` and
  `Learning`, where the slate, the prices and the draws are small and what an episode
  may do is less detailed.
* *World.*  `observe` may always answer pay / not pay / ask to stop; only `Trial` has
  `resolve` answer.
* *Events.*  A risk event is the record of the fields the loop depends on (`Profiles`).
  `min_delay` is the taxonomy's minimum retry delay, `channels` the consented ones,
  `downtime` whether one affects the rail, `alternative` whether a rail is left.
* *Time* is in ticks since a midnight; a month is `MonthTicks` long (the salary window
  is "10:00 on the first of the next month").  Dates and quiet hours are taken in one
  timezone.
* *Costs* are constants.  Attention cost is a non-decreasing table that stays flat above
  the weekly cap, where no contact is executed.
* *Left out*: the rule census, `_emit`, rationale texts, the ablation switches
  (`use_policy` and so on are at their production values), `late_authorised` and
  `disputed` inputs other than the value the loop gives them: it never sets either.
* *Eviction of a merchant day*: the code takes the minimum by date; which of several of
  that date goes is left open.
* *Webhook bodies* are of four kinds (`BodyKinds`), which is all `normalise` tells apart;
  a webhook may be delivered with different bodies, as after a correction.  Webhooks are
  told apart by their `x-razorpay-event-id`.
* *Provider errors* are known by the two sets of markers their text may contain, so there
  are four: transient, spent, both, neither.  Throttle and backoff only wait.
* *Fixtures* are missing, torn or whole; a cache key is a question and the model that
  answers it (the prompt is one).  Crashes are between actions or while the one fixture
  or the manifest is being written.
* *Executor*: the loop ignores what `send_nudge` returns and calls the provider for
  nothing else, so in `Agent` the call has no effect; `Ledger` has its keys.
* *Evidence* is in quarters, so that a belief of one half, blended with certainty, stays
  whole; probabilities, factors and means are in thousandths and rounded down at each
  product, where the code keeps floats.
* *Taxonomy*: published reasons whose rows say the same share one representative; delays
  are in half hours.
* *Trial*: draws are ten-thousandths; the event is observed at midnight on the first of a
  month.  What the agent chooses and the contract withholds is free, within what
  `candidate_actions` offers.
* *Cells of a file* are empty, a JSON number, a text that reads as a number, an infinity
  (which `int` raises on), or neither; amounts and margins are in thousandths of the unit
  as written, times in hours.

## 4. The runs

The instances of `Agent` take one tick per hour: day 24, quiet hours 19-9, gap 24, week
168, cool-off 30, follow-up 6, promise 48, horizon 504, 21 days, five decisions - the
values of `policy.yaml` and the code.  Only the cohort (customers, merchants, number of
episodes, start times) and, in `contacts`, a day's limits are small.

| Run | Instance | Shows |
|---|---|---|
| `contacts` | two overlapping episodes of five decisions, two customers of whom one is remembered, one merchant with room for two days and a day's limits of two actions, one escalation and 50 paise (a message costs 47); contacts now or a day ahead; starts at midnight and 20:00 | `ContactSpacing`, `ContactCap`, `DailyLimits`, `SpendOvershootBounded`, and that the loop implements `ContactContract` |
| `episode` | one episode of each of nine kinds of event, both arms, ledger attached, retries up to the salary window weeks ahead | `TypeOK`, `OutcomeTruthful`, `FairTrial`, `LedgerFaithful`, `NothingAfterStop`, `MandateDebits`, `OnlyAHumanActs` |
| `ingest` | either four webhooks (a failure, one malformed until corrected, a late authorisation, one without id), each delivered up to twice, two restarts, with and without the secret; or all files of up to three rows out of thirteen kinds, CSV or JSON, major or minor units | `AcceptedOnce`, `NothingSwallowed`; `EveryRowAccounted`, `EventsMatchRows` |
| `diagnosis` | three keys, three retries, a question for the model and one for the rules, three providers, two restarts | `CurrentKeyUnspent`, `FallbackMeansSpent`, `CallsBounded`, `ResumeLosesNothing`, `DiagnosisEnds` |
| `ledger` | three events (one closed before its first decision, a treated one, a holdout one), three decisions, two processes, one event handed over again, crashes and tampering anywhere, on a database that accepts triggers | `NoGaps`, `RowsOfOneRun`, `AtMostOneUnlogged`, `LoggedMeansExecuted`, `ReportMatchesLedger`, and that the store implements `AppendOnly` |
| `learning` | two episodes of two decisions over two kinds of event, two classes, two draws per action type, none or one earlier contact at each decision, with and without exploration | `CellsAccountForWorld`, `TrustAccountsForDecisions`, `ActsOnlyForUplift`, `PricedIsCharged` |
| `harness` | either every truth (seven classes, dead instrument or not, merchant's bug or not, outage or not) with four rows of draws, three decisions, actions now, ten hours and twenty days ahead; or all cohorts of up to three episodes per arm out of five kinds on two surfaces | `PlaceboNeverFavoursTreatment`, `UntouchedMatchesTwin`, `TriageMatchesTruth`; `HeadlinesAgree`, `SurfacesAddUp` |
| `claim_*` | the smallest instance with the situation | a counterexample, see section 6 |

The properties, and why they are not obvious:

* `ContactSpacing`, `ContactCap` speak of landing times and of all episodes of a
  customer; the code checks decision times, against a log that may be ahead of it.  They
  hold because a contact in the future blocks (`engine.py:294` compares a negative
  number) and a contact never lands before it is decided.
* `SpendOvershootBounded`: a mandated escalation is judged on the cost of the action it
  replaces, so a day may end above its cap - by one escalation at most.
  `DailyLimits` and `SpendOvershootBounded` hold of the days whose counters were never
  dropped, the first two of the customers who were never evicted (section 6).
* `MandateDebits` needs a *message of this episode* to have landed 24 hours before the
  debit: a human's call, or what another episode sent, is no notice.
* `NothingAfterStop`, `OnlyAHumanActs`, `OutcomeTruthful`, `FairTrial`, `LedgerFaithful`
  relate the flags set on six different paths of the loop to what was done, told, charged
  and logged.
* `AcceptedOnce` and `NothingSwallowed` pull in opposite directions: remembering an id
  too late builds a second risk event, too early loses the first for good.  The second
  needs the status codes as well: what is not settled must not be answered 200.
* `CurrentKeyUnspent`, `FallbackMeansSpent`: rotation neither returns to a spent key nor
  gives up while one is left, also for an error that is transient and a quota error.
  `CallsBounded` counts the calls all this may cost; `DiagnosisEnds` says that it stops.
* `ResumeLosesNothing`: a whole fixture is neither overwritten nor torn by asking again,
  whatever crashes or changes in between, although every write truncates the file first.
* The ledger's identities are a function of event and sequence, so a second process over
  the same file meets the first one's rows.  `RowsOfOneRun`: it cannot write among them.
  `NoGaps`: what stands there of an event is one attempt, from its first decision on.
  `AtMostOneUnlogged`: what was sent and has no row is the last message of a process.
  `LoggedMeansExecuted`: the loop does not look at the executor's answer, yet no row
  speaks of a message the executor refused, because the primary key refuses first.
* `CellsAccountForWorld`: over all classes, the evidence held about an action is one
  observation for each time the world was asked about *it*.  `TrustAccountsForDecisions`:
  each source answers for what was carried out on its own word, and for that alone.
* `ActsOnlyForUplift`: no rounding, clamp, discount or bonus makes the argmax an action
  that is not believed to help.  `PricedIsCharged` compares two functions, one that prices
  before the choice by the count in the history it is handed, and one that charges after
  the verdict by a count passed to it - which once was a tally of the episode's own.
* `PlaceboNeverFavoursTreatment`, `UntouchedMatchesTwin`: both arms are looked at the same
  number of times, on the same draws, whatever path each treated pass takes.
  `TriageMatchesTruth` ties the generator to the taxonomy that reads what it emits.
* `HeadlinesAgree`: between the counts and the money reported stand two roundings, two
  clamped denominators and an average ticket that may be zero.
* `EventsMatchRows`: money to half a minor unit, the day, and the margin to less than a
  basis point, whatever is empty, text, fractional or written like an epoch.

**Bounds.** Two episodes of five decisions are more than the weekly cap of three, so a
cap or gap broken by overlap would show; in `contacts` the day limits are such that two
messages, or a message and an escalation, reach them. With two customers for one place
the second episode either shares the log of the first or evicts it; a third, in which
someone who was evicted is contacted again, is beyond the instance (what evictions do to
those who stay is proved for any number). Its two customers are interchangeable
(`SYMMETRY`; no liveness is checked there). In `ingest` two deliveries and two restarts
are enough for a redelivery before, across and after a restart; in `diagnosis` three
keys make "the next one" differ from "the last one", and `NETWORK_RETRIES` is the code's
own. In `ledger` two processes are enough for a re-run over any prefix; three decisions
have a first, a middle and a last. In `learning` two episodes let the second be priced
from what the first has taught; one contact is the least that tells the customer's count
from the episode's. In `harness` an action twenty days ahead takes the next decision to
the age at which an episode is closed, and three episodes per arm are enough for both
rates to differ and for a surface to lack an arm.

**Fairness.**  Only `Diagnosis` states any, `WF_vars(Step)`: the API client returns or
raises, and the loop of `diagnose`, a `while True`, goes on.  Nothing is assumed of
deliveries, restarts or of the errors that occur.  `run_episode` needs no liveness
property: it is a `for` over `range(MAX_DECISIONS + 1)`, and what could stop it short -
a pass without a decision to take, or one that does not count - is excluded by safety
theorems (`PassesRunOut`, `AlwaysADecision`) and by the check for deadlock.

**Deadlock** is checked for `Agent` and `Diagnosis`.  In `Agent` the only state
with nothing left to do is the end of the batch, which `BatchOver` makes explicit.  It is
not checked for `ingest`, `ledger`, `learning` and `harness`, which do stop: at the report,
or when the bounded number of deliveries, processes or episodes is used up.

Every property of a passing run has a mutant in `PROJECT.json`: a plausible bug in one
mapped definition under which TLC finds the property violated in the same run.

## 5. The proofs

For all values of the constants that satisfy the named assumptions (listed at the end of
this section), any number of episodes, customers and decisions, webhooks and deliveries,
keys, questions, rows, processes and restarts:

| Theorem | Statement |
|---|---|
| `TypeCorrect` (AgentProofs) | `Spec => []TypeOK` |
| `SpacingHolds` | `Spec => []ContactSpacing` |
| `CapHolds` | `Spec => []ContactCap` |
| `InHoursHolds` | `Spec => []ContactsInHours` |
| `ContractRefined` | `Spec /\ [](evicted = {}) => ContractSpec` |
| `ContractKept` | `RoomForAll => (Spec => ContractSpec)` |
| `DayLimitsHold` | `Spec => []DailyLimits` |
| `OvershootBounded` | `Spec => []SpendOvershootBounded` |
| `MemoryIsBounded` | `Spec => []MemoryBounded` |
| `PutOffNoLonger` | of every time in quiet hours, `NextAllowed` is the first time after them |
| `OutcomesTrue` (EpisodeProofs) | `Spec => []OutcomeTruthful` |
| `TrialIsFair` | `Spec => []FairTrial` |
| `StopsForGood` | `Spec => NothingAfterStop` |
| `HumansOnly` | `Spec => OnlyAHumanActs` |
| `NoticeFirst` | `Spec => MandateDebits` |
| `LedgerIsFaithful` | `Spec => []LedgerFaithful` |
| `PassesRunOut` | `Spec => EveryPassCounts` |
| `AlwaysADecision` | `Spec => []NeverStuck` |
| `IntakeTypeCorrect` (IngestProofs) | `Spec => []TypeOK` |
| `BuiltOnce` | `Spec => []AcceptedOnce` |
| `NoneSwallowed` | `Spec => []NothingSwallowed` |
| `NoRowLost` | `ImportSpec => []EveryRowAccounted` |
| `RowsAreSaid` | `ImportSpec => []EventsMatchRows` |
| `DiagnosisTypeCorrect` (DiagnosisProofs) | `Spec => []TypeOK` |
| `RingTurns` | `Spec => []CurrentKeyUnspent` |
| `AnswersKept` | `Spec => ResumeLosesNothing` |
| `FallbackIsLast` | `Spec => []FallbackMeansSpent` |
| `DiagnosisAffordable` | `Spec => []CallsBounded` |
| `CallsRunOut` | `Spec => EveryCallCounts` |
| `LedgerTypeCorrect` (LedgerProofs) | `Spec => []TypeOK` |
| `TriggersFirst` | `Guarded => (Spec => []RowsGuarded)` |
| `LedgerAppendOnly` | `Guarded => (Spec => AppendOnlySpec)` |
| `LoggedWasExecuted` | `Guarded => (Spec => []LoggedMeansExecuted)` |
| `OneAttemptPerFile` | `Guarded => (Spec => []RowsOfOneRun)` |
| `NoRowMissing` | `Guarded => (Spec => []NoGaps)` |
| `OneUnlogged` | `Guarded => (Spec => []AtMostOneUnlogged)` |
| `ReportAddsUp` | `Guarded => (Spec => []ReportMatchesLedger)` |
| `LearningTypeCorrect` (LearningProofs) | `Spec => [](CellsType /\ ToldType /\ SourcesType)` |
| `EvidenceAccounted` | `Spec => []CellsAccountForWorld` |
| `TrustAccounted` | `Spec => []TrustAccountsForDecisions` |
| `UpliftOnly` | `Spec => []ActsOnlyForUplift` |
| `ChargedAsPriced` | `Spec => []PricedIsCharged` |
| `ChancesAreChances` | `Spec => []ChancesBounded` |
| `ChoiceAlways` | `Spec => []ChoiceExists` |
| `HarnessIsFair` (HarnessProofs) | `HoldoutHasTime => (Spec => []PlaceboNeverFavoursTreatment)` |
| `TwinsEndAlike` | `HoldoutHasTime => (Spec => []UntouchedMatchesTwin)` |
| `TriageIsTrue` | `Spec => []TriageMatchesTruth` |
| `FatigueNeverHelps` | of every truth, `SuccessProbability` is at most `MAX_P` and does not grow with the contacts made |
| `HeadlinesDoAgree` | `MetricsSpec => []HeadlinesAgree` |
| `SurfacesDoAddUp` | `MetricsSpec => []SurfacesAddUp` |

*Argument for the contacts.*  `TypeOK` is inductive by itself.  Neither promise about
contacts is: the rules read the program's memory while the promises speak of what was sent.  The
inductive invariant is

    ContactInv == TypeOK /\ Remembered /\ ContactSpacing /\ ContactCap

where `Remembered` says that the log of every customer who was never evicted *is* the
history of their contacts.  Spacing makes that log strictly increasing, so `max(log)` is
its last entry (`LastIsLatest`), also for entries in the future.  A contact that passes
`MinGapViolated` is decided at least the gap after that last entry and lands no earlier
than it is decided (`LandsLater`), so spacing is kept.  For the cap: fewer than `Cap`
entries lie within seven days back from the decision; the log is increasing, so the
entry `Cap` places back is at least seven days old (`FewRecent`, by the cardinality of an
interval of indices), and older still when the contact lands.  `NextAllowed` lands on
the opening hour, which is outside quiet hours (two lemmas about `%` and `\div`);
`PutOffNoLonger` adds that no time in between would have done.

`ContractRefined` has the hypothesis `[](evicted = {})`: the contract knows no
forgetting, and once the map of customers is full the loop does forget.  `ContractKept`
discharges it where the map (100,000 customers in the code) has room for all: a customer
who is not tracked yet and as many tracked ones as the map holds would be more customers
than there are (`RoomLeft`, by the pigeonhole principle), so nobody is ever evicted.
`ContactSpacing` and `ContactCap` need neither: they speak of the customers never
evicted, and the theorems cover any sequence of evictions.  `MemoryIsBounded` counts the
other side of it: whoever has a log is tracked, at one place, so the number of logs is
that of places (`PlacesCount`).

*Argument for the days.*  Again the rules read counters and the promises speak of what
was executed; `DaysRemembered` says that they agree on every day that was never dropped,
and the inductive invariant adds `DaysWithin`, both limits and the spend ceiling at once.
An action that passes the rules finds room for one more.  For the spend, `JudgedOnFirst`
splits in two: a first choice was judged on its own cost and stays below the cap; a
mandated escalation was judged on the cost of what it replaces, so the day was at the cap
at most before it, and ends above by the price of one escalation - whose share for
attention is that of one below the weekly cap, since more contacts are blocked.

*Argument for an episode.* `TypeOK` with `OutcomeTruthful`, `FairTrial` and
`OpenEpisode`: while the episode runs, it has decided as often as it has asked the
world, the money counted is the money paid, and the flag "unprompted" agrees with the
last question asked. One lemma per action says what it does to the locals
(`RefuseFields`, `WithholdFields`, `ActFields`, `HoldoutFields`, `EndFields`,
`NewEpisodeFields`), and the invariant is preserved by these alone. `StopsForGood` and
`HumansOnly` then need no invariant beyond it: whoever acts was deciding, and deciding
excludes what stops an episode; what a rule forbids is forbidden to the re-decision too,
or the re-decision is the human. `NoticeFirst` needs `NoticeSent`: the notice an episode
remembers is one of its own messages, at the time it *landed*. `LedgerIsFaithful` needs
to know where the rows of the running episode are: `Audited` says that they are the last
ones of the ledger, as many as decisions, so that appending one extends exactly one sum.

*The end of an episode.* `PassesRunOut`: every step within an episode takes one from
`Remaining`. `AlwaysADecision`: while the contract lets the loop go on, there is a
decision and a place to charge it to. Its invariant is that refusing to act is never
among the refused actions (`MayRefuse`): whatever else is filtered, blocked or mandated,
NO_ACTION survives. `CallsRunOut` and `DiagnosisAffordable` say the same of a question
to the model, where the loop has no bound of its own and `DiagnosisEnds` is checked by
TLC.

*Intake.*  Neither property mentions the store, so the invariant adds `StoreTruthful`:
what is remembered is a risk event that was built, and what this process built under an
id is remembered.  A delivery is then split by the outcome of `normalise`; an answer 200
other than "risk event" has four possible reasons, and each keeps `NothingSwallowed`.

*Import.* The rows of events and those of errors partition the rows read, and the
lengths add up to how many those are; every event is what `Normalise` makes of its row.
Rounding to the nearest minor unit, cutting a margin off toward zero and a time down to
its day are three lemmas of arithmetic (`RoundedToHalf`, `CutToUnit`, `SameDay`).

*Diagnosis.*  `CurrentKeyUnspent` is inductive with the types: `_rotate` picks from the
keys not spent, or has just spent the last.  That answers are kept needs
`AskedIsOpen` - while a question is open its fixture is not whole, since `propose_root_cause`
looked and nothing else writes - and `OnlyBlindAnswered`, without which a prune by the
right provider might delete an answer to a question that is no longer routed to a model.

The bound on calls is a ranking argument: `CallsAccounted` says that the calls made, plus
the retries left on this key, plus one round for every unspent key (`UnspentCount`, by
cardinality), never exceed the limit set when the call was opened; each failed call takes
one from what is left, and a rotation trades a key for a round.

*Ledger.*  The theorems assume `Guarded == LedgerAttached /\ ~TriggersMayFail`: without
triggers anybody may take rows away (`Tamper`), and nothing holds of the file.
`TriggersFirst` is by the order of opening: a process that writes has installed them.
Then rows only grow, and `LedgerAppendOnly` follows from the primary key.  The other
three need to know what a second process can do, and its first row decides that: if the
file holds rows, the first event of the cohort that is not silent has a row of sequence
number 0 (whoever wrote anything began there), so every process begins with a row that is
refused and can append none.  That is the invariant behind `OneAttemptPerFile`; with it,
an episode that is running has all rows of its own attempt so far (`NoRowMissing`), every
row was sent by the executor of its run (`LoggedWasExecuted`), and whatever was executed
and is not in the file is the pending row's message (`OneUnlogged`).  `ReportAddsUp`
follows a process from its first row on: what it will report of an arm is the sum of the
arm's rows plus what the row in its hands will add (`Reported`).

*Sums.*  Four properties say that many small amounts add up: rows to a result and to a
report, fractions of an observation to whole ones, surfaces to a total.  The library's
induction theorems range over operators and cannot be used, so `SumProofs` argues by the
least counterexample (`Least`, `Shrinking`): it shows that the fold exists and is unique,
does not depend on the order in which members are taken, and hence that sums split,
extend, and follow a bijection.  `Upwards` serves the recursive functions over numbers in
the same way, the powers of the fatigue factor in `Learning` and in `World`.

*Learning.* Whatever the trust, what is believed of the classes adds up to one whole
(`ShrinkKeepsWhole`), so an answer of the world adds one observation to the cells of its
action (`LearnAccounts`) and none to the others. A decision carried out adds one to the
record of the source on whose word it was, and one to that source's own posterior, on
the side of what followed; every other source keeps both (`CreditAccounts`), and a
withheld decision changes neither. `UpliftOnly` is about the argmax: an option that is
not believed to help is worth no more than resting, which is always an option and costs
nothing (`NoGainNoValue`, `ChosenGains`). `ChoiceAlways` shows that a finite slate with
integer prices has a best member (`BestExists`) and that the filters leave one.

*Trial.*  `HoldoutHasTime` is the one thing the theorems need of the numbers in the code:
the control arm can make all its decisions before the event is too old (five decisions,
30 hours apart, 21 days).  With fewer days it would be cut short while a treated arm that
acts, and waits less, is not.  `Follows` describes an arm in which nothing is done: it
goes on while no draw so far is below the chance of an unprompted payment, and ends at the
first that is.  The control arm follows it always (`LookOn`), the treated arm as long as
nothing was done, whence `TwinsEndAlike`.  Under the placebo an action is answered as if
nothing had been done (`PlaceboAnswer`), so a treated arm that is paid was paid at such a
draw, and the control arm's first is no later: `HarnessIsFair`.  `TriageIsTrue` is decided
when the event is generated (`EmittedTruly`), and kept because only a human is on offer.
`FatigueNeverHelps` shows first that the recursion of `Fatigued` takes a tenth more with
each contact (`FatiguedOnce`), then goes through the actions.

*Metrics.*  The invariant says that a report is the one computed from its arms.  Headlines
are compared by their signs through two roundings (`HeadlinesDoAgree`); surfaces partition
the episodes, so sums over the surfaces reported and what is left out are the totals.

*Assumptions on the constants*, each an `ASSUME` of the module that declares them, which
TLC evaluates in the runs: `ClockAssumption`, `LimitAssumption` (Policy: a day of positive
length, a window within it, limits that are numbers); `WorldAssumption`, `LoopAssumption`,
`AttentionAssumption` (Agent); `IntakeAssumption`; `ImportAssumption` (cells of a row are
`Cells`); `RingAssumption`; `CohortAssumption`, `LedgerAssumption`; `SlateAssumption` (a
finite slate on which resting is free, and nothing else is), `PriceAssumption` (attention
has a price at every count of contacts told apart),
`LearningAssumption` (there are draws), `ProfileAssumption` (the model's opinion is a
distribution over finitely many classes); `TrialAssumption`; `MetricsAssumption` (finitely
many surfaces).  Three theorems' hypotheses are facts about a deployment and not about
every one: `Guarded`, `HoldoutHasTime`, `RoomForAll`; each is true with the code's own
values (SQLite's triggers are accepted; 4 times 30 hours are less than 21 days; 100,000
customers are tracked).  That opinions come in halves is a bound of the model.

*Proved and in no run's configuration*: `ContactsInHours`, `MemoryBounded`, `RowsGuarded`,
`EveryPassCounts`, `NeverStuck`, `EveryCallCounts`, `ChancesBounded`, `ChoiceExists`.  Each
holds on the instance of its module's run as well; the theorem says more.

*Only model-checked*: `DiagnosisEnds`.  Liveness under fairness and `ENABLED` are out of the
prover's reach; its safety half is a theorem.  Every other property of the passing runs is
a theorem of this section.  So that the prover may follow them, the modules proved about
use recursive functions and folds, no `RECURSIVE` operator; induction over data is replaced
by the least counterexample, as under *Sums*.

## 6. What the code does not keep

Each of these is a run that ends in a counterexample; quotations are in `PROJECT.json`.

| Run | Statement | What happens |
|---|---|---|
| `claim_opt_out` | a customer who opts out is never contacted again | `opted_out` is a local: the customer's next event is contacted |
| `claim_stamp` | replay keys against the model that wrote the fixtures | `--prune` deletes `MANIFEST.json` too, and a complete set is not stamped again |
| `claim_guarded` | append-only is enforced at the DB layer, by triggers | an exception of CREATE TRIGGER is passed over, whatever it says: the table is used without triggers and a row goes missing |
| `claim_business` | what the provider blames on the business is no case for the customer, regardless of the reason | a reason outside the table returns before anybody looks at whom the provider blames |
| `claim_placebo` | under the placebo, actions are inert in both directions | `run_batch` has imported `resolve` by name, so customers still opt out |

Other statements that the source does not keep, seen while modelling and left without a
run of their own:

* the spend cap of a day may be exceeded by a mandated escalation (`agent.py:448`;
  `SpendOvershootBounded` is what does hold);
* the ceiling rule exempts NO_ACTION, so an event above it may end refused (`engine.py:435`);
* going back to a merchant day that was dropped resets its budget, where the comment says
  that revisiting an earlier date must not (`agent.py:639`, `agent.py:645`);
* the customer evicted is the one first seen, who may be the one most recently contacted,
  and whose counters start from nothing (`agent.py:770`);
* the world is told the episode's own tally of contacts (`agent.py:577`);
* a salary-window retry decided late lands after the horizon (`ev.py:188`);
* a terminal diagnosis narrows the candidates but closes no episode (`ev.py:158`);
* an outcome is learned when it is decided, ahead of the time it lands (`agent.py:592`);
* without a ledger, a message whose key the executor refuses is charged (`agent.py:549`);
* a treated arm that recovers nothing is reported with no loss (`metrics.py:113`);
* a malformed JSON document, or a row that is no object, ends the import in a traceback
  (`import_file.py:217`, `import_file.py:230`; the actions `ReadRows`, `HandlerRaises`).

## 7. What is not modelled

* The evaluation's statistics, calibration, sweeps, ablations and reports, and the
  sampling weights of the cohort: floating-point, no control of their own.
* Voice, demo pages, markets, clock, environment: tables and presentation.
* The wording of prompts and messages, the banding of the model's payload, throttling.
* The counters of unknown reasons, the census of rule blocks, posterior snapshots: read
  by reports only.
* Of the providers, the sandbox and the calls nobody makes; of the importer, `--decide`
  and columns that are copied as they are.
* A STOP reaching a running episode: the code has no such path (`run_episode` never sets
  `late_authorised` or `disputed`).
* That the store of webhook ids does not outlive the process is the code's stated choice
  ("SQLite-backed in production", `webhook.py:100`): `AcceptedOnce` is about one process.

## 8. Plan

Done: every module of section 3; every invariant and every action property that a run
checks is a theorem (section 5).

Open, in order of what a failure would cost:

1. the learning loop and the agent loop are two models of one `run_episode`, which agree
   because both were read from it: a refinement mapping from one to the other, step by step;
2. that the bound of the placebo's control arm (`HoldoutHasTime`) is also necessary;
3. who really wrote a fixture, when the manifest names another model than the live one;
4. the trial started at any hour of any day, which moves the salary days of the month.
