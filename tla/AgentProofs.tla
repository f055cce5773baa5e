----------------------------- MODULE AgentProofs ----------------------------
(***************************************************************************)
(* Proofs about the agent loop, for every value of the constants: the      *)
(* types, what the contract promises a customer, and the limits of a       *)
(* merchant's day.  EpisodeProofs goes on to the single episode.           *)
(***************************************************************************)
EXTENDS AgentProperties, SequenceTheorems, SumProofs

-----------------------------------------------------------------------------
(* Time. *)

\* A contact that is moved out of quiet hours is moved forward, never back.
LEMMA NextAllowedForward ==
    ASSUME NEW t \in Nat
    PROVE  NextAllowed(t) \in Nat /\ NextAllowed(t) > t
<1>1. t % DayTicks \in 0..(DayTicks - 1)
    BY ClockAssumption
<1>2. t - (t % DayTicks) \in Nat
    BY <1>1, ClockAssumption
<1> QED
    BY <1>1, <1>2, ClockAssumption DEF NextAllowed

\* A decision that carries no time, or one that is not in the past, takes effect no
\* earlier than it is made.
LEMMA ShiftedForward ==
    ASSUME NEW now \in Nat, NEW d \in Decisions, d.at = NoTime \/ d.at >= now
    PROVE  ShiftedAt(d, now) \in Nat /\ ShiftedAt(d, now) >= now
<1>1. ScheduledAt(d, now) \in Nat /\ ScheduledAt(d, now) >= now
    BY DEF ScheduledAt, Decisions, MaybeTicks, NoTime, Ticks
<1>2. NextAllowed(ScheduledAt(d, now)) \in Nat
      /\ NextAllowed(ScheduledAt(d, now)) > ScheduledAt(d, now)
    BY <1>1, NextAllowedForward
<1> QED
    BY <1>1, <1>2 DEF ShiftedAt

-----------------------------------------------------------------------------
(* Candidates and decisions. *)

LEMMA OptionType ==
    ASSUME NEW p \in Profiles, NEW class \in FailureClasses, NEW action \in Actions,
           NEW at \in MaybeTicks, NEW channel \in Channels \cup {NoChannel}
    PROVE  /\ Option(p, class, action, at, channel) \in Decisions
           /\ Option(p, class, action, at, channel).at = at
           /\ Option(p, class, action, at, channel).action = action
           /\ Option(p, class, action, at, channel).recoverability = p.recoverability
           /\ Option(p, class, action, at, channel).amount = p.amount
           /\ Option(p, class, action, at, channel).source = p.source
    BY DEF Option, Decisions, Profiles

\* Every candidate is a decision about this event, for now or later.
CandidateOf(p, now, d) ==
    /\ d \in Decisions
    /\ d.at = NoTime \/ d.at >= now
    /\ d.recoverability = p.recoverability
    /\ d.amount = p.amount
    /\ d.source = p.source
    /\ d.action = "NUDGE" => d.channel \in Channels

LEMMA CandidateTypes ==
    ASSUME NEW p \in Profiles, NEW class \in FailureClasses, NEW now \in Nat,
           NEW d \in CandidateActions(p, class, now)
    PROVE  CandidateOf(p, now, d)
<1> DEFINE plain(action) == Option(p, class, action, NoTime, NoChannel)
           names == {"NO_ACTION", "ESCALATE_HUMAN", "RETRY_NOW", "SWITCH_METHOD"}
<1>1. d \in {plain(a) : a \in names}
         \/ d \in NudgeOptions(p, class, now)
         \/ d \in {Option(p, class, "RETRY_SCHEDULED", t, NoChannel) :
                     t \in RetryTimes(p, class, now)}
    BY DEF CandidateActions
<1>2. CASE d \in {plain(a) : a \in names}
    <2>1. PICK a \in names : d = plain(a)
        BY <1>2
    <2>2. a \in Actions /\ a # "NUDGE"
        BY DEF Actions
    <2>3. NoTime \in MaybeTicks /\ NoChannel \in Channels \cup {NoChannel}
        BY DEF MaybeTicks
    <2> QED
        BY <2>1, <2>2, <2>3, OptionType DEF CandidateOf
<1>3. CASE d \in NudgeOptions(p, class, now)
    <2>1. PICK offset \in NUDGE_OFFSETS, channel \in p.channels :
             d = Option(p, class, "NUDGE", now + offset, channel)
        BY <1>3 DEF NudgeOptions
    <2>2. channel \in Channels /\ now + offset \in MaybeTicks /\ now + offset >= now
        BY LoopAssumption DEF Profiles, MaybeTicks, Ticks
    <2>3. d.channel = channel
        BY <2>1 DEF Option
    <2>4. "NUDGE" \in Actions
        BY DEF Actions
    <2> QED
        BY <2>1, <2>2, <2>3, <2>4, OptionType DEF CandidateOf
<1>4. CASE d \in {Option(p, class, "RETRY_SCHEDULED", t, NoChannel) :
                     t \in RetryTimes(p, class, now)}
    <2>1. PICK t \in RetryTimes(p, class, now) :
             d = Option(p, class, "RETRY_SCHEDULED", t, NoChannel)
        BY <1>4
    <2>2. NextSalaryWindow(now) \in Nat /\ NextSalaryWindow(now) >= now
        <3>1. now % MonthTicks \in 0..(MonthTicks - 1)
            BY LoopAssumption
        <3> QED
            BY <3>1, LoopAssumption DEF NextSalaryWindow
    <2>3. t \in MaybeTicks /\ t >= now
        BY <2>1, <2>2, LoopAssumption DEF RetryTimes, MaybeTicks, Ticks, Profiles
    <2>4. "RETRY_SCHEDULED" \in Actions
        BY DEF Actions
    <2> QED
        BY <2>1, <2>3, <2>4, OptionType DEF CandidateOf
<1> QED
    BY <1>1, <1>2, <1>3, <1>4
-----------------------------------------------------------------------------
(* What GOVERN hands on. *)

\* Every governed decision is a candidate of the event, and the state it was judged on
\* is the one of the customer at this moment.
LEMMA GovernedTypes ==
    ASSUME TypeOK, NEW g \in Governed
    PROVE  /\ CandidateOf(ep.profile, ep.now, g.d)
           /\ g.s.contacts_7d = Seen
           /\ g.s.last_contact_at = LastContactAt(ep.customer)
<1>1. ep.profile \in Profiles /\ ep.now \in Nat
    BY WorldAssumption DEF TypeOK, Episodes, Ticks
<1>2. ASSUME NEW force, NEW d \in Decide(force)
      PROVE  CandidateOf(ep.profile, ep.now, d)
    <2>1. PICK class \in ep.profile.classes :
             d \in CandidateActions(ep.profile, class, ep.now)
        BY <1>2 DEF Decide
    <2>2. class \in FailureClasses
        BY <1>1 DEF Profiles
    <2> QED
        BY <1>1, <2>1, <2>2, CandidateTypes
<1>3. PICK first \in Decide({}) :
         g \in {[d |-> d, s |-> StateFor(first)] :
                  d \in IF RequiresHuman(first) THEN Decide({"ESCALATE_HUMAN"}) ELSE {first}}
    BY DEF Governed
<1>4. PICK d \in IF RequiresHuman(first) THEN Decide({"ESCALATE_HUMAN"}) ELSE {first} :
         g = [d |-> d, s |-> StateFor(first)]
    BY <1>3
<1>5. g.d = d /\ g.s = StateFor(first)
    BY <1>4
<1>6. CandidateOf(ep.profile, ep.now, g.d)
    BY <1>2, <1>4, <1>5
<1> QED
    BY <1>5, <1>6 DEF StateFor

LEMMA CostType ==
    ASSUME NEW p \in Profiles, NEW now \in Nat, NEW d, CandidateOf(p, now, d),
           NEW contacts \in Nat
    PROVE  CostOf(d, contacts) \in Nat
<1>1. AttentionAfter(contacts) \in Nat
    BY AttentionAssumption, LimitAssumption DEF AttentionAfter
<1> QED
    BY <1>1, LoopAssumption DEF CostOf, CandidateOf

LEMMA SeenType ==
    ASSUME TypeOK
    PROVE  Seen \in Nat
<1>1. /\ ep.customer \in Customers /\ ep.profile.contacts_7d \in Nat
      /\ customer_contacts[ep.customer] \in Seq(Ticks)
    BY WorldAssumption DEF TypeOK, Episodes, Profiles
<1> DEFINE log == customer_contacts[ep.customer]
<1>2. RecentContacts(ep.customer, ep.now) \subseteq 1..Len(log)
    BY <1>1 DEF RecentContacts
<1>3. IsFiniteSet(1..Len(log))
    BY <1>1, FS_Interval
<1>4. IsFiniteSet(RecentContacts(ep.customer, ep.now))
    BY <1>2, <1>3, FS_Subset
<1>5. Cardinality(RecentContacts(ep.customer, ep.now)) \in Nat
    BY <1>4, FS_CardinalityType
<1> QED
    BY <1>1, <1>5 DEF Seen, ContactsInLast7d
-----------------------------------------------------------------------------
(* Type correctness, one lemma per piece of memory a step may write. *)

DaysType(days) ==
    /\ DOMAIN days \subseteq Merchants \X Nat
    /\ \A key \in DOMAIN days : days[key] \in Counters

LEMMA PutType ==
    ASSUME NEW days, DaysType(days), NEW key \in Merchants \X Nat, NEW c \in Counters
    PROVE  DaysType(Put(days, key, c))
    BY DEF DaysType, Put

LEMMA ChargedType ==
    ASSUME NEW c \in Counters, NEW charge \in Counters
    PROVE  Charged(c, charge) \in Counters
    BY DEF Charged, Counters

LEMMA AtType ==
    ASSUME NEW days, DaysType(days), NEW key
    PROVE  At(days, key) \in Counters
    BY DEF DaysType, At, NoCharge, Counters

LEMMA TodayType ==
    ASSUME TypeOK
    PROVE  Today(ep) \in Merchants \X Nat
<1>1. ep.merchant \in Merchants /\ ep.now \in Nat
    BY DEF TypeOK, Episodes, Ticks
<1>2. ep.now \div DayTicks \in Nat
    BY <1>1, ClockAssumption
<1> QED
    BY <1>1, <1>2 DEF Today

BudgetsType ==
    /\ DaysType(merchant_days)
    /\ DaysType(totals)
    /\ lapsed \subseteq Merchants \X Nat

LEMMA TypeOKBudgets == TypeOK => BudgetsType
    BY DEF TypeOK, BudgetsType, DaysType

LEMMA ChargeTodayType ==
    ASSUME TypeOK, NEW charge \in Counters, ChargeToday(charge)
    PROVE  BudgetsType'
<1> DEFINE key == Today(ep)
<1>1. key \in Merchants \X Nat
    BY TodayType
<1>2. BudgetsType
    BY TypeOKBudgets
<1>3. PICK gone \in Evictable(key) :
         /\ merchant_days' = Put([k \in DOMAIN merchant_days \ gone |-> merchant_days[k]],
                                 key, Charged(At(merchant_days, key), charge))
         /\ totals' = Put(totals, key, Charged(At(totals, key), charge))
         /\ lapsed' = lapsed \cup gone
    BY DEF ChargeToday
<1>4. DaysType([k \in DOMAIN merchant_days \ gone |-> merchant_days[k]])
    BY <1>2 DEF BudgetsType, DaysType
<1>5. gone \subseteq Merchants \X Nat
    BY <1>2 DEF Evictable, BudgetsType, DaysType
<1>6. DaysType(merchant_days')
    BY <1>1, <1>2, <1>3, <1>4, PutType, ChargedType, AtType DEF BudgetsType
<1>7. DaysType(totals')
    BY <1>1, <1>2, <1>3, PutType, ChargedType, AtType DEF BudgetsType
<1> QED
    BY <1>2, <1>3, <1>5, <1>6, <1>7 DEF BudgetsType, DaysType

ContactsType ==
    /\ customer_contacts \in [Customers -> Seq(Ticks)]
    /\ tracked \in Seq(Customers)
    /\ sent \in [Customers -> Seq(Ticks)]
    /\ evicted \subseteq Customers

LEMMA RecordContactType ==
    ASSUME ContactsType, NEW c \in Customers, NEW at \in Nat, RecordContact(c, at)
    PROVE  ContactsType'
<1> DEFINE known == \E i \in DOMAIN tracked : tracked[i] = c
           full  == Len(tracked) >= MAX_CUSTOMERS_TRACKED
           gone  == IF ~known /\ full THEN {Head(tracked)} ELSE {}
<1>1. full => tracked # <<>> /\ Head(tracked) \in Customers /\ Tail(tracked) \in Seq(Customers)
    <2>1. MAX_CUSTOMERS_TRACKED \in Nat \ {0}
        BY LoopAssumption
    <2>2. tracked \in Seq(Customers)
        BY DEF ContactsType
    <2>3. full => tracked # <<>>
        BY <2>1, <2>2
    <2> QED
        BY <2>2, <2>3, HeadTailProperties
<1>2. gone \subseteq Customers
    BY <1>1
<1>3. tracked' \in Seq(Customers)
    BY <1>1 DEF RecordContact, ContactsType
<1>4. \A x \in Customers : Append(customer_contacts[x], at) \in Seq(Ticks)
                            /\ Append(sent[x], at) \in Seq(Ticks)
    BY DEF ContactsType, Ticks
<1>5. customer_contacts' \in [Customers -> Seq(Ticks)]
    BY <1>4 DEF RecordContact, ContactsType
<1>6. sent' \in [Customers -> Seq(Ticks)]
    BY <1>4 DEF RecordContact, ContactsType
<1>7. evicted' = evicted \cup gone
    BY DEF RecordContact
<1>8. evicted' \subseteq Customers
    BY <1>2, <1>7 DEF ContactsType
<1> QED
    BY <1>3, <1>5, <1>6, <1>8 DEF ContactsType

LogType == ledger \in Seq([event: Nat, seq: Nat, cost: Nat, recovered: Nat])

LEMMA LogStepType ==
    ASSUME TypeOK, NEW cost \in Nat, NEW recovered \in Nat, Log(cost, recovered)
    PROVE  LogType'
<1> DEFINE rows == [event: Nat, seq: Nat, cost: Nat, recovered: Nat]
<1>1. Row(cost, recovered) \in rows
    BY DEF TypeOK, Episodes, Row
<1>2. ledger \in Seq(rows)
    BY DEF TypeOK
<1> HIDE DEF rows
<1>3. Append(ledger, Row(cost, recovered)) \in Seq(rows)
    BY <1>1, <1>2, AppendProperties
<1>4. ledger' \in Seq(rows)
    BY <1>2, <1>3 DEF Log
<1> QED
    BY <1>4 DEF LogType, rows

ObservedType ==
    observed \in [action: Actions, at: Ticks, prior_contacts: Nat, priced: Nat, calls: Nat,
                  nudges: SUBSET Ticks]

LEMMA ObserveStepType ==
    ASSUME TypeOK, NEW action \in Actions, NEW at \in Nat, NEW prior \in Nat,
           NEW priced \in Nat, Observe(action, at, prior, priced)
    PROVE  ObservedType'
<1> DEFINE nudges == observed.nudges \cup {t \in {at} : action = "NUDGE"}
<1>1. observed.calls \in Nat /\ nudges \subseteq Nat
    BY DEF TypeOK, Ticks
<1>2. observed' = [action |-> action, at |-> at, prior_contacts |-> prior,
                   priced |-> priced, calls |-> observed.calls + 1, nudges |-> nudges]
    BY DEF Observe
<1> HIDE DEF nudges
<1> QED
    BY <1>1, <1>2 DEF ObservedType, Ticks

\* TypeOK in the pieces the lemmas above are about.
LEMMA TypeOKParts ==
    TypeOK <=> /\ ep \in Episodes /\ ContactsType /\ unsubscribed \subseteq Customers
               /\ BudgetsType /\ LogType /\ ObservedType
    BY DEF TypeOK, ContactsType, BudgetsType, DaysType, LogType, ObservedType

\* The same, after a step.
LEMMA TypeOKNext ==
    ASSUME (ep \in Episodes)', ContactsType', (unsubscribed \subseteq Customers)',
           BudgetsType', LogType', ObservedType'
    PROVE  TypeOK'
    BY DEF TypeOK, ContactsType, BudgetsType, DaysType, LogType, ObservedType

\* What the fields of the current episode are, and the profile it is about.
LEMMA EpisodeTypes ==
    ASSUME TypeOK
    PROVE  /\ ep \in Episodes /\ ep.profile \in Profiles /\ ep.customer \in Customers
           /\ ep.now \in Nat /\ ep.started \in Nat /\ ep.contacts \in Nat
           /\ \A got \in BOOLEAN : Amount(got) \in Nat
<1>1. ep \in Episodes
    BY DEF TypeOK
<1>2. ep.profile \in Profiles
    BY <1>1, WorldAssumption DEF Episodes
<1>3. ep.profile.amount \in Nat
    BY <1>2 DEF Profiles
<1> QED
    BY <1>1, <1>2, <1>3 DEF Episodes, Ticks, Amount

LEMMA DecidedType ==
    ASSUME TypeOK
    PROVE  Decided \in Episodes
<1> DEFINE decisions == ep.decisions + 1
           seq       == ep.seq + 1
           broken    == PromiseBrokenNow
<1>1. /\ decisions \in Nat /\ seq \in Nat /\ broken \in BOOLEAN
      /\ ep \in Episodes
    BY DEF PromiseBrokenNow, TypeOK, Episodes
<1>2. Decided = [ep EXCEPT !.decisions = decisions, !.seq = seq, !.promise_broken = broken]
    BY DEF Decided
<1> HIDE DEF decisions, seq, broken
<1> QED
    BY <1>1, <1>2 DEF Episodes

LEMMA NoChargeType == NoCharge \in Counters
    BY DEF NoCharge, Counters

LEMMA InitType == Init => TypeOK
<1> SUFFICES ASSUME Init PROVE TypeOK
    OBVIOUS
<1>1. PICK c \in Customers, m \in Merchants, p \in EventProfiles :
         ep = [NewEpisode(0, c, m, p, "treatment", 0) EXCEPT !.open = FALSE]
    BY DEF Init
<1>2. ep \in Episodes
    BY <1>1 DEF NewEpisode, Episodes, Ticks, MaybeTicks, Outcomes
<1>3. ContactsType
    BY DEF Init, ContactsType
<1>4. BudgetsType
    BY DEF Init, BudgetsType, DaysType
<1>5. LogType
    BY DEF Init, LogType
<1>6. ObservedType
    BY DEF Init, NotObserved, ObservedType, Actions, Ticks
<1> QED
    BY <1>2, <1>3, <1>4, <1>5, <1>6, TypeOKParts DEF Init

LEMMA StartType ==
    ASSUME TypeOK, NEW c \in Customers, NEW m \in Merchants, NEW p \in EventProfiles,
           NEW arm \in {"treatment", "holdout"}, NEW start \in StartTimes,
           StartEpisode(c, m, p, arm, start)
    PROVE  TypeOK'
<1>1. (ep \in Episodes)'
    <2>1. ep' = NewEpisode(ep.id + 1, c, m, p, arm, start)
        BY DEF StartEpisode
    <2>2. ep.id + 1 \in Nat /\ start \in Nat
        BY WorldAssumption, SMTT(20) DEF TypeOK, Episodes, Ticks
    <2> QED
        BY <2>1, <2>2 DEF NewEpisode, Episodes, Ticks, MaybeTicks, Outcomes
<1>2. ObservedType'
    BY DEF StartEpisode, NotObserved, ObservedType, Actions, Ticks
<1>3. UNCHANGED <<customer_contacts, tracked, sent, evicted, unsubscribed,
                  merchant_days, totals, lapsed, ledger>>
    BY DEF StartEpisode, memory, contacts_memory, budgets
<1>4. ContactsType' /\ BudgetsType' /\ LogType' /\ (unsubscribed \subseteq Customers)'
    BY <1>3, TypeOKParts DEF ContactsType, BudgetsType, DaysType, LogType
<1> QED
    BY <1>1, <1>2, <1>4, TypeOKNext

LEMMA HoldoutType ==
    ASSUME TypeOK, NEW got \in BOOLEAN, HoldoutObserve(got)
    PROVE  TypeOK'
<1> DEFINE last == \/ ep.seq = MAX_DECISIONS - 1
                   \/ AgeDays(ep.started, ep.now + CoolOffTicks) > HoldoutDays
<1>1. Amount(got) \in Nat /\ ep.now \in Nat /\ ep \in Episodes
    BY EpisodeTypes
<1>2. (ep \in Episodes)'
    <2> DEFINE decisions == ep.seq + 1
               seq    == IF got \/ last THEN ep.seq ELSE ep.seq + 1
               now    == IF got THEN ep.now ELSE ep.now + CoolOffTicks
               amount == Amount(got)
               open   == ~got /\ ~last
               reason == IF got THEN "recovered_unprompted" ELSE "holdout_observed"
    <2>1. ep' = [ep EXCEPT !.decisions = decisions, !.seq = seq, !.now = now,
                           !.recovered = amount, !.open = open, !.stop_reason = reason]
        BY DEF HoldoutObserve
    <2>2. /\ decisions \in Nat /\ seq \in Nat /\ now \in Ticks /\ amount \in Nat
          /\ open \in BOOLEAN /\ reason \in Outcomes
        BY <1>1, LoopAssumption DEF Episodes, Ticks, Outcomes
    <2> HIDE DEF decisions, seq, now, amount, open, reason
    <2> QED
        BY <1>1, <2>1, <2>2 DEF Episodes
<1>3. ObservedType'
    <2>1. "NO_ACTION" \in Actions /\ Observe("NO_ACTION", ep.now, 0, 0)
        BY DEF Actions, HoldoutObserve
    <2> QED
        BY <1>1, <2>1, ObserveStepType
<1>4. LogType'
    <2>1. Log(0, Amount(got))
        BY DEF HoldoutObserve
    <2> QED
        BY <1>1, <2>1, LogStepType
<1>5. UNCHANGED <<customer_contacts, tracked, sent, evicted, unsubscribed,
                  merchant_days, totals, lapsed>>
    BY DEF HoldoutObserve, memory, contacts_memory, budgets
<1>6. ContactsType' /\ BudgetsType' /\ (unsubscribed \subseteq Customers)'
    BY <1>5, TypeOKParts DEF ContactsType, BudgetsType, DaysType
<1> QED
    BY <1>2, <1>3, <1>4, <1>6, TypeOKNext

LEMMA EndType ==
    ASSUME TypeOK, Close \/ Exhaust
    PROVE  TypeOK'
<1>1. ep \in Episodes
    BY EpisodeTypes
<1>2. (ep \in Episodes)'
    <2>1. CASE Close
        <3>1. EpisodeClosed(ep) \in Outcomes
            BY <2>1 DEF Close, EpisodeClosed, Outcomes
        <3> QED
            BY <1>1, <2>1, <3>1 DEF Close, Episodes
    <2>2. CASE Exhaust
        BY <1>1, <2>2 DEF Exhaust, Episodes
    <2> QED
        BY <2>1, <2>2
<1>3. UNCHANGED <<customer_contacts, tracked, sent, evicted, unsubscribed,
                  merchant_days, totals, lapsed, ledger, observed>>
    BY DEF Close, Exhaust, memory, contacts_memory, budgets
<1>4. /\ ContactsType' /\ BudgetsType' /\ (unsubscribed \subseteq Customers)'
      /\ LogType' /\ ObservedType'
    BY <1>3, TypeOKParts DEF ContactsType, BudgetsType, DaysType, LogType, ObservedType
<1> QED
    BY <1>2, <1>4, TypeOKNext

LEMMA RefuseType ==
    ASSUME TypeOK, NEW g \in Governed, NEW got \in BOOLEAN, Refuse(g, got)
    PROVE  TypeOK'
<1>1. /\ Amount(got) \in Nat /\ ep.now \in Nat /\ ep.contacts \in Nat /\ ep \in Episodes
      /\ Decided \in Episodes /\ Seen \in Nat
    BY EpisodeTypes, DecidedType, SeenType
<1>2. (ep \in Episodes)'
    <2> DEFINE amount == Decided.recovered + Amount(got)
               open   == ~got
               now    == IF got THEN Decided.now ELSE Decided.now + CoolOffTicks
               reason == IF got THEN "recovered_unprompted"
                         ELSE IF ep.seq = MAX_DECISIONS - 1
                         THEN "refused_negative_ev" ELSE Decided.stop_reason
    <2>1. ep' = [Decided EXCEPT !.recovered = amount, !.open = open, !.now = now,
                                !.stop_reason = reason]
        BY DEF Refuse
    <2>2. amount \in Nat /\ open \in BOOLEAN /\ now \in Ticks /\ reason \in Outcomes
        BY <1>1, LoopAssumption DEF Episodes, Ticks, Outcomes
    <2> HIDE DEF amount, open, now, reason
    <2> QED
        BY <1>1, <2>1, <2>2 DEF Episodes
<1>3. /\ Observe("NO_ACTION", ep.now, ep.contacts, Seen)
      /\ Log(0, Amount(got))
      /\ ChargeToday(NoCharge)
      /\ UNCHANGED memory
    BY DEF Refuse
<1>4. ObservedType' /\ LogType' /\ BudgetsType'
    <2>1. "NO_ACTION" \in Actions
        BY DEF Actions
    <2> QED
        BY <1>1, <1>3, <2>1, ObserveStepType, LogStepType, NoChargeType, ChargeTodayType
<1>5. ContactsType' /\ (unsubscribed \subseteq Customers)'
    BY <1>3, TypeOKParts DEF ContactsType, memory, contacts_memory
<1> QED
    BY <1>2, <1>4, <1>5, TypeOKNext

LEMMA WithholdType ==
    ASSUME TypeOK, NEW g \in Governed, NEW got \in BOOLEAN, Withhold(g, got)
    PROVE  TypeOK'
<1>1. /\ Amount(got) \in Nat /\ ep.now \in Nat /\ ep.contacts \in Nat /\ ep \in Episodes
      /\ Decided \in Episodes /\ Seen \in Nat
    BY EpisodeTypes, DecidedType, SeenType
<1>2. g.d.action \in Actions
    BY GovernedTypes DEF CandidateOf, Decisions
<1>3. (ep \in Episodes)'
    <2> DEFINE refused    == Decided.refused_actions \cup {g.d.action}
               amount     == Decided.recovered + Amount(got)
               paid       == Decided.paid \/ got
               unprompted == Decided.paid_unprompted \/ got
               now        == IF got THEN Decided.now ELSE Decided.now + CoolOffTicks
    <2>1. ep' = [Decided EXCEPT !.refused_actions = refused, !.recovered = amount,
                                !.paid = paid, !.paid_unprompted = unprompted, !.now = now]
        BY DEF Withhold
    <2>2. amount \in Nat /\ now \in Ticks
        BY <1>1, LoopAssumption DEF Episodes, Ticks
    <2>3. refused \in SUBSET Actions /\ paid \in BOOLEAN /\ unprompted \in BOOLEAN
        BY <1>1, <1>2 DEF Episodes
    <2> HIDE DEF refused, amount, paid, unprompted, now
    <2> QED
        BY <1>1, <2>1, <2>2, <2>3, ZenonT(40) DEF Episodes
<1>4. /\ Observe("NO_ACTION", ep.now, ep.contacts, Seen)
      /\ Log(0, Amount(got))
      /\ ChargeToday(NoCharge)
      /\ UNCHANGED memory
    BY DEF Withhold
<1>5. ObservedType' /\ LogType' /\ BudgetsType'
    <2>1. "NO_ACTION" \in Actions
        BY DEF Actions
    <2> QED
        BY <1>1, <1>4, <2>1, ObserveStepType, LogStepType, NoChargeType, ChargeTodayType
<1>6. ContactsType' /\ (unsubscribed \subseteq Customers)'
    BY <1>4, TypeOKParts DEF ContactsType, memory, contacts_memory
<1> QED
    BY <1>3, <1>5, <1>6, TypeOKNext

\* What an action that is let through is charged for, and when it lands.
LEMMA ActTypes ==
    ASSUME TypeOK, NEW g \in Governed
    PROVE  /\ ShiftedAt(g.d, ep.now) \in Nat /\ ShiftedAt(g.d, ep.now) >= ep.now
           /\ CostOf(g.d, Seen) \in Nat
           /\ g.d \in Decisions /\ g.d.action \in Actions
<1>1. CandidateOf(ep.profile, ep.now, g.d) /\ ep.now \in Nat /\ ep.profile \in Profiles
    BY GovernedTypes, EpisodeTypes
<1>2. g.d \in Decisions /\ g.d.action \in Actions
    BY <1>1 DEF CandidateOf, Decisions
<1>3. ShiftedAt(g.d, ep.now) \in Nat /\ ShiftedAt(g.d, ep.now) >= ep.now
    BY <1>1, <1>2, ShiftedForward DEF CandidateOf
<1>4. CostOf(g.d, Seen) \in Nat
    BY <1>1, SeenType, CostType
<1> QED
    BY <1>2, <1>3, <1>4

LEMMA ActType ==
    ASSUME TypeOK, NEW g \in Governed, NEW got \in BOOLEAN, NEW quit \in BOOLEAN,
           Act(g, got, quit)
    PROVE  TypeOK'
<1> DEFINE scheduled == ShiftedAt(g.d, ep.now)
           nudge     == g.d.action = "NUDGE"
           contact   == IsCustomerContact(g.d)
           cost      == CostOf(g.d, Seen)
           contacts  == IF contact THEN ep.contacts + 1 ELSE ep.contacts
<1>1. /\ Amount(got) \in Nat /\ ep.now \in Nat /\ ep.contacts \in Nat /\ ep \in Episodes
      /\ Decided \in Episodes /\ Seen \in Nat /\ ep.customer \in Customers
    BY EpisodeTypes, DecidedType, SeenType
<1>2. scheduled \in Nat /\ cost \in Nat /\ g.d.action \in Actions
    BY ActTypes
<1>3. contacts \in Nat
    BY <1>1
<1>4. (ep \in Episodes)'
    <2> DEFINE attempts   == IF g.d.action \in RETRY_ACTIONS THEN Decided.attempts + 1
                             ELSE Decided.attempts
               messages   == IF nudge THEN Decided.messages + 1 ELSE Decided.messages
               notice     == NoticeAfter(g.d, scheduled)
               due        == PromiseAfter(g.d, scheduled, got)
               broken     == ~nudge /\ PromiseBrokenNow
               spent      == Decided.cost + cost
               amount     == Decided.recovered + Amount(got)
               optedOut   == ~got /\ quit
               now        == IF got \/ quit THEN Decided.now
                             ELSE (IF scheduled > ep.now THEN scheduled ELSE ep.now)
                                  + FollowUpTicks
    <2>1. ep' = [Decided EXCEPT !.attempts = attempts, !.contacts = contacts,
                     !.messages = messages, !.pre_debit_notice_at = notice,
                     !.promise_due_at = due, !.promise_broken = broken, !.cost = spent,
                     !.recovered = amount, !.paid = got, !.opted_out = optedOut, !.now = now]
        BY DEF Act
    <2>2. /\ attempts \in Nat /\ messages \in Nat /\ spent \in Nat /\ amount \in Nat
          /\ now \in Ticks
        BY <1>1, <1>2, LoopAssumption DEF Episodes, Ticks
    <2>3. notice \in MaybeTicks /\ due \in MaybeTicks
        BY <1>1, <1>2, LoopAssumption DEF Episodes, MaybeTicks, PromiseAfter, NoticeAfter
    <2>4. broken \in BOOLEAN /\ optedOut \in BOOLEAN
        OBVIOUS
    <2>5. Decided \in Episodes /\ contacts \in Nat
        BY <1>1, <1>3
    <2> HIDE DEF attempts, contacts, messages, notice, due, broken, spent, amount, optedOut, now
    <2> DEFINE acted == [Decided EXCEPT !.attempts = attempts, !.contacts = contacts,
                            !.messages = messages, !.pre_debit_notice_at = notice,
                            !.cost = spent]
    <2>6. acted \in Episodes
        BY <2>2, <2>3, <2>5 DEF Episodes
    <2>7. ep' = [acted EXCEPT !.promise_due_at = due, !.promise_broken = broken,
                     !.recovered = amount, !.paid = got, !.opted_out = optedOut, !.now = now]
        BY <2>1, <2>5 DEF Episodes
    <2> HIDE DEF acted
    <2> QED
        BY <2>2, <2>3, <2>4, <2>6, <2>7, ZenonT(40) DEF Episodes
<1>5. ObservedType'
    <2>1. Observe(g.d.action, scheduled, IF contacts = 0 THEN 0 ELSE contacts - 1, Seen)
        BY DEF Act
    <2>2. (IF contacts = 0 THEN 0 ELSE contacts - 1) \in Nat
        BY <1>3
    <2> QED
        BY <1>1, <1>2, <2>1, <2>2, ObserveStepType
<1>6. LogType'
    <2>1. Log(cost, Amount(got))
        BY DEF Act
    <2> QED
        BY <1>1, <1>2, <2>1, LogStepType
<1>7. BudgetsType'
    <2> DEFINE charge == [actions |-> 1, spend |-> cost,
                          escalations |-> IF g.d.action = "ESCALATE_HUMAN" THEN 1 ELSE 0]
    <2>1. charge \in Counters
        BY <1>2 DEF Counters
    <2>2. ChargeToday(charge)
        BY DEF Act
    <2> QED
        BY <2>1, <2>2, ChargeTodayType
<1>8. ContactsType'
    <2>1. ContactsType
        BY TypeOKParts
    <2>2. CASE contact
        <3>1. RecordContact(ep.customer, scheduled)
            BY <2>2 DEF Act
        <3> QED
            BY <1>1, <1>2, <2>1, <3>1, RecordContactType
    <2>3. CASE ~contact
        <3>1. UNCHANGED contacts_memory
            BY <2>3 DEF Act
        <3> QED
            BY <2>1, <3>1 DEF ContactsType, contacts_memory
    <2> QED
        BY <2>2, <2>3
<1>9. (unsubscribed \subseteq Customers)'
    BY <1>1 DEF Act, TypeOK
<1> QED
    BY <1>4, <1>5, <1>6, <1>7, <1>8, <1>9, TypeOKNext

LEMMA StutterType ==
    ASSUME TypeOK, UNCHANGED vars
    PROVE  TypeOK'
<1>1. UNCHANGED <<ep, customer_contacts, tracked, sent, evicted, unsubscribed,
                  merchant_days, totals, lapsed, ledger, observed>>
    BY DEF vars, memory, contacts_memory, budgets
<1>2. /\ (ep \in Episodes)' /\ ContactsType' /\ BudgetsType' /\ (unsubscribed \subseteq Customers)'
      /\ LogType' /\ ObservedType'
    BY <1>1, TypeOKParts DEF ContactsType, BudgetsType, DaysType, LogType, ObservedType
<1> QED
    BY <1>2, TypeOKNext

LEMMA NextType ==
    ASSUME TypeOK, [Next]_vars
    PROVE  TypeOK'
<1>1. CASE Close \/ Exhaust
    BY <1>1, EndType
<1>2. CASE \E got \in BOOLEAN : HoldoutObserve(got)
    BY <1>2, HoldoutType
<1>3. ASSUME NEW g \in Governed, NEW got \in BOOLEAN,
             \/ Refuse(g, got)
             \/ Block(g, got)
             \/ NoTemplate(g, got)
             \/ \E quit \in BOOLEAN : Act(g, got, quit)
      PROVE  TypeOK'
    <2>1. CASE Refuse(g, got)
        BY <2>1, RefuseType
    <2>2. CASE Block(g, got) \/ NoTemplate(g, got)
        <3>1. Withhold(g, got)
            BY <2>2 DEF Block, NoTemplate
        <3> QED
            BY <3>1, WithholdType
    <2>3. CASE \E quit \in BOOLEAN : Act(g, got, quit)
        BY <2>3, ActType
    <2> QED
        BY <1>3, <2>1, <2>2, <2>3
<1>4. CASE Arrive
    BY <1>4, StartType DEF Arrive
<1>5. CASE UNCHANGED vars
    BY <1>5, StutterType
<1> QED
    BY <1>1, <1>2, <1>3, <1>4, <1>5 DEF Next, Step, BatchOver

\* Everything the agent keeps in memory, and the rows it hands to the ledger, are always
\* of their types: every clock is a time, every counter a natural number, every contact
\* log and every merchant day well formed, whatever the world answers and whichever
\* candidate the scores put first (src/agent.py, run_episode).
THEOREM TypeCorrect == Spec => []TypeOK
<1>1. Init => TypeOK
    BY InitType
<1>2. TypeOK /\ [Next]_vars => TypeOK'
    BY NextType
<1> QED
    BY <1>1, <1>2, PTL DEF Spec

-----------------------------------------------------------------------------
(***************************************************************************)
(* What the contract promises a customer: the spacing and the weekly cap   *)
(* of the contacts that land, over all episodes, and the refinement of     *)
(* ContactContract.                                                        *)
(***************************************************************************)
(* The two promises, for one log. *)

Spaced(log) ==
    \A i, j \in DOMAIN log : i < j => log[j] - log[i] >= MinTicksBetween

Capped(log) ==
    \A i \in DOMAIN log :
       i > MaxContactsPer7d => log[i] - log[i - MaxContactsPer7d] >= WeekTicks

\* What the rules let through, for one log and the time at which the next contact lands.
MayFollow(log, t) ==
    /\ \A i \in DOMAIN log : t - log[i] >= MinTicksBetween
    /\ Len(log) >= MaxContactsPer7d =>
          t - log[Len(log) - MaxContactsPer7d + 1] >= WeekTicks

LEMMA ConstantTypes ==
    /\ MinTicksBetween \in Nat /\ MinTicksBetween > 0
    /\ MaxContactsPer7d \in Nat /\ MaxContactsPer7d > 0
    /\ WeekTicks \in Nat
    BY LimitAssumption, LoopAssumption

LEMMA AppendKeeps ==
    ASSUME NEW log \in Seq(Nat), NEW t \in Nat, Spaced(log), Capped(log), MayFollow(log, t)
    PROVE  Spaced(Append(log, t)) /\ Capped(Append(log, t))
<1> DEFINE n   == Len(log)
           new == Append(log, t)
<1>1. /\ n \in Nat /\ DOMAIN log = 1..n /\ DOMAIN new = 1..(n + 1)
      /\ \A i \in 1..n : new[i] = log[i] /\ log[i] \in Nat
      /\ new[n + 1] = t
    OBVIOUS
<1> HIDE DEF n, new
<1>2. Spaced(new)
    <2> SUFFICES ASSUME NEW i \in 1..(n + 1), NEW j \in 1..(n + 1), i < j
                 PROVE  new[j] - new[i] >= MinTicksBetween
        BY <1>1 DEF Spaced
    <2>1. CASE j = n + 1
        BY <1>1, <2>1 DEF MayFollow
    <2>2. CASE j # n + 1
        <3>1. i \in 1..n /\ j \in 1..n
            BY <1>1, <2>2
        <3>2. log[j] - log[i] >= MinTicksBetween
            BY <1>1, <3>1 DEF Spaced
        <3> QED
            BY <1>1, <3>1, <3>2
    <2> QED
        BY <2>1, <2>2
<1>3. Capped(new)
    <2> SUFFICES ASSUME NEW i \in 1..(n + 1), i > MaxContactsPer7d
                 PROVE  new[i] - new[i - MaxContactsPer7d] >= WeekTicks
        BY <1>1 DEF Capped
    <2>1. i - MaxContactsPer7d \in 1..n
        BY <1>1, ConstantTypes
    <2>2. CASE i = n + 1
        <3>1. n >= MaxContactsPer7d /\ n - MaxContactsPer7d + 1 = i - MaxContactsPer7d
            BY <1>1, <2>2, ConstantTypes
        <3>2. t - log[n - MaxContactsPer7d + 1] >= WeekTicks
            BY <3>1 DEF MayFollow, n
        <3> QED
            BY <1>1, <2>1, <2>2, <3>1, <3>2
    <2>3. CASE i # n + 1
        BY <1>1, <2>1, <2>3 DEF Capped
    <2> QED
        BY <2>2, <2>3
<1> QED
    BY <1>2, <1>3 DEF new

-----------------------------------------------------------------------------
(* What _last_contact_at and _contacts_in_last_7d tell about a spaced log. *)

\* In a spaced log the latest contact is the last one recorded.
LEMMA LastIsLatest ==
    ASSUME NEW c, NEW log, log = customer_contacts[c], log \in Seq(Nat), Spaced(log),
           log # <<>>
    PROVE  /\ LastContactAt(c) \in Nat
           /\ \A i \in DOMAIN log : log[i] <= LastContactAt(c)
<1> DEFINE n == Len(log)
<1>1. n \in Nat /\ n > 0 /\ DOMAIN log = 1..n /\ \A i \in 1..n : log[i] \in Nat
    OBVIOUS
<1>2. \A i \in 1..n : log[i] <= log[n]
    <2> SUFFICES ASSUME NEW i \in 1..n PROVE log[i] <= log[n]
        OBVIOUS
    <2>1. CASE i = n
        BY <1>1, <2>1
    <2>2. CASE i # n
        <3>1. i < n /\ n \in 1..n
            BY <1>1, <2>2
        <3>2. log[n] - log[i] >= MinTicksBetween
            BY <1>1, <3>1 DEF Spaced
        <3> QED
            BY <1>1, <3>1, <3>2, ConstantTypes
    <2> QED
        BY <2>1, <2>2
<1> DEFINE times == {log[i] : i \in DOMAIN log}
           Latest(t) == \A i \in DOMAIN log : log[i] <= t
<1>3. log[n] \in times /\ Latest(log[n])
    BY <1>1, <1>2
<1>4. LastContactAt(c) = CHOOSE t \in times : Latest(t)
    BY DEF LastContactAt
<1>5. LastContactAt(c) \in times /\ Latest(LastContactAt(c))
    BY <1>3, <1>4
<1> QED
    BY <1>1, <1>5

\* Fewer than the cap in the last seven days: the contact that is MaxContactsPer7d back
\* is at least seven days old.
LEMMA FewRecent ==
    ASSUME NEW c, NEW log, log = customer_contacts[c], log \in Seq(Nat), Spaced(log),
           NEW now \in Nat, Cardinality(RecentContacts(c, now)) < MaxContactsPer7d,
           Len(log) >= MaxContactsPer7d
    PROVE  now - log[Len(log) - MaxContactsPer7d + 1] >= WeekTicks
<1> DEFINE n    == Len(log)
           k    == n - MaxContactsPer7d + 1
           last == k..n
<1>1. /\ n \in Nat /\ DOMAIN log = 1..n /\ k \in 1..n
      /\ \A i \in 1..n : log[i] \in Nat
    BY ConstantTypes
<1>2. SUFFICES ASSUME log[k] > now - WeekTicks PROVE FALSE
    BY <1>1, ConstantTypes
<1>3. last \subseteq RecentContacts(c, now)
    <2> SUFFICES ASSUME NEW i \in last PROVE log[i] > now - WeekTicks
        BY <1>1 DEF RecentContacts
    <2>1. i \in 1..n /\ (i = k \/ k < i)
        BY <1>1
    <2>2. log[i] >= log[k]
        <3>1. CASE i = k
            BY <1>1, <3>1
        <3>2. CASE k < i
            <4>1. log[i] - log[k] >= MinTicksBetween
                BY <1>1, <2>1, <3>2 DEF Spaced
            <4> QED
                BY <1>1, <2>1, <4>1, ConstantTypes
        <3> QED
            BY <2>1, <3>1, <3>2
    <2> QED
        BY <1>1, <1>2, <2>1, <2>2, ConstantTypes
<1>4. IsFiniteSet(RecentContacts(c, now))
    <2>1. RecentContacts(c, now) \subseteq 1..n
        BY <1>1 DEF RecentContacts
    <2>2. IsFiniteSet(1..n)
        BY <1>1, FS_Interval
    <2> QED
        BY <2>1, <2>2, FS_Subset
<1>5. Cardinality(last) <= Cardinality(RecentContacts(c, now))
    BY <1>3, <1>4, FS_Subset
<1>6. Cardinality(last) = MaxContactsPer7d
    <2>1. Cardinality(last) = n - k + 1
        <3>1. n \in Int /\ k \in Int /\ ~(k > n)
            BY <1>1
        <3> HIDE DEF n, k
        <3> QED
            BY <3>1, FS_Interval
    <2> QED
        BY <1>1, <2>1, ConstantTypes
<1>7. Cardinality(RecentContacts(c, now)) \in Nat
    BY <1>4, FS_CardinalityType
<1> QED
    BY <1>5, <1>6, <1>7, ConstantTypes

-----------------------------------------------------------------------------
(* Quiet hours. *)

LEMMA WholeDays ==
    ASSUME NEW t \in Nat, NEW days \in Nat \ {0}
    PROVE  t - (t % days) = days * (t \div days)
    BY SMTT(30)

LEMMA TimeOfDay ==
    ASSUME NEW k \in Nat, NEW days \in Nat \ {0}, NEW hour \in 0..(days - 1)
    PROVE  (days * k + hour) % days = hour
    BY SMTT(30)

\* A contact moved out of quiet hours is moved to the first tick after them.
LEMMA NextAllowedNotQuiet ==
    ASSUME NEW t \in Nat
    PROVE  ~InQuietHours(NextAllowed(t))
<1> DEFINE k == t \div DayTicks
<1>1. k \in Nat /\ DayTicks \in Nat \ {0} /\ QuietEnd \in 0..(DayTicks - 1)
    BY ClockAssumption
<1>2. t - (t % DayTicks) = DayTicks * k
    BY <1>1, WholeDays
<1>3. NextAllowed(t) = DayTicks * k + QuietEnd
      \/ NextAllowed(t) = DayTicks * (k + 1) + QuietEnd
    <2>1. DayTicks * (k + 1) = DayTicks * k + DayTicks /\ DayTicks * k \in Nat
        BY <1>1
    <2>2. NextAllowed(t) = DayTicks * k + QuietEnd
          \/ NextAllowed(t) = DayTicks * k + QuietEnd + DayTicks
        BY <1>2 DEF NextAllowed
    <2> HIDE DEF k
    <2> QED
        BY <1>1, <2>1, <2>2
<1>4. NextAllowed(t) % DayTicks = QuietEnd
    <2>1. k \in Nat /\ k + 1 \in Nat
        BY <1>1
    <2> HIDE DEF k
    <2> QED
        BY <1>1, <1>3, <2>1, TimeOfDay
<1> QED
    BY <1>4, ClockAssumption DEF InQuietHours

\* Later days begin later.
LEMMA DaysInOrder ==
    ASSUME NEW j \in Nat, NEW k \in Nat, NEW days \in Nat \ {0}, j <= k
    PROVE  days * j <= days * k /\ days * j \in Nat /\ days * k \in Nat
<1>1. PICK n \in Nat : k = j + n
    <2>1. k - j \in Nat /\ k = j + (k - j)
        OBVIOUS
    <2> QED
        BY <2>1
<1>2. days * (j + n) = days * j + days * n /\ days * n \in Nat /\ days * j \in Nat
    BY SMTT(30)
<1> QED
    BY <1>1, <1>2

\* A time is so many days and its time of day.
LEMMA DayAndTime ==
    ASSUME NEW t \in Nat
    PROVE  \E k \in Nat, r \in 0..(DayTicks - 1) :
              /\ t = DayTicks * k + r /\ t % DayTicks = r
              /\ DayTicks * k \in Nat /\ DayTicks * (k + 1) = DayTicks * k + DayTicks
<1> DEFINE k == t \div DayTicks
           r == t % DayTicks
           whole == DayTicks * k
<1>1. k \in Nat /\ r \in 0..(DayTicks - 1) /\ DayTicks \in Nat \ {0}
    BY ClockAssumption
<1>2. t - r = whole
    BY <1>1, WholeDays
<1>3. whole \in Nat /\ DayTicks * (k + 1) = whole + DayTicks
    <2> HIDE DEF k
    <2> QED
        BY <1>1, SMTT(30)
<1>4. t = whole + r
    <2> HIDE DEF whole, r
    <2> QED
        BY <1>1, <1>2, <1>3
<1> HIDE DEF k
<1> QED
    BY <1>1, <1>3, <1>4

\* Quiet hours put a contact off for as short a time as they can: to the first tick after
\* them, at most a day ahead, and past no tick at which it could have been made
\* (policy/engine.py, _next_allowed).
THEOREM PutOffNoLonger ==
    \A t \in Ticks : InQuietHours(t) =>
       /\ ~InQuietHours(NextAllowed(t))
       /\ NextAllowed(t) - t \in 1..DayTicks
       /\ \A u \in Ticks : u >= t /\ ~InQuietHours(u) => u >= NextAllowed(t)
<1> SUFFICES ASSUME NEW t \in Nat, InQuietHours(t)
             PROVE  /\ ~InQuietHours(NextAllowed(t))
                    /\ NextAllowed(t) - t \in 1..DayTicks
                    /\ \A u \in Nat : u >= t /\ ~InQuietHours(u) => u >= NextAllowed(t)
    BY DEF Ticks
<1>1. PICK k \in Nat, r \in 0..(DayTicks - 1) :
         /\ t = DayTicks * k + r /\ t % DayTicks = r
         /\ DayTicks * k \in Nat /\ DayTicks * (k + 1) = DayTicks * k + DayTicks
    BY DayAndTime
<1> DEFINE today == DayTicks * k
<1>2. /\ DayTicks \in Nat \ {0} /\ QuietEnd \in 0..(DayTicks - 1)
      /\ QuietStart \in (QuietEnd + 1)..DayTicks
    BY ClockAssumption
<1>3. t = today + r /\ today \in Nat /\ (r >= QuietStart \/ r < QuietEnd)
    BY <1>1 DEF InQuietHours
<1>4. NextAllowed(t) = IF today + QuietEnd <= t THEN today + QuietEnd + DayTicks
                       ELSE today + QuietEnd
    <2>1. t - (t % DayTicks) = today
        <3>1. t - (t % DayTicks) = t - r
            BY <1>1
        <3> HIDE DEF today
        <3> QED
            BY <1>3, <3>1
    <2> HIDE DEF today
    <2> QED
        BY <2>1 DEF NextAllowed
<1>5. NextAllowed(t) - t \in 1..DayTicks
    <2> HIDE DEF today
    <2> QED
        BY <1>2, <1>3, <1>4
<1>6. ASSUME NEW u \in Nat, u >= t, ~InQuietHours(u) PROVE u >= NextAllowed(t)
    <2>1. PICK j \in Nat, s \in 0..(DayTicks - 1) :
             /\ u = DayTicks * j + s /\ u % DayTicks = s
             /\ DayTicks * j \in Nat /\ DayTicks * (j + 1) = DayTicks * j + DayTicks
        BY DayAndTime
    <2> DEFINE then == DayTicks * j
    <2>2. u = then + s /\ then \in Nat /\ s < QuietStart /\ s >= QuietEnd
        BY <1>2, <1>6, <2>1 DEF InQuietHours
    <2>3. CASE j < k
        <3>1. then + DayTicks <= today
            <4>1. j + 1 \in Nat /\ j + 1 <= k
                BY <2>3
            <4>2. DayTicks * (j + 1) <= DayTicks * k
                <5> DEFINE next == j + 1
                <5> HIDE DEF next
                <5> QED
                    BY <1>2, <4>1, DaysInOrder DEF next
            <4> QED
                BY <2>1, <4>2
        <3> HIDE DEF then, today
        <3> QED
            BY <1>2, <1>3, <1>6, <2>2, <3>1
    <2>4. CASE j = k
        <3>1. then = today
            BY <2>4
        <3> HIDE DEF then, today
        <3> QED
            BY <1>2, <1>3, <1>4, <1>6, <2>2, <3>1
    <2>5. CASE j > k
        <3>1. today + DayTicks <= then
            <4>1. k + 1 \in Nat /\ k + 1 <= j
                BY <2>5
            <4>2. DayTicks * (k + 1) <= DayTicks * j
                <5> DEFINE next == k + 1
                <5> HIDE DEF next
                <5> QED
                    BY <1>2, <4>1, DaysInOrder DEF next
            <4> QED
                BY <1>1, <4>2
        <3> HIDE DEF then, today
        <3> QED
            BY <1>2, <1>3, <1>4, <2>2, <3>1
    <2> QED
        BY <2>3, <2>4, <2>5
<1> QED
    BY <1>5, <1>6, NextAllowedNotQuiet

-----------------------------------------------------------------------------
(* The steps that contact a customer. *)

\* What the agent remembers of a customer it has not dropped is what it sent.
Remembered == \A c \in Customers \ evicted : customer_contacts[c] = sent[c]

\* Inductive: the rules read the log the agent remembers, the promises are about the
\* contacts that were made.
ContactInv ==
    /\ TypeOK
    /\ Remembered
    /\ ContactSpacing
    /\ ContactCap

\* A contact is recorded by Act alone, and only when every rule let it through.
LEMMA OnlyActContacts ==
    ASSUME [Next]_vars
    PROVE  \/ UNCHANGED contacts_memory
           \/ \E g \in Governed :
                 /\ IsCustomerContact(g.d)
                 /\ Allowed(g.d, g.s, ep.now)
                 /\ RecordContact(ep.customer, ShiftedAt(g.d, ep.now))
<1>1. CASE Close \/ Exhaust \/ (\E got \in BOOLEAN : HoldoutObserve(got))
    BY <1>1 DEF Close, Exhaust, HoldoutObserve, memory
<1>2. ASSUME NEW g \in Governed, NEW got \in BOOLEAN,
             \/ Refuse(g, got)
             \/ Block(g, got)
             \/ NoTemplate(g, got)
             \/ \E quit \in BOOLEAN : Act(g, got, quit)
      PROVE  \/ UNCHANGED contacts_memory
             \/ /\ IsCustomerContact(g.d)
                /\ Allowed(g.d, g.s, ep.now)
                /\ RecordContact(ep.customer, ShiftedAt(g.d, ep.now))
    <2>1. CASE Refuse(g, got) \/ Block(g, got) \/ NoTemplate(g, got)
        BY <2>1 DEF Refuse, Block, NoTemplate, Withhold, memory
    <2>2. CASE \E quit \in BOOLEAN : Act(g, got, quit)
        BY <2>2 DEF Act
    <2> QED
        BY <1>2, <2>1, <2>2
<1>3. CASE Arrive
    BY <1>3 DEF Arrive, StartEpisode, memory
<1>4. CASE UNCHANGED vars
    BY <1>4 DEF vars, memory
<1> QED
    BY <1>1, <1>2, <1>3, <1>4 DEF Next, Step, BatchOver

\* What the two contact rules, judged on the remembered log at the time of the decision,
\* say about the log of contacts made and the time the contact lands.
LEMMA AllowedMayFollow ==
    ASSUME ContactInv, ep.customer \notin evicted, NEW g \in Governed,
           IsCustomerContact(g.d), Allowed(g.d, g.s, ep.now)
    PROVE  MayFollow(sent[ep.customer], ShiftedAt(g.d, ep.now))
<1> DEFINE c   == ep.customer
           log == sent[c]
           t   == ShiftedAt(g.d, ep.now)
<1>1. /\ TypeOK /\ c \in Customers /\ ep.now \in Nat /\ log \in Seq(Nat)
      /\ log = customer_contacts[c] /\ t \in Nat /\ t >= ep.now
    BY EpisodeTypes, ActTypes DEF ContactInv, Remembered, TypeOK, Ticks
<1>2. Spaced(log)
    BY <1>1 DEF ContactInv, ContactSpacing, Spaced
<1>3. g.d.action \in CONTACT_ACTIONS
    BY DEF IsCustomerContact, CONTACT_ACTIONS
<1>4. g.s.contacts_7d = Seen /\ g.s.last_contact_at = LastContactAt(c)
    BY <1>1, GovernedTypes
<1>5. ~MinGapViolated(g.d, g.s, ep.now) /\ ~ContactsSpent(g.d, g.s)
    BY DEF Allowed, RulesBlocked, RuleIds
<1>6. \A i \in DOMAIN log : t - log[i] >= MinTicksBetween
    <2> SUFFICES ASSUME NEW i \in DOMAIN log PROVE t - log[i] >= MinTicksBetween
        OBVIOUS
    <2>1. log # <<>> /\ log[i] \in Nat
        BY <1>1
    <2>2. LastContactAt(c) \in Nat /\ log[i] <= LastContactAt(c)
        BY <1>1, <1>2, <2>1, LastIsLatest
    <2>3. ep.now - LastContactAt(c) >= MinTicksBetween
        BY <1>1, <1>3, <1>4, <1>5, <2>2, ConstantTypes DEF MinGapViolated, NoTime
    <2> HIDE DEF t, log, c
    <2> QED
        BY <1>1, <2>1, <2>2, <2>3, ConstantTypes
<1>7. ASSUME Len(log) >= MaxContactsPer7d
      PROVE  t - log[Len(log) - MaxContactsPer7d + 1] >= WeekTicks
    <2> DEFINE k == Len(log) - MaxContactsPer7d + 1
    <2>1. Cardinality(RecentContacts(c, ep.now)) < MaxContactsPer7d
        <3>1. Seen < MaxContactsPer7d /\ Seen \in Nat
            BY <1>1, <1>3, <1>4, <1>5, SeenType, ConstantTypes DEF ContactsSpent
        <3>2. IsFiniteSet(RecentContacts(c, ep.now))
            <4>1. RecentContacts(c, ep.now) \subseteq 1..Len(log)
                BY <1>1 DEF RecentContacts
            <4>2. IsFiniteSet(1..Len(log))
                BY <1>1, FS_Interval
            <4> QED
                BY <4>1, <4>2, FS_Subset
        <3>3. Cardinality(RecentContacts(c, ep.now)) \in Nat
            BY <3>2, FS_CardinalityType
        <3>4. ep.profile.contacts_7d \in Nat
            BY <1>1, EpisodeTypes DEF Profiles
        <3> QED
            BY <3>1, <3>3, <3>4, ConstantTypes DEF Seen, ContactsInLast7d
    <2>2. ep.now - log[k] >= WeekTicks
        BY <1>1, <1>2, <1>7, <2>1, FewRecent
    <2>3. log[k] \in Nat
        BY <1>1, <1>7, ConstantTypes
    <2> HIDE DEF t, log, c, k
    <2>4. t - log[k] >= WeekTicks
        BY <1>1, <2>2, <2>3, ConstantTypes
    <2> QED
        BY <2>4 DEF k
<1> QED
    BY <1>6, <1>7 DEF MayFollow

\* What recording a contact does to the logs of the customers that stay remembered.
LEMMA RecordContactEffect ==
    ASSUME TypeOK, NEW c \in Customers, NEW t, RecordContact(c, t)
    PROVE  /\ evicted \subseteq evicted'
           /\ sent' = [sent EXCEPT ![c] = Append(@, t)]
           /\ \A x \in Customers \ evicted' :
                 customer_contacts'[x] = IF x = c THEN Append(customer_contacts[c], t)
                                         ELSE customer_contacts[x]
<1> DEFINE known == \E i \in DOMAIN tracked : tracked[i] = c
           full  == Len(tracked) >= MAX_CUSTOMERS_TRACKED
           gone  == IF ~known /\ full THEN {Head(tracked)} ELSE {}
<1>1. /\ customer_contacts' =
            [x \in Customers |-> IF x = c THEN Append(customer_contacts[c], t)
                                ELSE IF x \in gone THEN <<>> ELSE customer_contacts[x]]
      /\ sent' = [sent EXCEPT ![c] = Append(@, t)]
      /\ evicted' = evicted \cup gone
    BY DEF RecordContact
<1> HIDE DEF gone
<1> QED
    BY <1>1

LEMMA ContactInvStep ==
    ASSUME ContactInv, [Next]_vars
    PROVE  ContactInv'
<1>1. TypeOK /\ TypeOK' /\ ep.customer \in Customers
    BY NextType, EpisodeTypes DEF ContactInv
<1>2. CASE UNCHANGED contacts_memory
    <2>1. UNCHANGED <<customer_contacts, sent, evicted>>
        BY <1>2 DEF contacts_memory
    <2> QED
        BY <1>1, <2>1 DEF ContactInv, Remembered, ContactSpacing, ContactCap
<1>3. ASSUME NEW g \in Governed, IsCustomerContact(g.d), Allowed(g.d, g.s, ep.now),
             RecordContact(ep.customer, ShiftedAt(g.d, ep.now))
      PROVE  ContactInv'
    <2> DEFINE c == ep.customer
               t == ShiftedAt(g.d, ep.now)
    <2>1. /\ evicted \subseteq evicted'
          /\ sent' = [sent EXCEPT ![c] = Append(@, t)]
          /\ \A x \in Customers \ evicted' :
                customer_contacts'[x] = IF x = c THEN Append(customer_contacts[c], t)
                                        ELSE customer_contacts[x]
        BY <1>1, <1>3, RecordContactEffect
    <2>2. /\ sent \in [Customers -> Seq(Nat)] /\ t \in Nat
          /\ \A x \in Customers : sent'[x] = IF x = c THEN Append(sent[c], t) ELSE sent[x]
        BY <1>1, <1>3, <2>1, ActTypes DEF TypeOK, Ticks
    <2>3. Remembered'
        BY <1>1, <2>1, <2>2 DEF ContactInv, Remembered
    <2>4. ASSUME NEW x \in Customers \ evicted'
          PROVE  Spaced(sent'[x]) /\ Capped(sent'[x])
        <3>1. x \in Customers \ evicted
            BY <2>1
        <3>2. Spaced(sent[x]) /\ Capped(sent[x])
            BY <3>1 DEF ContactInv, ContactSpacing, ContactCap, Spaced, Capped
        <3>3. CASE x = c
            <4>1. MayFollow(sent[c], t)
                BY <1>3, <3>1, <3>3, AllowedMayFollow
            <4>2. sent[c] \in Seq(Nat)
                BY <1>1, <2>2
            <4>3. Spaced(Append(sent[c], t)) /\ Capped(Append(sent[c], t))
                BY <2>2, <3>2, <3>3, <4>1, <4>2, AppendKeeps
            <4> QED
                BY <2>2, <3>3, <4>3
        <3>4. CASE x # c
            BY <2>2, <3>1, <3>2, <3>4
        <3> QED
            BY <3>3, <3>4
    <2>5. ContactSpacing' /\ ContactCap'
        BY <2>4 DEF ContactSpacing, ContactCap, Spaced, Capped
    <2> QED
        BY <1>1, <2>3, <2>5 DEF ContactInv
<1> QED
    BY <1>2, <1>3, OnlyActContacts

LEMMA ContactInvInit == Init => ContactInv
<1> SUFFICES ASSUME Init PROVE ContactInv
    OBVIOUS
<1>1. /\ customer_contacts = [c \in Customers |-> <<>>]
      /\ sent = [c \in Customers |-> <<>>]
    BY DEF Init
<1>2. \A c \in Customers : sent[c] = <<>> /\ customer_contacts[c] = <<>>
    BY <1>1
<1>3. ContactSpacing /\ ContactCap /\ Remembered
    BY <1>2 DEF ContactSpacing, ContactCap, Remembered
<1> QED
    BY <1>3, InitType DEF ContactInv

\* The invariant holds in every run of the loop.
LEMMA ContactInvariant == Spec => []ContactInv
<1>1. Init => ContactInv
    BY ContactInvInit
<1>2. ContactInv /\ [Next]_vars => ContactInv'
    BY ContactInvStep
<1> QED
    BY <1>1, <1>2, PTL DEF Spec

-----------------------------------------------------------------------------
(* The promises. *)

\* contact.min_hours_between holds across episodes: no customer whose log the agent still
\* remembers is contacted twice within it, although the clocks of the episodes overlap and
\* a contact may land a day after it was decided (engine.py min_hours_between, agent.py
\* _last_contact_at and _record_contact).
THEOREM SpacingHolds == Spec => []ContactSpacing
<1>1. ContactInv => ContactSpacing
    BY DEF ContactInv
<1> QED
    BY <1>1, ContactInvariant, PTL

\* contact.max_per_customer_per_7d holds across episodes, counted at the times contacts
\* land (engine.py max_per_customer_per_7d, agent.py _contacts_in_last_7d).
THEOREM CapHolds == Spec => []ContactCap
<1>1. ContactInv => ContactCap
    BY DEF ContactInv
<1> QED
    BY <1>1, ContactInvariant, PTL

LEMMA QuietRespected ==
    ASSUME TypeOK, NEW g \in Governed, IsCustomerContact(g.d)
    PROVE  ~InQuietHours(ShiftedAt(g.d, ep.now))
<1>1. g.d.action \in CONTACT_ACTIONS
    BY DEF IsCustomerContact, CONTACT_ACTIONS
<1>2. ScheduledAt(g.d, ep.now) \in Nat
    <2>1. g.d \in Decisions /\ ep.now \in Nat
        BY ActTypes, EpisodeTypes
    <2> QED
        BY <2>1 DEF ScheduledAt, Decisions, MaybeTicks, NoTime
<1> QED
    BY <1>1, <1>2, NextAllowedNotQuiet DEF ShiftedAt

LEMMA ContactStepInHours ==
    ASSUME TypeOK, ContactsInHours, [Next]_vars
    PROVE  ContactsInHours'
<1>1. ep.customer \in Customers /\ ep.now \in Nat /\ sent \in [Customers -> Seq(Nat)]
    BY EpisodeTypes DEF TypeOK, Ticks
<1>2. CASE UNCHANGED contacts_memory
    BY <1>2 DEF contacts_memory, ContactsInHours
<1>3. ASSUME NEW g \in Governed, IsCustomerContact(g.d),
             RecordContact(ep.customer, ShiftedAt(g.d, ep.now))
      PROVE  ContactsInHours'
    <2> DEFINE c == ep.customer
               t == ShiftedAt(g.d, ep.now)
    <2>1. ~InQuietHours(t) /\ t \in Nat
        BY <1>3, QuietRespected, ActTypes
    <2>2. \A x \in Customers : sent'[x] = IF x = c THEN Append(sent[c], t) ELSE sent[x]
        <3>1. sent' = [sent EXCEPT ![c] = Append(@, t)]
            BY <1>1, <1>3, RecordContactEffect
        <3> QED
            BY <1>1, <3>1
    <2> HIDE DEF t, c
    <2> SUFFICES ASSUME NEW x \in Customers, NEW i \in DOMAIN sent'[x]
                 PROVE  ~InQuietHours(sent'[x][i])
        BY DEF ContactsInHours
    <2>3. CASE x = c
        <3>1. sent[x] \in Seq(Nat) /\ sent'[x] = Append(sent[x], t)
            BY <1>1, <2>2, <2>3
        <3>2. sent'[x][i] = t \/ (i \in DOMAIN sent[x] /\ sent'[x][i] = sent[x][i])
            BY <2>1, <3>1
        <3> QED
            BY <2>1, <3>2 DEF ContactsInHours
    <2>4. CASE x # c
        <3>1. sent'[x] = sent[x]
            BY <2>2, <2>4
        <3> QED
            BY <3>1 DEF ContactsInHours
    <2> QED
        BY <2>3, <2>4
<1> QED
    BY <1>2, <1>3, OnlyActContacts

\* contact.quiet_hours: whatever is scheduled, every contact lands inside the contact
\* window (engine.py quiet_hours and _next_allowed), for evicted customers too.
THEOREM InHoursHolds == Spec => []ContactsInHours
<1>1. Init => ContactsInHours
    BY DEF Init, ContactsInHours
<1>2. TypeOK /\ ContactsInHours /\ [Next]_vars => ContactsInHours'
    BY ContactStepInHours
<1> QED
    BY <1>1, <1>2, TypeCorrect, PTL DEF Spec

-----------------------------------------------------------------------------
(* The refinement. *)

LEMMA ContractStep ==
    ASSUME ContactInv, evicted = {}, evicted' = {}, [Next]_vars
    PROVE  [Contract!Next]_sent
<1>1. ep.customer \in Customers /\ ep.now \in Nat /\ sent \in [Customers -> Seq(Nat)]
    BY EpisodeTypes DEF ContactInv, TypeOK, Ticks
<1>2. CASE UNCHANGED contacts_memory
    BY <1>2 DEF contacts_memory
<1>3. ASSUME NEW g \in Governed, IsCustomerContact(g.d), Allowed(g.d, g.s, ep.now),
             RecordContact(ep.customer, ShiftedAt(g.d, ep.now))
      PROVE  Contract!Next
    <2> DEFINE c   == ep.customer
               t   == ShiftedAt(g.d, ep.now)
               log == sent[c]
    <2>1. /\ sent' = [sent EXCEPT ![c] = Append(@, t)]
          /\ sent'[c] = Append(log, t) /\ log \in Seq(Nat) /\ t \in Nat
        BY <1>1, <1>3, RecordContactEffect, ActTypes DEF ContactInv
    <2>2. MayFollow(log, t)
        BY <1>3, AllowedMayFollow
    <2>3. ~InQuietHours(t)
        BY <1>1, <1>3, QuietRespected DEF ContactInv
    <2>4. /\ Len(sent'[c]) = Len(log) + 1
          /\ sent'[c][Len(log) + 1] = t
          /\ DOMAIN log = 1..Len(log)
        BY <2>1
    <2>5. Contract!Permitted(log, t)
        BY <2>2, <2>3, <2>4 DEF Contract!Permitted, MayFollow
    <2>6. Contract!Contact(c)
        BY <2>1, <2>4, <2>5 DEF Contract!Contact
    <2> QED
        BY <1>1, <2>6 DEF Contract!Next
<1> QED
    BY <1>2, <1>3, OnlyActContacts

\* The agent loop implements the customer's contract (ContactContract: gap, cap and quiet
\* hours, with no episode in sight) in every run in which the agent never drops a customer
\* from memory (agent.py, _record_contact and MAX_CUSTOMERS_TRACKED).
THEOREM ContractRefined == Spec /\ [](evicted = {}) => ContractSpec
<1>1. Init => Contract!Init
    BY DEF Init, Contract!Init
<1>2. ContactInv /\ evicted = {} /\ (evicted = {})' /\ [Next]_vars => [Contract!Next]_sent
    BY ContractStep
<1> QED
    BY <1>1, <1>2, ContactInvariant, PTL DEF Spec, ContractSpec, Contract!Spec

-----------------------------------------------------------------------------
(* Nobody is forgotten while there is room for everybody. *)

RoomForAll == Cardinality(Customers) <= MAX_CUSTOMERS_TRACKED

\* The keys of the map of contacts are customers, each once.
TrackedOnce == \A i, j \in DOMAIN tracked : i # j => tracked[i] # tracked[j]

NoneForgotten == TypeOK /\ TrackedOnce /\ evicted = {}

\* While a customer is not tracked yet, the map is not full: otherwise the customers that
\* are tracked and this one are more than there are.
LEMMA RoomLeft ==
    ASSUME TypeOK, TrackedOnce, RoomForAll, NEW c \in Customers,
           ~ \E i \in DOMAIN tracked : tracked[i] = c
    PROVE  ~(Len(tracked) >= MAX_CUSTOMERS_TRACKED)
<1> SUFFICES ASSUME Len(tracked) >= MAX_CUSTOMERS_TRACKED PROVE FALSE
    OBVIOUS
<1> DEFINE n == Len(tracked)
           f == [i \in 1..(n + 1) |-> IF i = n + 1 THEN c ELSE tracked[i]]
<1>1. tracked \in Seq(Customers) /\ n \in Nat /\ DOMAIN tracked = 1..n
    BY DEF TypeOK
<1>2. /\ IsFiniteSet(Customers) /\ Cardinality(Customers) \in Nat
      /\ MAX_CUSTOMERS_TRACKED \in Nat
    BY WorldAssumption, LoopAssumption, FS_CardinalityType
<1>3. IsFiniteSet(1..(n + 1)) /\ Cardinality(1..(n + 1)) = n + 1
    BY <1>1, FS_Interval
<1>4. Cardinality(Customers) < Cardinality(1..(n + 1))
    BY <1>1, <1>2, <1>3 DEF RoomForAll
<1>5. f \in [1..(n + 1) -> Customers]
    BY <1>1
<1>6. PICK i, j \in 1..(n + 1) : i # j /\ f[i] = f[j]
    <2> HIDE DEF f
    <2> QED
        BY <1>2, <1>3, <1>4, <1>5, FS_PigeonHole
<1>7. CASE i = n + 1
    BY <1>1, <1>6, <1>7
<1>8. CASE j = n + 1
    BY <1>1, <1>6, <1>8
<1>9. CASE i # n + 1 /\ j # n + 1
    BY <1>1, <1>6, <1>9 DEF TrackedOnce
<1> QED
    BY <1>7, <1>8, <1>9

LEMMA NoneForgottenStep ==
    ASSUME RoomForAll, NoneForgotten, [Next]_vars
    PROVE  NoneForgotten'
<1>1. TypeOK' /\ TypeOK /\ ep.customer \in Customers /\ tracked \in Seq(Customers)
    BY NextType, EpisodeTypes DEF NoneForgotten, TypeOK
<1>2. CASE UNCHANGED contacts_memory
    BY <1>1, <1>2 DEF contacts_memory, NoneForgotten, TrackedOnce
<1>3. ASSUME NEW t, RecordContact(ep.customer, t)
      PROVE  NoneForgotten'
    <2> DEFINE c     == ep.customer
               known == \E i \in DOMAIN tracked : tracked[i] = c
    <2>1. known \/ ~(Len(tracked) >= MAX_CUSTOMERS_TRACKED)
        BY <1>1, RoomLeft DEF NoneForgotten
    <2>2. evicted' = evicted
        BY <1>3, <2>1 DEF RecordContact
    <2>3. tracked' = IF known THEN tracked ELSE Append(tracked, c)
        BY <1>3, <2>1 DEF RecordContact
    <2>4. TrackedOnce'
        <3>1. CASE known
            BY <2>3, <3>1 DEF NoneForgotten, TrackedOnce
        <3>2. CASE ~known
            <4>1. tracked' = Append(tracked, c)
                BY <2>3, <3>2
            <4>2. /\ DOMAIN tracked' = 1..(Len(tracked) + 1) /\ DOMAIN tracked = 1..Len(tracked)
                  /\ \A i \in DOMAIN tracked : tracked'[i] = tracked[i]
                  /\ tracked'[Len(tracked) + 1] = c /\ Len(tracked) \in Nat
                BY <1>1, <4>1
            <4> QED
                BY <3>2, <4>2 DEF NoneForgotten, TrackedOnce
        <3> QED
            BY <3>1, <3>2
    <2> QED
        BY <1>1, <2>2, <2>4 DEF NoneForgotten
<1> QED
    BY <1>2, <1>3, OnlyActContacts

\* While the map has room for every customer, as its 100,000 entries are meant to have,
\* nobody is ever dropped from it and the loop implements the contract without a proviso
\* (agent.py, _record_contact and MAX_CUSTOMERS_TRACKED).
THEOREM ContractKept == RoomForAll => (Spec => ContractSpec)
<1> SUFFICES ASSUME RoomForAll PROVE Spec => ContractSpec
    OBVIOUS
<1>1. Init => NoneForgotten
    <2> SUFFICES ASSUME Init PROVE NoneForgotten
        OBVIOUS
    <2>1. tracked = <<>> /\ evicted = {}
        BY DEF Init
    <2>2. TrackedOnce
        BY <2>1 DEF TrackedOnce
    <2> QED
        BY <2>1, <2>2, InitType DEF NoneForgotten
<1>2. NoneForgotten /\ [Next]_vars => NoneForgotten'
    BY NoneForgottenStep
<1>3. NoneForgotten => evicted = {}
    BY DEF NoneForgotten
<1>4. Spec => [](evicted = {})
    BY <1>1, <1>2, <1>3, PTL DEF Spec
<1> QED
    BY <1>4, ContractRefined

-----------------------------------------------------------------------------
(***************************************************************************)
(* The limits of a merchant's day, for any number of episodes, merchants   *)
(* and days, and any sequence of evictions.                                *)
(*                                                                         *)
(* The rules read the counters the agent remembers; the promises are about *)
(* what was executed.  DaysRemembered ties the two together.               *)
(***************************************************************************)

\* The counters of a day that was never dropped are what was really executed on it.
DaysRemembered ==
    /\ DOMAIN merchant_days \subseteq DOMAIN totals
    /\ \A key \in DOMAIN totals \ lapsed :
          /\ key \in DOMAIN merchant_days
          /\ merchant_days[key] = totals[key]

Ceiling == DailySpendCap + EscalateCost + AttentionCost[MaxContactsPer7d - 1]

\* A day within its contract, the excess of one mandated escalation allowed.
Within(counters) ==
    /\ counters.actions <= DailyActionBudget
    /\ counters.escalations <= MaxEscalationsPerDay
    /\ counters.spend <= Ceiling

DaysWithin == \A key \in DOMAIN totals \ lapsed : Within(totals[key])

DayInv == TypeOK /\ DaysRemembered /\ DaysWithin

LEMMA CeilingType ==
    /\ {DailyActionBudget, MaxEscalationsPerDay, DailySpendCap, EscalateCost} \subseteq Nat
    /\ MaxContactsPer7d \in Nat \ {0}
    /\ MaxContactsPer7d - 1 \in 0..MaxContactsPer7d
    /\ AttentionCost[MaxContactsPer7d - 1] \in Nat
    /\ Ceiling \in Nat
<1>1. /\ {DailyActionBudget, MaxEscalationsPerDay, DailySpendCap, EscalateCost} \subseteq Nat
      /\ MaxContactsPer7d \in Nat \ {0}
    BY LimitAssumption, LoopAssumption
<1>2. MaxContactsPer7d - 1 \in 0..MaxContactsPer7d
    BY <1>1
<1>3. AttentionCost[MaxContactsPer7d - 1] \in Nat
    BY <1>2, AttentionAssumption
<1> QED
    BY <1>1, <1>2, <1>3 DEF Ceiling

-----------------------------------------------------------------------------
(* What the rules of the day say about the charge. *)

\* Of a governed decision: it was the first choice, or the first choice was above the
\* ceiling and this is what the mandate put in its place; either way it was judged on the
\* counters of today and on the cost of the first choice.
LEMMA JudgedOnFirst ==
    ASSUME TypeOK, NEW g \in Governed
    PROVE  \E cost \in Nat :
              /\ g.s.actions_today     = At(merchant_days, Today(ep)).actions
              /\ g.s.spend_today       = At(merchant_days, Today(ep)).spend
              /\ g.s.escalations_today = At(merchant_days, Today(ep)).escalations
              /\ g.s.contacts_7d = Seen
              /\ g.s.action_cost = cost
              /\ cost = CostOf(g.d, Seen) \/ g.d.amount > ToHumanAbove
<1>1. ep.profile \in Profiles /\ ep.now \in Nat
    BY EpisodeTypes
<1>2. PICK first \in Decide({}) :
         g \in {[d |-> d, s |-> StateFor(first)] :
                  d \in IF RequiresHuman(first) THEN Decide({"ESCALATE_HUMAN"}) ELSE {first}}
    BY DEF Governed
<1>3. PICK d \in IF RequiresHuman(first) THEN Decide({"ESCALATE_HUMAN"}) ELSE {first} :
         g = [d |-> d, s |-> StateFor(first)]
    BY <1>2
<1>4. g.d = d /\ g.s = StateFor(first)
    BY <1>3
<1>5. CandidateOf(ep.profile, ep.now, first)
    <2>1. PICK class \in ep.profile.classes :
             first \in CandidateActions(ep.profile, class, ep.now)
        BY DEF Decide
    <2>2. class \in FailureClasses
        BY <1>1 DEF Profiles
    <2> QED
        BY <1>1, <2>1, <2>2, CandidateTypes
<1>6. CostOf(first, Seen) \in Nat
    BY <1>1, <1>5, SeenType, CostType
<1>7. CostOf(first, Seen) = CostOf(g.d, Seen) \/ g.d.amount > ToHumanAbove
    <2>1. CASE RequiresHuman(first)
        <3>1. g.d.amount = first.amount
            BY <1>5, GovernedTypes DEF CandidateOf
        <3> QED
            BY <2>1, <3>1 DEF RequiresHuman, AboveAutomationCeiling
    <2>2. CASE ~RequiresHuman(first)
        <3>1. d = first
            BY <2>2
        <3> QED
            BY <1>4, <3>1
    <2> QED
        BY <2>1, <2>2
<1>8. /\ g.s.actions_today     = At(merchant_days, Today(ep)).actions
      /\ g.s.spend_today       = At(merchant_days, Today(ep)).spend
      /\ g.s.escalations_today = At(merchant_days, Today(ep)).escalations
      /\ g.s.contacts_7d = Seen
      /\ g.s.action_cost = CostOf(first, Seen)
    BY <1>4 DEF StateFor
<1> QED
    BY <1>6, <1>7, <1>8

\* What a decision that is carried out adds to the counters.
ChargeOf(d) ==
    [actions |-> 1, spend |-> CostOf(d, Seen),
     escalations |-> IF d.action = "ESCALATE_HUMAN" THEN 1 ELSE 0]

\* The rules that bound the charge of a day.
LEMMA RulesOfTheDay ==
    ASSUME NEW d, NEW s, NEW now, Allowed(d, s, now)
    PROVE  /\ ~ActionBudgetSpent(d, s) /\ ~SpendCapExceeded(d, s)
           /\ ~EscalationCapacitySpent(d, s) /\ ~ContactsSpent(d, s)
           /\ ~AboveAutomationCeiling(d)
<1>1. \A r \in RuleIds : r \notin RulesBlocked(d, s, now)
    BY DEF Allowed
<1>2. {"daily_action_budget", "daily_spend_cap_paise", "max_per_day",
       "max_per_customer_per_7d", "to_human_above_paise"} \subseteq RuleIds
    BY DEF RuleIds
<1> QED
    BY <1>1, <1>2 DEF RulesBlocked

\* A charge that is let through leaves the day within its contract.  An escalation that
\* was judged on the cost of the action it replaces takes the day past its spend cap by
\* what that escalation costs at most: the day was within the cap before, and with room
\* for one more contact the customer's attention has its last price but one.
LEMMA AllowedStaysWithin ==
    ASSUME TypeOK, NEW g \in Governed, g.d.action # "NO_ACTION", Allowed(g.d, g.s, ep.now),
           NEW counters \in Counters, counters = At(merchant_days, Today(ep)),
           Within(counters)
    PROVE  Within(Charged(counters, ChargeOf(g.d)))
<1>1. PICK cost \in Nat :
         /\ g.s.actions_today = counters.actions
         /\ g.s.spend_today = counters.spend
         /\ g.s.escalations_today = counters.escalations
         /\ g.s.contacts_7d = Seen
         /\ g.s.action_cost = cost
         /\ cost = CostOf(g.d, Seen) \/ g.d.amount > ToHumanAbove
    BY JudgedOnFirst
<1>2. /\ counters.actions \in Nat /\ counters.spend \in Nat /\ counters.escalations \in Nat
      /\ CostOf(g.d, Seen) \in Nat /\ Seen \in Nat
    BY ActTypes, SeenType DEF Counters
<1>3. /\ ~ActionBudgetSpent(g.d, g.s) /\ ~SpendCapExceeded(g.d, g.s)
      /\ ~EscalationCapacitySpent(g.d, g.s) /\ ~ContactsSpent(g.d, g.s)
      /\ ~AboveAutomationCeiling(g.d)
    BY RulesOfTheDay
<1>4. counters.actions + 1 <= DailyActionBudget
    BY <1>1, <1>2, <1>3, CeilingType DEF ActionBudgetSpent
<1>5. counters.escalations + (IF g.d.action = "ESCALATE_HUMAN" THEN 1 ELSE 0)
         <= MaxEscalationsPerDay
    BY <1>1, <1>2, <1>3, CeilingType DEF EscalationCapacitySpent, Within
<1>6. counters.spend + CostOf(g.d, Seen) <= Ceiling
    <2>1. counters.spend + cost <= DailySpendCap
        BY <1>1, <1>2, <1>3, CeilingType DEF SpendCapExceeded
    <2>2. CASE cost = CostOf(g.d, Seen)
        BY <1>2, <2>1, <2>2, CeilingType DEF Ceiling
    <2>3. CASE g.d.amount > ToHumanAbove
        <3>1. g.d.action = "ESCALATE_HUMAN"
            BY <1>3, <2>3 DEF AboveAutomationCeiling
        <3>2. Seen < MaxContactsPer7d
            BY <1>1, <1>2, <1>3, <3>1, CeilingType DEF ContactsSpent, CONTACT_ACTIONS
        <3>3. AttentionAfter(Seen) = AttentionCost[Seen] /\ AttentionCost[Seen] \in Nat
              /\ AttentionCost[Seen] <= AttentionCost[MaxContactsPer7d - 1]
            <4>1. Seen \in 0..MaxContactsPer7d /\ Seen <= MaxContactsPer7d - 1
                BY <1>2, <3>2, CeilingType
            <4> QED
                BY <3>2, <4>1, CeilingType, AttentionAssumption DEF AttentionAfter
        <3>4. CostOf(g.d, Seen) <= EscalateCost + AttentionCost[MaxContactsPer7d - 1]
            BY <3>1, <3>3, CeilingType DEF CostOf, RETRY_ACTIONS
        <3>5. counters.spend <= DailySpendCap
            BY <1>1, <1>2, <2>1, CeilingType
        <3> QED
            BY <1>2, <3>4, <3>5, CeilingType DEF Ceiling
    <2> QED
        BY <1>1, <2>2, <2>3
<1> QED
    BY <1>4, <1>5, <1>6 DEF Within, Charged, ChargeOf

-----------------------------------------------------------------------------
(* The charge. *)

\* A charge of today's counters that keeps them within the contract keeps every day
\* within it, whichever day is dropped to make room.
LEMMA ChargeKeeps ==
    ASSUME DayInv, NEW charge \in Counters, ChargeToday(charge),
           Today(ep) \notin lapsed =>
              Within(Charged(At(merchant_days, Today(ep)), charge))
    PROVE  DaysRemembered' /\ DaysWithin'
<1> DEFINE key == Today(ep)
           kept(gone) == [k \in DOMAIN merchant_days \ gone |-> merchant_days[k]]
<1>1. PICK gone \in Evictable(key) :
         /\ merchant_days' = Put(kept(gone), key, Charged(At(merchant_days, key), charge))
         /\ totals' = Put(totals, key, Charged(At(totals, key), charge))
         /\ lapsed' = lapsed \cup gone
    BY DEF ChargeToday
<1>2. gone \subseteq DOMAIN merchant_days /\ key \notin gone
    BY DEF Evictable
<1>3. /\ DOMAIN merchant_days' = (DOMAIN merchant_days \ gone) \cup {key}
      /\ DOMAIN totals' = DOMAIN totals \cup {key}
    BY <1>1 DEF Put
<1>4. /\ merchant_days'[key] = Charged(At(merchant_days, key), charge)
      /\ totals'[key] = Charged(At(totals, key), charge)
    BY <1>1 DEF Put
<1>5. ASSUME NEW k \in DOMAIN totals, k # key, k \notin gone, k \in DOMAIN merchant_days
      PROVE  merchant_days'[k] = merchant_days[k] /\ totals'[k] = totals[k]
    BY <1>1, <1>5 DEF Put
<1>6. DOMAIN merchant_days' \subseteq DOMAIN totals'
    BY <1>3 DEF DayInv, DaysRemembered
<1>7. key \notin lapsed => At(merchant_days, key) = At(totals, key)
    BY DEF DayInv, DaysRemembered, At
<1>8. ASSUME NEW k \in DOMAIN totals' \ lapsed'
      PROVE  /\ k \in DOMAIN merchant_days' /\ merchant_days'[k] = totals'[k]
             /\ Within(totals'[k])
    <2>1. k \notin lapsed /\ k \notin gone
        BY <1>1, <1>8
    <2>2. CASE k = key
        BY <1>3, <1>4, <1>7, <2>1, <2>2
    <2>3. CASE k # key
        <3>1. k \in DOMAIN totals \ lapsed
            BY <1>3, <1>8, <2>1, <2>3
        <3>2. k \in DOMAIN merchant_days /\ merchant_days[k] = totals[k] /\ Within(totals[k])
            BY <3>1 DEF DayInv, DaysRemembered, DaysWithin
        <3> QED
            BY <1>3, <1>5, <2>1, <2>3, <3>1, <3>2
    <2> QED
        BY <2>2, <2>3
<1> QED
    BY <1>6, <1>8 DEF DaysRemembered, DaysWithin

\* Today's counters, while the day was never dropped, are within the contract.
LEMMA TodayWithin ==
    ASSUME DayInv, Today(ep) \notin lapsed
    PROVE  Within(At(merchant_days, Today(ep)))
<1> DEFINE key == Today(ep)
<1>1. CASE key \in DOMAIN merchant_days
    BY <1>1 DEF DayInv, DaysRemembered, DaysWithin, At
<1>2. CASE key \notin DOMAIN merchant_days
    <2>1. At(merchant_days, key) = NoCharge
        BY <1>2 DEF At
    <2> QED
        BY <2>1, CeilingType DEF NoCharge, Within
<1> QED
    BY <1>1, <1>2

-----------------------------------------------------------------------------
(* The steps. *)

\* The counters change only when an episode opens the account of its day, for a pass that
\* does nothing, or when a governed decision is carried out.
LEMMA OnlyPassesCharge ==
    ASSUME [Next]_vars
    PROVE  \/ UNCHANGED budgets
           \/ ChargeToday(NoCharge)
           \/ \E g \in Governed :
                 /\ g.d.action # "NO_ACTION"
                 /\ Allowed(g.d, g.s, ep.now)
                 /\ ChargeToday(ChargeOf(g.d))
<1>1. CASE Close \/ Exhaust \/ (\E got \in BOOLEAN : HoldoutObserve(got))
    BY <1>1 DEF Close, Exhaust, HoldoutObserve
<1>2. ASSUME NEW g \in Governed, NEW got \in BOOLEAN,
             \/ Refuse(g, got)
             \/ Block(g, got)
             \/ NoTemplate(g, got)
             \/ \E quit \in BOOLEAN : Act(g, got, quit)
      PROVE  \/ ChargeToday(NoCharge)
             \/ /\ g.d.action # "NO_ACTION"
                /\ Allowed(g.d, g.s, ep.now)
                /\ ChargeToday(ChargeOf(g.d))
    <2>1. CASE Refuse(g, got) \/ Block(g, got) \/ NoTemplate(g, got)
        BY <2>1 DEF Refuse, Block, NoTemplate, Withhold
    <2>2. CASE \E quit \in BOOLEAN : Act(g, got, quit)
        BY <2>2 DEF Act, ChargeOf
    <2> QED
        BY <1>2, <2>1, <2>2
<1>3. CASE Arrive
    BY <1>3 DEF Arrive, StartEpisode
<1>4. CASE UNCHANGED vars
    BY <1>4 DEF vars, budgets
<1> QED
    BY <1>1, <1>2, <1>3, <1>4 DEF Next, Step, BatchOver

LEMMA DayInvStep ==
    ASSUME DayInv, [Next]_vars
    PROVE  DayInv'
<1>1. TypeOK'
    BY NextType DEF DayInv
<1>2. At(merchant_days, Today(ep)) \in Counters
    BY TypeOKBudgets, AtType DEF DayInv, BudgetsType
<1>3. CASE UNCHANGED budgets
    BY <1>1, <1>3 DEF DayInv, DaysRemembered, DaysWithin, budgets
<1>4. CASE ChargeToday(NoCharge)
    <2>1. Charged(At(merchant_days, Today(ep)), NoCharge) = At(merchant_days, Today(ep))
        BY <1>2 DEF Charged, NoCharge, Counters
    <2> QED
        BY <1>1, <1>4, <2>1, NoChargeType, TodayWithin, ChargeKeeps DEF DayInv
<1>5. ASSUME NEW g \in Governed, g.d.action # "NO_ACTION", Allowed(g.d, g.s, ep.now),
             ChargeToday(ChargeOf(g.d))
      PROVE  DayInv'
    <2>1. ChargeOf(g.d) \in Counters
        BY ActTypes DEF ChargeOf, Counters, DayInv
    <2>2. Today(ep) \notin lapsed =>
             Within(Charged(At(merchant_days, Today(ep)), ChargeOf(g.d)))
        BY <1>2, <1>5, TodayWithin, AllowedStaysWithin DEF DayInv
    <2> QED
        BY <1>1, <1>5, <2>1, <2>2, ChargeKeeps DEF DayInv
<1> QED
    BY <1>3, <1>4, <1>5, OnlyPassesCharge

LEMMA DayInvInit == Init => DayInv
<1> SUFFICES ASSUME Init PROVE DayInv
    OBVIOUS
<1>1. merchant_days = <<>> /\ totals = <<>>
    BY DEF Init
<1>2. DOMAIN merchant_days = {} /\ DOMAIN totals = {}
    BY <1>1
<1> QED
    BY <1>2, InitType DEF DayInv, DaysRemembered, DaysWithin

LEMMA DayInvariant == Spec => []DayInv
<1>1. Init => DayInv
    BY DayInvInit
<1>2. DayInv /\ [Next]_vars => DayInv'
    BY DayInvStep
<1> QED
    BY <1>1, <1>2, PTL DEF Spec

\* merchant.daily_action_budget and escalation.max_per_day hold for every merchant and
\* day whose counters the agent still has, over all episodes whose clocks pass through
\* that day, in whatever order they run (agent.py merchant_day, engine.py
\* daily_action_budget and max_per_day).
THEOREM DayLimitsHold == Spec => []DailyLimits
<1>1. DayInv => DailyLimits
    BY DEF DayInv, DaysWithin, Within, DailyLimits
<1> QED
    BY <1>1, DayInvariant, PTL

\* merchant.daily_spend_cap_paise is exceeded by one mandated escalation at most: it is
\* judged on the cost of the action it replaces (agent.py:448, engine.py
\* daily_spend_cap_paise), and the day is closed afterwards.
THEOREM OvershootBounded == Spec => []SpendOvershootBounded
<1>1. DayInv => SpendOvershootBounded
    BY DEF DayInv, DaysWithin, Within, Ceiling, SpendOvershootBounded
<1> QED
    BY <1>1, DayInvariant, PTL

-----------------------------------------------------------------------------
(* What the agent holds in memory, however long it runs. *)

MemoryInv ==
    /\ TypeOK /\ TrackedOnce
    /\ Len(tracked) <= MAX_CUSTOMERS_TRACKED
    /\ \A c \in Customers :
          customer_contacts[c] # <<>> => \E i \in DOMAIN tracked : tracked[i] = c
    /\ IsFiniteSet(DOMAIN merchant_days)
    /\ Cardinality(DOMAIN merchant_days) <= MAX_MERCHANT_DAYS

\* A contact with a customer the full map does not have makes room for the log by dropping
\* the one it has had longest, log and all.
LEMMA ContactsBounded ==
    ASSUME MemoryInv, NEW at, RecordContact(ep.customer, at)
    PROVE  /\ TrackedOnce'
           /\ Len(tracked') <= MAX_CUSTOMERS_TRACKED
           /\ \A x \in Customers :
                 customer_contacts'[x] # <<>> => \E i \in DOMAIN tracked' : tracked'[i] = x
<1> DEFINE c     == ep.customer
           n     == Len(tracked)
           known == \E i \in DOMAIN tracked : tracked[i] = c
           full  == n >= MAX_CUSTOMERS_TRACKED
           gone  == IF ~known /\ full THEN {Head(tracked)} ELSE {}
<1>1. /\ tracked \in Seq(Customers) /\ n \in Nat /\ DOMAIN tracked = 1..n
      /\ MAX_CUSTOMERS_TRACKED \in Nat \ {0} /\ n <= MAX_CUSTOMERS_TRACKED /\ c \in Customers
    <2>1. TypeOK /\ n <= MAX_CUSTOMERS_TRACKED
        BY DEF MemoryInv
    <2>2. tracked \in Seq(Customers)
        BY <2>1 DEF TypeOK
    <2>3. MAX_CUSTOMERS_TRACKED \in Nat \ {0} /\ c \in Customers
        BY <2>1, EpisodeTypes, LoopAssumption
    <2> QED
        BY <2>1, <2>2, <2>3
<1>2. /\ tracked' = IF known THEN tracked
                    ELSE Append(IF full THEN Tail(tracked) ELSE tracked, c)
      /\ \A x \in Customers : customer_contacts'[x] # <<>> =>
            x = c \/ (x \notin gone /\ customer_contacts[x] # <<>>)
    BY DEF RecordContact
<1>3. \A i, j \in 1..n : i # j => tracked[i] # tracked[j]
    BY <1>1 DEF MemoryInv, TrackedOnce
<1>4. \A x \in Customers : customer_contacts[x] # <<>> => \E i \in 1..n : tracked[i] = x
    BY <1>1 DEF MemoryInv
<1>5. CASE known
    <2>1. tracked' = tracked
        BY <1>2, <1>5
    <2>2. \A x \in Customers :
             customer_contacts'[x] # <<>> => \E i \in DOMAIN tracked' : tracked'[i] = x
        BY <1>1, <1>2, <1>4, <1>5, <2>1
    <2> QED
        BY <1>1, <1>3, <2>1, <2>2 DEF TrackedOnce
<1>6. CASE ~known /\ ~full
    <2>1. tracked' = Append(tracked, c) /\ gone = {}
        BY <1>2, <1>6
    <2>2. /\ DOMAIN tracked' = 1..(n + 1) /\ Len(tracked') = n + 1 /\ tracked'[n + 1] = c
          /\ \A i \in 1..n : tracked'[i] = tracked[i]
        BY <1>1, <2>1
    <2>3. \A i \in 1..n : tracked[i] # c
        BY <1>1, <1>6
    <2> HIDE DEF known, full, n, c, gone
    <2>4. TrackedOnce'
        BY <1>1, <1>3, <2>2, <2>3 DEF TrackedOnce
    <2>5. \A x \in Customers :
             customer_contacts'[x] # <<>> => \E i \in DOMAIN tracked' : tracked'[i] = x
        BY <1>1, <1>2, <1>4, <2>2
    <2>6. n + 1 <= MAX_CUSTOMERS_TRACKED
        BY <1>1, <1>6 DEF full
    <2> QED
        BY <2>2, <2>4, <2>5, <2>6
<1>7. CASE ~known /\ full
    <2>1. tracked' = Append(Tail(tracked), c) /\ gone = {Head(tracked)}
        BY <1>2, <1>7
    <2>2. n \in Nat \ {0} /\ n = MAX_CUSTOMERS_TRACKED
        <3> HIDE DEF n
        <3> QED
            BY <1>1, <1>7
    <2>3. /\ Tail(tracked) \in Seq(Customers) /\ Len(Tail(tracked)) = n - 1
          /\ \A i \in 1..(n - 1) : Tail(tracked)[i] = tracked[i + 1]
          /\ Head(tracked) = tracked[1]
        BY <1>1, <2>2, HeadTailProperties
    <2>4. /\ DOMAIN tracked' = 1..n /\ Len(tracked') = n /\ tracked'[n] = c
          /\ \A i \in 1..(n - 1) : tracked'[i] = tracked[i + 1]
        BY <1>1, <2>1, <2>2, <2>3
    <2>5. \A i \in 1..n : tracked[i] # c
        BY <1>1, <1>7
    <2> HIDE DEF known, full, n, c, gone
    <2>6. TrackedOnce'
        <3> SUFFICES ASSUME NEW i \in 1..n, NEW j \in 1..n, i # j
                     PROVE  tracked'[i] # tracked'[j]
            BY <2>4 DEF TrackedOnce
        <3>1. CASE i = n
            BY <2>2, <2>4, <2>5, <3>1
        <3>2. CASE j = n
            BY <2>2, <2>4, <2>5, <3>2
        <3>3. CASE i # n /\ j # n
            BY <1>3, <2>2, <2>4, <3>3
        <3> QED
            BY <3>1, <3>2, <3>3
    <2>7. ASSUME NEW x \in Customers, customer_contacts'[x] # <<>>
          PROVE  \E i \in DOMAIN tracked' : tracked'[i] = x
        <3>1. CASE x = c
            BY <2>2, <2>4, <3>1
        <3>2. CASE x # c
            <4>1. x # tracked[1] /\ customer_contacts[x] # <<>>
                BY <1>2, <2>1, <2>3, <2>7, <3>2
            <4>2. PICK i \in 1..n : tracked[i] = x
                BY <1>4, <4>1
            <4>3. i - 1 \in 1..(n - 1) /\ (i - 1) + 1 = i
                BY <2>2, <4>1, <4>2
            <4>4. tracked'[i - 1] = x /\ i - 1 \in 1..n
                BY <2>2, <2>4, <4>2, <4>3
            <4> QED
                BY <2>4, <4>4
        <3> QED
            BY <3>1, <3>2
    <2> QED
        BY <1>1, <2>2, <2>4, <2>6, <2>7
<1> QED
    BY <1>5, <1>6, <1>7

\* A day the full map does not have takes the place of one of the oldest.
LEMMA DaysBounded ==
    ASSUME MemoryInv, NEW charge, ChargeToday(charge)
    PROVE  /\ IsFiniteSet(DOMAIN merchant_days')
           /\ Cardinality(DOMAIN merchant_days') <= MAX_MERCHANT_DAYS
<1> DEFINE key  == Today(ep)
           held == DOMAIN merchant_days
<1>1. PICK gone \in Evictable(key) : DOMAIN merchant_days' = (held \ gone) \cup {key}
    BY DEF ChargeToday, Put
<1>2. /\ IsFiniteSet(held) /\ Cardinality(held) \in Nat
      /\ Cardinality(held) <= MAX_MERCHANT_DAYS /\ MAX_MERCHANT_DAYS \in Nat
    BY FS_CardinalityType, LoopAssumption DEF MemoryInv
<1>3. CASE key \in held
    <2>1. gone = {}
        BY <1>3 DEF Evictable
    <2> QED
        BY <1>1, <1>2, <1>3, <2>1
<1>4. CASE key \notin held /\ Cardinality(held) < MAX_MERCHANT_DAYS
    <2>1. gone = {}
        BY <1>4 DEF Evictable
    <2>2. DOMAIN merchant_days' = held \cup {key}
        BY <1>1, <2>1
    <2> HIDE DEF held, key
    <2> QED
        BY <1>2, <1>4, <2>2, FS_AddElement, SMTT(30)
<1>5. CASE key \notin held /\ ~(Cardinality(held) < MAX_MERCHANT_DAYS)
    <2>1. PICK k \in held : gone = {k}
        BY <1>5 DEF Evictable
    <2>2. DOMAIN merchant_days' = (held \ {k}) \cup {key}
        BY <1>1, <2>1
    <2> HIDE DEF held, key
    <2>3. IsFiniteSet(held \ {k}) /\ Cardinality(held \ {k}) = Cardinality(held) - 1
        BY <1>2, <2>1, FS_RemoveElement
    <2>4. key \notin held \ {k}
        BY <1>5
    <2>5. /\ IsFiniteSet((held \ {k}) \cup {key})
          /\ Cardinality((held \ {k}) \cup {key}) = (Cardinality(held) - 1) + 1
        BY <2>3, <2>4, FS_AddElement
    <2> QED
        BY <1>2, <2>2, <2>5
<1> QED
    BY <1>3, <1>4, <1>5

\* What has a place of its own among n is at most n things.
LEMMA PlacesCount ==
    ASSUME NEW R, IsFiniteSet(R), NEW n \in Nat, NEW list,
           \A c \in R : \E i \in 1..n : list[i] = c
    PROVE  Cardinality(R) <= n
<1> DEFINE places == 1..n
           f == [c \in R |-> CHOOSE i \in places : list[i] = c]
<1>1. IsFiniteSet(places) /\ Cardinality(places) = n
    <2>1. 1 \in Int /\ n \in Int
        OBVIOUS
    <2>2. IsFiniteSet(places)
        BY <2>1, FS_Interval
    <2>3. Cardinality(places) = IF 1 <= n THEN n - 1 + 1 ELSE 0
        BY <2>1, FS_Interval
    <2> QED
        BY <2>2, <2>3
<1>2. f \in [R -> places]
    OBVIOUS
<1>3. \A c \in R : list[f[c]] = c
    OBVIOUS
<1>4. Cardinality(R) \in Nat
    BY FS_CardinalityType
<1> SUFFICES ASSUME ~(Cardinality(R) <= n) PROVE FALSE
    OBVIOUS
<1>5. Cardinality(places) < Cardinality(R)
    BY <1>1, <1>4
<1> HIDE DEF places, f
<1>6. \E x, y \in R : x # y /\ f[x] = f[y]
    BY <1>1, <1>2, <1>5, FS_PigeonHole
<1> QED
    BY <1>3, <1>6

LEMMA MemoryStep ==
    ASSUME MemoryInv, [Next]_vars
    PROVE  MemoryInv'
<1>1. TypeOK'
    BY NextType DEF MemoryInv
<1>2. /\ TrackedOnce'
      /\ Len(tracked') <= MAX_CUSTOMERS_TRACKED
      /\ \A x \in Customers :
            customer_contacts'[x] # <<>> => \E i \in DOMAIN tracked' : tracked'[i] = x
    <2>1. CASE UNCHANGED contacts_memory
        BY <2>1 DEF contacts_memory, MemoryInv, TrackedOnce
    <2> QED
        BY <2>1, OnlyActContacts, ContactsBounded
<1>3. /\ IsFiniteSet(DOMAIN merchant_days')
      /\ Cardinality(DOMAIN merchant_days') <= MAX_MERCHANT_DAYS
    <2>1. CASE UNCHANGED budgets
        BY <2>1 DEF budgets, MemoryInv
    <2> QED
        BY <2>1, OnlyPassesCharge, DaysBounded
<1> QED
    BY <1>1, <1>2, <1>3 DEF MemoryInv

LEMMA MemoryInvariant == Spec => []MemoryInv
<1>1. Init => MemoryInv
    <2> SUFFICES ASSUME Init PROVE MemoryInv
        OBVIOUS
    <2>1. /\ tracked = <<>> /\ merchant_days = <<>>
          /\ customer_contacts = [c \in Customers |-> <<>>]
        BY DEF Init
    <2>2. DOMAIN merchant_days = {} /\ Len(tracked) = 0 /\ DOMAIN tracked = {}
        BY <2>1
    <2>3. 0 <= MAX_CUSTOMERS_TRACKED /\ 0 <= MAX_MERCHANT_DAYS
        BY LoopAssumption
    <2> QED
        BY <2>1, <2>2, <2>3, InitType, FS_EmptySet DEF MemoryInv, TrackedOnce
<1>2. MemoryInv /\ [Next]_vars => MemoryInv'
    BY MemoryStep
<1> QED
    BY <1>1, <1>2, PTL DEF Spec

\* The agent's memory does not grow with the number of customers and days it serves: it has
\* at most as many logs, and counters of as many days, as its maps are allowed (agent.py,
\* _record_contact and merchant_day, the two evictions).
THEOREM MemoryIsBounded == Spec => []MemoryBounded
<1>1. MemoryInv => MemoryBounded
    <2> SUFFICES ASSUME MemoryInv
                 PROVE  Cardinality({c \in Customers : customer_contacts[c] # <<>>})
                           <= MAX_CUSTOMERS_TRACKED
        BY DEF MemoryInv, MemoryBounded
    <2> DEFINE R == {c \in Customers : customer_contacts[c] # <<>>}
               n == Len(tracked)
    <2>1. /\ n \in Nat /\ n <= MAX_CUSTOMERS_TRACKED /\ MAX_CUSTOMERS_TRACKED \in Nat
          /\ \A c \in R : \E i \in 1..n : tracked[i] = c
        <3>1. /\ TypeOK /\ n <= MAX_CUSTOMERS_TRACKED
              /\ \A c \in R : \E i \in DOMAIN tracked : tracked[i] = c
            BY DEF MemoryInv
        <3>2. tracked \in Seq(Customers)
            BY <3>1 DEF TypeOK
        <3>3. MAX_CUSTOMERS_TRACKED \in Nat
            BY LoopAssumption
        <3> QED
            BY <3>1, <3>2, <3>3
    <2>2. IsFiniteSet(R) /\ Cardinality(R) \in Nat
        BY WorldAssumption, FS_Subset, FS_CardinalityType
    <2> HIDE DEF R, n
    <2>3. Cardinality(R) <= n
        BY <2>1, <2>2, PlacesCount
    <2> QED
        BY <2>1, <2>2, <2>3 DEF R
<1> QED
    BY <1>1, MemoryInvariant, PTL
=============================================================================
