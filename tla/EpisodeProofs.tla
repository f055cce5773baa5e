---------------------------- MODULE EpisodeProofs ---------------------------
(***************************************************************************)
(* One episode, for every event, every answer of the world and any number  *)
(* of decisions: what its result says is true, both arms get the same      *)
(* chances, and what stops it stops it.                                    *)
(***************************************************************************)
EXTENDS AgentProofs

-----------------------------------------------------------------------------
(* What each pass does to the locals. *)

\* The locals no pass of the loop assigns.
SameEpisode ==
    /\ ep'.id = ep.id /\ ep'.arm = ep.arm /\ ep'.customer = ep.customer
    /\ ep'.profile = ep.profile /\ ep'.started = ep.started
    /\ ep'.late_authorised = ep.late_authorised

LEMMA DecidedFields ==
    ASSUME TypeOK
    PROVE  /\ Decided \in Episodes
           /\ Decided.id = ep.id /\ Decided.arm = ep.arm /\ Decided.customer = ep.customer
           /\ Decided.profile = ep.profile /\ Decided.started = ep.started
           /\ Decided.late_authorised = ep.late_authorised /\ Decided.open = ep.open
           /\ Decided.paid = ep.paid /\ Decided.paid_unprompted = ep.paid_unprompted
           /\ Decided.opted_out = ep.opted_out /\ Decided.recovered = ep.recovered
           /\ Decided.stop_reason = ep.stop_reason /\ Decided.attempts = ep.attempts
           /\ Decided.contacts = ep.contacts /\ Decided.cost = ep.cost
           /\ Decided.pre_debit_notice_at = ep.pre_debit_notice_at
           /\ Decided.now = ep.now
           /\ Decided.decisions = ep.decisions + 1 /\ Decided.seq = ep.seq + 1
<1>1. ep \in Episodes
    BY EpisodeTypes
<1>2. Decided \in Episodes
    BY DecidedType
<1> DEFINE broken == PromiseBrokenNow
<1>3. Decided = [ep EXCEPT !.decisions = ep.decisions + 1, !.seq = ep.seq + 1,
                           !.promise_broken = broken]
    BY <1>1 DEF Decided
<1> HIDE DEF broken
<1> QED
    BY <1>1, <1>2, <1>3 DEF Episodes

LEMMA RefuseFields ==
    ASSUME TypeOK, NEW g \in Governed, NEW got \in BOOLEAN, Refuse(g, got)
    PROVE  /\ SameEpisode
           /\ ep'.recovered = ep.recovered + Amount(got) /\ ep'.open = ~got
           /\ ep'.paid = ep.paid /\ ep'.paid_unprompted = ep.paid_unprompted
           /\ ep'.opted_out = ep.opted_out /\ ep'.cost = ep.cost
           /\ ep'.stop_reason = IF got THEN "recovered_unprompted"
                                ELSE IF ep.seq = MAX_DECISIONS - 1
                                THEN "refused_negative_ev" ELSE ep.stop_reason
           /\ ep'.decisions = ep.decisions + 1 /\ ep'.seq = ep.seq + 1
           /\ ep'.pre_debit_notice_at = ep.pre_debit_notice_at
           /\ ep'.now = IF got THEN ep.now ELSE ep.now + CoolOffTicks
<1> DEFINE amount == Decided.recovered + Amount(got)
           open   == ~got
           now    == IF got THEN Decided.now ELSE Decided.now + CoolOffTicks
           reason == IF got THEN "recovered_unprompted"
                     ELSE IF ep.seq = MAX_DECISIONS - 1
                     THEN "refused_negative_ev" ELSE Decided.stop_reason
<1>1. ep' = [Decided EXCEPT !.recovered = amount, !.open = open, !.now = now,
                            !.stop_reason = reason]
    BY DEF Refuse
<1>2. /\ amount = ep.recovered + Amount(got)
      /\ now = IF got THEN ep.now ELSE ep.now + CoolOffTicks
      /\ reason = IF got THEN "recovered_unprompted"
                  ELSE IF ep.seq = MAX_DECISIONS - 1
                  THEN "refused_negative_ev" ELSE ep.stop_reason
    BY DecidedFields
<1>3. open = ~got /\ open \in BOOLEAN
    OBVIOUS
<1> HIDE DEF amount, open, now, reason
<1>4. /\ ep'.recovered = amount /\ ep'.open = open /\ ep'.now = now
      /\ ep'.stop_reason = reason
    BY <1>1, DecidedFields DEF Episodes
<1>5. /\ SameEpisode
      /\ ep'.paid = ep.paid /\ ep'.paid_unprompted = ep.paid_unprompted
      /\ ep'.opted_out = ep.opted_out /\ ep'.cost = ep.cost
      /\ ep'.decisions = ep.decisions + 1 /\ ep'.seq = ep.seq + 1
      /\ ep'.pre_debit_notice_at = ep.pre_debit_notice_at
    BY <1>1, DecidedFields DEF Episodes, SameEpisode
<1> QED
    BY <1>2, <1>3, <1>4, <1>5

LEMMA WithholdFields ==
    ASSUME TypeOK, NEW g \in Governed, NEW got \in BOOLEAN, Withhold(g, got)
    PROVE  /\ SameEpisode
           /\ ep'.recovered = ep.recovered + Amount(got) /\ ep'.open = ep.open
           /\ ep'.paid = (ep.paid \/ got) /\ ep'.paid_unprompted = (ep.paid_unprompted \/ got)
           /\ ep'.opted_out = ep.opted_out /\ ep'.stop_reason = ep.stop_reason
           /\ ep'.cost = ep.cost
           /\ ep'.decisions = ep.decisions + 1 /\ ep'.seq = ep.seq + 1
           /\ ep'.pre_debit_notice_at = ep.pre_debit_notice_at
           /\ ep'.now = IF got THEN ep.now ELSE ep.now + CoolOffTicks
<1> DEFINE refused    == Decided.refused_actions \cup {g.d.action}
           amount     == Decided.recovered + Amount(got)
           paid       == Decided.paid \/ got
           unprompted == Decided.paid_unprompted \/ got
           now        == IF got THEN Decided.now ELSE Decided.now + CoolOffTicks
<1>1. ep' = [Decided EXCEPT !.refused_actions = refused, !.recovered = amount,
                            !.paid = paid, !.paid_unprompted = unprompted, !.now = now]
    BY DEF Withhold
<1>2. /\ amount = ep.recovered + Amount(got)
      /\ now = IF got THEN ep.now ELSE ep.now + CoolOffTicks
    BY DecidedFields
<1>3. paid = (ep.paid \/ got) /\ unprompted = (ep.paid_unprompted \/ got)
    BY DecidedFields
<1> HIDE DEF refused, amount, paid, unprompted, now
<1>4. /\ ep'.recovered = amount /\ ep'.paid = paid /\ ep'.paid_unprompted = unprompted
      /\ ep'.now = now
    BY <1>1, DecidedFields DEF Episodes
<1>5. /\ SameEpisode
      /\ ep'.open = ep.open /\ ep'.opted_out = ep.opted_out /\ ep'.cost = ep.cost
      /\ ep'.stop_reason = ep.stop_reason
      /\ ep'.decisions = ep.decisions + 1 /\ ep'.seq = ep.seq + 1
      /\ ep'.pre_debit_notice_at = ep.pre_debit_notice_at
    BY <1>1, DecidedFields DEF Episodes, SameEpisode
<1> QED
    BY <1>2, <1>3, <1>4, <1>5

LEMMA ActFields ==
    ASSUME TypeOK, NEW g \in Governed, NEW got \in BOOLEAN, NEW quit \in BOOLEAN,
           Act(g, got, quit)
    PROVE  /\ SameEpisode
           /\ ep'.recovered = ep.recovered + Amount(got) /\ ep'.open = ep.open
           /\ ep'.cost = ep.cost + CostOf(g.d, Seen)
           /\ ep'.paid = got /\ ep'.paid_unprompted = ep.paid_unprompted
           /\ ep'.opted_out = (~got /\ quit) /\ ep'.stop_reason = ep.stop_reason
           /\ ep'.decisions = ep.decisions + 1 /\ ep'.seq = ep.seq + 1
           /\ ep'.attempts = IF g.d.action \in RETRY_ACTIONS THEN ep.attempts + 1
                             ELSE ep.attempts
           /\ ep'.pre_debit_notice_at =
                 IF g.d.action = "NUDGE" /\ g.d.source = "mandate"
                 THEN ShiftedAt(g.d, ep.now) ELSE ep.pre_debit_notice_at
           /\ ep'.now >= ep.now
<1> DEFINE nudge      == g.d.action = "NUDGE"
           scheduled  == ShiftedAt(g.d, ep.now)
           contacts   == IF IsCustomerContact(g.d) THEN ep.contacts + 1 ELSE ep.contacts
           attempts   == IF g.d.action \in RETRY_ACTIONS THEN Decided.attempts + 1
                         ELSE Decided.attempts
           messages   == IF nudge THEN Decided.messages + 1 ELSE Decided.messages
           notice     == NoticeAfter(g.d, scheduled)
           due        == PromiseAfter(g.d, scheduled, got)
           broken     == ~nudge /\ PromiseBrokenNow
           spent      == Decided.cost + CostOf(g.d, Seen)
           amount     == Decided.recovered + Amount(got)
           optedOut   == ~got /\ quit
           now        == IF got \/ quit THEN Decided.now
                         ELSE (IF scheduled > ep.now THEN scheduled ELSE ep.now)
                              + FollowUpTicks
<1>1. ep' = [Decided EXCEPT !.attempts = attempts, !.contacts = contacts,
                 !.messages = messages, !.pre_debit_notice_at = notice,
                 !.promise_due_at = due, !.promise_broken = broken, !.cost = spent,
                 !.recovered = amount, !.paid = got, !.opted_out = optedOut, !.now = now]
    BY DEF Act
<1>2. /\ amount = ep.recovered + Amount(got)
      /\ spent = ep.cost + CostOf(g.d, Seen)
      /\ attempts = IF g.d.action \in RETRY_ACTIONS THEN ep.attempts + 1 ELSE ep.attempts
      /\ notice = IF g.d.action = "NUDGE" /\ g.d.source = "mandate"
                  THEN ShiftedAt(g.d, ep.now) ELSE ep.pre_debit_notice_at
    BY DecidedFields DEF NoticeAfter
<1>3. optedOut = (~got /\ quit)
    OBVIOUS
<1>4. now >= ep.now
    <2>1. ep.now \in Nat /\ scheduled \in Nat /\ FollowUpTicks \in Nat /\ Decided.now = ep.now
        BY EpisodeTypes, ActTypes, DecidedFields, LoopAssumption
    <2> HIDE DEF scheduled
    <2> QED
        BY <2>1
<1> HIDE DEF contacts, attempts, messages, notice, due, broken, spent, amount, optedOut, now
<1> DEFINE acted == [Decided EXCEPT !.attempts = attempts, !.contacts = contacts,
                        !.messages = messages, !.pre_debit_notice_at = notice,
                        !.cost = spent]
<1>5. DOMAIN Decided = {"id", "arm", "open", "customer", "merchant", "profile", "started",
          "now", "seq", "decisions", "attempts", "contacts", "messages", "promise_due_at",
          "promise_broken", "pre_debit_notice_at", "refused_actions", "cost", "recovered",
          "paid", "paid_unprompted", "opted_out", "late_authorised", "stop_reason"}
    BY DecidedFields DEF Episodes
<1>6. /\ ep'.attempts = attempts /\ ep'.pre_debit_notice_at = notice
      /\ ep'.cost = spent /\ ep'.recovered = amount /\ ep'.paid = got /\ ep'.opted_out = optedOut
      /\ ep'.now = now
    BY <1>1, <1>5
<1>7. /\ ep'.id = Decided.id /\ ep'.arm = Decided.arm /\ ep'.customer = Decided.customer
      /\ ep'.profile = Decided.profile /\ ep'.started = Decided.started
      /\ ep'.late_authorised = Decided.late_authorised
      /\ ep'.open = Decided.open /\ ep'.paid_unprompted = Decided.paid_unprompted
      /\ ep'.stop_reason = Decided.stop_reason
      /\ ep'.decisions = Decided.decisions /\ ep'.seq = Decided.seq
    BY <1>1, <1>5
<1>8. /\ SameEpisode
      /\ ep'.open = ep.open /\ ep'.paid_unprompted = ep.paid_unprompted
      /\ ep'.stop_reason = ep.stop_reason
      /\ ep'.decisions = ep.decisions + 1 /\ ep'.seq = ep.seq + 1
    BY <1>7, DecidedFields DEF SameEpisode
<1> QED
    BY <1>2, <1>3, <1>4, <1>6, <1>8

LEMMA HoldoutFields ==
    ASSUME TypeOK, NEW got \in BOOLEAN, HoldoutObserve(got)
    PROVE  /\ SameEpisode
           /\ ep'.recovered = Amount(got) /\ ep'.decisions = ep.seq + 1
           /\ ep'.paid = ep.paid /\ ep'.paid_unprompted = ep.paid_unprompted
           /\ ep'.contacts = ep.contacts /\ ep'.cost = ep.cost /\ ep'.attempts = ep.attempts
           /\ ep'.stop_reason = IF got THEN "recovered_unprompted" ELSE "holdout_observed"
           /\ ep'.open => ~got /\ ep.seq # MAX_DECISIONS - 1 /\ ep'.seq = ep.seq + 1
           /\ ep'.now >= ep.now /\ ep'.pre_debit_notice_at = ep.pre_debit_notice_at
<1> DEFINE last   == \/ ep.seq = MAX_DECISIONS - 1
                     \/ AgeDays(ep.started, ep.now + CoolOffTicks) > HoldoutDays
           seq    == IF got \/ last THEN ep.seq ELSE ep.seq + 1
           now    == IF got THEN ep.now ELSE ep.now + CoolOffTicks
           open   == ~got /\ ~last
           reason == IF got THEN "recovered_unprompted" ELSE "holdout_observed"
<1>1. ep' = [ep EXCEPT !.decisions = ep.seq + 1, !.seq = seq, !.now = now,
                       !.recovered = Amount(got), !.open = open, !.stop_reason = reason]
    BY DEF HoldoutObserve
<1>2. open => ~got /\ ep.seq # MAX_DECISIONS - 1 /\ seq = ep.seq + 1
    OBVIOUS
<1>3. now >= ep.now
    BY EpisodeTypes, LoopAssumption
<1>4. ep \in Episodes
    BY EpisodeTypes
<1> HIDE DEF last, seq, now, open
<1>5. /\ ep'.recovered = Amount(got) /\ ep'.decisions = ep.seq + 1 /\ ep'.seq = seq
      /\ ep'.now = now /\ ep'.open = open /\ ep'.stop_reason = reason
    BY <1>1, <1>4 DEF Episodes
<1>6. /\ SameEpisode
      /\ ep'.paid = ep.paid /\ ep'.paid_unprompted = ep.paid_unprompted
      /\ ep'.contacts = ep.contacts /\ ep'.cost = ep.cost /\ ep'.attempts = ep.attempts
      /\ ep'.pre_debit_notice_at = ep.pre_debit_notice_at
    BY <1>1, <1>4 DEF Episodes, SameEpisode
<1> QED
    BY <1>2, <1>3, <1>5, <1>6

LEMMA EndFields ==
    ASSUME TypeOK, Close \/ Exhaust
    PROVE  /\ SameEpisode
           /\ ep'.recovered = ep.recovered /\ ep'.decisions = ep.decisions
           /\ ep'.open = FALSE
           /\ ep'.contacts = ep.contacts /\ ep'.cost = ep.cost /\ ep'.attempts = ep.attempts
           /\ ep'.stop_reason = IF EpisodeClosed(ep) # "open" THEN EpisodeClosed(ep)
                                ELSE ep.stop_reason
           /\ ep'.opted_out = ep.opted_out /\ ep'.now = ep.now
           /\ ep'.pre_debit_notice_at = ep.pre_debit_notice_at
           /\ UNCHANGED <<sent, totals, observed>>
<1>1. ep \in Episodes
    BY EpisodeTypes
<1>2. UNCHANGED <<sent, totals, observed>>
    BY DEF Close, Exhaust, memory, contacts_memory, budgets
<1>3. CASE Close
    <2> DEFINE why == EpisodeClosed(ep)
    <2>1. ep' = [ep EXCEPT !.open = FALSE, !.stop_reason = why] /\ why # "open"
        BY <1>3 DEF Close
    <2> HIDE DEF why
    <2> QED
        BY <1>1, <1>2, <2>1 DEF Episodes, SameEpisode, why
<1>4. CASE Exhaust
    BY <1>1, <1>2, <1>4 DEF Exhaust, Episodes, SameEpisode
<1> QED
    BY <1>3, <1>4

LEMMA NewEpisodeFields ==
    ASSUME NEW c, NEW m, NEW p, NEW arm, NEW start, StartEpisode(c, m, p, arm, start)
    PROVE  /\ ep'.id = ep.id + 1 /\ ep'.arm = arm /\ ep'.customer = c /\ ep'.profile = p
           /\ ep'.started = start /\ ep'.now = start /\ ep'.open = TRUE
           /\ ep'.seq = 0 /\ ep'.decisions = 0 /\ ep'.recovered = 0
           /\ ep'.contacts = 0 /\ ep'.cost = 0 /\ ep'.attempts = 0
           /\ ep'.paid = FALSE /\ ep'.paid_unprompted = FALSE
           /\ ep'.late_authorised = FALSE /\ ep'.stop_reason = "exhausted"
           /\ ep'.pre_debit_notice_at = NoTime
           /\ observed' = NotObserved /\ UNCHANGED <<sent, totals>>
<1>1. ep' = NewEpisode(ep.id + 1, c, m, p, arm, start)
    BY DEF StartEpisode
<1>2. observed' = NotObserved /\ UNCHANGED <<sent, totals>>
    BY DEF StartEpisode, memory, contacts_memory, budgets
<1> QED
    BY <1>1, <1>2 DEF NewEpisode

\* The next-state relation, one case per lemma above.
LEMMA StepCases ==
    ASSUME [Next]_vars
    PROVE  \/ Close \/ Exhaust
           \/ \E got \in BOOLEAN : HoldoutObserve(got)
           \/ Deciding /\ \E g \in Governed, got \in BOOLEAN :
                 \/ Refuse(g, got)
                 \/ Withhold(g, got)
                 \/ \E quit \in BOOLEAN : Act(g, got, quit)
           \/ \E c \in Customers, m \in Merchants, p \in EventProfiles,
                 arm \in {"treatment", "holdout"}, start \in StartTimes :
                 StartEpisode(c, m, p, arm, start)
           \/ UNCHANGED vars
    BY DEF Next, Step, Arrive, BatchOver, Block, NoTemplate

-----------------------------------------------------------------------------
(* The result of an episode. *)

\* What is true of an episode while it is open, so that what is said of it when it closes
\* is: what was recovered is what was paid, the label prepared so far claims no payment,
\* and the last answer of the world tells a payment we caused from one we did not.
OpenEpisode ==
    ep.open =>
       /\ ep.decisions = ep.seq /\ ep.seq <= MAX_DECISIONS
       /\ ep.recovered = IF ep.paid THEN ep.profile.amount ELSE 0
       /\ ep.paid_unprompted => ep.paid
       /\ ep.paid => (ep.paid_unprompted <=> observed.action = "NO_ACTION")
       /\ ~ep.late_authorised
       /\ ep.stop_reason \in {"exhausted", "refused_negative_ev", "holdout_observed"}
       /\ ep.arm = "holdout" => ~ep.paid /\ ep.seq < MAX_DECISIONS

EpisodeInv == TypeOK /\ OutcomeTruthful /\ FairTrial /\ OpenEpisode

LEMMA ObserveEffect ==
    ASSUME NEW action, NEW at, NEW prior, NEW priced, Observe(action, at, prior, priced)
    PROVE  /\ observed'.action = action /\ observed'.at = at
           /\ observed'.calls = observed.calls + 1
           /\ observed'.nudges = observed.nudges \cup {t \in {at} : action = "NUDGE"}
    BY DEF Observe

LEMMA DecidingMeans ==
    ASSUME EpisodeInv, Deciding
    PROVE  /\ ep.open /\ ep.arm = "treatment" /\ ~ep.paid /\ ~OptedOut(ep)
           /\ ~(AgeDays(ep.started, ep.now) > MaxDays)
           /\ ep.seq < MAX_DECISIONS /\ ep.decisions = ep.seq /\ ep.recovered = 0
           /\ ~ep.paid_unprompted /\ ~ep.late_authorised
           /\ ep.stop_reason \in {"exhausted", "refused_negative_ev", "holdout_observed"}
<1>1. ep.open /\ ep.arm = "treatment" /\ EpisodeClosed(ep) = "open" /\ ep.seq < MAX_DECISIONS
    BY DEF Deciding, InLoop
<1>2. ~ep.paid /\ ~OptedOut(ep) /\ ~(AgeDays(ep.started, ep.now) > MaxDays)
    BY <1>1 DEF EpisodeClosed
<1> QED
    BY <1>1, <1>2 DEF EpisodeInv, OpenEpisode

LEMMA PassKeeps ==
    ASSUME EpisodeInv, Deciding, NEW g \in Governed, NEW got \in BOOLEAN,
           \/ Refuse(g, got)
           \/ Withhold(g, got)
           \/ \E quit \in BOOLEAN : Act(g, got, quit)
    PROVE  OutcomeTruthful' /\ FairTrial' /\ OpenEpisode'
<1>1. /\ TypeOK /\ ep \in Episodes /\ ep.profile.amount \in Nat /\ ep.seq \in Nat
      /\ observed.calls = ep.decisions
    BY EpisodeTypes DEF EpisodeInv, FairTrial, Profiles, Episodes
<1>2. /\ ep.open /\ ep.arm = "treatment" /\ ~ep.paid /\ ~ep.paid_unprompted
      /\ ep.seq < MAX_DECISIONS /\ ep.decisions = ep.seq /\ ep.recovered = 0
      /\ ~ep.late_authorised
      /\ ep.stop_reason \in {"exhausted", "refused_negative_ev", "holdout_observed"}
    BY DecidingMeans
<1>3. MAX_DECISIONS \in Nat \ {0} /\ ep.seq + 1 <= MAX_DECISIONS
    BY <1>1, <1>2, LoopAssumption
<1>4. Amount(got) = IF got THEN ep.profile.amount ELSE 0
    BY DEF Amount
<1>5. CASE Refuse(g, got)
    <2>1. Observe("NO_ACTION", ep.now, ep.contacts, Seen)
        BY <1>5 DEF Refuse
    <2>2. observed'.action = "NO_ACTION" /\ observed'.calls = observed.calls + 1
        BY <2>1, ObserveEffect
    <2>3. /\ SameEpisode /\ ep'.recovered = Amount(got) /\ ep'.open = ~got
          /\ ep'.paid = FALSE /\ ep'.paid_unprompted = FALSE
          /\ ep'.stop_reason = IF got THEN "recovered_unprompted"
                               ELSE IF ep.seq = MAX_DECISIONS - 1
                               THEN "refused_negative_ev" ELSE ep.stop_reason
          /\ ep'.decisions = ep.seq + 1 /\ ep'.seq = ep.seq + 1
        BY <1>1, <1>2, <1>4, <1>5, RefuseFields
    <2>4. FairTrial'
        BY <1>1, <1>2, <1>3, <2>2, <2>3 DEF FairTrial, SameEpisode
    <2>5. OutcomeTruthful'
        BY <1>1, <1>2, <1>4, <2>2, <2>3 DEF OutcomeTruthful, SameEpisode
    <2>6. OpenEpisode'
        BY <1>1, <1>2, <1>3, <1>4, <2>3 DEF OpenEpisode, SameEpisode
    <2> QED
        BY <2>4, <2>5, <2>6
<1>6. CASE Withhold(g, got)
    <2>1. Observe("NO_ACTION", ep.now, ep.contacts, Seen)
        BY <1>6 DEF Withhold
    <2>2. observed'.action = "NO_ACTION" /\ observed'.calls = observed.calls + 1
        BY <2>1, ObserveEffect
    <2>3. /\ SameEpisode /\ ep'.recovered = Amount(got) /\ ep'.open = TRUE
          /\ ep'.paid = got /\ ep'.paid_unprompted = got
          /\ ep'.stop_reason = ep.stop_reason
          /\ ep'.decisions = ep.seq + 1 /\ ep'.seq = ep.seq + 1
        <3>1. /\ SameEpisode /\ ep'.recovered = 0 + Amount(got) /\ ep'.open = ep.open
              /\ ep'.paid = (ep.paid \/ got) /\ ep'.paid_unprompted = (ep.paid_unprompted \/ got)
              /\ ep'.stop_reason = ep.stop_reason
              /\ ep'.decisions = ep.seq + 1 /\ ep'.seq = ep.seq + 1
            BY <1>1, <1>2, <1>6, WithholdFields
        <3>2. ep.open = TRUE /\ ep.paid = FALSE /\ ep.paid_unprompted = FALSE
            BY <1>1, <1>2 DEF Episodes
        <3>3. ep'.recovered = Amount(got)
            BY <1>1, <1>4, <3>1
        <3>4. ep'.paid = got /\ ep'.paid_unprompted = got /\ ep'.open = TRUE
            BY <3>1, <3>2
        <3> QED
            BY <3>1, <3>3, <3>4
    <2>4. FairTrial'
        BY <1>1, <1>2, <1>3, <2>2, <2>3 DEF FairTrial, SameEpisode
    <2>5. OutcomeTruthful'
        BY <1>1, <1>4, <2>3 DEF OutcomeTruthful, SameEpisode
    <2>6. OpenEpisode'
        BY <1>1, <1>2, <1>3, <1>4, <2>2, <2>3 DEF OpenEpisode, SameEpisode
    <2> QED
        BY <2>4, <2>5, <2>6
<1>7. ASSUME NEW quit \in BOOLEAN, Act(g, got, quit)
      PROVE  OutcomeTruthful' /\ FairTrial' /\ OpenEpisode'
    <2>1. observed'.action = g.d.action /\ observed'.calls = observed.calls + 1
        BY <1>7, ObserveEffect DEF Act
    <2>2. observed'.action # "NO_ACTION"
        BY <1>7, <2>1 DEF Act
    <2>3. /\ SameEpisode /\ ep'.recovered = Amount(got) /\ ep'.open = TRUE
          /\ ep'.paid = got /\ ep'.paid_unprompted = FALSE
          /\ ep'.stop_reason = ep.stop_reason
          /\ ep'.decisions = ep.seq + 1 /\ ep'.seq = ep.seq + 1
        <3>1. /\ SameEpisode /\ ep'.recovered = 0 + Amount(got) /\ ep'.open = ep.open
              /\ ep'.paid = got /\ ep'.paid_unprompted = ep.paid_unprompted
              /\ ep'.stop_reason = ep.stop_reason
              /\ ep'.decisions = ep.seq + 1 /\ ep'.seq = ep.seq + 1
            BY <1>1, <1>2, <1>7, ActFields
        <3>2. ep.open = TRUE /\ ep.paid_unprompted = FALSE
            BY <1>1, <1>2 DEF Episodes
        <3>3. ep'.recovered = Amount(got)
            BY <1>1, <1>4, <3>1
        <3> QED
            BY <3>1, <3>2, <3>3
    <2>4. FairTrial'
        BY <1>1, <1>2, <1>3, <2>1, <2>3 DEF FairTrial, SameEpisode
    <2>5. OutcomeTruthful'
        BY <1>1, <1>4, <2>3 DEF OutcomeTruthful, SameEpisode
    <2>6. OpenEpisode'
        BY <1>1, <1>2, <1>3, <1>4, <2>2, <2>3 DEF OpenEpisode, SameEpisode
    <2> QED
        BY <2>4, <2>5, <2>6
<1> QED
    BY <1>5, <1>6, <1>7

LEMMA EndKeeps ==
    ASSUME EpisodeInv, Close \/ Exhaust
    PROVE  OutcomeTruthful' /\ FairTrial' /\ OpenEpisode'
<1>1. /\ TypeOK /\ ep \in Episodes /\ ep.profile.amount \in Nat
      /\ ep.open /\ ep.arm = "treatment"
    BY EpisodeTypes DEF EpisodeInv, Profiles, Close, Exhaust, InLoop
<1>2. /\ SameEpisode /\ ep'.recovered = ep.recovered /\ ep'.decisions = ep.decisions
      /\ ep'.open = FALSE /\ ep'.opted_out = ep.opted_out
      /\ ep'.contacts = ep.contacts /\ ep'.cost = ep.cost /\ ep'.attempts = ep.attempts
      /\ ep'.stop_reason = IF EpisodeClosed(ep) # "open" THEN EpisodeClosed(ep)
                           ELSE ep.stop_reason
      /\ observed' = observed
    BY <1>1, EndFields
<1>3. FairTrial' /\ OpenEpisode'
    BY <1>2 DEF EpisodeInv, FairTrial, OpenEpisode, SameEpisode
<1>4. /\ ep.recovered = IF ep.paid THEN ep.profile.amount ELSE 0
      /\ ep.paid => (ep.paid_unprompted <=> observed.action = "NO_ACTION")
      /\ ep.paid_unprompted => ep.paid
      /\ ~ep.late_authorised
      /\ ep.stop_reason \in {"exhausted", "refused_negative_ev", "holdout_observed"}
    BY <1>1 DEF EpisodeInv, OpenEpisode
<1>5. OptedOut(ep') = OptedOut(ep)
    BY <1>2 DEF OptedOut, SameEpisode
<1>6. CASE ep.paid
    <2>1. ep'.stop_reason = IF ep.paid_unprompted THEN "recovered_unprompted" ELSE "recovered"
        BY <1>2, <1>6 DEF EpisodeClosed
    <2> QED
        BY <1>2, <1>3, <1>4, <1>6, <2>1 DEF OutcomeTruthful, SameEpisode
<1>7. CASE ~ep.paid
    <2>1. /\ ep'.stop_reason \notin {"recovered", "recovered_unprompted"}
          /\ ep'.stop_reason = "opted_out" => OptedOut(ep)
        BY <1>2, <1>4, <1>7 DEF EpisodeClosed
    <2>2. ep'.recovered = 0
        BY <1>2, <1>4, <1>7
    <2> QED
        BY <1>2, <1>3, <1>5, <2>1, <2>2 DEF OutcomeTruthful, SameEpisode
<1> QED
    BY <1>6, <1>7

LEMMA HoldoutKeeps ==
    ASSUME EpisodeInv, NEW got \in BOOLEAN, HoldoutObserve(got)
    PROVE  OutcomeTruthful' /\ FairTrial' /\ OpenEpisode'
<1>1. /\ TypeOK /\ ep \in Episodes /\ ep.profile.amount \in Nat /\ ep.seq \in Nat
      /\ ep.open /\ ep.arm = "holdout" /\ observed.calls = ep.decisions
      /\ ep.contacts = 0 /\ ep.cost = 0 /\ ep.attempts = 0
    BY EpisodeTypes DEF EpisodeInv, FairTrial, Profiles, Episodes, HoldoutObserve
<1>2. /\ ep.decisions = ep.seq /\ ep.seq < MAX_DECISIONS /\ ~ep.paid
      /\ ~ep.late_authorised /\ ~ep.paid_unprompted
    BY <1>1 DEF EpisodeInv, OpenEpisode
<1>3. MAX_DECISIONS \in Nat \ {0}
    BY LoopAssumption
<1>4. /\ SameEpisode
      /\ ep'.recovered = Amount(got) /\ ep'.decisions = ep.seq + 1
      /\ ep'.paid = ep.paid /\ ep'.paid_unprompted = ep.paid_unprompted
      /\ ep'.contacts = ep.contacts /\ ep'.cost = ep.cost /\ ep'.attempts = ep.attempts
      /\ ep'.stop_reason = IF got THEN "recovered_unprompted" ELSE "holdout_observed"
      /\ ep'.open => ~got /\ ep.seq # MAX_DECISIONS - 1 /\ ep'.seq = ep.seq + 1
    BY <1>1, HoldoutFields
<1>5. Amount(got) = IF got THEN ep.profile.amount ELSE 0
    BY DEF Amount
<1>6. observed'.action = "NO_ACTION" /\ observed'.calls = observed.calls + 1
    BY ObserveEffect DEF HoldoutObserve
<1>7. FairTrial'
    BY <1>1, <1>2, <1>3, <1>4, <1>6 DEF FairTrial, SameEpisode
<1>8. OutcomeTruthful'
    BY <1>1, <1>4, <1>5, <1>6 DEF OutcomeTruthful, SameEpisode
<1>9. OpenEpisode'
    BY <1>1, <1>2, <1>3, <1>4, <1>5 DEF OpenEpisode, SameEpisode
<1> QED
    BY <1>7, <1>8, <1>9

LEMMA EpisodeInvStep ==
    ASSUME EpisodeInv, [Next]_vars
    PROVE  EpisodeInv'
<1>1. TypeOK'
    BY NextType DEF EpisodeInv
<1>2. ASSUME NEW c, NEW m, NEW p, NEW arm, NEW start, StartEpisode(c, m, p, arm, start)
      PROVE  OutcomeTruthful' /\ FairTrial' /\ OpenEpisode'
    <2>1. MAX_DECISIONS \in Nat \ {0}
        BY LoopAssumption
    <2>2. /\ ep'.open = TRUE /\ ep'.seq = 0 /\ ep'.decisions = 0 /\ ep'.recovered = 0
          /\ ep'.contacts = 0 /\ ep'.cost = 0 /\ ep'.attempts = 0
          /\ ep'.paid = FALSE /\ ep'.paid_unprompted = FALSE
          /\ ep'.late_authorised = FALSE /\ ep'.stop_reason = "exhausted"
        BY <1>2, NewEpisodeFields
    <2>3. observed'.calls = 0
        <3>1. observed' = NotObserved
            BY <1>2, NewEpisodeFields
        <3> QED
            BY <3>1 DEF NotObserved
    <2>4. OutcomeTruthful'
        BY <2>2 DEF OutcomeTruthful
    <2>5. FairTrial'
        BY <2>1, <2>2, <2>3 DEF FairTrial
    <2>6. OpenEpisode'
        BY <2>1, <2>2 DEF OpenEpisode
    <2> QED
        BY <2>4, <2>5, <2>6
<1>3. CASE UNCHANGED vars
    <2>1. ep' = ep /\ observed' = observed
        BY <1>3 DEF vars
    <2>2. OutcomeTruthful'
        BY <2>1 DEF EpisodeInv, OutcomeTruthful, OptedOut
    <2>3. FairTrial' /\ OpenEpisode'
        BY <2>1 DEF EpisodeInv, FairTrial, OpenEpisode
    <2> QED
        BY <1>1, <2>2, <2>3 DEF EpisodeInv
<1> QED
    BY <1>1, <1>2, <1>3, StepCases, PassKeeps, EndKeeps, HoldoutKeeps DEF EpisodeInv

LEMMA EpisodeInvInit == Init => EpisodeInv
<1> SUFFICES ASSUME Init PROVE EpisodeInv
    OBVIOUS
<1>1. PICK c \in Customers, m \in Merchants, p \in EventProfiles :
         ep = [NewEpisode(0, c, m, p, "treatment", 0) EXCEPT !.open = FALSE]
    BY DEF Init
<1>2. /\ ep.open = FALSE /\ ep.id = 0 /\ ep.recovered = 0 /\ ep.decisions = 0
      /\ ep.arm = "treatment"
    BY <1>1 DEF NewEpisode
<1>3. observed.calls = 0 /\ MAX_DECISIONS \in Nat
    BY LoopAssumption DEF Init, NotObserved
<1>4. OutcomeTruthful /\ FairTrial /\ OpenEpisode
    BY <1>2, <1>3 DEF OutcomeTruthful, FairTrial, OpenEpisode
<1> QED
    BY <1>4, InitType DEF EpisodeInv

LEMMA EpisodeInvariant == Spec => []EpisodeInv
<1>1. Init => EpisodeInv
    BY EpisodeInvInit
<1>2. EpisodeInv /\ [Next]_vars => EpisodeInv'
    BY EpisodeInvStep
<1> QED
    BY <1>1, <1>2, PTL DEF Spec

\* What the result of an episode says is true: the amount is reported recovered exactly
\* when the reason says so, and a payment is put down to us exactly when it followed an
\* action (agent.py, the terminal labels set on six paths of run_episode).
THEOREM OutcomesTrue == Spec => []OutcomeTruthful
<1>1. EpisodeInv => OutcomeTruthful
    BY DEF EpisodeInv
<1> QED
    BY <1>1, EpisodeInvariant, PTL

\* Neither arm of the experiment is looked at more often than it decides, nor more than
\* MAX_DECISIONS times, and the holdout is never touched (agent.py, run_episode).
THEOREM TrialIsFair == Spec => []FairTrial
<1>1. EpisodeInv => FairTrial
    BY DEF EpisodeInv
<1> QED
    BY <1>1, EpisodeInvariant, PTL

-----------------------------------------------------------------------------
(* What stops an episode. *)

\* Whole days: a span of that many days is not yet longer.
LEMMA DaysPassed ==
    ASSUME NEW span \in Nat, NEW day \in Nat \ {0}, NEW days \in Nat,
           span >= (days + 1) * day
    PROVE  span \div day > days
BY SMTT(30)

\* A pass that may still act is neither paid, nor opted out of, nor too old.
LEMMA DecidingIsLive ==
    ASSUME TypeOK, Deciding
    PROVE  ~ \/ ep.paid \/ ep.opted_out \/ ep.profile.opted_out
             \/ ep.now - ep.started >= (MaxDays + 1) * DayTicks
<1>1. ~ep.paid /\ ~OptedOut(ep) /\ ~(AgeDays(ep.started, ep.now) > MaxDays)
    BY DEF Deciding, EpisodeClosed
<1>2. /\ ep.now - ep.started \in Int /\ DayTicks \in Nat \ {0} /\ MaxDays \in Nat
      /\ (MaxDays + 1) * DayTicks \in Nat
    BY EpisodeTypes, ClockAssumption, LimitAssumption
<1>3. ~(ep.now - ep.started >= (MaxDays + 1) * DayTicks)
    <2> SUFFICES ASSUME ep.now - ep.started >= (MaxDays + 1) * DayTicks PROVE FALSE
        OBVIOUS
    <2>1. ep.now - ep.started \in Nat
        BY <1>2
    <2> QED
        BY <1>1, <1>2, <2>1, DaysPassed DEF AgeDays
<1> QED
    BY <1>1, <1>3 DEF OptedOut

\* Once the money is in, once the customer asked to be left alone, once the event is too
\* old: no pass of the treated loop acts, contacts, charges or asks the world any more
\* (agent.py step 0 and _episode_closed, in front of every decision).
THEOREM StopsForGood == Spec => NothingAfterStop
<1> DEFINE Stopped == \/ ep.paid \/ ep.opted_out \/ ep.profile.opted_out
                      \/ ep.now - ep.started >= (MaxDays + 1) * DayTicks
<1>1. ASSUME TypeOK, [Next]_vars, ep'.id = ep.id, ep.arm = "treatment", Stopped
      PROVE  UNCHANGED <<sent, totals, observed>>
    <2>1. ~Deciding
        BY <1>1, DecidingIsLive
    <2>2. CASE Close \/ Exhaust
        BY <1>1, <2>2, EndFields
    <2>3. CASE \E got \in BOOLEAN : HoldoutObserve(got)
        BY <1>1, <2>3 DEF HoldoutObserve
    <2>4. ASSUME NEW c, NEW m, NEW p, NEW arm, NEW start, StartEpisode(c, m, p, arm, start)
          PROVE  FALSE
        <3>1. ep.id \in Nat /\ ep'.id = ep.id + 1
            BY <1>1, <2>4, NewEpisodeFields, EpisodeTypes DEF Episodes
        <3> QED
            BY <1>1, <3>1
    <2>5. CASE UNCHANGED vars
        BY <2>5 DEF vars, memory, contacts_memory, budgets
    <2> QED
        BY <1>1, <2>1, <2>2, <2>3, <2>4, <2>5, StepCases
<1>2. TypeOK /\ [Next]_vars =>
         [(/\ ep'.id = ep.id /\ ep.arm = "treatment" /\ Stopped) =>
             UNCHANGED <<sent, totals, observed>>]_vars
    BY <1>1
<1> QED
    BY <1>2, TypeCorrect, PTL DEF Spec, NothingAfterStop

-----------------------------------------------------------------------------
(* What an action must have been allowed by. *)

\* A step that executes an action is Act, on a governed decision every rule let through.
LEMMA OnlyActActs ==
    ASSUME TypeOK, Next, Acted
    PROVE  \E g \in Governed, got \in BOOLEAN, quit \in BOOLEAN :
              /\ Act(g, got, quit)
              /\ Allowed(g.d, g.s, ep.now)
              /\ observed'.action = g.d.action
              /\ observed'.at = ShiftedAt(g.d, ep.now)
<1>1. /\ ep'.id = ep.id /\ totals' # totals /\ observed'.action # "NO_ACTION"
    BY DEF Acted
<1>2. ~(Close \/ Exhaust)
    BY <1>1, EndFields
<1>3. ~(\E got \in BOOLEAN : HoldoutObserve(got))
    BY <1>1 DEF HoldoutObserve, budgets
<1>4. ASSUME NEW c, NEW m, NEW p, NEW arm, NEW start, StartEpisode(c, m, p, arm, start)
      PROVE  FALSE
    BY <1>1, <1>4, NewEpisodeFields
<1>5. ~(UNCHANGED vars)
    BY <1>1 DEF vars, budgets
<1>6. ASSUME NEW g \in Governed, NEW got \in BOOLEAN, Refuse(g, got) \/ Withhold(g, got)
      PROVE  FALSE
    <2>1. \E prior, priced : Observe("NO_ACTION", ep.now, prior, priced)
        BY <1>6 DEF Refuse, Withhold
    <2> QED
        BY <1>1, <2>1, ObserveEffect
<1>7. PICK g \in Governed, got \in BOOLEAN, quit \in BOOLEAN : Act(g, got, quit)
    BY <1>2, <1>3, <1>4, <1>5, <1>6, StepCases
<1>8. Allowed(g.d, g.s, ep.now)
    BY <1>7 DEF Act
<1>9. \E prior, priced : Observe(g.d.action, ShiftedAt(g.d, ep.now), prior, priced)
    BY <1>7 DEF Act
<1>10. observed'.action = g.d.action /\ observed'.at = ShiftedAt(g.d, ep.now)
    BY <1>9, ObserveEffect
<1> QED
    BY <1>7, <1>8, <1>10

\* The state a decision is judged on repeats what the episode knows of itself, also when
\* it was built for the decision the mandate replaced.
LEMMA JudgedOnEpisode ==
    ASSUME NEW g \in Governed
    PROVE  /\ g.s.broken_promise = PromiseBrokenNow
           /\ g.s.pre_debit_at = ep.pre_debit_notice_at
           /\ g.s.mandate_attempts = ep.attempts
<1>1. PICK first \in Decide({}) :
         g \in {[d |-> d, s |-> StateFor(first)] :
                  d \in IF RequiresHuman(first) THEN Decide({"ESCALATE_HUMAN"}) ELSE {first}}
    BY DEF Governed
<1>2. g.s = StateFor(first)
    BY <1>1
<1> QED
    BY <1>2 DEF StateFor

\* The rules these two promises rest on.
LEMMA RulesOfTheEpisode ==
    ASSUME NEW d, NEW s, NEW now, Allowed(d, s, now)
    PROVE  /\ ~PromiseBroken(d, s) /\ ~AboveAutomationCeiling(d)
           /\ ~MandateAttemptsSpent(d, s) /\ ~PreDebitNoticeMissing(d, s, now)
<1>1. \A r \in RuleIds : r \notin RulesBlocked(d, s, now)
    BY DEF Allowed
<1>2. {"after_broken_promise_to_pay", "to_human_above_paise",
       "max_attempts_per_mandate_cycle", "pre_debit_notification_hours"} \subseteq RuleIds
    BY DEF RuleIds
<1> QED
    BY <1>1, <1>2 DEF RulesBlocked

\* Above the ceiling, and after a promise that was not kept, nothing but a human acts,
\* whatever the scores put first and whatever the mandated re-decision found (engine.py
\* to_human_above_paise and after_broken_promise_to_pay, agent.py GOVERN).
THEOREM HumansOnly == Spec => OnlyAHumanActs
<1> DEFINE Reserved == \/ ep.profile.amount > ToHumanAbove
                       \/ ep.promise_due_at # NoTime /\ ep.now > ep.promise_due_at
<1>1. ASSUME TypeOK, Next, Acted, Reserved
      PROVE  observed'.action = "ESCALATE_HUMAN"
    <2>1. PICK g \in Governed, got \in BOOLEAN, quit \in BOOLEAN :
             /\ Act(g, got, quit)
             /\ Allowed(g.d, g.s, ep.now)
             /\ observed'.action = g.d.action
             /\ observed'.at = ShiftedAt(g.d, ep.now)
        BY <1>1, OnlyActActs
    <2>2. g.d.action # "NO_ACTION"
        BY <1>1, <2>1 DEF Acted
    <2>3. ~PromiseBroken(g.d, g.s) /\ ~AboveAutomationCeiling(g.d)
        BY <2>1, RulesOfTheEpisode
    <2>4. CASE ep.profile.amount > ToHumanAbove
        <3>1. g.d.amount = ep.profile.amount
            BY <1>1, GovernedTypes DEF CandidateOf
        <3> QED
            BY <2>1, <2>2, <2>3, <2>4, <3>1 DEF AboveAutomationCeiling
    <2>5. CASE ep.promise_due_at # NoTime /\ ep.now > ep.promise_due_at
        <3>1. PromiseBrokenNow = TRUE
            <4>1. ep.promise_broken \in BOOLEAN
                BY <1>1 DEF TypeOK, Episodes
            <4> QED
                BY <2>5, <4>1 DEF PromiseBrokenNow
        <3>2. g.s.broken_promise = TRUE
            BY <3>1, JudgedOnEpisode
        <3> QED
            BY <2>1, <2>2, <2>3, <3>2 DEF PromiseBroken
    <2> QED
        BY <1>1, <2>4, <2>5
<1>2. TypeOK /\ [Next]_vars =>
         [(Acted /\ Reserved) => observed'.action = "ESCALATE_HUMAN"]_vars
    BY <1>1
<1> QED
    BY <1>2, TypeCorrect, PTL DEF Spec, OnlyAHumanActs

-----------------------------------------------------------------------------
(* Mandates. *)

\* The notice an episode remembers is a message the world was told of in this episode, at
\* the time it landed.
NoticeSent == ep.pre_debit_notice_at # NoTime => ep.pre_debit_notice_at \in observed.nudges

NoticeInv == TypeOK /\ NoticeSent

LEMMA NoticeStep ==
    ASSUME NoticeInv, [Next]_vars
    PROVE  NoticeInv'
<1>1. TypeOK' /\ TypeOK
    BY NextType DEF NoticeInv
<1>2. CASE Close \/ Exhaust
    <2>1. ep'.pre_debit_notice_at = ep.pre_debit_notice_at /\ observed' = observed
        BY <1>1, <1>2, EndFields
    <2> QED
        BY <1>1, <2>1 DEF NoticeInv, NoticeSent
<1>3. ASSUME NEW got \in BOOLEAN, HoldoutObserve(got)
      PROVE  NoticeInv'
    <2>1. observed.nudges \subseteq observed'.nudges
        BY <1>3, ObserveEffect DEF HoldoutObserve
    <2>2. ep'.pre_debit_notice_at = ep.pre_debit_notice_at
        BY <1>1, <1>3, HoldoutFields
    <2> QED
        BY <1>1, <2>1, <2>2 DEF NoticeInv, NoticeSent
<1>4. ASSUME NEW g \in Governed, NEW got \in BOOLEAN, Refuse(g, got) \/ Withhold(g, got)
      PROVE  NoticeInv'
    <2>1. \E prior, priced : Observe("NO_ACTION", ep.now, prior, priced)
        BY <1>4 DEF Refuse, Withhold
    <2>2. observed.nudges \subseteq observed'.nudges
        BY <2>1, ObserveEffect
    <2>3. ep'.pre_debit_notice_at = ep.pre_debit_notice_at
        BY <1>1, <1>4, RefuseFields, WithholdFields
    <2> QED
        BY <1>1, <2>2, <2>3 DEF NoticeInv, NoticeSent
\* Only what went out as a message is remembered as the notice.
<1>5. ASSUME NEW g \in Governed, NEW got \in BOOLEAN, NEW quit \in BOOLEAN,
             Act(g, got, quit)
      PROVE  NoticeInv'
    <2> DEFINE scheduled == ShiftedAt(g.d, ep.now)
    <2>1. ep'.pre_debit_notice_at =
             IF g.d.action = "NUDGE" /\ g.d.source = "mandate"
             THEN scheduled ELSE ep.pre_debit_notice_at
        BY <1>1, <1>5, ActFields
    <2>2. \E prior, priced : Observe(g.d.action, scheduled, prior, priced)
        BY <1>5 DEF Act
    <2> HIDE DEF scheduled
    <2>3. observed'.nudges = observed.nudges \cup {t \in {scheduled} : g.d.action = "NUDGE"}
        BY <2>2, ObserveEffect
    <2> QED
        BY <1>1, <2>1, <2>3 DEF NoticeInv, NoticeSent
<1>6. ASSUME NEW c \in Customers, NEW m \in Merchants, NEW p \in EventProfiles,
             NEW arm \in {"treatment", "holdout"}, NEW start \in StartTimes,
             StartEpisode(c, m, p, arm, start)
      PROVE  NoticeInv'
    <2>1. ep'.pre_debit_notice_at = NoTime
        BY <1>6, NewEpisodeFields
    <2> QED
        BY <1>1, <2>1 DEF NoticeInv, NoticeSent
<1>7. CASE UNCHANGED vars
    <2>1. ep' = ep /\ observed' = observed
        BY <1>7 DEF vars
    <2> QED
        BY <1>1, <2>1 DEF NoticeInv, NoticeSent
<1> QED
    BY <1>2, <1>3, <1>4, <1>5, <1>6, <1>7, StepCases

LEMMA NoticeInit == Init => NoticeInv
<1> SUFFICES ASSUME Init PROVE NoticeInv
    OBVIOUS
<1>1. PICK c \in Customers, m \in Merchants, p \in EventProfiles :
         ep = [NewEpisode(0, c, m, p, "treatment", 0) EXCEPT !.open = FALSE]
    BY DEF Init
<1>2. ep.pre_debit_notice_at = NoTime
    BY <1>1 DEF NewEpisode
<1> QED
    BY <1>2, InitType DEF NoticeInv, NoticeSent

LEMMA NoticeInvariant == Spec => []NoticeInv
<1>1. Init => NoticeInv
    BY NoticeInit
<1>2. NoticeInv /\ [Next]_vars => NoticeInv'
    BY NoticeStep
<1> QED
    BY <1>1, <1>2, PTL DEF Spec

\* A mandate is debited only when a message of this episode has LANDED the required time
\* before the debit lands, and no more often than a cycle allows (engine.py
\* pre_debit_notification_hours and max_attempts_per_mandate_cycle, agent.py:588).
THEOREM NoticeFirst == Spec => MandateDebits
<1> DEFINE Debit == /\ Acted /\ ep.profile.source = "mandate"
                    /\ observed'.action \in RETRY_ACTIONS
           Noticed == /\ \E t \in observed.nudges : observed'.at - t >= PreDebitTicks
                      /\ ep'.attempts <= MaxMandateAttempts
<1>1. ASSUME NoticeInv, Next, Debit
      PROVE  Noticed
    <2>1. PICK g \in Governed, got \in BOOLEAN, quit \in BOOLEAN :
             /\ Act(g, got, quit)
             /\ Allowed(g.d, g.s, ep.now)
             /\ observed'.action = g.d.action
             /\ observed'.at = ShiftedAt(g.d, ep.now)
        BY <1>1, OnlyActActs DEF NoticeInv
    <2>2. g.d.action \in RETRY_ACTIONS /\ g.d.source = "mandate"
        BY <1>1, <2>1, GovernedTypes DEF CandidateOf, NoticeInv
    <2>3. ~MandateAttemptsSpent(g.d, g.s) /\ ~PreDebitNoticeMissing(g.d, g.s, ep.now)
        BY <2>1, RulesOfTheEpisode
    <2>4. g.s.pre_debit_at = ep.pre_debit_notice_at /\ g.s.mandate_attempts = ep.attempts
        BY JudgedOnEpisode
    <2>5. /\ ep.now \in Nat /\ ep.attempts \in Nat /\ ep.pre_debit_notice_at \in MaybeTicks
          /\ ShiftedAt(g.d, ep.now) \in Nat /\ ShiftedAt(g.d, ep.now) >= ep.now
        BY <1>1, EpisodeTypes, ActTypes DEF NoticeInv, TypeOK, Episodes, Ticks
    <2>6. PreDebitTicks \in Nat /\ MaxMandateAttempts \in Nat
        BY LimitAssumption
    <2>7. ep.pre_debit_notice_at # NoTime /\ ep.pre_debit_notice_at \in Nat
          /\ ep.now - ep.pre_debit_notice_at >= PreDebitTicks
        BY <2>2, <2>3, <2>4, <2>5, <2>6 DEF PreDebitNoticeMissing, MaybeTicks
    <2>8. ep.pre_debit_notice_at \in observed.nudges
        BY <1>1, <2>7 DEF NoticeInv, NoticeSent
    <2>9. observed'.at - ep.pre_debit_notice_at >= PreDebitTicks
        BY <2>1, <2>5, <2>6, <2>7
    <2>10. ep'.attempts <= MaxMandateAttempts
        <3>1. ep'.attempts = ep.attempts + 1
            BY <1>1, <2>1, <2>2, ActFields DEF NoticeInv
        <3>2. ep.attempts < MaxMandateAttempts
            BY <2>2, <2>3, <2>4, <2>5, <2>6 DEF MandateAttemptsSpent
        <3> QED
            BY <2>5, <2>6, <3>1, <3>2
    <2> QED
        BY <2>8, <2>9, <2>10
<1>2. NoticeInv /\ [Next]_vars => [Debit => Noticed]_vars
    BY <1>1
<1> QED
    BY <1>2, NoticeInvariant, PTL DEF Spec, MandateDebits

-----------------------------------------------------------------------------
(* The audit trail. *)

\* The rows of the running episode are the last ones of the ledger, one per decision, and
\* no row is of an episode that has not been started.
Audited ==
    LedgerAttached =>
       LET rows  == RowsOf(ep.id)
           first == Len(ledger) - ep.decisions
       IN  /\ \A i \in DOMAIN ledger : ledger[i].event <= ep.id
           /\ ep.decisions <= Len(ledger)
           /\ rows = (first + 1)..Len(ledger)
           /\ \A i \in rows : ledger[i].seq = i - first - 1
           /\ SpentOn(rows) = ep.cost
           /\ WonBy(rows) = ep.recovered

AuditInv == EpisodeInv /\ Audited

LEMMA AuditedRow ==
    ASSUME TypeOK, Audited, LedgerAttached, NEW cost \in Nat, NEW won \in Nat,
           Log(cost, won), SameEpisode, ep.decisions = ep.seq,
           ep'.decisions = ep.decisions + 1,
           ep'.cost = ep.cost + cost, ep'.recovered = ep.recovered + won
    PROVE  Audited'
<1> DEFINE n     == Len(ledger)
           row   == Row(cost, won)
           rows  == RowsOf(ep.id)
           first == n - ep.decisions
<1>1. /\ n \in Nat /\ DOMAIN ledger = 1..n
      /\ \A i \in 1..n : /\ ledger[i].event \in Nat /\ ledger[i].seq \in Nat
                         /\ ledger[i].cost \in Nat /\ ledger[i].recovered \in Nat
    <2> DEFINE rowType == [event: Nat, seq: Nat, cost: Nat, recovered: Nat]
    <2>1. ledger \in Seq(rowType)
        BY DEF TypeOK
    <2>2. \A r \in rowType : r.event \in Nat /\ r.seq \in Nat /\ r.cost \in Nat
                              /\ r.recovered \in Nat
        OBVIOUS
    <2> HIDE DEF rowType
    <2> QED
        BY <2>1, <2>2
<1>2. ep.id \in Nat /\ ep.seq \in Nat /\ ep.decisions \in Nat /\ ep.cost \in Nat
      /\ ep.recovered \in Nat
    BY EpisodeTypes DEF Episodes
<1>3. /\ row.event = ep.id /\ row.seq = ep.seq /\ row.cost = cost /\ row.recovered = won
      /\ ledger' = Append(ledger, row)
    BY DEF Row, Log
<1>4. /\ Len(ledger') = n + 1 /\ DOMAIN ledger' = 1..(n + 1)
      /\ \A i \in 1..n : ledger'[i] = ledger[i]
      /\ ledger'[n + 1] = row
    BY <1>1, <1>3 DEF TypeOK
<1>5. /\ \A i \in 1..n : ledger[i].event <= ep.id
      /\ ep.decisions <= n
      /\ rows = (first + 1)..n
      /\ \A i \in rows : ledger[i].seq = i - first - 1
      /\ SpentOn(rows) = ep.cost /\ WonBy(rows) = ep.recovered
    BY <1>1 DEF Audited
<1>6. rows \subseteq 1..n /\ n + 1 \notin rows /\ IsFiniteSet(rows)
    <2>1. first \in Nat /\ n \in Int
        BY <1>1, <1>2, <1>5
    <2> DEFINE low == first + 1
    <2>2. low \in Int
        BY <2>1
    <2> HIDE DEF rows, first, n, low
    <2>3. IsFiniteSet(low..n)
        BY <2>1, <2>2, FS_Interval
    <2> QED
        BY <1>1, <1>5, <2>1, <2>3 DEF low
<1>7. RowsOf(ep.id)' = rows \cup {n + 1}
    <2>1. RowsOf(ep.id)' = {i \in 1..(n + 1) : ledger'[i].event = ep.id}
        BY <1>4 DEF RowsOf, SameEpisode
    <2>2. rows = {i \in 1..n : ledger[i].event = ep.id}
        BY <1>1 DEF RowsOf
    <2> HIDE DEF row, rows, n
    <2> QED
        BY <1>1, <1>3, <1>4, <2>1, <2>2
<1>8. SpentOn(RowsOf(ep.id))' = ep.cost + cost
    <2> DEFINE f == [i \in DOMAIN ledger |-> ledger[i].cost]
               g == [i \in DOMAIN ledger' |-> ledger'[i].cost]
    <2>1. /\ Summable(f, rows) /\ \A i \in rows : g[i] = f[i]
          /\ g[n + 1] = cost
        BY <1>1, <1>3, <1>4, <1>6 DEF Summable
    <2>2. SpentOn(rows) = SumOver(f, rows)
          /\ SpentOn(RowsOf(ep.id))' = SumOver(g, rows \cup {n + 1})
        BY <1>7 DEF SpentOn
    <2> DEFINE new == n + 1
    <2>3. g[new] = cost /\ g[new] \in Int /\ new \notin rows
        BY <1>6, <2>1
    <2>4. SpentOn(RowsOf(ep.id))' = SumOver(g, rows \cup {new})
        BY <2>2
    <2> HIDE DEF f, g, rows, n, new
    <2>5. SumOver(g, rows \cup {new}) = SumOver(f, rows) + g[new]
        BY <2>1, <2>3, SumExtend
    <2> QED
        BY <1>5, <2>2, <2>3, <2>4, <2>5
<1>9. WonBy(RowsOf(ep.id))' = ep.recovered + won
    <2> DEFINE f == [i \in DOMAIN ledger |-> ledger[i].recovered]
               g == [i \in DOMAIN ledger' |-> ledger'[i].recovered]
    <2>1. /\ Summable(f, rows) /\ \A i \in rows : g[i] = f[i]
          /\ g[n + 1] = won
        BY <1>1, <1>3, <1>4, <1>6 DEF Summable
    <2>2. WonBy(rows) = SumOver(f, rows)
          /\ WonBy(RowsOf(ep.id))' = SumOver(g, rows \cup {n + 1})
        BY <1>7 DEF WonBy
    <2> DEFINE new == n + 1
    <2>3. g[new] = won /\ g[new] \in Int /\ new \notin rows
        BY <1>6, <2>1
    <2>4. WonBy(RowsOf(ep.id))' = SumOver(g, rows \cup {new})
        BY <2>2
    <2> HIDE DEF f, g, rows, n, new
    <2>5. SumOver(g, rows \cup {new}) = SumOver(f, rows) + g[new]
        BY <2>1, <2>3, SumExtend
    <2> QED
        BY <1>5, <2>2, <2>3, <2>4, <2>5
<1>10. rows \cup {n + 1} = (first + 1)..(n + 1)
    <2>1. first \in Nat /\ first <= n
        BY <1>1, <1>2, <1>5
    <2> HIDE DEF rows, first, n
    <2> QED
        BY <1>1, <1>5, <2>1
<1>11. Len(ledger') - ep'.decisions = first
    <2> DEFINE taken == ep.decisions
    <2>1. n \in Nat /\ taken \in Nat /\ Len(ledger') = n + 1 /\ ep'.decisions = taken + 1
        BY <1>1, <1>2, <1>4
    <2>2. first = n - taken
        OBVIOUS
    <2> HIDE DEF n, taken, first
    <2> QED
        BY <2>1, <2>2
<1>12. \A i \in rows \cup {n + 1} : ledger'[i].seq = i - first - 1
    <2>1. first = n - ep.decisions /\ first \in Int
        BY <1>1, <1>2
    <2>2. ledger'[n + 1].seq = (n + 1) - first - 1
        BY <1>1, <1>2, <1>3, <1>4
    <2>3. ASSUME NEW i \in rows PROVE ledger'[i].seq = i - first - 1
        BY <1>4, <1>5, <1>6
    <2> HIDE DEF rows, row, first, n
    <2> QED
        BY <2>2, <2>3
<1>13. \A i \in 1..(n + 1) : ledger'[i].event <= ep'.id
    <2> HIDE DEF row, n
    <2> QED
        BY <1>1, <1>2, <1>3, <1>4, <1>5 DEF SameEpisode
<1> HIDE DEF row, n, rows, first
<1>14. ep'.decisions <= Len(ledger')
    BY <1>1, <1>2, <1>4, <1>5
<1>15. RowsOf(ep.id)' = rows \cup {n + 1}
    BY <1>7
<1> QED
    BY <1>4, <1>8, <1>9, <1>10, <1>11, <1>12, <1>13, <1>14, <1>15 DEF Audited

\* A pass of the loop, in either arm, adds the row of its decision.
LEMMA PassAudited ==
    ASSUME AuditInv, LedgerAttached, Deciding, NEW g \in Governed, NEW got \in BOOLEAN,
           \/ Refuse(g, got)
           \/ Withhold(g, got)
           \/ \E quit \in BOOLEAN : Act(g, got, quit)
    PROVE  Audited'
<1>1. TypeOK /\ Audited /\ ep.decisions = ep.seq /\ ep.cost \in Nat
    BY DecidingMeans, EpisodeTypes DEF AuditInv, EpisodeInv, Episodes
<1>2. Amount(got) \in Nat
    BY <1>1, EpisodeTypes DEF Amount, Profiles
<1>3. CASE Refuse(g, got)
    <2>1. /\ SameEpisode /\ ep'.decisions = ep.decisions + 1 /\ ep'.cost = ep.cost + 0
          /\ ep'.recovered = ep.recovered + Amount(got)
        BY <1>1, <1>3, RefuseFields
    <2>2. Log(0, Amount(got))
        BY <1>3 DEF Refuse
    <2> QED
        BY <1>1, <1>2, <2>1, <2>2, AuditedRow
<1>4. CASE Withhold(g, got)
    <2>1. /\ SameEpisode /\ ep'.decisions = ep.decisions + 1 /\ ep'.cost = ep.cost + 0
          /\ ep'.recovered = ep.recovered + Amount(got)
        BY <1>1, <1>4, WithholdFields
    <2>2. Log(0, Amount(got))
        BY <1>4 DEF Withhold
    <2> QED
        BY <1>1, <1>2, <2>1, <2>2, AuditedRow
<1>5. ASSUME NEW quit \in BOOLEAN, Act(g, got, quit) PROVE Audited'
    <2> DEFINE cost == CostOf(g.d, Seen)
    <2>1. /\ SameEpisode /\ ep'.decisions = ep.decisions + 1 /\ ep'.cost = ep.cost + cost
          /\ ep'.recovered = ep.recovered + Amount(got)
        BY <1>1, <1>5, ActFields
    <2>2. Log(cost, Amount(got))
        BY <1>5 DEF Act
    <2>3. cost \in Nat
        BY <1>1, ActTypes
    <2> HIDE DEF cost
    <2> QED
        BY <1>1, <1>2, <2>1, <2>2, <2>3, AuditedRow
<1> QED
    BY <1>3, <1>4, <1>5

LEMMA HoldoutAudited ==
    ASSUME AuditInv, LedgerAttached, NEW got \in BOOLEAN, HoldoutObserve(got)
    PROVE  Audited'
<1>1. TypeOK /\ Audited /\ ep.cost \in Nat
    BY EpisodeTypes DEF AuditInv, EpisodeInv, Episodes
<1>2. Amount(got) \in Nat
    BY <1>1, EpisodeTypes DEF Amount, Profiles
<1>3. ep.open /\ ep.arm = "holdout" /\ Log(0, Amount(got))
    BY DEF HoldoutObserve
<1>4. ep.decisions = ep.seq /\ ep.recovered = 0
    BY <1>3 DEF AuditInv, EpisodeInv, OpenEpisode
<1>5. /\ SameEpisode /\ ep'.decisions = ep.decisions + 1 /\ ep'.cost = ep.cost + 0
      /\ ep'.recovered = ep.recovered + Amount(got)
    BY <1>1, <1>2, <1>4, HoldoutFields
<1> QED
    BY <1>1, <1>2, <1>3, <1>4, <1>5, AuditedRow

\* What ends an episode logs nothing.
LEMMA NothingLogged ==
    ASSUME TypeOK, Audited, ledger' = ledger, ep'.id = ep.id,
           ep'.decisions = ep.decisions, ep'.cost = ep.cost, ep'.recovered = ep.recovered
    PROVE  Audited'
    BY DEF Audited, RowsOf, SpentOn, WonBy

\* The next episode has no row yet: its number is new.
LEMMA FreshAudited ==
    ASSUME TypeOK, Audited, LedgerAttached, ledger' = ledger, ep'.id = ep.id + 1,
           ep'.decisions = 0, ep'.cost = 0, ep'.recovered = 0
    PROVE  Audited'
<1>1. Len(ledger) \in Nat /\ DOMAIN ledger = 1..Len(ledger) /\ ep.id \in Nat
      /\ \A i \in DOMAIN ledger : ledger[i].event \in Nat
    <2> DEFINE rowType == [event: Nat, seq: Nat, cost: Nat, recovered: Nat]
    <2>1. ledger \in Seq(rowType)
        BY DEF TypeOK
    <2>2. \A r \in rowType : r.event \in Nat
        OBVIOUS
    <2> HIDE DEF rowType
    <2> QED
        BY <2>1, <2>2, EpisodeTypes, SMTT(20) DEF Episodes
<1>2. \A i \in DOMAIN ledger : ledger[i].event <= ep.id
    BY DEF Audited
<1>3. RowsOf(ep.id)' = {}
    BY <1>1, <1>2 DEF RowsOf
<1>4. SpentOn(RowsOf(ep.id))' = 0 /\ WonBy(RowsOf(ep.id))' = 0
    BY <1>3, SumEmpty DEF SpentOn, WonBy
<1>5. RowsOf(ep.id)' = ((Len(ledger) - 0) + 1)..Len(ledger)
    BY <1>1, <1>3
<1> QED
    BY <1>1, <1>2, <1>3, <1>4, <1>5 DEF Audited

LEMMA AuditStep ==
    ASSUME AuditInv, [Next]_vars
    PROVE  AuditInv'
<1>1. TypeOK /\ Audited /\ EpisodeInv'
    BY EpisodeInvStep DEF AuditInv, EpisodeInv
<1> SUFFICES ASSUME LedgerAttached PROVE Audited'
    BY <1>1 DEF AuditInv, Audited
<1>2. CASE Close \/ Exhaust
    <2>1. ledger' = ledger
        BY <1>2 DEF Close, Exhaust
    <2>2. ep'.id = ep.id /\ ep'.decisions = ep.decisions /\ ep'.cost = ep.cost
          /\ ep'.recovered = ep.recovered
        BY <1>1, <1>2, EndFields DEF SameEpisode
    <2> QED
        BY <1>1, <2>1, <2>2, NothingLogged
<1>3. ASSUME NEW c, NEW m, NEW p, NEW arm, NEW start, StartEpisode(c, m, p, arm, start)
      PROVE  Audited'
    <2>1. ledger' = ledger
        BY <1>3 DEF StartEpisode
    <2>2. ep'.id = ep.id + 1 /\ ep'.decisions = 0 /\ ep'.cost = 0 /\ ep'.recovered = 0
        BY <1>3, NewEpisodeFields
    <2> QED
        BY <1>1, <2>1, <2>2, FreshAudited
<1>4. CASE UNCHANGED vars
    <2>1. ep' = ep /\ ledger' = ledger
        BY <1>4 DEF vars
    <2> QED
        BY <1>1, <2>1, NothingLogged
<1> QED
    BY <1>2, <1>3, <1>4, StepCases, PassAudited, HoldoutAudited

LEMMA AuditInit == Init => AuditInv
<1> SUFFICES ASSUME Init PROVE AuditInv
    OBVIOUS
<1>1. EpisodeInv /\ TypeOK /\ ledger = <<>>
    BY EpisodeInvInit DEF EpisodeInv, Init
<1>2. PICK c \in Customers, m \in Merchants, p \in EventProfiles :
         ep = [NewEpisode(0, c, m, p, "treatment", 0) EXCEPT !.open = FALSE]
    BY DEF Init
<1>3. ep.id = 0 /\ ep.decisions = 0 /\ ep.cost = 0 /\ ep.recovered = 0
    BY <1>2 DEF NewEpisode
<1>4. DOMAIN ledger = {} /\ Len(ledger) = 0 /\ RowsOf(ep.id) = {}
    BY <1>1 DEF RowsOf
<1>5. SpentOn(RowsOf(ep.id)) = 0 /\ WonBy(RowsOf(ep.id)) = 0
    BY <1>4, SumEmpty DEF SpentOn, WonBy
<1>6. RowsOf(ep.id) = ((Len(ledger) - 0) + 1)..Len(ledger)
    BY <1>4
<1> QED
    BY <1>1, <1>3, <1>4, <1>5, <1>6 DEF AuditInv, Audited

LEMMA AuditInvariant == Spec => []AuditInv
<1>1. Init => AuditInv
    BY AuditInit
<1>2. AuditInv /\ [Next]_vars => AuditInv'
    BY AuditStep
<1> QED
    BY <1>1, <1>2, PTL DEF Spec

\* The ledger is the audit trail it is meant to be (agent.py, _log at the end of every
\* pass): whatever way the passes of an episode end, it has one row per decision, numbered
\* in order, and their costs and recoveries add up to those of the episode's result.
THEOREM LedgerIsFaithful == Spec => []LedgerFaithful
<1>1. ASSUME AuditInv PROVE LedgerFaithful
    <2> SUFFICES ASSUME LedgerAttached PROVE LedgerFaithful
        BY DEF LedgerFaithful
    <2> DEFINE n == Len(ledger)
               first == n - ep.decisions
    <2>1. /\ RowsOf(ep.id) = (first + 1)..n /\ ep.decisions <= n
          /\ \A i \in RowsOf(ep.id) : ledger[i].seq = i - first - 1
          /\ SpentOn(RowsOf(ep.id)) = ep.cost /\ WonBy(RowsOf(ep.id)) = ep.recovered
        BY <1>1 DEF AuditInv, Audited
    <2>2. n \in Int /\ ep.decisions \in Nat
        BY <1>1, EpisodeTypes DEF AuditInv, EpisodeInv, Episodes, TypeOK
    <2> DEFINE low == first + 1
    <2>3. low \in Int /\ n - low + 1 = ep.decisions /\ (low > n => ep.decisions = 0)
        <3> HIDE DEF n
        <3> QED
            BY <2>1, <2>2
    <2> HIDE DEF low, n
    <2>4. Cardinality(low..n) = IF low > n THEN 0 ELSE n - low + 1
        BY <2>2, <2>3, FS_Interval
    <2>5. Cardinality(RowsOf(ep.id)) = ep.decisions
        BY <2>1, <2>3, <2>4 DEF low
    <2> QED
        BY <2>1, <2>5 DEF LedgerFaithful, n
<1> QED
    BY <1>1, AuditInvariant, PTL

-----------------------------------------------------------------------------
(* The loop runs down. *)

\* A pass of an open episode that leaves it closed, or one decision further on, has used up
\* some of what was left.
LEMMA LessLeft ==
    ASSUME EpisodeInv, ep.open, ep'.open => ep'.seq = ep.seq + 1
    PROVE  Remaining' < Remaining
<1>1. ep.seq \in Nat /\ ep.seq <= MAX_DECISIONS /\ MAX_DECISIONS \in Nat
    <2>1. ep.seq \in Nat
        BY EpisodeTypes DEF EpisodeInv, Episodes
    <2> QED
        BY <2>1, LoopAssumption DEF EpisodeInv, OpenEpisode
<1> DEFINE before == ep.seq
           after  == ep'.seq
           limit  == MAX_DECISIONS
<1>2. Remaining = limit + 1 - before
    BY DEF Remaining
<1>3. Remaining' = IF ep'.open THEN limit + 1 - after ELSE 0
    BY DEF Remaining
<1>4. before \in Nat /\ limit \in Nat /\ before <= limit /\ (ep'.open => after = before + 1)
    BY <1>1
<1> HIDE DEF before, after, limit
<1>5. CASE ep'.open
    BY <1>2, <1>3, <1>4, <1>5
<1>6. CASE ~ep'.open
    BY <1>2, <1>3, <1>4, <1>6
<1> QED
    BY <1>5, <1>6

\* No chain of refusals, blocks, missing templates and quiet hours keeps the loop running:
\* each of its passes uses up a decision or ends the episode (agent.py, run_episode's
\* range(MAX_DECISIONS + 1), whose every path ends in a break, a return or a continue).
THEOREM PassesRunOut == Spec => EveryPassCounts
<1>1. ASSUME EpisodeInv, [Next]_vars, ep'.id = ep.id, vars' # vars
      PROVE  Remaining' < Remaining
    <2>1. CASE Close \/ Exhaust
        <3>1. ep.open
            BY <2>1 DEF Close, Exhaust, InLoop
        <3>2. ep'.open = FALSE
            BY <1>1, <2>1, EndFields DEF EpisodeInv
        <3> QED
            BY <1>1, <3>1, <3>2, LessLeft
    <2>2. ASSUME NEW got \in BOOLEAN, HoldoutObserve(got)
          PROVE  Remaining' < Remaining
        <3>1. ep.open
            BY <2>2 DEF HoldoutObserve
        <3>2. ep'.open => ep'.seq = ep.seq + 1
            BY <1>1, <2>2, HoldoutFields DEF EpisodeInv
        <3> QED
            BY <1>1, <3>1, <3>2, LessLeft
    <2>3. ASSUME Deciding, NEW g \in Governed, NEW got \in BOOLEAN,
                 \/ Refuse(g, got)
                 \/ Withhold(g, got)
                 \/ \E quit \in BOOLEAN : Act(g, got, quit)
          PROVE  Remaining' < Remaining
        <3>1. ep.open
            BY <2>3 DEF Deciding, InLoop
        <3>2. ep'.seq = ep.seq + 1
            BY <1>1, <2>3, RefuseFields, WithholdFields, ActFields DEF EpisodeInv
        <3> QED
            BY <1>1, <3>1, <3>2, LessLeft
    <2>4. ASSUME NEW c, NEW m, NEW p, NEW arm, NEW start, StartEpisode(c, m, p, arm, start)
          PROVE  FALSE
        <3>1. ep.id \in Nat /\ ep'.id = ep.id + 1
            BY <1>1, <2>4, NewEpisodeFields, EpisodeTypes DEF EpisodeInv, Episodes
        <3> QED
            BY <1>1, <3>1
    <2> QED
        BY <1>1, <2>1, <2>2, <2>3, <2>4, StepCases
<1>2. EpisodeInv /\ [Next]_vars => [ep'.id = ep.id => Remaining' < Remaining]_vars
    BY <1>1
<1> QED
    BY <1>2, EpisodeInvariant, PTL DEF Spec, EveryPassCounts

-----------------------------------------------------------------------------
(* There is always something to decide. *)

\* Refusing to act is the one action type an episode never withholds.
MayRefuse == "NO_ACTION" \notin ep.refused_actions

\* The only assignment of refused_actions, and its guard.
LEMMA MayRefuseStep ==
    ASSUME TypeOK, MayRefuse, [Next]_vars
    PROVE  MayRefuse'
<1>1. ep \in Episodes /\ Decided \in Episodes /\ Decided.refused_actions = ep.refused_actions
    BY EpisodeTypes, DecidedType DEF Decided, Episodes
<1>2. CASE UNCHANGED ep.refused_actions
    BY <1>2 DEF MayRefuse
<1>3. ASSUME NEW c, NEW m, NEW p, NEW arm, NEW start, StartEpisode(c, m, p, arm, start)
      PROVE  MayRefuse'
    BY <1>3 DEF StartEpisode, NewEpisode, MayRefuse
<1>4. CASE Close \/ Exhaust \/ \E got \in BOOLEAN : HoldoutObserve(got)
    <2>1. UNCHANGED ep.refused_actions
        BY <1>1, <1>4 DEF Close, Exhaust, HoldoutObserve, Episodes
    <2> QED
        BY <1>2, <2>1
<1>5. ASSUME NEW g \in Governed, NEW got \in BOOLEAN, Block(g, got) \/ NoTemplate(g, got)
      PROVE  MayRefuse'
    <2> DEFINE refused    == Decided.refused_actions \cup {g.d.action}
               amount     == Decided.recovered + Amount(got)
               paid       == Decided.paid \/ got
               unprompted == Decided.paid_unprompted \/ got
               now        == IF got THEN Decided.now ELSE Decided.now + CoolOffTicks
    <2>1. g.d.action # "NO_ACTION" /\ Withhold(g, got)
        BY <1>5 DEF Block, NoTemplate
    <2>2. ep' = [Decided EXCEPT !.refused_actions = refused, !.recovered = amount,
                                !.paid = paid, !.paid_unprompted = unprompted, !.now = now]
        BY <2>1 DEF Withhold
    <2>3. "NO_ACTION" \notin refused
        BY <1>1, <2>1 DEF MayRefuse
    <2> HIDE DEF refused, amount, paid, unprompted, now
    <2>4. ep'.refused_actions = refused
        BY <1>1, <2>2 DEF Episodes
    <2> QED
        BY <2>3, <2>4 DEF MayRefuse
<1>6. ASSUME NEW g \in Governed, NEW got \in BOOLEAN,
             Refuse(g, got) \/ \E quit \in BOOLEAN : Act(g, got, quit)
      PROVE  MayRefuse'
    <2>1. UNCHANGED ep.refused_actions
        BY <1>1, <1>6 DEF Refuse, Act, Episodes
    <2> QED
        BY <1>2, <2>1
<1>7. CASE UNCHANGED vars
    BY <1>2, <1>7 DEF vars
<1> QED
    BY <1>3, <1>4, <1>5, <1>6, <1>7 DEF Next, Step, Arrive, BatchOver

\* With NO_ACTION not refused, every diagnosis leaves at least one candidate to decide for.
LEMMA SomethingDecided ==
    ASSUME TypeOK, MayRefuse, NEW force
    PROVE  Decide(force) # {}
<1>1. PICK class \in ep.profile.classes : TRUE
    <2>1. ep.profile \in Profiles
        BY EpisodeTypes
    <2> QED
        BY <2>1 DEF Profiles
<1> DEFINE considered == {d \in CandidateActions(ep.profile, class, ep.now) : ~Refused(d)}
           mandated   == {d \in considered : d.action \in force}
           refusal    == Option(ep.profile, class, "NO_ACTION", NoTime, NoChannel)
<1>2. refusal \in CandidateActions(ep.profile, class, ep.now)
    BY DEF CandidateActions
<1>3. refusal.action = "NO_ACTION"
    BY DEF Option
<1>4. refusal \in considered
    BY <1>2, <1>3 DEF Refused, MayRefuse
<1>5. PICK d : d \in (IF mandated # {} THEN mandated ELSE considered)
    BY <1>4
<1>6. d \in Decide(force)
    BY <1>1, <1>5 DEF Decide
<1> QED
    BY <1>6

\* A full map of days has a day as old as any.
LEMMA SomethingEvictable ==
    ASSUME TypeOK, IsFiniteSet(DOMAIN merchant_days), NEW key
    PROVE  Evictable(key) # {}
<1> DEFINE held == DOMAIN merchant_days
           days == {k[2] : k \in held}
<1>1. MAX_MERCHANT_DAYS \in Nat \ {0}
    BY LoopAssumption
<1>2. CASE key \in held \/ Cardinality(held) < MAX_MERCHANT_DAYS
    BY <1>2 DEF Evictable
<1>3. CASE ~(key \in held \/ Cardinality(held) < MAX_MERCHANT_DAYS)
    <2>1. held # {}
        BY <1>1, <1>3, FS_EmptySet
    <2>2. held \subseteq Merchants \X Nat
        BY TypeOKBudgets DEF BudgetsType, DaysType
    <2>3. days \subseteq Nat /\ days # {}
        BY <2>1, <2>2
    <2>4. PICK n \in days : \A m \in days : n <= m
        <3> HIDE DEF days
        <3> QED
            BY <2>3, Least
    <2>5. PICK old \in held : old[2] = n
        BY <2>4
    <2>6. \A other \in held : old[2] <= other[2]
        BY <2>4, <2>5
    <2>7. {old} \in Evictable(key)
        BY <1>3, <2>5, <2>6 DEF Evictable
    <2> QED
        BY <2>7
<1> QED
    BY <1>2, <1>3

\* Whatever has been refused, blocked or spent, an episode that may decide has a decision to
\* take, also where a human is mandated, and a day to charge it to: the loop never raises on
\* an empty choice (agent.py, _decide's max over the candidates that remain; merchant_day's
\* min over the days it holds).
THEOREM AlwaysADecision == Spec => []NeverStuck
<1>1. Init => MayRefuse
    BY DEF Init, NewEpisode, MayRefuse
<1>2. TypeOK /\ MayRefuse /\ [Next]_vars => MayRefuse'
    BY MayRefuseStep
<1>3. TypeOK /\ MayRefuse /\ MemoryInv => NeverStuck
    <2> SUFFICES ASSUME TypeOK, MayRefuse, MemoryInv
                 PROVE  Governed # {} /\ Evictable(Today(ep)) # {}
        BY DEF NeverStuck
    <2>1. PICK first \in Decide({}) : TRUE
        BY SomethingDecided
    <2>2. PICK d : d \in (IF RequiresHuman(first) THEN Decide({"ESCALATE_HUMAN"})
                          ELSE {first})
        BY SomethingDecided
    <2>3. [d |-> d, s |-> StateFor(first)] \in Governed
        BY <2>1, <2>2 DEF Governed
    <2>4. Evictable(Today(ep)) # {}
        BY SomethingEvictable DEF MemoryInv
    <2> QED
        BY <2>3, <2>4
<1> QED
    BY <1>1, <1>2, <1>3, TypeCorrect, MemoryInvariant, PTL DEF Spec
=============================================================================
