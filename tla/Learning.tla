------------------------------ MODULE Learning ------------------------------
(***************************************************************************)
(* What one Agent learns over its episodes (src/decide/bandit.py and the   *)
(* calls that run_episode makes to it): a posterior per failure class and  *)
(* action, one per source of diagnosis, and the decisions that are priced  *)
(* from them.  The world's answers, the Thompson draws and the verdicts of *)
(* the contract are nondeterministic.  Weights are in quarters.            *)
(*                                                                         *)
(* Episodes run one after another in the order their events were observed, *)
(* each on a clock of its own that may run days ahead of the next one's.   *)
(***************************************************************************)
EXTENDS Ranking, Sequences, Sums

CONSTANTS
    Classes,                \* failure classes in play
    EventProfiles,          \* what an event looks like to the scorer
    Starts,                 \* bound: times at which an event may be observed
    MaxEpisodes,            \* bound
    Draws,                  \* bound: the Thompson draws that are told apart
    CoolOff, FollowUp,      \* hours after a refusal or a block, after an action
    Shifts                  \* hours by which quiet hours may push an action

DiagnosisSources == {"taxonomy", "blended", "model"}
NoSource == "none"
W == 4

ASSUME LearningAssumption ==
    /\ Starts \subseteq Nat
    /\ {MaxEpisodes, CoolOff, FollowUp} \subseteq Nat
    /\ Draws \subseteq 0..1000 /\ Draws # {}
    /\ Shifts \subseteq Nat

\* An opinion is a distribution over the classes (DiagnosisProposal.distribution); bound: a
\* class gets none of it, half or all.
Profiles ==
    [class: Classes, customer: BOOLEAN, consulted: BOOLEAN, opinion: [Classes -> {0, 2, 4}],
     hours: SUBSET Nat, clears_in: Nat, recoveries: Nat, failures: Nat, value: Nat]

ASSUME ProfileAssumption ==
    /\ IsFiniteSet(Classes)
    /\ EventProfiles \subseteq Profiles
    /\ \A p \in EventProfiles : SumOver(p.opinion, Classes) = W

VARIABLES
    cells,      \* PropensityModel._cells
    sources,    \* PropensityModel._sources
    explore,    \* Agent.explore, set once
    ep,         \* the episode: its clock and what it has done
    decision,   \* history: the last decision and what it could know
    told,       \* history: the world's answers by action asked about: [asked, paid]
    vouched     \* history: what came of the decisions carried out on each source's word

vars == <<cells, sources, explore, ep, decision, told, vouched>>

Prior == [alpha |-> W, beta |-> W]

-----------------------------------------------------------------------------
(* BetaPosterior and PropensityModel *)

\* BetaPosterior.updated
Updated(post, success, weight) ==
    IF weight <= 0 THEN post
    ELSE IF success THEN [post EXCEPT !.alpha = @ + weight]
    ELSE [post EXCEPT !.beta = @ + weight]

Mean(post) == (1000 * post.alpha) \div (post.alpha + post.beta)

PosteriorIn(map, key) == IF key \in DOMAIN map THEN map[key] ELSE Prior

With(map, key, post) == [k \in DOMAIN map \cup {key} |-> IF k = key THEN post ELSE map[k]]

\* The classes a belief gives any weight to.
Support(beliefs) == {c \in Classes : beliefs[c] > 0}

UpdateDistribution(beliefs, action, success) ==
    LET touched == Support(beliefs) \X {action}
    IN  [k \in DOMAIN cells \cup touched |->
            IF k \in touched THEN Updated(PosteriorIn(cells, k), success, beliefs[k[1]])
            ELSE cells[k]]

UpdateSource(source, success) ==
    With(sources, source, Updated(PosteriorIn(sources, source), success, W))

\* expected_marginal
ExpectedMarginal(beliefs, action) ==
    SumOver([c \in Classes |-> beliefs[c] * Mean(PosteriorIn(cells, <<c, action>>))],
            Support(beliefs)) \div W

\* sample_source may settle on any; expected_source takes the best mean.
TrustedSources ==
    IF explore THEN DiagnosisSources
    ELSE {s \in DiagnosisSources : \A t \in DiagnosisSources :
             Mean(PosteriorIn(sources, t)) <= Mean(PosteriorIn(sources, s))}

\* _shrink: the model's opinion, the taxonomy's class, or half of each.
Shrink(opinion, prior, source) ==
    [c \in Classes |->
        LET known == IF c = prior THEN W ELSE 0
        IN  CASE source = "taxonomy" -> known
              [] source = "model"    -> opinion[c]
              [] source = "blended"  -> (known + opinion[c]) \div 2]

\* _diagnose: who is trusted and what is believed.  Without a model there is nobody to
\* credit and the taxonomy's class is certain.
Diagnoses(profile) ==
    IF ~profile.consulted
    THEN {[trust |-> NoSource, beliefs |-> Shrink(profile.opinion, profile.class, "taxonomy")]}
    ELSE {[trust |-> s, beliefs |-> Shrink(profile.opinion, profile.class, s)] :
              s \in TrustedSources}

-----------------------------------------------------------------------------
(* Episodes. *)

NoDecision == [action |-> "NO_ACTION", p |-> 0, base |-> 0, price |-> 0,
               charge |-> 0, customer |-> TRUE, forced |-> FALSE]

NewEpisode(n, profile, arm, start) ==
    [id |-> n, open |-> TRUE, arm |-> arm, profile |-> profile, started |-> start,
     now |-> start, seq |-> 0, contacts |-> 0, attempts |-> 0, refused |-> {}]

Init ==
    /\ cells = <<>> /\ sources = <<>>
    /\ explore \in BOOLEAN
    /\ \E p \in EventProfiles : ep = [NewEpisode(0, p, "treatment", 0) EXCEPT !.open = FALSE]
    /\ decision = NoDecision
    /\ told = [a \in ActionTypes |-> [asked |-> 0, paid |-> 0]]
    /\ vouched = [s \in DiagnosisSources |-> [paid |-> 0, unpaid |-> 0]]

\* load_cohort sorts the events by the time they were observed.
StartEpisode(profile, arm, start) ==
    /\ ~ep.open /\ ep.id < MaxEpisodes
    /\ start >= ep.started
    /\ ep' = NewEpisode(ep.id + 1, profile, arm, start)
    /\ UNCHANGED <<cells, sources, explore, decision, told, vouched>>

\* The control arm is watched and teaches the model nothing.
HoldoutObserve(got) ==
    /\ ep.open /\ ep.arm = "holdout"
    /\ ep' = [ep EXCEPT !.seq = @ + 1, !.now = @ + CoolOff,
                        !.open = ~got /\ ep.seq < MAX_DECISIONS - 1]
    /\ UNCHANGED <<cells, sources, explore, decision, told, vouched>>

\* `seen` is the count of the customer's contacts in the last seven days, in whatever episode
\* they were made; the pass computes it once.
Context(dx, seen) ==
    LET p == ep.profile
        top == CHOOSE c \in Classes : \A d \in Classes : dx.beliefs[d] <= dx.beliefs[c]
    IN  [now |-> ep.now, class |-> top, attempt |-> 1 + ep.attempts, contacts |-> seen,
         hours |-> p.hours, clears_in |-> p.clears_in, recoveries |-> p.recoveries,
         failures |-> p.failures, value |-> p.value,
         steps_remaining |-> MAX_DECISIONS - ep.seq]

\* A merchant's own bug offers a human or nothing.
Offered(p) == IF p.customer THEN Slate
              ELSE {c \in Slate : c.action \in {"NO_ACTION", "ESCALATE_HUMAN"}}

\* One draw per action type and decision, or the mean when the agent does not explore; there
\* is none for refusing.
DrawsFor(dx) ==
    LET arms == {c.action : c \in {d \in Slate : ~Resting(d)}}
    IN  IF explore THEN [arms -> Draws]
        ELSE {[a \in arms |-> ExpectedMarginal(dx.beliefs, a)]}

\* _decide, the second time with a mandated type.
Decisions(dx, force, seen) ==
    LET x    == Context(dx, seen)
        mean == ExpectedMarginal(dx.beliefs, "NO_ACTION")
        left == Considered(Offered(ep.profile), ep.refused, force)
    IN  UNION {Choose(Priced(x, left, mean, draw)) : draw \in DrawsFor(dx)}

Mandates == {"none", "ESCALATE_HUMAN"}

\* _is_customer_contact, _cost_of
IsCustomerContact(d) ==
    d.action = "NUDGE" \/ (d.action = "ESCALATE_HUMAN" /\ ep.profile.customer)

\* Mutant: the charge goes by the contacts of the episode, which start at none.
Charge_EpisodeTally(d, seen) ==
    d.direct + (IF IsCustomerContact(d) THEN AttentionCost[ep.contacts] ELSE 0)

Charge(d, seen) ==
    d.direct + (IF IsCustomerContact(d) THEN AttentionCost[seen] ELSE 0)

Record(d, dx, force, seen) ==
    decision' =
        [action |-> d.action, p |-> d.p,
         base |-> Baseline(Context(dx, seen), ExpectedMarginal(dx.beliefs, "NO_ACTION")),
         price |-> d.direct + d.attention, charge |-> Charge(d, seen),
         customer |-> ep.profile.customer, forced |-> force # "none"]

\* update_distribution with the action the world was asked about, and its answer.
Learn(dx, action, got) ==
    /\ cells' = UpdateDistribution(dx.beliefs, action, got)
    /\ told' = [told EXCEPT ![action] =
                   [asked |-> @.asked + 1, paid |-> @.paid + (IF got THEN 1 ELSE 0)]]

Credit(dx, got) ==
    IF dx.trust = NoSource THEN UNCHANGED sources
    ELSE sources' = UpdateSource(dx.trust, got)

\* History: a decision was carried out on the word of `trust`, and this came of it.
CarriedOut(trust, got) ==
    vouched' = [s \in DiagnosisSources |->
                  [paid   |-> vouched[s].paid + (IF s = trust /\ got THEN 1 ELSE 0),
                   unpaid |-> vouched[s].unpaid + (IF s = trust /\ ~got THEN 1 ELSE 0)]]

\* The next pass, unless the episode is over or its decisions are spent.
NextPass(e, over, now) ==
    ep' = [e EXCEPT !.seq = @ + 1, !.now = now, !.open = ~over /\ e.seq < MAX_DECISIONS - 1]

Deciding == ep.open /\ ep.arm = "treatment"

Refuse(dx, d, got) ==
    /\ d.action = "NO_ACTION"
    /\ Learn(dx, "NO_ACTION", got)
    /\ Credit(dx, got)
    /\ NextPass(ep, got, ep.now + CoolOff)

\* Mutant: a message that never went out is scored as one that did.
Withhold_CreditsAction(dx, d, got) ==
    /\ d.action # "NO_ACTION"
    /\ cells' = UpdateDistribution(dx.beliefs, d.action, got)
    /\ told' = [told EXCEPT !["NO_ACTION"] =
                   [asked |-> @.asked + 1, paid |-> @.paid + (IF got THEN 1 ELSE 0)]]
    /\ UNCHANGED sources
    /\ NextPass([ep EXCEPT !.refused = @ \cup {d.action}], got, ep.now + CoolOff)

\* Mutant: whoever was trusted answers for what was never done.
Withhold_CreditsTrust(dx, d, got) ==
    /\ d.action # "NO_ACTION"
    /\ Learn(dx, "NO_ACTION", got)
    /\ Credit(dx, got)
    /\ NextPass([ep EXCEPT !.refused = @ \cup {d.action}], got, ep.now + CoolOff)

\* Blocked by the contract, or without a template: nothing was done and nobody is credited.
Withhold(dx, d, got) ==
    /\ d.action # "NO_ACTION"
    /\ Learn(dx, "NO_ACTION", got)
    /\ UNCHANGED sources
    /\ NextPass([ep EXCEPT !.refused = @ \cup {d.action}], got, ep.now + CoolOff)

\* The action is learned from at once, at the time it is scheduled for.
Act(dx, d, shift, got, quit) ==
    LET at == ep.now + d.offset + shift
        e  == [ep EXCEPT !.contacts = @ + (IF IsCustomerContact(d) THEN 1 ELSE 0),
                         !.attempts = @ + (IF d.action \in RETRY_ACTIONS THEN 1 ELSE 0)]
    IN  /\ d.action # "NO_ACTION"
        /\ shift = 0 \/ d.action \in CONTACT_ACTIONS
        /\ quit => IsCustomerContact(d)
        /\ Learn(dx, d.action, got)
        /\ Credit(dx, got)
        /\ NextPass(e, got \/ quit, at + FollowUp)

Pass ==
    /\ Deciding
    /\ \E dx \in Diagnoses(ep.profile), force \in Mandates, seen \in ContactCounts :
         \E d \in Decisions(dx, force, seen), got \in BOOLEAN :
           /\ Record(d, dx, force, seen)
           /\ \/ /\ \/ Refuse(dx, d, got)
                    \/ \E shift \in Shifts, quit \in BOOLEAN : Act(dx, d, shift, got, quit)
                 /\ CarriedOut(dx.trust, got)
              \/ Withhold(dx, d, got) /\ UNCHANGED vouched
    /\ UNCHANGED explore

Next ==
    \/ \E p \in EventProfiles, arm \in {"treatment", "holdout"}, t \in Starts :
          StartEpisode(p, arm, t)
    \/ \E got \in BOOLEAN : HoldoutObserve(got)
    \/ Pass

Spec == Init /\ [][Next]_vars

-----------------------------------------------------------------------------
(* Properties. *)

\* Over all classes, the evidence that the model holds about an action is one observation
\* for every time the world was asked about that action in a treated episode, and the
\* successes in it are the payments seen: whatever the belief spreads is neither lost nor
\* counted twice, a message that was never sent teaches nothing about messages, and the
\* control arm teaches nothing at all (update_distribution, _shrink, run_episode).
CellsAccountForWorld ==
    \A a \in ActionTypes :
        LET held == {k \in DOMAIN cells : k[2] = a}
        IN  /\ SumOver([k \in held |-> cells[k].alpha - W], held) = W * told[a].paid
            /\ SumOver([k \in held |-> cells[k].beta - W], held)
                   = W * (told[a].asked - told[a].paid)

\* What each source of diagnosis is trusted by is its own record, one observation for every
\* decision that was carried out on its word: the payments that followed in its favour, the
\* others against it.  Nothing is added for what the contract or a missing template withheld
\* on its word, nothing for another source, and nothing forgotten (run_episode,
\* update_source).
TrustAccountsForDecisions ==
    \A s \in DiagnosisSources :
        PosteriorIn(sources, s) = [alpha |-> W + W * vouched[s].paid,
                                   beta  |-> W + W * vouched[s].unpaid]

\* Unless the contract mandates it, the agent acts only when it believes that acting makes
\* payment likelier than leaving the customer alone: no draw, timing, outage or track
\* record sells an action on a payment that would come anyway (score_candidates, choose).
ActsOnlyForUplift ==
    decision.action # "NO_ACTION" /\ ~decision.forced => decision.p > decision.base

\* What is charged for an action is what it was priced at when it was chosen, however many
\* contacts other episodes made with the customer meanwhile; only where the human asked is
\* the merchant's own is the attention that was priced not charged (score_candidates by
\* the history it is handed, _cost_of by `seen`).
PricedIsCharged ==
    IF decision.customer THEN decision.charge = decision.price
    ELSE decision.charge <= decision.price

\* Every chance that a decision is priced by and recorded with is one: attempts, timing,
\* outages, fatigue and the track record, however they pile up, never make it negative, nor
\* more certain than the cap (multipliers.adjust).
ChancesBounded == decision.p \in 0..970 /\ decision.base \in 0..970

\* Whoever is trusted, whatever is refused or mandated, one candidate is chosen: choose is
\* never handed an empty list (ev.choose, whose max raises on one, and _decide's filters).
ChoiceExists ==
    Deciding =>
       /\ Diagnoses(ep.profile) # {}
       /\ \A dx \in Diagnoses(ep.profile), force \in Mandates, seen \in ContactCounts :
             Decisions(dx, force, seen) # {}
=============================================================================
