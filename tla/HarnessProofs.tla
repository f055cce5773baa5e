---------------------------- MODULE HarnessProofs ---------------------------
(***************************************************************************)
(* The trial and its report.  The trial for any truth, any draws, any      *)
(* number of decisions and any times an action may be scheduled for: the   *)
(* harness itself favours neither arm, which needs HoldoutHasTime of the   *)
(* constants.  The report for any episodes in each arm: its headlines      *)
(* agree with each other and its surfaces add up.                          *)
(***************************************************************************)
EXTENDS Trial, Metrics, SumProofs

\* The control arm is given all its decisions before the event is too old: it waits a
\* cool-off after each, the treated arm perhaps less (five decisions, 30 hours, 21 days in
\* the code).
HoldoutHasTime == \A n \in 1..(MAX_DECISIONS - 1) : (n * CoolOff) \div 24 <= MaxDays

\* Whether the customer pays at this place in the sequence when nothing is done.
Untouched(n) == latent.draws[n] < Capped(BaseProbability(latent))

Truths == LatentStates(Intents, LiquidityDays, Clears, Thresholds, Hours, Draws)

None(k) == \A n \in 0..(k - 1) : ~Untouched(n)

\* An arm in which nothing is done: it goes on while nobody has paid, stops at the first
\* payment, and otherwise when the decisions are spent.
Follows(arm) ==
    /\ arm.open => /\ arm.paid = FALSE /\ arm.now = arm.seq * CoolOff
                   /\ arm.seq < MAX_DECISIONS /\ None(arm.seq)
    /\ ~arm.open => \/ /\ arm.paid = TRUE
                       /\ arm.seq \in 1..MAX_DECISIONS /\ Untouched(arm.seq - 1)
                       /\ None(arm.seq - 1)
                    \/ /\ arm.paid = FALSE /\ arm.seq = MAX_DECISIONS /\ None(MAX_DECISIONS)

-----------------------------------------------------------------------------
(* What the world answers. *)

LEMMA NothingDone ==
    ASSUME NEW at, NEW prior, NEW seq
    PROVE  World("NO_ACTION", at, 0, seq).recovered = Untouched(seq)
           /\ World("NO_ACTION", at, 0, seq).opted_out = FALSE
BY DEF World, Resolve, SuccessProbability, Untouched, ContactActions

\* Under the placebo an action is answered as if nothing had been done.
LEMMA PlaceboAnswer ==
    ASSUME placebo, NEW action, NEW at, NEW prior, NEW seq
    PROVE  World(action, at, prior, seq).recovered = Untouched(seq)
BY DEF World, Resolve, SuccessProbability, Untouched

LEMMA IntentsAreNumbers ==
    ASSUME NEW intent \in Intents
    PROVE  intent \in Int
<1>1. Intents \subseteq 0..1000
    BY TrialAssumption
<1>2. intent \in 0..1000
    BY <1>1
<1> QED
    BY <1>2

LEMMA UntouchedIsBoolean ==
    ASSUME latent \in Truths, NEW n \in 0..(MAX_DECISIONS - 1)
    PROVE  Untouched(n) \in BOOLEAN
<1>0. latent.draws \in Draws /\ latent.intent \in Intents /\ latent.class \in CustomerClasses
    BY DEF Truths, LatentStates
<1>1. latent.draws[n] \in Int
    BY <1>0, TrialAssumption
<1>2. BaseProbability(latent) \in Int
    <2>1. latent.intent \in Int /\ latent.class \in CustomerClasses
        BY <1>0, IntentsAreNumbers
    <2>2. BASELINE_RECOVERY[latent.class] \in Int
        BY <2>1 DEF BASELINE_RECOVERY, CustomerClasses
    <2>3. BASELINE_RECOVERY[latent.class] * (500 + latent.intent) \in Int
        BY <2>1, <2>2
    <2> QED
        BY <2>3 DEF BaseProbability
<1> QED
    BY <1>1, <1>2 DEF Untouched, Capped

LEMMA TrialConstants ==
    /\ MAX_DECISIONS \in Nat \ {0} /\ CoolOff \in Nat \ {0} /\ FollowUp \in Nat
    /\ MaxDays \in Nat
BY TrialAssumption

-----------------------------------------------------------------------------
(* The invariant. *)

\* What is known of the treated arm whatever was done.
TreatedArm ==
    /\ treat.seq \in Nat /\ treat.acted \in Nat /\ treat.open \in BOOLEAN
    /\ treat.open => treat.seq < MAX_DECISIONS
    /\ placebo /\ treat.paid => treat.seq \in 1..MAX_DECISIONS /\ Untouched(treat.seq - 1)
    /\ hold.open => treat = NewArm
    /\ treat.acted = 0 => Follows(treat) /\ treat.opted_out = FALSE

TwinInv ==
    /\ latent \in Truths
    /\ hold.seq \in Nat /\ hold.open \in BOOLEAN
    /\ DOMAIN hold = DOMAIN NewArm /\ DOMAIN treat = DOMAIN NewArm
    /\ Follows(hold)
    /\ TreatedArm

LEMMA NewArmFollows ==
    ASSUME NEW arm, arm = NewArm
    PROVE  Follows(arm)
BY TrialConstants DEF NewArm, Follows, None

LEMMA TwinInit == Init => TwinInv
<1> SUFFICES ASSUME Init PROVE TwinInv
    OBVIOUS
<1>1. hold = NewArm /\ treat = NewArm
    BY DEF Init
<1>2. Follows(hold) /\ Follows(treat)
    BY <1>1, NewArmFollows
<1> QED
    BY <1>1, <1>2, TrialConstants DEF Init, Truths, TwinInv, TreatedArm, NewArm

\* One look at an arm in which nothing is done: the next place in the sequence decides.
LEMMA LookOn ==
    ASSUME HoldoutHasTime, NEW arm, NEW next, Follows(arm), arm.open, arm.seq \in Nat,
           next.open \in BOOLEAN,
           next.seq = arm.seq + 1, next.paid = Untouched(arm.seq),
           ~next.paid => next.now = arm.now + CoolOff,
           next.open <=> /\ ~next.paid /\ arm.seq < MAX_DECISIONS - 1
                         /\ next.now \div 24 <= MaxDays
    PROVE  Follows(next)
<1>1. /\ arm.now = arm.seq * CoolOff /\ arm.seq < MAX_DECISIONS /\ None(arm.seq)
      /\ arm.seq \in Nat
    BY DEF Follows
<1>2. next.seq \in 1..MAX_DECISIONS /\ next.seq - 1 = arm.seq
    BY <1>1, TrialConstants
<1>3. CASE Untouched(arm.seq)
    <2>1. next.paid = TRUE /\ next.open = FALSE
        BY <1>3
    <2> QED
        BY <1>1, <1>2, <1>3, <2>1 DEF Follows
<1>4. CASE ~Untouched(arm.seq)
    <2>1. next.paid = FALSE /\ next.now = arm.now + CoolOff
        BY <1>4
    <2>2. next.now = next.seq * CoolOff
        <3>1. (arm.seq + 1) * CoolOff = arm.seq * CoolOff + CoolOff
            BY <1>1, TrialConstants
        <3> QED
            BY <1>1, <2>1, <3>1
    <2>3. None(next.seq)
        <3> SUFFICES ASSUME NEW n \in 0..(next.seq - 1) PROVE ~Untouched(n)
            BY DEF None
        <3>1. n = arm.seq \/ n \in 0..(arm.seq - 1)
            BY <1>1, <1>2
        <3> QED
            BY <1>1, <1>4, <3>1 DEF None
    <2>4. CASE arm.seq < MAX_DECISIONS - 1
        <3>1. next.seq \in 1..(MAX_DECISIONS - 1)
            BY <1>1, <2>4, TrialConstants
        <3>2. next.now \div 24 <= MaxDays
            BY <2>2, <3>1 DEF HoldoutHasTime
        <3>3. next.open = TRUE
            BY <2>1, <2>4, <3>2
        <3>4. next.seq < MAX_DECISIONS
            BY <1>2, <3>1, TrialConstants
        <3> QED
            BY <2>1, <2>2, <2>3, <3>3, <3>4 DEF Follows
    <2>5. CASE ~(arm.seq < MAX_DECISIONS - 1)
        <3>1. next.open = FALSE
            BY <2>5
        <3>2. next.seq = MAX_DECISIONS
            BY <1>1, <2>5, TrialConstants
        <3> QED
            BY <2>1, <2>3, <3>1, <3>2 DEF Follows
    <2> QED
        BY <2>4, <2>5
<1> QED
    BY <1>3, <1>4

LEMMA HoldoutStep ==
    ASSUME HoldoutHasTime, TwinInv, HoldoutObserve
    PROVE  TwinInv'
<1> DEFINE w == World("NO_ACTION", hold.now, 0, hold.seq)
           later == [hold EXCEPT !.now = IF w.recovered THEN hold.now ELSE hold.now + CoolOff]
           open == /\ ~w.recovered /\ hold.seq < MAX_DECISIONS - 1
                   /\ AgeDays(later) <= MaxDays
<1>1. /\ hold' = [later EXCEPT !.seq = later.seq + 1, !.p = w.p, !.paid = w.recovered,
                               !.open = open]
      /\ UNCHANGED <<event, latent, placebo, treat>>
      /\ hold.open
    BY DEF HoldoutObserve
<1>2. w.recovered = Untouched(hold.seq)
    BY NothingDone
<1>3. w.recovered \in BOOLEAN /\ open \in BOOLEAN
    <2>1. hold.seq \in 0..(MAX_DECISIONS - 1)
        BY <1>1, TrialConstants DEF TwinInv, Follows
    <2> QED
        BY <1>2, <2>1, UntouchedIsBoolean DEF TwinInv
<1>4. DOMAIN hold = {"open", "seq", "now", "contacts", "acted", "p", "paid", "opted_out"}
    BY DEF TwinInv, NewArm
<1>5. /\ later.seq = hold.seq /\ DOMAIN later = DOMAIN hold
      /\ later.now = IF w.recovered THEN hold.now ELSE hold.now + CoolOff
    BY <1>4
<1> HIDE DEF w, later
<1>6. open <=> ~w.recovered /\ hold.seq < MAX_DECISIONS - 1 /\ later.now \div 24 <= MaxDays
    BY DEF AgeDays
<1> HIDE DEF open
<1>7. /\ hold'.seq = hold.seq + 1 /\ hold'.paid = w.recovered /\ hold'.open = open
      /\ hold'.now = later.now /\ DOMAIN hold' = DOMAIN hold
    BY <1>1, <1>4, <1>5
<1>8. Follows(hold')
    <2>1. /\ Follows(hold) /\ hold.open /\ hold.seq \in Nat
          /\ hold'.open \in BOOLEAN
        BY <1>1, <1>3, <1>7 DEF TwinInv
    <2>2. hold'.paid = Untouched(hold.seq)
        BY <1>2, <1>7
    <2>3. ~hold'.paid => hold'.now = hold.now + CoolOff
        BY <1>5, <1>7
    <2>4. hold'.open <=> /\ ~hold'.paid /\ hold.seq < MAX_DECISIONS - 1
                         /\ hold'.now \div 24 <= MaxDays
        BY <1>6, <1>7
    <2> QED
        BY <1>7, <2>1, <2>2, <2>3, <2>4, LookOn
<1>9. latent' = latent /\ placebo' = placebo /\ treat' = treat
    BY <1>1
<1>10. Follows(hold)'
    BY <1>8, <1>9 DEF Follows, None, Untouched
<1>11. treat = NewArm
    BY <1>1 DEF TwinInv, TreatedArm
<1>12. Follows(treat)'
    BY <1>9, <1>11, NewArmFollows DEF Follows, None, Untouched
<1>13. TreatedArm'
    BY <1>9, <1>11, <1>12, TrialConstants DEF TreatedArm, NewArm
<1> QED
    BY <1>3, <1>7, <1>9, <1>10, <1>13 DEF TwinInv

-----------------------------------------------------------------------------
(* The treated arm. *)

\* What a pass leaves of the arm it is made of.
LEMMA ContinueFields ==
    ASSUME NEW arm, DOMAIN arm = DOMAIN NewArm, NEW next, next = Continue(arm)
    PROVE  /\ DOMAIN next = DOMAIN NewArm
           /\ next.seq = arm.seq + 1 /\ next.now = arm.now /\ next.acted = arm.acted
           /\ next.paid = arm.paid /\ next.opted_out = arm.opted_out
           /\ next.open \in BOOLEAN
           /\ next.open <=> /\ ~arm.paid /\ ~arm.opted_out /\ treat.seq < MAX_DECISIONS - 1
                            /\ arm.now \div 24 <= MaxDays
BY DEF Continue, AgeDays, NewArm

\* The treated arm goes on whatever was done, so long as what it is told under the placebo
\* is what it would have been told anyway.
LEMMA TreatedGoesOn ==
    ASSUME TwinInv, Working, UNCHANGED <<event, latent, placebo, hold>>,
           NEW arm, DOMAIN arm = DOMAIN NewArm, treat' = Continue(arm),
           arm.seq = treat.seq, arm.acted \in Nat,
           placebo /\ arm.paid => Untouched(treat.seq),
           arm.acted = 0 => Follows(treat') /\ arm.opted_out = FALSE
    PROVE  TwinInv'
<1>1. /\ DOMAIN treat' = DOMAIN NewArm
      /\ treat'.seq = arm.seq + 1 /\ treat'.acted = arm.acted /\ treat'.paid = arm.paid
      /\ treat'.opted_out = arm.opted_out /\ treat'.open \in BOOLEAN
      /\ treat'.open => treat.seq < MAX_DECISIONS - 1
    BY ContinueFields
<1>2. treat.seq \in Nat /\ treat.seq < MAX_DECISIONS /\ hold.open = FALSE
    BY DEF TwinInv, TreatedArm, Working
<1>3. treat'.seq \in 1..MAX_DECISIONS /\ treat'.seq - 1 = treat.seq
    BY <1>1, <1>2, TrialConstants
<1>4. treat'.open => treat'.seq < MAX_DECISIONS
    BY <1>1, <1>2, TrialConstants
<1>5. latent' = latent /\ placebo' = placebo /\ hold' = hold
    OBVIOUS
<1>6. (placebo /\ treat.paid => treat.seq \in 1..MAX_DECISIONS /\ Untouched(treat.seq - 1))'
    BY <1>1, <1>3, <1>5 DEF Untouched
<1>7. (treat.acted = 0 => Follows(treat) /\ treat.opted_out = FALSE)'
    BY <1>1, <1>5 DEF Follows, None, Untouched
<1>8. TreatedArm'
    BY <1>1, <1>2, <1>3, <1>4, <1>5, <1>6, <1>7 DEF TreatedArm
<1>9. Follows(hold)'
    BY <1>5 DEF TwinInv, Follows, None, Untouched
<1> QED
    BY <1>1, <1>5, <1>8, <1>9 DEF TwinInv

LEMMA LeaveAloneStep ==
    ASSUME HoldoutHasTime, TwinInv, LeaveAlone
    PROVE  TwinInv'
<1> DEFINE w == World("NO_ACTION", treat.now, 0, treat.seq)
           arm == [treat EXCEPT !.p = w.p, !.paid = w.recovered, !.now = treat.now + CoolOff]
<1>1. Working /\ treat' = Continue(arm) /\ UNCHANGED <<event, latent, placebo, hold>>
    BY DEF LeaveAlone
<1>2. w.recovered = Untouched(treat.seq)
    BY NothingDone
<1>3. DOMAIN treat = {"open", "seq", "now", "contacts", "acted", "p", "paid", "opted_out"}
    BY DEF TwinInv, NewArm
<1> HIDE DEF w
<1>4. /\ DOMAIN arm = DOMAIN NewArm
      /\ arm.seq = treat.seq /\ arm.acted = treat.acted /\ arm.opted_out = treat.opted_out
      /\ arm.paid = Untouched(treat.seq) /\ arm.now = treat.now + CoolOff
    BY <1>2, <1>3 DEF NewArm
<1> HIDE DEF arm
<1>5. ASSUME arm.acted = 0
      PROVE  Follows(treat') /\ arm.opted_out = FALSE
    <2>1. Follows(treat) /\ treat.opted_out = FALSE /\ treat.open /\ treat.seq \in Nat
        BY <1>1, <1>4, <1>5 DEF TwinInv, TreatedArm, Working
    <2>2. /\ treat'.seq = treat.seq + 1 /\ treat'.now = treat.now + CoolOff
          /\ treat'.paid = Untouched(treat.seq) /\ treat'.open \in BOOLEAN
          /\ treat'.open <=> /\ ~treat'.paid /\ treat.seq < MAX_DECISIONS - 1
                             /\ treat'.now \div 24 <= MaxDays
        BY <1>1, <1>4, <2>1, ContinueFields
    <2>3. Follows(treat')
        BY <2>1, <2>2, LookOn
    <2> QED
        BY <1>4, <2>1, <2>3
<1>6. treat.acted \in Nat
    BY DEF TwinInv, TreatedArm
<1> QED
    BY <1>1, <1>4, <1>5, <1>6, TreatedGoesOn

LEMMA ActStep ==
    ASSUME TwinInv, NEW action, NEW offset, Act(action, offset)
    PROVE  TwinInv'
<1> DEFINE contacts == treat.contacts + (IF IsCustomerContact(action) THEN 1 ELSE 0)
           at == treat.now + offset
           w == World(action, at, PriorContacts(contacts), treat.seq)
           arm == [treat EXCEPT !.contacts = contacts, !.acted = treat.acted + 1, !.p = w.p,
                                !.paid = w.recovered, !.opted_out = w.opted_out,
                                !.now = at + FollowUp]
<1>1. Working /\ treat' = Continue(arm) /\ UNCHANGED <<event, latent, placebo, hold>>
    BY DEF Act
<1>2. placebo => w.recovered = Untouched(treat.seq)
    BY PlaceboAnswer
<1>3. DOMAIN treat = {"open", "seq", "now", "contacts", "acted", "p", "paid", "opted_out"}
    BY DEF TwinInv, NewArm
<1> HIDE DEF contacts, at, w
<1>4. /\ DOMAIN arm = DOMAIN NewArm
      /\ arm.seq = treat.seq /\ arm.acted = treat.acted + 1 /\ arm.paid = w.recovered
    BY <1>3 DEF NewArm
<1> HIDE DEF arm
<1>5. arm.acted \in Nat /\ arm.acted # 0
    BY <1>4 DEF TwinInv, TreatedArm
<1> QED
    BY <1>1, <1>2, <1>4, <1>5, TreatedGoesOn

LEMMA TwinInvStep == HoldoutHasTime /\ TwinInv /\ [Next]_vars => TwinInv'
<1> SUFFICES ASSUME HoldoutHasTime, TwinInv, [Next]_vars PROVE TwinInv'
    OBVIOUS
<1>1. CASE HoldoutObserve
    BY <1>1, HoldoutStep
<1>2. CASE LeaveAlone
    BY <1>2, LeaveAloneStep
<1>3. CASE \E action \in AllActions, offset \in Offsets : Act(action, offset)
    BY <1>3, ActStep
<1>4. CASE UNCHANGED vars
    <2>1. event' = event /\ latent' = latent /\ placebo' = placebo /\ hold' = hold
          /\ treat' = treat
        BY <1>4 DEF vars
    <2> QED
        BY <2>1 DEF TwinInv, TreatedArm, Follows, None, Untouched
<1> QED
    BY <1>1, <1>2, <1>3, <1>4 DEF Next

LEMMA TwinInvariant == HoldoutHasTime => (Spec => []TwinInv)
<1> SUFFICES ASSUME HoldoutHasTime PROVE Spec => []TwinInv
    OBVIOUS
<1>1. TwinInv /\ [Next]_vars => TwinInv'
    BY TwinInvStep
<1> QED
    BY <1>1, TwinInit, PTL DEF Spec

-----------------------------------------------------------------------------
(* The theorems. *)

\* Under the placebo the treated arm recovers nothing the control arm would not have
\* recovered at least as early (run_episode, run_batch, validate.placebo): the harness
\* gives no arm a chance to pay that the other lacks, whatever the agent does.
THEOREM HarnessIsFair == HoldoutHasTime => (Spec => []PlaceboNeverFavoursTreatment)
<1> SUFFICES ASSUME HoldoutHasTime PROVE Spec => []PlaceboNeverFavoursTreatment
    OBVIOUS
<1>1. TwinInv => PlaceboNeverFavoursTreatment
    <2> SUFFICES ASSUME TwinInv, placebo, treat.paid
                 PROVE  hold.paid /\ hold.seq <= treat.seq
        BY DEF PlaceboNeverFavoursTreatment
    <2>1. treat.seq \in 1..MAX_DECISIONS /\ Untouched(treat.seq - 1)
        BY DEF TwinInv, TreatedArm
    <2>2. ~hold.open
        BY DEF TwinInv, TreatedArm, NewArm
    <2>3. ASSUME NEW k \in Nat, None(k), k <= MAX_DECISIONS PROVE k < treat.seq
        <3>1. ~(treat.seq - 1 \in 0..(k - 1))
            BY <2>1, <2>3 DEF None
        <3> QED
            BY <2>1, <2>3, <3>1, TrialConstants
    <2>4. ~None(MAX_DECISIONS)
        BY <2>1, <2>3, TrialConstants
    <2>5. /\ hold.paid = TRUE /\ hold.seq \in 1..MAX_DECISIONS /\ None(hold.seq - 1)
        BY <2>2, <2>4 DEF TwinInv, Follows
    <2>6. hold.seq - 1 < treat.seq
        BY <2>3, <2>5, TrialConstants
    <2> QED
        BY <2>1, <2>5, <2>6, TrialConstants
<1> QED
    BY <1>1, TwinInvariant, PTL

\* An episode in which nothing was ever done ends like its twin in the control arm: a
\* refusal, a block or a message that could not be rendered costs the customer no chance
\* to pay (run_episode).
THEOREM TwinsEndAlike == HoldoutHasTime => (Spec => []UntouchedMatchesTwin)
<1> SUFFICES ASSUME HoldoutHasTime PROVE Spec => []UntouchedMatchesTwin
    OBVIOUS
<1>1. TwinInv => UntouchedMatchesTwin
    <2> SUFFICES ASSUME TwinInv, treat.acted = 0, ~treat.open
                 PROVE  treat.paid = hold.paid /\ treat.seq = hold.seq
        BY DEF UntouchedMatchesTwin
    <2>1. ~hold.open
        BY DEF TwinInv, TreatedArm, NewArm
    <2>2. Follows(hold) /\ Follows(treat)
        BY DEF TwinInv, TreatedArm
    <2>3. ASSUME NEW j \in 1..MAX_DECISIONS, NEW k \in Nat, k <= MAX_DECISIONS,
                 Untouched(j - 1), None(k)
          PROVE  k < j
        <3>1. ~(j - 1 \in 0..(k - 1))
            BY <2>3 DEF None
        <3> QED
            BY <2>3, <3>1, TrialConstants
    <2>4. CASE hold.paid = TRUE
        <3>1. hold.seq \in 1..MAX_DECISIONS /\ Untouched(hold.seq - 1) /\ None(hold.seq - 1)
            BY <2>1, <2>2, <2>4 DEF Follows
        <3>2. ~None(MAX_DECISIONS)
            BY <2>3, <3>1, TrialConstants
        <3>3. /\ treat.paid = TRUE /\ treat.seq \in 1..MAX_DECISIONS
              /\ Untouched(treat.seq - 1) /\ None(treat.seq - 1)
            BY <2>2, <3>2 DEF Follows
        <3>4. /\ hold.seq - 1 \in Nat /\ hold.seq - 1 <= MAX_DECISIONS
              /\ treat.seq - 1 \in Nat /\ treat.seq - 1 <= MAX_DECISIONS
            BY <3>1, <3>3, TrialConstants
        <3>5. hold.seq - 1 < treat.seq
            BY <2>3, <3>1, <3>3, <3>4
        <3>6. treat.seq - 1 < hold.seq
            BY <2>3, <3>1, <3>3, <3>4
        <3>7. treat.seq = hold.seq
            BY <3>1, <3>3, <3>5, <3>6, TrialConstants
        <3> QED
            BY <2>4, <3>3, <3>7
    <2>5. CASE hold.paid # TRUE
        <3>1. hold.paid = FALSE /\ hold.seq = MAX_DECISIONS /\ None(MAX_DECISIONS)
            BY <2>1, <2>2, <2>5 DEF Follows
        <3>2. ~(treat.seq \in 1..MAX_DECISIONS /\ Untouched(treat.seq - 1))
            BY <2>3, <3>1, TrialConstants
        <3> QED
            BY <2>2, <3>1, <3>2 DEF Follows
    <2> QED
        BY <2>4, <2>5
<1> QED
    BY <1>1, TwinInvariant, PTL

-----------------------------------------------------------------------------
(* What the taxonomy makes of what the generator emits. *)

\* The reasons that the generator draws for a truth say so.
LEMMA EmittedTruly ==
    ASSUME latent \in Truths, NEW source_type \in SourceTypes,
           NEW no_gateway_attempt \in BOOLEAN,
           Generated(source_type, latent, no_gateway_attempt),
           NEW reason \in EmittedReasons(latent, no_gateway_attempt),
           event = [source_type |-> source_type,
                    error |-> [reason |-> reason, source |-> "customer"]]
    PROVE  latent.merchant_config <=> Mapping.recoverability = "MERCHANT_CONFIG"
<1>1. /\ event.error.reason = reason /\ event.error.source = "customer"
      /\ event.source_type = source_type
    OBVIOUS
<1>2. NoReason \notin Reasons
    BY DEF NoReason, Reasons, Rows
<1>3. latent.merchant_config \in BOOLEAN /\ latent.class \in CustomerClasses
    BY DEF Truths, LatentStates
<1>4. CASE no_gateway_attempt
    <2>1. ~latent.merchant_config /\ source_type \in {"invoice", "checkout"}
        BY <1>4 DEF Generated
    <2>2. reason = NoReason
        BY <1>4 DEF EmittedReasons
    <2>3. Mapping \in {CHECKOUT_ABANDONED, RECEIVABLE_OVERDUE}
        BY <1>1, <1>2, <2>1, <2>2 DEF Mapping, Classify
    <2>4. Mapping.recoverability = "CUSTOMER_RECOVERABLE"
        BY <2>3 DEF CHECKOUT_ABANDONED, RECEIVABLE_OVERDUE, Customer, ReasonMapping
    <2> QED
        BY <2>1, <2>4
<1>5. CASE ~no_gateway_attempt /\ latent.merchant_config
    <2>1. reason \in Reasons /\ Rows[reason].recoverability = "MERCHANT_CONFIG"
        BY <1>5 DEF EmittedReasons, MERCHANT_CONFIG_REASONS
    <2>2. Mapping = Rows[reason]
        BY <1>1, <1>2, <2>1 DEF Mapping, Classify, RefineBySource, MERCHANT_SOURCES
    <2> QED
        BY <1>5, <2>1, <2>2
<1>6. CASE ~no_gateway_attempt /\ ~latent.merchant_config
    <2>1. reason \in EmitReasons(latent.class)
        BY <1>6 DEF EmittedReasons
    <2>2. reason \in OPAQUE_REASONS \/ \E c \in CustomerClasses : reason \in POOLS[c]
        <3> DEFINE others == {POOLS[c] : c \in CustomerClasses \ {latent.class}}
        <3>1. EmitReasons(latent.class) = OPAQUE_REASONS \cup POOLS[latent.class] \cup UNION others
            BY DEF EmitReasons
        <3>2. ASSUME NEW p \in others PROVE \E c \in CustomerClasses : p = POOLS[c]
            OBVIOUS
        <3> HIDE DEF others
        <3>3. \/ reason \in OPAQUE_REASONS \/ reason \in POOLS[latent.class]
              \/ \E p \in others : reason \in p
            BY <2>1, <3>1
        <3> QED
            BY <1>3, <3>2, <3>3
    <2>3. "payment_failed" \in Reasons
             /\ Rows["payment_failed"].recoverability = "CUSTOMER_RECOVERABLE"
        BY DEF Reasons, Rows, Customer, ReasonMapping
    <2>4. reason \in Reasons /\ Rows[reason].recoverability = "CUSTOMER_RECOVERABLE"
        BY <2>2, <2>3 DEF OPAQUE_REASONS, POOLS
    <2>5. Mapping = Rows[reason]
        BY <1>1, <1>2, <2>4 DEF Mapping, Classify, RefineBySource, MERCHANT_SOURCES
    <2> QED
        BY <1>6, <2>4, <2>5
<1> QED
    BY <1>3, <1>4, <1>5, <1>6

TriageInv ==
    /\ TriageMatchesTruth
    /\ DOMAIN treat = DOMAIN NewArm /\ treat.contacts \in Nat

LEMMA TriageInit == Init => TriageInv
<1> SUFFICES ASSUME Init PROVE TriageInv
    OBVIOUS
<1>1. latent.merchant_config <=> Mapping.recoverability = "MERCHANT_CONFIG"
    BY EmittedTruly DEF Init, Truths
<1>2. treat = NewArm
    BY DEF Init
<1> QED
    BY <1>1, <1>2 DEF TriageInv, TriageMatchesTruth, NewArm

\* Only a human is on offer for a merchant's bug, and he does not go to the customer.
LEMMA TriageStep == TriageInv /\ [Next]_vars => TriageInv'
<1> SUFFICES ASSUME TriageInv, [Next]_vars PROVE TriageInv'
    OBVIOUS
<1>1. CASE UNCHANGED <<event, latent, treat>>
    BY <1>1 DEF TriageInv, TriageMatchesTruth, Mapping
<1>2. CASE HoldoutObserve \/ UNCHANGED vars
    BY <1>1, <1>2 DEF HoldoutObserve, vars
<1>3. CASE LeaveAlone
    <2>1. UNCHANGED <<event, latent>> /\ treat'.contacts = treat.contacts
          /\ DOMAIN treat' = DOMAIN treat
        BY <1>3 DEF LeaveAlone, Continue, TriageInv, NewArm
    <2> QED
        BY <2>1 DEF TriageInv, TriageMatchesTruth, Mapping
<1>4. ASSUME NEW action, NEW offset, Act(action, offset) PROVE TriageInv'
    <2> DEFINE more == IF IsCustomerContact(action) THEN 1 ELSE 0
    <2>1. UNCHANGED <<event, latent>> /\ treat'.contacts = treat.contacts + more
          /\ DOMAIN treat' = DOMAIN treat
        BY <1>4 DEF Act, Continue, TriageInv, NewArm
    <2>2. latent.merchant_config => more = 0
        <3> SUFFICES ASSUME latent.merchant_config PROVE ~IsCustomerContact(action)
            OBVIOUS
        <3>1. Mapping.recoverability = "MERCHANT_CONFIG"
            BY DEF TriageInv, TriageMatchesTruth
        <3>2. action = "ESCALATE_HUMAN"
            BY <1>4, <3>1 DEF Act, Offered
        <3> QED
            BY <3>1, <3>2 DEF IsCustomerContact
    <2>3. more \in Nat
        OBVIOUS
    <2> HIDE DEF more
    <2> QED
        BY <2>1, <2>2, <2>3 DEF TriageInv, TriageMatchesTruth, Mapping
<1> QED
    BY <1>2, <1>3, <1>4 DEF Next

\* What the generator makes the merchant's bug is recognised as one, and nothing else is,
\* and its customer hears nothing (generate, _reason_pools, classify), for any truth and
\* whatever the agent chooses.
THEOREM TriageIsTrue == Spec => []TriageMatchesTruth
<1>1. TriageInv => TriageMatchesTruth
    BY DEF TriageInv
<1> QED
    BY TriageInit, TriageStep, <1>1, PTL DEF Spec

-----------------------------------------------------------------------------
(* The report. *)

\* What a run reports is computed once, of all the episodes it has been through.
FullReport ==
    [comparison |-> CompareArms(treatment, holdout),
     segments |-> CompareSegments(treatment, holdout),
     stops |-> CountStops(treatment)]

MetricsInv ==
    /\ treatment \in Seq(EpisodeResults) /\ holdout \in Seq(EpisodeResults)
    /\ Reported => report = FullReport

LEMMA MetricsStart == MetricsInit => MetricsInv
BY DEF MetricsInit, MetricsInv, Reported

LEMMA MetricsStep == MetricsInv /\ [MetricsNext]_metricsVars => MetricsInv'
<1> SUFFICES ASSUME MetricsInv, [MetricsNext]_metricsVars PROVE MetricsInv'
    OBVIOUS
<1>1. CASE Report
    BY <1>1 DEF Report, MetricsInv, FullReport
<1>2. ASSUME NEW r \in Results, Treated(r) \/ Observed(r) PROVE MetricsInv'
    <2>1. r \in EpisodeResults
        BY MetricsAssumption
    <2>2. ~Reported' /\ treatment' \in Seq(EpisodeResults) /\ holdout' \in Seq(EpisodeResults)
        <3>1. Append(treatment, r) \in Seq(EpisodeResults)
              /\ Append(holdout, r) \in Seq(EpisodeResults)
            BY <2>1 DEF MetricsInv
        <3> QED
            BY <1>2, <3>1 DEF Treated, Observed, MetricsInv, Reported
    <2> QED
        BY <2>2 DEF MetricsInv
<1>3. CASE UNCHANGED metricsVars
    BY <1>3 DEF metricsVars, MetricsInv, FullReport, Reported
<1> QED
    BY <1>1, <1>2, <1>3 DEF MetricsNext

LEMMA MetricsHold == MetricsSpec => []MetricsInv
BY MetricsStart, MetricsStep, PTL DEF MetricsSpec

-----------------------------------------------------------------------------
(* The headlines. *)

\* What a summary may be: no money without a recovery and no recovery without an episode.
Sound(t) ==
    /\ t.events \in Nat /\ t.recovered_events \in Nat /\ t.recovered_paise \in Nat
    /\ t.cost_paise \in Nat
    /\ t.events = 0 => t.recovered_events = 0
    /\ t.recovered_events = 0 => t.recovered_paise = 0

\* The places of an arm are finitely many and their results are numbers.
LEMMA Places ==
    ASSUME NEW results \in Seq(EpisodeResults), NEW S \in SUBSET DOMAIN results
    PROVE  /\ IsFiniteSet(S)
           /\ \A i \in S : /\ Recoveries(results)[i] = results[i].recovered_paise
                           /\ Costs(results)[i] = results[i].cost_paise
                           /\ results[i].recovered_paise \in Nat
                           /\ results[i].cost_paise \in Nat
<1>1. DOMAIN results = 1..Len(results) /\ Len(results) \in Nat
    OBVIOUS
<1>2. IsFiniteSet(1..Len(results))
    BY <1>1, FS_Interval
<1>3. IsFiniteSet(S)
    BY <1>1, <1>2, FS_Subset
<1>4. \A i \in S : results[i] \in EpisodeResults
    BY <1>1
<1>5. \A r \in EpisodeResults : r.recovered_paise \in Nat /\ r.cost_paise \in Nat
    BY DEF EpisodeResults
<1> QED
    BY <1>3, <1>4, <1>5 DEF Recoveries, Costs

\* Every summary the report is made of is sound.
LEMMA SummarySound ==
    ASSUME NEW results \in Seq(EpisodeResults), NEW S \in SUBSET DOMAIN results
    PROVE  Sound(Summarise(results, S))
<1> DEFINE t == Summarise(results, S)
           paid == {i \in S : results[i].recovered_paise > 0}
           money == Recoveries(results)
           spent == Costs(results)
<1>1. /\ IsFiniteSet(S) /\ \A i \in S : money[i] \in Nat /\ spent[i] \in Nat
      /\ \A i \in S : money[i] = results[i].recovered_paise
    BY Places
<1>2. /\ t.events = Cardinality(S) /\ t.recovered_events = Cardinality(paid)
      /\ t.recovered_paise = SumOver(money, S) /\ t.cost_paise = SumOver(spent, S)
    BY DEF Summarise
<1>3. IsFiniteSet(paid) /\ Cardinality(S) \in Nat
    BY <1>1, FS_Subset, FS_CardinalityType
<1>4. Cardinality(paid) \in Nat
    BY <1>3, FS_CardinalityType
<1>5. SumOver(money, S) \in Nat /\ SumOver(spent, S) \in Nat
    BY <1>1, SumNat
<1>6. Cardinality(S) = 0 => Cardinality(paid) = 0
    <2>1. Cardinality(S) = 0 => S = {}
        BY <1>1, FS_EmptySet
    <2>2. S = {} => paid = {}
        OBVIOUS
    <2> QED
        BY <2>1, <2>2, FS_EmptySet
<1>7. Cardinality(paid) = 0 => SumOver(money, S) = 0
    <2> SUFFICES ASSUME Cardinality(paid) = 0 PROVE SumOver(money, S) = 0
        OBVIOUS
    <2>1. paid = {}
        BY <1>3, FS_EmptySet
    <2>2. \A i \in S : money[i] = 0
        BY <1>1, <2>1
    <2> QED
        BY <1>1, <2>2, SumZero
<1> HIDE DEF t, paid, money, spent
<1>8. Sound(t)
    BY <1>2, <1>3, <1>4, <1>5, <1>6, <1>7 DEF Sound
<1> QED
    BY <1>8 DEF t

\* Rounding keeps to the side of a whole number on which the exact value is.
LEMMA RoundedSide ==
    ASSUME NEW n \in Nat, NEW d \in Nat \ {0}, NEW m \in Nat
    PROVE  /\ Rounded(n, d) \in Nat
           /\ n >= d * m => Rounded(n, d) >= m
           /\ n <= d * m => Rounded(n, d) <= m
<1> DEFINE q == n \div d
           r == n % d
<1>1. q \in Nat /\ r \in 0..(d - 1) /\ n = d * q + r
    OBVIOUS
<1>2. /\ Rounded(n, d) = q \/ Rounded(n, d) = q + 1
      /\ r = 0 => Rounded(n, d) = q
    BY <1>1 DEF Rounded
<1> HIDE DEF q, r
<1>3. ASSUME n >= d * m PROVE q >= m
    <2> SUFFICES ASSUME q + 1 <= m PROVE FALSE
        BY <1>1
    <2>1. d * (q + 1) <= d * m
        BY <1>1
    <2>2. d * (q + 1) = d * q + d
        BY <1>1
    <2>3. d * q \in Nat /\ d * m \in Nat
        BY <1>1
    <2> QED
        BY <1>1, <1>3, <2>1, <2>2, <2>3
<1>4. ASSUME n <= d * m PROVE q + 1 <= m \/ (q = m /\ r = 0)
    <2>1. d * q \in Nat /\ d * m \in Nat
        BY <1>1
    <2>2. CASE q >= m + 1
        <3>1. d * q >= d * (m + 1)
            BY <1>1, <2>2
        <3>2. d * (m + 1) = d * m + d
            BY <1>1
        <3> QED
            BY <1>1, <1>4, <2>1, <3>1, <3>2
    <2>3. CASE q = m
        BY <1>1, <1>4, <2>1, <2>3
    <2> QED
        BY <1>1, <2>2, <2>3
<1> QED
    BY <1>1, <1>2, <1>3, <1>4

LEMMA TimesMonotone ==
    ASSUME NEW k \in Nat, NEW a \in Nat, NEW b \in Nat, a <= b
    PROVE  a * k <= b * k
OBVIOUS

\* The share of the money that the counterfactual takes is on the side of one that the
\* lift is on.
LEMMA CounterfactualSide ==
    ASSUME NEW te \in Nat, NEW tr \in Nat, NEW tp \in Nat, NEW he \in Nat \ {0}, NEW hr \in Nat,
           tr # 0, te # 0,
           NEW c, c = Rounded(hr * te * tp, he * tr)
    PROVE  /\ c \in Nat
           /\ tr * he >= hr * te => c <= tp
           /\ tr * he <= hr * te => c >= tp
<1> DEFINE d == he * tr
           n == hr * te * tp
           x == hr * te
<1>1. d \in Nat \ {0} /\ x \in Nat /\ n = x * tp /\ n \in Nat /\ tr * he = d
    OBVIOUS
<1> HIDE DEF d, n, x
<1>2. c = Rounded(n, d)
    BY DEF d, n
<1>3. c \in Nat /\ (n >= d * tp => c >= tp) /\ (n <= d * tp => c <= tp)
    BY <1>1, <1>2, RoundedSide, ZenonT(30)
<1>4. d >= x => n <= d * tp
    BY <1>1, TimesMonotone
<1>5. d <= x => n >= d * tp
    BY <1>1, TimesMonotone
<1>6. d * tp \in Nat
    BY <1>1
<1> QED
    BY <1>1, <1>3, <1>4, <1>5, <1>6 DEF x

\* The headline numbers of one comparison agree, whatever was recovered in either arm.
LEMMA ComparisonAgrees ==
    ASSUME NEW t, NEW h, Sound(t), Sound(h), NEW c, c = Compare(t, h)
    PROVE  /\ c.lift > 0 => c.incremental >= 0
           /\ c.lift < 0 => c.incremental <= 0
           /\ c.lift = 0 => c.incremental = 0
           /\ c.cost_per_recovery # -1 => c.lift > 0
<1> DEFINE te == t.events
           tr == t.recovered_events
           tp == t.recovered_paise
           hr == h.recovered_events
           he == AtLeastOne(h.events)
           would == Counterfactual(t, h)
           same == Rounded(hr * te, he)
<1>1. /\ te \in Nat /\ tr \in Nat /\ tp \in Nat /\ hr \in Nat /\ he \in Nat \ {0}
      /\ te = 0 => tr = 0
      /\ tr = 0 => tp = 0
    BY DEF Sound, AtLeastOne
<1>2. /\ c.lift = tr * he - hr * AtLeastOne(te) /\ c.incremental = tp - would
      /\ would = Rounded(hr * te * tp, he * AtLeastOne(tr))
    BY DEF Compare, Counterfactual
<1>3. c.cost_per_recovery = CostPerRecovery(t, h) /\ ExtraRecoveries(t, h) = tr - same
    BY DEF Compare, ExtraRecoveries
<1> HIDE DEF te, tr, tp, hr, he, would, same
<1>4. c.cost_per_recovery # -1 => tr - same > 0
    BY <1>3 DEF CostPerRecovery
<1>5. hr * te \in Nat /\ tr * he \in Nat
    BY <1>1
<1>6. same \in Nat /\ (hr * te >= he * tr => same >= tr)
    BY <1>1, <1>5, RoundedSide DEF same
<1>7. CASE tr = 0
    <2>1. tp = 0 /\ AtLeastOne(tr) = 1 /\ hr * te * tp = 0 /\ he * AtLeastOne(tr) = he
        BY <1>1, <1>7 DEF AtLeastOne
    <2>2. would = Rounded(0, he)
        BY <1>2, <2>1
    <2>3. would = 0
        <3>1. Rounded(0, he) \in Nat /\ (0 <= he * 0 => Rounded(0, he) <= 0)
            BY <1>1, RoundedSide
        <3>2. he * 0 = 0
            BY <1>1
        <3> QED
            BY <2>2, <3>1, <3>2
    <2> QED
        BY <1>2, <1>4, <1>6, <1>7, <2>1, <2>3
<1>8. CASE tr # 0
    <2>1. te # 0 /\ AtLeastOne(te) = te /\ AtLeastOne(tr) = tr
        BY <1>1, <1>8 DEF AtLeastOne
    <2>2. /\ would \in Nat
          /\ tr * he >= hr * te => would <= tp
          /\ tr * he <= hr * te => would >= tp
        BY <1>1, <1>2, <1>8, <2>1, CounterfactualSide
    <2>3. c.lift = tr * he - hr * te
        BY <1>2, <2>1
    <2>4. he * tr = tr * he
        BY <1>1
    <2> QED
        BY <1>1, <1>2, <1>4, <1>5, <1>6, <2>2, <2>3, <2>4
<1> QED
    BY <1>7, <1>8

\* The headline numbers of a run do not contradict each other (compare, compare_segments):
\* the money called incremental never has the sign the lift has not, and a cost per
\* recovery is quoted only where the treated arm did better - for any episodes.
THEOREM HeadlinesDoAgree == MetricsSpec => []HeadlinesAgree
<1>1. MetricsInv => HeadlinesAgree
    <2> SUFFICES ASSUME MetricsInv, Reported, NEW c \in Comparisons
                 PROVE  /\ c.lift > 0 => c.incremental >= 0
                        /\ c.lift < 0 => c.incremental <= 0
                        /\ c.lift = 0 => c.incremental = 0
                        /\ c.cost_per_recovery # -1 => c.lift > 0
        BY DEF HeadlinesAgree
    <2>1. /\ treatment \in Seq(EpisodeResults) /\ holdout \in Seq(EpisodeResults)
          /\ report.comparison = CompareArms(treatment, holdout)
          /\ report.segments = CompareSegments(treatment, holdout)
        BY DEF MetricsInv, FullReport
    <2>2. CASE c = report.comparison
        <3>1. Sound(Summarise(treatment, DOMAIN treatment))
              /\ Sound(Summarise(holdout, DOMAIN holdout))
            BY <2>1, SummarySound
        <3> QED
            BY <2>1, <2>2, <3>1, ComparisonAgrees DEF CompareArms
    <2>3. ASSUME NEW s \in DOMAIN report.segments, c = report.segments[s]
          PROVE  c = Compare(Summarise(treatment, Of(treatment, s)),
                             Summarise(holdout, Of(holdout, s)))
        BY <2>1, <2>3 DEF CompareSegments
    <2>4. ASSUME NEW s \in DOMAIN report.segments, c = report.segments[s]
          PROVE  \E t, h : Sound(t) /\ Sound(h) /\ c = Compare(t, h)
        <3>1. Of(treatment, s) \subseteq DOMAIN treatment /\ Of(holdout, s) \subseteq DOMAIN holdout
            BY DEF Of
        <3>2. Sound(Summarise(treatment, Of(treatment, s)))
              /\ Sound(Summarise(holdout, Of(holdout, s)))
            BY <2>1, <3>1, SummarySound
        <3> QED
            BY <2>3, <2>4, <3>2
    <2>5. c = report.comparison \/ \E s \in DOMAIN report.segments : c = report.segments[s]
        BY DEF Comparisons
    <2> QED
        BY <2>2, <2>4, <2>5, ComparisonAgrees
<1> QED
    BY <1>1, MetricsHold, PTL

-----------------------------------------------------------------------------
(* The surfaces. *)

\* The places of an arm are those of the surfaces that are reported and those left out.
LEMMA PlacesSplit ==
    ASSUME NEW results \in Seq(EpisodeResults), NEW reported \in SUBSET Surfaces, NEW f,
           \A i \in DOMAIN results : f[i] \in Int,
           NEW B, B = [s \in reported |-> Of(results, s)],
           NEW left, left = {i \in DOMAIN results : results[i].surface \notin reported}
    PROVE  SumOver(Parts(f, B, reported), reported) + SumOver(f, left)
               = SumOver(f, DOMAIN results)
<1> DEFINE seen == {i \in DOMAIN results : results[i].surface \in reported}
<1>1. IsFiniteSet(DOMAIN results)
    BY Places
<1>2. IsFiniteSet(reported)
    BY MetricsAssumption, FS_Subset
<1>3. Summable(f, seen) /\ Summable(f, left)
    BY <1>1, FS_Subset DEF Summable
<1>4. seen \cup left = DOMAIN results /\ seen \cap left = {}
    OBVIOUS
<1>5. \A s \in reported : B[s] = {i \in DOMAIN results : results[i].surface = s}
    BY DEF Of
<1>6. /\ \A s \in reported : B[s] \subseteq seen
      /\ \A i \in seen : \E s \in reported : i \in B[s]
      /\ \A s, u \in reported : s # u => B[s] \cap B[u] = {}
    BY <1>5
<1> HIDE DEF seen
<1>7. SumOver(Parts(f, B, reported), reported) = SumOver(f, seen)
    BY <1>2, <1>3, <1>6, SumParts
<1>8. SumOver(f, seen \cup left) = SumOver(f, seen) + SumOver(f, left)
    BY <1>3, <1>4, SumUnion
<1> QED
    BY <1>4, <1>7, <1>8

\* A reported surface is compared with its own control arm, and with those left out for
\* want of one arm the surfaces make up the totals (compare_segments), for any cohort.
THEOREM SurfacesDoAddUp == MetricsSpec => []SurfacesAddUp
<1>1. MetricsInv => SurfacesAddUp
    <2> SUFFICES ASSUME MetricsInv, Reported PROVE SurfacesAddUp
        BY DEF SurfacesAddUp
    <2> DEFINE reported == DOMAIN report.segments
               left(results) == {i \in DOMAIN results : results[i].surface \notin reported}
               tB == [s \in reported |-> Of(treatment, s)]
               hB == [s \in reported |-> Of(holdout, s)]
               money == Recoveries(treatment)
               one == [i \in DOMAIN holdout |-> 1]
               moneys == [s \in reported |-> report.segments[s].treatment.recovered_paise]
               counts == [s \in reported |-> report.segments[s].holdout.events]
    <2>1. /\ treatment \in Seq(EpisodeResults) /\ holdout \in Seq(EpisodeResults)
          /\ report.comparison = CompareArms(treatment, holdout)
          /\ report.segments = CompareSegments(treatment, holdout)
        BY DEF MetricsInv, FullReport
    <2>2. reported \subseteq Surfaces
        BY <2>1 DEF CompareSegments, Compared
    <2>3. \A s \in reported :
              /\ report.segments[s].treatment = Summarise(treatment, Of(treatment, s))
              /\ report.segments[s].holdout = Summarise(holdout, Of(holdout, s))
        BY <2>1 DEF CompareSegments, Compare
    <2>4. /\ report.comparison.treatment.recovered_paise = SumOver(money, DOMAIN treatment)
          /\ report.comparison.holdout.events = Cardinality(DOMAIN holdout)
        BY <2>1 DEF CompareArms, Compare, Summarise
    <2>5. \A i \in DOMAIN treatment : money[i] \in Int
        <3>1. DOMAIN treatment \in SUBSET DOMAIN treatment
            OBVIOUS
        <3>2. \A i \in DOMAIN treatment : /\ Recoveries(treatment)[i] = treatment[i].recovered_paise
                                          /\ treatment[i].recovered_paise \in Nat
            BY <2>1, <3>1, Places
        <3> QED
            BY <3>2
    <2> HIDE DEF reported, money
    <2>6. moneys = Parts(money, tB, reported)
        <3>1. ASSUME NEW s \in reported
              PROVE  report.segments[s].treatment.recovered_paise = SumOver(money, tB[s])
            <4>1. Summarise(treatment, Of(treatment, s)).recovered_paise
                      = SumOver(money, Of(treatment, s))
                BY DEF Summarise, money
            <4> QED
                BY <2>3, <4>1
        <3> HIDE DEF tB
        <3> QED
            BY <3>1 DEF Parts
    <2>7. SumOver(Parts(money, tB, reported), reported) + SumOver(money, left(treatment))
              = SumOver(money, DOMAIN treatment)
        BY <2>1, <2>2, <2>5, PlacesSplit
    <2>8. \A S \in SUBSET DOMAIN holdout : SumOver(one, S) = Cardinality(S)
        BY <2>1, Places, SumOnes
    <2>9. counts = Parts(one, hB, reported)
        <3>1. \A s \in reported : Of(holdout, s) \in SUBSET DOMAIN holdout
            BY DEF Of
        <3> HIDE DEF one
        <3>2. \A s \in reported : report.segments[s].holdout.events = SumOver(one, Of(holdout, s))
            <4> SUFFICES ASSUME NEW s \in reported
                         PROVE  report.segments[s].holdout.events = SumOver(one, Of(holdout, s))
                OBVIOUS
            <4>1. Summarise(holdout, Of(holdout, s)).events = Cardinality(Of(holdout, s))
                BY DEF Summarise
            <4>2. SumOver(one, Of(holdout, s)) = Cardinality(Of(holdout, s))
                BY <2>8, <3>1 DEF one
            <4> QED
                BY <2>3, <4>1, <4>2
        <3> QED
            BY <3>2 DEF Parts
    <2>10. SumOver(Parts(one, hB, reported), reported) + SumOver(one, left(holdout))
               = SumOver(one, DOMAIN holdout)
        <3>1. \A i \in DOMAIN holdout : one[i] \in Int
            OBVIOUS
        <3> HIDE DEF one
        <3> QED
            BY <2>1, <2>2, <3>1, PlacesSplit
    <2>11. /\ SumOver(one, left(holdout)) = Cardinality(left(holdout))
           /\ SumOver(one, DOMAIN holdout) = Cardinality(DOMAIN holdout)
        BY <2>8
    <2> HIDE DEF one, moneys, counts, tB, hB
    <2>12. SumOver(moneys, reported) + SumOver(money, left(treatment))
               = report.comparison.treatment.recovered_paise
        BY <2>4, <2>6, <2>7
    <2>13. SumOver(counts, reported) + Cardinality(left(holdout))
               = report.comparison.holdout.events
        BY <2>4, <2>9, <2>10, <2>11
    <2> QED
        BY <2>12, <2>13 DEF SurfacesAddUp, moneys, counts, reported, money
<1> QED
    BY <1>1, MetricsHold, PTL

-----------------------------------------------------------------------------
(* The chances of the world. *)

\* At most MAX_P, in 1/10000.
IsChance(p) == p \in Nat /\ p <= 9700

\* What the recursion in Fatigued says of the function it defines.
Wears(f, p, n) == f = [i \in 0..n |-> IF i = 0 THEN p ELSE Scaled(f[i - 1], 90)]

LEMMA ScaledNat ==
    ASSUME NEW p \in Nat, NEW factor \in Nat
    PROVE  /\ Scaled(p, factor) \in Nat
           /\ factor <= 100 => Scaled(p, factor) <= p
<1> DEFINE n == p * factor
<1>1. n \in Nat /\ (factor <= 100 => n <= p * 100)
    <2>1. n \in Nat
        OBVIOUS
    <2>2. ASSUME factor <= 100 PROVE p * factor <= p * 100
        <3>1. 100 - factor \in Nat /\ p * (100 - factor) \in Nat
            BY <2>2
        <3>2. p * 100 = p * factor + p * (100 - factor)
            OBVIOUS
        <3> QED
            BY <2>1, <3>1, <3>2
    <2> QED
        BY <2>1, <2>2
<1> HIDE DEF n
<1>2. n \div 100 \in Nat /\ (factor <= 100 => n \div 100 <= p)
    BY <1>1
<1> QED
    BY <1>2 DEF Scaled, n

\* Two such functions agree as far as both go.
LEMMA WearsAlike ==
    ASSUME NEW p \in Nat, NEW n \in Nat, NEW m \in Nat, NEW f, NEW h,
           Wears(f, p, n), Wears(h, p, m)
    PROVE  \A i \in Nat : i <= n /\ i <= m => f[i] \in Nat /\ f[i] = h[i]
<1> DEFINE Q == {i \in Nat : i <= n /\ i <= m => f[i] \in Nat /\ f[i] = h[i]}
<1>1. 0 \in Q
    BY DEF Wears
<1>2. ASSUME NEW i \in Nat, i \in Q PROVE i + 1 \in Q
    <2> SUFFICES ASSUME i + 1 <= n, i + 1 <= m
                 PROVE  f[i + 1] \in Nat /\ f[i + 1] = h[i + 1]
        OBVIOUS
    <2>1. f[i] \in Nat /\ f[i] = h[i]
        BY <1>2
    <2>2. i + 1 \in 0..n /\ i + 1 \in 0..m /\ i + 1 # 0 /\ (i + 1) - 1 = i
        OBVIOUS
    <2>3. f[i + 1] = Scaled(f[i], 90) /\ h[i + 1] = Scaled(h[i], 90)
        BY <2>2 DEF Wears
    <2>4. Scaled(f[i], 90) \in Nat
        BY <2>1, ScaledNat
    <2> QED
        BY <2>1, <2>3, <2>4
<1>3. Nat \subseteq Q
    <2> HIDE DEF Q
    <2> QED
        BY <1>1, <1>2, Upwards
<1> QED
    BY <1>3

\* There is one for any number of contacts.
LEMMA WearsExists ==
    ASSUME NEW p \in Nat, NEW n \in Nat
    PROVE  \E f : Wears(f, p, n)
<1> DEFINE P == {m \in Nat : \E f : Wears(f, p, m)}
<1>1. 0 \in P
    <2> DEFINE f == [i \in 0..0 |-> p]
    <2>1. Wears(f, p, 0)
        BY DEF Wears
    <2> QED
        BY <2>1
<1>2. ASSUME NEW m \in Nat, m \in P PROVE m + 1 \in P
    <2>1. PICK f : Wears(f, p, m)
        BY <1>2
    <2> DEFINE h == [i \in 0..(m + 1) |-> IF i = 0 THEN p ELSE Scaled(f[i - 1], 90)]
    <2>2. \A i \in 0..m : h[i] = f[i]
        BY <2>1 DEF Wears
    <2>3. \A i \in 0..(m + 1) : i # 0 => i - 1 \in 0..m
        OBVIOUS
    <2>4. \A i \in 0..(m + 1) : i # 0 => h[i - 1] = f[i - 1]
        BY <2>2, <2>3
    <2>5. Wears(h, p, m + 1)
        <3> SUFFICES h = [i \in 0..(m + 1) |-> IF i = 0 THEN p ELSE Scaled(h[i - 1], 90)]
            BY DEF Wears
        <3>1. \A i \in 0..(m + 1) : (IF i = 0 THEN p ELSE Scaled(f[i - 1], 90))
                                  = (IF i = 0 THEN p ELSE Scaled(h[i - 1], 90))
            BY <2>4
        <3> QED
            BY <3>1
    <2> HIDE DEF h
    <2> QED
        BY <2>5
<1>3. n \in P
    <2> HIDE DEF P
    <2> QED
        BY <1>1, <1>2, Upwards
<1> QED
    BY <1>3

\* A contact more takes a tenth, rounded, of what the others have left.
LEMMA FatiguedOnce ==
    ASSUME NEW p \in Nat, NEW n \in Nat
    PROVE  /\ Fatigued(p, n) \in Nat
           /\ Fatigued(p, n + 1) = Scaled(Fatigued(p, n), 90)
<1> DEFINE f == CHOOSE f : f = [i \in 0..n |-> IF i = 0 THEN p ELSE Scaled(f[i - 1], 90)]
           h == CHOOSE h : h = [i \in 0..(n + 1) |->
                                   IF i = 0 THEN p ELSE Scaled(h[i - 1], 90)]
           new == n + 1
<1>1. Wears(f, p, n)
    BY WearsExists DEF Wears
<1>2. Wears(h, p, n + 1)
    <2>1. new \in Nat
        OBVIOUS
    <2> HIDE DEF new
    <2>2. \E k : Wears(k, p, new)
        BY <2>1, WearsExists
    <2> QED
        BY <2>2 DEF Wears, new
<1>3. Fatigued(p, n) = f[n] /\ Fatigued(p, n + 1) = h[n + 1]
    BY DEF Fatigued
<1> HIDE DEF f, h
<1>4. f[n] \in Nat /\ f[n] = h[n]
    <2>1. new \in Nat /\ n <= n /\ n <= new
        OBVIOUS
    <2>2. Wears(h, p, new)
        BY <1>2
    <2> HIDE DEF new
    <2> QED
        BY <1>1, <2>1, <2>2, WearsAlike
<1>5. h[n + 1] = Scaled(h[n], 90)
    <2>1. n + 1 \in 0..(n + 1) /\ n + 1 # 0 /\ (n + 1) - 1 = n
        OBVIOUS
    <2> QED
        BY <1>2, <2>1 DEF Wears
<1> QED
    BY <1>3, <1>4, <1>5

LEMMA CappedChance ==
    ASSUME NEW p \in Nat
    PROVE  IsChance(Capped(p)) /\ \A q \in 0..p : Capped(q) <= Capped(p)
<1>1. Capped(p) \in Nat /\ Capped(p) <= 9700
    BY DEF Capped
<1>2. \A q \in 0..p : Capped(q) <= Capped(p)
    BY DEF Capped
<1> QED
    BY <1>1, <1>2 DEF IsChance

LEMMA TruthParts ==
    ASSUME NEW truth \in Truths
    PROVE  truth.intent \in Nat /\ truth.class \in CustomerClasses
<1>1. truth.intent \in Intents /\ truth.class \in CustomerClasses
    BY DEF Truths, LatentStates
<1> DEFINE intent == truth.intent
<1>2. \A i \in Intents : i \in 0..1000
    BY TrialAssumption
<1>3. \A i \in 0..1000 : i \in Nat
    OBVIOUS
<1>4. intent \in Nat
    <2> HIDE DEF intent
    <2>1. intent \in Intents
        BY <1>1 DEF intent
    <2> QED
        BY <1>2, <1>3, <2>1
<1> QED
    BY <1>1, <1>4

LEMMA BaseNat ==
    ASSUME NEW truth \in Truths
    PROVE  BaseProbability(truth) \in Nat
<1>0. truth.intent \in Nat /\ truth.class \in CustomerClasses
    BY TruthParts
<1>1. BASELINE_RECOVERY[truth.class] \in Nat
    BY <1>0 DEF BASELINE_RECOVERY, CustomerClasses
<1> DEFINE b == BASELINE_RECOVERY[truth.class]
           n == b * (500 + truth.intent)
<1>2. n \in Nat
    <2>1. b \in Nat /\ 500 + truth.intent \in Nat
        BY <1>0, <1>1
    <2> DEFINE i == 500 + truth.intent
    <2> HIDE DEF b, i
    <2>2. b * i \in Nat
        BY <2>1 DEF i
    <2> QED
        BY <2>2 DEF i
<1>3. n \div 1000 \in Nat
    <2> HIDE DEF n
    <2> QED
        BY <1>2
<1> QED
    BY <1>3 DEF BaseProbability

\* The factor of a message is a number whatever the hour and the intent.
LEMMA NudgeNat ==
    ASSUME NEW truth \in Truths, NEW at \in Nat
    PROVE  NudgeFactor(truth, at) \in Nat
<1>0. truth.intent \in Nat
    BY TruthParts
<1> DEFINE match == IF (at % 24) - truth.success_hour \in -1..1 THEN 135 ELSE 80
           s == Scaled(190, match)
           n == s * truth.intent
<1>1. s \in Nat
    <2>1. match \in Nat
        OBVIOUS
    <2> HIDE DEF match
    <2> QED
        BY <2>1, ScaledNat
<1> HIDE DEF s
<1>2. n \in Nat
    BY <1>0, <1>1
<1>3. n \div 1000 \in Nat
    <2> HIDE DEF n
    <2> QED
        BY <1>2
<1>4. NudgeFactor(truth, at) = 105 \/ NudgeFactor(truth, at) = n \div 1000
    BY DEF NudgeFactor, s, n
<1> QED
    BY <1>3, <1>4

\* A chance worn by contacts is a chance, and no greater after one more.
LEMMA WornChance ==
    ASSUME NEW base \in Nat, NEW factor \in Nat, NEW prior \in Nat
    PROVE  /\ IsChance(Capped(Fatigued(Scaled(base, factor), prior)))
           /\ Capped(Fatigued(Scaled(base, factor), prior + 1))
                  <= Capped(Fatigued(Scaled(base, factor), prior))
<1> DEFINE p == Scaled(base, factor)
           q == Fatigued(p, prior)
           r == Scaled(q, 90)
<1>1. p \in Nat
    BY ScaledNat
<1> HIDE DEF p
<1>2. q \in Nat /\ Fatigued(p, prior + 1) = r
    BY <1>1, FatiguedOnce
<1> HIDE DEF q
<1>3. r \in Nat /\ r <= q
    BY <1>2, ScaledNat
<1> HIDE DEF r
<1>4. r \in 0..q
    BY <1>2, <1>3
<1>5. IsChance(Capped(q)) /\ Capped(r) <= Capped(q)
    BY <1>2, <1>4, CappedChance
<1> QED
    BY <1>2, <1>5 DEF p, q

\* A retry does not depend on the contacts made.
LEMMA RetryChance ==
    ASSUME NEW truth, NEW base \in Nat, NEW at, NEW hours
    PROVE  IsChance(RetryProbability(truth, base, at, hours))
<1>1. Scaled(base, 205) \in Nat /\ Scaled(base, 45) \in Nat /\ Scaled(base, 115) \in Nat
    <2>1. \A factor \in Nat : Scaled(base, factor) \in Nat
        BY ScaledNat
    <2> QED
        BY <2>1
<1>2. /\ IsChance(Capped(Scaled(base, 205))) /\ IsChance(Capped(Scaled(base, 45)))
      /\ IsChance(Capped(Scaled(base, 115)))
    BY <1>1, CappedChance
<1>3. IsChance(200) /\ IsChance(100)
    BY DEF IsChance
<1> QED
    BY <1>2, <1>3 DEF RetryProbability

\* Nothing is certain (latents.py, MAX_P), and a contact more never makes it likelier that
\* the customer pays (_fatigue): for every truth the generator can draw, every action, time
\* and number of contacts, however the factors multiply and round.
THEOREM FatigueNeverHelps ==
    ASSUME NEW truth \in Truths, NEW action \in AllActions, NEW at \in Nat, NEW hours \in Nat,
           NEW prior \in Nat
    PROVE  /\ IsChance(SuccessProbability(truth, action, at, hours, prior))
           /\ SuccessProbability(truth, action, at, hours, prior + 1)
                  <= SuccessProbability(truth, action, at, hours, prior)
<1> DEFINE base == BaseProbability(truth)
           with(factor, n) == Capped(Fatigued(Scaled(base, factor), n))
           chance(n) == SuccessProbability(truth, action, at, hours, n)
           Fine == IsChance(chance(prior)) /\ chance(prior + 1) <= chance(prior)
<1> SUFFICES Fine
    OBVIOUS
<1>1. base \in Nat
    BY BaseNat
<1>2. truth.merchant_config \in BOOLEAN
    BY DEF Truths, LatentStates
<1>3. action = "NO_ACTION" => \A n : chance(n) = Capped(base)
    BY DEF SuccessProbability
<1>4. action # "NO_ACTION"
          => \A n : chance(n) = ActionProbability(truth, base, action, at, hours, n)
    BY DEF SuccessProbability
<1> HIDE DEF base, chance
<1>5. ASSUME NEW p \in Nat, \A n : chance(n) = Capped(p) PROVE Fine
    <2>1. IsChance(Capped(p))
        BY CappedChance
    <2> DEFINE c == Capped(p)
    <2>2. c <= c
        BY <2>1 DEF IsChance
    <2> HIDE DEF c
    <2>3. IsChance(c) /\ \A n : chance(n) = c
        BY <1>5, <2>1 DEF c
    <2> QED
        BY <2>2, <2>3 DEF Fine
<1>6. ASSUME NEW factor \in Nat, \A n : chance(n) = with(factor, n) PROVE Fine
    <2>1. IsChance(with(factor, prior)) /\ with(factor, prior + 1) <= with(factor, prior)
        BY <1>1, WornChance
    <2> HIDE DEF with
    <2> QED
        BY <1>6, <2>1
<1> HIDE DEF Fine
<1>7. CASE action = "NO_ACTION"
    BY <1>1, <1>3, <1>5, <1>7
<1>8. CASE action # "NO_ACTION" /\ truth.merchant_config
    <2> DEFINE p == IF action = "ESCALATE_HUMAN" THEN Scaled(base, 320) ELSE base
    <2>1. \A n : chance(n) = Capped(p)
        BY <1>4, <1>8 DEF ActionProbability
    <2>2. p \in Nat
        BY <1>1, ScaledNat
    <2> HIDE DEF p
    <2> QED
        BY <1>5, <2>1, <2>2
<1>9. CASE action \in RetryActions /\ ~truth.merchant_config
    <2> DEFINE retry == RetryProbability(truth, base, at, hours)
    <2>1. action # "NO_ACTION" /\ action # "NUDGE" /\ action # "ESCALATE_HUMAN"
          /\ action # "SWITCH_METHOD"
        BY <1>9 DEF RetryActions
    <2>2. \A n : chance(n) = retry
        BY <1>4, <1>9, <2>1 DEF ActionProbability
    <2>3. IsChance(retry)
        BY <1>1, RetryChance
    <2> HIDE DEF retry
    <2> QED
        BY <2>2, <2>3 DEF Fine, IsChance
<1>10. CASE action = "SWITCH_METHOD" /\ ~truth.merchant_config
    <2> DEFINE factor == SwitchFactor(truth)
    <2>1. \A n : chance(n) = with(factor, n)
        BY <1>4, <1>10 DEF ActionProbability, RetryActions
    <2>2. factor \in Nat
        BY DEF SwitchFactor
    <2> HIDE DEF with, factor
    <2> QED
        BY <1>6, <2>1, <2>2
<1>11. CASE action = "NUDGE" /\ ~truth.merchant_config
    <2> DEFINE factor == NudgeFactor(truth, at)
    <2>1. \A n : chance(n) = with(factor, n)
        BY <1>4, <1>11 DEF ActionProbability, RetryActions
    <2>2. factor \in Nat
        BY NudgeNat
    <2> HIDE DEF with, factor
    <2> QED
        BY <1>6, <2>1, <2>2
<1>12. CASE action = "ESCALATE_HUMAN" /\ ~truth.merchant_config
    <2>1. \A n : chance(n) = with(260, n)
        BY <1>4, <1>12 DEF ActionProbability, RetryActions
    <2> HIDE DEF with
    <2> QED
        BY <1>6, <2>1
<1>13. Fine
    BY <1>2, <1>7, <1>8, <1>9, <1>10, <1>11, <1>12
       DEF AllActions, RetryActions, ContactActions
<1> QED
    BY <1>13
=============================================================================
