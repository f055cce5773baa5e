------------------------------- MODULE Ranking -------------------------------
(***************************************************************************)
(* Pricing the candidates of one decision (decide/ev.py, multipliers.py)   *)
(* and the filters of the agent's _decide.  Probabilities and factors are  *)
(* in thousandths, times in hours.  What the bandit believes about an      *)
(* action comes in as `draw`: one number per action type, shared by its    *)
(* candidates.                                                             *)
(***************************************************************************)
EXTENDS Integers, FiniteSets

CONSTANTS
    Slate,           \* candidates on offer: action, hours from now, direct cost
    ContactCounts,   \* bound: numbers of recent contacts that are told apart
    AttentionCost,   \* attention_cost_paise after n recent contacts
    MAX_DECISIONS

CONTACT_ACTIONS == {"NUDGE", "ESCALATE_HUMAN"}
RETRY_ACTIONS == {"RETRY_NOW", "RETRY_SCHEDULED"}
ActionTypes == CONTACT_ACTIONS \cup RETRY_ACTIONS \cup {"NO_ACTION", "SWITCH_METHOD"}

Candidates == [action: ActionTypes, offset: Nat, direct: Nat]
Resting(c) == c.action = "NO_ACTION"

ASSUME SlateAssumption ==
    /\ Slate \subseteq Candidates /\ IsFiniteSet(Slate)
    /\ \E c \in Slate : Resting(c)
    /\ \A c \in Slate : Resting(c) <=> c.direct = 0

ASSUME PriceAssumption ==
    /\ MAX_DECISIONS \in Nat \ {0}
    /\ ContactCounts \subseteq Nat /\ ContactCounts # {}
    /\ AttentionCost \in [ContactCounts -> Nat]

-----------------------------------------------------------------------------
(* multipliers.adjust *)

Times(p, factor) == (p * factor) \div 1000

Power(factor, n) ==
    LET f[i \in 0..n] == IF i = 0 THEN 1000 ELSE Times(f[i - 1], factor) IN f[n]

HourOf(t) == t % 24
DayOf(t) == ((t \div 24) % 30) + 1

Near(h, k) == h - k \in -1..1

Outage(x, c) ==
    IF x.clears_in = 0 THEN 1000 ELSE IF c.offset < x.clears_in THEN 350 ELSE 1600

Clamped(p) == IF p > 970 THEN 970 ELSE p

Adjust(p, x, c) ==
    LET at        == x.now + c.offset
        contact   == c.action \in CONTACT_ACTIONS
        attrition == Power(780, x.attempt - 1)
        timing    == IF (contact \/ c.action = "RETRY_SCHEDULED") /\ x.hours # {}
                     THEN IF \E h \in x.hours : Near(HourOf(at), h) THEN 1250 ELSE 880
                     ELSE 1000
        rail      == IF c.action \in RETRY_ACTIONS THEN Outage(x, c) ELSE 1000
        fatigue   == IF contact THEN Power(877, x.contacts) ELSE 1000
        track     == IF x.recoveries > 0 THEN 1200 ELSE IF x.failures > 0 THEN 900 ELSE 1000
        salary    == IF x.class = "FUNDS" /\ DayOf(at) \in 1..5 THEN 1450 ELSE 1000
        adjusted  == Times(Times(Times(Times(Times(Times(p, attrition), timing), rail),
                                       fatigue), track), salary)
    IN  Clamped(adjusted)

-----------------------------------------------------------------------------
(* ev.score_candidates and ev.choose *)

\* round(n / d)
Rounded(n, d) == (2 * n + d) \div (2 * d)

AttentionOf(c, contacts) == IF c.action \in CONTACT_ACTIONS THEN AttentionCost[contacts] ELSE 0

\* The do-nothing baseline is the mean of the NO_ACTION arm, never a draw.
Baseline(x, mean) == Adjust(mean, x, CHOOSE c \in Slate : Resting(c))

Propensity(x, c, mean, draw) ==
    IF Resting(c) THEN Baseline(x, mean) ELSE Adjust(draw[c.action], x, c)

\* The chance that the customer has not paid unaided before the episode ends.
Discount(x, base) == Power(1000 - base, x.steps_remaining - 1)

\* Mutant: acting is worth the payment, refusing nothing.
ExpectedValue_NotIncremental(x, c, mean, draw) ==
    IF Resting(c) THEN 0
    ELSE Rounded(Propensity(x, c, mean, draw) * x.value, 1000)
            - c.direct - AttentionOf(c, x.contacts)

ExpectedValue(x, c, mean, draw) ==
    LET base == Baseline(x, mean)
        gain == Propensity(x, c, mean, draw) - base
    IN  Rounded(Times(gain, Discount(x, base)) * x.value, 1000)
            - c.direct - AttentionOf(c, x.contacts)

Priced(x, slate, mean, draw) ==
    {[action |-> c.action, offset |-> c.offset, direct |-> c.direct,
      attention |-> AttentionOf(c, x.contacts), p |-> Propensity(x, c, mean, draw),
      value |-> ExpectedValue(x, c, mean, draw)] : c \in slate}

Beats(a, b) == a.value > b.value \/ (a.value = b.value /\ a.direct < b.direct)

\* argmax of the value, the cheaper first; refusing takes the place of a loss if it is on
\* the slate.
Choose(priced) ==
    LET best == {a \in priced : \A b \in priced : ~Beats(b, a)}
        rest == {a \in priced : Resting(a)}
    IN  IF (\A a \in best : a.value < 0) /\ rest # {} THEN rest ELSE best

\* What is refused stays off the slate while anything else is on it; a mandated type is
\* taken alone if it is left.
Considered(slate, refused, force) ==
    LET survivors == {c \in slate : c.action \notin refused}
        left      == IF survivors = {} THEN slate ELSE survivors
        mandated  == {c \in left : c.action = force}
    IN  IF mandated = {} THEN left ELSE mandated
=============================================================================
