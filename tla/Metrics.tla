------------------------------ MODULE Metrics -------------------------------
(***************************************************************************)
(* What a run reports (eval/metrics.py, and the end of run_batch.run): the *)
(* arms summed up, compared as a whole and surface by surface, and a       *)
(* census of why episodes ended.  Rates are kept as counts and compared by *)
(* cross-multiplying.  The bootstrap interval is left out.                 *)
(***************************************************************************)
EXTENDS Sequences, Sums

CONSTANTS
    Surfaces,       \* source types
    StopReasons,
    Results,        \* bound: the episode results that are told apart
    MaxEpisodes     \* bound: episodes per arm

EpisodeResults ==
    [surface: Surfaces, recovered_paise: Nat, cost_paise: Nat, stop_reason: StopReasons]

ASSUME MetricsAssumption ==
    /\ IsFiniteSet(Surfaces)
    /\ Results \subseteq EpisodeResults
    /\ MaxEpisodes \in Nat

VARIABLES
    treatment, holdout,     \* the results of each arm, in the order of the cohort
    report                  \* empty until the cohort has been walked

metricsVars == <<treatment, holdout, report>>

Reported == DOMAIN report # {}

-----------------------------------------------------------------------------
(* summarise and compare *)

Recoveries(results) == [i \in DOMAIN results |-> results[i].recovered_paise]
Costs(results) == [i \in DOMAIN results |-> results[i].cost_paise]

\* The results at the places S of an arm.
Summarise(results, S) ==
    [events |-> Cardinality(S),
     recovered_events |-> Cardinality({i \in S : results[i].recovered_paise > 0}),
     recovered_paise |-> SumOver(Recoveries(results), S),
     cost_paise |-> SumOver(Costs(results), S)]

AtLeastOne(n) == IF n = 0 THEN 1 ELSE n

\* round(n / d): to the nearest whole number, halves to the even one.
Rounded(n, d) ==
    LET q == n \div d
        twice == 2 * (n % d)
    IN  IF twice > d \/ (twice = d /\ q % 2 = 1) THEN q + 1 ELSE q

\* Mutant: the control arm's customers are taken to pay what they paid, not what ours do.
Counterfactual_HoldoutTickets(t, h) == Rounded(h.recovered_paise * t.events, AtLeastOne(h.events))

\* What the treated arm would have recovered at the control arm's rate, at its own average
\* ticket.
Counterfactual(t, h) ==
    Rounded(h.recovered_events * t.events * t.recovered_paise,
            AtLeastOne(h.events) * AtLeastOne(t.recovered_events))

ExtraRecoveries(t, h) ==
    t.recovered_events - Rounded(h.recovered_events * t.events, AtLeastOne(h.events))

CostPerRecovery(t, h) ==
    IF ExtraRecoveries(t, h) > 0 THEN t.cost_paise \div ExtraRecoveries(t, h) ELSE -1

\* `lift` has the sign of the difference of the two rates.
Compare(t, h) ==
    LET incremental == t.recovered_paise - Counterfactual(t, h)
    IN  [treatment |-> t, holdout |-> h,
         lift |-> t.recovered_events * AtLeastOne(h.events)
                  - h.recovered_events * AtLeastOne(t.events),
         incremental |-> incremental,
         net_incremental |-> incremental - t.cost_paise,
         cost_per_recovery |-> CostPerRecovery(t, h)]

CompareArms(ts, hs) == Compare(Summarise(ts, DOMAIN ts), Summarise(hs, DOMAIN hs))

Of(results, surface) == {i \in DOMAIN results : results[i].surface = surface}

\* A surface with an empty arm is left out.
Compared(ts, hs) == {s \in Surfaces : Of(ts, s) # {} /\ Of(hs, s) # {}}

\* Mutant: a surface is compared with the control arm as a whole.
CompareSegments_PooledHoldout(ts, hs) ==
    [s \in Compared(ts, hs) |->
        Compare(Summarise(ts, Of(ts, s)), Summarise(hs, DOMAIN hs))]

CompareSegments(ts, hs) ==
    [s \in Compared(ts, hs) |->
        Compare(Summarise(ts, Of(ts, s)), Summarise(hs, Of(hs, s)))]

CountStops(results) ==
    [s \in {results[i].stop_reason : i \in DOMAIN results} |->
        Cardinality({i \in DOMAIN results : results[i].stop_reason = s})]

-----------------------------------------------------------------------------

MetricsInit == treatment = <<>> /\ holdout = <<>> /\ report = <<>>

Treated(r) ==
    /\ ~Reported /\ Len(treatment) < MaxEpisodes
    /\ treatment' = Append(treatment, r)
    /\ UNCHANGED <<holdout, report>>

\* The control arm spends nothing.
Observed(r) ==
    /\ ~Reported /\ Len(holdout) < MaxEpisodes
    /\ r.cost_paise = 0
    /\ holdout' = Append(holdout, r)
    /\ UNCHANGED <<treatment, report>>

Report ==
    /\ ~Reported
    /\ report' = [comparison |-> CompareArms(treatment, holdout),
                  segments |-> CompareSegments(treatment, holdout),
                  stops |-> CountStops(treatment)]
    /\ UNCHANGED <<treatment, holdout>>

MetricsNext == Report \/ \E r \in Results : Treated(r) \/ Observed(r)

MetricsSpec == MetricsInit /\ [][MetricsNext]_metricsVars

-----------------------------------------------------------------------------
(* Properties. *)

Comparisons == {report.comparison} \cup {report.segments[s] : s \in DOMAIN report.segments}

\* The money called incremental never has the sign that the lift has not, and a cost per
\* recovery is quoted only where the treated arm did better: the headline numbers of a run
\* do not contradict each other, as a whole or on any surface (compare, with its roundings,
\* its clamped denominators and its own average ticket).
HeadlinesAgree ==
    Reported => \A c \in Comparisons :
        /\ c.lift > 0 => c.incremental >= 0
        /\ c.lift < 0 => c.incremental <= 0
        /\ c.lift = 0 => c.incremental = 0
        /\ c.cost_per_recovery # -1 => c.lift > 0

\* Surface by surface the report accounts for the episodes it was given: a reported surface
\* is compared with its own control arm, and together with those left out for want of one
\* arm they make up the totals (compare_segments).
SurfacesAddUp ==
    Reported =>
        LET reported == DOMAIN report.segments
            left(results) == {i \in DOMAIN results : results[i].surface \notin reported}
        IN  /\ SumOver([s \in reported |-> report.segments[s].treatment.recovered_paise], reported)
                  + SumOver(Recoveries(treatment), left(treatment))
                  = report.comparison.treatment.recovered_paise
            /\ SumOver([s \in reported |-> report.segments[s].holdout.events], reported)
                  + Cardinality(left(holdout))
                  = report.comparison.holdout.events
=============================================================================
