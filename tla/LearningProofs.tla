--------------------------- MODULE LearningProofs ---------------------------
(***************************************************************************)
(* What the agent learns and what it decides by it, for any classes, any   *)
(* events, any number of episodes and every draw.                          *)
(***************************************************************************)
EXTENDS Learning, SumProofs

Posteriors == [alpha: Nat \ {0}, beta: Nat \ {0}]
Distributions == [Classes -> 0..W]

CellsType ==
    /\ DOMAIN cells \subseteq Classes \X ActionTypes
    /\ \A k \in DOMAIN cells : cells[k] \in Posteriors

ToldType == told \in [ActionTypes -> [asked: Nat, paid: Nat]]

SourcesType ==
    /\ DOMAIN sources \subseteq DiagnosisSources
    /\ \A s \in DOMAIN sources : sources[s] \in Posteriors
    /\ vouched \in [DiagnosisSources -> [paid: Nat, unpaid: Nat]]

\* The diagnosis that a pass begins with.
IsDiagnosis(dx) ==
    /\ dx.trust \in DiagnosisSources \cup {NoSource}
    /\ dx.beliefs \in Distributions /\ SumOver(dx.beliefs, Classes) = W

-----------------------------------------------------------------------------
(* Beliefs. *)

\* Whoever is trusted, what is believed adds up to one.
LEMMA ShrinkKeepsWhole ==
    ASSUME NEW profile \in EventProfiles, NEW source \in DiagnosisSources
    PROVE  LET beliefs == Shrink(profile.opinion, profile.class, source)
           IN  beliefs \in Distributions /\ SumOver(beliefs, Classes) = W
<1> DEFINE opinion == profile.opinion
           known   == [c \in Classes |-> IF c = profile.class THEN W ELSE 0]
           beliefs == Shrink(opinion, profile.class, source)
<1>1. /\ profile.class \in Classes /\ opinion \in [Classes -> {0, 2, 4}]
      /\ SumOver(opinion, Classes) = W /\ IsFiniteSet(Classes)
    BY ProfileAssumption DEF Profiles
<1>2. \A c \in Classes : opinion[c] \in {0, 2, 4} /\ known[c] \in {0, 4}
    BY <1>1 DEF W
<1>3. Summable(known, Classes) /\ Summable(opinion, Classes)
    BY <1>1, <1>2 DEF Summable
<1>4. SumOver(known, Classes) = W
    <2> DEFINE none == [c \in Classes |-> 0]
    <2>1. SumOver(none, Classes) = 0
        BY <1>1, SumZero
    <2>2. SumOver(known, Classes) = SumOver(none, Classes) + (W - 0)
        <3>1. /\ Summable(none, Classes) /\ known[profile.class] = W /\ none[profile.class] = 0
              /\ \A c \in Classes \ {profile.class} : known[c] = none[c]
              /\ W \in Int
            BY <1>1 DEF Summable, W
        <3> HIDE DEF none, known
        <3> QED
            BY <1>1, <3>1, SumBump
    <2> QED
        BY <2>1, <2>2 DEF W
<1>5. CASE source = "taxonomy"
    <2>1. beliefs = known
        BY <1>5 DEF Shrink
    <2> QED
        BY <1>2, <1>4, <2>1 DEF Distributions, W
<1>6. CASE source = "model"
    <2>1. beliefs = opinion
        BY <1>1, <1>6 DEF Shrink
    <2> QED
        BY <1>1, <1>2, <2>1 DEF Distributions, W
<1>7. CASE source = "blended"
    <2> DEFINE both == [c \in Classes |-> known[c] + opinion[c]]
    <2>1. beliefs = [c \in Classes |-> (known[c] + opinion[c]) \div 2]
        BY <1>7 DEF Shrink
    <2>2. \A c \in Classes : beliefs[c] \in 0..4 /\ both[c] = beliefs[c] + beliefs[c]
        BY <1>2, <2>1
    <2>3. beliefs = [c \in Classes |-> beliefs[c]]
        <3> HIDE DEF beliefs
        <3> QED
            BY <2>1
    <2>4. Summable(beliefs, Classes)
        BY <1>1, <2>2 DEF Summable
    <2>5. SumOver(both, Classes) = SumOver(known, Classes) + SumOver(opinion, Classes)
        <3>1. \A c \in Classes : both[c] = known[c] + opinion[c]
            OBVIOUS
        <3> HIDE DEF both, known, opinion
        <3> QED
            BY <1>3, <3>1, SumPlus
    <2>6. SumOver(both, Classes) = SumOver(beliefs, Classes) + SumOver(beliefs, Classes)
        <3> HIDE DEF both, beliefs
        <3> QED
            BY <2>2, <2>4, SumPlus
    <2>7. SumOver(beliefs, Classes) \in Int
        BY <2>4, SumInt
    <2>8. SumOver(beliefs, Classes) = W
        <3> HIDE DEF both, beliefs, known, opinion
        <3> QED
            BY <1>1, <1>4, <2>5, <2>6, <2>7 DEF W
    <2>9. beliefs \in Distributions
        <3> HIDE DEF beliefs
        <3> QED
            BY <2>2, <2>3 DEF Distributions, W
    <2> QED
        BY <2>8, <2>9
<1> QED
    BY <1>5, <1>6, <1>7 DEF DiagnosisSources

LEMMA Diagnosed ==
    ASSUME NEW profile \in EventProfiles, NEW dx \in Diagnoses(profile)
    PROVE  IsDiagnosis(dx)
<1>1. TrustedSources \subseteq DiagnosisSources /\ "taxonomy" \in DiagnosisSources
    BY DEF TrustedSources, DiagnosisSources
<1>2. PICK s \in DiagnosisSources \cup {NoSource}, t \in DiagnosisSources :
          dx = [trust |-> s, beliefs |-> Shrink(profile.opinion, profile.class, t)]
    BY <1>1 DEF Diagnoses
<1> QED
    BY <1>2, ShrinkKeepsWhole DEF IsDiagnosis

-----------------------------------------------------------------------------
(* Evidence. *)

\* What is spread over the classes of one action arrives in full, in cells that were there
\* and in new ones; at[c] is the cell of c.
LEMMA Spread ==
    ASSUME NEW at, \A c \in Classes : at[c][1] = c,
           NEW H, NEW N, H \subseteq N, \A k \in N : k[1] \in Classes /\ k = at[k[1]],
           NEW f, NEW g, NEW b, Summable(b, Classes), \A k \in H : f[k] \in Int,
           \A k \in N : g[k] = (IF k \in H THEN f[k] ELSE 0) + b[k[1]],
           \A c \in Classes : at[c] \notin N => b[c] = 0
    PROVE  SumOver(g, N) = SumOver(f, H) + SumOver(b, Classes)
<1> DEFINE K == {at[c] : c \in Classes}
           F == [k \in K |-> IF k \in H THEN f[k] ELSE 0]
           B == [k \in K |-> b[k[1]]]
           G == [k \in K |-> F[k] + B[k]]
<1>1. IsFiniteSet(K) /\ SumOver(B, K) = SumOver(b, Classes)
    <2>1. /\ \A c \in Classes : at[c] \in K /\ B[at[c]] = b[c]
          /\ \A k \in K : \E c \in Classes : k = at[c]
          /\ \A c, d \in Classes : at[c] = at[d] => c = d
        OBVIOUS
    <2> HIDE DEF B, K
    <2> QED
        BY <2>1, SumImage
<1>2. IsFiniteSet(H) /\ IsFiniteSet(N) /\ H \in SUBSET K /\ N \in SUBSET K
    BY <1>1, FS_Subset
<1>3. /\ \A k \in K : F[k] \in Int /\ B[k] \in Int /\ G[k] = F[k] + B[k] /\ G[k] \in Int
      /\ \A k \in H : F[k] = f[k]
      /\ \A k \in K \ H : F[k] = 0
    BY <1>2 DEF Summable
<1>4. \A k \in N : g[k] = G[k]
    BY <1>2
<1>5. \A k \in K \ N : G[k] = 0
    <2> SUFFICES ASSUME NEW k \in K \ N PROVE G[k] = 0
        OBVIOUS
    <2>1. PICK c \in Classes : k = at[c]
        OBVIOUS
    <2>2. b[c] = 0 /\ k \notin H /\ k[1] = c
        BY <2>1
    <2> QED
        BY <2>1, <2>2
<1> HIDE DEF F, B, G, K
<1>6. /\ Summable(F, K) /\ Summable(B, K) /\ Summable(G, K) /\ Summable(G, N) /\ Summable(F, H)
      /\ Summable(f, H)
    BY <1>1, <1>2, <1>3 DEF Summable
<1>7. SumOver(F, K) = SumOver(F, H)
    BY <1>1, <1>2, <1>3, <1>6, SumWiden
<1>8. SumOver(F, H) = SumOver(f, H)
    BY <1>3, <1>6, SumSame
<1>9. SumOver(G, K) = SumOver(G, N)
    BY <1>1, <1>2, <1>5, <1>6, SumWiden
<1>10. SumOver(g, N) = SumOver(G, N)
    BY <1>4, <1>6, SumSame
<1>11. SumOver(G, K) = SumOver(F, K) + SumOver(B, K)
    BY <1>3, <1>6, SumPlus
<1> QED
    BY <1>1, <1>7, <1>8, <1>9, <1>10, <1>11

Held(a) == {k \in DOMAIN cells : k[2] = a}

\* What one answer of the world adds to the cells of the action asked about.
LEMMA LearnCell ==
    ASSUME CellsType, NEW dx, IsDiagnosis(dx), NEW action \in ActionTypes, NEW got \in BOOLEAN,
           Learn(dx, action, got), NEW k \in DOMAIN cells'
    PROVE  /\ k \in Classes \X ActionTypes /\ cells'[k] \in Posteriors
           /\ k[2] # action => k \in DOMAIN cells /\ cells'[k] = cells[k]
           /\ k[2] = action =>
                 /\ cells'[k].alpha - W = (IF k \in DOMAIN cells THEN cells[k].alpha - W ELSE 0)
                                              + (IF got THEN dx.beliefs[k[1]] ELSE 0)
                 /\ cells'[k].beta - W = (IF k \in DOMAIN cells THEN cells[k].beta - W ELSE 0)
                                              + (IF got THEN 0 ELSE dx.beliefs[k[1]])
<1> DEFINE beliefs == dx.beliefs
           touched == Support(beliefs) \X {action}
           was     == PosteriorIn(cells, k)
<1>1. /\ cells' = [l \in DOMAIN cells \cup touched |->
                      IF l \in touched THEN Updated(PosteriorIn(cells, l), got, beliefs[l[1]])
                      ELSE cells[l]]
      /\ Support(beliefs) \subseteq Classes
    BY DEF Learn, UpdateDistribution, Support
<1>2. k \in DOMAIN cells \cup touched /\ k \in Classes \X ActionTypes
    BY <1>1 DEF CellsType
<1>3. PICK c \in Classes, a \in ActionTypes : k = <<c, a>>
    BY <1>2
<1>4. k[1] = c /\ k[2] = a /\ (k \in touched <=> c \in Support(beliefs) /\ a = action)
    BY <1>3
<1>5. beliefs[c] \in 0..W /\ (c \in Support(beliefs) <=> beliefs[c] > 0)
    BY DEF IsDiagnosis, Distributions, Support
<1>6. CASE k \notin touched
    <2>1. k \in DOMAIN cells /\ cells'[k] = cells[k] /\ cells[k] \in Posteriors
        BY <1>1, <1>2, <1>6 DEF CellsType
    <2>2. a = action => beliefs[c] = 0
        BY <1>4, <1>5, <1>6 DEF W
    <2>3. cells[k].alpha \in Int /\ cells[k].beta \in Int
        BY <2>1 DEF Posteriors
    <2> QED
        BY <1>2, <1>4, <2>1, <2>2, <2>3 DEF W
<1>7. CASE k \in touched
    <2>1. cells'[k] = Updated(was, got, beliefs[c]) /\ a = action /\ beliefs[c] > 0
        BY <1>1, <1>2, <1>4, <1>5, <1>7
    <2>2. /\ was \in Posteriors
          /\ was.alpha - W = (IF k \in DOMAIN cells THEN cells[k].alpha - W ELSE 0)
          /\ was.beta - W = (IF k \in DOMAIN cells THEN cells[k].beta - W ELSE 0)
        <3>1. CASE k \in DOMAIN cells
            BY <3>1 DEF PosteriorIn, CellsType
        <3>2. CASE k \notin DOMAIN cells
            BY <3>2 DEF PosteriorIn, Prior, Posteriors, W
        <3> QED
            BY <3>1, <3>2
    <2> HIDE DEF was
    <2>3. /\ cells'[k] \in Posteriors
          /\ cells'[k].alpha = was.alpha + (IF got THEN beliefs[c] ELSE 0)
          /\ cells'[k].beta = was.beta + (IF got THEN 0 ELSE beliefs[c])
        <3>1. CASE got
            BY <1>5, <2>1, <2>2, <3>1 DEF Updated, Posteriors, W
        <3>2. CASE ~got
            BY <1>5, <2>1, <2>2, <3>2 DEF Updated, Posteriors, W
        <3> QED
            BY <3>1, <3>2
    <2>4. was.alpha \in Int /\ was.beta \in Int
        BY <2>2 DEF Posteriors
    <2> QED
        BY <1>2, <1>4, <1>5, <2>1, <2>2, <2>3, <2>4 DEF W
<1> QED
    BY <1>6, <1>7

LEMMA LearnAccounts ==
    ASSUME CellsType, ToldType, CellsAccountForWorld, NEW dx, IsDiagnosis(dx),
           NEW action \in ActionTypes, NEW got \in BOOLEAN, Learn(dx, action, got)
    PROVE  CellsType' /\ ToldType' /\ CellsAccountForWorld'
<1> DEFINE beliefs == dx.beliefs
<1>1. CellsType'
    BY LearnCell DEF CellsType
<1>2. /\ ToldType'
      /\ \A a \in ActionTypes \ {action} : told'[a] = told[a]
      /\ told'[action].asked = told[action].asked + 1
      /\ told'[action].paid = told[action].paid + (IF got THEN 1 ELSE 0)
      /\ \A a \in ActionTypes : told[a].asked \in Nat /\ told[a].paid \in Nat
    BY DEF Learn, ToldType
<1>3. DOMAIN cells' = DOMAIN cells \cup (Support(beliefs) \X {action})
    BY DEF Learn, UpdateDistribution
<1>4. SumOver(beliefs, Classes) = W /\ Summable(beliefs, Classes)
    BY ProfileAssumption DEF IsDiagnosis, Distributions, Summable, W
<1>5. ASSUME NEW a \in ActionTypes, a # action
      PROVE  /\ SumOver([k \in Held(a)' |-> cells'[k].alpha - W], Held(a)') = W * told'[a].paid
             /\ SumOver([k \in Held(a)' |-> cells'[k].beta - W], Held(a)')
                    = W * (told'[a].asked - told'[a].paid)
    <2>1. \A k \in Held(a)' : k \in Held(a) /\ cells'[k] = cells[k]
        BY <1>5, LearnCell DEF Held
    <2>2. Held(a) \subseteq Held(a)'
        BY <1>3 DEF Held
    <2>3. Held(a)' = Held(a)
        BY <2>1, <2>2
    <2>4. /\ [k \in Held(a)' |-> cells'[k].alpha - W] = [k \in Held(a) |-> cells[k].alpha - W]
          /\ [k \in Held(a)' |-> cells'[k].beta - W] = [k \in Held(a) |-> cells[k].beta - W]
        BY <2>1, <2>3
    <2>5. told'[a] = told[a]
        BY <1>2, <1>5
    <2> QED
        BY <2>3, <2>4, <2>5 DEF CellsAccountForWorld, Held
<1>6. /\ SumOver([k \in Held(action)' |-> cells'[k].alpha - W], Held(action)')
             = W * told'[action].paid
      /\ SumOver([k \in Held(action)' |-> cells'[k].beta - W], Held(action)')
             = W * (told'[action].asked - told'[action].paid)
    <2> DEFINE H == Held(action)
               N == Held(action)'
               f == [k \in H |-> cells[k].alpha - W]
               g == [k \in N |-> cells'[k].alpha - W]
               b == [c \in Classes |-> IF got THEN beliefs[c] ELSE 0]
               fb == [k \in H |-> cells[k].beta - W]
               gb == [k \in N |-> cells'[k].beta - W]
               bb == [c \in Classes |-> IF got THEN 0 ELSE beliefs[c]]
               at == [c \in Classes |-> <<c, action>>]
    <2>0. \A c \in Classes : at[c][1] = c
        OBVIOUS
    <2>1. H \subseteq N /\ \A k \in N : k[1] \in Classes /\ k = at[k[1]]
        BY <1>1, <1>3 DEF Held, CellsType
    <2>2. \A k \in H : f[k] \in Int /\ fb[k] \in Int
        BY DEF Held, CellsType, Posteriors, W
    <2>3. \A k \in N : /\ g[k] = (IF k \in H THEN f[k] ELSE 0) + b[k[1]]
                       /\ gb[k] = (IF k \in H THEN fb[k] ELSE 0) + bb[k[1]]
        <3> SUFFICES ASSUME NEW k \in N
                     PROVE  /\ g[k] = (IF k \in H THEN f[k] ELSE 0) + b[k[1]]
                            /\ gb[k] = (IF k \in H THEN fb[k] ELSE 0) + bb[k[1]]
            OBVIOUS
        <3>1. k \in DOMAIN cells' /\ k[2] = action /\ (k \in H <=> k \in DOMAIN cells)
            BY DEF Held
        <3>2. k[1] \in Classes
            BY <2>1
        <3>3. /\ cells'[k].alpha - W = (IF k \in DOMAIN cells THEN cells[k].alpha - W ELSE 0)
                                           + (IF got THEN dx.beliefs[k[1]] ELSE 0)
              /\ cells'[k].beta - W = (IF k \in DOMAIN cells THEN cells[k].beta - W ELSE 0)
                                           + (IF got THEN 0 ELSE dx.beliefs[k[1]])
            BY <3>1, LearnCell
        <3> QED
            BY <3>1, <3>2, <3>3
    <2>4. \A c \in Classes : at[c] \notin N => b[c] = 0 /\ bb[c] = 0
        BY <1>3 DEF Held, Support, IsDiagnosis, Distributions, W
    <2>5. /\ Summable(b, Classes) /\ SumOver(b, Classes) = W * (IF got THEN 1 ELSE 0)
          /\ Summable(bb, Classes) /\ SumOver(bb, Classes) = W * (IF got THEN 0 ELSE 1)
        <3> DEFINE none == [c \in Classes |-> 0]
        <3>1. Summable(none, Classes) /\ SumOver(none, Classes) = 0
            BY ProfileAssumption, SumZero DEF Summable
        <3>2. beliefs = [c \in Classes |-> beliefs[c]]
            BY DEF IsDiagnosis, Distributions
        <3>3. CASE got
            <4>1. b = beliefs /\ bb = none
                BY <3>2, <3>3
            <4> QED
                BY <1>4, <3>1, <3>3, <4>1 DEF W
        <3>4. CASE ~got
            <4>1. bb = beliefs /\ b = none
                BY <3>2, <3>4
            <4> QED
                BY <1>4, <3>1, <3>4, <4>1 DEF W
        <3> QED
            BY <3>3, <3>4
    <2>6. SumOver(f, H) = W * told[action].paid
          /\ SumOver(fb, H) = W * (told[action].asked - told[action].paid)
        BY DEF CellsAccountForWorld, Held
    <2> HIDE DEF f, g, b, fb, gb, bb, H, N, at
    <2>7. SumOver(g, N) = SumOver(f, H) + SumOver(b, Classes)
        BY <2>0, <2>1, <2>2, <2>3, <2>4, <2>5, Spread
    <2>8. SumOver(gb, N) = SumOver(fb, H) + SumOver(bb, Classes)
        BY <2>0, <2>1, <2>2, <2>3, <2>4, <2>5, Spread
    <2>9. SumOver(g, N) = W * told'[action].paid
          /\ SumOver(gb, N) = W * (told'[action].asked - told'[action].paid)
        BY <1>2, <2>5, <2>6, <2>7, <2>8 DEF W
    <2> QED
        BY <2>9 DEF g, gb, N
<1>7. CellsAccountForWorld'
    BY <1>5, <1>6 DEF CellsAccountForWorld, Held
<1> QED
    BY <1>1, <1>2, <1>7

\* What came of a decision counts for the source on whose word it was carried out, and
\* nothing changes for the others.
LEMMA CreditAccounts ==
    ASSUME SourcesType, TrustAccountsForDecisions, NEW dx, IsDiagnosis(dx), NEW got \in BOOLEAN,
           Credit(dx, got), CarriedOut(dx.trust, got)
    PROVE  SourcesType' /\ TrustAccountsForDecisions'
<1> DEFINE s   == dx.trust
           was == PosteriorIn(sources, s)
           new == Updated(was, got, W)
<1>1. /\ vouched' \in [DiagnosisSources -> [paid: Nat, unpaid: Nat]]
      /\ \A t \in DiagnosisSources :
            /\ vouched'[t].paid = vouched[t].paid + (IF t = s /\ got THEN 1 ELSE 0)
            /\ vouched'[t].unpaid = vouched[t].unpaid + (IF t = s /\ ~got THEN 1 ELSE 0)
            /\ vouched[t].paid \in Nat /\ vouched[t].unpaid \in Nat
    BY DEF CarriedOut, SourcesType
<1>2. \A t \in DiagnosisSources : vouched[t] \in [paid: Nat, unpaid: Nat]
    BY DEF SourcesType
<1>3. CASE s = NoSource
    <2>1. sources' = sources /\ s \notin DiagnosisSources
        BY <1>3 DEF Credit, NoSource, DiagnosisSources
    <2>2. \A t \in DiagnosisSources : vouched'[t].paid = vouched[t].paid
                                      /\ vouched'[t].unpaid = vouched[t].unpaid
        BY <1>1, <2>1
    <2> QED
        BY <1>1, <2>1, <2>2 DEF SourcesType, TrustAccountsForDecisions, PosteriorIn
<1>4. CASE s # NoSource
    <2>1. /\ s \in DiagnosisSources
          /\ sources' = [k \in DOMAIN sources \cup {s} |-> IF k = s THEN new ELSE sources[k]]
        BY <1>4 DEF IsDiagnosis, Credit, UpdateSource, With
    <2>2. was \in Posteriors
        BY DEF SourcesType, PosteriorIn, Prior, Posteriors, W
    <2>3. /\ new \in Posteriors
          /\ new = [alpha |-> was.alpha + (IF got THEN W ELSE 0),
                    beta  |-> was.beta + (IF got THEN 0 ELSE W)]
        <3> HIDE DEF was
        <3>1. CASE got
            BY <2>2, <3>1 DEF Updated, Posteriors, W
        <3>2. CASE ~got
            BY <2>2, <3>2 DEF Updated, Posteriors, W
        <3> QED
            BY <3>1, <3>2
    <2>4. SourcesType'
        BY <1>1, <2>1, <2>3 DEF SourcesType
    <2>5. ASSUME NEW t \in DiagnosisSources
          PROVE  PosteriorIn(sources', t) = [alpha |-> W + W * vouched'[t].paid,
                                             beta  |-> W + W * vouched'[t].unpaid]
        <3>1. PosteriorIn(sources, t) = [alpha |-> W + W * vouched[t].paid,
                                         beta  |-> W + W * vouched[t].unpaid]
            BY DEF TrustAccountsForDecisions
        <3>2. CASE t # s
            <4>1. PosteriorIn(sources', t) = PosteriorIn(sources, t)
                BY <2>1, <3>2 DEF PosteriorIn
            <4>2. vouched'[t].paid = vouched[t].paid /\ vouched'[t].unpaid = vouched[t].unpaid
                BY <1>1, <3>2
            <4> QED
                BY <3>1, <4>1, <4>2
        <3>3. CASE t = s
            <4>1. PosteriorIn(sources', t) = new
                <5> HIDE DEF new
                <5> QED
                    BY <2>1, <3>3 DEF PosteriorIn
            <4>2. was.alpha = W + W * vouched[t].paid /\ was.beta = W + W * vouched[t].unpaid
                BY <3>1, <3>3
            <4> DEFINE paid == vouched[t].paid
                       unpaid == vouched[t].unpaid
                       newpaid == vouched'[t].paid
                       newunpaid == vouched'[t].unpaid
            <4>3. /\ newpaid = paid + (IF got THEN 1 ELSE 0)
                  /\ newunpaid = unpaid + (IF got THEN 0 ELSE 1)
                  /\ paid \in Nat /\ unpaid \in Nat
                BY <1>1, <3>3
            <4>4. /\ was.alpha + (IF got THEN W ELSE 0) = W + W * newpaid
                  /\ was.beta + (IF got THEN 0 ELSE W) = W + W * newunpaid
                <5> HIDE DEF was, paid, unpaid, newpaid, newunpaid
                <5> QED
                    BY <4>2, <4>3 DEF W, paid, unpaid
            <4> QED
                BY <2>3, <4>1, <4>4
        <3> QED
            BY <3>2, <3>3
    <2> QED
        BY <2>4, <2>5 DEF TrustAccountsForDecisions, PosteriorIn
<1> QED
    BY <1>3, <1>4

-----------------------------------------------------------------------------
(* Prices. *)

LEMMA TimesInt == \A p, factor \in Int : Times(p, factor) \in Int
BY DEF Times

LEMMA TimesNat == \A p, factor \in Nat : Times(p, factor) \in Nat
<1> SUFFICES ASSUME NEW p \in Nat, NEW factor \in Nat PROVE Times(p, factor) \in Nat
    OBVIOUS
<1>1. p * factor \in Nat
    OBVIOUS
<1> DEFINE n == p * factor
<1>2. n \div 1000 \in Nat
    <2> HIDE DEF n
    <2> QED
        BY <1>1 DEF n
<1> QED
    BY <1>2 DEF Times

\* A power is computed in as many steps as it has factors.
LEMMA PowerNat ==
    ASSUME NEW factor \in Nat, NEW n \in Nat
    PROVE  Power(factor, n) \in Nat
<1> DEFINE Step(f, i) == IF i = 0 THEN 1000 ELSE Times(f[i - 1], factor)
           P == {m \in Nat : \E f : f = [i \in 0..m |-> Step(f, i)]}
<1>1. 0 \in P
    <2> DEFINE f == [i \in 0..0 |-> 1000]
    <2>1. f = [i \in 0..0 |-> Step(f, i)]
        OBVIOUS
    <2>2. \E h : h = [i \in 0..0 |-> Step(h, i)]
        <3> HIDE DEF Step, f
        <3> QED
            BY <2>1
    <2> QED
        <3> HIDE DEF Step
        <3> QED
            BY <2>2
<1>2. ASSUME NEW m \in Nat, m \in P PROVE m + 1 \in P
    <2>1. PICK f : f = [i \in 0..m |-> Step(f, i)]
        BY <1>2
    <2> DEFINE h == [i \in 0..(m + 1) |-> Step(f, i)]
    <2>2. \A i \in 0..m : h[i] = f[i]
        <3> HIDE DEF Step
        <3> QED
            BY <2>1
    <2>3. \A i \in 0..(m + 1) : i # 0 => i - 1 \in 0..m
        OBVIOUS
    <2>4. \A i \in 0..(m + 1) : Step(f, i) = Step(h, i)
        BY <2>2, <2>3, ZenonT(40)
    <2>5. h = [i \in 0..(m + 1) |-> Step(h, i)]
        <3> HIDE DEF Step
        <3> QED
            BY <2>4
    <2>6. \E k : k = [i \in 0..(m + 1) |-> Step(k, i)]
        <3> HIDE DEF Step, h
        <3> QED
            BY <2>5
    <2> QED
        <3> HIDE DEF Step
        <3> QED
            BY <2>6
<1>3. n \in P
    <2> HIDE DEF P
    <2> QED
        BY <1>1, <1>2, Upwards
<1> DEFINE f == CHOOSE f : f = [i \in 0..n |-> Step(f, i)]
<1>4. f = [i \in 0..n |-> Step(f, i)]
    <2> HIDE DEF Step
    <2> QED
        BY <1>3
<1>5. Power(factor, n) = f[n]
    BY DEF Power
<1> HIDE DEF f
<1> DEFINE Q == {m \in Nat : m <= n => f[m] \in Nat}
<1>6. 0 \in Q
    BY <1>4
<1>7. ASSUME NEW m \in Nat, m \in Q PROVE m + 1 \in Q
    <2> SUFFICES ASSUME m + 1 <= n PROVE f[m + 1] \in Nat
        OBVIOUS
    <2>1. f[m] \in Nat
        BY <1>7
    <2>2. f[m + 1] = Times(f[m], factor)
        BY <1>4
    <2> QED
        BY <2>1, <2>2, TimesNat
<1>8. n \in Q
    <2> HIDE DEF Q
    <2> QED
        BY <1>6, <1>7, Upwards
<1> QED
    BY <1>5, <1>8

IsContext(x) ==
    /\ x.attempt \in Nat \ {0} /\ x.contacts \in ContactCounts
    /\ x.value \in Nat /\ x.steps_remaining \in Nat \ {0}

LEMMA AdjustInt ==
    ASSUME NEW x, IsContext(x), NEW p \in Int, NEW c
    PROVE  /\ Adjust(p, x, c) \in Int /\ Adjust(p, x, c) <= 970
           /\ p \in Nat => Adjust(p, x, c) \in Nat
<1> DEFINE at        == x.now + c.offset
           contact   == c.action \in CONTACT_ACTIONS
           attrition == Power(780, x.attempt - 1)
           timing    == IF (contact \/ c.action = "RETRY_SCHEDULED") /\ x.hours # {}
                        THEN IF \E h \in x.hours : Near(HourOf(at), h) THEN 1250 ELSE 880
                        ELSE 1000
           rail      == IF c.action \in RETRY_ACTIONS THEN Outage(x, c) ELSE 1000
           fatigue   == IF contact THEN Power(877, x.contacts) ELSE 1000
           track     == IF x.recoveries > 0 THEN 1200 ELSE IF x.failures > 0 THEN 900 ELSE 1000
           salary    == IF x.class = "FUNDS" /\ DayOf(at) \in 1..5 THEN 1450 ELSE 1000
           adjusted  == Times(Times(Times(Times(Times(Times(p, attrition), timing), rail),
                                          fatigue), track), salary)
<1>1. attrition \in Nat
    <2>1. x.attempt - 1 \in Nat /\ 780 \in Nat
        BY DEF IsContext
    <2> QED
        BY <2>1, PowerNat, ZenonT(40)
<1>2. fatigue \in Nat
    <2>1. x.contacts \in Nat /\ 877 \in Nat
        <3>1. x.contacts \in Nat
            BY PriceAssumption, Zenon DEF IsContext
        <3> QED
            BY <3>1
    <2>2. Power(877, x.contacts) \in Nat
        BY <2>1, PowerNat, ZenonT(40)
    <2>3. fatigue = Power(877, x.contacts) \/ fatigue = 1000
        BY ZenonT(40)
    <2> HIDE DEF fatigue
    <2> QED
        BY <2>2, <2>3
<1>3. timing \in Nat /\ track \in Nat /\ salary \in Nat
    <2>1. timing = 1250 \/ timing = 880 \/ timing = 1000
        OBVIOUS
    <2>2. track = 1200 \/ track = 900 \/ track = 1000
        OBVIOUS
    <2>3. salary = 1450 \/ salary = 1000
        OBVIOUS
    <2> HIDE DEF timing, track, salary
    <2> QED
        BY <2>1, <2>2, <2>3
<1>4. rail \in Nat
    <2>1. rail = 1000 \/ rail = 350 \/ rail = 1600
        BY DEF Outage
    <2> HIDE DEF rail
    <2> QED
        BY <2>1
<1>5. Adjust(p, x, c) = Clamped(adjusted)
    BY DEF Adjust
<1> HIDE DEF attrition, timing, rail, fatigue, track, salary
<1>6. \A q, n \in Int : Times(q, n) \in Int
    BY TimesInt
<1>7. attrition \in Int /\ timing \in Int /\ rail \in Int /\ fatigue \in Int
      /\ track \in Int /\ salary \in Int
    BY <1>1, <1>2, <1>3, <1>4
<1>8. adjusted \in Int
    BY <1>6, <1>7, ZenonT(40)
<1>9. p \in Nat => adjusted \in Nat
    <2>1. \A q, n \in Nat : Times(q, n) \in Nat
        BY TimesNat
    <2> QED
        BY <1>1, <1>2, <1>3, <1>4, <2>1, ZenonT(40)
<1> QED
    <2> HIDE DEF adjusted
    <2> QED
        BY <1>5, <1>8, <1>9 DEF Clamped

\* In thousandths.
Beliefs == 0..970

LEMMA AdjustChance ==
    ASSUME NEW x, IsContext(x), NEW c, NEW p \in Nat
    PROVE  Adjust(p, x, c) \in Beliefs
<1> DEFINE a == Adjust(p, x, c)
<1>1. p \in Int
    OBVIOUS
<1>2. a \in Nat /\ a <= 970
    BY <1>1, AdjustInt
<1> HIDE DEF a
<1>3. a \in Beliefs
    BY <1>2 DEF Beliefs
<1> QED
    BY <1>3 DEF a

\* A gain that is none is worth nothing.
LEMMA NoGainNoValue ==
    ASSUME NEW gain \in Int, gain <= 0, NEW discount \in Nat, NEW value \in Nat
    PROVE  Rounded(Times(gain, discount) * value, 1000) <= 0
<1>1. \A g \in Int, k \in Nat : g <= 0 => g * k \in Int /\ g * k <= 0
    OBVIOUS
<1>2. gain * discount \in Int /\ gain * discount <= 0
    BY <1>1
<1> DEFINE t == Times(gain, discount)
<1>3. t \in Int /\ t <= 0
    <2> DEFINE n == gain * discount
    <2>1. n \in Int /\ n <= 0
        BY <1>2
    <2>2. t = n \div 1000
        BY DEF Times
    <2> HIDE DEF n, t
    <2> QED
        BY <2>1, <2>2
<1>4. t * value \in Int /\ t * value <= 0
    <2> HIDE DEF t
    <2> QED
        BY <1>1, <1>3
<1> DEFINE n == t * value
<1>5. n \in Int /\ n <= 0
    BY <1>4
<1>6. Rounded(n, 1000) <= 0
    <2> HIDE DEF n
    <2> QED
        BY <1>5 DEF Rounded
<1> QED
    BY <1>6

IsDraw(draw) == \A c \in Slate : ~Resting(c) => draw[c.action] \in Int

\* What beats refusing makes payment likelier.
LEMMA ChosenGains ==
    ASSUME NEW x, IsContext(x), NEW mean \in Int, NEW draw, IsDraw(draw),
           NEW left, left \subseteq Slate, NEW rest \in left, Resting(rest),
           NEW d \in Choose(Priced(x, left, mean, draw)), d.action # "NO_ACTION"
    PROVE  d.p > Baseline(x, mean)
<1> DEFINE base     == Baseline(x, mean)
           discount == Discount(x, base)
           price(c) == [action |-> c.action, offset |-> c.offset, direct |-> c.direct,
                        attention |-> AttentionOf(c, x.contacts),
                        p |-> Propensity(x, c, mean, draw),
                        value |-> ExpectedValue(x, c, mean, draw)]
           r        == price(rest)
<1>1. base \in Int /\ base <= 970
    BY AdjustInt DEF Baseline
<1>2. discount \in Nat
    <2> DEFINE stays == 1000 - base
               steps == x.steps_remaining - 1
    <2>1. stays \in Nat /\ steps \in Nat
        <3> HIDE DEF base
        <3> QED
            BY <1>1 DEF IsContext
    <2>2. Power(stays, steps) \in Nat
        <3> HIDE DEF stays, steps
        <3> QED
            BY <2>1, PowerNat
    <2> QED
        BY <2>2, Zenon DEF Discount
<1>3. \A c \in Slate : AttentionOf(c, x.contacts) \in Nat /\ c.direct \in Nat
    BY SlateAssumption, PriceAssumption DEF AttentionOf, Candidates, IsContext
<1>4. PICK c \in left : d = price(c)
    BY DEF Choose, Priced
<1>5. c \in Slate /\ ~Resting(c) /\ c.direct # 0 /\ d.direct = c.direct
    BY <1>4, SlateAssumption DEF Resting
<1>6. r.value = 0 /\ r.direct = 0 /\ Resting(r)
    <2>1. rest \in Slate /\ rest.direct = 0 /\ rest.action = "NO_ACTION"
        BY SlateAssumption DEF Resting
    <2>2. AttentionOf(rest, x.contacts) = 0
        BY <2>1 DEF AttentionOf, CONTACT_ACTIONS
    <2>3. Propensity(x, rest, mean, draw) = base
        BY DEF Propensity
    <2>4. Rounded(Times(base - base, discount) * x.value, 1000) = 0
        <3>1. base - base = 0
            BY <1>1
        <3>2. Times(0, discount) = 0
            BY <1>2 DEF Times
        <3>3. 0 * x.value = 0
            BY DEF IsContext
        <3>4. Rounded(0, 1000) = 0
            BY DEF Rounded
        <3> HIDE DEF base, discount
        <3> QED
            BY <3>1, <3>2, <3>3, <3>4
    <2>5. ExpectedValue(x, rest, mean, draw) = 0
        BY <2>1, <2>2, <2>3, <2>4 DEF ExpectedValue
    <2> QED
        BY <2>1, <2>5 DEF Resting
<1>7. ~Beats(r, d)
    <2>1. r \in Priced(x, left, mean, draw)
        BY DEF Priced
    <2>2. r \in {a \in Priced(x, left, mean, draw) : Resting(a)}
        BY <1>6, <2>1
    <2>3. ~Resting(d)
        BY DEF Resting
    <2> HIDE DEF r
    <2> QED
        BY <2>1, <2>2, <2>3 DEF Choose
<1>8. /\ d.p = Propensity(x, c, mean, draw) /\ d.p \in Int
      /\ d.value = Rounded(Times(d.p - base, discount) * x.value, 1000)
                       - c.direct - AttentionOf(c, x.contacts)
    <2>1. d.p = Propensity(x, c, mean, draw) /\ d.value = ExpectedValue(x, c, mean, draw)
        BY <1>4
    <2>2. Propensity(x, c, mean, draw) = Adjust(draw[c.action], x, c) /\ draw[c.action] \in Int
        BY <1>5 DEF Propensity, IsDraw
    <2>3. d.p \in Int
        BY <2>1, <2>2, AdjustInt
    <2> QED
        BY <2>1, <2>3 DEF ExpectedValue
<1>9. SUFFICES ASSUME ~(d.p > base) PROVE FALSE
    BY <1>8
<1> HIDE DEF base, discount, r, price
<1> DEFINE gain  == d.p - base
           worth == Rounded(Times(gain, discount) * x.value, 1000)
<1>10. gain \in Int /\ gain <= 0
    BY <1>1, <1>8, <1>9
<1>11. worth <= 0
    <2> HIDE DEF gain
    <2> QED
        BY <1>2, <1>10, NoGainNoValue DEF IsContext
<1>12. worth \in Int
    <2>1. Times(gain, discount) \in Int
        <3> HIDE DEF gain
        <3> QED
            BY <1>2, <1>10, TimesInt
    <2> DEFINE t == Times(gain, discount)
    <2>2. t * x.value \in Int
        <3> HIDE DEF t, gain
        <3> QED
            BY <2>1 DEF t, IsContext
    <2> DEFINE n == t * x.value
    <2>3. Rounded(n, 1000) \in Int
        <3> HIDE DEF n, t, gain
        <3> QED
            BY <2>2 DEF n, Rounded
    <2> QED
        BY <2>3
<1>13. d.value < 0
    <2>1. d.value = worth - c.direct - AttentionOf(c, x.contacts)
        BY <1>8
    <2>2. c.direct \in Nat \ {0} /\ AttentionOf(c, x.contacts) \in Nat
        BY <1>3, <1>5
    <2> HIDE DEF worth
    <2> QED
        BY <1>11, <1>12, <2>1, <2>2
<1> QED
    BY <1>6, <1>7, <1>13 DEF Beats

-----------------------------------------------------------------------------
(* Decisions. *)

Episodes ==
    [id: Nat, open: BOOLEAN, arm: {"treatment", "holdout"}, profile: EventProfiles,
     started: Nat, now: Nat, seq: Nat, contacts: Nat, attempts: Nat,
     refused: SUBSET (ActionTypes \ {"NO_ACTION"})]

EpisodeType ==
    /\ ep \in Episodes
    /\ ep.open => ep.seq < MAX_DECISIONS

\* What a pass is decided on is a number.
LEMMA MarginalNat ==
    ASSUME CellsType, NEW dx, IsDiagnosis(dx), NEW action
    PROVE  ExpectedMarginal(dx.beliefs, action) \in Nat
<1> DEFINE beliefs == dx.beliefs
           f == [c \in Classes |-> beliefs[c] * Mean(PosteriorIn(cells, <<c, action>>))]
           S == Support(beliefs)
<1>1. ASSUME NEW post \in Posteriors PROVE Mean(post) \in Nat
    <2> DEFINE n == 1000 * post.alpha
               d == post.alpha + post.beta
    <2>1. n \in Nat /\ d \in Nat \ {0}
        BY DEF Posteriors
    <2>2. n \div d \in Nat
        <3> HIDE DEF n, d
        <3> QED
            BY <2>1, SMTT(20)
    <2> QED
        BY <2>2 DEF Mean
<1>2. \A c \in Classes : PosteriorIn(cells, <<c, action>>) \in Posteriors
    BY DEF PosteriorIn, CellsType, Prior, Posteriors, W
<1>3. \A c \in Classes : f[c] \in Nat
    <2>1. \A n \in 0..W, m \in Nat : n * m \in Nat
        BY DEF W
    <2> QED
        BY <1>1, <1>2, <2>1 DEF IsDiagnosis, Distributions
<1>4. IsFiniteSet(S) /\ S \subseteq Classes
    BY ProfileAssumption, FS_Subset DEF Support
<1>5. SumOver(f, S) \in Nat
    <2> HIDE DEF f, S
    <2> QED
        BY <1>3, <1>4, SumNat
<1>6. SumOver(f, S) \div W \in Nat
    <2> DEFINE n == SumOver(f, S)
    <2>1. n \in Nat
        BY <1>5
    <2>2. n \div 4 \in Nat
        <3> HIDE DEF n
        <3> QED
            BY <2>1
    <2> QED
        BY <2>2 DEF W
<1> QED
    BY <1>6 DEF ExpectedMarginal

\* What an action is drawn or expected to bring is no less than nothing.
LEMMA DrawsNat ==
    ASSUME CellsType, NEW dx, IsDiagnosis(dx), NEW draw \in DrawsFor(dx), NEW e \in Slate,
           ~Resting(e)
    PROVE  draw[e.action] \in Nat
<1> DEFINE arms == {c.action : c \in {d \in Slate : ~Resting(d)}}
<1>1. CASE explore
    <2>1. draw \in [arms -> Draws]
        BY <1>1 DEF DrawsFor
    <2> DEFINE n == draw[e.action]
    <2>2. n \in Draws
        BY <2>1
    <2>3. n \in 0..1000
        BY <2>2, LearningAssumption, ZenonT(40)
    <2> HIDE DEF n
    <2>4. n \in Nat
        BY <2>3
    <2> QED
        BY <2>4 DEF n
<1>2. CASE ~explore
    <2>1. draw = [a \in arms |-> ExpectedMarginal(dx.beliefs, a)]
        BY <1>2 DEF DrawsFor
    <2>2. draw[e.action] = ExpectedMarginal(dx.beliefs, e.action)
        BY <2>1
    <2> QED
        BY <2>2, MarginalNat
<1> QED
    BY <1>1, <1>2

LEMMA ContextOk ==
    ASSUME EpisodeType, Deciding, NEW dx, NEW seen \in ContactCounts
    PROVE  IsContext(Context(dx, seen)) /\ Context(dx, seen).contacts = seen
<1>1. /\ ep.attempts \in Nat /\ ep.seq \in Nat /\ ep.profile \in EventProfiles
      /\ ep.seq < MAX_DECISIONS
    BY DEF EpisodeType, Episodes, Deciding
<1>2. ep.profile.value \in Nat
    BY <1>1, ProfileAssumption DEF Profiles
<1> DEFINE x == Context(dx, seen)
<1>3. /\ x.attempt = 1 + ep.attempts /\ x.contacts = seen
      /\ x.value = ep.profile.value /\ x.steps_remaining = MAX_DECISIONS - ep.seq
    BY DEF Context
<1>4. 1 + ep.attempts \in Nat \ {0} /\ MAX_DECISIONS - ep.seq \in Nat \ {0}
    BY <1>1, PriceAssumption, SMTT(20)
<1> HIDE DEF x
<1>5. IsContext(x)
    BY <1>2, <1>3, <1>4, Zenon DEF IsContext
<1> QED
    BY <1>3, <1>5 DEF x

\* A decision is on the slate, priced by what its pass believes.
LEMMA DecisionPriced ==
    ASSUME EpisodeType, CellsType, Deciding, NEW dx, IsDiagnosis(dx), NEW force \in Mandates,
           NEW seen \in ContactCounts, NEW d \in Decisions(dx, force, seen)
    PROVE  /\ d.action \in ActionTypes /\ d.offset \in Nat /\ d.direct \in Nat
           /\ d.attention = IF d.action \in CONTACT_ACTIONS THEN AttentionCost[seen] ELSE 0
           /\ AttentionCost[seen] \in Nat
           /\ d.p \in 0..970
           /\ Baseline(Context(dx, seen), ExpectedMarginal(dx.beliefs, "NO_ACTION")) \in 0..970
           /\ d.action # "NO_ACTION" /\ force = "none" =>
                 d.p > Baseline(Context(dx, seen), ExpectedMarginal(dx.beliefs, "NO_ACTION"))
<1> DEFINE x    == Context(dx, seen)
           mean == ExpectedMarginal(dx.beliefs, "NO_ACTION")
           offered == Offered(ep.profile)
           left == Considered(offered, ep.refused, force)
<1>1. PICK draw \in DrawsFor(dx) : d \in Choose(Priced(x, left, mean, draw))
    BY DEF Decisions
<1>2. offered \subseteq Slate /\ left \subseteq offered
    BY DEF Offered, Considered
<1>3. PICK c \in left : d = [action |-> c.action, offset |-> c.offset, direct |-> c.direct,
                             attention |-> AttentionOf(c, x.contacts),
                             p |-> Propensity(x, c, mean, draw),
                             value |-> ExpectedValue(x, c, mean, draw)]
    BY <1>1 DEF Choose, Priced
<1>4. c \in Candidates
    BY <1>2, SlateAssumption
<1>5. IsContext(x) /\ x.contacts = seen
    BY ContextOk
<1>6. AttentionCost[seen] \in Nat
    BY <1>5, PriceAssumption DEF IsContext
<1>7. mean \in Nat /\ mean \in Int
    <2>1. mean \in Nat
        BY MarginalNat
    <2> HIDE DEF mean
    <2> QED
        BY <2>1
<1>8. IsDraw(draw) /\ \A e \in Slate : ~Resting(e) => draw[e.action] \in Nat
    <2>1. \A e \in Slate : ~Resting(e) => draw[e.action] \in Nat
        BY DrawsNat
    <2>2. \A n \in Nat : n \in Int
        OBVIOUS
    <2> QED
        BY <2>1, <2>2, Zenon DEF IsDraw
<1>9. ASSUME d.action # "NO_ACTION", force = "none" PROVE d.p > Baseline(x, mean)
    <2>1. PICK rest \in Slate : Resting(rest)
        BY SlateAssumption
    <2>2. rest \in offered
        BY <2>1 DEF Offered, Resting
    <2>3. rest.action \notin ep.refused
        BY <2>1 DEF EpisodeType, Episodes, Resting
    <2>4. \A e \in Slate : e.action # "none"
        BY SlateAssumption DEF Candidates, ActionTypes, CONTACT_ACTIONS, RETRY_ACTIONS
    <2>5. left = {e \in offered : e.action \notin ep.refused}
        BY <1>2, <1>9, <2>2, <2>3, <2>4 DEF Considered
    <2>6. rest \in left
        BY <2>2, <2>3, <2>5
    <2>7. left \subseteq Slate
        BY <1>2
    <2> HIDE DEF x, mean, left
    <2> QED
        BY <1>1, <1>5, <1>7, <1>8, <1>9, <2>1, <2>6, <2>7, ChosenGains
<1>10. /\ d.action = c.action /\ d.offset = c.offset /\ d.direct = c.direct
       /\ d.attention = AttentionOf(c, x.contacts)
    BY <1>3
<1>13. Baseline(x, mean) \in Beliefs
    <2> HIDE DEF x, mean
    <2> QED
        BY <1>5, <1>7, AdjustChance DEF Baseline
<1>14. d.p \in Beliefs
    <2>1. d.p = Propensity(x, c, mean, draw) /\ c \in Slate
        BY <1>2, <1>3
    <2>2. CASE Resting(c)
        <3>1. d.p = Baseline(x, mean)
            BY <2>1, <2>2 DEF Propensity
        <3> HIDE DEF x, mean
        <3> QED
            BY <1>13, <3>1
    <2>3. CASE ~Resting(c)
        <3> DEFINE n == draw[c.action]
        <3>1. n \in Nat
            BY <1>8, <2>1, <2>3
        <3> HIDE DEF x, mean, n
        <3>2. Adjust(n, x, c) \in Beliefs
            BY <1>5, <3>1, AdjustChance
        <3> QED
            BY <2>1, <2>3, <3>2 DEF Propensity, n
    <2> QED
        BY <2>2, <2>3
<1> HIDE DEF x, mean, left
<1>11. d.action \in ActionTypes /\ d.offset \in Nat /\ d.direct \in Nat
    BY <1>4, <1>10 DEF Candidates
<1>12. d.attention = IF d.action \in CONTACT_ACTIONS THEN AttentionCost[seen] ELSE 0
    BY <1>5, <1>10 DEF AttentionOf
<1> QED
    BY <1>6, <1>9, <1>11, <1>12, <1>13, <1>14 DEF x, mean, Beliefs

LEMMA RecordSound ==
    ASSUME EpisodeType, CellsType, Deciding, NEW dx, IsDiagnosis(dx), NEW force \in Mandates,
           NEW seen \in ContactCounts, NEW d \in Decisions(dx, force, seen), Record(d, dx, force, seen)
    PROVE  ActsOnlyForUplift' /\ PricedIsCharged' /\ ChancesBounded'
<1> DEFINE base == Baseline(Context(dx, seen), ExpectedMarginal(dx.beliefs, "NO_ACTION"))
<1>1. /\ d.action \in ActionTypes /\ d.direct \in Nat
      /\ d.attention = IF d.action \in CONTACT_ACTIONS THEN AttentionCost[seen] ELSE 0
      /\ AttentionCost[seen] \in Nat /\ d.p \in 0..970 /\ base \in 0..970
      /\ d.action # "NO_ACTION" /\ force = "none" => d.p > base
    BY DecisionPriced
<1>2. decision' = [action |-> d.action, p |-> d.p, base |-> base,
                   price |-> d.direct + d.attention, charge |-> Charge(d, seen),
                   customer |-> ep.profile.customer, forced |-> force # "none"]
    BY DEF Record
<1> HIDE DEF base
<1>3. ActsOnlyForUplift'
    BY <1>1, <1>2 DEF ActsOnlyForUplift
<1>4. ep.profile.customer \in BOOLEAN
    BY ProfileAssumption DEF EpisodeType, Episodes, Profiles
<1>5. PricedIsCharged'
    <2>1. CASE d.action \in CONTACT_ACTIONS
        BY <1>1, <1>2, <1>4, <2>1
           DEF PricedIsCharged, Charge, IsCustomerContact, CONTACT_ACTIONS
    <2>2. CASE d.action \notin CONTACT_ACTIONS
        BY <1>1, <1>2, <1>4, <2>2
           DEF PricedIsCharged, Charge, IsCustomerContact, CONTACT_ACTIONS
    <2> QED
        BY <2>1, <2>2
<1>6. ChancesBounded'
    BY <1>1, <1>2 DEF ChancesBounded
<1> QED
    BY <1>3, <1>5, <1>6

-----------------------------------------------------------------------------
(* The invariant. *)

Knowledge ==
    /\ CellsType /\ ToldType /\ SourcesType
    /\ CellsAccountForWorld /\ TrustAccountsForDecisions

LearningInv ==
    Knowledge /\ EpisodeType /\ ActsOnlyForUplift /\ PricedIsCharged /\ ChancesBounded

\* What the invariant says of an episode is about the episode alone.
LEMMA NextPassType ==
    ASSUME NEW e \in Episodes, e.seq < MAX_DECISIONS,
           NEW over \in BOOLEAN, NEW now \in Nat, NextPass(e, over, now)
    PROVE  EpisodeType'
<1> DEFINE open == ~over /\ e.seq < MAX_DECISIONS - 1
           seq  == e.seq + 1
           n == [e EXCEPT !.seq = seq, !.now = now, !.open = open]
<1>1. ep' = n
    BY DEF NextPass
<1>3. e.seq \in Nat /\ MAX_DECISIONS \in Nat
    BY PriceAssumption DEF Episodes
<1>2. n \in Episodes /\ n.seq = e.seq + 1
      /\ (n.open => e.seq < MAX_DECISIONS - 1)
    <2>1. open \in BOOLEAN /\ seq \in Nat /\ (open => e.seq < MAX_DECISIONS - 1)
        BY <1>3
    <2>2. n \in Episodes /\ n.seq = seq /\ n.open = open
        <3> HIDE DEF open, seq
        <3> QED
            BY <2>1 DEF Episodes
    <2> HIDE DEF n
    <2> QED
        BY <2>1, <2>2
<1> HIDE DEF n
<1> QED
    BY <1>1, <1>2, <1>3 DEF EpisodeType

LEMMA LearningInit == Init => LearningInv
<1> SUFFICES ASSUME Init PROVE LearningInv
    OBVIOUS
<1>1. cells = <<>> /\ sources = <<>> /\ DOMAIN cells = {} /\ DOMAIN sources = {}
    BY DEF Init
<1>2. CellsType /\ ToldType /\ SourcesType
    BY <1>1 DEF Init, CellsType, ToldType, SourcesType
<1>3. CellsAccountForWorld
    <2> SUFFICES ASSUME NEW a \in ActionTypes
                 PROVE  /\ SumOver([k \in Held(a) |-> cells[k].alpha - W], Held(a))
                               = W * told[a].paid
                        /\ SumOver([k \in Held(a) |-> cells[k].beta - W], Held(a))
                               = W * (told[a].asked - told[a].paid)
        BY DEF CellsAccountForWorld, Held
    <2>1. Held(a) = {}
        BY <1>1 DEF Held
    <2>2. told[a].paid = 0 /\ told[a].asked = 0
        BY DEF Init
    <2> QED
        BY <2>1, <2>2, SumEmpty DEF W
<1>4. TrustAccountsForDecisions
    <2>1. \A s \in DiagnosisSources : vouched[s].paid = 0 /\ vouched[s].unpaid = 0
        BY DEF Init
    <2>2. \A s \in DiagnosisSources : PosteriorIn(sources, s) = Prior
        BY <1>1 DEF PosteriorIn
    <2> QED
        BY <2>1, <2>2 DEF TrustAccountsForDecisions, Prior, W
<1>5. EpisodeType
    <2>1. PICK p \in EventProfiles :
              ep = [NewEpisode(0, p, "treatment", 0) EXCEPT !.open = FALSE]
        BY DEF Init
    <2>2. ep = [id |-> 0, open |-> FALSE, arm |-> "treatment", profile |-> p, started |-> 0,
                now |-> 0, seq |-> 0, contacts |-> 0, attempts |-> 0, refused |-> {}]
        BY <2>1 DEF NewEpisode
    <2>3. ep \in Episodes
        BY <2>2 DEF Episodes
    <2> QED
        BY <2>2, <2>3 DEF EpisodeType
<1>6. ActsOnlyForUplift /\ PricedIsCharged /\ ChancesBounded
    BY DEF Init, NoDecision, ActsOnlyForUplift, PricedIsCharged, ChancesBounded
<1> QED
    BY <1>2, <1>3, <1>4, <1>5, <1>6 DEF LearningInv, Knowledge

\* An episode that starts, and one that is only watched, teach nothing.
LEMMA WatchingInv ==
    ASSUME LearningInv,
           \/ \E p \in EventProfiles, arm \in {"treatment", "holdout"}, t \in Starts :
                  StartEpisode(p, arm, t)
           \/ \E got \in BOOLEAN : HoldoutObserve(got)
    PROVE  LearningInv'
<1>1. UNCHANGED <<cells, sources, decision, told, vouched>>
    BY DEF StartEpisode, HoldoutObserve
<1>2. Knowledge' /\ ActsOnlyForUplift' /\ PricedIsCharged' /\ ChancesBounded'
    BY <1>1 DEF LearningInv, Knowledge, CellsType, ToldType, SourcesType, CellsAccountForWorld,
                TrustAccountsForDecisions, PosteriorIn, ActsOnlyForUplift, PricedIsCharged,
                ChancesBounded
<1>3. EpisodeType'
    <2>1. ASSUME NEW p \in EventProfiles, NEW arm \in {"treatment", "holdout"}, NEW t \in Starts,
                 StartEpisode(p, arm, t)
          PROVE  EpisodeType'
        <3>1. t \in Nat
            BY LearningAssumption
        <3>2. ep.id + 1 \in Nat
            BY DEF LearningInv, EpisodeType, Episodes
        <3>3. ep' = NewEpisode(ep.id + 1, p, arm, t)
            BY <2>1 DEF StartEpisode
        <3> QED
            BY <3>1, <3>2, <3>3, PriceAssumption DEF EpisodeType, Episodes, NewEpisode
    <2>2. ASSUME NEW got \in BOOLEAN, HoldoutObserve(got) PROVE EpisodeType'
        <3>1. ep \in Episodes /\ ep.seq < MAX_DECISIONS /\ ep.seq \in Nat /\ ep.now \in Nat
            BY <2>2 DEF LearningInv, EpisodeType, Episodes, HoldoutObserve
        <3>2. ep.now + CoolOff \in Nat
            BY <3>1, LearningAssumption
        <3>3. NextPass(ep, got, ep.now + CoolOff)
            BY <2>2 DEF HoldoutObserve, NextPass
        <3> QED
            BY <3>1, <3>2, <3>3, NextPassType
    <2> QED
        BY <2>1, <2>2
<1> QED
    BY <1>2, <1>3 DEF LearningInv

LEMMA PassInv == LearningInv /\ Pass => LearningInv'
<1> SUFFICES ASSUME LearningInv, Pass PROVE LearningInv'
    OBVIOUS
<1>1. PICK dx \in Diagnoses(ep.profile), force \in Mandates, seen \in ContactCounts :
          \E d \in Decisions(dx, force, seen), got \in BOOLEAN :
             /\ Record(d, dx, force, seen)
             /\ \/ /\ \/ Refuse(dx, d, got)
                      \/ \E shift \in Shifts, quit \in BOOLEAN : Act(dx, d, shift, got, quit)
                   /\ CarriedOut(dx.trust, got)
                \/ Withhold(dx, d, got) /\ UNCHANGED vouched
    BY DEF Pass
<1>2. PICK d \in Decisions(dx, force, seen), got \in BOOLEAN :
             /\ Record(d, dx, force, seen)
             /\ \/ /\ \/ Refuse(dx, d, got)
                      \/ \E shift \in Shifts, quit \in BOOLEAN : Act(dx, d, shift, got, quit)
                   /\ CarriedOut(dx.trust, got)
                \/ Withhold(dx, d, got) /\ UNCHANGED vouched
    BY <1>1
<1>3. /\ Deciding /\ EpisodeType /\ Knowledge /\ ep \in Episodes /\ ep.profile \in EventProfiles
      /\ ep.seq < MAX_DECISIONS /\ ep.seq \in Nat /\ ep.now \in Nat
      /\ ep.contacts \in Nat /\ ep.attempts \in Nat
      /\ ep.refused \subseteq ActionTypes \ {"NO_ACTION"}
    BY DEF LearningInv, EpisodeType, Episodes, Pass, Deciding
<1>4. IsDiagnosis(dx)
    BY <1>3, Diagnosed
<1>5. d.action \in ActionTypes /\ d.offset \in Nat
    BY <1>3, <1>4, DecisionPriced DEF Knowledge
<1>6. ActsOnlyForUplift' /\ PricedIsCharged' /\ ChancesBounded'
    BY <1>2, <1>3, <1>4, RecordSound DEF Knowledge
<1>7. "NO_ACTION" \in ActionTypes /\ CoolOff \in Nat /\ FollowUp \in Nat
    BY LearningAssumption DEF ActionTypes
<1>8. ep.now + CoolOff \in Nat
    BY <1>3, <1>7
<1>9. CASE Refuse(dx, d, got) /\ CarriedOut(dx.trust, got)
    <2>1. Learn(dx, "NO_ACTION", got) /\ Credit(dx, got) /\ NextPass(ep, got, ep.now + CoolOff)
        BY <1>9 DEF Refuse
    <2>2. CellsType' /\ ToldType' /\ CellsAccountForWorld'
        BY <1>3, <1>4, <1>7, <2>1, LearnAccounts DEF Knowledge
    <2>3. SourcesType' /\ TrustAccountsForDecisions'
        BY <1>3, <1>4, <1>9, <2>1, CreditAccounts DEF Knowledge
    <2>4. EpisodeType'
        BY <1>3, <1>8, <2>1, NextPassType
    <2> QED
        BY <1>6, <2>2, <2>3, <2>4 DEF LearningInv, Knowledge
<1>10. CASE Withhold(dx, d, got) /\ UNCHANGED vouched
    <2> DEFINE e == [ep EXCEPT !.refused = @ \cup {d.action}]
    <2>1. /\ Learn(dx, "NO_ACTION", got) /\ UNCHANGED <<sources, vouched>>
          /\ NextPass(e, got, ep.now + CoolOff) /\ d.action # "NO_ACTION"
        BY <1>10 DEF Withhold
    <2>2. CellsType' /\ ToldType' /\ CellsAccountForWorld'
        BY <1>3, <1>4, <1>7, <2>1, LearnAccounts DEF Knowledge
    <2>3. SourcesType' /\ TrustAccountsForDecisions'
        BY <1>3, <2>1 DEF Knowledge, SourcesType, TrustAccountsForDecisions, PosteriorIn
    <2>4. e \in Episodes /\ e.seq = ep.seq
        <3>1. ep.refused \cup {d.action} \in SUBSET (ActionTypes \ {"NO_ACTION"})
            BY <1>3, <1>5, <2>1
        <3> QED
            BY <1>3, <3>1 DEF Episodes
    <2>5. EpisodeType'
        <3> HIDE DEF e
        <3> QED
            BY <1>3, <1>8, <2>1, <2>4, NextPassType
    <2> QED
        BY <1>6, <2>2, <2>3, <2>5 DEF LearningInv, Knowledge
<1>11. ASSUME NEW shift \in Shifts, NEW quit \in BOOLEAN, Act(dx, d, shift, got, quit),
              CarriedOut(dx.trust, got)
       PROVE  LearningInv'
    <2> DEFINE e == [ep EXCEPT !.contacts = @ + (IF IsCustomerContact(d) THEN 1 ELSE 0),
                               !.attempts = @ + (IF d.action \in RETRY_ACTIONS THEN 1 ELSE 0)]
               later == ep.now + d.offset + shift + FollowUp
               over  == got \/ quit
    <2>1. Learn(dx, d.action, got) /\ Credit(dx, got) /\ NextPass(e, over, later)
        BY <1>11 DEF Act
    <2>2. CellsType' /\ ToldType' /\ CellsAccountForWorld'
        BY <1>3, <1>4, <1>5, <2>1, LearnAccounts DEF Knowledge
    <2>3. SourcesType' /\ TrustAccountsForDecisions'
        BY <1>3, <1>4, <1>11, <2>1, CreditAccounts DEF Knowledge
    <2>4. e \in Episodes /\ e.seq = ep.seq
        <3> DEFINE contacts == ep.contacts + (IF IsCustomerContact(d) THEN 1 ELSE 0)
                   attempts == ep.attempts + (IF d.action \in RETRY_ACTIONS THEN 1 ELSE 0)
        <3>1. contacts \in Nat /\ attempts \in Nat
            BY <1>3
        <3>2. e = [ep EXCEPT !.contacts = contacts, !.attempts = attempts]
            OBVIOUS
        <3> HIDE DEF contacts, attempts, e
        <3>3. e \in Episodes /\ e.seq = ep.seq
            BY <1>3, <3>1, <3>2 DEF Episodes
        <3> QED
            BY <1>3, <3>1, <3>3
    <2>5. later \in Nat
        <3>1. shift \in Nat
            BY LearningAssumption
        <3> QED
            BY <1>3, <1>5, <1>7, <3>1
    <2>6. over \in BOOLEAN
        OBVIOUS
    <2>7. EpisodeType'
        <3> HIDE DEF e, later, over
        <3> QED
            BY <1>3, <2>1, <2>4, <2>5, <2>6, NextPassType
    <2> QED
        BY <1>6, <2>2, <2>3, <2>7 DEF LearningInv, Knowledge
<1> QED
    BY <1>2, <1>9, <1>10, <1>11

LEMMA LearningStep == LearningInv /\ [Next]_vars => LearningInv'
<1> SUFFICES ASSUME LearningInv, [Next]_vars PROVE LearningInv'
    OBVIOUS
<1>1. CASE Pass
    BY <1>1, PassInv
<1>2. CASE \/ \E p \in EventProfiles, arm \in {"treatment", "holdout"}, t \in Starts :
                  StartEpisode(p, arm, t)
           \/ \E got \in BOOLEAN : HoldoutObserve(got)
    BY <1>2, WatchingInv
<1>3. CASE UNCHANGED vars
    BY <1>3 DEF vars, LearningInv, Knowledge, CellsType, ToldType, SourcesType, EpisodeType,
                CellsAccountForWorld, TrustAccountsForDecisions, PosteriorIn, ActsOnlyForUplift,
                PricedIsCharged, ChancesBounded
<1> QED
    BY <1>1, <1>2, <1>3 DEF Next

\* Everything that the agent learns and decides by stays of its type and accounted for.
LEMMA LearningAlways == Spec => []LearningInv
BY LearningInit, LearningStep, PTL DEF Spec

\* What is remembered of actions, of the world and of the sources keeps its type; above
\* all both parameters of every posterior stay positive, so that it can be drawn from,
\* whatever fractions of an observation are spread over it (update_distribution, sample).
THEOREM LearningTypeCorrect == Spec => [](CellsType /\ ToldType /\ SourcesType)
<1>1. LearningInv => CellsType /\ ToldType /\ SourcesType
    BY DEF LearningInv, Knowledge
<1> QED
    BY <1>1, LearningAlways, PTL

\* For any classes and any number of episodes the evidence held about an action is one
\* observation for every time the world was asked about it (update_distribution, _shrink).
THEOREM EvidenceAccounted == Spec => []CellsAccountForWorld
<1>1. LearningInv => CellsAccountForWorld
    BY DEF LearningInv, Knowledge
<1> QED
    BY <1>1, LearningAlways, PTL

\* For any number of episodes and however often trust moves from one source to the next,
\* each source is trusted by its own record alone: what followed each decision carried out
\* on its word counts for or against it once, and what was withheld, or done on another's
\* word, leaves it as it was (run_episode, update_source).
THEOREM TrustAccounted == Spec => []TrustAccountsForDecisions
<1>1. LearningInv => TrustAccountsForDecisions
    BY DEF LearningInv, Knowledge
<1> QED
    BY <1>1, LearningAlways, PTL

\* For any slate, prices, draws and multipliers of the context the agent acts unforced only
\* where acting makes payment likelier than leaving the customer alone (score_candidates,
\* choose).
THEOREM UpliftOnly == Spec => []ActsOnlyForUplift
<1>1. LearningInv => ActsOnlyForUplift
    BY DEF LearningInv
<1> QED
    BY <1>1, LearningAlways, PTL

\* Whatever is chosen is charged as it was priced, and never more (_cost_of).
THEOREM ChargedAsPriced == Spec => []PricedIsCharged
<1>1. LearningInv => PricedIsCharged
    BY DEF LearningInv
<1> QED
    BY <1>1, LearningAlways, PTL

\* Whatever attempts, contacts, outages and hours pile up, a chance that is recorded is one:
\* never negative, and never above the cap (multipliers.adjust).
THEOREM ChancesAreChances == Spec => []ChancesBounded
<1>1. LearningInv => ChancesBounded
    BY DEF LearningInv
<1> QED
    BY <1>1, LearningAlways, PTL

-----------------------------------------------------------------------------
(* Something is always chosen. *)

\* Of finitely many prices one is beaten by none.
LEMMA BestExists ==
    ASSUME NEW S, IsFiniteSet(S), S # {}, \A a \in S : a.value \in Int /\ a.direct \in Int
    PROVE  \E a \in S : \A b \in S : ~Beats(b, a)
<1> DEFINE G == {T \in SUBSET S : T = {} \/ \E a \in T : \A b \in T : ~Beats(b, a)}
<1>1. {} \in G
    OBVIOUS
<1>2. ASSUME NEW T \in SUBSET S, NEW x \in S, T \in G, x \notin T PROVE T \cup {x} \in G
    <2>1. x.value \in Int /\ x.direct \in Int /\ ~Beats(x, x)
        BY DEF Beats
    <2>2. CASE T = {}
        <3>1. T \cup {x} = {x}
            BY <2>2
        <3> QED
            BY <2>1, <3>1
    <2>3. CASE T # {}
        <3>1. PICK a \in T : \A b \in T : ~Beats(b, a)
            BY <1>2, <2>3
        <3>2. CASE Beats(x, a)
            <4>1. ASSUME NEW b \in T PROVE ~Beats(b, x)
                <5>1. ~Beats(b, a) /\ a \in S /\ b \in S
                    BY <3>1
                <5> QED
                    BY <2>1, <3>2, <5>1 DEF Beats
            <4> QED
                BY <2>1, <4>1
        <3>3. CASE ~Beats(x, a)
            BY <3>1, <3>3
        <3> QED
            BY <3>2, <3>3
    <2> QED
        BY <2>2, <2>3
<1>3. S \in G
    <2> HIDE DEF G
    <2> QED
        BY <1>1, <1>2, Growing
<1> QED
    BY <1>3

LEMMA SomethingChosen ==
    ASSUME NEW S, IsFiniteSet(S), S # {}, \A a \in S : a.value \in Int /\ a.direct \in Int
    PROVE  Choose(S) # {}
<1>1. PICK a \in S : \A b \in S : ~Beats(b, a)
    BY BestExists
<1> QED
    BY <1>1 DEF Choose

\* What a candidate is worth is a number.
LEMMA ValueInt ==
    ASSUME NEW x, IsContext(x), NEW mean \in Int, NEW draw, IsDraw(draw), NEW c \in Slate
    PROVE  ExpectedValue(x, c, mean, draw) \in Int
<1> DEFINE base     == Baseline(x, mean)
           discount == Discount(x, base)
           p        == Propensity(x, c, mean, draw)
           gain     == p - base
           part     == Times(gain, discount)
           n        == part * x.value
           worth    == Rounded(n, 1000)
           price    == AttentionOf(c, x.contacts)
<1>1. base \in Int /\ base <= 970
    BY AdjustInt DEF Baseline
<1>2. p \in Int
    BY <1>1, AdjustInt DEF Propensity, IsDraw
<1>3. discount \in Int
    <2> DEFINE stays == 1000 - base
               steps == x.steps_remaining - 1
    <2>1. stays \in Nat /\ steps \in Nat
        <3> HIDE DEF base
        <3> QED
            BY <1>1 DEF IsContext
    <2>2. Power(stays, steps) \in Nat
        <3> HIDE DEF stays, steps
        <3> QED
            BY <2>1, PowerNat
    <2>3. discount = Power(stays, steps)
        BY DEF Discount
    <2> HIDE DEF discount, stays, steps
    <2> QED
        BY <2>2, <2>3
<1>4. price \in Int /\ c.direct \in Int
    <2>1. price \in Nat /\ c.direct \in Nat
        BY SlateAssumption, PriceAssumption DEF AttentionOf, Candidates, IsContext
    <2> HIDE DEF price
    <2> QED
        BY <2>1
<1>5. part \in Int
    <2>1. gain \in Int
        <3> HIDE DEF p, base
        <3> QED
            BY <1>1, <1>2
    <2> HIDE DEF gain, discount
    <2> QED
        BY <1>3, <2>1, TimesInt
<1>6. n \in Int
    <2> HIDE DEF part
    <2> QED
        BY <1>5 DEF IsContext
<1>7. worth \in Int
    <2> HIDE DEF n
    <2> QED
        BY <1>6 DEF Rounded
<1>8. ExpectedValue(x, c, mean, draw) = worth - c.direct - price
    BY DEF ExpectedValue
<1> HIDE DEF worth, price
<1> QED
    BY <1>4, <1>7, <1>8

\* A source is always trusted: one of three means is no smaller than the others.
LEMMA SomeoneTrusted ==
    ASSUME SourcesType
    PROVE  TrustedSources # {}
<1> DEFINE m(s) == Mean(PosteriorIn(sources, s))
<1>1. \A s \in DiagnosisSources : m(s) \in Int
    <2>1. \A s : PosteriorIn(sources, s) \in Posteriors
        BY DEF PosteriorIn, SourcesType, Prior, Posteriors, W
    <2>2. \A post \in Posteriors : Mean(post) \in Int
        BY DEF Mean, Posteriors
    <2> QED
        BY <2>1, <2>2
<1> HIDE DEF m
<1>2. \E s \in DiagnosisSources : \A t \in DiagnosisSources : m(t) <= m(s)
    <2> DEFINE a == m("taxonomy")
               b == m("blended")
               c == m("model")
    <2>1. a \in Int /\ b \in Int /\ c \in Int
        BY <1>1 DEF DiagnosisSources
    <2>2. \/ b <= a /\ c <= a /\ a <= a
          \/ a <= b /\ c <= b /\ b <= b
          \/ a <= c /\ b <= c /\ c <= c
        <3> HIDE DEF a, b, c
        <3> QED
            BY <2>1
    <2> QED
        BY <2>2 DEF DiagnosisSources
<1> QED
    BY <1>2 DEF TrustedSources, m, DiagnosisSources

\* What is priced is finite and has prices.
LEMMA SlatePriced ==
    ASSUME NEW x, IsContext(x), NEW mean \in Int, NEW draw, IsDraw(draw),
           NEW left, left \subseteq Slate, left # {}
    PROVE  Choose(Priced(x, left, mean, draw)) # {}
<1> DEFINE price(c) == [action |-> c.action, offset |-> c.offset, direct |-> c.direct,
                        attention |-> AttentionOf(c, x.contacts),
                        p |-> Propensity(x, c, mean, draw),
                        value |-> ExpectedValue(x, c, mean, draw)]
           S == Priced(x, left, mean, draw)
           f == [c \in left |-> price(c)]
<1>1. S = {price(c) : c \in left}
    BY DEF Priced
<1>2. IsFiniteSet(left)
    BY SlateAssumption, FS_Subset
<1>3. IsFiniteSet(S)
    <2>1. f \in Surjection(left, S)
        <3> HIDE DEF price
        <3> QED
            BY <1>1 DEF Surjection
    <2> HIDE DEF f, S
    <2> QED
        BY <1>2, <2>1, FS_Surjection
<1>4. S # {}
    BY <1>1
<1>5. \A a \in S : a.value \in Int /\ a.direct \in Int
    <2> SUFFICES ASSUME NEW c \in left PROVE price(c).value \in Int /\ price(c).direct \in Int
        BY <1>1
    <2>1. ExpectedValue(x, c, mean, draw) \in Int
        BY ValueInt
    <2>2. c.direct \in Int
        BY SlateAssumption DEF Candidates
    <2> QED
        BY <2>1, <2>2
<1>6. Choose(S) # {}
    <2> HIDE DEF S
    <2> QED
        BY <1>3, <1>4, <1>5, SomethingChosen
<1> QED
    BY <1>6

\* Filters leave something: what is refused comes back when nothing else is left, and a
\* mandate for what is not on offer is dropped.
LEMMA SomethingConsidered ==
    ASSUME NEW slate, slate # {}, NEW refused, NEW force
    PROVE  Considered(slate, refused, force) # {}
BY DEF Considered

\* For any finite slate, any prices and any history of learning, a pass has a diagnosis to go
\* by and a candidate to choose (ev.choose and the filters of _decide).
THEOREM ChoiceAlways == Spec => []ChoiceExists
<1>1. LearningInv => ChoiceExists
    <2> SUFFICES ASSUME LearningInv, Deciding
                 PROVE  /\ Diagnoses(ep.profile) # {}
                        /\ \A dx \in Diagnoses(ep.profile), force \in Mandates,
                              seen \in ContactCounts : Decisions(dx, force, seen) # {}
        BY DEF ChoiceExists
    <2>1. SourcesType /\ CellsType /\ EpisodeType /\ ep.profile \in EventProfiles
        BY DEF LearningInv, Knowledge, EpisodeType, Episodes
    <2>2. Diagnoses(ep.profile) # {}
        BY <2>1, SomeoneTrusted DEF Diagnoses
    <2>3. ASSUME NEW dx \in Diagnoses(ep.profile), NEW force \in Mandates,
                 NEW seen \in ContactCounts
          PROVE  Decisions(dx, force, seen) # {}
        <3> DEFINE x    == Context(dx, seen)
                   mean == ExpectedMarginal(dx.beliefs, "NO_ACTION")
                   left == Considered(Offered(ep.profile), ep.refused, force)
                   arms == {c.action : c \in {d \in Slate : ~Resting(d)}}
        <3>1. IsDiagnosis(dx)
            BY <2>1, Diagnosed
        <3>2. IsContext(x)
            BY <2>1, ContextOk
        <3>3. mean \in Int
            <4>1. mean \in Nat
                BY <2>1, <3>1, MarginalNat
            <4> HIDE DEF mean
            <4> QED
                BY <4>1
        <3>4. PICK draw : draw \in DrawsFor(dx)
            <4>1. PICK n \in Draws : TRUE
                BY LearningAssumption
            <4>2. [a \in arms |-> n] \in [arms -> Draws]
                BY <4>1
            <4> QED
                BY <4>2 DEF DrawsFor
        <3>5. IsDraw(draw)
            <4>1. \A e \in Slate : ~Resting(e) => draw[e.action] \in Nat
                BY <2>1, <3>1, <3>4, DrawsNat
            <4>2. \A n \in Nat : n \in Int
                OBVIOUS
            <4> QED
                BY <4>1, <4>2, Zenon DEF IsDraw
        <3>6. left \subseteq Slate /\ left # {}
            <4>1. PICK rest \in Slate : Resting(rest)
                BY SlateAssumption
            <4>2. rest \in Offered(ep.profile)
                BY <4>1 DEF Offered, Resting
            <4>3. left # {}
                BY <4>2, SomethingConsidered
            <4>4. left \subseteq Slate
                BY DEF Offered, Considered
            <4> QED
                BY <4>3, <4>4
        <3>7. PICK d : d \in Choose(Priced(x, left, mean, draw))
            <4> HIDE DEF x, mean, left
            <4> QED
                BY <3>2, <3>3, <3>5, <3>6, SlatePriced
        <3>8. d \in Decisions(dx, force, seen)
            BY <3>4, <3>7 DEF Decisions
        <3> QED
            BY <3>8
    <2> QED
        BY <2>2, <2>3
<1> QED
    BY <1>1, LearningAlways, PTL
=============================================================================
