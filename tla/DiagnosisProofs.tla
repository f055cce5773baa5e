--------------------------- MODULE DiagnosisProofs --------------------------
(***************************************************************************)
(* The key ring and the fixtures, for any number of keys, questions,       *)
(* retries and restarts.                                                   *)
(***************************************************************************)
EXTENDS Diagnosis, FiniteSetTheorems, TLAPS

\* A question is asked only if it is for a model, and only while its answer is not on disk.
AskedIsOpen ==
    call.open => call.key \in Blind \X Providers /\ fixtures[call.key] # "whole"

\* Only such questions have answers on disk.
OnlyBlindAnswered == \A k \in Keys : fixtures[k] = "whole" => k \in Blind \X Providers

DiagnosisInv == TypeOK /\ CurrentKeyUnspent /\ AskedIsOpen /\ OnlyBlindAnswered

\* The keys a call may have are cache keys.
LEMMA BlindKeys == Blind \X Providers \subseteq Keys
BY RingAssumption DEF Keys

\* What Answer and GiveUp leave as the result is one.
LEMMA AnswerType ==
    ASSUME NEW source \in Sources, NEW error \in Errors \cup {"none"}, Answer(source, error)
    PROVE  result' \in Results
BY DEF Answer, Results

\* No call is a call.
LEMMA NoCallType == NoCall \in Calls /\ ~NoCall.open
BY RingAssumption DEF NoCall, Calls

\* Counting a retry, or starting over with another key, changes nothing else.
LEMMA CountType ==
    ASSUME call \in Calls, NEW n \in 0..NETWORK_RETRIES,
           call' = [call EXCEPT !.attempts = n, !.made = Made]
    PROVE  call' \in Calls /\ call'.open = call.open /\ call'.key = call.key
<1>1. Made \in Nat
    BY DEF Made, Calls
<1> QED
    BY <1>1 DEF Calls

\* The bound on a diagnosis's calls, which the history remembers, is a number.
LEMMA RingLimitType == RingLimit \in Nat
<1>1. Ring \ exhausted \subseteq Ring /\ IsFiniteSet(Ring)
    BY FS_Interval, RingAssumption DEF Ring
<1>2. Cardinality(Ring \ exhausted) \in Nat
    BY <1>1, FS_Subset, FS_CardinalityType
<1>3. ASSUME NEW n \in Nat PROVE (NETWORK_RETRIES + 1) * n \in Nat
    BY RingAssumption
<1> QED
    BY <1>2, <1>3 DEF RingLimit

\* A fresh process with an empty directory satisfies the invariant.
LEMMA DiagnosisInit == Init => DiagnosisInv
<1> SUFFICES ASSUME Init PROVE DiagnosisInv
    OBVIOUS
<1> USE RingAssumption DEF Init
<1>1. fixtures \in [Keys -> FixtureStates]
    BY DEF FixtureStates
<1>2. index \in Ring /\ exhausted \subseteq Ring
    BY DEF Ring
<1>3. result \in Results
    BY DEF NoResult, Results, Sources
<1> QED
    BY <1>1, <1>2, <1>3, NoCallType
       DEF DiagnosisInv, TypeOK, CurrentKeyUnspent, AskedIsOpen, OnlyBlindAnswered

\* A call that ends leaves the invariant as it was.
LEMMA EndOfCall ==
    ASSUME DiagnosisInv, result' \in Results, call' = NoCall,
           UNCHANGED <<provider, network, manifest, fixtures, restarts>>,
           index' \in Ring, exhausted' \subseteq Ring, CurrentKeyUnspent'
    PROVE  DiagnosisInv'
BY NoCallType DEF DiagnosisInv, TypeOK, AskedIsOpen, OnlyBlindAnswered

\* Every operation of the ring and of the fixture directory preserves the invariant.
LEMMA DiagnosisStep == DiagnosisInv /\ [Next]_vars => DiagnosisInv'
<1> SUFFICES ASSUME DiagnosisInv, [Next]_vars PROVE DiagnosisInv'
    OBVIOUS
<1> USE RingAssumption DEF DiagnosisInv, TypeOK
<1>1. ASSUME NEW after \in FixtureStates, Answered(after) PROVE DiagnosisInv'
    <2>1. result' \in Results
        BY <1>1, AnswerType DEF Answered, Sources, Errors
    <2>2. fixtures' = [fixtures EXCEPT ![call.key] = after]
        BY <1>1 DEF Answered
    <2>3. OnlyBlindAnswered'
        BY <1>1, <2>2 DEF Answered, AskedIsOpen, OnlyBlindAnswered
    <2>4. UNCHANGED <<provider, network, manifest, restarts, index, exhausted>>
        BY <1>1 DEF Answered, process, ring
    <2>5. call' \in Calls /\ ~call'.open
        BY <1>1, NoCallType DEF Answered
    <2> QED
        BY <2>1, <2>2, <2>3, <2>4, <2>5 DEF CurrentKeyUnspent, AskedIsOpen
<1>2. ASSUME NEW e \in Errors, Failed(e) PROVE DiagnosisInv'
    <2>1. UNCHANGED <<provider, network, manifest, fixtures, restarts>>
        BY <1>2 DEF Failed, process
    <2>2. CASE Again(e) /\ Retry /\ UNCHANGED <<ring, result>>
        <3>1. call.attempts + 1 \in 0..NETWORK_RETRIES
            BY <2>2 DEF Again, Calls
        <3>2. call' \in Calls /\ call'.open = call.open /\ call'.key = call.key
            BY <2>2, <3>1, CountType DEF Retry
        <3> QED
            BY <2>1, <2>2, <3>2 DEF ring, CurrentKeyUnspent, AskedIsOpen, OnlyBlindAnswered
    <2>3. CASE Another(e) /\ Rotate(e)
        <3>1. exhausted' = Spent /\ Spent \subseteq Ring
            BY <2>3 DEF Rotate, Spent
        <3>2. CASE Unspent = {} /\ GiveUp(e) /\ UNCHANGED index
            <4>1. exhausted' = Ring
                BY <3>1, <3>2 DEF Unspent
            <4>2. result' \in Results
                BY <3>2, AnswerType DEF GiveUp, Sources
            <4> QED
                BY <2>1, <3>2, <4>1, <4>2, EndOfCall DEF GiveUp, CurrentKeyUnspent
        <3>3. ASSUME NEW next \in Unspent, index' = next, UNCHANGED result,
                     call' = [call EXCEPT !.attempts = 0, !.made = Made]
              PROVE  DiagnosisInv'
            <4>1. index' \in Ring /\ index' \notin exhausted'
                BY <3>1, <3>3 DEF Unspent
            <4>2. call' \in Calls /\ call'.open = call.open /\ call'.key = call.key
                <5>1. 0 \in 0..NETWORK_RETRIES
                    OBVIOUS
                <5> QED
                    BY <3>3, <5>1, CountType
            <4> QED
                BY <2>1, <3>1, <3>3, <4>1, <4>2
                   DEF CurrentKeyUnspent, AskedIsOpen, OnlyBlindAnswered
        <3> QED
            BY <2>3, <3>2, <3>3 DEF Rotate
    <2>4. CASE GiveUp(e) /\ UNCHANGED ring
        <3>1. result' \in Results
            BY <2>4, AnswerType DEF GiveUp, Sources
        <3> QED
            BY <2>1, <2>4, <3>1, EndOfCall DEF GiveUp, ring, CurrentKeyUnspent
    <2> QED
        BY <1>2, <2>2, <2>3, <2>4 DEF Failed
<1>3. ASSUME NEW q \in Questions, Propose(q) PROVE DiagnosisInv'
    <2> DEFINE k == CacheKey(q)
    <2>1. UNCHANGED <<provider, network, manifest, fixtures, restarts, index, exhausted>>
        BY <1>3 DEF Propose, process, ring
    <2>2. CASE UNCHANGED call
        <3>1. result' \in Results
            BY <1>3, AnswerType DEF Propose, Sources
        <3> QED
            BY <2>1, <2>2, <3>1 DEF CurrentKeyUnspent, AskedIsOpen, OnlyBlindAnswered
    <2>3. CASE q \in Blind /\ ~Readable(k) /\ Ask(k) /\ UNCHANGED result
        <3>1. k \in Blind \X Providers
            BY <2>3 DEF CacheKey
        <3> HIDE DEF k
        <3>2. /\ call' \in Calls
              /\ call'.key = k
            BY <2>3, <3>1, BlindKeys, RingLimitType DEF Ask, Calls
        <3>3. fixtures[k] # "whole"
            BY <2>3 DEF Readable
        <3> QED
            BY <2>1, <2>3, <3>1, <3>2, <3>3, BlindKeys
               DEF CurrentKeyUnspent, AskedIsOpen, OnlyBlindAnswered
    <2> QED
        BY <1>3, <2>2, <2>3 DEF Propose
<1>4. ASSUME NEW prune \in BOOLEAN, NEW dry \in BOOLEAN, Generate(prune, dry)
      PROVE  DiagnosisInv'
    <2>1. fixtures' \in [Keys -> FixtureStates] /\ OnlyBlindAnswered'
        BY <1>4 DEF Generate, FixtureStates, OnlyBlindAnswered
    <2>2. manifest' \in Providers \cup {NoManifest}
        BY <1>4 DEF Generate
    <2> QED
        BY <1>4, <2>1, <2>2 DEF Generate, process, ring, CurrentKeyUnspent, AskedIsOpen
<1>5. CASE Restart
    <2>1. fixtures' \in [Keys -> FixtureStates] /\ OnlyBlindAnswered'
        BY <1>5 DEF Restart, FixtureStates, OnlyBlindAnswered
    <2>2. manifest' \in Providers \cup {NoManifest}
        BY <1>5 DEF Restart
    <2>3. index' \in Ring /\ exhausted' = {}
        BY <1>5 DEF Restart, Ring
    <2>4. result' \in Results
        BY <1>5 DEF Restart, NoResult, Results, Sources
    <2>5. call' \in Calls /\ ~call'.open
        BY <1>5, NoCallType DEF Restart
    <2> QED
        BY <1>5, <2>1, <2>2, <2>3, <2>4, <2>5 DEF Restart, CurrentKeyUnspent, AskedIsOpen
<1>6. CASE UNCHANGED vars
    BY <1>6 DEF vars, CurrentKeyUnspent, AskedIsOpen, OnlyBlindAnswered
<1> QED
    BY <1>1, <1>2, <1>3, <1>4, <1>5, <1>6 DEF Next, Step

\* The invariant, of every state.
LEMMA DiagnosisSafe == Spec => []DiagnosisInv
BY DiagnosisInit, DiagnosisStep, PTL DEF Spec

\* Every variable of the ring, the cache and the call keeps its type.
THEOREM DiagnosisTypeCorrect == Spec => []TypeOK
<1>1. DiagnosisInv => TypeOK
    BY DEF DiagnosisInv
<1> QED
    BY DiagnosisSafe, <1>1, PTL

\* The rules answer for a quota error only after the whole ring was refused: a key is
\* never given back, and a restart forgets the answer with the ring.
THEOREM FallbackIsLast == Spec => []FallbackMeansSpent
<1>1. Init => FallbackMeansSpent
    BY DEF Init, FallbackMeansSpent, NoResult
<1>2. ASSUME DiagnosisInv, FallbackMeansSpent, [Next]_vars PROVE FallbackMeansSpent'
    <2> USE <1>2 DEF FallbackMeansSpent, ShouldRotate
    <2>1. exhausted \subseteq Ring
        BY DEF DiagnosisInv, TypeOK
    <2>2. ASSUME NEW after \in FixtureStates, Answered(after) PROVE FallbackMeansSpent'
        BY <2>2 DEF Answered, Answer
    <2>3. ASSUME NEW e \in Errors, Failed(e) PROVE FallbackMeansSpent'
        <3>1. CASE Again(e) /\ Retry /\ UNCHANGED <<ring, result>>
            BY <2>3, <3>1 DEF Failed, process, ring
        <3>2. CASE Another(e) /\ Rotate(e)
            <4>1. exhausted = Ring => exhausted' = Ring
                BY <2>1, <3>2, RingAssumption DEF Rotate, Spent, DiagnosisInv, TypeOK
            <4>2. CASE Unspent = {}
                BY <2>1, <3>2, <4>2 DEF Rotate, Spent, Unspent, DiagnosisInv, TypeOK
            <4>3. CASE UNCHANGED result
                BY <2>3, <4>1, <4>3 DEF Failed, process
            <4> QED
                BY <3>2, <4>2, <4>3 DEF Rotate
        <3>3. CASE ~Again(e) /\ ~Another(e) /\ GiveUp(e) /\ UNCHANGED ring
            <4>1. provider = "gemini" => ~ShouldRotate(e)
                BY <3>3 DEF Another
            <4>2. result'.error = e /\ provider' = provider
                BY <2>3, <3>3 DEF Failed, process, GiveUp, Answer
            <4> QED
                BY <4>1, <4>2
        <3> QED
            BY <2>3, <3>1, <3>2, <3>3 DEF Failed
    <2>4. ASSUME NEW q \in Questions, Propose(q) PROVE FallbackMeansSpent'
        BY <2>4 DEF Propose, Answer, process, ring
    <2>5. ASSUME NEW prune \in BOOLEAN, NEW dry \in BOOLEAN, Generate(prune, dry)
          PROVE  FallbackMeansSpent'
        BY <2>5 DEF Generate, process, ring
    <2>6. CASE Restart
        BY <2>6 DEF Restart, NoResult
    <2>7. CASE UNCHANGED vars
        BY <2>7 DEF vars
    <2> QED
        BY <2>2, <2>3, <2>4, <2>5, <2>6, <2>7 DEF Next, Step
<1> QED
    BY <1>1, <1>2, DiagnosisSafe, PTL DEF Spec

-----------------------------------------------------------------------------
(* What a diagnosis may cost.  What is left of it -- the retries of the key in use and a   *)
(* full round of each key after it -- shrinks by at least one with every call.             *)

Round == NETWORK_RETRIES + 1

\* Calls that a key in use and the unspent ones after it can still make.
Left == (Round - call.attempts) + Round * Cardinality(Unspent)

CallsAccounted ==
    call.open =>
       IF provider = "gemini" THEN call.made + Left <= call.limit
       ELSE call.made < call.limit

\* A ring has finitely many keys, and one less once one is taken out.
LEMMA UnspentCount ==
    ASSUME NEW S \in SUBSET Ring
    PROVE  /\ Cardinality(S) \in Nat
           /\ \A k \in S : Cardinality(S \ {k}) = Cardinality(S) - 1
<1>1. IsFiniteSet(Ring)
    BY FS_Interval, RingAssumption DEF Ring
<1>2. IsFiniteSet(S)
    BY <1>1, FS_Subset
<1> QED
    BY <1>2, FS_CardinalityType, FS_RemoveElement

\* What the accounts of a call are made of are numbers.
LEMMA LeftNumbers ==
    DiagnosisInv => /\ Round \in Nat \ {0} /\ call.attempts \in 0..NETWORK_RETRIES
                    /\ Round * Cardinality(Unspent) \in Nat
                    /\ call.made \in Nat /\ call.limit \in Nat
<1>1. Cardinality(Unspent) \in Nat
    BY UnspentCount DEF Unspent
<1>2. Round \in Nat \ {0}
    BY RingAssumption DEF Round
<1> HIDE DEF Round
<1>3. ASSUME NEW m \in Nat, NEW n \in Nat PROVE m * n \in Nat
    OBVIOUS
<1>4. Round * Cardinality(Unspent) \in Nat
    BY <1>1, <1>2, <1>3
<1> QED
    BY <1>2, <1>4 DEF DiagnosisInv, TypeOK, Calls

\* Every call is paid for out of what was left.
LEMMA CallsStep == DiagnosisInv /\ CallsAccounted /\ [Next]_vars => CallsAccounted'
<1> SUFFICES ASSUME DiagnosisInv, CallsAccounted, [Next]_vars PROVE CallsAccounted'
    OBVIOUS
<1>1. CASE ~call'.open
    BY <1>1 DEF CallsAccounted
<1>2. CASE UNCHANGED <<call, index, exhausted, provider>>
    BY <1>2 DEF CallsAccounted, Left, Unspent, Spent, Round
<1>3. ASSUME NEW e \in Errors, Failed(e) PROVE CallsAccounted'
    <2>1. call.open /\ call \in Calls /\ provider' = provider
        BY <1>3 DEF Failed, process, DiagnosisInv, TypeOK
    <2>2. CASE GiveUp(e)
        BY <1>1, <2>2, NoCallType DEF GiveUp
    <2>3. CASE provider = "gemini"
        <3>1. /\ Round \in Nat \ {0} /\ call.attempts \in 0..NETWORK_RETRIES
              /\ Round = NETWORK_RETRIES + 1
              /\ Round * Cardinality(Unspent) \in Nat
              /\ call.made \in Nat /\ call.limit \in Nat
              /\ call.made + ((Round - call.attempts) + Round * Cardinality(Unspent)) <= call.limit
            BY <2>1, <2>3, LeftNumbers DEF CallsAccounted, Left, Round
        <3>2. Made = call.made + 1
            <4> DEFINE rest == Round * Cardinality(Unspent)
            <4> HIDE DEF rest
            <4>1. rest \in Nat /\ call.made + ((Round - call.attempts) + rest) <= call.limit
                BY <3>1 DEF rest
            <4>2. Round - call.attempts >= 1
                BY <3>1, RingAssumption
            <4>3. call.made < call.limit
                BY <3>1, <4>1, <4>2, RingAssumption
            <4> QED
                BY <4>3 DEF Made
        <3>3. CASE Again(e) /\ Retry /\ UNCHANGED <<ring, result>>
            <4>1. /\ call'.attempts = call.attempts + 1 /\ call'.made = call.made + 1
                  /\ call'.limit = call.limit
                BY <2>1, <3>2, <3>3 DEF Retry, Calls
            <4>2. Cardinality(Unspent)' = Cardinality(Unspent)
                BY <3>3 DEF ring, Unspent, Spent
            <4> DEFINE rest == Round * Cardinality(Unspent)
            <4>3. rest' = rest
                BY <4>2 DEF Round
            <4>4. rest \in Nat /\ call.made + ((Round - call.attempts) + rest) <= call.limit
                BY <3>1
            <4> HIDE DEF rest
            <4>5. call'.made + ((Round - call'.attempts) + rest) <= call'.limit
                BY <3>1, <4>1, <4>4, RingAssumption
            <4>6. Left' = (Round - call'.attempts) + rest
                BY <4>3 DEF Left, rest, Round
            <4> QED
                BY <2>1, <2>3, <4>5, <4>6 DEF CallsAccounted
        <3>4. ASSUME Another(e), NEW next \in Unspent, index' = next, exhausted' = Spent,
                     call' = [call EXCEPT !.attempts = 0, !.made = Made]
              PROVE  CallsAccounted'
            <4>1. /\ call'.attempts = 0 /\ call'.made = call.made + 1
                  /\ call'.limit = call.limit
                BY <2>1, <3>2, <3>4 DEF Calls
            <4>2. Unspent' = Unspent \ {next}
                BY <3>4 DEF Unspent, Spent
            <4>3. /\ Cardinality(Unspent) \in Nat
                  /\ Cardinality(Unspent \ {next}) = Cardinality(Unspent) - 1
                BY <3>4, UnspentCount DEF Unspent
            <4>4. Round * (Cardinality(Unspent) - 1) = Round * Cardinality(Unspent) - Round
                <5>1. ASSUME NEW m \in Int, NEW n \in Int PROVE m * (n - 1) = m * n - m
                    OBVIOUS
                <5> QED
                    BY <3>1, <4>3, <5>1
            <4> DEFINE rest == Round * Cardinality(Unspent)
            <4>5. rest \in Nat /\ call.made + ((Round - call.attempts) + rest) <= call.limit
                BY <3>1
            <4>6. Left' = (Round - call'.attempts) + (rest - Round)
                BY <4>2, <4>3, <4>4 DEF Left, Round
            <4> HIDE DEF rest
            <4>7. call'.made + ((Round - call'.attempts) + (rest - Round)) <= call'.limit
                BY <3>1, <4>1, <4>5, RingAssumption
            <4> QED
                BY <2>1, <2>3, <4>6, <4>7 DEF CallsAccounted
        <3> QED
            BY <1>3, <2>2, <3>3, <3>4 DEF Failed, Rotate
    <2>4. CASE provider # "gemini"
        BY <1>3, <2>2, <2>4 DEF Failed, Again, Another
    <2> QED
        BY <2>3, <2>4
<1>4. ASSUME NEW q \in Questions, Propose(q), Ask(CacheKey(q)) PROVE CallsAccounted'
    <2>1. UNCHANGED <<provider, index, exhausted>>
        BY <1>4 DEF Propose, process, ring
    <2>2. call'.attempts = 0 /\ call'.made = 0 /\ call'.limit = RingLimit
        BY <1>4 DEF Ask
    <2>3. CASE provider # "gemini"
        BY <2>1, <2>2, <2>3 DEF RingLimit, CallsAccounted
    <2>4. CASE provider = "gemini"
        <3>1. Round \in Nat \ {0} /\ index \in Ring /\ exhausted \subseteq Ring
              /\ Round * 1 = Round /\ Round * 0 = 0
            BY RingAssumption DEF Round, DiagnosisInv, TypeOK
        <3>2. Left' = Round + Round * Cardinality(Unspent)
            BY <2>1, <2>2, <3>1 DEF Left, Unspent, Spent, Round
        <3>3. CASE exhausted = Ring
            <4>1. Unspent = {} /\ Cardinality(Unspent) = 0
                BY <3>1, <3>3, FS_EmptySet DEF Unspent, Spent
            <4>2. call'.limit = Round /\ Left' = Round
                BY <2>2, <2>4, <3>1, <3>2, <3>3, <4>1 DEF RingLimit, Round
            <4> QED
                BY <2>1, <2>2, <2>4, <3>1, <4>2 DEF CallsAccounted
        <3>4. CASE exhausted # Ring
            <4>1. Unspent = (Ring \ exhausted) \ {index} /\ index \in Ring \ exhausted
                BY <3>1, <3>4 DEF Unspent, Spent, DiagnosisInv, CurrentKeyUnspent
            <4>2. /\ Cardinality(Ring \ exhausted) \in Nat
                  /\ Cardinality(Unspent) = Cardinality(Ring \ exhausted) - 1
                BY <4>1, UnspentCount
            <4>3. Round * Cardinality(Ring \ exhausted) = Round + Round * Cardinality(Unspent)
                <5>1. ASSUME NEW m \in Int, NEW n \in Int PROVE m * n = m + m * (n - 1)
                    OBVIOUS
                <5> QED
                    BY <3>1, <4>2, <5>1
            <4>4. call'.limit = Left'
                BY <2>2, <2>4, <3>2, <3>4, <4>3 DEF RingLimit, Round
            <4>5. Left' \in Int
                <5>1. ASSUME NEW m \in Int, NEW n \in Int PROVE m * n \in Int
                    OBVIOUS
                <5> QED
                    BY <3>1, <3>2, <4>2, <5>1
            <4>6. call'.made + Left' <= call'.limit
                <5>1. ASSUME NEW m \in Int PROVE 0 + m <= m
                    OBVIOUS
                <5> QED
                    BY <2>2, <4>4, <4>5, <5>1
            <4> QED
                BY <2>1, <2>4, <4>6 DEF CallsAccounted
        <3> QED
            BY <3>3, <3>4
    <2> QED
        BY <2>3, <2>4
<1>5. ASSUME NEW after \in FixtureStates, Answered(after) PROVE CallsAccounted'
    BY <1>1, <1>5, NoCallType DEF Answered
<1>6. ASSUME NEW q \in Questions, Propose(q) PROVE CallsAccounted'
    BY <1>2, <1>4, <1>6 DEF Propose, process, ring
<1>7. ASSUME NEW prune \in BOOLEAN, NEW dry \in BOOLEAN, Generate(prune, dry)
      PROVE  CallsAccounted'
    BY <1>2, <1>7 DEF Generate, process, ring
<1>8. CASE Restart
    BY <1>1, <1>8, NoCallType DEF Restart
<1>9. CASE UNCHANGED vars
    BY <1>2, <1>9 DEF vars
<1> QED
    BY <1>3, <1>5, <1>6, <1>7, <1>8, <1>9 DEF Next, Step

\* A diagnosis costs at most a full round of retries for every key that was left when it
\* began, whichever errors the provider gives and in whichever order.
THEOREM DiagnosisAffordable == Spec => []CallsBounded
<1>1. Init => CallsAccounted
    BY NoCallType DEF Init, CallsAccounted
<1>2. DiagnosisInv /\ CallsAccounted => CallsBounded
    <2> SUFFICES ASSUME DiagnosisInv, CallsAccounted, call.open
                 PROVE  call.made < call.limit
        BY DEF CallsBounded
    <2> DEFINE rest == Round * Cardinality(Unspent)
    <2>1. /\ Round = NETWORK_RETRIES + 1 /\ call.attempts \in 0..NETWORK_RETRIES /\ rest \in Nat
          /\ call.made \in Nat /\ call.limit \in Nat
          /\ \/ call.made < call.limit
             \/ call.made + ((Round - call.attempts) + rest) <= call.limit
        BY LeftNumbers DEF CallsAccounted, Left, Round
    <2> HIDE DEF rest
    <2> QED
        BY <2>1, RingAssumption
<1> QED
    BY <1>1, <1>2, DiagnosisSafe, CallsStep, PTL DEF Spec

\* No sequence of transient and quota errors keeps a diagnosis going: each of its calls is
\* one of the bounded number it may make (diagnose and _rotate; with CallsBounded, this is
\* why the loop ends).
THEOREM CallsRunOut == Spec => EveryCallCounts
<1>1. ASSUME DiagnosisInv, call.made < call.limit, Next, call.open, call'.open, call' # call
      PROVE  /\ call'.made = call.made + 1
             /\ call'.limit = call.limit /\ call'.key = call.key
    <2> USE <1>1
    <2>1. call \in Calls /\ Made = call.made + 1 /\ Made \in Nat
        BY DEF DiagnosisInv, TypeOK, Made, Calls
    <2>2. ASSUME NEW e \in Errors, Failed(e)
          PROVE  \E n \in 0..NETWORK_RETRIES : call' = [call EXCEPT !.attempts = n, !.made = Made]
        <3>1. ~GiveUp(e)
            BY NoCallType DEF GiveUp
        <3>2. CASE Again(e) /\ Retry
            <4>1. call.attempts + 1 \in 0..NETWORK_RETRIES
                BY <2>1, <3>2, RingAssumption DEF Again, Calls
            <4> QED
                BY <3>2, <4>1 DEF Retry
        <3>3. CASE Rotate(e)
            <4>1. 0 \in 0..NETWORK_RETRIES
                BY RingAssumption
            <4>2. call' = [call EXCEPT !.attempts = 0, !.made = Made]
                BY <3>1, <3>3 DEF Rotate
            <4> QED
                BY <4>1, <4>2
        <3> QED
            BY <2>2, <3>1, <3>2, <3>3 DEF Failed
    <2>3. ASSUME NEW n \in 0..NETWORK_RETRIES,
                 call' = [call EXCEPT !.attempts = n, !.made = Made]
          PROVE  /\ call'.made = call.made + 1
                 /\ call'.limit = call.limit /\ call'.key = call.key
        BY <2>1, <2>3 DEF Calls
    <2>4. \A after \in FixtureStates : ~Answered(after)
        BY NoCallType DEF Answered
    <2>5. ~Restart
        BY NoCallType DEF Restart
    <2>6. /\ \A q \in Questions : ~Propose(q)
          /\ \A prune, dry \in BOOLEAN : ~Generate(prune, dry)
        BY DEF Propose, Generate
    <2> QED
        BY <2>2, <2>3, <2>4, <2>5, <2>6 DEF Next, Step
<1>2. DiagnosisInv /\ CallsBounded /\ [Next]_vars =>
         [call.open /\ call'.open =>
             /\ call'.made = call.made + 1
             /\ call'.limit = call.limit /\ call'.key = call.key]_call
    <2> SUFFICES ASSUME DiagnosisInv, CallsBounded, [Next]_vars, call' # call,
                        call.open, call'.open
                 PROVE  /\ call'.made = call.made + 1
                        /\ call'.limit = call.limit /\ call'.key = call.key
        OBVIOUS
    <2>1. Next
        BY DEF vars
    <2> QED
        BY <1>1, <2>1 DEF CallsBounded
<1> QED
    BY <1>2, DiagnosisSafe, DiagnosisAffordable, PTL DEF Spec, EveryCallCounts

\* Until the whole ring is spent, the key in use is not a spent one (_rotate).
THEOREM RingTurns == Spec => []CurrentKeyUnspent
<1>1. DiagnosisInv => CurrentKeyUnspent
    BY DEF DiagnosisInv
<1> QED
    BY DiagnosisInit, DiagnosisStep, <1>1, PTL DEF Spec

\* An answer on disk is never lost or torn, except by a prune for another model
\* (write_fixture, reached only on a miss, and main of generate_fixtures).
THEOREM AnswersKept == Spec => ResumeLosesNothing
<1> DEFINE Kept == \A k \in Keys : fixtures[k] = "whole" =>
                      \/ fixtures'[k] = "whole"
                      \/ k[2] # provider /\ \E dry \in BOOLEAN : Generate(TRUE, dry)
<1>1. ASSUME DiagnosisInv, [Next]_vars PROVE [Kept]_vars
    <2> SUFFICES ASSUME Next, NEW k \in Keys, fixtures[k] = "whole",
                        ~(k[2] # provider /\ \E dry \in BOOLEAN : Generate(TRUE, dry))
                 PROVE  fixtures'[k] = "whole"
        BY <1>1
    <2> USE <1>1 DEF DiagnosisInv, TypeOK
    <2>1. ASSUME NEW after \in FixtureStates, Answered(after)
          PROVE  fixtures'[k] = "whole"
        BY <2>1 DEF Answered, AskedIsOpen
    <2>2. ASSUME NEW e \in Errors, Failed(e) PROVE fixtures'[k] = "whole"
        BY <2>2 DEF Failed
    <2>3. ASSUME NEW q \in Questions, Propose(q) PROVE fixtures'[k] = "whole"
        BY <2>3 DEF Propose
    <2>4. ASSUME NEW prune \in BOOLEAN, NEW dry \in BOOLEAN, Generate(prune, dry)
          PROVE  fixtures'[k] = "whole"
        <3>1. k \in Blind \X Providers
            BY DEF OnlyBlindAnswered
        <3>2. prune => k \in Blind \X {provider}
            BY <2>4, <3>1
        <3> QED
            BY <2>4, <3>2 DEF Generate
    <2>5. CASE Restart
        BY <2>5 DEF Restart, AskedIsOpen
    <2> QED
        BY <2>1, <2>2, <2>3, <2>4, <2>5 DEF Next, Step
<1> QED
    BY DiagnosisInit, DiagnosisStep, <1>1, PTL DEF Spec, ResumeLosesNothing
=============================================================================
