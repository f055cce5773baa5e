------------------------------ MODULE Diagnosis -----------------------------
(***************************************************************************)
(* Asking a model for a diagnosis (src/decide/llm.py, propose_root_cause)  *)
(* through a ring of API keys (src/decide/providers.py, GeminiProvider):   *)
(* routing gate, fixture, provider with retries and key rotation, rules.   *)
(* One action is one call of the provider's API and what follows from its  *)
(* outcome.  The fixtures and their manifest are files: they outlive the   *)
(* process, the ring does not.                                             *)
(***************************************************************************)
EXTENDS Integers, FiniteSets

CONSTANTS
    Questions,                 \* distinct payloads
    Blind,                     \* those the routing gate sends to a model
    NumKeys,                   \* keys in the ring
    NETWORK_RETRIES,
    MaxRestarts                \* bound: restarts of the process

ASSUME RingAssumption ==
    /\ Blind \subseteq Questions
    /\ NumKeys \in Nat \ {0}
    /\ NETWORK_RETRIES \in Nat
    /\ MaxRestarts \in Nat

\* resolve_provider(): each provider answers with a model of its own name.
Providers == {"gemini", "anthropic", "null"}
NoManifest == "none"
Keys == Questions \X Providers
Ring == 0..(NumKeys - 1)

\* A fixture that is missing, torn by a crash in write_text, or readable.
FixtureStates == {"missing", "torn", "whole"}

(***************************************************************************)
(* What the provider's exception says, by the markers it contains: of a    *)
(* transient failure, of a spent or bad key, of both ("503 ... quota"), or *)
(* of neither (an answer that fails validation, too).                      *)
(***************************************************************************)
Errors == {"transient", "spent", "both", "other"}
IsTransient(e) == e \in {"transient", "both"}
ShouldRotate(e) == e \in {"spent", "both"}

VARIABLES
    provider, network,         \* of this process
    manifest,                  \* the model that wrote the fixtures
    fixtures,                  \* cache key -> FixtureStates
    index, exhausted,          \* GeminiProvider._index, _exhausted
    call,                      \* locals of propose_root_cause and diagnose
    result,                    \* the last ProposalResult
    restarts

vars == <<provider, network, manifest, fixtures, index, exhausted, call, result, restarts>>
ring == <<index, exhausted>>
process == <<provider, network, restarts>>

\* made and limit are history: API calls so far, and how many there may be.
NoKey == <<"", "">>
Calls == [open: BOOLEAN, key: Keys \cup {NoKey}, attempts: 0..NETWORK_RETRIES,
          made: Nat, limit: Nat]
NoCall == [open |-> FALSE, key |-> NoKey, attempts |-> 0, made |-> 0, limit |-> 0]

\* ProposalResult: where the answer came from, and the error it names.
Sources == {"none", "skipped", "fixture", "fallback", "api"}
Results == [source: Sources, error: Errors \cup {"none"}]
NoResult == [source |-> "none", error |-> "none"]

Init ==
    /\ provider \in Providers
    /\ network \in BOOLEAN
    /\ manifest = NoManifest
    /\ fixtures = [k \in Keys |-> "missing"]
    /\ index = 0
    /\ exhausted = {}
    /\ call = NoCall
    /\ result = NoResult
    /\ restarts = 0

\* Mutant: no file is ever taken for an answer.
Readable_Never(k) == FALSE

\* read_fixture: a corrupt fixture is a miss.
Readable(k) == fixtures[k] = "whole"

\* plan(): what generate_fixtures still has to ask the configured model.
Pending == {q \in Blind : ~Readable(<<q, provider>>)}

\* The process is killed, perhaps while it writes a fixture or the manifest, and another
\* one started.
Restart ==
    /\ restarts < MaxRestarts
    /\ restarts' = restarts + 1
    /\ provider' \in Providers
    /\ network' \in BOOLEAN
    /\ fixtures' \in {fixtures} \cup
          {[fixtures EXCEPT ![k] = "torn"] : k \in IF call.open THEN {call.key} ELSE {}}
    /\ manifest' \in {manifest} \cup
          {NoManifest : q \in IF call.open \/ provider = "null" THEN {} ELSE Pending}
    /\ index' = 0
    /\ exhausted' = {}
    /\ call' = NoCall
    /\ result' = NoResult

(***************************************************************************)
(* A run of generate_fixtures up to its first question: it plans, prunes   *)
(* the directory of every file that is not an answer of the configured     *)
(* model (the manifest is one), and stamps the set if anything is left to  *)
(* ask.  A dry run stops before the stamp, and so does a run without a key.*)
(***************************************************************************)
Generate(prune, dry) ==
    LET wanted == Blind \X {provider}
    IN  /\ ~call.open
        /\ fixtures' =
              [k \in Keys |-> IF prune /\ k \notin wanted THEN "missing" ELSE fixtures[k]]
        /\ manifest' = IF ~dry /\ provider # "null" /\ Pending # {} THEN provider
                       ELSE IF prune THEN NoManifest ELSE manifest
        /\ UNCHANGED <<process, ring, call, result>>

CacheKey(q) == <<q, IF manifest = NoManifest THEN provider ELSE manifest>>

RingLimit ==
    IF provider = "gemini"
    THEN (NETWORK_RETRIES + 1) * (IF exhausted = Ring THEN 1 ELSE Cardinality(Ring \ exhausted))
    ELSE 1

Answer(source, error) == result' = [source |-> source, error |-> error]

Ask(k) ==
    call' = [open |-> TRUE, key |-> k, attempts |-> 0, made |-> 0, limit |-> RingLimit]

Propose(q) ==
    LET k == CacheKey(q)
        offline == provider = "null" \/ ~network
    IN  /\ ~call.open
        /\ \/ /\ q \notin Blind
              /\ Answer("skipped", "none")
              /\ UNCHANGED call
           \/ /\ q \in Blind /\ Readable(k)
              /\ Answer("fixture", "none")
              /\ UNCHANGED call
           \/ /\ q \in Blind /\ ~Readable(k) /\ offline
              /\ Answer("fallback", "none")
              /\ UNCHANGED call
           \/ /\ q \in Blind /\ ~Readable(k) /\ ~offline
              /\ Ask(k)
              /\ UNCHANGED result
        /\ UNCHANGED <<process, manifest, fixtures, ring>>

\* The model answers; write_fixture may still fail, before or after it truncates the file.
Answered(after) ==
    /\ call.open
    /\ after \in {"whole", "torn", fixtures[call.key]}
    /\ fixtures' = [fixtures EXCEPT ![call.key] = after]
    /\ IF after = "whole" THEN Answer("api", "none")
       ELSE Answer("fallback", "other")
    /\ call' = NoCall
    /\ UNCHANGED <<process, manifest, ring>>

GiveUp(e) ==
    /\ Answer("fallback", e)
    /\ call' = NoCall

Made == IF call.made < call.limit THEN call.made + 1 ELSE call.made

Retry == call' = [call EXCEPT !.attempts = @ + 1, !.made = Made]

\* Keys that come after this one, nearest first: offset 1, 2, ... around the ring.
Offset(k) == (k - index) % NumKeys

\* Mutant: only the key that has just failed is spent.
Spent_JustThis == {index}

Spent == exhausted \cup {index}

\* Mutant: the key that has just failed counts as unspent.
Unspent_KeepsFailed == Ring \ exhausted

Unspent == Ring \ Spent

\* _rotate: a new key and a fresh count of retries, or the exception is raised again.
Rotate(e) ==
    /\ exhausted' = Spent
    /\ \/ \E next \in Unspent :
             /\ \A k \in Unspent : Offset(next) <= Offset(k)
             /\ index' = next
             /\ call' = [call EXCEPT !.attempts = 0, !.made = Made]
             /\ UNCHANGED result
       \/ /\ Unspent = {}
          /\ GiveUp(e)
          /\ UNCHANGED index

\* Mutant: one retry too many.
Again_OneMore(e) ==
    provider = "gemini" /\ IsTransient(e) /\ call.attempts <= NETWORK_RETRIES

\* The same key once more; only the Gemini provider does.
Again(e) == provider = "gemini" /\ IsTransient(e) /\ call.attempts < NETWORK_RETRIES

\* Mutant: a transient failure whose retries are used up rotates no more.
Another_NotTransient(e) == provider = "gemini" /\ ~IsTransient(e) /\ ShouldRotate(e)

\* Another key.
Another(e) == provider = "gemini" /\ ~Again(e) /\ ShouldRotate(e)

Failed(e) ==
    /\ call.open
    /\ \/ Again(e) /\ Retry /\ UNCHANGED <<ring, result>>
       \/ Another(e) /\ Rotate(e)
       \/ ~Again(e) /\ ~Another(e) /\ GiveUp(e) /\ UNCHANGED ring
    /\ UNCHANGED <<process, manifest, fixtures>>

Step ==
    \/ \E after \in FixtureStates : Answered(after)
    \/ \E e \in Errors : Failed(e)

Next ==
    \/ Step
    \/ \E q \in Questions : Propose(q)
    \/ \E prune, dry \in BOOLEAN : Generate(prune, dry)
    \/ Restart

\* The API client returns or raises; a loop that has been entered goes on.
Spec == Init /\ [][Next]_vars /\ WF_vars(Step)

-----------------------------------------------------------------------------
\* The types of the ring, the cache and the call in progress (GeminiProvider and the
\* locals of diagnose).
TypeOK ==
    /\ provider \in Providers
    /\ network \in BOOLEAN
    /\ manifest \in Providers \cup {NoManifest}
    /\ fixtures \in [Keys -> FixtureStates]
    /\ index \in Ring
    /\ exhausted \subseteq Ring
    /\ call \in Calls
    /\ call.open => call.key \in Keys
    /\ result \in Results
    /\ restarts \in Nat

\* While any key is left, the key in use is one of those left; a spent key is used again
\* only when all are spent (the ring starts every later diagnosis where it stopped).
CurrentKeyUnspent == index \in exhausted => exhausted = Ring

\* The rules answer for a quota error only after every key of the ring has been refused.
FallbackMeansSpent ==
    (provider = "gemini" /\ result.source = "fallback" /\ ShouldRotate(result.error)) =>
       exhausted = Ring

\* A diagnosis costs at most NETWORK_RETRIES + 1 calls per key that was left.
CallsBounded == call.open => call.made < call.limit

\* What has been paid for is kept: no crash, no later diagnosis and no other provider
\* loses or tears an answer on disk (generate_fixtures resumes instead of starting over);
\* only a prune by another provider does.
ResumeLosesNothing ==
    [][\A k \in Keys : fixtures[k] = "whole" =>
          \/ fixtures'[k] = "whole"
          \/ k[2] # provider /\ \E dry \in BOOLEAN : Generate(TRUE, dry)]_vars

\* fixture_model_id: "replay must key against the model that WROTE the fixtures".  A set
\* that is there and stamped keeps its stamp.  The code: --prune deletes MANIFEST.json
\* with the stale fixtures, and a set that is complete, or a dry run, is not stamped again.
StampKept ==
    [][\A q \in Questions :
          LET k == <<q, manifest>>
          IN  k \in Keys /\ fixtures[k] = "whole" /\ fixtures'[k] = "whole" =>
                 manifest' # NoManifest]_vars

\* Every call of the API is counted: a diagnosis that is still open after one has one call
\* less to make, and the same question to ask (diagnose: retry and _rotate go on, raise ends).
EveryCallCounts ==
    [][call.open /\ call'.open =>
          /\ call'.made = call.made + 1
          /\ call'.limit = call.limit /\ call'.key = call.key]_call

\* Every diagnosis is answered, whatever the provider does: retries and rotations end.
DiagnosisEnds == call.open ~> ~call.open
=============================================================================
