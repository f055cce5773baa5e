------------------------------- MODULE Intake -------------------------------
(***************************************************************************)
(* Webhook ingest (src/ingest/webhook.py behind src/api/main.py).          *)
(* Razorpay delivers each webhook any number of times, in any order, until *)
(* it hears a 200; a delivery or the answer to it may be lost.  One action *)
(* is one HTTP request: the body is awaited first, everything after it runs*)
(* without another await.  The idempotency store lives in the process.     *)
(***************************************************************************)
EXTENDS Integers, FiniteSets

CONSTANTS
    Webhooks,                  \* what Razorpay has to tell
    Kind,                      \* webhook -> which table its event is in
    Bodies,                    \* webhook -> the bodies it may be delivered with
    Identified,                \* webhooks that carry x-razorpay-event-id
    MaxDeliveries,             \* bound: deliveries of one webhook
    MaxRestarts                \* bound: restarts of the process

\* SUCCESS_EVENTS, RISK_EVENTS, TERMINAL_EVENTS and any other event.
Kinds == {"success", "risk", "terminal", "unhandled"}

\* What normalise() can make of a body: good; without a timestamp; with a field the
\* RiskEvent refuses; not even an envelope.
BodyKinds == {"good", "undated", "malformed", "unparsable"}

Outcomes == {"risk_event", "stop", "duplicate", "ignored", "malformed", "raised"}

ASSUME IntakeAssumption ==
    /\ IsFiniteSet(Webhooks)
    /\ Kind \in [Webhooks -> Kinds]
    /\ Bodies \in [Webhooks -> SUBSET BodyKinds]
    /\ Identified \subseteq Webhooks
    /\ MaxDeliveries \in Nat
    /\ MaxRestarts \in Nat

VARIABLES
    configured,                \* the secret is in the environment of this process
    seen,                      \* IdempotencyStore.seen
    built,                     \* history: risk events built by this process, by webhook
    ever,                      \* history: risk events built by any process
    stopped,                   \* history: webhooks answered with a stop signal
    settled,                   \* webhooks for which Razorpay has heard a 200
    deliveries, restarts

vars == <<configured, seen, built, ever, stopped, settled, deliveries, restarts>>

Nobody == [w \in Webhooks |-> 0]

Init ==
    /\ configured \in BOOLEAN
    /\ seen = {}
    /\ built = Nobody
    /\ ever = Nobody
    /\ stopped = {}
    /\ settled = {}
    /\ deliveries = Nobody
    /\ restarts = 0

IsDuplicate(w) == w \in seen

\* Mutants: nothing is remembered; what was only attempted is.
Remember_Never(w, outcome) == seen
Remember_Attempted(w, outcome) == IF w \in Identified THEN seen \cup {w} ELSE seen

\* Only work completed is remembered, and only under an id.
Remember(w, outcome) ==
    IF outcome = "risk_event" /\ w \in Identified THEN seen \cup {w} ELSE seen

Normalise(w, body) ==
    IF IsDuplicate(w) THEN "duplicate"
    ELSE IF body = "unparsable" THEN "raised"
    ELSE IF Kind[w] \in {"success", "terminal"} THEN "stop"
    ELSE IF Kind[w] = "unhandled" \/ body = "undated" THEN "ignored"
    ELSE IF body = "malformed" THEN "malformed"
    ELSE "risk_event"

\* An answer Razorpay takes for "handled"; a malformed payload gets 422, an exception 500.
Accepted(outcome) == outcome \notin {"malformed", "raised"}

\* A delivery the signature or the missing secret keeps out changes nothing.
Rejected(w, signed) ==
    /\ ~configured \/ ~signed
    /\ UNCHANGED <<seen, built, ever, stopped, settled>>

Handled(w, body, signed, heard) ==
    LET outcome == Normalise(w, body)
        risk    == outcome = "risk_event"
    IN  /\ configured /\ signed
        /\ seen' = Remember(w, outcome)
        /\ built' = IF risk THEN [built EXCEPT ![w] = @ + 1] ELSE built
        /\ ever' = IF risk THEN [ever EXCEPT ![w] = @ + 1] ELSE ever
        /\ stopped' = IF outcome = "stop" THEN stopped \cup {w} ELSE stopped
        /\ settled' = IF heard /\ Accepted(outcome) THEN settled \cup {w} ELSE settled

\* heard: the answer reaches Razorpay.  A webhook is delivered again whether or not it is
\* settled: redelivery and the answer may cross.
Deliver(w, body, signed, heard) ==
    /\ deliveries[w] < MaxDeliveries
    /\ deliveries' = [deliveries EXCEPT ![w] = @ + 1]
    /\ Rejected(w, signed) \/ Handled(w, body, signed, heard)
    /\ UNCHANGED <<configured, restarts>>

Restart ==
    /\ restarts < MaxRestarts
    /\ restarts' = restarts + 1
    /\ configured' \in BOOLEAN
    /\ seen' = {}
    /\ built' = Nobody
    /\ UNCHANGED <<ever, stopped, settled, deliveries>>

\* The bounds are used up; the server would go on waiting.
Idle ==
    /\ \A w \in Webhooks : deliveries[w] = MaxDeliveries
    /\ restarts = MaxRestarts
    /\ UNCHANGED vars

Next ==
    \/ \E w \in Webhooks, signed, heard \in BOOLEAN :
          \E body \in Bodies[w] : Deliver(w, body, signed, heard)
    \/ Restart
    \/ Idle

Spec == Init /\ [][Next]_vars

-----------------------------------------------------------------------------
\* The types of the store (src/ingest/webhook.py, IdempotencyStore) and of the history
\* beside it; only ids are ever remembered.
TypeOK ==
    /\ configured \in BOOLEAN
    /\ seen \subseteq Identified
    /\ built \in [Webhooks -> Nat]
    /\ ever \in [Webhooks -> Nat]
    /\ stopped \subseteq Webhooks
    /\ settled \subseteq Webhooks
    /\ deliveries \in [Webhooks -> Nat]
    /\ restarts \in Nat

\* However often and in whatever order webhooks are delivered, one process builds at most
\* one risk event from each that carries an id.
AcceptedOnce == \A w \in Identified : built[w] <= 1

\* No webhook is swallowed: when Razorpay has heard a 200, and so stops delivering, the
\* risk event has been built, or the stop signal given - also when earlier deliveries
\* were malformed, raised, lost on the way back or met a process that has gone.
NothingSwallowed ==
    \A w \in settled :
       /\ Kind[w] = "risk" /\ "undated" \notin Bodies[w] => ever[w] > 0
       /\ Kind[w] \in {"success", "terminal"} => w \in stopped
=============================================================================
