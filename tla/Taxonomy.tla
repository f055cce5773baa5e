------------------------------ MODULE Taxonomy ------------------------------
(***************************************************************************)
(* From Razorpay's error object to a class of failure and a triage verdict *)
(* (src/taxonomy/mapping.py).  The rows of the table are told apart by *)
(* what they say, so one published reason stands for all rows that say the *)
(* same.  Delays are in half hours.                                        *)
(***************************************************************************)
EXTENDS Integers

CustomerClasses == {"TRANSIENT_INFRA", "FUNDS", "AUTH_ABANDON", "INSTRUMENT_INVALID",
                    "RISK_DECLINE", "LIMIT_EXCEEDED", "UNKNOWN"}
SourceTypes == {"payment", "checkout", "mandate", "invoice"}

ReasonMapping(class, recoverability, delay) ==
    [failure_class |-> class, recoverability |-> recoverability, min_retry_delay |-> delay]

Customer(class, delay) == ReasonMapping(class, "CUSTOMER_RECOVERABLE", delay)
Merchant(class) == ReasonMapping(class, "MERCHANT_CONFIG", 0)

Rows ==
    [bank_not_available               |-> Customer("TRANSIENT_INFRA", 0),
     already_declined                 |-> Customer("TRANSIENT_INFRA", 48),
     duplicate_request                |-> Customer("TRANSIENT_INFRA", 1),
     insufficient_funds               |-> Customer("FUNDS", 0),
     incorrect_otp                    |-> Customer("AUTH_ABANDON", 0),
     card_expired                     |-> Customer("INSTRUMENT_INVALID", 0),
     payment_risk_check_failed        |-> Customer("RISK_DECLINE", 0),
     compliance_violation             |-> Merchant("RISK_DECLINE"),
     transaction_limit_exceeded       |-> Customer("LIMIT_EXCEEDED", 0),
     transaction_daily_limit_exceeded |-> Customer("LIMIT_EXCEEDED", 48),
     mcc_amount_limit_exceeded        |-> Merchant("LIMIT_EXCEEDED"),
     payment_failed                   |-> Customer("UNKNOWN", 0),
     invalid_order_id                 |-> Merchant("UNKNOWN"),
     order_already_paid               |-> ReasonMapping("UNKNOWN", "TERMINAL", 0)]

Reasons == DOMAIN Rows

UNMAPPED_FALLBACK == Customer("UNKNOWN", 0)
CHECKOUT_ABANDONED == Customer("AUTH_ABANDON", 0)
RECEIVABLE_OVERDUE == Customer("FUNDS", 0)

\* An error object without a reason counts as no error at all.
NoReason == "none"
MERCHANT_SOURCES == {"business"}

\* The provider's own word on who must act takes a failure away from the customer, and
\* never gives one to the customer.
RefineBySource(mapping, source) ==
    IF source \in MERCHANT_SOURCES /\ mapping.recoverability = "CUSTOMER_RECOVERABLE"
    THEN [mapping EXCEPT !.recoverability = "MERCHANT_CONFIG"]
    ELSE mapping

Unmapped(error) == error.reason \notin Reasons \cup {NoReason}

Classify(error, source_type) ==
    CASE error.reason \in Reasons -> RefineBySource(Rows[error.reason], error.source)
      [] error.reason = NoReason /\ source_type = "checkout" -> CHECKOUT_ABANDONED
      [] error.reason = NoReason /\ source_type = "invoice" -> RECEIVABLE_OVERDUE
      [] OTHER -> UNMAPPED_FALLBACK
=============================================================================
