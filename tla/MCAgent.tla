------------------------------- MODULE MCAgent ------------------------------
(***************************************************************************)
(* Instances of the agent loop for TLC.  One tick is one hour, so every    *)
(* window and delay has the value it has in policy.yaml and in the code.   *)
(***************************************************************************)
EXTENDS AgentProperties, TLC

Payment ==
    [source |-> "payment", classes |-> {"AUTH_ABANDON"},
     recoverability |-> "CUSTOMER_RECOVERABLE", amount |-> 10, channels |-> {"sms"},
     contacts_7d |-> 0, opted_out |-> FALSE, min_delay |-> 24, downtime |-> FALSE,
     alternative |-> FALSE, slots_valid |-> TRUE]

\* An invoice is only ever reminded or escalated: the densest source of contacts.
Invoice == [Payment EXCEPT !.source = "invoice", !.classes = {"UNKNOWN"}]

\* A mandate may be debited only after a notice.
Mandate == [Payment EXCEPT !.source = "mandate", !.min_delay = 0]

\* Every kind of candidate; the diagnosis may change between decisions.
Funds == [Payment EXCEPT !.classes = {"FUNDS", "UNKNOWN"}, !.min_delay = 0,
                         !.downtime = TRUE, !.alternative = TRUE]

DeadCard == [Payment EXCEPT !.classes = {"INSTRUMENT_INVALID"}, !.alternative = TRUE]
HighValue == [Payment EXCEPT !.amount = 100]
Unsubscribed == [Payment EXCEPT !.opted_out = TRUE]
Unrenderable == [Invoice EXCEPT !.slots_valid = FALSE]
MerchantBug == [Payment EXCEPT !.recoverability = "MERCHANT_CONFIG", !.amount = 100]
Terminal == [Payment EXCEPT !.recoverability = "TERMINAL", !.classes = {"RISK_DECLINE"}]
ContactedBefore == [Invoice EXCEPT !.contacts_7d = 1]

ContactProfiles == {Invoice}
EpisodeProfiles == {Mandate, DeadCard, Funds, HighValue, Unsubscribed, Unrenderable, MerchantBug,
                    Terminal, ContactedBefore}
LimitProfiles == {Invoice, HighValue}
OneOffset == {0}
DayOffset == {24}
RetryOffsets == {6, 24, 72}
Costs == [ch \in Channels |-> 1]
DayCosts == [ch \in Channels |-> 47]
Attention == [n \in 0..MaxContactsPer7d |-> n * n]
DayAttention == [n \in 0..MaxContactsPer7d |-> n]
Starts == {0, 20}
Symmetry == Permutations(Customers)
=============================================================================
