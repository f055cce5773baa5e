------------------------------ MODULE MCImport ------------------------------
(* Instances of Import for TLC.                                            *)
EXTENDS Import

\* 12.345 units on a Tuesday noon.
Good == [object |-> TRUE, event_id |-> "e1", amount |-> Cell("text", 12345),
         failed_at |-> Cell("iso", 36), currency |-> "", reason |-> "insufficient_funds",
         error_source |-> "customer", source_type |-> "payment", margin |-> Blank]

MCRows == {Good, NotAnObject,
           [Good EXCEPT !.amount = Cell("text", 0), !.margin = Cell("text", 0),
                        !.reason = "order_already_paid", !.error_source = "business"],
           [Good EXCEPT !.amount = Cell("number", 0)],
           [Good EXCEPT !.amount = Cell("number", 1996), !.margin = Cell("number", 0),
                        !.error_source = "business"],
           [Good EXCEPT !.amount = Cell("unreadable", 0)],
           [Good EXCEPT !.amount = Cell("text", -400)],
           [Good EXCEPT !.failed_at = Cell("date8", 36), !.reason = "unheard_of",
                        !.error_source = "business", !.margin = Cell("text", -500)],
           [Good EXCEPT !.failed_at = Cell("epoch", 40), !.reason = NoReason,
                        !.source_type = "loan", !.margin = Cell("text", 4000500)],
           [Good EXCEPT !.margin = Cell("infinite", 0)],
           [Good EXCEPT !.failed_at = Cell("unreadable", 0)],
           [Good EXCEPT !.event_id = ""],
           [Good EXCEPT !.currency = "USD"]}
=============================================================================
