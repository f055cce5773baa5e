------------------------------ MODULE MCIntake ------------------------------
(***************************************************************************)
(* Four webhooks for TLC: two failures, one of them malformed until it is  *)
(* corrected; a late authorisation; and a failure without an id.           *)
(***************************************************************************)
EXTENDS Intake

CONSTANTS failed, fixable, authorised, anonymous

AllWebhooks == {failed, fixable, authorised, anonymous}
Kind4 == [w \in AllWebhooks |-> IF w = authorised THEN "success" ELSE "risk"]
Bodies4 ==
    [w \in AllWebhooks |->
        IF w = fixable THEN {"malformed", "unparsable", "good"}
        ELSE IF w = anonymous THEN {"good", "undated"} ELSE {"good"}]
Identified4 == AllWebhooks \ {anonymous}
=============================================================================
