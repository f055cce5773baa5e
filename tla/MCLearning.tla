---------------------------- MODULE MCLearning ----------------------------
(* Instances of Learning for TLC: two classes, a nudge now, a retry in a  *)
(* few hours and a human.                                                  *)
EXTENDS Learning

MCSlate == {[action |-> "NO_ACTION", offset |-> 0, direct |-> 0],
            [action |-> "NUDGE", offset |-> 0, direct |-> 25],
            [action |-> "RETRY_SCHEDULED", offset |-> 3, direct |-> 50],
            [action |-> "ESCALATE_HUMAN", offset |-> 0, direct |-> 12000]}

\* int(150 * (n + 1) ** 2.1 + opt_out_probability(n) * 250000)
MCAttention == <<1400, 6386, 15515, 29177, 47695, 71344>>
Attention == [n \in ContactCounts |-> MCAttention[n + 1]]

Opinion(funds) == [c \in Classes |-> IF c = "FUNDS" THEN funds ELSE W - funds]

\* A customer whose hours are known and whose bank is down, about whom a model is asked, and
\* a merchant's own bug with a customer who is known to pay.
MCProfiles ==
    {[class |-> "FUNDS", customer |-> TRUE, consulted |-> TRUE, opinion |-> Opinion(2),
      hours |-> {9}, clears_in |-> 2, recoveries |-> 0, failures |-> 1, value |-> 60000],
     [class |-> "INFRA", customer |-> FALSE, consulted |-> FALSE, opinion |-> Opinion(0),
      hours |-> {}, clears_in |-> 0, recoveries |-> 1, failures |-> 0, value |-> 300000]}
=============================================================================
