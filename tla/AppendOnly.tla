----------------------------- MODULE AppendOnly -----------------------------
(***************************************************************************)
(* What the ledger promises its readers (src/ledger/store.py): rows are    *)
(* added one at a time at the end, an identity is used once, and nothing   *)
(* that was written is changed or taken away.                              *)
(***************************************************************************)
EXTENDS Naturals, Sequences

CONSTANT Row               \* rows, with their event and sequence number

VARIABLE rows

Id(r) == <<r.event, r.seq>>

Init == rows = <<>>

Add(r) ==
    /\ \A i \in DOMAIN rows : Id(rows[i]) # Id(r)
    /\ rows' = Append(rows, r)

Next == \E r \in Row : Add(r)

Spec == Init /\ [][Next]_rows
=============================================================================
