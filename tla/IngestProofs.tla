---------------------------- MODULE IngestProofs ----------------------------
(***************************************************************************)
(* The two ways a risk event comes in.  Webhooks: what de-duplication      *)
(* promises, for any set of webhooks, any number of deliveries and         *)
(* restarts.  A merchant's export: what becomes of its rows, for any file  *)
(* of any length.                                                          *)
(***************************************************************************)
EXTENDS Intake, Import, TLAPS

\* What the store says of the past: whatever it remembers was built by this process and
\* is a risk event; nothing that carries an id was built without being remembered.
StoreTruthful ==
    /\ \A w \in seen : Kind[w] = "risk" /\ ever[w] > 0
    /\ \A w \in Identified : built[w] > 0 => w \in seen

IntakeInv == TypeOK /\ StoreTruthful /\ AcceptedOnce /\ NothingSwallowed

\* A process that has just started has remembered and built nothing.
LEMMA IntakeInit == Init => IntakeInv
BY IntakeAssumption
   DEF Init, IntakeInv, TypeOK, StoreTruthful, AcceptedOnce, NothingSwallowed, Nobody

\* A delivery, whatever becomes of it, and a restart preserve the invariant.
LEMMA IntakeStep == IntakeInv /\ [Next]_vars => IntakeInv'
<1> SUFFICES ASSUME IntakeInv, [Next]_vars PROVE IntakeInv'
    OBVIOUS
<1> USE IntakeAssumption DEF IntakeInv, TypeOK
<1>1. ASSUME NEW w \in Webhooks, NEW signed \in BOOLEAN, NEW heard \in BOOLEAN,
             NEW body \in Bodies[w], Deliver(w, body, signed, heard)
      PROVE  IntakeInv'
    <2>1. CASE Rejected(w, signed)
        BY <1>1, <2>1
           DEF Deliver, Rejected, StoreTruthful, AcceptedOnce, NothingSwallowed
    <2>2. CASE Handled(w, body, signed, heard)
        <3> DEFINE outcome == Normalise(w, body)
        <3>1. CASE outcome = "risk_event"
            <4>1. w \notin seen /\ Kind[w] = "risk"
                BY <3>1 DEF Normalise, IsDuplicate, Kinds
            <4>2. /\ seen' = IF w \in Identified THEN seen \cup {w} ELSE seen
                  /\ built' = [built EXCEPT ![w] = @ + 1]
                  /\ ever' = [ever EXCEPT ![w] = @ + 1]
                  /\ stopped' = stopped
                  /\ settled' \in {settled, settled \cup {w}}
                BY <2>2, <3>1 DEF Handled, Remember
            <4>3. TypeOK'
                BY <1>1, <4>2 DEF Deliver
            <4>4. w \in Identified => built[w] = 0
                BY <4>1 DEF StoreTruthful
            <4> QED
                BY <4>1, <4>2, <4>3, <4>4 DEF StoreTruthful, AcceptedOnce, NothingSwallowed
        <3>2. CASE outcome # "risk_event"
            <4>1. /\ UNCHANGED <<seen, built, ever>>
                  /\ stopped' = IF outcome = "stop" THEN stopped \cup {w} ELSE stopped
                  /\ settled' = IF heard /\ Accepted(outcome) THEN settled \cup {w}
                                ELSE settled
                BY <2>2, <3>2 DEF Handled, Remember
            <4>2. TypeOK'
                BY <1>1, <4>1 DEF Deliver
            <4>3. Accepted(outcome) => \/ w \in seen
                                       \/ outcome = "stop" /\ Kind[w] # "risk"
                                       \/ Kind[w] = "unhandled"
                                       \/ Kind[w] = "risk" /\ "undated" \in Bodies[w]
                BY <1>1, <3>2 DEF Accepted, Normalise, IsDuplicate, Kinds
            <4> HIDE DEF outcome
            <4>4. StoreTruthful' /\ AcceptedOnce'
                BY <4>1 DEF StoreTruthful, AcceptedOnce
            <4>5. ASSUME NEW v \in settled'
                  PROVE  /\ Kind[v] = "risk" /\ "undated" \notin Bodies[v] => ever[v] > 0
                         /\ Kind[v] \in {"success", "terminal"} => v \in stopped'
                <5>1. CASE v \in settled
                    BY <4>1, <5>1 DEF NothingSwallowed
                <5>2. CASE v \notin settled
                    <6>1. v = w /\ Accepted(outcome)
                        BY <4>1, <5>2, <4>5
                    <6> QED
                        BY <4>1, <4>3, <6>1 DEF StoreTruthful
                <5> QED
                    BY <5>1, <5>2
            <4> QED
                BY <4>1, <4>2, <4>4, <4>5 DEF NothingSwallowed
        <3> QED
            BY <3>1, <3>2
    <2> QED
        BY <1>1, <2>1, <2>2 DEF Deliver
<1>2. CASE Restart
    BY <1>2 DEF Restart, Nobody, StoreTruthful, AcceptedOnce, NothingSwallowed
<1>3. CASE Idle \/ UNCHANGED vars
    BY <1>3 DEF Idle, vars, StoreTruthful, AcceptedOnce, NothingSwallowed
<1> QED
    BY <1>1, <1>2, <1>3 DEF Next

\* Every variable of the intake keeps its type, however many webhooks arrive and however
\* often the process restarts.
THEOREM IntakeTypeCorrect == Spec => []TypeOK
<1>1. IntakeInv => TypeOK
    BY DEF IntakeInv
<1> QED
    BY IntakeInit, IntakeStep, <1>1, PTL DEF Spec

\* One process builds at most one risk event from each identified webhook
\* (IdempotencyStore and the place of remember() in normalise()).
THEOREM BuiltOnce == Spec => []AcceptedOnce
<1>1. IntakeInv => AcceptedOnce
    BY DEF IntakeInv
<1> QED
    BY IntakeInit, IntakeStep, <1>1, PTL DEF Spec

\* No webhook that Razorpay believes handled was swallowed (normalise() and the status
\* codes of razorpay_webhook()).
THEOREM NoneSwallowed == Spec => []NothingSwallowed
<1>1. IntakeInv => NothingSwallowed
    BY DEF IntakeInv
<1> QED
    BY IntakeInit, IntakeStep, <1>1, PTL DEF Spec

-----------------------------------------------------------------------------
(* The import: every row is read once and in order. *)

\* What a row that can be used becomes.
Usable == {n \in DOMAIN file.rows : ~Unusable(file.rows[n])}
Imported == {[row |-> n, event |-> ToRiskEvent(file.rows[n])] : n \in Usable}

\* The rows before the next one are events or rejections, each once.
RowsRead == 1..(next - 1)
ImportedRows == {events[i].row : i \in DOMAIN events}
RejectedRows == {errors[i] : i \in DOMAIN errors}

ImportInv ==
    /\ file.rows \in Seq(RowsSeen)
    /\ next \in Nat \ {0}
    /\ events \in Seq(Imported) /\ errors \in Seq(Nat)
    /\ ImportedRows \cup RejectedRows = RowsRead
    /\ Len(events) + Len(errors) = next - 1

\* What a row becomes depends on the file alone.
LEMMA SameFile == UNCHANGED file => Imported' = Imported
BY DEF Imported, Usable, Unusable, ToRiskEvent, MinorUnits, InMinor

\* An element added at the end of a sequence.
LEMMA Appended ==
    ASSUME NEW S, NEW s \in Seq(S), NEW r \in S
    PROVE  /\ Append(s, r) \in Seq(S) /\ Len(Append(s, r)) = Len(s) + 1
           /\ Len(s) \in Nat /\ DOMAIN s = 1..Len(s)
           /\ DOMAIN Append(s, r) = DOMAIN s \cup {Len(s) + 1}
           /\ \A i \in DOMAIN s : Append(s, r)[i] = s[i]
           /\ Append(s, r)[Len(s) + 1] = r
OBVIOUS

\* Reading begins with the first row and nothing read.
LEMMA ImportStarts == ImportInit => ImportInv
<1> SUFFICES ASSUME ImportInit PROVE ImportInv
    OBVIOUS
<1>1. PICK kind \in FileKinds, major \in BOOLEAN, rows \in BoundedSeq(RowsSeen, MaxRows) :
          file = [kind |-> kind, major |-> major, rows |-> rows]
    BY DEF ImportInit
<1>2. PICK m \in 0..MaxRows : rows \in [1..m -> RowsSeen]
    BY DEF BoundedSeq, SeqOf
<1>3. rows \in Seq(RowsSeen)
    BY <1>2, ImportAssumption
<1>4. file.rows \in Seq(RowsSeen)
    BY <1>1, <1>3
<1>5. events = <<>> /\ errors = <<>> /\ next = 1
    BY DEF ImportInit
<1>6. ImportedRows \cup RejectedRows = RowsRead
    BY <1>5 DEF ImportedRows, RejectedRows, RowsRead
<1> QED
    BY <1>4, <1>5, <1>6 DEF ImportInv

\* Reading a row makes it an event or a rejection and moves on.
LEMMA ImportStep == ImportInv /\ [ImportNext]_importVars => ImportInv'
<1> SUFFICES ASSUME ImportInv, [ImportNext]_importVars PROVE ImportInv'
    OBVIOUS
<1>1. CASE NormaliseRow
    <2> DEFINE e == [row |-> next, event |-> ToRiskEvent(file.rows[next])]
    <2>1. /\ phase = "rows" /\ phase' = phase /\ next \in DOMAIN file.rows
          /\ next \in Usable /\ next' = next + 1 /\ UNCHANGED <<file, errors>>
          /\ events' = Append(events, e)
        BY <1>1 DEF NormaliseRow, Reading, Row, Usable, ImportInv
    <2>2. e \in Imported /\ e.row = next
        BY <2>1 DEF Imported
    <2> HIDE DEF e
    <2>3. Imported' = Imported
        BY <2>1, SameFile
    <2>4. events \in Seq(Imported)
        BY DEF ImportInv
    <2>5. /\ events' \in Seq(Imported) /\ Len(events') = Len(events) + 1 /\ Len(events) \in Nat
          /\ DOMAIN events' = DOMAIN events \cup {Len(events) + 1}
          /\ \A i \in DOMAIN events : events'[i] = events[i]
          /\ events'[Len(events) + 1] = e
        BY <2>1, <2>2, <2>4, Appended
    <2>6. ImportedRows' = ImportedRows \cup {next}
        BY <2>2, <2>5 DEF ImportedRows
    <2>7. RowsRead' = RowsRead \cup {next}
        BY <2>1 DEF RowsRead, ImportInv
    <2>8. (ImportedRows \cup RejectedRows = RowsRead)'
        BY <2>1, <2>6, <2>7 DEF ImportInv, RejectedRows
    <2>9. Len(errors) \in Nat
        BY DEF ImportInv
    <2> QED
        BY <2>1, <2>3, <2>5, <2>8, <2>9 DEF ImportInv
<1>2. CASE Reject
    <2>1. /\ phase = "rows" /\ phase' = phase /\ next' = next + 1 /\ UNCHANGED <<file, events>>
          /\ errors' = Append(errors, next) /\ next \in Nat \ {0}
        BY <1>2 DEF Reject, Reading, ImportInv
    <2>2. Imported' = Imported
        BY <2>1, SameFile
    <2>3. errors \in Seq(Nat)
        BY DEF ImportInv
    <2>4. /\ errors' \in Seq(Nat) /\ Len(errors') = Len(errors) + 1 /\ Len(errors) \in Nat
          /\ DOMAIN errors' = DOMAIN errors \cup {Len(errors) + 1}
          /\ \A i \in DOMAIN errors : errors'[i] = errors[i]
          /\ errors'[Len(errors) + 1] = next
        BY <2>1, <2>3, Appended
    <2>5. RejectedRows' = RejectedRows \cup {next}
        BY <2>4 DEF RejectedRows
    <2>6. RowsRead' = RowsRead \cup {next}
        BY <2>1 DEF RowsRead
    <2>7. (ImportedRows \cup RejectedRows = RowsRead)'
        BY <2>1, <2>5, <2>6 DEF ImportInv, ImportedRows
    <2>8. Len(events) \in Nat
        BY DEF ImportInv
    <2> QED
        BY <2>1, <2>2, <2>4, <2>7, <2>8 DEF ImportInv
<1>3. CASE UNCHANGED <<file, next, events, errors>>
    <2>1. Imported' = Imported
        BY <1>3, SameFile
    <2> QED
        BY <1>3, <2>1 DEF ImportInv, ImportedRows, RejectedRows, RowsRead
<1>4. CASE ReadRows \/ HandlerRaises \/ Summarise \/ Report \/ UNCHANGED importVars
    BY <1>3, <1>4 DEF ReadRows, HandlerRaises, Summarise, Report, importVars
<1> QED
    BY <1>1, <1>2, <1>4 DEF ImportNext

LEMMA ImportHolds == ImportSpec => []ImportInv
BY ImportStarts, ImportStep, PTL DEF ImportSpec

\* No row of a file is lost without a word (main): whatever has been read is an event or a
\* rejection, and no row is both or counted twice, for any file.
THEOREM NoRowLost == ImportSpec => []EveryRowAccounted
<1>1. ImportInv => EveryRowAccounted
    BY DEF ImportInv, EveryRowAccounted, ImportedRows, RejectedRows, RowsRead
<1> QED
    BY <1>1, ImportHolds, PTL

-----------------------------------------------------------------------------
(* What an event says of its row. *)

\* An event is what ToRiskEvent makes of the row it names, and that row is an object whose
\* cells are cells.
LEMMA EventsRow ==
    ASSUME ImportInv, NEW i \in DOMAIN events
    PROVE  LET row == file.rows[events[i].row]
           IN  /\ events[i].event = ToRiskEvent(row)
               /\ row.amount.value \in Int /\ row.failed_at.value \in Int
               /\ row.margin.value \in Int
<1>1. events[i] \in Imported
    BY DEF ImportInv
<1>2. PICK n \in Usable : events[i] = [row |-> n, event |-> ToRiskEvent(file.rows[n])]
    BY <1>1 DEF Imported
<1> DEFINE row == file.rows[n]
<1>3. row \in RowsSeen /\ row.object
    <2>1. n \in DOMAIN file.rows /\ ~Unusable(row)
        BY DEF Usable
    <2>2. row \in RowsSeen
        BY <2>1 DEF ImportInv
    <2>3. row.object
        BY <2>1, Zenon DEF Unusable
    <2> QED
        BY <2>2, <2>3
<1>4. row.amount \in Cells /\ row.failed_at \in Cells /\ row.margin \in Cells
    BY <1>3, ImportAssumption
<1>5. row.amount.value \in Int /\ row.failed_at.value \in Int /\ row.margin.value \in Int
    BY <1>4 DEF Cells
<1> HIDE DEF row
<1>6. events[i].row = n /\ events[i].event = ToRiskEvent(row)
    BY <1>2 DEF row
<1> QED
    BY <1>5, <1>6 DEF row

\* Rounding to the nearest unit, halves away from nothing.
LEMMA RoundedToHalf ==
    ASSUME NEW m \in Int
    PROVE  1000 * HalfUp(m) - m \in HalfUnit
<1>1. CASE m < 0
    <2> DEFINE q == (500 - m) \div 1000
               r == (500 - m) % 1000
    <2>1. q \in Int /\ r \in 0..999 /\ 500 - m = 1000 * q + r
        OBVIOUS
    <2>2. HalfUp(m) = -q
        BY <1>1 DEF HalfUp
    <2> HIDE DEF q, r
    <2> QED
        BY <2>1, <2>2 DEF HalfUnit
<1>2. CASE ~(m < 0)
    <2> DEFINE q == (m + 500) \div 1000
               r == (m + 500) % 1000
    <2>1. q \in Int /\ r \in 0..999 /\ m + 500 = 1000 * q + r
        OBVIOUS
    <2>2. HalfUp(m) = q
        BY <1>2 DEF HalfUp
    <2> HIDE DEF q, r
    <2> QED
        BY <2>1, <2>2 DEF HalfUnit
<1> QED
    BY <1>1, <1>2

\* Cutting off less than a unit.
LEMMA CutToUnit ==
    ASSUME NEW m \in Int
    PROVE  1000 * Truncated(m) - m \in LessThanUnit
<1>1. CASE m < 0
    <2> DEFINE q == (-m) \div 1000
               r == (-m) % 1000
    <2>1. q \in Int /\ r \in 0..999 /\ -m = 1000 * q + r
        OBVIOUS
    <2>2. Truncated(m) = -q
        BY <1>1 DEF Truncated
    <2> HIDE DEF q, r
    <2> QED
        BY <2>1, <2>2 DEF LessThanUnit
<1>2. CASE ~(m < 0)
    <2> DEFINE q == m \div 1000
               r == m % 1000
    <2>1. q \in Int /\ r \in 0..999 /\ m = 1000 * q + r
        OBVIOUS
    <2>2. Truncated(m) = q
        BY <1>2 DEF Truncated
    <2> HIDE DEF q, r
    <2> QED
        BY <2>1, <2>2 DEF LessThanUnit
<1> QED
    BY <1>1, <1>2

\* A date in eight digits stays on its day.
LEMMA SameDay ==
    ASSUME NEW cell, cell.value \in Int
    PROVE  ParseTime(cell) \div 24 = cell.value \div 24
<1> DEFINE d == cell.value \div 24
<1>1. d \in Int
    OBVIOUS
<1>2. ParseTime(cell) = 24 * d \/ ParseTime(cell) = cell.value
    BY DEF ParseTime
<1> HIDE DEF d
<1>3. (24 * d) \div 24 = d
    BY <1>1
<1> QED
    BY <1>2, <1>3 DEF d

\* A risk event carries the money of its row to half a minor unit, its day and the margin
\* it declares (to_risk_event, _parse_time, _int), whatever the file and however it is
\* written.
THEOREM RowsAreSaid == ImportSpec => []EventsMatchRows
<1>1. ImportInv => EventsMatchRows
    <2> SUFFICES ASSUME ImportInv, NEW i \in DOMAIN events
                 PROVE  LET event == events[i].event
                            row   == file.rows[events[i].row]
                        IN  /\ 1000 * event.amount - InMinor(row.amount.value) \in HalfUnit
                            /\ event.observed_at \div 24 = row.failed_at.value \div 24
                            /\ row.margin.kind \in {"number", "text"} =>
                                  1000 * event.margin - row.margin.value \in LessThanUnit
        BY DEF EventsMatchRows
    <2> DEFINE event == events[i].event
               row   == file.rows[events[i].row]
    <2>1. /\ event = ToRiskEvent(row)
          /\ row.amount.value \in Int /\ row.failed_at.value \in Int /\ row.margin.value \in Int
        BY EventsRow
    <2> HIDE DEF event, row
    <2>2. /\ event.amount = HalfUp(InMinor(row.amount.value))
          /\ event.observed_at = ParseTime(row.failed_at)
          /\ event.margin = IntOr(row.margin, 3000)
        BY <2>1 DEF ToRiskEvent, MinorUnits
    <2>3. InMinor(row.amount.value) \in Int
        BY <2>1 DEF InMinor
    <2>4. 1000 * event.amount - InMinor(row.amount.value) \in HalfUnit
        BY <2>2, <2>3, RoundedToHalf
    <2>5. event.observed_at \div 24 = row.failed_at.value \div 24
        BY <2>1, <2>2, SameDay
    <2>6. row.margin.kind \in {"number", "text"} =>
              1000 * event.margin - row.margin.value \in LessThanUnit
        <3>1. row.margin.kind \in {"number", "text"} => event.margin = Truncated(row.margin.value)
            BY <2>2 DEF IntOr
        <3> QED
            BY <2>1, <3>1, CutToUnit
    <2> QED
        BY <2>4, <2>5, <2>6 DEF event, row
<1> QED
    BY <1>1, ImportHolds, PTL
=============================================================================
