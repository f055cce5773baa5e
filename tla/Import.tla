------------------------------- MODULE Import -------------------------------
(***************************************************************************)
(* A merchant's own export, row by row (src/ingest/import_file.py): what   *)
(* becomes a risk event, what is rejected with a reason, what ends the     *)
(* program, and what the report says of the rest.  Amounts and margins as  *)
(* written are in thousandths of their unit, times in hours.               *)
(***************************************************************************)
EXTENDS Taxonomy, Sequences, SequencesExt

CONSTANTS
    RowsSeen,          \* bound: the rows that are told apart
    MaxRows,        \* bound
    Currency        \* the currency this deployment is configured for

\* A cell may be empty, a JSON number, a text that reads as a number, as infinity or as none.
Cell(kind, value) == [kind |-> kind, value |-> value]
Blank == Cell("blank", 0)
Cells == [kind: {"blank", "number", "text", "infinite", "iso", "date8", "epoch", "unreadable"},
          value: Int]

\* A JSON list may hold anything; only an object has fields.
NotAnObject == [object |-> FALSE]

FileKinds == {"absent", "csv", "json_list", "json_items", "json_no_rows", "json_scalar",
          "json_malformed"}

ASSUME ImportAssumption ==
    /\ MaxRows \in Nat
    /\ NotAnObject \in RowsSeen
    /\ \A row \in RowsSeen : row.object => {row.amount, row.failed_at, row.margin} \subseteq Cells

VARIABLES
    file,       \* its kind, its rows, whether its amounts are in major units
    next,       \* the row that is read next
    events,     \* risk events normalised, with the row each came from
    errors,     \* rows rejected, with a message
    phase,      \* "open", "rows", "report", "done", "message" or "traceback"
    coverage    \* what coverage_report returned

importVars == <<file, next, events, errors, phase, coverage>>

-----------------------------------------------------------------------------
(* to_risk_event *)

\* Eight digits are a date, at midnight; ten or thirteen an epoch; the rest is ISO.
ParseTime(cell) == IF cell.kind = "date8" THEN 24 * (cell.value \div 24) ELSE cell.value

\* str(row.get(c) or "").strip(): a JSON zero is as good as nothing.
Missing(cell) == cell.kind = "blank" \/ (cell.kind = "number" /\ cell.value = 0)

\* Mutant: the fraction is cut off.
HalfUp_Truncated(thousandths) == thousandths \div 1000

HalfUp(thousandths) ==
    IF thousandths < 0 THEN -((500 - thousandths) \div 1000) ELSE (thousandths + 500) \div 1000

InMinor(value) == IF file.major THEN 100 * value ELSE value

MinorUnits(cell) == HalfUp(InMinor(cell.value))

\* int(float(raw)) cuts off toward zero.
Truncated(thousandths) ==
    IF thousandths < 0 THEN -((-thousandths) \div 1000) ELSE thousandths \div 1000

\* _int; of what is no number it makes the default, of infinity it raises.
IntOr(cell, default) ==
    IF cell.kind \in {"number", "text"} THEN Truncated(cell.value) ELSE default

KnownSource(source) == IF source \in SourceTypes THEN source ELSE "payment"

\* Everything at which to_risk_event raises.
Unusable(row) == row.object =>
    \/ row.event_id = "" \/ Missing(row.amount) \/ Missing(row.failed_at)
    \/ row.currency \notin {"", Currency}
    \/ row.amount.kind \in {"unreadable", "infinite"} \/ MinorUnits(row.amount) < 0
    \/ row.failed_at.kind \in {"unreadable", "infinite"}
    \/ row.margin.kind = "infinite"

ToRiskEvent(row) ==
    [event_id |-> row.event_id, source_type |-> KnownSource(row.source_type),
     amount |-> MinorUnits(row.amount), observed_at |-> ParseTime(row.failed_at),
     error |-> [reason |-> row.reason, source |-> row.error_source],
     margin |-> IntOr(row.margin, 3000)]

-----------------------------------------------------------------------------
(* read_rows and main *)

FitsFile(kind, row) ==
    kind = "csv" => row.object /\ row.amount.kind # "number" /\ row.margin.kind # "number"

HasRows(kind) == kind \in {"csv", "json_list", "json_items"}

NoCoverage == [known |-> 0, unknown |-> 0, no_error |-> 0]

ImportInit ==
    /\ \E kind \in FileKinds, major \in BOOLEAN, rows \in BoundedSeq(RowsSeen, MaxRows) :
          /\ \A i \in DOMAIN rows : FitsFile(kind, rows[i])
          /\ HasRows(kind) \/ rows = <<>>
          /\ file = [kind |-> kind, major |-> major, rows |-> rows]
    /\ next = 1 /\ events = <<>> /\ errors = <<>>
    /\ phase = "open"
    /\ coverage = NoCoverage

\* An absent file, a document without rows or an empty one is told to the user; what
\* json.loads or a scalar document raises is not.
ReadRows ==
    /\ phase = "open"
    /\ phase' = CASE file.kind \in {"absent", "json_no_rows"} -> "message"
                  [] file.kind \in {"json_scalar", "json_malformed"} -> "traceback"
                  [] HasRows(file.kind) -> IF file.rows = <<>> THEN "message" ELSE "rows"
    /\ UNCHANGED <<file, next, events, errors, coverage>>

Row == file.rows[next]
Reading == phase = "rows" /\ next <= Len(file.rows)

NormaliseRow ==
    /\ Reading /\ ~Unusable(Row)
    /\ events' = Append(events, [row |-> next, event |-> ToRiskEvent(Row)])
    /\ next' = next + 1
    /\ UNCHANGED <<file, errors, phase, coverage>>

\* Mutant: a row that raises anything but ImportError_ is passed over.
Reject_ImportErrorOnly ==
    /\ Reading /\ Unusable(Row) /\ Row.object
    /\ errors' = IF Row.failed_at.kind = "unreadable" THEN errors ELSE Append(errors, next)
    /\ next' = next + 1
    /\ UNCHANGED <<file, events, phase, coverage>>

Reject ==
    /\ Reading /\ Unusable(Row) /\ Row.object
    /\ errors' = Append(errors, next)
    /\ next' = next + 1
    /\ UNCHANGED <<file, events, phase, coverage>>

\* The handler names the row by row.get, which is what raised.
HandlerRaises ==
    /\ Reading /\ ~Row.object
    /\ phase' = "traceback"
    /\ UNCHANGED <<file, next, events, errors, coverage>>

\* The rows are through: go on with what there is, or say that there is nothing.
Summarise ==
    /\ phase = "rows" /\ next > Len(file.rows)
    /\ phase' = IF events = <<>> THEN "message" ELSE "report"
    /\ UNCHANGED <<file, next, events, errors, coverage>>

Reason(i) == events[i].event.error.reason

Coverage ==
    [known |-> Cardinality({i \in DOMAIN events : Reason(i) \in Reasons}),
     no_error |-> Cardinality({i \in DOMAIN events : Reason(i) = NoReason}),
     unknown |-> Cardinality({i \in DOMAIN events : Unmapped(events[i].event.error)})]

Report ==
    /\ phase = "report"
    /\ coverage' = Coverage
    /\ phase' = "done"
    /\ UNCHANGED <<file, next, events, errors>>

ImportNext == ReadRows \/ NormaliseRow \/ Reject \/ HandlerRaises \/ Summarise \/ Report

ImportSpec == ImportInit /\ [][ImportNext]_importVars

-----------------------------------------------------------------------------
(* Properties. *)

\* No row is lost without a word: whatever of a file has been read is an event or a
\* rejection, and no row is both or counted twice (main).
EveryRowAccounted ==
    LET read == {events[i].row : i \in DOMAIN events} \cup {errors[i] : i \in DOMAIN errors}
    IN  /\ read = 1..next - 1
        /\ Len(events) + Len(errors) = next - 1

\* In thousandths.
HalfUnit == -500..500
LessThanUnit == -999..999

\* A risk event says what its row says, however the export writes it: the money to half a
\* minor unit (whichever unit the file is in), the day, and the margin where one is declared
\* to less than a basis point, a declared zero included (to_risk_event, _parse_time, _int: a
\* date in eight digits once became a day in 1970, and a margin of zero one of 30%).
EventsMatchRows ==
    \A i \in DOMAIN events :
        LET event == events[i].event
            row   == file.rows[events[i].row]
        IN  /\ 1000 * event.amount - InMinor(row.amount.value) \in HalfUnit
            /\ event.observed_at \div 24 = row.failed_at.value \div 24
            /\ row.margin.kind \in {"number", "text"} =>
                  1000 * event.margin - row.margin.value \in LessThanUnit

-----------------------------------------------------------------------------
(* What the documents say. *)

\* What the provider blames on the business "must not generate customer contact regardless
\* of the reason code" (mapping.py:279-281).  A reason that is not in the table goes to the
\* fallback before anybody looks at whom the provider blames (mapping.py:294-298).
BusinessIsNotCustomers ==
    \A i \in DOMAIN events :
        LET event == events[i].event
        IN  event.error.reason # NoReason /\ event.error.source \in MERCHANT_SOURCES =>
                Classify(event.error, event.source_type).recoverability # "CUSTOMER_RECOVERABLE"
=============================================================================
