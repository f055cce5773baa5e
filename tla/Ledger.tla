------------------------------- MODULE Ledger -------------------------------
(***************************************************************************)
(* What survives a run of the agent and what does not.  The ledger         *)
(* (src/ledger/store.py) is a table on disk with one transaction per row;  *)
(* the executor's idempotency keys (src/act/provider.py), the results and  *)
(* the agent's tallies are in memory.  A run (eval/run_batch.py) opens the *)
(* ledger and hands the cohort's events over one by one; it may die        *)
(* between any two steps and be started again on the same file, and a      *)
(* caller may hand over an event it has handed over before.                *)
(*                                                                         *)
(* A pass of the episode loop is two steps here, because a crash may fall  *)
(* between them: Act carries out the action and charges it, Log appends    *)
(* its row.                                                                *)
(***************************************************************************)
EXTENDS Naturals, Sequences, FiniteSets, Sums

CONSTANTS
    Cohort,                 \* the events, in the order they are handed over
    Arm,                    \* the arm of each event
    Silent,                 \* events the contract closes before their first decision
    MAX_DECISIONS,
    NudgeCost, Amount,      \* what a message costs, what an event is worth
    LedgerAttached,         \* Agent.ledger is not None
    TriggersMayFail,        \* the database may refuse CREATE TRIGGER
    MaxRuns, MaxRepeats     \* bounds: processes, events handed over again

Events == {Cohort[i] : i \in DOMAIN Cohort}
Arms == {"treatment", "holdout"}

ASSUME CohortAssumption ==
    /\ Cohort \in Seq(Events)
    /\ \A i, j \in DOMAIN Cohort : Cohort[i] = Cohort[j] => i = j
    /\ Arm \in [Events -> Arms]
    /\ Silent \subseteq {e \in Events : Arm[e] = "treatment"}

ASSUME LedgerAssumption ==
    /\ MAX_DECISIONS \in Nat \ {0}
    /\ {NudgeCost, Amount, MaxRuns, MaxRepeats} \subseteq Nat
    /\ Amount # 0
    /\ {LedgerAttached, TriggersMayFail} \subseteq BOOLEAN

VARIABLES
    rows,        \* ledger_entries, in the order written: on disk
    schema,      \* "none", "table" (no triggers) or "guarded": on disk
    tampered,    \* history: somebody sent an UPDATE or a DELETE
    runs,        \* number of processes so far
    status,      \* of the current process
    pos,         \* events of the cohort handed over
    repeats,     \* bound: events handed over again
    current,     \* the running episode's event and sequence number
    pending,     \* the row of the pass that has acted
    seen_keys,   \* SimulatedProvider._seen_keys
    messages,    \* messages_sent, over the process's episodes
    report,      \* cost and recovery of the process's episodes, by arm
    executed     \* history: what an executor carried out, by process

disk == <<rows, schema, tampered>>
process == <<status, pos, current, pending, seen_keys, messages, report>>
vars == <<disk, process, runs, repeats, executed>>

Actions == {"NO_ACTION", "NUDGE"}

Row == [event: Events, seq: 0..(MAX_DECISIONS - 1), action: Actions, arm: Arms,
        cost: {0, NudgeCost}, recovered: {0, Amount}, run: 1..MaxRuns]

NoRow == [event |-> "none", seq |-> 0, action |-> "NO_ACTION", arm |-> "holdout",
          cost |-> 0, recovered |-> 0, run |-> 0]
NoEpisode == [event |-> "none", seq |-> 0]

\* entry_id is a function of the event and the sequence number.
EntryId(r) == <<r.event, r.seq>>

\* idempotency_key
IdempotencyKey(event, seq, action) == <<event, seq, action>>

NothingYet == [a \in Arms |-> [cost |-> 0, recovered |-> 0]]

Init ==
    /\ rows = <<>> /\ schema = "none" /\ tampered = FALSE
    /\ runs = 0 /\ repeats = 0 /\ executed = {}
    /\ status = "down" /\ pos = 0
    /\ current = NoEpisode /\ pending = NoRow
    /\ seen_keys = {} /\ messages = 0 /\ report = NothingYet

-----------------------------------------------------------------------------
(* Starting a process and opening the ledger. *)

\* Mutant: the idempotency keys are kept on disk and outlive the process.
Start_KeepsKeys ==
    /\ status \in {"down", "failed", "done"}
    /\ runs < MaxRuns
    /\ runs' = runs + 1
    /\ status' = IF LedgerAttached THEN "opening" ELSE "idle"
    /\ pos' = 0 /\ current' = NoEpisode /\ pending' = NoRow
    /\ messages' = 0 /\ report' = NothingYet
    /\ UNCHANGED <<disk, repeats, executed, seen_keys>>

\* Everything in memory starts afresh.
Start ==
    /\ status \in {"down", "failed", "done"}
    /\ runs < MaxRuns
    /\ runs' = runs + 1
    /\ status' = IF LedgerAttached THEN "opening" ELSE "idle"
    /\ pos' = 0 /\ current' = NoEpisode /\ pending' = NoRow
    /\ seen_keys' = {} /\ messages' = 0 /\ report' = NothingYet
    /\ UNCHANGED <<disk, repeats, executed>>

CreateAll ==
    /\ status = "opening" /\ schema = "none"
    /\ schema' = "table"
    /\ UNCHANGED <<rows, tampered, process, runs, repeats, executed>>

\* Every exception of CREATE TRIGGER is swallowed.
InstallTriggers ==
    /\ status = "opening" /\ schema # "none"
    /\ schema' \in {"guarded"} \cup (IF TriggersMayFail THEN {schema} ELSE {})
    /\ status' = "idle"
    /\ UNCHANGED <<rows, tampered, pos, current, pending, seen_keys, messages, report,
                   runs, repeats, executed>>

-----------------------------------------------------------------------------
(* Handing events over. *)

Begin(e) ==
    /\ status' = IF e \in Silent THEN "idle" ELSE "episode"
    /\ current' = IF e \in Silent THEN current ELSE [event |-> e, seq |-> 0]
    /\ UNCHANGED <<disk, runs, pending, seen_keys, messages, report, executed>>

NextEvent ==
    /\ status = "idle" /\ pos < Len(Cohort)
    /\ pos' = pos + 1
    /\ Begin(Cohort[pos + 1])
    /\ UNCHANGED repeats

\* A webhook redelivered under another id gives a risk event of the same event_id.
Repeat(i) ==
    /\ status = "idle" /\ i <= pos /\ repeats < MaxRepeats
    /\ repeats' = repeats + 1
    /\ Begin(Cohort[i])
    /\ UNCHANGED pos

Finish ==
    /\ status = "idle" /\ pos = Len(Cohort)
    /\ status' = "done"
    /\ UNCHANGED <<disk, runs, repeats, pos, current, pending, seen_keys, messages, report,
                   executed>>

-----------------------------------------------------------------------------
(* One pass of the episode loop. *)

\* SimulatedProvider.send_nudge: a key it has seen is refused.
SendNudge(key) ==
    /\ seen_keys' = seen_keys \cup {key}
    /\ executed' = IF key \in seen_keys THEN executed ELSE executed \cup {<<runs, key>>}

\* The answer of send_nudge is not looked at: the message is counted and charged.
Act(action, got) ==
    LET e    == current.event
        cost == IF action = "NUDGE" THEN NudgeCost ELSE 0
        won  == IF got THEN Amount ELSE 0
    IN  /\ status = "episode"
        /\ action = "NUDGE" => Arm[e] = "treatment"
        /\ IF action = "NUDGE"
           THEN /\ SendNudge(IdempotencyKey(e, current.seq, action))
                /\ messages' = messages + 1
           ELSE UNCHANGED <<seen_keys, executed, messages>>
        /\ report' = [report EXCEPT ![Arm[e]] =
                         [cost |-> @.cost + cost, recovered |-> @.recovered + won]]
        /\ pending' = [event |-> e, seq |-> current.seq, action |-> action,
                       arm |-> Arm[e], cost |-> cost, recovered |-> won, run |-> runs]
        /\ status' = "logging"
        /\ UNCHANGED <<disk, runs, repeats, pos, current>>

\* The episode ends when the money is in or the decisions are spent; a treated one also
\* when the contract closes it.
MayEnd(r) == r.recovered # 0 \/ r.seq = MAX_DECISIONS - 1 \/ r.arm = "treatment"
MayGoOn(r) == r.recovered = 0 /\ r.seq < MAX_DECISIONS - 1

GoOn ==
    /\ \/ MayEnd(pending) /\ status' = "idle" /\ current' = NoEpisode
       \/ MayGoOn(pending) /\ status' = "episode" /\ current' = [current EXCEPT !.seq = @ + 1]
    /\ pending' = NoRow
    /\ UNCHANGED <<schema, tampered, runs, repeats, pos, seen_keys, messages, report, executed>>

IsLogged(r) == \E i \in DOMAIN rows : EntryId(rows[i]) = EntryId(r)

\* Mutant: INSERT OR IGNORE.
AppendRow_OrIgnore ==
    /\ status = "logging"
    /\ rows' = IF IsLogged(pending) THEN rows ELSE Append(rows, pending)
    /\ GoOn

\* Mutant: the identity of a row is drawn at random.
AppendRow_RandomId ==
    /\ status = "logging"
    /\ rows' = Append(rows, pending)
    /\ GoOn

\* _log and Ledger.append
AppendRow ==
    /\ status = "logging"
    /\ LedgerAttached => ~IsLogged(pending)
    /\ rows' = IF LedgerAttached THEN Append(rows, pending) ELSE rows
    /\ GoOn

\* The primary key exists: IntegrityError leaves run_episode and ends the run.
AppendRefused ==
    /\ status = "logging" /\ LedgerAttached /\ IsLogged(pending)
    /\ status' = "failed"
    /\ UNCHANGED <<disk, runs, repeats, pos, current, pending, seen_keys, messages, report,
                   executed>>

-----------------------------------------------------------------------------
(* The environment. *)

Running == status \in {"opening", "idle", "episode", "logging"}

Crash ==
    /\ Running
    /\ status' = "down"
    /\ UNCHANGED <<disk, runs, repeats, pos, current, pending, seen_keys, messages, report,
                   executed>>

\* Mutant: the triggers refuse UPDATE only, and a row is deleted.
Tamper_DeleteAllowed ==
    /\ rows # <<>>
    /\ rows' = SubSeq(rows, 1, Len(rows) - 1)
    /\ tampered' = TRUE
    /\ UNCHANGED <<schema, process, runs, repeats, executed>>

\* Another client of the database tries to take a row away.
Tamper ==
    /\ rows # <<>>
    /\ rows' = IF schema = "guarded" THEN rows ELSE SubSeq(rows, 1, Len(rows) - 1)
    /\ tampered' = TRUE
    /\ UNCHANGED <<schema, process, runs, repeats, executed>>

Step ==
    \/ CreateAll \/ InstallTriggers
    \/ NextEvent \/ Finish
    \/ \E action \in Actions, got \in BOOLEAN : Act(action, got)
    \/ AppendRow \/ AppendRefused

Next == Step \/ Start \/ (\E i \in DOMAIN Cohort : Repeat(i)) \/ Crash \/ Tamper

Spec == Init /\ [][Next]_vars

-----------------------------------------------------------------------------
(* Read paths and properties. *)

Costs == [i \in DOMAIN rows |-> rows[i].cost]
Recoveries == [i \in DOMAIN rows |-> rows[i].recovered]
RowsOf(a) == {i \in DOMAIN rows : rows[i].arm = a}

\* Ledger.totals: what the file says each arm cost and recovered.
Totals == [a \in Arms |-> [cost |-> SumOver(Costs, RowsOf(a)),
                           recovered |-> SumOver(Recoveries, RowsOf(a))]]

TypeOK ==
    /\ rows \in Seq(Row)
    /\ schema \in {"none", "table", "guarded"}
    /\ tampered \in BOOLEAN
    /\ runs \in 0..MaxRuns /\ repeats \in 0..MaxRepeats
    /\ status \in {"down", "opening", "idle", "episode", "logging", "failed", "done"}
    /\ pos \in 0..Len(Cohort)
    /\ current \in [event: Events, seq: 0..(MAX_DECISIONS - 1)] \cup {NoEpisode}
    /\ pending \in Row \cup {NoRow}
    /\ seen_keys \subseteq Events \X (0..(MAX_DECISIONS - 1)) \X Actions
    /\ executed \subseteq (1..MaxRuns) \X (Events \X (0..(MAX_DECISIONS - 1)) \X Actions)
    /\ messages \in Nat
    /\ report \in [Arms -> [cost: Nat, recovered: Nat]]

\* Whatever crashes and whoever writes to the database, the log only grows, and no event
\* has two rows of one sequence number (store.py:40, store.py:54-61).
Abstract == INSTANCE AppendOnly
AppendOnlySpec == Abstract!Spec

\* A row is on disk only under its triggers, where the database accepts them: a crash
\* between the table and the triggers is made good by the next process before it writes
\* (store.py:91-106).
RowsGuarded == rows # <<>> => schema = "guarded"

\* The rows of an event are those of one attempt at it, from its first decision on with
\* none missing, and none after the one that brought the money (agent.py:782).
NoGaps ==
    \A i \in DOMAIN rows :
        \/ rows[i].seq = 0
        \/ \E j \in 1..(i - 1) :
              /\ rows[j].event = rows[i].event /\ rows[j].seq = rows[i].seq - 1
              /\ rows[j].run = rows[i].run /\ rows[j].recovered = 0

\* Rows of two runs never stand in one file: a second run over a file that holds rows is
\* refused at its first row, whatever the first run had reached (store.py:127).
RowsOfOneRun == \A i, j \in DOMAIN rows : rows[i].run = rows[j].run

\* A message that was carried out has its row, but for one a run: the last, when the
\* process died or was refused before it wrote (agent.py:549, agent.py:602).
RowOf(x) == \E i \in DOMAIN rows :
                /\ rows[i].run = x[1]
                /\ IdempotencyKey(rows[i].event, rows[i].seq, rows[i].action) = x[2]

AtMostOneUnlogged ==
    LedgerAttached =>
        \A x, y \in executed : x[1] = y[1] /\ ~RowOf(x) /\ ~RowOf(y) => x = y

\* No row says a message went out that the executor did not carry out in that run
\* (agent.py:549: its answer is not looked at).
LoggedMeansExecuted ==
    \A i \in DOMAIN rows : rows[i].action = "NUDGE" =>
        <<rows[i].run, IdempotencyKey(rows[i].event, rows[i].seq, "NUDGE")>> \in executed

\* A run that gets as far as its report has a ledger that adds up to the same numbers, arm
\* by arm (run_batch.py:124-136, store.py:162).
ReportMatchesLedger == status = "done" /\ LedgerAttached => Totals = report

-----------------------------------------------------------------------------
(* What the documents say. *)

\* store.py:3-5 promises "append-only enforced at the DB layer", that "UPDATE and DELETE are
\* refused by database triggers".  Every exception of CREATE TRIGGER is passed over, though,
\* so a database that will not have the triggers is written to without them
\* (store.py:101-108).
RewriteRefused ==
    [][\A i \in DOMAIN rows : i \in DOMAIN rows' /\ rows'[i] = rows[i]]_vars
=============================================================================
