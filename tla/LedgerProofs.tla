---------------------------- MODULE LedgerProofs ----------------------------
(***************************************************************************)
(* The ledger for any cohort, any number of decisions, processes, repeats  *)
(* and crashes.  Everything but type correctness holds only where the      *)
(* database accepts the triggers.                                          *)
(***************************************************************************)
EXTENDS Ledger, SequenceTheorems, SumProofs

Guarded == LedgerAttached /\ ~TriggersMayFail

USE DEF Guarded

Episodes == [event: Events, seq: 0..(MAX_DECISIONS - 1)]

\* What the steps of an episode need to know of themselves.
EpisodeType ==
    /\ status = "episode" => current \in Episodes
    /\ status = "logging" =>
          /\ pending \in Row /\ pending.run = runs
          /\ pending.event = current.event /\ pending.seq = current.seq
          /\ current \in Episodes
    /\ Running => runs \in 1..MaxRuns

LedgerType == TypeOK /\ EpisodeType

\* The parts of a row.
LEMMA RowParts ==
    ASSUME NEW r \in Row
    PROVE  /\ r.event \in Events /\ r.seq \in 0..(MAX_DECISIONS - 1)
           /\ r.action \in Actions /\ r.run \in 1..MaxRuns
           /\ r.arm \in Arms
BY DEF Row

\* A row that is added at the end is there, after all that were there before.
LEMMA AppendedRows ==
    ASSUME NEW S, NEW s \in Seq(S), NEW r \in S
    PROVE  /\ Append(s, r) \in Seq(S)
           /\ DOMAIN Append(s, r) = DOMAIN s \cup {Len(s) + 1}
           /\ \A i \in DOMAIN s : Append(s, r)[i] = s[i]
           /\ Append(s, r)[Len(s) + 1] = r
           /\ DOMAIN s = 1..Len(s) /\ Len(s) \in Nat
OBVIOUS

\* The first process finds nothing.
LEMMA LedgerInitType == Init => LedgerType
<1> SUFFICES ASSUME Init PROVE LedgerType
    OBVIOUS
<1>1. NothingYet \in [Arms -> [cost: Nat, recovered: Nat]]
    BY DEF NothingYet
<1>2. rows \in Seq(Row) /\ pos \in 0..Len(Cohort) /\ runs \in 0..MaxRuns /\ repeats \in 0..MaxRepeats
    BY CohortAssumption, LedgerAssumption DEF Init
<1> QED
    BY <1>1, <1>2 DEF Init, LedgerType, TypeOK, EpisodeType, Running

\* A start makes everything that is in memory afresh.
LEMMA StartType == LedgerType /\ Start => LedgerType'
BY LedgerAssumption
   DEF LedgerType, TypeOK, EpisodeType, Start, Running, NothingYet, Arms, disk, Row

\* Handing an event over begins an episode of it, or closes it at once.
LEMMA BeginType ==
    ASSUME LedgerType, status = "idle", NEW e \in Events, Begin(e),
           pos' \in 0..Len(Cohort), repeats' \in 0..MaxRepeats
    PROVE  LedgerType'
<1>1. [event |-> e, seq |-> 0] \in Episodes
    BY LedgerAssumption DEF Episodes
<1> QED
    BY <1>1 DEF LedgerType, TypeOK, EpisodeType, Begin, Running, disk, Episodes

\* What a pass charges is a number and its row a row.
LEMMA ActType ==
    ASSUME LedgerType, NEW action \in Actions, NEW got \in BOOLEAN, Act(action, got)
    PROVE  LedgerType'
<1> DEFINE e    == current.event
           cost == IF action = "NUDGE" THEN NudgeCost ELSE 0
           won  == IF got THEN Amount ELSE 0
<1>1. /\ current \in Episodes /\ e \in Events /\ current.seq \in 0..(MAX_DECISIONS - 1)
      /\ runs \in 1..MaxRuns
    BY DEF LedgerType, EpisodeType, Episodes, Act, Running
<1>2. pending' = [event |-> e, seq |-> current.seq, action |-> action, arm |-> Arm[e],
                  cost |-> cost, recovered |-> won, run |-> runs]
    BY DEF Act
<1>3. cost \in {0, NudgeCost} /\ won \in {0, Amount} /\ cost \in Nat /\ won \in Nat
    BY LedgerAssumption
<1>4. Arm[e] \in Arms
    BY <1>1, CohortAssumption
<1>5. pending' \in Row
    BY <1>1, <1>2, <1>3, <1>4 DEF Row
<1>6. /\ pending'.run = runs' /\ pending'.event = current'.event /\ pending'.seq = current'.seq
      /\ current' \in Episodes /\ runs' \in 1..MaxRuns
    BY <1>1, <1>2 DEF Act
<1>7. EpisodeType'
    BY <1>5, <1>6 DEF EpisodeType, Act
<1>8. report' \in [Arms -> [cost: Nat, recovered: Nat]]
    <2> DEFINE Sums == [cost: Nat, recovered: Nat]
               sum  == [cost |-> report[Arm[e]].cost + cost,
                        recovered |-> report[Arm[e]].recovered + won]
    <2>1. report \in [Arms -> Sums]
        BY DEF LedgerType, TypeOK
    <2>2. sum \in Sums
        BY <1>3, <1>4, <2>1
    <2>3. report' = [report EXCEPT ![Arm[e]] = sum]
        BY DEF Act
    <2> HIDE DEF Sums, sum
    <2> QED
        BY <1>4, <2>1, <2>2, <2>3 DEF Sums
<1>9. IdempotencyKey(e, current.seq, action)
          \in Events \X (0..(MAX_DECISIONS - 1)) \X Actions
    BY <1>1 DEF IdempotencyKey
<1>10. /\ seen_keys' \subseteq Events \X (0..(MAX_DECISIONS - 1)) \X Actions
       /\ executed' \subseteq (1..MaxRuns) \X (Events \X (0..(MAX_DECISIONS - 1)) \X Actions)
    <2>1. CASE action = "NUDGE"
        BY <1>1, <1>9, <2>1 DEF LedgerType, TypeOK, Act, SendNudge
    <2>2. CASE action # "NUDGE"
        BY <2>2 DEF LedgerType, TypeOK, Act
    <2> QED
        BY <2>1, <2>2
<1>11. messages' \in Nat
    BY DEF LedgerType, TypeOK, Act
<1> QED
    BY <1>5, <1>6, <1>7, <1>8, <1>10, <1>11 DEF LedgerType, TypeOK, Act, disk, Episodes

\* After its row a pass either ends its episode or goes on with the next decision.
LEMMA GoOnType ==
    ASSUME LedgerType, status = "logging", rows' \in Seq(Row), GoOn
    PROVE  LedgerType'
<1>1. /\ pending \in Row /\ pending.seq = current.seq /\ current \in Episodes
      /\ current.event \in Events /\ current.seq \in 0..(MAX_DECISIONS - 1)
    BY DEF LedgerType, EpisodeType, Episodes
<1>2. CASE status' = "idle" /\ current' = NoEpisode
    BY <1>2 DEF LedgerType, TypeOK, EpisodeType, GoOn, Running
<1>3. CASE MayGoOn(pending) /\ status' = "episode" /\ current' = [current EXCEPT !.seq = @ + 1]
    <2>1. current' \in Episodes
        BY <1>1, <1>3, LedgerAssumption DEF Episodes, MayGoOn
    <2> QED
        BY <1>3, <2>1 DEF LedgerType, TypeOK, EpisodeType, GoOn, Running, Episodes
<1> QED
    BY <1>2, <1>3 DEF GoOn

\* A row that is taken away leaves rows.
LEMMA TamperType == LedgerType /\ Tamper => LedgerType'
<1> SUFFICES ASSUME LedgerType, Tamper PROVE LedgerType'
    OBVIOUS
<1>1. rows \in Seq(Row) /\ rows # <<>>
    BY DEF LedgerType, TypeOK, Tamper
<1>2. SubSeq(rows, 1, Len(rows) - 1) \in Seq(Row)
    BY <1>1
<1>3. rows' \in Seq(Row)
    BY <1>1, <1>2 DEF Tamper
<1> QED
    BY <1>3 DEF LedgerType, TypeOK, EpisodeType, Tamper, Running, process

\* Every step of a process, and of those who stop it, start it or meddle with it.
LEMMA LedgerStepType == LedgerType /\ [Next]_vars => LedgerType'
<1> SUFFICES ASSUME LedgerType, [Next]_vars PROVE LedgerType'
    OBVIOUS
<1>1. CASE Start
    BY <1>1, StartType
<1>2. CASE CreateAll
    BY <1>2 DEF CreateAll, LedgerType, TypeOK, EpisodeType, Running, process
<1>3. CASE InstallTriggers
    BY <1>3 DEF InstallTriggers, LedgerType, TypeOK, EpisodeType, Running
<1>4. CASE NextEvent
    <2>1. pos + 1 \in DOMAIN Cohort /\ Cohort[pos + 1] \in Events
        BY <1>4, CohortAssumption DEF NextEvent, LedgerType, TypeOK, Events
    <2>2. pos' \in 0..Len(Cohort) /\ repeats' \in 0..MaxRepeats
        BY <1>4, <2>1, CohortAssumption DEF NextEvent, LedgerType, TypeOK
    <2> QED
        BY <1>4, <2>1, <2>2, BeginType DEF NextEvent
<1>5. ASSUME NEW i \in DOMAIN Cohort, Repeat(i) PROVE LedgerType'
    <2>1. Cohort[i] \in Events
        BY DEF Events
    <2>2. pos' \in 0..Len(Cohort) /\ repeats' \in 0..MaxRepeats
        BY <1>5, LedgerAssumption DEF Repeat, LedgerType, TypeOK
    <2> QED
        BY <1>5, <2>1, <2>2, BeginType DEF Repeat
<1>6. CASE Finish
    BY <1>6 DEF Finish, LedgerType, TypeOK, EpisodeType, Running, disk
<1>7. ASSUME NEW action \in Actions, NEW got \in BOOLEAN, Act(action, got) PROVE LedgerType'
    BY <1>7, ActType
<1>8. CASE AppendRow
    <2>1. pending \in Row /\ rows \in Seq(Row)
        BY <1>8 DEF AppendRow, LedgerType, TypeOK, EpisodeType
    <2>2. rows' \in Seq(Row)
        BY <1>8, <2>1 DEF AppendRow
    <2> QED
        BY <1>8, <2>2, GoOnType DEF AppendRow
<1>9. CASE AppendRefused
    BY <1>9 DEF AppendRefused, LedgerType, TypeOK, EpisodeType, Running, disk
<1>10. CASE Crash
    BY <1>10 DEF Crash, LedgerType, TypeOK, EpisodeType, Running, disk
<1>11. CASE Tamper
    BY <1>11, TamperType
<1>12. CASE UNCHANGED vars
    BY <1>12 DEF vars, disk, process, LedgerType, TypeOK, EpisodeType, Running
<1> QED
    BY <1>1, <1>2, <1>3, <1>4, <1>5, <1>6, <1>7, <1>8, <1>9, <1>10, <1>11, <1>12
       DEF Next, Step

\* Every row is a row and every process has its place, whatever the database accepts.
LEMMA LedgerTyped == Spec => []LedgerType
BY LedgerInitType, LedgerStepType, PTL DEF Spec

\* Every variable of a run over a ledger keeps its type.
THEOREM LedgerTypeCorrect == Spec => []TypeOK
<1>1. LedgerType => TypeOK
    BY DEF LedgerType
<1> QED
    BY <1>1, LedgerTyped, PTL

-----------------------------------------------------------------------------
(* The triggers are there before the first row. *)

\* A process that has opened the ledger has seen the triggers installed.
OpenedIsGuarded ==
    /\ status \in {"idle", "episode", "logging", "failed", "done"} => schema = "guarded"
    /\ RowsGuarded

\* Whatever is done to a guarded ledger, its rows stay; only a pass that logs adds one.
LEMMA RowsKept ==
    ASSUME LedgerType, RowsGuarded, [Next]_vars
    PROVE  UNCHANGED rows \/ AppendRow
BY DEF Next, Step, vars, disk, process, Start, CreateAll, InstallTriggers, NextEvent, Repeat,
       Begin, Finish, Act, AppendRefused, Crash, Tamper, RowsGuarded

\* No step opens the ledger without its triggers.
LEMMA GuardStep ==
    ASSUME Guarded, LedgerType, OpenedIsGuarded, [Next]_vars
    PROVE  OpenedIsGuarded'
<1> USE DEF OpenedIsGuarded, RowsGuarded, disk, process
<1>1. CASE AppendRow
    BY <1>1 DEF AppendRow, GoOn
<1>2. CASE UNCHANGED rows
    BY <1>2 DEF LedgerType, TypeOK, Next, Step, vars, Start, CreateAll, InstallTriggers,
                NextEvent, Repeat, Begin, Finish, Act, AppendRow, GoOn, AppendRefused, Crash,
                Tamper
<1> QED
    BY <1>1, <1>2, RowsKept

\* The triggers are on disk before any row, in every state a run can reach.
LEMMA LedgerGuarded == Guarded => (Spec => [](LedgerType /\ OpenedIsGuarded))
<1> SUFFICES ASSUME Guarded PROVE Spec => [](LedgerType /\ OpenedIsGuarded)
    OBVIOUS
<1>1. Init => LedgerType /\ OpenedIsGuarded
    BY LedgerInitType DEF Init, OpenedIsGuarded, RowsGuarded
<1>2. LedgerType /\ OpenedIsGuarded /\ [Next]_vars => (LedgerType /\ OpenedIsGuarded)'
    BY LedgerStepType, GuardStep
<1> QED
    BY <1>1, <1>2, PTL DEF Spec

\* Where the database accepts triggers, no row is on disk without them: a crash between
\* the table and its triggers is made good before the next process writes.
THEOREM TriggersFirst == Guarded => (Spec => []RowsGuarded)
<1> SUFFICES ASSUME Guarded PROVE Spec => []RowsGuarded
    OBVIOUS
<1>1. OpenedIsGuarded => RowsGuarded
    BY DEF OpenedIsGuarded
<1> QED
    BY <1>1, LedgerGuarded, PTL

\* A step of the run adds a row under an identity of its own, or leaves the ledger alone.
LEMMA AddsOrLeaves ==
    ASSUME Guarded, LedgerType, RowsGuarded, [Next]_vars
    PROVE  [Abstract!Next]_rows
<1>1. CASE AppendRow
    <2>1. pending \in Row /\ rows' = Append(rows, pending) /\ ~IsLogged(pending)
        BY <1>1 DEF AppendRow, LedgerType, EpisodeType
    <2>2. Abstract!Add(pending)
        BY <2>1 DEF Abstract!Add, Abstract!Id, IsLogged, EntryId
    <2> QED
        BY <2>1, <2>2 DEF Abstract!Next
<1>2. CASE UNCHANGED rows
    BY <1>2
<1> QED
    BY <1>1, <1>2, RowsKept

\* The ledger implements an append-only log: nothing written is changed or taken away and
\* no identity is used twice, whoever writes to the database and whatever crashes.
THEOREM LedgerAppendOnly == Guarded => (Spec => AppendOnlySpec)
<1> SUFFICES ASSUME Guarded PROVE Spec => AppendOnlySpec
    OBVIOUS
<1>1. Init => Abstract!Init
    BY DEF Init, Abstract!Init
<1>2. LedgerType /\ OpenedIsGuarded /\ [Next]_vars => [Abstract!Next]_rows
    BY AddsOrLeaves DEF OpenedIsGuarded
<1> QED
    BY <1>1, <1>2, LedgerGuarded, PTL DEF Spec, AppendOnlySpec, Abstract!Spec

-----------------------------------------------------------------------------
(* What the rows say was done. *)

KeyOf(r) == <<r.run, IdempotencyKey(r.event, r.seq, r.action)>>

\* Everything that a process, its keys, its pass or its rows speak of was carried out, by
\* that process or an earlier one.
NothingInvented ==
    /\ \A x \in executed : x[1] <= runs
    /\ \A k \in seen_keys : <<runs, k>> \in executed
    /\ status = "logging" /\ pending.action = "NUDGE" => KeyOf(pending) \in executed
    /\ \A i \in DOMAIN rows :
          /\ rows[i].run <= runs
          /\ rows[i].action = "NUDGE" => KeyOf(rows[i]) \in executed

\* No step invents a message or forgets one.
LEMMA InventedStep ==
    ASSUME Guarded, LedgerType, RowsGuarded, NothingInvented, [Next]_vars
    PROVE  NothingInvented'
<1> USE DEF NothingInvented, disk, process
<1>1. CASE AppendRow
    <2>1. /\ pending \in Row /\ rows \in Seq(Row) /\ pending.run = runs /\ runs \in Nat
          /\ rows' = Append(rows, pending)
        BY <1>1, LedgerAssumption
           DEF AppendRow, LedgerType, TypeOK, EpisodeType
    <2>2. UNCHANGED <<runs, seen_keys, executed>> /\ status' # "logging"
        BY <1>1 DEF AppendRow, GoOn
    <2>3. \A i \in DOMAIN rows' : rows'[i] = pending \/ (i \in DOMAIN rows /\ rows'[i] = rows[i])
        BY <2>1, AppendedRows
    <2>4. /\ pending.run <= runs
          /\ pending.action = "NUDGE" => KeyOf(pending) \in executed
        BY <1>1, <2>1 DEF AppendRow
    <2> QED
        BY <2>2, <2>3, <2>4 DEF KeyOf
<1>2. ASSUME NEW action \in Actions, NEW got \in BOOLEAN, Act(action, got)
      PROVE  NothingInvented'
    <2>1. /\ runs' = runs /\ rows' = rows /\ runs \in Nat /\ pending'.run = runs
          /\ pending'.action = action
          /\ IdempotencyKey(pending'.event, pending'.seq, action)
                = IdempotencyKey(current.event, current.seq, action)
        BY <1>2, LedgerAssumption DEF Act, LedgerType, TypeOK
    <2>2. CASE action = "NUDGE"
        <3> DEFINE key == IdempotencyKey(current.event, current.seq, action)
        <3>1. seen_keys' = seen_keys \cup {key} /\ <<runs, key>> \in executed'
            BY <1>2, <2>2 DEF Act, SendNudge
        <3>2. executed \subseteq executed' /\ executed' \subseteq executed \cup {<<runs, key>>}
            BY <1>2, <2>2 DEF Act, SendNudge
        <3>3. KeyOf(pending') = <<runs, key>>
            BY <2>1 DEF KeyOf
        <3> QED
            BY <2>1, <3>1, <3>2, <3>3 DEF KeyOf
    <2>3. CASE action # "NUDGE"
        BY <1>2, <2>1, <2>3 DEF Act, KeyOf
    <2> QED
        BY <2>2, <2>3
<1>3. CASE Start
    <2>1. /\ \A x \in executed : x[1] \in Int
          /\ \A i \in DOMAIN rows : rows[i].run \in Int
        BY RowParts, LedgerAssumption DEF LedgerType, TypeOK
    <2>2. runs \in Int /\ runs' = runs + 1 /\ seen_keys' = {} /\ status' # "logging"
          /\ UNCHANGED <<rows, executed>>
        BY <1>3, LedgerAssumption DEF Start, LedgerType, TypeOK
    <2> QED
        BY <2>1, <2>2 DEF KeyOf
<1>4. CASE /\ UNCHANGED <<rows, runs, seen_keys, executed>>
           /\ status' # "logging" \/ UNCHANGED <<status, pending>>
    BY <1>4 DEF KeyOf
<1>5. CASE UNCHANGED rows /\ (CreateAll \/ InstallTriggers \/ NextEvent \/ Finish \/ AppendRefused)
    BY <1>4, <1>5 DEF CreateAll, InstallTriggers, NextEvent, Begin, Finish, AppendRefused
<1>6. CASE UNCHANGED rows /\ (Crash \/ Tamper \/ (\E i \in DOMAIN Cohort : Repeat(i)))
    BY <1>4, <1>6 DEF Repeat, Begin, Crash, Tamper
<1>7. CASE UNCHANGED vars
    BY <1>4, <1>7 DEF vars
<1> QED
    BY <1>1, <1>2, <1>3, <1>5, <1>6, <1>7, RowsKept DEF Next, Step

\* In every reachable state, what is said to have been done was done.
LEMMA NothingIsInvented ==
    Guarded => (Spec => [](LedgerType /\ OpenedIsGuarded /\ NothingInvented))
<1> SUFFICES ASSUME Guarded
             PROVE  Spec => [](LedgerType /\ OpenedIsGuarded /\ NothingInvented)
    OBVIOUS
<1>1. Init => NothingInvented
    BY DEF Init, NothingInvented
<1>2. LedgerType /\ OpenedIsGuarded /\ NothingInvented /\ [Next]_vars => NothingInvented'
    BY InventedStep DEF OpenedIsGuarded
<1> QED
    BY <1>1, <1>2, LedgerGuarded, PTL DEF Spec

\* No row says a message went out that the executor of that run did not carry out, though
\* the agent never looks at the executor's answer.
THEOREM LoggedWasExecuted == Guarded => (Spec => []LoggedMeansExecuted)
<1> SUFFICES ASSUME Guarded PROVE Spec => []LoggedMeansExecuted
    OBVIOUS
<1>1. NothingInvented => LoggedMeansExecuted
    BY DEF NothingInvented, LoggedMeansExecuted, KeyOf
<1> QED
    BY <1>1, NothingIsInvented, PTL

-----------------------------------------------------------------------------
(* One attempt at the cohort per file.  The first row that any process would write is the  *)
(* same, so a second process is refused before it has written one.                         *)

\* The first event that the contract does not close before its first decision.
First(e) ==
    \E k \in DOMAIN Cohort :
        Cohort[k] = e /\ e \notin Silent /\ \A i \in 1..(k - 1) : Cohort[i] \in Silent

OwnRow == \E i \in DOMAIN rows : rows[i].run = runs

\* A process without a row of its own is still before its first row, and that row is on
\* disk if any is.
OneAttempt ==
    /\ RowsOfOneRun
    /\ rows # <<>> => \E i \in DOMAIN rows : First(rows[i].event) /\ rows[i].seq = 0
    /\ ~OwnRow =>
          /\ status \in {"opening", "idle"} => \A i \in 1..pos : Cohort[i] \in Silent
          /\ status \in {"episode", "logging"} => First(current.event) /\ current.seq = 0

\* There is one first event.
LEMMA OneFirst == ASSUME NEW e, NEW f, First(e), First(f) PROVE e = f
<1>1. PICK k \in DOMAIN Cohort :
          Cohort[k] = e /\ e \notin Silent /\ \A i \in 1..(k - 1) : Cohort[i] \in Silent
    BY DEF First
<1>2. PICK l \in DOMAIN Cohort :
          Cohort[l] = f /\ f \notin Silent /\ \A i \in 1..(l - 1) : Cohort[i] \in Silent
    BY DEF First
<1>3. k \in Nat \ {0} /\ l \in Nat \ {0}
    BY CohortAssumption
<1>4. ~(k < l) /\ ~(l < k)
    BY <1>1, <1>2, <1>3
<1> QED
    BY <1>1, <1>2, <1>3, <1>4

\* Handing over the next event leaves a process before its first row.
LEMMA HandedOver ==
    ASSUME LedgerType, status = "idle", \A i \in 1..pos : Cohort[i] \in Silent,
           NextEvent \/ \E i \in DOMAIN Cohort : Repeat(i)
    PROVE  /\ status' = "idle" => \A i \in 1..pos' : Cohort[i] \in Silent
           /\ status' \in {"idle", "episode"}
           /\ status' = "episode" => First(current'.event) /\ current'.seq = 0
<1>1. CASE NextEvent
    <2>1. pos \in Nat /\ pos' = pos + 1 /\ pos + 1 \in DOMAIN Cohort
        BY <1>1, CohortAssumption DEF NextEvent, LedgerType, TypeOK
    <2>2. CASE Cohort[pos + 1] \in Silent
        BY <1>1, <2>1, <2>2 DEF NextEvent, Begin
    <2>3. CASE Cohort[pos + 1] \notin Silent
        <3>1. First(Cohort[pos + 1])
            BY <2>1, <2>3 DEF First
        <3> QED
            BY <1>1, <2>3, <3>1 DEF NextEvent, Begin
    <2> QED
        BY <2>2, <2>3
<1>2. ASSUME NEW i \in DOMAIN Cohort, Repeat(i)
      PROVE  status' = "idle" /\ pos' = pos
    <2>1. i \in 1..pos
        BY <1>2, CohortAssumption DEF Repeat, LedgerType, TypeOK
    <2> QED
        BY <1>2, <2>1 DEF Repeat, Begin
<1> QED
    BY <1>1, <1>2

\* Two processes never write to one file.
LEMMA OneAttemptStep ==
    ASSUME Guarded, LedgerType, RowsGuarded, NothingInvented, OneAttempt, [Next]_vars
    PROVE  OneAttempt'
<1> USE DEF disk, process
<1>1. CASE AppendRow
    <2>1. /\ pending \in Row /\ rows \in Seq(Row) /\ pending.run = runs
          /\ pending.event = current.event /\ pending.seq = current.seq
          /\ rows' = Append(rows, pending) /\ runs' = runs /\ status = "logging"
          /\ \A i \in DOMAIN rows : EntryId(rows[i]) # EntryId(pending)
        BY <1>1 DEF AppendRow, GoOn, IsLogged, LedgerType, TypeOK, EpisodeType
    <2>2. /\ DOMAIN rows' = DOMAIN rows \cup {Len(rows) + 1}
          /\ rows'[Len(rows) + 1] = pending
          /\ \A i \in DOMAIN rows : rows'[i] = rows[i]
        BY <2>1, AppendedRows
    <2>3. OwnRow'
        BY <2>1, <2>2 DEF OwnRow
    <2>4. CASE OwnRow
        <3>1. \A i \in DOMAIN rows : rows[i].run = runs
            BY <2>4 DEF OwnRow, OneAttempt, RowsOfOneRun
        <3>2. RowsOfOneRun'
            BY <2>1, <2>2, <3>1 DEF RowsOfOneRun
        <3>3. \E i \in DOMAIN rows' : First(rows'[i].event) /\ rows'[i].seq = 0
            BY <2>2, <2>4 DEF OneAttempt, OwnRow
        <3> QED
            BY <2>3, <3>2, <3>3 DEF OneAttempt, First
    <2>5. CASE ~OwnRow
        <3>1. First(pending.event) /\ pending.seq = 0
            BY <2>1, <2>5 DEF OneAttempt
        <3>2. rows = <<>>
            BY <2>1, <3>1, OneFirst DEF OneAttempt, EntryId
        <3>3. RowsOfOneRun'
            BY <2>2, <3>2 DEF RowsOfOneRun
        <3>4. \E i \in DOMAIN rows' : First(rows'[i].event) /\ rows'[i].seq = 0
            BY <2>2, <3>1
        <3> QED
            BY <2>3, <3>3, <3>4 DEF OneAttempt, First
    <2> QED
        BY <2>4, <2>5
<1>2. CASE UNCHANGED <<rows, runs, status, pos, current>>
    BY <1>2 DEF OneAttempt, OwnRow, RowsOfOneRun, First
<1>3. CASE UNCHANGED rows /\ Start
    <2>1. status' = "opening" /\ \A i \in 1..pos' : FALSE
        BY <1>3 DEF Start
    <2> QED
        BY <1>3, <2>1 DEF OneAttempt, RowsOfOneRun, First
<1>4. CASE NextEvent \/ \E i \in DOMAIN Cohort : Repeat(i)
    <2>1. status = "idle" /\ UNCHANGED <<rows, runs>>
        BY <1>4 DEF NextEvent, Repeat, Begin
    <2> QED
        BY <1>4, <2>1, HandedOver DEF OneAttempt, OwnRow, RowsOfOneRun, First
<1>5. CASE UNCHANGED <<rows, runs, pos, current>>
           /\ (status' \in {"down", "failed", "done"} \/ (status = "opening" /\ status' = "idle")
               \/ (status = "episode" /\ status' = "logging"))
    BY <1>5 DEF OneAttempt, OwnRow, RowsOfOneRun, First
<1>6. CASE InstallTriggers \/ Finish \/ AppendRefused \/ Crash
    BY <1>5, <1>6 DEF InstallTriggers, Finish, AppendRefused, Crash
<1>7. ASSUME NEW action \in Actions, NEW got \in BOOLEAN, Act(action, got)
      PROVE  OneAttempt'
    <2>1. UNCHANGED <<rows, runs, pos, current>> /\ status = "episode" /\ status' = "logging"
        BY <1>7 DEF Act
    <2> QED
        BY <1>5, <2>1
<1>8. CASE UNCHANGED rows /\ (CreateAll \/ Tamper \/ UNCHANGED vars)
    BY <1>2, <1>8 DEF CreateAll, Tamper, vars
<1> QED
    BY <1>1, <1>3, <1>4, <1>6, <1>7, <1>8, RowsKept DEF Next, Step

\* In every reachable state the rows are those of one attempt.
LEMMA OneAttemptOnly ==
    Guarded => (Spec => [](LedgerType /\ OpenedIsGuarded /\ NothingInvented /\ OneAttempt))
<1> SUFFICES ASSUME Guarded
             PROVE  Spec => [](LedgerType /\ OpenedIsGuarded /\ NothingInvented /\ OneAttempt)
    OBVIOUS
<1>1. Init => OneAttempt
    BY DEF Init, OneAttempt, RowsOfOneRun, OwnRow
<1>2. LedgerType /\ OpenedIsGuarded /\ NothingInvented /\ OneAttempt /\ [Next]_vars
          => OneAttempt'
    BY OneAttemptStep DEF OpenedIsGuarded
<1> QED
    BY <1>1, <1>2, NothingIsInvented, PTL DEF Spec

\* Where the database accepts triggers, two processes never write to one file: a second
\* one is refused at its first row, wherever the first one died.
THEOREM OneAttemptPerFile == Guarded => (Spec => []RowsOfOneRun)
<1> SUFFICES ASSUME Guarded PROVE Spec => []RowsOfOneRun
    OBVIOUS
<1>1. OneAttempt => RowsOfOneRun
    BY DEF OneAttempt
<1> QED
    BY <1>1, OneAttemptOnly, PTL

-----------------------------------------------------------------------------
(* The rows of an event begin with its first decision and miss none. *)

\* The row an episode went on from.
WentOn(r, c) ==
    r.event = c.event /\ r.seq = c.seq - 1 /\ r.run = runs /\ r.recovered = 0

\* A decision that is not the first of its episode has the row of the one before it.
NoneMissing ==
    /\ NoGaps
    /\ status \in {"episode", "logging"} /\ current.seq # 0 =>
          \E j \in DOMAIN rows : WentOn(rows[j], current)

\* An episode that goes on leaves the row behind, and a row is written at most once.
LEMMA NoneMissingStep ==
    ASSUME Guarded, LedgerType, RowsGuarded, NoneMissing, [Next]_vars
    PROVE  NoneMissing'
<1> USE DEF disk, process
<1>1. CASE AppendRow
    <2>1. /\ pending \in Row /\ rows \in Seq(Row) /\ pending.run = runs
          /\ pending.event = current.event /\ pending.seq = current.seq
          /\ current \in Episodes
          /\ rows' = Append(rows, pending) /\ runs' = runs /\ status = "logging"
        BY <1>1 DEF AppendRow, GoOn, LedgerType, TypeOK, EpisodeType
    <2>2. /\ DOMAIN rows' = DOMAIN rows \cup {Len(rows) + 1}
          /\ rows'[Len(rows) + 1] = pending
          /\ \A i \in DOMAIN rows : rows'[i] = rows[i]
          /\ DOMAIN rows = 1..Len(rows) /\ Len(rows) \in Nat
        BY <2>1, AppendedRows
    <2>3. pending.seq # 0 => \E j \in DOMAIN rows : WentOn(rows[j], pending)
        BY <2>1 DEF NoneMissing, WentOn
    <2>4. NoGaps'
        <3>1. ASSUME NEW i \in DOMAIN rows
              PROVE  \/ rows'[i].seq = 0
                     \/ \E j \in 1..(i - 1) :
                           /\ rows'[j].event = rows'[i].event
                           /\ rows'[j].seq = rows'[i].seq - 1
                           /\ rows'[j].run = rows'[i].run /\ rows'[j].recovered = 0
            <4>1. \A j \in 1..(i - 1) : j \in DOMAIN rows /\ rows'[j] = rows[j]
                BY <2>2
            <4> QED
                BY <2>2, <4>1 DEF NoneMissing, NoGaps
        <3>2. \/ pending.seq = 0
              \/ \E j \in 1..Len(rows) :
                    /\ rows'[j].event = pending.event /\ rows'[j].seq = pending.seq - 1
                    /\ rows'[j].run = pending.run /\ rows'[j].recovered = 0
            BY <2>1, <2>2, <2>3 DEF WentOn
        <3>3. (Len(rows) + 1) - 1 = Len(rows)
            BY <2>2
        <3> QED
            BY <2>2, <3>1, <3>2, <3>3 DEF NoGaps
    <2>5. CASE status' = "idle"
        BY <2>4, <2>5 DEF NoneMissing
    <2>6. CASE MayGoOn(pending) /\ current' = [current EXCEPT !.seq = @ + 1]
        <3>1. current'.event = pending.event /\ current'.seq - 1 = pending.seq
            BY <2>1, <2>6 DEF Episodes
        <3>2. WentOn(pending, current')
            BY <2>1, <2>6, <3>1 DEF WentOn, MayGoOn
        <3>3. \E j \in DOMAIN rows' : WentOn(rows'[j], current')
            BY <2>2, <3>2
        <3> QED
            BY <2>1, <2>4, <3>3 DEF NoneMissing, WentOn
    <2> QED
        BY <1>1, <2>5, <2>6 DEF AppendRow, GoOn
<1>2. CASE /\ UNCHANGED <<rows, runs>>
           /\ \/ status' \notin {"episode", "logging"}
              \/ status' = "episode" /\ current'.seq = 0
              \/ status \in {"episode", "logging"} /\ UNCHANGED current
    BY <1>2 DEF NoneMissing, NoGaps, WentOn
<1>3. CASE UNCHANGED rows /\ Start
    BY <1>3 DEF Start, NoneMissing, NoGaps
<1>4. CASE NextEvent
    BY <1>2, <1>4 DEF NextEvent, Begin
<1>5. ASSUME NEW i \in DOMAIN Cohort, Repeat(i) PROVE NoneMissing'
    BY <1>2, <1>5 DEF Repeat, Begin
<1>6. CASE CreateAll \/ InstallTriggers \/ Finish \/ AppendRefused \/ Crash
    BY <1>2, <1>6 DEF CreateAll, InstallTriggers, Finish, AppendRefused, Crash
<1>7. ASSUME NEW action \in Actions, NEW got \in BOOLEAN, Act(action, got)
      PROVE  NoneMissing'
    <2>1. UNCHANGED <<rows, runs, current>> /\ status = "episode"
        BY <1>7 DEF Act
    <2> QED
        BY <1>2, <2>1
<1>8. CASE UNCHANGED rows /\ (Tamper \/ UNCHANGED vars)
    <2>1. UNCHANGED <<rows, runs, status, current>>
        BY <1>8 DEF Tamper, vars
    <2> QED
        BY <2>1 DEF NoneMissing, NoGaps, WentOn
<1> QED
    BY <1>1, <1>3, <1>4, <1>5, <1>6, <1>7, <1>8, RowsKept DEF Next, Step

\* Where the database accepts triggers, the rows of an event are one attempt at it from
\* its first decision on, with none missing and none after the recovery.
THEOREM NoRowMissing == Guarded => (Spec => []NoGaps)
<1> SUFFICES ASSUME Guarded PROVE Spec => []NoGaps
    OBVIOUS
<1>1. Init => NoneMissing
    BY DEF Init, NoneMissing, NoGaps
<1>2. LedgerType /\ OpenedIsGuarded /\ NoneMissing /\ [Next]_vars => NoneMissing'
    BY NoneMissingStep DEF OpenedIsGuarded
<1>3. NoneMissing => NoGaps
    BY DEF NoneMissing
<1> QED
    BY <1>1, <1>2, <1>3, LedgerGuarded, PTL DEF Spec

-----------------------------------------------------------------------------
(* At most one message of a process is without its row. *)

\* While a process lives, only the message of the pass that has acted has no row yet.
LastUnlogged ==
    /\ AtMostOneUnlogged
    /\ \A x \in executed :
          x[1] = runs /\ Running => RowOf(x) \/ (status = "logging" /\ x = KeyOf(pending))

\* A message is carried out only when those before it have their rows.
LEMMA LastUnloggedStep ==
    ASSUME Guarded, LedgerType, RowsGuarded, NothingInvented, LastUnlogged, [Next]_vars
    PROVE  LastUnlogged'
<1> USE DEF disk, process
<1>1. CASE AppendRow
    <2>1. /\ pending \in Row /\ rows \in Seq(Row) /\ pending.run = runs
          /\ rows' = Append(rows, pending) /\ UNCHANGED <<runs, executed>>
          /\ status = "logging"
        BY <1>1 DEF AppendRow, GoOn, LedgerType, TypeOK, EpisodeType
    <2>2. /\ DOMAIN rows' = DOMAIN rows \cup {Len(rows) + 1}
          /\ rows'[Len(rows) + 1] = pending
          /\ \A i \in DOMAIN rows : rows'[i] = rows[i]
        BY <2>1, AppendedRows
    <2>3. \A x : RowOf(x) => RowOf(x)'
        BY <2>2 DEF RowOf
    <2>4. \A x : x = KeyOf(pending) => RowOf(x)'
        BY <2>2 DEF RowOf, KeyOf
    <2>5. \A x \in executed : x[1] = runs => RowOf(x)'
        BY <2>1, <2>3, <2>4 DEF LastUnlogged, Running
    <2> QED
        BY <2>1, <2>3, <2>5 DEF LastUnlogged, AtMostOneUnlogged
<1>2. CASE UNCHANGED <<rows, executed>> /\ (~Running' \/ (Running /\ status # "logging" /\ runs' = runs))
    BY <1>2 DEF LastUnlogged, AtMostOneUnlogged, RowOf
<1>3. CASE UNCHANGED <<rows, executed, runs, status, pending>>
    BY <1>3 DEF LastUnlogged, AtMostOneUnlogged, RowOf, Running
<1>4. CASE UNCHANGED rows /\ Start
    <2>1. \A x \in executed : x[1] \in Int /\ x[1] <= runs
        BY LedgerAssumption DEF LedgerType, TypeOK, NothingInvented
    <2>2. runs' = runs + 1 /\ runs \in Int /\ UNCHANGED <<rows, executed>>
        BY <1>4, LedgerAssumption DEF Start, LedgerType, TypeOK
    <2>3. \A x \in executed' : x[1] # runs'
        BY <2>1, <2>2
    <2> QED
        BY <2>2, <2>3 DEF LastUnlogged, AtMostOneUnlogged, RowOf
<1>5. ASSUME NEW action \in Actions, NEW got \in BOOLEAN, Act(action, got)
      PROVE  LastUnlogged'
    <2> DEFINE key == IdempotencyKey(current.event, current.seq, action)
    <2>1. UNCHANGED <<rows, runs>> /\ status = "episode" /\ status' = "logging"
        BY <1>5 DEF Act
    <2>2. \A x : RowOf(x)' <=> RowOf(x)
        BY <2>1 DEF RowOf
    <2>3. \A x \in executed : x[1] = runs => RowOf(x)
        BY <2>1 DEF LastUnlogged, Running
    <2>4. KeyOf(pending') = <<runs, key>> \/ executed' = executed
        BY <1>5 DEF Act, KeyOf
    <2>5. executed \subseteq executed' /\ executed' \subseteq executed \cup {<<runs, key>>}
        BY <1>5 DEF Act, SendNudge
    <2>6. \A x \in executed' : x \in executed \/ x = KeyOf(pending')
        BY <2>4, <2>5
    <2>7. \A x \in executed' : x[1] = runs => RowOf(x) \/ x = KeyOf(pending')
        BY <2>3, <2>6
    <2>8. \A x \in executed' : x[1] # runs => x \in executed
        BY <2>5
    <2>9. AtMostOneUnlogged'
        BY <2>2, <2>7, <2>8 DEF LastUnlogged, AtMostOneUnlogged
    <2>10. \A x \in executed' :
               x[1] = runs' /\ Running' => RowOf(x)' \/ (status' = "logging" /\ x = KeyOf(pending'))
        BY <2>1, <2>2, <2>7
    <2> QED
        BY <2>9, <2>10 DEF LastUnlogged, KeyOf
<1>6. CASE CreateAll \/ InstallTriggers \/ NextEvent \/ Finish
    BY <1>2, <1>6 DEF CreateAll, InstallTriggers, NextEvent, Begin, Finish, Running
<1>7. ASSUME NEW i \in DOMAIN Cohort, Repeat(i) PROVE LastUnlogged'
    BY <1>2, <1>7 DEF Repeat, Begin, Running
<1>8. CASE AppendRefused \/ Crash
    BY <1>2, <1>8 DEF AppendRefused, Crash, Running
<1>9. CASE UNCHANGED rows /\ (Tamper \/ UNCHANGED vars)
    BY <1>3, <1>9 DEF Tamper, vars
<1> QED
    BY <1>1, <1>4, <1>5, <1>6, <1>7, <1>8, <1>9, RowsKept DEF Next, Step

\* Where the database accepts triggers, every message a process carried out has its row,
\* but for at most one: the last, when it died or was refused before it wrote.
THEOREM OneUnlogged == Guarded => (Spec => []AtMostOneUnlogged)
<1> SUFFICES ASSUME Guarded PROVE Spec => []AtMostOneUnlogged
    OBVIOUS
<1>1. Init => LastUnlogged
    BY DEF Init, LastUnlogged, AtMostOneUnlogged
<1>2. LedgerType /\ OpenedIsGuarded /\ NothingInvented /\ LastUnlogged /\ [Next]_vars
          => LastUnlogged'
    BY LastUnloggedStep DEF OpenedIsGuarded
<1>3. LastUnlogged => AtMostOneUnlogged
    BY DEF LastUnlogged
<1> QED
    BY <1>1, <1>2, <1>3, NothingIsInvented, PTL DEF Spec

-----------------------------------------------------------------------------
(* The report of a run and the rows of its file add up to the same sums. *)

\* What the process has on disk, and what its pass has charged and not yet written.
WrittenCost(a) == IF OwnRow THEN SumOver(Costs, RowsOf(a)) ELSE 0
WrittenRecovery(a) == IF OwnRow THEN SumOver(Recoveries, RowsOf(a)) ELSE 0
HeldCost(a) == IF status = "logging" /\ pending.arm = a THEN pending.cost ELSE 0
HeldRecovery(a) == IF status = "logging" /\ pending.arm = a THEN pending.recovered ELSE 0

\* While a process works, what it reports is what it has written and what it holds; and
\* one that comes to its end without a row has found none.
Reporting == {"opening", "idle", "episode", "logging", "done"}

Reported ==
    /\ status \in Reporting =>
          \A a \in Arms :
              /\ report[a].cost = WrittenCost(a) + HeldCost(a)
              /\ report[a].recovered = WrittenRecovery(a) + HeldRecovery(a)
    /\ status = "done" /\ ~OwnRow => rows = <<>>

\* The columns of the rows are numbers, and finitely many.
LEMMA Columns ==
    ASSUME LedgerType, NEW a
    PROVE  Summable(Costs, RowsOf(a)) /\ Summable(Recoveries, RowsOf(a))
<1>1. rows \in Seq(Row) /\ DOMAIN rows = 1..Len(rows) /\ Len(rows) \in Nat
    BY DEF LedgerType, TypeOK
<1>2. IsFiniteSet(1..Len(rows))
    BY <1>1, FS_Interval
<1>3. IsFiniteSet(RowsOf(a))
    BY <1>1, <1>2, FS_Subset DEF RowsOf
<1>4. \A i \in DOMAIN rows : rows[i].cost \in Int /\ rows[i].recovered \in Int
    <2>1. NudgeCost \in Nat /\ Amount \in Nat
        BY LedgerAssumption
    <2>2. \A r \in Row : r.cost \in Int /\ r.recovered \in Int
        BY <2>1 DEF Row
    <2> QED
        BY <1>1, <2>2
<1> QED
    BY <1>3, <1>4 DEF Summable, Costs, Recoveries, RowsOf

\* A column with one more entry.
LEMMA ColumnGrows ==
    ASSUME NEW f, NEW g, NEW S, Summable(f, S), NEW n, n \notin S, g[n] \in Int,
           \A i \in S : g[i] = f[i]
    PROVE  SumOver(g, S \cup {n}) = SumOver(f, S) + g[n]
<1>1. SumOver(g, S) = SumOver(f, S) /\ SumOver(f, S) \in Int
    BY SumSame, SumInt
<1>2. Summable(g, S)
    BY DEF Summable
<1>3. SumOver(g, S \cup {n}) = g[n] + SumOver(g, S)
    BY <1>2, SumAdd
<1> QED
    BY <1>1, <1>3

\* The rows of an arm after a pass has written its own.
LEMMA SumsAfterRow ==
    ASSUME LedgerType, AppendRow, LedgerAttached, NEW a \in Arms
    PROVE  /\ SumOver(Costs, RowsOf(a))' = SumOver(Costs, RowsOf(a)) + HeldCost(a)
           /\ SumOver(Recoveries, RowsOf(a))' = SumOver(Recoveries, RowsOf(a)) + HeldRecovery(a)
<1> DEFINE n == Len(rows) + 1
<1>1. /\ pending \in Row /\ rows \in Seq(Row) /\ rows' = Append(rows, pending)
      /\ status = "logging"
    BY DEF AppendRow, LedgerType, TypeOK, EpisodeType
<1>2. /\ DOMAIN rows' = DOMAIN rows \cup {n} /\ rows'[n] = pending
      /\ \A i \in DOMAIN rows : rows'[i] = rows[i]
      /\ DOMAIN rows = 1..Len(rows) /\ Len(rows) \in Nat
    BY <1>1, AppendedRows
<1>3. n \notin DOMAIN rows
    BY <1>2
<1>4. pending.cost \in Int /\ pending.recovered \in Int
    BY <1>1, LedgerAssumption DEF Row
<1> HIDE DEF n
<1>5. /\ Costs'[n] = pending.cost /\ Recoveries'[n] = pending.recovered
      /\ \A i \in DOMAIN rows : Costs'[i] = Costs[i] /\ Recoveries'[i] = Recoveries[i]
    BY <1>2 DEF Costs, Recoveries
<1>6. Summable(Costs, RowsOf(a)) /\ Summable(Recoveries, RowsOf(a))
    BY Columns
<1>7. /\ SumOver(Costs, RowsOf(a)) \in Int /\ SumOver(Recoveries, RowsOf(a)) \in Int
    BY <1>6, SumInt
<1>8. RowsOf(a) \subseteq DOMAIN rows
    BY DEF RowsOf
<1>9. CASE pending.arm = a
    <2>1. RowsOf(a)' = RowsOf(a) \cup {n}
        BY <1>2, <1>3, <1>9 DEF RowsOf
    <2>2. SumOver(Costs', RowsOf(a) \cup {n}) = SumOver(Costs, RowsOf(a)) + pending.cost
        BY <1>3, <1>4, <1>5, <1>6, <1>8, ColumnGrows
    <2>3. SumOver(Recoveries', RowsOf(a) \cup {n})
              = SumOver(Recoveries, RowsOf(a)) + pending.recovered
        BY <1>3, <1>4, <1>5, <1>6, <1>8, ColumnGrows
    <2> QED
        BY <1>1, <1>9, <2>1, <2>2, <2>3 DEF HeldCost, HeldRecovery
<1>10. CASE pending.arm # a
    <2>1. RowsOf(a)' = RowsOf(a)
        BY <1>2, <1>3, <1>10 DEF RowsOf
    <2>2. /\ SumOver(Costs', RowsOf(a)) = SumOver(Costs, RowsOf(a))
          /\ SumOver(Recoveries', RowsOf(a)) = SumOver(Recoveries, RowsOf(a))
        BY <1>5, <1>6, <1>8, SumSame
    <2> QED
        BY <1>7, <1>10, <2>1, <2>2 DEF HeldCost, HeldRecovery
<1> QED
    BY <1>9, <1>10

\* Where nothing is written there is nothing to add up.
LEMMA NothingWritten ==
    ASSUME rows = <<>>, NEW a
    PROVE  SumOver(Costs, RowsOf(a)) = 0 /\ SumOver(Recoveries, RowsOf(a)) = 0
<1>1. RowsOf(a) = {}
    BY DEF RowsOf
<1> QED
    BY <1>1, SumEmpty

\* A process that has no row of its own writes to an empty file.
LEMMA FirstRowOfAll ==
    ASSUME Guarded, LedgerType, OneAttempt, AppendRow, ~OwnRow
    PROVE  rows = <<>>
<1>1. /\ pending.event = current.event /\ pending.seq = current.seq
      /\ \A i \in DOMAIN rows : EntryId(rows[i]) # EntryId(pending)
    BY DEF AppendRow, IsLogged, LedgerType, EpisodeType
<1>2. First(pending.event) /\ pending.seq = 0
    BY <1>1 DEF OneAttempt, AppendRow
<1> QED
    BY <1>1, <1>2, OneFirst DEF OneAttempt, EntryId

\* A process comes to its end without a row only where every event is closed at once, and
\* such a cohort leaves no row to any process.
LEMMA EndsWithNone ==
    ASSUME LedgerType, OneAttempt, Finish, ~OwnRow
    PROVE  rows = <<>>
<1>1. \A i \in 1..Len(Cohort) : Cohort[i] \in Silent
    BY DEF OneAttempt, Finish
<1>2. ASSUME NEW e PROVE ~First(e)
    BY <1>1, CohortAssumption DEF First
<1> QED
    BY <1>2 DEF OneAttempt

\* What a pass charges is reported and held until its row is written; nothing else charges.
LEMMA ReportedStep ==
    ASSUME Guarded, LedgerType, RowsGuarded, NothingInvented, OneAttempt, Reported, [Next]_vars
    PROVE  Reported'
<1> USE DEF disk, process
<1>1. CASE AppendRow
    <2>1. /\ status = "logging" /\ status' \in {"idle", "episode"}
          /\ UNCHANGED <<runs, report>>
          /\ rows \in Seq(Row) /\ pending \in Row /\ pending.run = runs
          /\ rows' = Append(rows, pending)
        BY <1>1 DEF AppendRow, GoOn, LedgerType, TypeOK, EpisodeType
    <2>2. OwnRow'
        BY <2>1, AppendedRows DEF OwnRow
    <2>3. \A a \in Arms : /\ WrittenCost(a) = SumOver(Costs, RowsOf(a))
                          /\ WrittenRecovery(a) = SumOver(Recoveries, RowsOf(a))
        BY <1>1, FirstRowOfAll, NothingWritten DEF WrittenCost, WrittenRecovery
    <2>4. ASSUME NEW a \in Arms
          PROVE  /\ report'[a].cost = WrittenCost(a)' + HeldCost(a)'
                 /\ report'[a].recovered = WrittenRecovery(a)' + HeldRecovery(a)'
        <3>1. /\ report[a].cost = SumOver(Costs, RowsOf(a)) + HeldCost(a)
              /\ report[a].recovered = SumOver(Recoveries, RowsOf(a)) + HeldRecovery(a)
            BY <2>1, <2>3 DEF Reported, Reporting
        <3>2. /\ report[a].cost = SumOver(Costs, RowsOf(a))'
              /\ report[a].recovered = SumOver(Recoveries, RowsOf(a))'
            BY <1>1, <3>1, SumsAfterRow
        <3>3. report[a].cost \in Int /\ report[a].recovered \in Int
            BY DEF LedgerType, TypeOK
        <3> QED
            BY <2>1, <2>2, <3>2, <3>3
               DEF WrittenCost, WrittenRecovery, HeldCost, HeldRecovery
    <2> QED
        BY <2>1, <2>4 DEF Reported
<1>2. ASSUME NEW action \in Actions, NEW got \in BOOLEAN, Act(action, got)
      PROVE  Reported'
    <2> DEFINE arm  == Arm[current.event]
               cost == IF action = "NUDGE" THEN NudgeCost ELSE 0
               won  == IF got THEN Amount ELSE 0
    <2>1. /\ UNCHANGED <<rows, runs>> /\ status = "episode" /\ status' = "logging"
          /\ pending'.arm = arm /\ pending'.cost = cost /\ pending'.recovered = won
          /\ report' = [report EXCEPT ![arm] =
                           [cost |-> @.cost + cost, recovered |-> @.recovered + won]]
        BY <1>2 DEF Act
    <2>2. report \in [Arms -> [cost: Nat, recovered: Nat]]
        BY DEF LedgerType, TypeOK
    <2>3. cost \in Nat /\ won \in Nat
        BY LedgerAssumption
    <2> HIDE DEF arm, cost, won
    <2>4. \A a \in Arms :
              /\ report'[a].cost = report[a].cost + (IF arm = a THEN cost ELSE 0)
              /\ report'[a].recovered = report[a].recovered + (IF arm = a THEN won ELSE 0)
        BY <2>1, <2>2, <2>3
    <2>5. \A a \in Arms : /\ report[a].cost = WrittenCost(a)
                          /\ report[a].recovered = WrittenRecovery(a)
        <3> SUFFICES ASSUME NEW a \in Arms
                     PROVE  /\ report[a].cost = WrittenCost(a)
                            /\ report[a].recovered = WrittenRecovery(a)
            OBVIOUS
        <3>1. /\ report[a].cost = WrittenCost(a) + 0
              /\ report[a].recovered = WrittenRecovery(a) + 0
            BY <2>1 DEF Reported, Reporting, HeldCost, HeldRecovery
        <3>2. WrittenCost(a) \in Int /\ WrittenRecovery(a) \in Int
            BY Columns, SumInt DEF WrittenCost, WrittenRecovery
        <3> QED
            BY <3>1, <3>2
    <2>6. \A a \in Arms : /\ WrittenCost(a)' = WrittenCost(a)
                          /\ WrittenRecovery(a)' = WrittenRecovery(a)
        BY <2>1 DEF WrittenCost, WrittenRecovery, OwnRow, Costs, Recoveries, RowsOf
    <2>7. \A a \in Arms : /\ HeldCost(a)' = (IF arm = a THEN cost ELSE 0)
                          /\ HeldRecovery(a)' = (IF arm = a THEN won ELSE 0)
        BY <2>1 DEF HeldCost, HeldRecovery
    <2> QED
        BY <2>1, <2>4, <2>5, <2>6, <2>7 DEF Reported
<1>3. CASE UNCHANGED rows /\ Start
    <2>1. \A i \in DOMAIN rows : rows[i].run \in Int /\ rows[i].run <= runs
        BY RowParts, LedgerAssumption DEF LedgerType, TypeOK, NothingInvented
    <2>2. runs' = runs + 1 /\ runs \in Int /\ status' = "opening" /\ report' = NothingYet
        BY <1>3, LedgerAssumption DEF Start, LedgerType, TypeOK
    <2>3. ~OwnRow'
        BY <1>3, <2>1, <2>2 DEF OwnRow
    <2> QED
        BY <2>2, <2>3
           DEF Reported, WrittenCost, WrittenRecovery, HeldCost, HeldRecovery, NothingYet
<1>4. CASE /\ UNCHANGED <<rows, runs, report>>
           /\ \/ status' \notin Reporting
              \/ status' \in Reporting \ {"logging", "done"} /\ status \in Reporting \ {"logging"}
              \/ UNCHANGED <<status, pending>>
    BY <1>4, ZenonT(40) DEF Reported, Reporting, WrittenCost, WrittenRecovery, HeldCost, HeldRecovery,
                OwnRow, Costs, Recoveries, RowsOf
<1>5. CASE Finish
    <2>1. /\ UNCHANGED <<rows, runs, report>> /\ status = "idle" /\ status' = "done"
        BY <1>5 DEF Finish
    <2>2. ~OwnRow => rows = <<>>
        BY <1>5, EndsWithNone
    <2> QED
        BY <2>1, <2>2
           DEF Reported, Reporting, WrittenCost, WrittenRecovery, HeldCost, HeldRecovery,
               OwnRow, Costs, Recoveries, RowsOf
<1>6. CASE InstallTriggers \/ AppendRefused \/ Crash
    BY <1>4, <1>6 DEF InstallTriggers, AppendRefused, Crash, Reporting
<1>7. CASE NextEvent \/ \E i \in DOMAIN Cohort : Repeat(i)
    BY <1>4, <1>7 DEF NextEvent, Repeat, Begin, Reporting
<1>8. CASE UNCHANGED rows /\ (CreateAll \/ Tamper \/ UNCHANGED vars)
    BY <1>4, <1>8 DEF CreateAll, Tamper, vars
<1> QED
    BY <1>1, <1>2, <1>3, <1>5, <1>6, <1>7, <1>8, RowsKept DEF Next, Step

\* Where the database accepts triggers, a run that gets as far as its report has a ledger
\* that adds up to the same cost and the same recovery, arm by arm, whatever was handed
\* over again and whichever processes died before it.
THEOREM ReportAddsUp == Guarded => (Spec => []ReportMatchesLedger)
<1> SUFFICES ASSUME Guarded PROVE Spec => []ReportMatchesLedger
    OBVIOUS
<1>1. Init => Reported
    BY DEF Init, Reported, Reporting
<1>2. LedgerType /\ OpenedIsGuarded /\ NothingInvented /\ OneAttempt /\ Reported /\ [Next]_vars
          => Reported'
    BY ReportedStep DEF OpenedIsGuarded
<1>3. LedgerType /\ Reported => ReportMatchesLedger
    <2> SUFFICES ASSUME LedgerType, Reported, status = "done"
                 PROVE  Totals = report
        BY DEF ReportMatchesLedger
    <2>1. report \in [Arms -> [cost: Nat, recovered: Nat]]
        BY DEF LedgerType, TypeOK
    <2>2. ASSUME NEW a \in Arms
          PROVE  report[a] = [cost |-> SumOver(Costs, RowsOf(a)),
                              recovered |-> SumOver(Recoveries, RowsOf(a))]
        <3>1. /\ report[a].cost = WrittenCost(a) + 0
              /\ report[a].recovered = WrittenRecovery(a) + 0
            BY DEF Reported, Reporting, HeldCost, HeldRecovery
        <3>2. /\ WrittenCost(a) = SumOver(Costs, RowsOf(a))
              /\ WrittenRecovery(a) = SumOver(Recoveries, RowsOf(a))
            BY NothingWritten DEF Reported, WrittenCost, WrittenRecovery
        <3>3. /\ SumOver(Costs, RowsOf(a)) \in Int /\ SumOver(Recoveries, RowsOf(a)) \in Int
            BY Columns, SumInt
        <3>4. report[a] = [cost |-> report[a].cost, recovered |-> report[a].recovered]
            BY <2>1
        <3> QED
            BY <3>1, <3>2, <3>3, <3>4
    <2> QED
        BY <2>1, <2>2 DEF Totals
<1> QED
    BY <1>1, <1>2, <1>3, OneAttemptOnly, PTL DEF Spec
=============================================================================
