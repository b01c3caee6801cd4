----------------------------- MODULE Schedules -----------------------------
(***************************************************************************)
(* The programmed scans of one organisation: the handlers that edit them,  *)
(* the loop that looks every minute for the ones that are due, the task    *)
(* that runs one, and a restart of the server.                             *)
(*                                                                         *)
(* The instants of a week at which the loop ticks are 0 .. Week - 1, round *)
(* and round.  What the code keeps as a date is kept relative to the       *)
(* current minute: "now", or "before".                                     *)
(***************************************************************************)
EXTENDS Integers, FiniteSets, Functions

CONSTANTS
  Ids,           \* ids of schedules; a free one stands for a new random id
  Tasks,         \* runs under way at the same time
  Requests,      \* requests being handled at the same time
  Week,          \* minutes until the same weekday and hour come round
  New,           \* what users create: rows
  Patches,       \* what users change: sets of fields with their values
  MAX_PER_TENANT,
  MaxRestarts,   \* bound: restarts of the server
  AlwaysOpen,    \* the default organisation: its database opens at the start
  Faults         \* may statements raise?

ASSUME SchedulesAssumption ==
  /\ IsFiniteSet(Ids) /\ IsFiniteSet(Tasks) /\ IsFiniteSet(Requests)
  /\ Week \in Nat \ {0} /\ MAX_PER_TENANT \in Nat \ {0} /\ MaxRestarts \in Nat
  /\ AlwaysOpen \in BOOLEAN /\ Faults \in BOOLEAN

VARIABLES
  rows,          \* table schedules
  open,          \* is the organisation's database open?
  minute,        \* the current minute of the week
  tick,          \* where the loop is, and the rows that were due when it read them
  running,       \* _schedules_running: the keys of the runs under way
  task,          \* the runs under way
  req,           \* the requests under way
  restarts,      \* restarts so far
  ranNow,        \* history: schedules whose run of this minute made a scan
  lost,          \* history: schedules whose run died, or could not write its end
  merged         \* history: schedules changed between the check of a patch and its write

vars == <<rows, open, minute, tick, running, task, req, restarts,
          ranNow, lost, merged>>

\* ssh needs a stored credential, network may have one, other scans none.
Kinds == {"ssh", "network", "web"}
Dates == {"before", "now"}
Row   == [task: Kinds, cred: BOOLEAN, at: SUBSET (0 .. Week - 1),
          enabled: BOOLEAN, last: Dates, status: {"en curso", "other"}]
NoRow == [task |-> "none"]

\* A new row has not been run.  A patch has fields that the form has, validated.
ASSUME InputsAssumption ==
  /\ New \subseteq {row \in Row : row.last = "before" /\ row.status = "other"}
  /\ \A p \in Patches :
       /\ DOMAIN p \subseteq {"task", "cred", "at", "enabled"}
       /\ "task" \in DOMAIN p => p.task \in Kinds
       /\ "cred" \in DOMAIN p => p.cred \in BOOLEAN
       /\ "at" \in DOMAIN p => p.at \subseteq 0 .. Week - 1
       /\ "enabled" \in DOMAIN p => p.enabled \in BOOLEAN

\* scan: the row that create_scan made.  from (history): who started the run, where
\* "stale" is the loop with a row deleted or run since it was read.
Run == [id: Ids, from: {"user", "loop", "stale"}, when: {"before", "now"},
        scan: {"none", "running", "final"},
        pc: {"mark", "create", "run", "end", "notify", "fail", "error", "done"}]
NoRun == [pc |-> "none"]

Request == [pc: {"idle"}] \cup [pc: {"insert"}, row: New] \cup [pc: {"run"}, id: Ids]
             \cup [pc: {"update"}, id: Ids, patch: Patches, seen: Kinds \X BOOLEAN]

TypeOK ==
  /\ rows \in [Ids -> Row \cup {NoRow}]
  /\ open \in BOOLEAN /\ minute \in 0 .. Week - 1
  /\ tick \in [pc: {"asleep", "awake"}] \cup [pc: {"read"}, due: SUBSET Ids]
  /\ running \subseteq Ids
  /\ task \in [Tasks -> Run \cup {NoRun}]
  /\ req \in [Requests -> Request]
  /\ restarts \in 0 .. MaxRestarts
  /\ ranNow \subseteq Ids /\ lost \subseteq Ids /\ merged \subseteq Ids

Idle   == [pc |-> "idle"]
Asleep == [pc |-> "asleep"]

Init ==
  /\ rows = [i \in Ids |-> NoRow]
  /\ open = AlwaysOpen
  /\ minute = 0
  /\ tick = [pc |-> "awake"]
  /\ running = {}
  /\ task = [t \in Tasks |-> NoRun]
  /\ req = [r \in Requests |-> Idle]
  /\ restarts = 0
  /\ ranNow = {} /\ lost = {} /\ merged = {}

Stored  == {i \in Ids : rows[i] # NoRow}
RunsOf(i) == {t \in Tasks : task[t] # NoRun /\ task[t].id = i}

\* An id that nothing remembers.
Fresh(i) ==
  /\ i \notin Stored /\ RunsOf(i) = {}
  /\ \A r \in Requests : req[r].pc \in {"update", "run"} => req[r].id # i
  /\ tick.pc = "read" => i \notin tick.due

Goto(r, next) == req' = [req EXCEPT ![r] = next]
Finish(r) == Goto(r, Idle)

history == <<ranNow, lost, merged>>
world   == <<open, minute, tick, running, task, restarts>>

-----------------------------------------------------------------------------
(* The handlers *)

\* Only a combination that the runner can do.
check_credential(row) ==
  /\ row.task = "ssh" => row.cred
  /\ row.cred => row.task \in {"ssh", "network"}

\* ensure, in tenant_middleware: a visitor of the organisation opens its database.
Visit ==
  /\ ~open
  /\ open' = TRUE
  /\ UNCHANGED <<rows, minute, tick, running, task, req, restarts>>
  /\ UNCHANGED history

\* Mutant: the count is not looked at.
CreateCount_any(r, row) ==
  /\ open /\ req[r] = Idle
  /\ check_credential(row)
  /\ Goto(r, [pc |-> "insert", row |-> row])
  /\ UNCHANGED rows /\ UNCHANGED world /\ UNCHANGED history

\* api_schedules_create: the rows are counted, and the new one inserted.
CreateCount(r, row) ==
  /\ open /\ req[r] = Idle
  /\ check_credential(row)
  /\ Cardinality(Stored) < MAX_PER_TENANT
  /\ Goto(r, [pc |-> "insert", row |-> row])
  /\ UNCHANGED rows /\ UNCHANGED world /\ UNCHANGED history

create_schedule(r, i) ==
  /\ req[r].pc = "insert" /\ Fresh(i)
  /\ rows' = [rows EXCEPT ![i] = req[r].row]
  /\ Finish(r)
  /\ ranNow' = ranNow \ {i} /\ lost' = lost \ {i} /\ merged' = merged \ {i}
  /\ UNCHANGED world

Target(row) == <<row.task, row.cred>>

Patched(row, patch) ==
  [f \in DOMAIN row |-> IF f \in DOMAIN patch THEN patch[f] ELSE row[f]]

\* Mutant: the patch is checked by itself.
UpdateRead_alone(r, i, patch) ==
  /\ open /\ req[r] = Idle /\ i \in Stored
  /\ "task" \in DOMAIN patch => patch.task \in Kinds
  /\ Goto(r, [pc |-> "update", id |-> i, patch |-> patch, seen |-> Target(rows[i])])
  /\ UNCHANGED rows /\ UNCHANGED world /\ UNCHANGED history

\* api_schedules_update: the row is read and, with the patch, checked.
UpdateRead(r, i, patch) ==
  /\ open /\ req[r] = Idle /\ i \in Stored
  /\ DOMAIN patch \cap {"task", "cred"} # {} => check_credential(Patched(rows[i], patch))
  /\ Goto(r, [pc |-> "update", id |-> i, patch |-> patch, seen |-> Target(rows[i])])
  /\ UNCHANGED rows /\ UNCHANGED world /\ UNCHANGED history

\* Mutant: a row deleted meanwhile comes back with what the patch has of it.
update_schedule_upsert(r) ==
  LET i == req[r].id IN
  /\ req[r].pc = "update"
  /\ rows' = [rows EXCEPT ![i] = IF i \in Stored THEN Patched(@, req[r].patch) ELSE req[r].patch]
  /\ Finish(r)
  /\ UNCHANGED world /\ UNCHANGED history

\* Only the fields of the patch are written, if the row is still there.
update_schedule(r) ==
  LET i == req[r].id IN
  /\ req[r].pc = "update"
  /\ rows' = IF i \in Stored THEN [rows EXCEPT ![i] = Patched(@, req[r].patch)] ELSE rows
  /\ merged' = IF i \in Stored /\ Target(rows[i]) # req[r].seen
                 THEN merged \cup {i} ELSE merged
  /\ Finish(r)
  /\ UNCHANGED world /\ UNCHANGED <<ranNow, lost>>

\* api_schedules_delete: a run under way goes on, and finds no row to mark.
delete_schedule(i) ==
  /\ open /\ i \in Stored
  /\ rows' = [rows EXCEPT ![i] = NoRow]
  /\ UNCHANGED req /\ UNCHANGED world /\ UNCHANGED history

-----------------------------------------------------------------------------
(* The loop *)

\* is_due: enabled, in this minute, and not run in it.
is_due(row) ==
  row # NoRow /\ row.enabled /\ minute \in row.at /\ row.last # "now"

\* _start_schedule: the keys go into the running set, the tasks have yet to run.
Start(ids, from) ==
  /\ Cardinality(ids) <= Cardinality({t \in Tasks : task[t] = NoRun})
  /\ running' = running \cup ids
  /\ LET f == CHOOSE f \in Injection(ids, {t \in Tasks : task[t] = NoRun}) : TRUE
         Begun(i) == [id |-> i, from |-> from[i], when |-> "now", scan |-> "none", pc |-> "mark"]
     IN task' = [t \in Tasks |-> IF t \in Range(f)
                  THEN Begun(CHOOSE i \in ids : f[i] = t) ELSE task[t]]

ByUser == [i \in Ids |-> "user"]
ByLoop == [i \in Ids |-> IF i \notin Stored \/ rows[i].last = "now" THEN "stale" ELSE "loop"]

\* list_schedules, unless the organisation is not open: then the error is logged.
TickRead ==
  /\ tick.pc = "awake"
  /\ tick' = IF open THEN [pc |-> "read", due |-> {i \in Ids : is_due(rows[i])}]
                     ELSE Asleep
  /\ UNCHANGED <<rows, open, minute, running, task, req, restarts>>
  /\ UNCHANGED history

\* Mutant: a row that is being run is started again.
TickStart_again ==
  /\ tick.pc = "read"
  /\ Start(tick.due, ByLoop)
  /\ tick' = Asleep
  /\ UNCHANGED <<rows, open, minute, req, restarts>> /\ UNCHANGED history

\* Every row that was due when it was read and has no run under way is started.
TickStart ==
  LET due == tick.due \ running IN
  /\ tick.pc = "read"
  /\ Start(due, ByLoop)
  /\ tick' = Asleep
  /\ UNCHANGED <<rows, open, minute, req, restarts>> /\ UNCHANGED history

\* The timer may fire a little early: a second tick in the same minute.
EarlyTick ==
  /\ tick = Asleep
  /\ tick' = [pc |-> "awake"]
  /\ UNCHANGED <<rows, open, minute, running, task, req, restarts>>
  /\ UNCHANGED history

Older(date) == IF date = "now" THEN "before" ELSE date

\* The next minute, once the tick of this one is over.
Clock ==
  /\ tick = Asleep
  /\ minute' = (minute + 1) % Week
  /\ tick' = [pc |-> "awake"]
  /\ rows' = [i \in Ids |-> IF rows[i] = NoRow THEN NoRow
                            ELSE [rows[i] EXCEPT !.last = Older(@)]]
  /\ task' = [t \in Tasks |-> IF task[t] = NoRun THEN NoRun
                              ELSE [task[t] EXCEPT !.when = Older(@)]]
  /\ ranNow' = {}
  /\ UNCHANGED <<open, running, req, restarts, lost, merged>>

\* api_schedules_run: the row is read; then, unless it is running, a run started.
RunRead(r, i) ==
  /\ open /\ req[r] = Idle /\ i \in Stored
  /\ Goto(r, [pc |-> "run", id |-> i])
  /\ UNCHANGED rows /\ UNCHANGED world /\ UNCHANGED history

RunStart(r) ==
  /\ req[r].pc = "run"
  /\ IF req[r].id \in running THEN UNCHANGED <<running, task>>
                              ELSE Start({req[r].id}, ByUser)
  /\ Finish(r)
  /\ UNCHANGED <<rows, open, minute, tick, restarts>> /\ UNCHANGED history

-----------------------------------------------------------------------------
(* A run: _run_schedule *)

At(t, pc) == task[t].pc = pc
Step(t, pc) == task' = [task EXCEPT ![t].pc = pc]

idle    == <<open, minute, tick, running, req, restarts>>

\* Mutant: the time of the run is not written.
mark_schedule_run_status(t, status) ==
  LET i == task[t].id IN
  rows' = IF i \in Stored THEN [rows EXCEPT ![i].status = status] ELSE rows

\* mark_schedule_run, for a row that is still there.
mark_schedule_run(t, status) ==
  LET i == task[t].id IN
  rows' = IF i \in Stored
            THEN [rows EXCEPT ![i].last = task[t].when, ![i].status = status]
            ELSE rows

\* The start.  If the write raises, the task ends: it is outside the try.
RunMark(t) ==
  /\ At(t, "mark")
  /\ \/ /\ mark_schedule_run(t, "en curso")
        /\ Step(t, "create")
        /\ lost' = lost \ {task[t].id}
     \/ Faults /\ Step(t, "done") /\ UNCHANGED <<rows, lost>>
  /\ UNCHANGED idle /\ UNCHANGED <<ranNow, merged>>

\* If the targets are still within the organisation's scope, a scan is created.
RunCreate(t) ==
  /\ At(t, "create")
  /\ \/ Step(t, "end") /\ UNCHANGED ranNow
     \/ /\ task' = [task EXCEPT ![t].pc = "run", ![t].scan = "running"]
        /\ ranNow' = IF task[t].when = "now" /\ task[t].from # "user"
                       THEN ranNow \cup {task[t].id} ELSE ranNow
  /\ UNCHANGED rows /\ UNCHANGED idle /\ UNCHANGED <<lost, merged>>

\* The runner: the scan gets its final state, or an exception leaves it running.
RunScan(t) ==
  /\ At(t, "run")
  /\ task' = [task EXCEPT ![t].pc = "end", ![t].scan = "final"]
  /\ UNCHANGED rows /\ UNCHANGED idle /\ UNCHANGED history

\* Mutant: a run out of scope ends without a word.
RunEnd_silent(t) ==
  /\ At(t, "end")
  /\ \E pc \in {"notify", "done"} : Step(t, pc)
  /\ IF task[t].scan = "none" THEN UNCHANGED rows ELSE mark_schedule_run(t, "other")
  /\ UNCHANGED idle /\ UNCHANGED history

\* The result, or "out of scope".  A run with critical findings also notifies.
RunEnd(t) ==
  /\ At(t, "end")
  /\ Step(t, "done") \/ (task[t].scan # "none" /\ Step(t, "notify"))
  /\ mark_schedule_run(t, "other")
  /\ UNCHANGED idle /\ UNCHANGED history

RunNotify(t) ==
  /\ At(t, "notify")
  /\ Step(t, "done")
  /\ UNCHANGED rows /\ UNCHANGED idle /\ UNCHANGED history

\* Anything inside the try may raise.
RunRaises(t) ==
  /\ Faults
  /\ task[t].pc \in {"create", "run", "end", "notify"}
  /\ Step(t, IF task[t].scan = "none" THEN "error" ELSE "fail")
  /\ UNCHANGED rows /\ UNCHANGED idle /\ UNCHANGED history

\* Mutant: the scan is left as it is.
RunFail_not(t) ==
  /\ At(t, "fail")
  /\ Step(t, "error")
  /\ UNCHANGED rows /\ UNCHANGED idle /\ UNCHANGED history

\* fail_scan, which may raise in its turn.
RunFail(t) ==
  /\ At(t, "fail")
  /\ \/ /\ task' = [task EXCEPT ![t].pc = "error", ![t].scan = "final"]
        /\ UNCHANGED lost
     \/ Faults /\ Step(t, "done") /\ lost' = lost \cup {task[t].id}
  /\ UNCHANGED rows /\ UNCHANGED idle /\ UNCHANGED <<ranNow, merged>>

\* Mutant: the error is not written.
RunError_silent(t) ==
  /\ At(t, "error")
  /\ Step(t, "done")
  /\ UNCHANGED rows /\ UNCHANGED idle /\ UNCHANGED history

RunError(t) ==
  /\ At(t, "error")
  /\ Step(t, "done")
  /\ \/ mark_schedule_run(t, "other") /\ UNCHANGED lost
     \/ Faults /\ UNCHANGED rows /\ lost' = lost \cup {task[t].id}
  /\ UNCHANGED idle /\ UNCHANGED <<ranNow, merged>>

\* Mutant: the key stays.
RunDone_keeps_key(t) ==
  /\ At(t, "done")
  /\ task' = [task EXCEPT ![t] = NoRun]
  /\ UNCHANGED <<rows, open, minute, tick, running, req, restarts>>
  /\ UNCHANGED history

\* The callback of a finished task takes its key out of the running set.
RunDone(t) ==
  /\ At(t, "done")
  /\ running' = running \ {task[t].id}
  /\ task' = [task EXCEPT ![t] = NoRun]
  /\ UNCHANGED <<rows, open, minute, tick, req, restarts>> /\ UNCHANGED history

-----------------------------------------------------------------------------

\* A statement of a request raises: nothing more is done.
RequestRaises(r) ==
  /\ Faults /\ req[r] # Idle
  /\ Finish(r)
  /\ UNCHANGED rows /\ UNCHANGED world /\ UNCHANGED history

\* The server stops and starts: only the database survives.
Restart ==
  /\ restarts < MaxRestarts
  /\ restarts' = restarts + 1
  /\ open' = AlwaysOpen
  /\ tick' = [pc |-> "awake"]
  /\ running' = {}
  /\ task' = [t \in Tasks |-> NoRun]
  /\ req' = [r \in Requests |-> Idle]
  /\ lost' = lost \cup {task[t].id : t \in {u \in Tasks : task[u] # NoRun}}
  /\ UNCHANGED <<rows, minute, ranNow, merged>>

RunSteps(t) ==
  RunMark(t) \/ RunCreate(t) \/ RunScan(t) \/ RunEnd(t) \/ RunNotify(t)
    \/ RunFail(t) \/ RunError(t) \/ RunDone(t)

RequestSteps(r) ==
  (\E i \in Ids : create_schedule(r, i)) \/ update_schedule(r) \/ RunStart(r)

Next ==
  \/ \E r \in Requests :
       \/ \E row \in New : CreateCount(r, row)
       \/ \E i \in Ids : RunRead(r, i) \/ \E p \in Patches : UpdateRead(r, i, p)
       \/ RequestSteps(r) \/ RequestRaises(r)
  \/ \E i \in Ids : delete_schedule(i)
  \/ \E t \in Tasks : RunSteps(t) \/ RunRaises(t)
  \/ Visit \/ TickRead \/ TickStart \/ EarlyTick \/ Clock \/ Restart

Spec == Init /\ [][Next]_vars

\* asyncio resumes every task whose await completes, timers fire, scanners have time
\* limits, and early ticks do not stop the clock.  No request has to come.
Fairness ==
  /\ WF_vars(TickRead) /\ WF_vars(TickStart) /\ SF_vars(Clock)
  /\ \A t \in Tasks : WF_vars(RunSteps(t))
  /\ \A r \in Requests : WF_vars(RequestSteps(r))

FairSpec == Spec /\ Fairness

-----------------------------------------------------------------------------
(* Properties *)

\* Between the tick, users who start runs by hand and runs that end, no schedule
\* is run twice at a time, and the set of running keys never goes wrong: it has a
\* key exactly as long as there is a run (_schedules_running).
RunningIsTrue ==
  \A i \in Ids : Cardinality(RunsOf(i)) = IF i \in running THEN 1 ELSE 0

\* The loop makes at most one scan per schedule and minute, over early ticks and
\* restarts (is_due, mark_schedule_run).  Only a whole run between the read of a
\* tick and its decision escapes it.
OncePerMinute ==
  [][\A t \in Tasks :
       /\ task[t].pc = "create" /\ task'[t].pc = "run"
       /\ task[t].from = "loop" /\ task[t].when = "now"
       => task[t].id \notin ranNow]_vars

\* What the list shows as "en curso" is being run, unless its run died with the
\* server or the end could not be written (_run_schedule).
InProgressIsTrue ==
  \A i \in Stored : rows[i].status = "en curso" => RunsOf(i) # {} \/ i \in lost

\* No run leaves its scan running, with the same exceptions: every way out of
\* _run_schedule gives it a final state.
ScansGetFinal ==
  [][\A t \in Tasks : task[t] # NoRun /\ task'[t] = NoRun =>
       task[t].scan # "running" \/ task[t].id \in lost']_vars

\* The limit holds but for the creations that were counted at the same time
\* (api_schedules_create).
LimitBounded ==
  Cardinality(Stored) + Cardinality({r \in Requests : req[r].pc = "insert"})
    < MAX_PER_TENANT + Cardinality(Requests)

\* Every stored row can be run: an ssh scan has its credential.  Two updates that
\* are each right about the row they read can make a wrong one together.
RunnableUnlessMerged ==
  \A i \in Stored \ merged : check_credential(rows[i])

\* The set of running keys and the table are what the tick and the handlers take
\* them for, however runs, ticks, edits, errors and restarts interleave.
RowsSound ==
  /\ TypeOK
  /\ RunningIsTrue /\ InProgressIsTrue
  /\ LimitBounded /\ RunnableUnlessMerged

\* A schedule that stays enabled, in an organisation whose database is open, is
\* run again and again (_schedules_loop, _schedules_tick).
RunsAgain ==
  \A i \in Ids : <>[](open /\ i \in Stored /\ rows[i].enabled) => []<>(RunsOf(i) # {})

\* A row does not stay "en curso": the run ends and says how, or it died.
RowsSettle ==
  \A i \in Ids : (i \in Stored /\ rows[i].status = "en curso")
    ~> (i \notin Stored \/ i \in lost \/ rows[i].status # "en curso")

\* A run that begins ends, and says so in its row and in its scan.
Settles == RowsSettle /\ ScansGetFinal

=============================================================================
