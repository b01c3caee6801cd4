-------------------------- MODULE SchedulesProofs --------------------------
(***************************************************************************)
(* Proofs about the schedules of one organisation, for any number of       *)
(* schedules, runs and requests under way, restarts and minutes in a week: *)
(* the table and the running set agree with the runs (RowsSound), the loop *)
(* makes one scan per schedule and minute (OncePerMinute), and no run that *)
(* ends leaves its scan running (ScansGetFinal).                           *)
(*                                                                         *)
(* None of the three is inductive.  What a run may leave in its row and in *)
(* its scan depends on where it is (RunSound), two runs of one schedule    *)
(* would spoil each other's (RunsApart), and a request between its read    *)
(* and its write keeps what the read found out (RequestSound).             *)
(***************************************************************************)
EXTENDS Schedules, FiniteSetTheorems, TLAPS

-----------------------------------------------------------------------------
(* The invariant *)

\* A key per run, and a run per key: no two runs have one id.
RunsApart ==
  /\ \A i \in Ids : i \in running <=> \E t \in Tasks : task[t] # NoRun /\ task[t].id = i
  /\ \A t, u \in Tasks :
       task[t] # NoRun /\ task[u] # NoRun /\ task[t].id = task[u].id => t = u

InProgress(i) == rows[i] # NoRow /\ rows[i].status = "en curso"

\* The state of the scan at each step of the run.
ScanSound(run) ==
  /\ run.pc \in {"mark", "create"} => run.scan = "none"
  /\ run.pc = "run" => run.scan = "running"
  /\ run.pc = "end" => run.scan \in {"none", "final"}
  /\ run.pc = "notify" => run.scan = "final"
  /\ run.pc = "error" => run.scan # "running"
  /\ run.pc = "done" => run.scan # "running" \/ run.id \in lost

\* Before it marks its row and after it has, the run is not what a row "en curso"
\* waits for.
MarkSound(run) ==
  run.pc \in {"mark", "notify", "done"} /\ InProgress(run.id) => run.id \in lost

\* A run of the loop is the first one of the minute, until it makes its scan.
MinuteSound(run) ==
  /\ run.when = "before" => run.id \notin ranNow
  /\ run.from = "loop" /\ run.when = "now" /\ run.pc \in {"mark", "create"}
       => run.id \notin ranNow
  /\ run.pc = "create" /\ run.when = "now" /\ rows[run.id] # NoRow
       => rows[run.id].last = "now"

RunSound(run) == ScanSound(run) /\ MarkSound(run) /\ MinuteSound(run)

\* What is inserted was checked; and a patch was, with the row it was read for.
RequestSound(q) ==
  /\ q.pc = "insert" => check_credential(q.row)
  /\ q.pc = "update" /\ DOMAIN q.patch \cap {"task", "cred"} # {}
       => \A row \in Row : Target(row) = q.seen => check_credential(Patched(row, q.patch))

\* The schedules that made a scan in this minute are no longer due in it.
RanIsMarked == \A i \in ranNow : rows[i] # NoRow => rows[i].last = "now"

Structure == TypeOK /\ RunsApart

Sound ==
  /\ \A t \in Tasks : task[t] # NoRun => RunSound(task[t])
  /\ \A r \in Requests : RequestSound(req[r])
  /\ RanIsMarked /\ InProgressIsTrue /\ RunnableUnlessMerged

SchedulesInv == Structure /\ Sound /\ LimitBounded

-----------------------------------------------------------------------------
(* Records *)

\* A run is no empty slot, and its fields have their types.
LEMMA RunFields ==
  \A run \in Run :
    /\ run # NoRun /\ run.id \in Ids
    /\ run.pc \in {"mark", "create", "run", "end", "notify", "fail", "error", "done"}
    /\ run.scan \in {"none", "running", "final"}
    /\ run.from \in {"user", "loop", "stale"} /\ run.when \in Dates
<1>1. SUFFICES ASSUME NEW run \in Run PROVE
        /\ run # NoRun /\ run.id \in Ids
        /\ run.pc \in {"mark", "create", "run", "end", "notify", "fail", "error", "done"}
        /\ run.scan \in {"none", "running", "final"}
        /\ run.from \in {"user", "loop", "stale"} /\ run.when \in Dates
  OBVIOUS
<1>2. /\ run.id \in Ids
      /\ run.pc \in {"mark", "create", "run", "end", "notify", "fail", "error", "done"}
      /\ run.scan \in {"none", "running", "final"}
      /\ run.from \in {"user", "loop", "stale"} /\ run.when \in Dates
  BY DEF Run, Dates
<1>3. run # NoRun
  <2>1. NoRun.pc = "none"
    BY DEF NoRun
  <2> QED BY <1>2, <2>1
<1> QED BY <1>2, <1>3

\* A row is no missing row, and its fields have their types.
LEMMA RowFields ==
  \A row \in Row :
    /\ row # NoRow /\ row.task \in Kinds /\ row.cred \in BOOLEAN
    /\ row.last \in Dates /\ row.status \in {"en curso", "other"}
<1>1. SUFFICES ASSUME NEW row \in Row PROVE
        /\ row # NoRow /\ row.task \in Kinds /\ row.cred \in BOOLEAN
        /\ row.last \in Dates /\ row.status \in {"en curso", "other"}
  OBVIOUS
<1>2. /\ row.task \in Kinds /\ row.cred \in BOOLEAN
      /\ row.last \in Dates /\ row.status \in {"en curso", "other"}
  BY DEF Row
<1>3. NoRow.task = "none" /\ "none" \notin Kinds
  BY DEF NoRow, Kinds
<1> QED BY <1>2, <1>3

\* What a request keeps at each of its states.
LEMMA RequestFields ==
  /\ Idle \in Request /\ Idle.pc = "idle"
  /\ \A row \in New : [pc |-> "insert", row |-> row] \in Request
  /\ \A i \in Ids : [pc |-> "run", id |-> i] \in Request
  /\ \A i \in Ids, p \in Patches, s \in Kinds \X BOOLEAN :
       [pc |-> "update", id |-> i, patch |-> p, seen |-> s] \in Request
  /\ \A q \in Request :
       /\ q.pc \in {"idle", "insert", "run", "update"}
       /\ q.pc = "insert" => q.row \in New
       /\ q.pc = "run" => q.id \in Ids
       /\ q.pc = "update" =>
            q.id \in Ids /\ q.patch \in Patches /\ q.seen \in Kinds \X BOOLEAN
BY DEF Request, Idle

\* The write of a patch leaves the fields that the runs write, and makes a row.
LEMMA PatchedFields ==
  ASSUME NEW row \in Row, NEW p \in Patches
  PROVE  /\ Patched(row, p) \in Row
         /\ Patched(row, p).last = row.last /\ Patched(row, p).status = row.status
         /\ Patched(row, p).task = IF "task" \in DOMAIN p THEN p.task ELSE row.task
         /\ Patched(row, p).cred = IF "cred" \in DOMAIN p THEN p.cred ELSE row.cred
<1>1. DOMAIN row = {"task", "cred", "at", "enabled", "last", "status"}
  BY DEF Row
<1>2. /\ DOMAIN p \subseteq {"task", "cred", "at", "enabled"}
      /\ "task" \in DOMAIN p => p.task \in Kinds
      /\ "cred" \in DOMAIN p => p.cred \in BOOLEAN
      /\ "at" \in DOMAIN p => p.at \subseteq 0 .. Week - 1
      /\ "enabled" \in DOMAIN p => p.enabled \in BOOLEAN
  BY InputsAssumption
<1>3. /\ Patched(row, p).task = IF "task" \in DOMAIN p THEN p.task ELSE row.task
      /\ Patched(row, p).cred = IF "cred" \in DOMAIN p THEN p.cred ELSE row.cred
      /\ Patched(row, p).last = row.last /\ Patched(row, p).status = row.status
  BY <1>1, <1>2 DEF Patched
<1>4. Patched(row, p) \in Row
  BY <1>1, <1>2 DEF Patched, Row
<1> QED BY <1>3, <1>4

\* The check looks at the target only, before and after a patch.
LEMMA CheckFollowsTarget ==
  ASSUME NEW row \in Row, NEW other \in Row, Target(row) = Target(other),
         NEW p \in Patches
  PROVE  /\ check_credential(row) <=> check_credential(other)
         /\ check_credential(Patched(row, p)) <=> check_credential(Patched(other, p))
         /\ DOMAIN p \cap {"task", "cred"} = {}
              => (check_credential(Patched(row, p)) <=> check_credential(row))
<1>1. row.task = other.task /\ row.cred = other.cred
  BY DEF Target
<1>2. /\ Patched(row, p).task = Patched(other, p).task
      /\ Patched(row, p).cred = Patched(other, p).cred
  BY <1>1, PatchedFields
<1>3. DOMAIN p \cap {"task", "cred"} = {}
        => Patched(row, p).task = row.task /\ Patched(row, p).cred = row.cred
  BY PatchedFields
<1> QED BY <1>1, <1>2, <1>3 DEF check_credential

-----------------------------------------------------------------------------
(* Kinds of steps *)

\* Nothing that the runs depend on changes.
RunsKept == UNCHANGED <<rows, running, task, ranNow, lost, merged>>

\* Requests are judged by themselves.
LEMMA RequestsSound ==
  ASSUME \A r \in Requests : RequestSound(req'[r])
  PROVE  (\A r \in Requests : RequestSound(req[r]))'
BY DEF RequestSound

\* A step that leaves rows, runs and history alone, and changes one request at
\* most, keeps what the invariant says of runs, rows and history.
LEMMA QuietStep ==
  ASSUME Structure, Sound, RunsKept, TypeOK',
         \A r \in Requests : RequestSound(req'[r])
  PROVE  Structure' /\ Sound'
<1>1. RunsApart'
  BY DEF Structure, RunsApart, RunsKept
<1>2. \A t \in Tasks : task'[t] # NoRun => RunSound(task[t])'
  <2>1. SUFFICES ASSUME NEW t \in Tasks, task'[t] # NoRun PROVE RunSound(task[t])'
    OBVIOUS
  <2>2. RunSound(task[t])
    BY <2>1 DEF Sound, RunsKept
  <2> QED BY <2>2 DEF RunsKept, RunSound, ScanSound, MarkSound, MinuteSound, InProgress
<1>3. (\A r \in Requests : RequestSound(req[r]))'
  BY RequestsSound
<1>4. RanIsMarked' /\ RunnableUnlessMerged'
  BY DEF Sound, RunsKept, RanIsMarked, RunnableUnlessMerged, Stored
<1>5. InProgressIsTrue'
  BY DEF Sound, RunsKept, InProgressIsTrue, RunsOf, Stored
<1> QED BY <1>1, <1>2, <1>3, <1>4, <1>5 DEF Structure, Sound

\* A request goes on, or is answered.
LEMMA RequestStep ==
  ASSUME Structure, Sound, NEW r \in Requests, NEW q \in Request, RequestSound(q),
         Goto(r, q), UNCHANGED rows, UNCHANGED world, UNCHANGED history
  PROVE  Structure' /\ Sound'
<1>1. req \in [Requests -> Request] /\ req' = [req EXCEPT ![r] = q]
  BY DEF Structure, TypeOK, Goto
<1>2. TypeOK'
  BY <1>1 DEF Structure, TypeOK, world, history
<1>3. \A s \in Requests : RequestSound(req'[s])
  BY <1>1 DEF Sound
<1>4. RunsKept
  BY DEF RunsKept, world, history
<1> QED BY <1>2, <1>3, <1>4, QuietStep

\* An answered request promises nothing.
LEMMA IdleIsSound == Idle \in Request /\ RequestSound(Idle)
BY RequestFields DEF RequestSound

\* Outside of one schedule nothing changes.
Elsewhere(i) ==
  \A j \in Ids \ {i} :
    /\ rows'[j] = rows[j]
    /\ j \in ranNow' <=> j \in ranNow
    /\ j \in lost' <=> j \in lost

\* What is said of a run of another schedule still holds.
LEMMA ElsewhereSound ==
  ASSUME NEW i \in Ids, Elsewhere(i), NEW run \in Run, run.id # i, RunSound(run)
  PROVE  RunSound(run)'
<1>1. run.id \in Ids \ {i}
  BY RunFields
<1>2. /\ rows'[run.id] = rows[run.id]
      /\ run.id \in ranNow' <=> run.id \in ranNow
      /\ run.id \in lost' <=> run.id \in lost
  BY <1>1 DEF Elsewhere
<1>3. ScanSound(run)'
  BY <1>2 DEF RunSound, ScanSound
<1>4. MarkSound(run)'
  BY <1>2 DEF RunSound, MarkSound, InProgress
<1>5. MinuteSound(run)'
  BY <1>2 DEF RunSound, MinuteSound
<1> QED BY <1>3, <1>4, <1>5 DEF RunSound

\* A run takes a step and stays a run, touching at most its own schedule, whose
\* row keeps what it runs.
LEMMA RunStep ==
  ASSUME Structure, Sound, NEW t \in Tasks, task[t] # NoRun,
         NEW new \in Run, new.id = task[t].id, task' = [task EXCEPT ![t] = new],
         RunSound(new)',
         UNCHANGED idle, merged' = merged,
         rows' \in [Ids -> Row \cup {NoRow}], Elsewhere(new.id),
         ranNow' \subseteq Ids, lost' \subseteq Ids,
         rows'[new.id] # NoRow =>
           /\ rows[new.id] # NoRow /\ Target(rows'[new.id]) = Target(rows[new.id])
           /\ new.id \in ranNow' => rows'[new.id].last = "now"
  PROVE  Structure' /\ Sound'
<1> DEFINE i == new.id
<1>1. i \in Ids /\ new # NoRun /\ task \in [Tasks -> Run \cup {NoRun}]
  BY RunFields DEF Structure, TypeOK
<1>2. /\ task'[t] = new
      /\ \A u \in Tasks \ {t} : task'[u] = task[u]
  BY <1>1
<1>3. TypeOK'
  <2>1. task' \in [Tasks -> Run \cup {NoRun}]
    BY <1>1
  <2> QED BY <2>1 DEF Structure, TypeOK, idle
<1>4. \A u \in Tasks :
        /\ task'[u] # NoRun <=> task[u] # NoRun
        /\ task[u] # NoRun => task'[u].id = task[u].id
  BY <1>1, <1>2
<1>5. RunsApart'
  BY <1>4 DEF Structure, RunsApart, idle
<1>6. \A u \in Tasks : task'[u] # NoRun => RunSound(task[u])'
  <2>1. SUFFICES ASSUME NEW u \in Tasks, task'[u] # NoRun PROVE RunSound(task[u])'
    OBVIOUS
  <2>2. PICK run : run = task'[u]
    OBVIOUS
  <2>3. RunSound(run)'
    <3>1. CASE u = t
      BY <3>1, <2>2, <1>2
    <3>2. CASE u # t
      <4>1. run = task[u] /\ run \in Run
        BY <3>2, <2>1, <2>2, <1>1, <1>2
      <4>2. run.id # i
        BY <4>1, <3>2, <2>1, <2>2, <1>4 DEF Structure, RunsApart
      <4>3. RunSound(run)
        BY <4>1, <2>1, <2>2 DEF Sound
      <4> QED BY <4>1, <4>2, <4>3, <1>1, ElsewhereSound
    <3> QED BY <3>1, <3>2
  <2> QED BY <2>2, <2>3 DEF RunSound, ScanSound, MarkSound, MinuteSound, InProgress
<1>7. \A r \in Requests : RequestSound(req[r])'
  BY DEF Sound, idle, RequestSound
<1>8. RanIsMarked'
  BY <1>1 DEF Sound, RanIsMarked, Elsewhere
<1>9. RunnableUnlessMerged'
  <2>1. SUFFICES ASSUME NEW j \in Ids, rows'[j] # NoRow, j \notin merged'
        PROVE check_credential(rows'[j])
    BY DEF RunnableUnlessMerged, Stored
  <2>2. rows[j] # NoRow /\ Target(rows'[j]) = Target(rows[j])
    BY <2>1, <1>1 DEF Elsewhere
  <2>3. check_credential(rows[j])
    BY <2>1, <2>2 DEF Sound, RunnableUnlessMerged, Stored
  <2> QED BY <2>2, <2>3 DEF check_credential, Target
<1>10. InProgressIsTrue'
  <2>1. SUFFICES ASSUME NEW j \in Ids, rows'[j] # NoRow, rows'[j].status = "en curso",
                        j \notin lost'
        PROVE \E u \in Tasks : task'[u] # NoRun /\ task'[u].id = j
    BY DEF InProgressIsTrue, RunsOf, Stored
  <2>2. CASE j = i
    BY <2>2, <1>1, <1>2
  <2>3. CASE j # i
    <3>1. \E u \in Tasks : task[u] # NoRun /\ task[u].id = j
      BY <2>1, <2>3 DEF Sound, InProgressIsTrue, RunsOf, Stored, Elsewhere
    <3> QED BY <3>1, <1>4
  <2> QED BY <2>2, <2>3
<1> QED BY <1>3, <1>5, <1>6, <1>7, <1>8, <1>9, <1>10 DEF Structure, Sound

-----------------------------------------------------------------------------
(* The handlers *)

LEMMA CreateCountKeeps ==
  ASSUME Structure, Sound, NEW r \in Requests, NEW row \in New, CreateCount(r, row)
  PROVE  Structure' /\ Sound'
<1> DEFINE q == [pc |-> "insert", row |-> row]
<1>1. q \in Request
  BY RequestFields
<1>2. RequestSound(q)
  BY DEF RequestSound, CreateCount
<1>3. Goto(r, q) /\ UNCHANGED rows /\ UNCHANGED world /\ UNCHANGED history
  BY DEF CreateCount
<1> HIDE DEF q
<1> QED BY <1>1, <1>2, <1>3, RequestStep

LEMMA UpdateReadKeeps ==
  ASSUME Structure, Sound, NEW r \in Requests, NEW i \in Ids, NEW p \in Patches,
         UpdateRead(r, i, p)
  PROVE  Structure' /\ Sound'
<1>1. PICK row : row = rows[i]
  OBVIOUS
<1>2. row \in Row
  BY <1>1 DEF UpdateRead, Stored, Structure, TypeOK
<1>3. PICK q : q = [pc |-> "update", id |-> i, patch |-> p, seen |-> Target(row)]
  OBVIOUS
<1>4. q \in Request
  <2>1. Target(row) \in Kinds \X BOOLEAN
    BY <1>2, RowFields DEF Target
  <2> QED BY <2>1, <1>3, RequestFields
<1>5. RequestSound(q)
  <2>1. q.pc = "update" /\ q.patch = p /\ q.seen = Target(row)
    BY <1>3
  <2>2. SUFFICES ASSUME DOMAIN p \cap {"task", "cred"} # {},
                        NEW other \in Row, Target(other) = Target(row)
                 PROVE  check_credential(Patched(other, p))
    BY <2>1 DEF RequestSound
  <2>3. check_credential(Patched(row, p))
    BY <2>2, <1>1 DEF UpdateRead
  <2> QED BY <2>2, <2>3, <1>2, CheckFollowsTarget
<1>6. Goto(r, q) /\ UNCHANGED rows /\ UNCHANGED world /\ UNCHANGED history
  BY <1>1, <1>3 DEF UpdateRead
<1> QED BY <1>4, <1>5, <1>6, RequestStep

LEMMA RunReadKeeps ==
  ASSUME Structure, Sound, NEW r \in Requests, NEW i \in Ids, RunRead(r, i)
  PROVE  Structure' /\ Sound'
<1> DEFINE q == [pc |-> "run", id |-> i]
<1>1. q \in Request /\ RequestSound(q)
  BY RequestFields DEF RequestSound
<1>2. Goto(r, q) /\ UNCHANGED rows /\ UNCHANGED world /\ UNCHANGED history
  BY DEF RunRead
<1> HIDE DEF q
<1> QED BY <1>1, <1>2, RequestStep

LEMMA RequestRaisesKeeps ==
  ASSUME Structure, Sound, NEW r \in Requests, RequestRaises(r)
  PROVE  Structure' /\ Sound'
BY IdleIsSound, RequestStep DEF RequestRaises, Finish

\* A step that writes the row of one schedule, with no run that could be confused
\* by it, and answers the request that asked for it.
LEMMA RowStep ==
  ASSUME Structure, Sound, NEW i \in Ids, Elsewhere(i),
         UNCHANGED <<open, minute, tick, running, task, restarts>>,
         rows' \in [Ids -> Row \cup {NoRow}],
         ranNow' \subseteq ranNow, lost' \subseteq lost, merged' \subseteq Ids,
         \A j \in Ids \ {i} : j \in merged' <=> j \in merged,
         req' \in [Requests -> Request], \A r \in Requests : RequestSound(req'[r]),
         rows'[i] # NoRow =>
           /\ i \notin merged' => check_credential(rows'[i])
           /\ i \in ranNow' => rows'[i].last = "now"
           /\ rows'[i].status = "en curso"
                => i \in lost' \/ \E t \in Tasks : task[t] # NoRun /\ task[t].id = i,
         \A run \in Run : run.id = i /\ RunSound(run) =>
           RunSound(run)' \/ ~ \E t \in Tasks : task[t] # NoRun /\ task[t].id = i
  PROVE  Structure' /\ Sound'
<1>1. TypeOK'
  BY DEF Structure, TypeOK
<1>2. RunsApart'
  BY DEF Structure, RunsApart
<1>3. \A t \in Tasks : task'[t] # NoRun => RunSound(task[t])'
  <2>1. SUFFICES ASSUME NEW t \in Tasks, task'[t] # NoRun PROVE RunSound(task[t])'
    OBVIOUS
  <2>2. PICK run : run = task[t]
    OBVIOUS
  <2>3. run \in Run /\ RunSound(run) /\ run = task'[t]
    BY <2>1, <2>2 DEF Structure, Sound, TypeOK
  <2>4. RunSound(run)'
    <3>1. CASE run.id = i
      BY <3>1, <2>1, <2>2, <2>3
    <3>2. CASE run.id # i
      BY <3>2, <2>3, ElsewhereSound
    <3> QED BY <3>1, <3>2
  <2> QED BY <2>3, <2>4 DEF RunSound, ScanSound, MarkSound, MinuteSound, InProgress
<1>4. (\A r \in Requests : RequestSound(req[r]))'
  BY RequestsSound
<1>5. RanIsMarked'
  <2>1. ranNow \subseteq Ids
    BY DEF Structure, TypeOK
  <2> QED BY <2>1 DEF Sound, RanIsMarked, Elsewhere
<1>6. RunnableUnlessMerged'
  BY DEF Sound, RunnableUnlessMerged, Elsewhere, Stored
<1>7. InProgressIsTrue'
  BY DEF Sound, InProgressIsTrue, RunsOf, Elsewhere, Stored
<1> QED BY <1>1, <1>2, <1>3, <1>4, <1>5, <1>6, <1>7 DEF Structure, Sound

LEMMA CreateKeeps ==
  ASSUME Structure, Sound, NEW r \in Requests, NEW i \in Ids, create_schedule(r, i)
  PROVE  Structure' /\ Sound'
<1>1. PICK row : row = req[r].row
  OBVIOUS
<1>2. req[r] \in Request /\ req[r].pc = "insert" /\ RequestSound(req[r])
  BY DEF create_schedule, Structure, TypeOK, Sound
<1>3. row \in New /\ row \in Row /\ row.status = "other" /\ check_credential(row)
  BY <1>1, <1>2, RequestFields, InputsAssumption DEF RequestSound
<1>4. rows \in [Ids -> Row \cup {NoRow}] /\ rows' = [rows EXCEPT ![i] = row]
  BY <1>1 DEF create_schedule, Structure, TypeOK
<1>5. /\ ranNow' = ranNow \ {i} /\ lost' = lost \ {i} /\ merged' = merged \ {i}
      /\ UNCHANGED <<open, minute, tick, running, task, restarts>>
      /\ merged \subseteq Ids
  BY DEF create_schedule, world, Structure, TypeOK
<1>6. Elsewhere(i)
  BY <1>4, <1>5 DEF Elsewhere
<1>7. req' \in [Requests -> Request] /\ \A s \in Requests : RequestSound(req'[s])
  BY IdleIsSound DEF create_schedule, Finish, Goto, Structure, TypeOK, Sound
<1>8. ~ \E t \in Tasks : task[t] # NoRun /\ task[t].id = i
  BY DEF create_schedule, Fresh, RunsOf
<1>9. /\ rows' \in [Ids -> Row \cup {NoRow}] /\ rows'[i] = row /\ row.status # "en curso"
      /\ i \notin ranNow' /\ i \notin lost' /\ i \notin merged'
  BY <1>3, <1>4, <1>5
<1> QED BY <1>3, <1>5, <1>6, <1>7, <1>8, <1>9, RowStep

\* What a run is promised does not depend on the fields that handlers write.
LEMMA WriteIsSound ==
  ASSUME NEW i \in Ids, UNCHANGED <<ranNow, lost>>,
         rows'[i] # NoRow =>
           /\ rows[i] # NoRow
           /\ rows'[i].last = rows[i].last /\ rows'[i].status = rows[i].status
  PROVE  \A run \in Run : run.id = i /\ RunSound(run) => RunSound(run)'
<1> SUFFICES ASSUME NEW run \in Run, run.id = i, RunSound(run) PROVE RunSound(run)'
  OBVIOUS
<1>1. ScanSound(run)'
  BY DEF RunSound, ScanSound
<1>2. MarkSound(run)'
  BY DEF RunSound, MarkSound, InProgress
<1>3. MinuteSound(run)'
  BY DEF RunSound, MinuteSound
<1> QED BY <1>1, <1>2, <1>3 DEF RunSound

LEMMA UpdateKeeps ==
  ASSUME Structure, Sound, NEW r \in Requests, update_schedule(r)
  PROVE  Structure' /\ Sound'
<1>1. PICK i, p : i = req[r].id /\ p = req[r].patch
  OBVIOUS
<1>2. /\ req[r] \in Request /\ req[r].pc = "update" /\ RequestSound(req[r])
      /\ i \in Ids /\ p \in Patches
  <2>1. req[r] \in Request /\ req[r].pc = "update" /\ RequestSound(req[r])
    BY DEF update_schedule, Structure, TypeOK, Sound
  <2> QED BY <1>1, <2>1, RequestFields
<1>3. /\ rows \in [Ids -> Row \cup {NoRow}]
      /\ rows' = IF rows[i] # NoRow THEN [rows EXCEPT ![i] = Patched(rows[i], p)] ELSE rows
      /\ merged' = IF rows[i] # NoRow /\ Target(rows[i]) # req[r].seen
                     THEN merged \cup {i} ELSE merged
  BY <1>1, <1>2 DEF update_schedule, Structure, TypeOK, Stored
<1>4. /\ UNCHANGED <<open, minute, tick, running, task, restarts, ranNow, lost>>
      /\ merged \subseteq Ids
  BY DEF update_schedule, world, Structure, TypeOK
<1>5. rows[i] # NoRow =>
        /\ rows[i] \in Row /\ rows'[i] = Patched(rows[i], p)
        /\ rows'[i] \in Row
        /\ rows'[i].last = rows[i].last /\ rows'[i].status = rows[i].status
  BY <1>2, <1>3, PatchedFields
<1>6. rows' \in [Ids -> Row \cup {NoRow}] /\ Elsewhere(i)
  BY <1>2, <1>3, <1>4, <1>5 DEF Elsewhere
<1>7. req' \in [Requests -> Request] /\ \A s \in Requests : RequestSound(req'[s])
  BY IdleIsSound DEF update_schedule, Finish, Goto, Structure, TypeOK, Sound
<1>8. rows'[i] # NoRow =>
        /\ rows[i] # NoRow
        /\ rows'[i].last = rows[i].last /\ rows'[i].status = rows[i].status
  BY <1>3, <1>5
<1>9. \A run \in Run : run.id = i /\ RunSound(run) => RunSound(run)'
  BY <1>2, <1>4, <1>8, WriteIsSound
<1>10. rows'[i] # NoRow /\ i \notin merged' => check_credential(rows'[i])
  <2>1. SUFFICES ASSUME rows[i] # NoRow, i \notin merged, Target(rows[i]) = req[r].seen
                 PROVE  check_credential(Patched(rows[i], p))
    BY <1>2, <1>3, <1>5, <1>8
  <2>2. check_credential(rows[i])
    BY <2>1, <1>2 DEF Sound, RunnableUnlessMerged, Stored
  <2>3. CASE DOMAIN p \cap {"task", "cred"} = {}
    BY <2>1, <2>2, <2>3, <1>2, <1>5, CheckFollowsTarget
  <2>4. CASE DOMAIN p \cap {"task", "cred"} # {}
    BY <2>1, <2>4, <1>1, <1>2, <1>5 DEF RequestSound
  <2> QED BY <2>3, <2>4
<1>11. rows'[i] # NoRow /\ i \in ranNow' => rows'[i].last = "now"
  BY <1>2, <1>4, <1>8 DEF Sound, RanIsMarked
<1>12. rows'[i] # NoRow /\ rows'[i].status = "en curso"
         => i \in lost' \/ \E t \in Tasks : task[t] # NoRun /\ task[t].id = i
  BY <1>2, <1>4, <1>8 DEF Sound, InProgressIsTrue, RunsOf, Stored
<1>13. merged' \subseteq Ids /\ \A j \in Ids \ {i} : j \in merged' <=> j \in merged
  BY <1>2, <1>3, <1>4
<1> QED BY <1>2, <1>4, <1>6, <1>7, <1>9, <1>10, <1>11, <1>12, <1>13, RowStep

LEMMA DeleteKeeps ==
  ASSUME Structure, Sound, NEW i \in Ids, delete_schedule(i)
  PROVE  Structure' /\ Sound'
<1>1. rows \in [Ids -> Row \cup {NoRow}] /\ rows' = [rows EXCEPT ![i] = NoRow]
  BY DEF delete_schedule, Structure, TypeOK
<1>2. UNCHANGED <<open, minute, tick, running, task, restarts, ranNow, lost, merged, req>>
  BY DEF delete_schedule, world, history
<1>3. rows'[i] = NoRow /\ rows' \in [Ids -> Row \cup {NoRow}] /\ Elsewhere(i)
  BY <1>1, <1>2 DEF Elsewhere
<1>4. \A run \in Run : run.id = i /\ RunSound(run) => RunSound(run)'
  BY <1>2, <1>3, WriteIsSound
<1>5. req' \in [Requests -> Request] /\ \A s \in Requests : RequestSound(req'[s])
  BY <1>2 DEF Structure, TypeOK, Sound
<1>6. merged' \subseteq Ids
  BY <1>2 DEF Structure, TypeOK
<1> QED BY <1>2, <1>3, <1>4, <1>5, <1>6, RowStep

-----------------------------------------------------------------------------
(* A run *)

\* A run under way, of a schedule that has a key, with what is known of it.
LEMMA RunUnderWay ==
  ASSUME Structure, Sound, NEW t \in Tasks, task[t].pc # "none"
  PROVE  task[t] # NoRun /\ task[t] \in Run /\ task[t].id \in Ids /\ RunSound(task[t])
<1>1. task[t] # NoRun
  BY DEF NoRun
<1> QED BY <1>1, RunFields DEF Structure, TypeOK, Sound

\* The write of a run: the time and the status of its own row, if it is there.
LEMMA MarkWrites ==
  ASSUME Structure, NEW t \in Tasks, NEW run \in Run, run = task[t],
         NEW status \in {"en curso", "other"}, mark_schedule_run(t, status)
  PROVE  /\ rows' \in [Ids -> Row \cup {NoRow}]
         /\ \A j \in Ids \ {run.id} : rows'[j] = rows[j]
         /\ rows'[run.id] # NoRow =>
              /\ rows[run.id] # NoRow
              /\ rows'[run.id].last = run.when /\ rows'[run.id].status = status
              /\ Target(rows'[run.id]) = Target(rows[run.id])
<1> DEFINE i == run.id
<1>1. i \in Ids /\ run.when \in Dates
  BY RunFields
<1>2. rows \in [Ids -> Row \cup {NoRow}]
  BY DEF Structure, TypeOK
<1>3. rows' = IF rows[i] # NoRow
                THEN [rows EXCEPT ![i] = [rows[i] EXCEPT !.last = run.when, !.status = status]]
                ELSE rows
  BY <1>1, <1>2 DEF mark_schedule_run, Stored
<1>4. CASE rows[i] = NoRow
  BY <1>1, <1>2, <1>3, <1>4
<1>5. CASE rows[i] # NoRow
  <2>1. PICK row \in Row : row = rows[i]
    BY <1>1, <1>2, <1>5
  <2>2. PICK new : new = [row EXCEPT !.last = run.when, !.status = status]
    OBVIOUS
  <2>3. new \in Row /\ new.last = run.when /\ new.status = status
        /\ new.task = row.task /\ new.cred = row.cred
    BY <1>1, <2>2 DEF Row
  <2>4. rows' = [rows EXCEPT ![i] = new]
    BY <1>3, <1>5, <2>1, <2>2
  <2>5. rows'[i] = new /\ rows' \in [Ids -> Row \cup {NoRow}]
    BY <1>1, <1>2, <2>3, <2>4
  <2> QED BY <1>1, <1>2, <1>5, <2>1, <2>3, <2>4, <2>5 DEF Target
<1> QED BY <1>4, <1>5

\* A run's step that writes its row, or leaves it as it is.
Written(i, date, status) ==
  /\ rows' \in [Ids -> Row \cup {NoRow}]
  /\ \A j \in Ids \ {i} : rows'[j] = rows[j]
  /\ rows'[i] # NoRow =>
       /\ rows[i] # NoRow /\ Target(rows'[i]) = Target(rows[i])
       /\ rows'[i].last = date /\ rows'[i].status = status

\* A run goes on without a word to the table.
LEMMA SilentStep ==
  ASSUME Structure, Sound, NEW t \in Tasks, NEW old \in Run, old = task[t],
         NEW new \in Run, new.id = old.id, task' = [task EXCEPT ![t] = new],
         UNCHANGED rows, UNCHANGED idle, UNCHANGED merged,
         RunSound(new)',
         ranNow' \in {ranNow, ranNow \cup {new.id}},
         lost' \in {lost, lost \cup {new.id}},
         new.id \in ranNow' /\ rows[new.id] # NoRow => rows[new.id].last = "now"
  PROVE  Structure' /\ Sound'
<1>1. new.id \in Ids /\ task[t] # NoRun
  BY RunFields
<1>2. /\ rows' \in [Ids -> Row \cup {NoRow}]
      /\ ranNow' \subseteq Ids /\ lost' \subseteq Ids
  BY <1>1 DEF Structure, TypeOK
<1>3. Elsewhere(new.id)
  BY DEF Elsewhere
<1> QED BY <1>1, <1>2, <1>3, RunStep

\* A run goes on and writes its row.
LEMMA WritingStep ==
  ASSUME Structure, Sound, NEW t \in Tasks, NEW old \in Run, old = task[t],
         NEW new \in Run, new.id = old.id, task' = [task EXCEPT ![t] = new],
         NEW status \in {"en curso", "other"}, mark_schedule_run(t, status),
         UNCHANGED idle, UNCHANGED merged, UNCHANGED ranNow,
         RunSound(old), old.when = new.when,
         lost' \in {lost, lost \ {new.id}},
         Written(old.id, old.when, status) => RunSound(new)'
  PROVE  Structure' /\ Sound'
<1>1. new.id \in Ids /\ task[t] # NoRun
  BY RunFields
<1>2. Written(old.id, old.when, status)
  <2>1. /\ rows' \in [Ids -> Row \cup {NoRow}]
        /\ \A j \in Ids \ {old.id} : rows'[j] = rows[j]
        /\ rows'[old.id] # NoRow =>
             /\ rows[old.id] # NoRow
             /\ rows'[old.id].last = old.when /\ rows'[old.id].status = status
             /\ Target(rows'[old.id]) = Target(rows[old.id])
    BY MarkWrites
  <2> QED BY <2>1 DEF Written
<1>3. ranNow' \subseteq Ids /\ lost' \subseteq Ids
  BY DEF Structure, TypeOK
<1>4. Elsewhere(new.id)
  BY <1>2 DEF Elsewhere, Written
<1>5. rows'[new.id] # NoRow =>
        /\ rows[new.id] # NoRow /\ Target(rows'[new.id]) = Target(rows[new.id])
        /\ new.id \in ranNow' => rows'[new.id].last = "now"
  <2>1. old.when \in {"before", "now"}
    BY RunFields DEF Dates
  <2> QED BY <1>2, <2>1 DEF Written, RunSound, MinuteSound
<1>6. rows' \in [Ids -> Row \cup {NoRow}] /\ RunSound(new)'
  BY <1>2 DEF Written
<1> QED BY <1>1, <1>3, <1>4, <1>5, <1>6, RunStep

LEMMA RunMarkKeeps ==
  ASSUME Structure, Sound, NEW t \in Tasks, RunMark(t)
  PROVE  Structure' /\ Sound'
<1>1. PICK old : old = task[t]
  OBVIOUS
<1>2. old # NoRun /\ old \in Run /\ old.id \in Ids /\ old.pc = "mark" /\ RunSound(old)
  BY <1>1, RunUnderWay DEF RunMark, At
<1>3. CASE /\ mark_schedule_run(t, "en curso") /\ Step(t, "create")
           /\ lost' = lost \ {task[t].id}
  <2>1. PICK new : new = [old EXCEPT !.pc = "create"]
    OBVIOUS
  <2>2. /\ new \in Run /\ new.id = old.id /\ new.pc = "create" /\ new.when = old.when
        /\ new.scan = old.scan /\ new.from = old.from
    BY <1>2, <2>1 DEF Run
  <2>3. task' = [task EXCEPT ![t] = new] /\ lost' = lost \ {new.id}
    BY <1>1, <1>3, <2>1, <2>2 DEF Step, Structure, TypeOK
  <2>4. UNCHANGED idle /\ UNCHANGED merged /\ UNCHANGED ranNow
    BY DEF RunMark
  <2>5. ASSUME Written(old.id, old.when, "en curso") PROVE RunSound(new)'
    <3>1. ScanSound(new)'
      BY <1>2, <2>2 DEF ScanSound, RunSound
    <3>2. MarkSound(new)'
      BY <2>2 DEF MarkSound
    <3>3. MinuteSound(new)'
      BY <1>2, <2>2, <2>4, <2>5 DEF MinuteSound, RunSound, Written
    <3> QED BY <3>1, <3>2, <3>3 DEF RunSound
  <2> QED BY <1>1, <1>2, <1>3, <2>2, <2>3, <2>4, <2>5, WritingStep
<1>4. CASE Step(t, "done") /\ UNCHANGED <<rows, lost>>
  <2>1. PICK new : new = [old EXCEPT !.pc = "done"]
    OBVIOUS
  <2>2. /\ new \in Run /\ new.id = old.id /\ new.pc = "done" /\ new.when = old.when
        /\ new.scan = old.scan /\ new.from = old.from
    BY <1>2, <2>1 DEF Run
  <2>3. task' = [task EXCEPT ![t] = new]
    BY <1>1, <1>4, <2>1 DEF Step, Structure, TypeOK
  <2>4. UNCHANGED idle /\ UNCHANGED merged /\ UNCHANGED ranNow
    BY DEF RunMark
  <2>5. RunSound(new)'
    BY <1>2, <1>4, <2>2, <2>4
       DEF RunSound, ScanSound, MarkSound, MinuteSound, InProgress
  <2>6. new.id \in ranNow' /\ rows[new.id] # NoRow => rows[new.id].last = "now"
    BY <2>4 DEF Sound, RanIsMarked
  <2> QED BY <1>1, <1>2, <1>4, <2>2, <2>3, <2>4, <2>5, <2>6, SilentStep
<1> QED BY <1>3, <1>4 DEF RunMark

\* A step of a run to pc, with its scan in some state.
StepTo(t, pc, scan) ==
  \/ Step(t, pc) /\ scan = task[t].scan
  \/ task' = [task EXCEPT ![t].pc = pc, ![t].scan = scan]

PCs   == {"mark", "create", "run", "end", "notify", "fail", "error", "done"}
Scans == {"none", "running", "final"}

\* The record of a run that moves on.
Moved(run, pc, scan) == [run EXCEPT !.pc = pc, !.scan = scan]

LEMMA MovedRun ==
  ASSUME NEW run \in Run, NEW pc \in PCs, NEW scan \in Scans
  PROVE  /\ Moved(run, pc, scan) \in Run
         /\ Moved(run, pc, scan).id = run.id
         /\ Moved(run, pc, scan).pc = pc /\ Moved(run, pc, scan).scan = scan
         /\ Moved(run, pc, scan).when = run.when /\ Moved(run, pc, scan).from = run.from
<1>1. DOMAIN run = {"id", "from", "when", "scan", "pc"}
  BY DEF Run
<1>2. PICK new : new = [run EXCEPT !.pc = pc, !.scan = scan]
  OBVIOUS
<1>3. /\ new.id = run.id /\ new.pc = pc /\ new.scan = scan
      /\ new.when = run.when /\ new.from = run.from
  BY <1>1, <1>2
<1>4. new \in Run
  BY <1>1, <1>2, <1>3 DEF Run, PCs, Scans
<1>5. new = Moved(run, pc, scan)
  BY <1>2 DEF Moved
<1> QED BY <1>3, <1>4, <1>5

\* A run that moves on is a run, of the same schedule.
LEMMA RunMoves ==
  ASSUME Structure, NEW t \in Tasks, NEW old \in Run, old = task[t],
         NEW pc \in PCs, NEW scan \in Scans, StepTo(t, pc, scan)
  PROVE  \E new \in Run :
           /\ new.id = old.id /\ new.pc = pc /\ new.scan = scan
           /\ new.when = old.when /\ new.from = old.from
           /\ task' = [task EXCEPT ![t] = new]
<1>1. PICK new \in Run :
        /\ new = Moved(old, pc, scan)
        /\ new.id = old.id /\ new.pc = pc /\ new.scan = scan
        /\ new.when = old.when /\ new.from = old.from
  BY MovedRun
<1>2. task \in [Tasks -> Run \cup {NoRun}]
  BY DEF Structure, TypeOK
<1>3. task' = [task EXCEPT ![t] = new]
  <2>1. CASE Step(t, pc) /\ scan = task[t].scan
    <3>1. new = [old EXCEPT !.pc = pc]
      BY <1>1, <2>1 DEF Moved, Run
    <3> QED BY <3>1, <1>2, <2>1 DEF Step
  <2>2. CASE task' = [task EXCEPT ![t].pc = pc, ![t].scan = scan]
    <3>1. new = [task[t] EXCEPT !.pc = pc, !.scan = scan]
      BY <1>1 DEF Moved
    <3> QED BY <2>2, <3>1, <1>2
  <2> QED BY <2>1, <2>2 DEF StepTo
<1> QED BY <1>1, <1>3

\* A step with no word to table or history, to a place where as much is known.
LEMMA PlainStep ==
  ASSUME Structure, Sound, NEW t \in Tasks, NEW old \in Run, old = task[t],
         NEW new \in Run, new.id = old.id, new.when = old.when, new.from = old.from,
         new.pc \notin {"mark", "create"}, task' = [task EXCEPT ![t] = new],
         UNCHANGED rows, UNCHANGED idle, UNCHANGED history, RunSound(old),
         ScanSound(new), MarkSound(new)
  PROVE  Structure' /\ Sound'
<1>1. UNCHANGED ranNow /\ UNCHANGED lost /\ UNCHANGED merged
  BY DEF history
<1>2. RunSound(new)'
  <2>1. ScanSound(new)'
    BY <1>1 DEF ScanSound
  <2>2. MarkSound(new)'
    BY <1>1 DEF MarkSound, InProgress
  <2>3. MinuteSound(new)'
    BY <1>1 DEF RunSound, MinuteSound
  <2> QED BY <2>1, <2>2, <2>3 DEF RunSound
<1>3. new.id \in ranNow' /\ rows[new.id] # NoRow => rows[new.id].last = "now"
  BY <1>1 DEF Sound, RanIsMarked
<1> QED BY <1>1, <1>2, <1>3, SilentStep

LEMMA RunCreateKeeps ==
  ASSUME Structure, Sound, NEW t \in Tasks, RunCreate(t)
  PROVE  Structure' /\ Sound'
<1>1. PICK old : old = task[t]
  OBVIOUS
<1>2. /\ old \in Run /\ old.id \in Ids /\ old.pc = "create" /\ RunSound(old)
      /\ old.scan = "none" /\ old.when \in Dates
  BY <1>1, RunUnderWay, RunFields DEF RunCreate, At, RunSound, ScanSound
<1>3. UNCHANGED rows /\ UNCHANGED idle /\ UNCHANGED lost /\ UNCHANGED merged
  BY DEF RunCreate
<1>4. CASE Step(t, "end") /\ UNCHANGED ranNow
  <2>1. StepTo(t, "end", "none") /\ UNCHANGED history
    BY <1>1, <1>2, <1>3, <1>4 DEF StepTo, history
  <2>2. PICK new \in Run :
          /\ new.id = old.id /\ new.pc = "end" /\ new.scan = "none"
          /\ new.when = old.when /\ new.from = old.from
          /\ task' = [task EXCEPT ![t] = new]
    BY <1>1, <1>2, <2>1, RunMoves DEF PCs, Scans
  <2>3. ScanSound(new) /\ MarkSound(new)
    BY <2>2 DEF ScanSound, MarkSound
  <2> QED BY <1>1, <1>2, <1>3, <2>1, <2>2, <2>3, PlainStep
<1>5. CASE /\ task' = [task EXCEPT ![t].pc = "run", ![t].scan = "running"]
           /\ ranNow' = IF task[t].when = "now" /\ task[t].from # "user"
                          THEN ranNow \cup {task[t].id} ELSE ranNow
  <2>1. StepTo(t, "run", "running")
    BY <1>5 DEF StepTo
  <2>2. PICK new \in Run :
          /\ new.id = old.id /\ new.pc = "run" /\ new.scan = "running"
          /\ new.when = old.when /\ new.from = old.from
          /\ task' = [task EXCEPT ![t] = new]
    BY <1>1, <1>2, <2>1, RunMoves DEF PCs, Scans
  <2>3. /\ ranNow' \in {ranNow, ranNow \cup {new.id}}
        /\ ranNow' # ranNow => new.when = "now"
    BY <1>1, <1>5, <2>2
  <2>4. RunSound(new)'
    <3>1. ScanSound(new)' /\ MarkSound(new)'
      BY <2>2 DEF ScanSound, MarkSound
    <3>2. MinuteSound(new)'
      BY <1>2, <2>2, <2>3 DEF RunSound, MinuteSound
    <3> QED BY <3>1, <3>2 DEF RunSound
  <2>5. new.id \in ranNow' /\ rows[new.id] # NoRow => rows[new.id].last = "now"
    BY <1>2, <2>2, <2>3 DEF RunSound, MinuteSound, Sound, RanIsMarked
  <2> QED BY <1>1, <1>2, <1>3, <2>2, <2>3, <2>4, <2>5, SilentStep
<1> QED BY <1>4, <1>5 DEF RunCreate

LEMMA RunScanKeeps ==
  ASSUME Structure, Sound, NEW t \in Tasks, RunScan(t)
  PROVE  Structure' /\ Sound'
<1>1. PICK old : old = task[t]
  OBVIOUS
<1>2. old \in Run /\ RunSound(old) /\ StepTo(t, "end", "final")
  BY <1>1, RunUnderWay DEF RunScan, At, StepTo
<1>3. PICK new \in Run :
        /\ new.id = old.id /\ new.pc = "end" /\ new.scan = "final"
        /\ new.when = old.when /\ new.from = old.from
        /\ task' = [task EXCEPT ![t] = new]
  BY <1>1, <1>2, RunMoves DEF PCs, Scans
<1>4. ScanSound(new) /\ MarkSound(new)
  BY <1>3 DEF ScanSound, MarkSound
<1>5. UNCHANGED rows /\ UNCHANGED idle /\ UNCHANGED history
  BY DEF RunScan
<1> QED BY <1>1, <1>2, <1>3, <1>4, <1>5, PlainStep

LEMMA RunEndKeeps ==
  ASSUME Structure, Sound, NEW t \in Tasks, RunEnd(t)
  PROVE  Structure' /\ Sound'
<1>1. PICK old : old = task[t]
  OBVIOUS
<1>2. /\ old \in Run /\ old.pc = "end" /\ RunSound(old) /\ old.scan \in {"none", "final"}
  BY <1>1, RunUnderWay DEF RunEnd, At, RunSound, ScanSound
<1>3. PICK pc \in {"done", "notify"} :
        StepTo(t, pc, old.scan) /\ (pc = "notify" => old.scan = "final")
  BY <1>1, <1>2 DEF RunEnd, StepTo
<1>4. PICK new \in Run :
        /\ new.id = old.id /\ new.pc = pc /\ new.scan = old.scan
        /\ new.when = old.when /\ new.from = old.from
        /\ task' = [task EXCEPT ![t] = new]
  <2>1. pc \in PCs /\ old.scan \in Scans
    BY <1>2, <1>3 DEF PCs, Scans
  <2> QED BY <1>1, <1>2, <1>3, <2>1, RunMoves
<1>5. /\ mark_schedule_run(t, "other")
      /\ UNCHANGED idle /\ UNCHANGED ranNow /\ UNCHANGED lost /\ UNCHANGED merged
  BY DEF RunEnd, history
<1>6. ASSUME Written(old.id, old.when, "other") PROVE RunSound(new)'
  <2>1. ScanSound(new)'
    BY <1>2, <1>3, <1>4 DEF ScanSound
  <2>2. MarkSound(new)'
    BY <1>4, <1>6 DEF MarkSound, InProgress, Written
  <2>3. MinuteSound(new)'
    BY <1>2, <1>3, <1>4, <1>5 DEF RunSound, MinuteSound
  <2> QED BY <2>1, <2>2, <2>3 DEF RunSound
<1> QED BY <1>1, <1>2, <1>4, <1>5, <1>6, WritingStep

LEMMA RunNotifyKeeps ==
  ASSUME Structure, Sound, NEW t \in Tasks, RunNotify(t)
  PROVE  Structure' /\ Sound'
<1>1. PICK old : old = task[t]
  OBVIOUS
<1>2. /\ old \in Run /\ RunSound(old) /\ old.pc = "notify" /\ old.scan = "final"
      /\ StepTo(t, "done", "final")
  BY <1>1, RunUnderWay DEF RunNotify, At, StepTo, RunSound, ScanSound
<1>3. PICK new \in Run :
        /\ new.id = old.id /\ new.pc = "done" /\ new.scan = "final"
        /\ new.when = old.when /\ new.from = old.from
        /\ task' = [task EXCEPT ![t] = new]
  BY <1>1, <1>2, RunMoves DEF PCs, Scans
<1>4. ScanSound(new) /\ MarkSound(new)
  BY <1>2, <1>3 DEF RunSound, ScanSound, MarkSound
<1>5. UNCHANGED rows /\ UNCHANGED idle /\ UNCHANGED history
  BY DEF RunNotify
<1> QED BY <1>1, <1>2, <1>3, <1>4, <1>5, PlainStep

LEMMA RunRaisesKeeps ==
  ASSUME Structure, Sound, NEW t \in Tasks, RunRaises(t)
  PROVE  Structure' /\ Sound'
<1>1. PICK old : old = task[t]
  OBVIOUS
<1>2. old \in Run /\ RunSound(old) /\ old.scan \in Scans
  BY <1>1, RunUnderWay, RunFields DEF RunRaises, Scans
<1>3. PICK pc \in {"error", "fail"} :
        StepTo(t, pc, old.scan) /\ (pc = "error" => old.scan = "none")
  BY <1>1 DEF RunRaises, StepTo
<1>4. PICK new \in Run :
        /\ new.id = old.id /\ new.pc = pc /\ new.scan = old.scan
        /\ new.when = old.when /\ new.from = old.from
        /\ task' = [task EXCEPT ![t] = new]
  <2>1. pc \in PCs
    BY <1>3 DEF PCs
  <2> QED BY <1>1, <1>2, <1>3, <2>1, RunMoves
<1>5. ScanSound(new) /\ MarkSound(new)
  BY <1>3, <1>4 DEF ScanSound, MarkSound
<1>6. UNCHANGED rows /\ UNCHANGED idle /\ UNCHANGED history
  BY DEF RunRaises
<1> QED BY <1>1, <1>2, <1>3, <1>4, <1>5, <1>6, PlainStep

\* A run that dies says so in the history.
LEMMA LostStep ==
  ASSUME Structure, Sound, NEW t \in Tasks, NEW old \in Run, old = task[t],
         RunSound(old), Step(t, "done"), UNCHANGED rows, UNCHANGED idle,
         UNCHANGED <<ranNow, merged>>, lost' = lost \cup {old.id}
  PROVE  Structure' /\ Sound'
<1>1. old.scan \in Scans /\ StepTo(t, "done", old.scan)
  BY RunFields DEF Scans, StepTo
<1>2. PICK new \in Run :
        /\ new.id = old.id /\ new.pc = "done" /\ new.scan = old.scan
        /\ new.when = old.when /\ new.from = old.from
        /\ task' = [task EXCEPT ![t] = new]
  BY <1>1, RunMoves DEF PCs
<1>3. RunSound(new)'
  <2>1. ScanSound(new)' /\ MarkSound(new)'
    BY <1>2 DEF ScanSound, MarkSound
  <2>2. MinuteSound(new)'
    BY <1>2 DEF RunSound, MinuteSound
  <2> QED BY <2>1, <2>2 DEF RunSound
<1>4. new.id \in ranNow' /\ rows[new.id] # NoRow => rows[new.id].last = "now"
  BY DEF Sound, RanIsMarked
<1> QED BY <1>2, <1>3, <1>4, SilentStep

LEMMA RunFailKeeps ==
  ASSUME Structure, Sound, NEW t \in Tasks, RunFail(t)
  PROVE  Structure' /\ Sound'
<1>1. PICK old : old = task[t]
  OBVIOUS
<1>2. old \in Run /\ RunSound(old) /\ old.pc = "fail"
  BY <1>1, RunUnderWay DEF RunFail, At
<1>3. UNCHANGED rows /\ UNCHANGED idle /\ UNCHANGED <<ranNow, merged>>
  BY DEF RunFail
<1>4. CASE task' = [task EXCEPT ![t].pc = "error", ![t].scan = "final"] /\ UNCHANGED lost
  <2>1. StepTo(t, "error", "final")
    BY <1>4 DEF StepTo
  <2>2. PICK new \in Run :
          /\ new.id = old.id /\ new.pc = "error" /\ new.scan = "final"
          /\ new.when = old.when /\ new.from = old.from
          /\ task' = [task EXCEPT ![t] = new]
    BY <1>1, <1>2, <2>1, RunMoves DEF PCs, Scans
  <2>3. ScanSound(new) /\ MarkSound(new)
    BY <2>2 DEF ScanSound, MarkSound
  <2>4. UNCHANGED history
    BY <1>3, <1>4 DEF history
  <2> QED BY <1>1, <1>2, <1>3, <2>2, <2>3, <2>4, PlainStep
<1>5. CASE Step(t, "done") /\ lost' = lost \cup {task[t].id}
  BY <1>1, <1>2, <1>3, <1>5, LostStep
<1> QED BY <1>4, <1>5 DEF RunFail

LEMMA RunErrorKeeps ==
  ASSUME Structure, Sound, NEW t \in Tasks, RunError(t)
  PROVE  Structure' /\ Sound'
<1>1. PICK old : old = task[t]
  OBVIOUS
<1>2. /\ old \in Run /\ RunSound(old) /\ old.pc = "error"
      /\ old.scan \in Scans /\ old.scan # "running"
  BY <1>1, RunUnderWay, RunFields DEF RunError, At, RunSound, ScanSound, Scans
<1>3. Step(t, "done") /\ UNCHANGED idle /\ UNCHANGED <<ranNow, merged>>
  BY DEF RunError
<1>4. CASE mark_schedule_run(t, "other") /\ UNCHANGED lost
  <2>1. StepTo(t, "done", old.scan)
    BY <1>1, <1>3 DEF StepTo
  <2>2. PICK new \in Run :
          /\ new.id = old.id /\ new.pc = "done" /\ new.scan = old.scan
          /\ new.when = old.when /\ new.from = old.from
          /\ task' = [task EXCEPT ![t] = new]
    BY <1>1, <1>2, <2>1, RunMoves DEF PCs
  <2>3. ASSUME Written(old.id, old.when, "other") PROVE RunSound(new)'
    <3>1. ScanSound(new)'
      BY <1>2, <2>2 DEF ScanSound
    <3>2. MarkSound(new)'
      BY <2>2, <2>3 DEF MarkSound, InProgress, Written
    <3>3. MinuteSound(new)'
      BY <1>2, <1>3, <2>2 DEF RunSound, MinuteSound
    <3> QED BY <3>1, <3>2, <3>3 DEF RunSound
  <2> QED BY <1>1, <1>2, <1>3, <1>4, <2>2, <2>3, WritingStep
<1>5. CASE UNCHANGED rows /\ lost' = lost \cup {task[t].id}
  BY <1>1, <1>2, <1>3, <1>5, LostStep
<1> QED BY <1>4, <1>5 DEF RunError

LEMMA RunDoneKeeps ==
  ASSUME Structure, Sound, NEW t \in Tasks, RunDone(t)
  PROVE  Structure' /\ Sound'
<1>1. PICK old : old = task[t]
  OBVIOUS
<1>2. old \in Run /\ old.id \in Ids /\ RunSound(old) /\ old.pc = "done" /\ old # NoRun
  BY <1>1, RunUnderWay DEF RunDone, At
<1>3. /\ task \in [Tasks -> Run \cup {NoRun}] /\ task' = [task EXCEPT ![t] = NoRun]
      /\ running' = running \ {old.id}
      /\ UNCHANGED <<rows, open, minute, tick, req, restarts, ranNow, lost, merged>>
  BY <1>1 DEF RunDone, history, Structure, TypeOK
<1>4. task'[t] = NoRun /\ \A u \in Tasks \ {t} : task'[u] = task[u]
  BY <1>3
<1>5. TypeOK'
  BY <1>3 DEF Structure, TypeOK
<1>6. \A u \in Tasks \ {t} : task[u] # NoRun => task[u].id # old.id
  BY <1>1, <1>2 DEF Structure, RunsApart
<1>7. RunsApart'
  BY <1>1, <1>2, <1>3, <1>4, <1>6 DEF Structure, RunsApart
<1>8. \A u \in Tasks : task'[u] # NoRun => RunSound(task[u])'
  <2>1. SUFFICES ASSUME NEW u \in Tasks, task'[u] # NoRun PROVE RunSound(task[u])'
    OBVIOUS
  <2>2. u # t /\ task'[u] = task[u] /\ RunSound(task[u])
    BY <1>4, <2>1 DEF Sound
  <2> QED BY <1>3, <2>2 DEF RunSound, ScanSound, MarkSound, MinuteSound, InProgress
<1>9. (\A r \in Requests : RequestSound(req[r]))'
  <2>1. \A r \in Requests : RequestSound(req'[r])
    BY <1>3 DEF Sound
  <2> QED BY <2>1, RequestsSound
<1>10. RanIsMarked' /\ RunnableUnlessMerged'
  BY <1>3 DEF Sound, RanIsMarked, RunnableUnlessMerged, Stored
<1>11. InProgressIsTrue'
  <2>1. SUFFICES ASSUME NEW j \in Ids, rows[j] # NoRow, rows[j].status = "en curso",
                        j \notin lost
        PROVE \E u \in Tasks : task'[u] # NoRun /\ task'[u].id = j
    BY <1>3 DEF InProgressIsTrue, RunsOf, Stored
  <2>2. PICK u \in Tasks : task[u] # NoRun /\ task[u].id = j
    BY <2>1 DEF Sound, InProgressIsTrue, RunsOf, Stored
  <2>3. u # t
    BY <1>1, <1>2, <2>1, <2>2 DEF RunSound, MarkSound, InProgress
  <2> QED BY <1>4, <2>2, <2>3
<1> QED BY <1>5, <1>7, <1>8, <1>9, <1>10, <1>11 DEF Structure, Sound

-----------------------------------------------------------------------------
(* The loop *)

LEMMA VisitKeeps ==
  ASSUME Structure, Sound, Visit
  PROVE  Structure' /\ Sound'
<1>1. TypeOK' /\ RunsKept /\ req' = req
  BY DEF Visit, history, Structure, TypeOK, RunsKept
<1>2. \A r \in Requests : RequestSound(req'[r])
  BY <1>1 DEF Sound
<1> QED BY <1>1, <1>2, QuietStep

LEMMA TickReadKeeps ==
  ASSUME Structure, Sound, TickRead
  PROVE  Structure' /\ Sound'
<1>1. RunsKept /\ UNCHANGED <<rows, open, minute, running, task, req, restarts, ranNow, lost, merged>>
  BY DEF TickRead, history, RunsKept
<1>2. tick' \in [pc: {"asleep", "awake"}] \cup [pc: {"read"}, due: SUBSET Ids]
  BY DEF TickRead, Asleep
<1>3. TypeOK'
  BY <1>1, <1>2 DEF Structure, TypeOK
<1>4. \A r \in Requests : RequestSound(req'[r])
  BY <1>1 DEF Sound
<1> QED BY <1>1, <1>3, <1>4, QuietStep

LEMMA EarlyTickKeeps ==
  ASSUME Structure, Sound, EarlyTick
  PROVE  Structure' /\ Sound'
<1>1. TypeOK' /\ RunsKept /\ req' = req
  BY DEF EarlyTick, history, Structure, TypeOK, RunsKept
<1>2. \A r \in Requests : RequestSound(req'[r])
  BY <1>1 DEF Sound
<1> QED BY <1>1, <1>2, QuietStep

\* A minute passes: what was now is before, and nothing else changes.
LEMMA ClockKeeps ==
  ASSUME Structure, Sound, Clock
  PROVE  Structure' /\ Sound'
<1>1. /\ rows \in [Ids -> Row \cup {NoRow}] /\ task \in [Tasks -> Run \cup {NoRun}]
      /\ tick' = [pc |-> "awake"] /\ minute' = (minute + 1) % Week /\ ranNow' = {}
      /\ UNCHANGED <<open, running, req, restarts, lost, merged>>
  BY DEF Clock, Structure, TypeOK
<1>2. \A i \in Ids :
        /\ rows[i] = NoRow => rows'[i] = NoRow
        /\ rows[i] # NoRow =>
             /\ rows'[i] \in Row /\ rows'[i] # NoRow
             /\ rows'[i].status = rows[i].status /\ Target(rows'[i]) = Target(rows[i])
  <2>1. SUFFICES ASSUME NEW i \in Ids, rows[i] # NoRow
                 PROVE  /\ rows'[i] \in Row /\ rows'[i] # NoRow
                        /\ rows'[i].status = rows[i].status
                        /\ Target(rows'[i]) = Target(rows[i])
    BY DEF Clock
  <2>2. PICK row \in Row : row = rows[i]
    BY <1>1, <2>1
  <2>3. PICK new : new = [row EXCEPT !.last = Older(row.last)]
    OBVIOUS
  <2>4. rows'[i] = new
    BY <2>1, <2>2, <2>3 DEF Clock
  <2>5. Older(row.last) \in Dates
    BY RowFields DEF Older, Dates
  <2>6. new \in Row /\ new.status = row.status /\ new.task = row.task /\ new.cred = row.cred
    BY <2>3, <2>5 DEF Row
  <2> QED BY <2>2, <2>4, <2>6, RowFields DEF Target
<1>3. \A t \in Tasks :
        /\ task[t] = NoRun => task'[t] = NoRun
        /\ task[t] # NoRun =>
             /\ task'[t] \in Run /\ task'[t] # NoRun /\ task'[t].when = "before"
             /\ task'[t].id = task[t].id /\ task'[t].pc = task[t].pc
             /\ task'[t].scan = task[t].scan
  <2>1. SUFFICES ASSUME NEW t \in Tasks, task[t] # NoRun
                 PROVE  /\ task'[t] \in Run /\ task'[t] # NoRun /\ task'[t].when = "before"
                        /\ task'[t].id = task[t].id /\ task'[t].pc = task[t].pc
                        /\ task'[t].scan = task[t].scan
    BY DEF Clock
  <2>2. PICK run \in Run : run = task[t]
    BY <1>1, <2>1
  <2>3. PICK new : new = [run EXCEPT !.when = Older(run.when)]
    OBVIOUS
  <2>4. task'[t] = new
    BY <2>1, <2>2, <2>3 DEF Clock
  <2>5. Older(run.when) = "before"
    BY RunFields DEF Older, Dates
  <2>6. /\ new \in Run /\ new.when = "before" /\ new.id = run.id /\ new.pc = run.pc
        /\ new.scan = run.scan
    BY <2>3, <2>5 DEF Run
  <2> QED BY <2>2, <2>4, <2>6, RunFields
<1>4. TypeOK'
  <2>1. rows' \in [Ids -> Row \cup {NoRow}]
    <3>1. rows' = [i \in Ids |-> rows'[i]]
      BY DEF Clock
    <3> QED BY <3>1, <1>2
  <2>2. task' \in [Tasks -> Run \cup {NoRun}]
    <3>1. task' = [t \in Tasks |-> task'[t]]
      BY DEF Clock
    <3> QED BY <3>1, <1>3
  <2>3. minute' \in 0 .. Week - 1
    BY <1>1, SchedulesAssumption DEF Structure, TypeOK
  <2>4. tick' \in [pc: {"asleep", "awake"}]
    BY <1>1
  <2> QED BY <1>1, <2>1, <2>2, <2>3, <2>4 DEF Structure, TypeOK
<1>5. RunsApart'
  BY <1>1, <1>3 DEF Structure, RunsApart
<1>6. \A t \in Tasks : task'[t] # NoRun => RunSound(task[t])'
  <2>1. SUFFICES ASSUME NEW t \in Tasks, task[t] # NoRun PROVE RunSound(task[t])'
    BY <1>3
  <2>2. RunSound(task[t]) /\ task[t].id \in Ids
    BY <2>1, <1>1, RunFields DEF Sound
  <2>3. ScanSound(task[t])'
    BY <1>1, <1>3, <2>1, <2>2 DEF RunSound, ScanSound
  <2>4. MarkSound(task[t])'
    BY <1>1, <1>2, <1>3, <2>1, <2>2 DEF RunSound, MarkSound, InProgress
  <2>5. MinuteSound(task[t])'
    BY <1>1, <1>3, <2>1 DEF MinuteSound
  <2> QED BY <2>3, <2>4, <2>5 DEF RunSound
<1>7. (\A r \in Requests : RequestSound(req[r]))'
  <2>1. \A r \in Requests : RequestSound(req'[r])
    BY <1>1 DEF Sound
  <2> QED BY <2>1, RequestsSound
<1>8. RanIsMarked'
  BY <1>1 DEF RanIsMarked
<1>9. RunnableUnlessMerged'
  BY <1>1, <1>2 DEF Sound, RunnableUnlessMerged, Stored, check_credential, Target
<1>10. InProgressIsTrue'
  BY <1>1, <1>2, <1>3 DEF Sound, InProgressIsTrue, RunsOf, Stored
<1> QED BY <1>4, <1>5, <1>6, <1>7, <1>8, <1>9, <1>10 DEF Structure, Sound

\* The server starts again: only what is stored, and what the history knows of it.
LEMMA RestartKeeps ==
  ASSUME Structure, Sound, Restart
  PROVE  Structure' /\ Sound'
<1>1. /\ \A t \in Tasks : task'[t] = NoRun
      /\ \A r \in Requests : req'[r] = Idle
      /\ running' = {} /\ UNCHANGED <<rows, minute, ranNow, merged>>
      /\ \A t \in Tasks : task[t] # NoRun => task[t].id \in lost'
      /\ lost \subseteq lost'
  BY DEF Restart
<1>2. TypeOK'
  <2>1. lost' \subseteq Ids
    BY RunFields DEF Restart, Structure, TypeOK
  <2>2. open' \in BOOLEAN /\ restarts' \in 0 .. MaxRestarts
    BY SchedulesAssumption DEF Restart, Structure, TypeOK
  <2>3. req' \in [Requests -> Request] /\ task' \in [Tasks -> Run \cup {NoRun}]
    BY RequestFields DEF Restart
  <2>4. tick' \in [pc: {"asleep", "awake"}]
    BY DEF Restart
  <2> QED BY <1>1, <2>1, <2>2, <2>3, <2>4 DEF Structure, TypeOK
<1>3. RunsApart' /\ \A t \in Tasks : task'[t] # NoRun => RunSound(task[t])'
  BY <1>1 DEF RunsApart
<1>4. (\A r \in Requests : RequestSound(req[r]))'
  BY <1>1, IdleIsSound, RequestsSound
<1>5. RanIsMarked' /\ RunnableUnlessMerged'
  BY <1>1 DEF Sound, RanIsMarked, RunnableUnlessMerged, Stored
<1>6. InProgressIsTrue'
  BY <1>1 DEF Sound, InProgressIsTrue, RunsOf, Stored
<1> QED BY <1>2, <1>3, <1>4, <1>5, <1>6 DEF Structure, Sound

-----------------------------------------------------------------------------
(* The start of runs *)

\* A set fits into another that has as many elements.
LEMMA SmallerSetFits ==
  ASSUME NEW S, NEW T, IsFiniteSet(S), IsFiniteSet(T), Cardinality(S) <= Cardinality(T)
  PROVE  \E f : f \in Injection(S, T)
<1> DEFINE m == Cardinality(S)
           n == Cardinality(T)
<1>1. m \in Nat /\ n \in Nat /\ m <= n
  BY FS_CardinalityType
<1>2. PICK b : b \in Bijection(1 .. m, S)
  BY FS_CardinalityType DEF ExistsBijection
<1>3. PICK c : c \in Bijection(1 .. n, T)
  BY FS_CardinalityType DEF ExistsBijection
<1> HIDE DEF m, n
<1>4. /\ b \in [1 .. m -> S] /\ \A x, y \in 1 .. m : b[x] = b[y] => x = y
      /\ \A s \in S : \E x \in 1 .. m : b[x] = s
      /\ c \in [1 .. n -> T] /\ \A x, y \in 1 .. n : c[x] = c[y] => x = y
  BY <1>2, <1>3 DEF Bijection, Injection, Surjection, IsInjective
<1> DEFINE place(s) == CHOOSE x \in 1 .. m : b[x] = s
           f == [s \in S |-> c[place(s)]]
<1>5. \A s \in S : place(s) \in 1 .. m /\ place(s) \in 1 .. n /\ b[place(s)] = s
  BY <1>1, <1>4
<1> HIDE DEF place
<1>6. f \in [S -> T]
  BY <1>4, <1>5
<1>7. ASSUME NEW s \in S, NEW u \in S, f[s] = f[u] PROVE s = u
  <2>1. c[place(s)] = c[place(u)]
    BY <1>7
  <2>2. place(s) = place(u)
    BY <1>4, <1>5, <2>1
  <2> QED BY <1>5, <2>2
<1>8. f \in Injection(S, T)
  BY <1>6, <1>7 DEF Injection, IsInjective
<1> QED BY <1>8

Unstarted == {t \in Tasks : task[t] = NoRun}
Froms     == {"user", "loop", "stale"}
Begun(i, from) == [id |-> i, from |-> from[i], when |-> "now", scan |-> "none", pc |-> "mark"]

\* Each id gets one of the free places, and what is under way stays where it is.
LEMMA StartPlaces ==
  ASSUME Structure, NEW ids \in SUBSET Ids, NEW from \in [Ids -> Froms], Start(ids, from)
  PROVE  /\ running' = running \cup ids
         /\ \A t \in Tasks : task[t] # NoRun => task'[t] = task[t]
         /\ \A t \in Tasks : task[t] = NoRun =>
              task'[t] = NoRun \/ \E i \in ids : task'[t] = Begun(i, from)
         /\ \A i \in ids : \E t \in Tasks : task[t] = NoRun /\ task'[t] = Begun(i, from)
         /\ \A t, u \in Tasks :
              /\ task[t] = NoRun /\ task[u] = NoRun
              /\ task'[t] # NoRun /\ task'[u] # NoRun /\ task'[t].id = task'[u].id
              => t = u
         /\ task' = [t \in Tasks |-> task'[t]]
<1>1. IsFiniteSet(ids) /\ IsFiniteSet(Unstarted)
  BY SchedulesAssumption, FS_Subset DEF Unstarted
<1>2. Cardinality(ids) <= Cardinality(Unstarted)
  BY DEF Start, Unstarted
<1>3. PICK f : /\ f = CHOOSE g \in Injection(ids, Unstarted) : TRUE
               /\ f \in Injection(ids, Unstarted)
  BY <1>1, <1>2, SmallerSetFits
<1>4. f \in [ids -> Unstarted] /\ \A i, j \in ids : f[i] = f[j] => i = j
  BY <1>3 DEF Injection, IsInjective
<1>5. task' = [t \in Tasks |-> IF t \in Range(f)
                 THEN Begun(CHOOSE i \in ids : f[i] = t, from) ELSE task[t]]
  BY <1>3 DEF Start, Unstarted, Begun
<1>6. \A i \in ids : /\ f[i] \in Tasks /\ task[f[i]] = NoRun /\ f[i] \in Range(f)
                     /\ (CHOOSE j \in ids : f[j] = f[i]) = i
  BY <1>4 DEF Unstarted, Range
<1>7. \A i \in ids : task'[f[i]] = Begun(i, from)
  BY <1>5, <1>6
<1>8. \A t \in Tasks : t \in Range(f) => \E i \in ids : t = f[i]
  BY <1>4 DEF Range
<1>9. \A t \in Tasks : t \notin Range(f) => task'[t] = task[t]
  BY <1>5
<1>10. \A i \in ids : Begun(i, from).id = i
  BY DEF Begun
<1>11. running' = running \cup ids
  BY DEF Start
<1>12. \A t \in Tasks : task[t] # NoRun => task'[t] = task[t]
  BY <1>6, <1>8, <1>9
<1>13. \A t \in Tasks : task[t] = NoRun =>
         task'[t] = NoRun \/ \E i \in ids : t = f[i] /\ task'[t] = Begun(i, from)
  BY <1>7, <1>8, <1>9
<1>14. task' = [t \in Tasks |-> task'[t]]
  BY <1>5
<1>15. \A t, u \in Tasks :
         /\ task[t] = NoRun /\ task[u] = NoRun
         /\ task'[t] # NoRun /\ task'[u] # NoRun /\ task'[t].id = task'[u].id
         => t = u
  BY <1>10, <1>13
<1> QED BY <1>6, <1>7, <1>11, <1>12, <1>13, <1>14, <1>15

\* Runs are started for schedules that have no key; the loop's have made no scan
\* in this minute.
LEMMA StartStep ==
  ASSUME Structure, Sound, NEW ids \in SUBSET Ids, ids \cap running = {},
         NEW from \in [Ids -> Froms], Start(ids, from),
         \A i \in ids : from[i] = "loop" => i \notin ranNow,
         UNCHANGED <<rows, open, minute, restarts>>, UNCHANGED history,
         tick' \in [pc: {"asleep", "awake"}] \cup [pc: {"read"}, due: SUBSET Ids],
         req' \in [Requests -> Request], \A r \in Requests : RequestSound(req'[r])
  PROVE  Structure' /\ Sound'
<1>1. /\ running' = running \cup ids
      /\ \A t \in Tasks : task[t] # NoRun => task'[t] = task[t]
      /\ \A t \in Tasks : task[t] = NoRun =>
           task'[t] = NoRun \/ \E i \in ids : task'[t] = Begun(i, from)
      /\ \A i \in ids : \E t \in Tasks : task[t] = NoRun /\ task'[t] = Begun(i, from)
      /\ \A t, u \in Tasks :
           /\ task[t] = NoRun /\ task[u] = NoRun
           /\ task'[t] # NoRun /\ task'[u] # NoRun /\ task'[t].id = task'[u].id
           => t = u
      /\ task' = [t \in Tasks |-> task'[t]]
  BY StartPlaces
<1>2. \A i \in ids :
        /\ Begun(i, from) \in Run /\ Begun(i, from) # NoRun /\ Begun(i, from).id = i
        /\ Begun(i, from).pc = "mark" /\ Begun(i, from).scan = "none"
        /\ Begun(i, from).when = "now" /\ Begun(i, from).from = from[i]
  <2>1. \A i \in ids : Begun(i, from) \in Run
    BY DEF Begun, Run, Froms
  <2> QED BY <2>1, RunFields DEF Begun
<1>3. TypeOK'
  <2>1. \A t \in Tasks : task'[t] \in Run \cup {NoRun}
    BY <1>1, <1>2 DEF Structure, TypeOK
  <2>2. task' \in [Tasks -> Run \cup {NoRun}]
    BY <1>1, <2>1
  <2> QED BY <1>1, <2>2 DEF history, Structure, TypeOK
<1>4. \A t \in Tasks : task[t] # NoRun => task[t].id \in running
  BY RunFields DEF Structure, TypeOK, RunsApart
<1>5. \A t \in Tasks : task[t] = NoRun /\ task'[t] # NoRun => task'[t].id \in ids
  BY <1>1, <1>2
<1>6. RunsApart'
  <2>1. \A i \in Ids :
          i \in running' <=> \E t \in Tasks : task'[t] # NoRun /\ task'[t].id = i
    <3>1. ASSUME NEW i \in Ids, i \in running'
          PROVE \E t \in Tasks : task'[t] # NoRun /\ task'[t].id = i
      <4>1. CASE i \in ids
        BY <4>1, <1>1, <1>2
      <4>2. CASE i \in running
        <5>1. PICK t \in Tasks : task[t] # NoRun /\ task[t].id = i
          BY <4>2 DEF Structure, RunsApart
        <5> QED BY <5>1, <1>1
      <4> QED BY <3>1, <1>1, <4>1, <4>2
    <3>2. ASSUME NEW t \in Tasks, task'[t] # NoRun PROVE task'[t].id \in running'
      BY <3>2, <1>1, <1>4, <1>5
    <3> QED BY <3>1, <3>2
  <2>2. ASSUME NEW t \in Tasks, NEW u \in Tasks,
               task'[t] # NoRun, task'[u] # NoRun, task'[t].id = task'[u].id
        PROVE  t = u
    <3>1. CASE task[t] # NoRun /\ task[u] # NoRun
      BY <3>1, <2>2, <1>1 DEF Structure, RunsApart
    <3>2. CASE task[t] = NoRun /\ task[u] = NoRun
      BY <3>2, <2>2, <1>1
    <3>3. CASE task[t] = NoRun /\ task[u] # NoRun
      BY <3>3, <2>2, <1>1, <1>4, <1>5
    <3>4. CASE task[t] # NoRun /\ task[u] = NoRun
      BY <3>4, <2>2, <1>1, <1>4, <1>5
    <3> QED BY <3>1, <3>2, <3>3, <3>4
  <2> QED BY <2>1, <2>2 DEF RunsApart
<1>7. \A t \in Tasks : task'[t] # NoRun => RunSound(task[t])'
  <2>1. SUFFICES ASSUME NEW t \in Tasks, task'[t] # NoRun PROVE RunSound(task[t])'
    OBVIOUS
  <2>2. UNCHANGED <<rows, ranNow, lost>>
    BY DEF history
  <2>3. CASE task[t] # NoRun
    <3>1. task'[t] = task[t] /\ RunSound(task[t])
      BY <2>3, <1>1 DEF Sound
    <3> QED BY <3>1, <2>2 DEF RunSound, ScanSound, MarkSound, MinuteSound, InProgress
  <2>4. CASE task[t] = NoRun
    <3>1. PICK i \in ids : task'[t] = Begun(i, from)
      BY <2>1, <2>4, <1>1
    <3>2. ScanSound(task[t])'
      BY <3>1, <1>2 DEF ScanSound
    <3>3. rows[i] # NoRow /\ rows[i].status = "en curso" => i \in lost
      <4>1. ~ \E u \in Tasks : task[u] # NoRun /\ task[u].id = i
        BY DEF Structure, RunsApart
      <4> QED BY <4>1 DEF Sound, InProgressIsTrue, RunsOf, Stored
    <3>4. MarkSound(task[t])'
      <4>1. task'[t].id = i /\ rows' = rows /\ lost' = lost
        BY <3>1, <1>2, <2>2
      <4> QED BY <4>1, <3>3 DEF MarkSound, InProgress
    <3>5. MinuteSound(task[t])'
      BY <3>1, <1>2, <2>2 DEF MinuteSound
    <3> QED BY <3>2, <3>4, <3>5 DEF RunSound
  <2> QED BY <2>3, <2>4
<1>8. (\A r \in Requests : RequestSound(req[r]))'
  BY RequestsSound
<1>9. RanIsMarked' /\ RunnableUnlessMerged'
  BY DEF history, Sound, RanIsMarked, RunnableUnlessMerged, Stored
<1>10. InProgressIsTrue'
  <2>1. rows' = rows /\ lost' = lost
    BY DEF history
  <2> SUFFICES ASSUME NEW i \in Ids, rows[i] # NoRow, rows[i].status = "en curso", i \notin lost
               PROVE  \E t \in Tasks : task'[t] # NoRun /\ task'[t].id = i
    BY <2>1 DEF InProgressIsTrue, RunsOf, Stored
  <2>2. PICK t \in Tasks : task[t] # NoRun /\ task[t].id = i
    BY DEF Sound, InProgressIsTrue, RunsOf, Stored
  <2> QED BY <1>1, <2>2
<1> QED BY <1>3, <1>6, <1>7, <1>8, <1>9, <1>10 DEF Structure, Sound

LEMMA TickStartKeeps ==
  ASSUME Structure, Sound, TickStart
  PROVE  Structure' /\ Sound'
<1>1. PICK ids : ids = tick.due \ running
  OBVIOUS
<1>2. ids \in SUBSET Ids /\ ids \cap running = {}
  <2>1. tick.pc = "read"
    BY DEF TickStart
  <2>2. tick.due \subseteq Ids
    BY <2>1 DEF Structure, TypeOK
  <2> QED BY <1>1, <2>2
<1>3. PICK from : from = ByLoop
  OBVIOUS
<1>4. from \in [Ids -> Froms] /\ \A i \in Ids : from[i] = "loop" => i \notin ranNow
  BY <1>3 DEF ByLoop, Froms, Stored, Sound, RanIsMarked
<1>5. /\ Start(ids, from) /\ tick' = Asleep
      /\ UNCHANGED <<rows, open, minute, req, restarts>> /\ UNCHANGED history
  BY <1>1, <1>3 DEF TickStart
<1>6. req' \in [Requests -> Request] /\ \A r \in Requests : RequestSound(req'[r])
  BY <1>5 DEF Structure, TypeOK, Sound
<1>7. tick' \in [pc: {"asleep", "awake"}]
  BY <1>5 DEF Asleep
<1> QED BY <1>2, <1>4, <1>5, <1>6, <1>7, StartStep

LEMMA RunStartKeeps ==
  ASSUME Structure, Sound, NEW r \in Requests, RunStart(r)
  PROVE  Structure' /\ Sound'
<1>1. PICK i : i = req[r].id
  OBVIOUS
<1>2. i \in Ids
  BY <1>1, RequestFields DEF RunStart, Structure, TypeOK
<1>3. /\ UNCHANGED <<rows, open, minute, tick, restarts>> /\ UNCHANGED history
      /\ req' \in [Requests -> Request] /\ \A s \in Requests : RequestSound(req'[s])
  BY IdleIsSound DEF RunStart, Finish, Goto, Structure, TypeOK, Sound
<1>4. CASE i \in running
  <2>1. UNCHANGED <<running, task>>
    BY <1>1, <1>4 DEF RunStart
  <2>2. TypeOK' /\ RunsKept
    BY <1>3, <2>1 DEF history, RunsKept, Structure, TypeOK
  <2> QED BY <1>3, <2>2, QuietStep
<1>5. CASE i \notin running
  <2>1. PICK from : from = ByUser
    OBVIOUS
  <2>2. from \in [Ids -> Froms] /\ \A j \in {i} : from[j] = "loop" => j \notin ranNow
    BY <1>2, <2>1 DEF ByUser, Froms
  <2>3. Start({i}, from)
    BY <1>1, <1>5, <2>1 DEF RunStart
  <2>4. {i} \in SUBSET Ids /\ {i} \cap running = {}
    BY <1>2, <1>5
  <2>5. tick' \in [pc: {"asleep", "awake"}] \cup [pc: {"read"}, due: SUBSET Ids]
    BY <1>3 DEF Structure, TypeOK
  <2> QED BY <1>3, <2>2, <2>3, <2>4, <2>5, StartStep
<1> QED BY <1>4, <1>5

-----------------------------------------------------------------------------
(* The limit *)

Inserts == {r \in Requests : req[r].pc = "insert"}

\* A step that stores nothing more, and lets no creation begin.
LEMMA LimitKept ==
  ASSUME LimitBounded, {i \in Ids : rows'[i] # NoRow} \subseteq Stored,
         {r \in Requests : req'[r].pc = "insert"} \subseteq Inserts
  PROVE  LimitBounded'
<1> DEFINE S == {i \in Ids : rows'[i] # NoRow}
           I == {r \in Requests : req'[r].pc = "insert"}
<1>1. IsFiniteSet(Stored) /\ IsFiniteSet(Inserts)
  BY SchedulesAssumption, FS_Subset DEF Stored, Inserts
<1>2. /\ Cardinality(S) <= Cardinality(Stored) /\ Cardinality(I) <= Cardinality(Inserts)
      /\ IsFiniteSet(S) /\ IsFiniteSet(I)
  BY <1>1, FS_Subset
<1>3. /\ Cardinality(S) \in Nat /\ Cardinality(Stored) \in Nat
      /\ Cardinality(I) \in Nat /\ Cardinality(Inserts) \in Nat
      /\ Cardinality(Requests) \in Nat /\ MAX_PER_TENANT \in Nat
  BY <1>1, <1>2, SchedulesAssumption, FS_CardinalityType
<1>4. Cardinality(Stored) + Cardinality(Inserts) < MAX_PER_TENANT + Cardinality(Requests)
  BY DEF LimitBounded, Inserts
<1>5. Stored' = S
  BY DEF Stored
<1>6. Cardinality(S) + Cardinality(I) < MAX_PER_TENANT + Cardinality(Requests)
  BY <1>2, <1>3, <1>4
<1> QED BY <1>5, <1>6 DEF LimitBounded

\* A creation begins while there is room: if all the requests were creations, the
\* last of them would store one row less than the limit and they together.
LEMMA LimitCreateCount ==
  ASSUME Structure, LimitBounded, NEW r \in Requests, NEW row \in New, CreateCount(r, row)
  PROVE  LimitBounded'
<1> DEFINE I == {s \in Requests : req'[s].pc = "insert"}
<1>1. IsFiniteSet(Stored) /\ IsFiniteSet(Requests) /\ I \in SUBSET Requests
  BY SchedulesAssumption, FS_Subset DEF Stored
<1>2. IsFiniteSet(I) /\ Cardinality(I) <= Cardinality(Requests)
  BY <1>1, FS_Subset
<1>3. /\ Cardinality(Stored) \in Nat /\ Cardinality(I) \in Nat
      /\ Cardinality(Requests) \in Nat /\ MAX_PER_TENANT \in Nat
  BY <1>1, <1>2, SchedulesAssumption, FS_CardinalityType
<1>4. Cardinality(Stored) < MAX_PER_TENANT /\ Stored' = Stored
  BY DEF CreateCount, Stored
<1>5. Cardinality(Stored) + Cardinality(I) < MAX_PER_TENANT + Cardinality(Requests)
  BY <1>2, <1>3, <1>4
<1> QED BY <1>4, <1>5 DEF LimitBounded

\* A creation ends: one request less, one row more.
LEMMA LimitCreate ==
  ASSUME Structure, LimitBounded, NEW r \in Requests, NEW i \in Ids, create_schedule(r, i)
  PROVE  LimitBounded'
<1> DEFINE S == {j \in Ids : rows'[j] # NoRow}
           I == {s \in Requests : req'[s].pc = "insert"}
<1>1. IsFiniteSet(Stored) /\ IsFiniteSet(Inserts)
  BY SchedulesAssumption, FS_Subset DEF Stored, Inserts
<1>2. S \subseteq Stored \cup {i} /\ i \notin Stored
  BY DEF create_schedule, Fresh, Stored, Structure, TypeOK
<1>3. I \subseteq Inserts \ {r} /\ r \in Inserts
  BY RequestFields DEF create_schedule, Finish, Goto, Inserts, Structure, TypeOK
<1>4. /\ IsFiniteSet(Stored \cup {i}) /\ Cardinality(Stored \cup {i}) = Cardinality(Stored) + 1
      /\ IsFiniteSet(Inserts \ {r}) /\ Cardinality(Inserts \ {r}) = Cardinality(Inserts) - 1
  BY <1>1, <1>2, <1>3, FS_AddElement, FS_RemoveElement
<1>5. /\ IsFiniteSet(S) /\ Cardinality(S) <= Cardinality(Stored) + 1
      /\ IsFiniteSet(I) /\ Cardinality(I) <= Cardinality(Inserts) - 1
  <2>1. S \in SUBSET (Stored \cup {i}) /\ I \in SUBSET (Inserts \ {r})
    BY <1>2, <1>3
  <2>2. IsFiniteSet(S) /\ Cardinality(S) <= Cardinality(Stored \cup {i})
    BY <1>4, <2>1, FS_Subset
  <2>3. IsFiniteSet(I) /\ Cardinality(I) <= Cardinality(Inserts \ {r})
    BY <1>4, <2>1, FS_Subset
  <2> QED BY <1>4, <2>2, <2>3
<1>6. /\ Cardinality(S) \in Nat /\ Cardinality(Stored) \in Nat
      /\ Cardinality(I) \in Nat /\ Cardinality(Inserts) \in Nat
      /\ Cardinality(Requests) \in Nat /\ MAX_PER_TENANT \in Nat
  BY <1>1, <1>5, SchedulesAssumption, FS_CardinalityType
<1>7. Cardinality(Stored) + Cardinality(Inserts) < MAX_PER_TENANT + Cardinality(Requests)
  BY DEF LimitBounded, Inserts
<1>8. Stored' = S
  BY DEF Stored
<1>9. Cardinality(S) + Cardinality(I) < MAX_PER_TENANT + Cardinality(Requests)
  BY <1>5, <1>6, <1>7
<1> QED BY <1>8, <1>9 DEF LimitBounded

\* Every step but a creation's leaves the number of rows, or lowers it.
LEMMA LimitOthers ==
  ASSUME Structure, Next,
         ~ \E r \in Requests, row \in New : CreateCount(r, row),
         ~ \E r \in Requests, i \in Ids : create_schedule(r, i)
  PROVE  /\ {i \in Ids : rows'[i] # NoRow} \subseteq Stored
         /\ {r \in Requests : req'[r].pc = "insert"} \subseteq Inserts
<1> DEFINE Fewer == {i \in Ids : rows'[i] # NoRow} \subseteq Stored
           Calm  == {r \in Requests : req'[r].pc = "insert"} \subseteq Inserts
<1> USE DEF Stored, Inserts
<1>1. rows' = rows => Fewer
  OBVIOUS
<1>2. req' = req => Calm
  OBVIOUS
<1>3. ASSUME NEW r \in Requests, NEW q, q.pc # "insert", Goto(r, q) PROVE Calm
  BY <1>3 DEF Goto, Structure, TypeOK
<1>4. ASSUME NEW t \in Tasks, NEW status, mark_schedule_run(t, status) PROVE Fewer
  BY <1>4 DEF mark_schedule_run, Structure, TypeOK
<1>5. Idle.pc # "insert"
  BY DEF Idle
<1>6. ASSUME NEW r \in Requests, Finish(r) PROVE Calm
  BY <1>3, <1>5, <1>6 DEF Finish
<1> HIDE DEF Fewer, Calm
<1>7. ASSUME NEW r \in Requests, NEW i \in Ids, RunRead(r, i) PROVE Fewer /\ Calm
  BY <1>1, <1>3, <1>7 DEF RunRead
<1>8. ASSUME NEW r \in Requests, NEW i \in Ids, NEW p \in Patches, UpdateRead(r, i, p)
      PROVE Fewer /\ Calm
  BY <1>1, <1>3, <1>8 DEF UpdateRead
<1>9. ASSUME NEW r \in Requests, update_schedule(r) PROVE Fewer /\ Calm
  <2>1. Fewer
    BY <1>9 DEF update_schedule, Structure, TypeOK, Fewer
  <2> QED BY <2>1, <1>6, <1>9 DEF update_schedule
<1>10. ASSUME NEW r \in Requests, RunStart(r) \/ RequestRaises(r) PROVE Fewer /\ Calm
  BY <1>1, <1>6, <1>10 DEF RunStart, RequestRaises
<1>11. ASSUME NEW i \in Ids, delete_schedule(i) PROVE Fewer /\ Calm
  <2>1. Fewer
    BY <1>11 DEF delete_schedule, Structure, TypeOK, Fewer
  <2> QED BY <2>1, <1>2, <1>11 DEF delete_schedule
<1>12. ASSUME NEW t \in Tasks, RunSteps(t) \/ RunRaises(t) PROVE Fewer /\ Calm
  BY <1>1, <1>2, <1>4, <1>12
     DEF RunSteps, RunRaises, RunMark, RunCreate, RunScan, RunEnd, RunNotify, RunFail,
         RunError, RunDone, idle
<1>13. ASSUME Visit \/ TickRead \/ TickStart \/ EarlyTick PROVE Fewer /\ Calm
  BY <1>1, <1>2, <1>13 DEF Visit, TickRead, TickStart, EarlyTick
<1>14. ASSUME Clock PROVE Fewer /\ Calm
  <2>1. Fewer
    BY <1>14 DEF Clock, Fewer
  <2> QED BY <2>1, <1>2, <1>14 DEF Clock
<1>15. ASSUME Restart PROVE Fewer /\ Calm
  <2>1. Calm
    BY <1>5, <1>15 DEF Restart, Calm
  <2> QED BY <2>1, <1>1, <1>15 DEF Restart
<1> HIDE DEF Stored, Inserts
<1>16. Fewer /\ Calm
  BY <1>7, <1>8, <1>9, <1>10, <1>11, <1>12, <1>13, <1>14, <1>15 DEF Next, RequestSteps
<1> QED BY <1>16 DEF Fewer, Calm

-----------------------------------------------------------------------------
(* The theorems *)

\* At first nothing is stored and nothing runs.
LEMMA InitSchedules == Init => SchedulesInv
<1> SUFFICES ASSUME Init PROVE SchedulesInv
  OBVIOUS
<1>1. TypeOK
  <2>1. 0 \in 0 .. Week - 1 /\ 0 \in 0 .. MaxRestarts
    BY SchedulesAssumption
  <2>2. tick \in [pc: {"asleep", "awake"}]
    BY DEF Init
  <2> QED BY <2>1, <2>2, RequestFields, SchedulesAssumption DEF Init, TypeOK
<1>2. RunsApart
  BY DEF Init, RunsApart
<1>3. Sound
  BY IdleIsSound
     DEF Init, Sound, RanIsMarked, InProgressIsTrue, RunnableUnlessMerged, Stored
<1>4. LimitBounded
  <2>1. Stored = {} /\ {r \in Requests : req[r].pc = "insert"} = {}
    BY RequestFields DEF Init, Stored
  <2>2. Cardinality(Requests) \in Nat /\ MAX_PER_TENANT \in Nat \ {0}
    BY SchedulesAssumption, FS_CardinalityType
  <2> QED BY <2>1, <2>2, FS_EmptySet DEF LimitBounded
<1> QED BY <1>1, <1>2, <1>3, <1>4 DEF SchedulesInv, Structure

\* A step that changes nothing changes nothing that the invariant says.
LEMMA StutterSchedules ==
  ASSUME SchedulesInv, UNCHANGED vars
  PROVE  SchedulesInv'
<1> USE DEF SchedulesInv
<1>1. TypeOK' /\ RunsKept /\ req' = req
  BY DEF vars, Structure, TypeOK, RunsKept
<1>2. \A r \in Requests : RequestSound(req'[r])
  BY <1>1 DEF Sound
<1>3. LimitBounded'
  BY DEF vars, LimitBounded, Stored
<1> QED BY <1>1, <1>2, <1>3, QuietStep

\* One step per action.
LEMMA NextSchedules ==
  ASSUME SchedulesInv, Next
  PROVE  SchedulesInv'
<1> USE DEF SchedulesInv
<1>1. Structure' /\ Sound'
  <2>1. ASSUME NEW r \in Requests, NEW row \in New, CreateCount(r, row)
        PROVE  Structure' /\ Sound'
    BY <2>1, CreateCountKeeps
  <2>2. ASSUME NEW r \in Requests, NEW i \in Ids,
               RunRead(r, i) \/ (\E p \in Patches : UpdateRead(r, i, p))
                 \/ create_schedule(r, i)
        PROVE  Structure' /\ Sound'
    BY <2>2, RunReadKeeps, UpdateReadKeeps, CreateKeeps
  <2>3. ASSUME NEW r \in Requests, update_schedule(r) \/ RunStart(r) \/ RequestRaises(r)
        PROVE  Structure' /\ Sound'
    BY <2>3, UpdateKeeps, RunStartKeeps, RequestRaisesKeeps
  <2>4. ASSUME NEW i \in Ids, delete_schedule(i)
        PROVE  Structure' /\ Sound'
    BY <2>4, DeleteKeeps
  <2>5. ASSUME NEW t \in Tasks, RunSteps(t) \/ RunRaises(t)
        PROVE  Structure' /\ Sound'
    BY <2>5, RunMarkKeeps, RunCreateKeeps, RunScanKeeps, RunEndKeeps, RunNotifyKeeps,
       RunFailKeeps, RunErrorKeeps, RunDoneKeeps, RunRaisesKeeps DEF RunSteps
  <2>6. ASSUME Visit \/ TickRead \/ TickStart \/ EarlyTick \/ Clock \/ Restart
        PROVE  Structure' /\ Sound'
    BY <2>6, VisitKeeps, TickReadKeeps, TickStartKeeps, EarlyTickKeeps, ClockKeeps,
       RestartKeeps
  <2> QED BY <2>1, <2>2, <2>3, <2>4, <2>5, <2>6 DEF Next, RequestSteps
<1>2. LimitBounded'
  <2>1. CASE \E r \in Requests, row \in New : CreateCount(r, row)
    BY <2>1, LimitCreateCount
  <2>2. CASE \E r \in Requests, i \in Ids : create_schedule(r, i)
    BY <2>2, LimitCreate
  <2>3. CASE /\ ~ \E r \in Requests, row \in New : CreateCount(r, row)
             /\ ~ \E r \in Requests, i \in Ids : create_schedule(r, i)
    BY <2>3, LimitOthers, LimitKept
  <2> QED BY <2>1, <2>2, <2>3
<1> QED BY <1>1, <1>2

\* The invariant holds of every schedule table: one run per key and one key per
\* run, and at each step of a run what its row, its scan and the history may say.
THEOREM SchedulesInvariant == Spec => []SchedulesInv
<1>1. Init => SchedulesInv
  BY InitSchedules
<1>2. SchedulesInv /\ [Next]_vars => SchedulesInv'
  BY NextSchedules, StutterSchedules
<1> QED BY <1>1, <1>2, PTL DEF Spec

\* The state of the schedules keeps its type (_schedules_running, table schedules).
THEOREM SchedulesType == Spec => []TypeOK
<1>1. SchedulesInv => TypeOK
  BY DEF SchedulesInv, Structure
<1> QED BY <1>1, SchedulesInvariant, PTL

\* No schedule runs twice at a time and every key has its run; what is shown as
\* being run is, or died; every row can be run, and there is room for it: however
\* many runs, ticks, edits, errors and restarts interleave (RowsSound).
THEOREM RowsAreSound == Spec => []RowsSound
<1>1. SchedulesInv => RowsSound
  <2> SUFFICES ASSUME SchedulesInv PROVE RowsSound
    OBVIOUS
  <2>1. ASSUME NEW i \in Ids
        PROVE  Cardinality(RunsOf(i)) = IF i \in running THEN 1 ELSE 0
    <3>1. CASE i \in running
      <4>1. PICK t \in Tasks : task[t] # NoRun /\ task[t].id = i
        BY <3>1 DEF SchedulesInv, Structure, RunsApart
      <4>2. RunsOf(i) = {t}
        BY <4>1 DEF SchedulesInv, Structure, RunsApart, RunsOf
      <4> QED BY <3>1, <4>2, FS_Singleton
    <3>2. CASE i \notin running
      <4>1. RunsOf(i) = {}
        BY <3>2 DEF SchedulesInv, Structure, RunsApart, RunsOf
      <4> QED BY <3>2, <4>1, FS_EmptySet
    <3> QED BY <3>1, <3>2
  <2> QED BY <2>1 DEF RowsSound, RunningIsTrue, SchedulesInv, Structure, Sound
<1> QED BY <1>1, SchedulesInvariant, PTL

\* The loop makes one scan per schedule and minute, over early ticks and restarts
\* (is_due, mark_schedule_run).
THEOREM LoopRunsOnce == Spec => OncePerMinute
<1>1. ASSUME SchedulesInv, NEW t \in Tasks,
             task[t].pc = "create", task[t].from = "loop", task[t].when = "now"
      PROVE  task[t].id \notin ranNow
  <2>1. RunSound(task[t])
    BY <1>1, RunUnderWay DEF SchedulesInv
  <2> QED BY <1>1, <2>1 DEF RunSound, MinuteSound
<1>2. SchedulesInv =>
        [\A t \in Tasks :
           /\ task[t].pc = "create" /\ task'[t].pc = "run"
           /\ task[t].from = "loop" /\ task[t].when = "now"
           => task[t].id \notin ranNow]_vars
  BY <1>1
<1> QED BY <1>2, SchedulesInvariant, PTL DEF OncePerMinute

\* A run that takes a step of its own, short of its last, is still there.
LEMMA StepStays ==
  ASSUME Structure, NEW u \in Tasks, task[u] \in Run, NEW pc \in PCs, NEW scan \in Scans,
         StepTo(u, pc, scan), NEW t \in Tasks, task[t] # NoRun
  PROVE  task'[t] # NoRun
<1>1. PICK old \in Run : old = task[u]
  OBVIOUS
<1>2. PICK new \in Run : task' = [task EXCEPT ![u] = new]
  BY <1>1, RunMoves
<1>3. new # NoRun
  BY RunFields
<1> QED BY <1>2, <1>3 DEF Structure, TypeOK

\* A run leaves its place at its last step, or when the server stops.
LEMMA RunsLeave ==
  ASSUME Structure, Next, NEW t \in Tasks, task[t] # NoRun, task'[t] = NoRun
  PROVE  RunDone(t) \/ Restart
<1> DEFINE Stays == task'[t] # NoRun
<1>1. task' = task => Stays
  OBVIOUS
<1>2. ASSUME NEW u \in Tasks, NEW pc \in PCs, NEW scan \in Scans,
             task[u].pc # "none", StepTo(u, pc, scan)
      PROVE  Stays
  <2>1. task[u] \in Run
    BY <1>2 DEF NoRun, Structure, TypeOK
  <2> QED BY <1>2, <2>1, StepStays
<1>3. ASSUME NEW u \in Tasks, NEW pc \in PCs, task[u].pc # "none", Step(u, pc)
      PROVE  Stays
  <2>1. task[u].scan \in Scans
    <3>1. task[u] \in Run
      BY <1>3 DEF NoRun, Structure, TypeOK
    <3> QED BY <3>1, RunFields DEF Scans
  <2>2. StepTo(u, pc, task[u].scan)
    BY <1>3 DEF StepTo
  <2> QED BY <1>2, <1>3, <2>1, <2>2
<1>4. ASSUME NEW r \in Requests, NEW row \in New, CreateCount(r, row) PROVE Stays
  BY <1>1, <1>4 DEF CreateCount, world
<1>5. ASSUME NEW r \in Requests, NEW i \in Ids, RunRead(r, i) \/ create_schedule(r, i)
      PROVE Stays
  BY <1>1, <1>5 DEF RunRead, create_schedule, world
<1>6. ASSUME NEW r \in Requests, NEW i \in Ids, NEW p \in Patches, UpdateRead(r, i, p)
      PROVE Stays
  BY <1>1, <1>6 DEF UpdateRead, world
<1>7. ASSUME NEW r \in Requests, update_schedule(r) \/ RequestRaises(r) PROVE Stays
  BY <1>1, <1>7 DEF update_schedule, RequestRaises, world
<1>8. ASSUME NEW r \in Requests, RunStart(r) PROVE Stays
  <2>1. CASE req[r].id \in running
    BY <1>1, <1>8, <2>1 DEF RunStart
  <2>2. CASE req[r].id \notin running
    <3>1. PICK from, ids : from = ByUser /\ ids = {req[r].id}
      OBVIOUS
    <3>2. ids \in SUBSET Ids /\ from \in [Ids -> Froms]
      BY <1>8, <3>1, RequestFields DEF RunStart, ByUser, Froms, Structure, TypeOK
    <3>3. Start(ids, from)
      BY <1>8, <2>2, <3>1 DEF RunStart
    <3> QED BY <3>2, <3>3, StartPlaces
  <2> QED BY <2>1, <2>2
<1>9. ASSUME NEW i \in Ids, delete_schedule(i) PROVE Stays
  BY <1>1, <1>9 DEF delete_schedule, world
<1>10. ASSUME NEW u \in Tasks, RunMark(u) \/ RunEnd(u) \/ RunNotify(u) \/ RunError(u)
       PROVE  Stays
  BY <1>3, <1>10 DEF RunMark, RunEnd, RunNotify, RunError, At, PCs
<1>11. ASSUME NEW u \in Tasks, RunRaises(u) PROVE Stays
  BY <1>3, <1>11 DEF RunRaises, PCs
<1>12. ASSUME NEW u \in Tasks, RunCreate(u) PROVE Stays
  <2>1. CASE Step(u, "end")
    BY <1>3, <1>12, <2>1 DEF RunCreate, At, PCs
  <2>2. CASE task' = [task EXCEPT ![u].pc = "run", ![u].scan = "running"]
    <3>1. StepTo(u, "run", "running")
      BY <2>2 DEF StepTo
    <3> QED BY <1>2, <1>12, <3>1 DEF RunCreate, At, PCs, Scans
  <2> QED BY <1>12, <2>1, <2>2 DEF RunCreate
<1>13. ASSUME NEW u \in Tasks, RunScan(u) PROVE Stays
  <2>1. StepTo(u, "end", "final")
    BY <1>13 DEF RunScan, StepTo
  <2> QED BY <1>2, <1>13, <2>1 DEF RunScan, At, PCs, Scans
<1>14. ASSUME NEW u \in Tasks, RunFail(u) PROVE Stays
  <2>1. CASE Step(u, "done")
    BY <1>3, <1>14, <2>1 DEF RunFail, At, PCs
  <2>2. CASE task' = [task EXCEPT ![u].pc = "error", ![u].scan = "final"]
    <3>1. StepTo(u, "error", "final")
      BY <2>2 DEF StepTo
    <3> QED BY <1>2, <1>14, <3>1 DEF RunFail, At, PCs, Scans
  <2> QED BY <1>14, <2>1, <2>2 DEF RunFail
<1>15. ASSUME NEW u \in Tasks, RunDone(u) PROVE u = t
  BY <1>15 DEF RunDone, Structure, TypeOK
<1>16. ASSUME Visit \/ TickRead \/ EarlyTick PROVE Stays
  BY <1>1, <1>16 DEF Visit, TickRead, EarlyTick
<1>17. ASSUME TickStart PROVE Stays
  <2>1. PICK from, ids : from = ByLoop /\ ids = tick.due \ running
    OBVIOUS
  <2>2. ids \in SUBSET Ids /\ from \in [Ids -> Froms]
    BY <1>17, <2>1 DEF TickStart, ByLoop, Froms, Structure, TypeOK
  <2>3. Start(ids, from)
    BY <1>17, <2>1 DEF TickStart
  <2> QED BY <2>2, <2>3, StartPlaces
<1>18. ASSUME Clock PROVE Stays
  <2>1. PICK run \in Run : run = task[t]
    BY DEF Structure, TypeOK
  <2>2. task'[t] = [run EXCEPT !.when = Older(run.when)]
    BY <1>18, <2>1 DEF Clock
  <2>3. task'[t].pc = run.pc
    BY <2>2 DEF Run
  <2> QED BY <2>3, RunFields DEF NoRun
<1> HIDE DEF Stays
<1>19. Stays \/ RunDone(t) \/ Restart
  BY <1>4, <1>5, <1>6, <1>7, <1>8, <1>9, <1>10, <1>11, <1>12, <1>13, <1>14, <1>15, <1>16,
     <1>17, <1>18 DEF Next, RequestSteps, RunSteps
<1> QED BY <1>19 DEF Stays

\* No run leaves its scan running, unless it died: every way out of _run_schedule
\* gives the scan a final state.
THEOREM ScansAreFinal == Spec => ScansGetFinal
<1>1. ASSUME SchedulesInv, Next, NEW t \in Tasks, task[t] # NoRun, task'[t] = NoRun
      PROVE  task[t].scan # "running" \/ task[t].id \in lost'
  <2>1. RunDone(t) \/ Restart
    BY <1>1, RunsLeave DEF SchedulesInv
  <2>2. CASE RunDone(t)
    <3>1. task[t].pc = "done" /\ lost' = lost
      BY <2>2 DEF RunDone, At, history
    <3>2. RunSound(task[t])
      BY <1>1 DEF SchedulesInv, Sound
    <3> QED BY <3>1, <3>2 DEF RunSound, ScanSound
  <2>3. CASE Restart
    BY <1>1, <2>3 DEF Restart
  <2> QED BY <2>1, <2>2, <2>3
<1>2. ASSUME SchedulesInv, [Next]_vars
      PROVE  [\A t \in Tasks : task[t] # NoRun /\ task'[t] = NoRun =>
                task[t].scan # "running" \/ task[t].id \in lost']_vars
  <2>1. CASE Next
    BY <1>1, <1>2, <2>1
  <2>2. CASE UNCHANGED vars
    BY <2>2
  <2> QED BY <1>2, <2>1, <2>2
<1> QED BY <1>2, SchedulesInvariant, PTL DEF Spec, ScansGetFinal

=============================================================================
