------------------------------- MODULE Scans -------------------------------
(***************************************************************************)
(* The scans of one organisation: the rows that create_scan, complete_scan *)
(* and fail_scan write, the tasks that make them, and what is told of the  *)
(* results: notifications, tickets, new devices.  A task is suspended in   *)
(* the statement that its pc names, while the others go on.                *)
(*                                                                         *)
(* The kinds of task: the audit, malware and network entries of the        *)
(* platform scheduler (at their hour or by hand); "user" is a scan by the  *)
(* runners of the WebSocket, for a user or a schedule of the organisation; *)
(* "handler" one that answers an HTTP request, or an import; "agent" the   *)
(* report of another machine.  The n-th scan is the n-th row.              *)
(***************************************************************************)
EXTENDS Integers, Sequences, FiniteSetsExt

CONSTANTS
  Findings,      \* ids of findings
  Critical,      \* the ones whose severity is critical
  Devices,       \* devices of the network
  Before,        \* what the table of scans may hold at the start
  MaxScans,      \* bound: scans in the table
  MaxStarted,    \* bound: scans created from the start on
  MaxRestarts,   \* bound: restarts of the server
  Faults         \* may statements raise?

VARIABLES
  scan,          \* tables scans and findings
  assets,        \* table assets: the devices in it
  suppressed,    \* table suppressions: the findings it matches now
  notices,       \* table notifications: what was told of which scan
  told,          \* ... and the devices that were announced in it
  tickets,       \* finding, scan: the tickets asked of Jira or ServiceNow
  job,           \* the task of each scan
  restarts,      \* restarts so far
  prev,          \* history: the scan that each was compared with
  finder,        \* history: the scan that put each device in the inventory
  early,         \* history: scans compared before an earlier one of the type had ended
  unheard,       \* history: scans that sent their new devices to a WebSocket that was closed,
                 \* or to the send of a schedule, which ignores them
  lost,          \* history: scans whose task died, or could not write its end
  spoilt         \* history: scans that failed after another was compared with them

db      == <<scan, assets, suppressed, notices, told, tickets>>
history == <<prev, finder, early, unheard, lost, spoilt>>
vars    == <<db, job, restarts, history>>

Kinds == {"audit", "malware", "network", "user", "handler", "agent"}

\* The types of scan that a kind of task makes.
Types(kind) == CASE kind = "user"    -> {"audit", "network"}
                 [] kind = "handler" -> {"runtime"}
                 [] kind = "agent"   -> {"audit"}
                 [] OTHER            -> {kind}

Ids == 1 .. Len(scan)
Row == [kind: Kinds \cup {"before"}, type: {"audit", "malware", "network", "runtime"},
        status: {"running", "completed", "failed"}, found: SUBSET Findings]

ASSUME ScansAssumption ==
  /\ Critical \subseteq Findings
  /\ MaxScans \in Nat /\ MaxStarted \in Nat /\ MaxRestarts \in Nat /\ Faults \in BOOLEAN
  /\ \A rows \in Before :
       /\ rows \in Seq(Row) /\ Len(rows) <= MaxScans
       /\ \A n \in 1 .. Len(rows) : rows[n].kind = "before"

\* todo: what the current loop has left.  kept: the findings that are not suppressed.
\* new: the result of the comparison.  could (history): the findings that were not
\* suppressed at some moment of the task.
Job == [pc: {"scan", "device", "upsert", "announce", "filter", "complete", "alert", "compare",
             "alert_new", "ticket", "drops", "score", "refuse", "refused", "fail", "ended"},
        devices: SUBSET Devices, fresh: SUBSET Devices, unknown: BOOLEAN,
        todo: SUBSET Findings, kept: SUBSET Findings, could: SUBSET Findings]

TypeOK ==
  /\ scan \in Seq(Row) /\ Len(scan) <= MaxScans
  /\ assets \subseteq Devices /\ suppressed \subseteq Findings /\ told \subseteq Devices
  /\ notices \subseteq Ids \X {"alert", "new", "refused", "drop"}
  /\ tickets \subseteq Findings \X Ids
  /\ job \in [Ids -> Job]
  /\ restarts \in 0 .. MaxRestarts
  /\ prev \in [Ids -> 0 .. MaxScans] /\ finder \in [Devices -> 0 .. MaxScans]
  /\ early \subseteq Ids /\ unheard \subseteq Ids /\ lost \subseteq Ids /\ spoilt \subseteq Ids

At(n, pc) == n \in Ids /\ job[n].pc = pc
Ended == [pc |-> "ended", devices |-> {}, fresh |-> {}, unknown |-> FALSE,
          todo |-> {}, kept |-> {}, could |-> {}]
Live  == {n \in Ids : job[n].pc # "ended"}

Init ==
  /\ scan \in Before
  /\ job = [n \in Ids |-> Ended] /\ prev = [n \in Ids |-> 0]
  /\ assets = {} /\ suppressed = {} /\ notices = {} /\ told = {} /\ tickets = {}
  /\ restarts = 0
  /\ finder = [d \in Devices |-> 0]
  /\ early = {} /\ unheard = {} /\ lost = {} /\ spoilt = {}

\* The task goes on as it is to be; an ended one keeps nothing.
GotoWith(n, task) == job' = [job EXCEPT ![n] = IF task.pc = "ended" THEN Ended ELSE task]

Goto(n, pc) == GotoWith(n, [job[n] EXCEPT !.pc = pc])

-----------------------------------------------------------------------------
(* The statements of the database *)

create_scan(kind, type) ==
  scan' = Append(scan, [kind |-> kind, type |-> type, status |-> "running", found |-> {}])

complete_scan(n, findings) ==
  scan' = [scan EXCEPT ![n].status = "completed", ![n].found = findings]

\* Mutant: a completed scan stays so.
fail_scan_running(n) ==
  scan' = IF scan[n].status = "running" THEN [scan EXCEPT ![n].status = "failed"] ELSE scan

\* Whatever the scan's state was.
fail_scan(n) == scan' = [scan EXCEPT ![n].status = "failed"]

\* Mutant: the last scan of the type, whatever became of it.
Previous_any(n) ==
  Max({0} \cup {m \in 1 .. n - 1 : scan[m].type = scan[n].type})

\* Mutant: the oldest one.
Previous_first(n) ==
  LET done == {m \in 1 .. n - 1 : scan[m].type = scan[n].type /\ scan[m].status = "completed"}
  IN IF done = {} THEN 0 ELSE Min(done)

\* get_comparison: the last completed scan of the same type with a lower id.
Previous(n) ==
  Max({0} \cup {m \in 1 .. n - 1 : scan[m].type = scan[n].type /\ scan[m].status = "completed"})

\* Of a first scan nothing is new.
New(n) == IF Previous(n) = 0 THEN {} ELSE scan[n].found \ scan[Previous(n)].found

-----------------------------------------------------------------------------
(* The tasks, step by step *)

\* A task creates its row and goes to work.  The findings of an agent come with its
\* report, and are stored as they are.
Start(kind, type) ==
  /\ Len(scan) < MaxScans
  /\ Cardinality({n \in Ids : scan[n].kind # "before"}) < MaxStarted
  /\ create_scan(kind, type)
  /\ \E found \in SUBSET Findings :
       /\ kind # "agent" => found = {}
       /\ job' = Append(job, [Ended EXCEPT !.pc = IF kind = "agent" THEN "complete" ELSE "scan",
                                           !.kept = found, !.could = Findings \ suppressed])
  /\ prev' = Append(prev, 0)
  /\ UNCHANGED <<assets, suppressed, notices, told, tickets, restarts, finder, early, unheard,
                 lost, spoilt>>

\* Devices, findings, or both (a network scan of a user may audit the hosts by SSH).
ScanReturns(n) ==
  /\ At(n, "scan")
  /\ \E devices \in SUBSET Devices, found \in SUBSET Findings :
       /\ scan[n].type # "network" => devices = {}
       /\ scan[n].kind = "network" => found = {}
       /\ GotoWith(n, [job[n] EXCEPT !.devices = devices, !.todo = found,
                        !.pc = CASE devices # {} -> "device"
                                 [] devices = {} /\ found # {} -> "filter"
                                 [] OTHER -> "complete"])
  /\ UNCHANGED <<db, restarts, history>>

\* The next one of a loop, in whatever order.
Next1(set) == CHOOSE x \in set : TRUE

\* Mutant: it looks once it has written.
DeviceRead_after(n) ==
  /\ At(n, "device")
  /\ GotoWith(n, [job[n] EXCEPT !.pc = "upsert", !.unknown = FALSE])
  /\ UNCHANGED <<db, restarts, history>>

\* upsert_asset reads whether the device is there ...
DeviceRead(n) ==
  /\ At(n, "device")
  /\ GotoWith(n, [job[n] EXCEPT !.pc = "upsert", !.unknown = Next1(job[n].devices) \notin assets])
  /\ UNCHANGED <<db, restarts, history>>

\* send writes to the WebSocket unless it is closed, and swallows what that raises; the
\* send of a schedule looks at findings and errors only.
SendNew(n, devices) ==
  \/ told' = told \cup devices /\ UNCHANGED unheard
  \/ unheard' = unheard \cup {n} /\ UNCHANGED told

\* ... and then inserts it, which fails if it is there by now, or updates it.  After
\* the last one the new ones, if any, are sent to the user at once.
DeviceWrite(n) ==
  LET d     == Next1(job[n].devices)
      rest  == job[n].devices \ {d}
      fresh == job[n].fresh \cup (IF job[n].unknown THEN {d} ELSE {})
      user  == scan[n].kind = "user" IN
  /\ At(n, "upsert")
  /\ job[n].unknown => d \notin assets
  /\ assets' = assets \cup {d}
  /\ finder' = IF job[n].unknown THEN [finder EXCEPT ![d] = n] ELSE finder
  /\ IF rest = {} /\ user /\ fresh # {} THEN SendNew(n, fresh) ELSE UNCHANGED <<told, unheard>>
  /\ GotoWith(n, [job[n] EXCEPT !.devices = rest, !.fresh = fresh,
                   !.pc = CASE rest # {} -> "device"
                            [] rest = {} /\ user /\ job[n].todo # {} -> "filter"
                            [] rest = {} /\ ~user /\ fresh # {} -> "announce"
                            [] OTHER -> "complete"])
  /\ UNCHANGED <<scan, suppressed, notices, tickets, restarts, prev, early, lost, spoilt>>

\* The notification of a scheduled scan.
Announce(n) ==
  /\ At(n, "announce")
  /\ told' = told \cup job[n].fresh
  /\ Goto(n, "complete")
  /\ UNCHANGED <<scan, assets, suppressed, notices, tickets, restarts, history>>

\* Mutant: every finding is kept.
Filter_none(n) ==
  LET f    == Next1(job[n].todo)
      rest == job[n].todo \ {f} IN
  /\ At(n, "filter")
  /\ GotoWith(n, [job[n] EXCEPT !.pc = IF rest = {} THEN "complete" ELSE "filter",
                                !.todo = rest, !.kept = @ \cup {f}])
  /\ UNCHANGED <<db, restarts, history>>

\* filter_suppressed: the suppressions are read anew for each finding.
Filter(n) ==
  LET f    == Next1(job[n].todo)
      rest == job[n].todo \ {f} IN
  /\ At(n, "filter")
  /\ GotoWith(n, [job[n] EXCEPT !.pc = IF rest = {} THEN "complete" ELSE "filter",
                                !.todo = rest, !.kept = @ \cup ({f} \ suppressed)])
  /\ UNCHANGED <<db, restarts, history>>

\* One transaction; what comes next depends on who waits for the result.
Complete(n) ==
  LET kind == scan[n].kind
      alert == \/ kind = "audit" /\ job[n].kept \cap Critical # {}
               \/ kind = "malware" /\ job[n].kept # {} IN
  /\ At(n, "complete")
  /\ complete_scan(n, job[n].kept)
  /\ Goto(n, CASE alert -> "alert"
               [] ~alert /\ kind \in {"audit", "user"} -> "compare"
               [] OTHER -> "ended")
  /\ UNCHANGED <<assets, suppressed, notices, told, tickets, restarts, history>>

Notify(n, what) == notices' = notices \cup {<<n, what>>}

Alert(n) ==
  /\ At(n, "alert")
  /\ Notify(n, "alert")
  /\ Goto(n, IF scan[n].kind = "audit" THEN "compare" ELSE "ended")
  /\ UNCHANGED <<scan, assets, suppressed, told, tickets, restarts, history>>

\* get_comparison.  A user is shown how many critical findings are new.
Compare(n) ==
  /\ At(n, "compare")
  /\ prev' = [prev EXCEPT ![n] = Previous(n)]
  /\ early' = IF \E m \in 1 .. n - 1 : scan[m].type = scan[n].type /\ m \in Live
                THEN early \cup {n} ELSE early
  /\ GotoWith(n, [job[n] EXCEPT !.todo = New(n),
                   !.pc = CASE scan[n].kind = "user" -> "score"
                            [] scan[n].kind = "audit" /\ New(n) \cap Critical # {} -> "alert_new"
                            [] scan[n].kind = "audit" /\ New(n) # {} /\ New(n) \cap Critical = {} -> "ticket"
                            [] scan[n].kind = "audit" /\ Previous(n) # 0 /\ New(n) = {} -> "drops"
                            [] OTHER -> "ended"])
  /\ UNCHANGED <<db, restarts, finder, unheard, lost, spoilt>>

AlertNew(n) ==
  /\ At(n, "alert_new")
  /\ Notify(n, "new")
  /\ Goto(n, "ticket")
  /\ UNCHANGED <<scan, assets, suppressed, told, tickets, restarts, history>>

\* A ticket for each new finding.  What goes wrong in Jira or ServiceNow is logged.
Ticket(n) ==
  LET f == Next1(job[n].todo)
      rest == job[n].todo \ {f} IN
  /\ At(n, "ticket")
  /\ tickets' = tickets \cup {<<f, n>>}
  /\ GotoWith(n, [job[n] EXCEPT !.pc = IF rest = {} THEN "drops" ELSE "ticket", !.todo = rest])
  /\ UNCHANGED <<scan, assets, suppressed, notices, told, restarts, history>>

\* The findings of the scan before are read again; each framework that got worse is told.
Drops(n) ==
  /\ At(n, "drops")
  /\ IF scan[n].found \ scan[prev[n]].found # {}
       THEN Notify(n, "drop") \/ UNCHANGED notices
       ELSE UNCHANGED notices
  /\ Goto(n, "ended")
  /\ UNCHANGED <<scan, assets, suppressed, told, tickets, restarts, history>>

\* get_scan_history(limit=1): the score that a user is shown is that of the scan that
\* started last.
Score(n) ==
  /\ At(n, "score")
  /\ Goto(n, "ended")
  /\ UNCHANGED <<db, restarts, history>>

-----------------------------------------------------------------------------
(* The ways it goes wrong *)

\* The host of an audit cannot be reached; a user's targets or path are not there.
ScanRefuses(n) ==
  /\ At(n, "scan") /\ scan[n].kind \in {"audit", "user"}
  /\ Goto(n, "refuse")
  /\ UNCHANGED <<db, restarts, history>>

\* fail_scan, on the way out or in the except.
Fail(n) ==
  /\ At(n, "refuse") \/ At(n, "fail")
  /\ fail_scan(n)
  /\ spoilt' = IF \E m \in Ids : prev[m] = n THEN spoilt \cup {n} ELSE spoilt
  /\ Goto(n, IF At(n, "refuse") /\ scan[n].kind = "audit" THEN "refused" ELSE "ended")
  /\ UNCHANGED <<assets, suppressed, notices, told, tickets, restarts, prev, finder, early,
                 unheard, lost>>

Refused(n) ==
  /\ At(n, "refused")
  /\ Notify(n, "refused")
  /\ Goto(n, "ended")
  /\ UNCHANGED <<scan, assets, suppressed, told, tickets, restarts, history>>

\* The tasks that call fail_scan when anything raises; the others only answer 500.
HasExcept(n) == scan[n].kind \in {"audit", "malware", "network", "user"}

\* Mutant: no task has an except.
Raises_unhandled(n) ==
  /\ Faults /\ n \in Live /\ job[n].pc \notin {"ticket", "fail"}
  /\ Goto(n, "ended")
  /\ UNCHANGED <<db, restarts, history>>

\* A ticket never raises; a second insert of the same device does.
Raises(n) ==
  /\ n \in Live /\ job[n].pc \notin {"ticket", "fail"}
  /\ \/ Faults
     \/ At(n, "upsert") /\ job[n].unknown /\ Next1(job[n].devices) \in assets
  /\ Goto(n, IF HasExcept(n) THEN "fail" ELSE "ended")
  /\ lost' = IF HasExcept(n) THEN lost ELSE lost \cup {n}
  /\ UNCHANGED <<db, restarts, prev, finder, early, unheard, spoilt>>

FailRaises(n) ==
  /\ Faults /\ At(n, "fail")
  /\ Goto(n, "ended")
  /\ lost' = lost \cup {n}
  /\ UNCHANGED <<db, restarts, prev, finder, early, unheard, spoilt>>

\* The server stops: nothing looks at the scans that were running.
Restart ==
  /\ restarts < MaxRestarts
  /\ restarts' = restarts + 1
  /\ job' = [n \in Ids |-> Ended]
  /\ lost' = lost \cup Live
  /\ UNCHANGED <<db, prev, finder, early, unheard, spoilt>>

-----------------------------------------------------------------------------
(* The users *)

add_suppression(f) ==
  /\ f \notin suppressed
  /\ suppressed' = suppressed \cup {f}
  /\ UNCHANGED <<scan, assets, notices, told, tickets, job, restarts, history>>

\* By hand, or because it expires.
remove_suppression(f) ==
  /\ f \in suppressed
  /\ suppressed' = suppressed \ {f}
  /\ job' = [n \in Ids |-> IF n \in Live THEN [job[n] EXCEPT !.could = @ \cup {f}] ELSE job[n]]
  /\ UNCHANGED <<scan, assets, notices, told, tickets, restarts, history>>

Steps(n) ==
  ScanReturns(n) \/ DeviceRead(n) \/ DeviceWrite(n) \/ Announce(n) \/ Filter(n)
    \/ Complete(n) \/ Alert(n) \/ Compare(n) \/ AlertNew(n) \/ Ticket(n) \/ Drops(n)
    \/ Score(n) \/ Fail(n) \/ Refused(n)

Next ==
  \/ \E kind \in Kinds : \E type \in Types(kind) : Start(kind, type)
  \/ \E n \in 1 .. MaxScans : Steps(n) \/ ScanRefuses(n) \/ Raises(n) \/ FailRaises(n)
  \/ \E f \in Findings : add_suppression(f) \/ remove_suppression(f)
  \/ Restart

Spec == Init /\ [][Next]_vars

\* asyncio resumes every task whose await completes, and scanners have time limits.
Fairness == \A n \in 1 .. MaxScans : WF_vars(Steps(n) \/ Raises(n))

FairSpec == Spec /\ Fairness

-----------------------------------------------------------------------------
(* Properties *)

Audits == {n \in Ids : scan[n].kind = "audit"}

\* Scans that completed, whatever happened to their row later.
Completed == {n \in Ids : scan[n].status = "completed"} \cup spoilt

\* Scans whose row says what their task did: it has ended, and not in the middle.
Settled == {n \in Ids \ (Live \cup lost) : scan[n].status = "completed"}

\* A finding gets a second ticket only if a scan between the two did not find it
\* (ticketing.py: one for each new finding, not one a day), or if the first audit
\* failed after its tickets, or the two were under way together.
TicketOnce ==
  \A n \in Audits, m \in Audits, f \in Findings :
    m < n /\ <<f, m>> \in tickets /\ <<f, n>> \in tickets =>
      \/ \E k \in m + 1 .. n - 1 :
           scan[k].type = "audit" /\ k \in Completed /\ f \notin scan[k].found
      \/ scan[m].status = "failed" \/ n \in early

\* Every finding of a completed audit has its ticket, from it or from the scan where
\* it was new, unless that one was the first of all or no audit of the scheduler, or
\* was cut short (a scan that fails before it is compared with hides nothing).
NewTicketed ==
  \A n \in Audits \cap Settled : \A f \in scan[n].found :
    \E m \in 1 .. n :
      /\ scan[m].type = "audit" /\ f \in scan[m].found
      /\ \/ <<f, m>> \in tickets \/ prev[m] = 0 \/ scan[m].kind # "audit"
         \/ m \in Live \cup lost \cup spoilt

\* Each new finding gets a ticket, and one only.
TicketsExact == TicketOnce /\ NewTicketed

\* What stays "completed" has been told: critical findings, the new ones apart, and
\* anything a malware scan finds (build_scheduler).
CompletedTold ==
  \A n \in Settled :
    LET found == scan[n].found IN
    /\ scan[n].kind = "audit" /\ found \cap Critical # {} => <<n, "alert">> \in notices
    /\ scan[n].kind = "malware" /\ found # {} => <<n, "alert">> \in notices
    /\ scan[n].kind = "audit" /\ prev[n] # 0 /\ (found \ scan[prev[n]].found) \cap Critical # {}
         => <<n, "new">> \in notices

\* A device enters the inventory once, by one scan, and is announced by it, for no later
\* one will find it new (upsert_asset): unless that scan fails or is cut short before, or
\* is a user's whose WebSocket was closed by then, or of a schedule of the organisation.
\* A network scan of the platform scheduler always announces what it stores.
DevicesTold ==
  \A d \in assets :
    \/ d \in told \/ finder[d] \in Live \cup lost
    \/ finder[d] \in Ids /\ scan[finder[d]].status = "failed"
    \/ finder[d] \in unheard /\ scan[finder[d]].kind = "user"

\* What a task is about to store has nothing that was suppressed since it began,
\* whoever edits the suppressions meanwhile (filter_suppressed); only the reports of
\* agents are not filtered.
SuppressedDropped ==
  \A n \in Live : scan[n].kind # "agent" => job[n].kept \subseteq job[n].could

\* What a scan found is stored without what was suppressed, and is told.
ResultsSound == TypeOK /\ CompletedTold /\ DevicesTold /\ SuppressedDropped

Running(n) == n \in Ids /\ scan[n].status = "running"

\* No scan stays "running" for ever, whatever raises, but for those that the server's
\* stop or a failing fail_scan cut short, or that a handler without it began.
EveryScanEnds ==
  \A n \in 1 .. MaxScans : Running(n) ~> (n \in lost \/ ~Running(n))

=============================================================================
