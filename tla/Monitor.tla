----------------------------- MODULE Monitor ------------------------------
(* The real-time monitor (core/ebpf_monitor.py) on a host whose files other  *)
(* programs, and the quarantine, write and remove.  Two tasks: one reads the *)
(* lines of bpftrace or of auditd's log and looks for suspicious commands,   *)
(* the other compares the dates of the critical files every thirty seconds.  *)
(* What they find is stored and pushed to the open sockets; an error in      *)
(* either is logged and the task goes on.                                    *)
EXTENDS Quarantine

CONSTANTS
    MaxLines,   \* bound on lines waiting in the reader's pipe
    Readable    \* files the server may read; it may ask for the date of all

VARIABLES
    mode,       \* none, ebpf or auditd
    running,    \* the _running flag
    reader,     \* the task that reads commands
    pipe,       \* lines it has not read yet
    watcher,    \* the task that compares dates
    todo,       \* files left in this round
    emitting,   \* the file whose change it is reporting, with its date
    seen,       \* file_state: path -> recorded mtime, 0 for none
    alarms,     \* ghost: path -> mtime of the last change stored as a finding
    unstored,   \* ghost: path -> mtime of the last change whose storing failed
    caught,     \* ghost: the patterns of the last line stored as findings
    missed      \* ghost: those whose storing failed

mvars == <<mode, running, reader, pipe, watcher, todo, emitting, seen, alarms, unstored, caught, missed>>
vars == <<qvars, mvars>>

----------------------------------------------------------------------------
\* What a line shows of a command, and of a file that is created or opened

Commands == {"listen", "download", "list"}
Accesses == {"create", "open"}
Words == [listen |-> {"nc", "-l"}, download |-> {"bash", "-c", "curl u | sh"}, list |-> {"ls"},
          create |-> {"critical", "nametype=CREATE"}, open |-> {"critical", "nametype=NORMAL"}]
Executed == [listen |-> {"nc"}, download |-> {"bash"}, list |-> {"ls"}]
SUSPICIOUS_COMMANDS == [netcat_listener |-> {"nc", "-l"}, exec_download_pipe |-> {"curl u | sh"}]
Patterns == DOMAIN SUSPICIOUS_COMMANDS \cup {"critical_file"}

\* bpftrace prints the file executed and nothing else.  auditd prints the
\* arguments, in quotes unless they hold a space: those it writes in
\* hexadecimal, which the expression for a0="..." skips.
Shown(c) == IF mode = "ebpf" THEN Executed[c] ELSE Words[c] \ {"curl u | sh"}

\* A critical file that is created or removed is reported, one that is only
\* opened for writing is not: no line of auditd holds the "WRTITTEN" that is
\* looked for.
_process_audit_line(text) ==
    IF {"critical", "nametype=CREATE"} \subseteq text THEN {"critical_file"} ELSE {}

Matches(text) ==
    {k \in DOMAIN SUSPICIOUS_COMMANDS : SUSPICIOUS_COMMANDS[k] \subseteq text}
        \cup _process_audit_line(text)

----------------------------------------------------------------------------
MTypeOK ==
    /\ mode \in {"none", "ebpf", "auditd"}
    /\ reader \in {"off", "starting", "reading", "ended"}
    /\ watcher \in {"off", "baseline", "sleeping", "polling", "emitting"}
    /\ seen \in [Paths -> 0..MaxTime]
    /\ caught \cup missed \subseteq Patterns

Init ==
    /\ QInit
    /\ mode = "none" /\ running = FALSE
    /\ reader = "off" /\ pipe = <<>>
    /\ watcher = "off" /\ todo = {} /\ emitting = Absent
    /\ seen = [p \in Paths |-> 0]
    /\ alarms = [p \in Paths |-> 0]
    /\ unstored = [p \in Paths |-> 0]
    /\ caught = {} /\ missed = {}

\* start: bpftrace if there is one, else auditd's log; `"active" in stdout' is
\* also true of an auditd that is inactive.  With neither nothing runs.
start ==
    /\ mode = "none" /\ ~running
    /\ mode' \in {"ebpf", "auditd"}
    /\ running' = TRUE
    /\ reader' = "starting"
    /\ watcher' = "baseline"
    /\ UNCHANGED <<qvars, pipe, todo, emitting, seen, alarms, unstored, caught, missed>>

\* stop cancels both tasks, wherever they are.
stop ==
    /\ running
    /\ running' = FALSE
    /\ reader' = "ended" /\ watcher' = "off"
    /\ pipe' = <<>> /\ todo' = {} /\ emitting' = Absent
    /\ UNCHANGED <<qvars, mode, seen, alarms, unstored, caught, missed>>

----------------------------------------------------------------------------
\* The reader of commands

\* The program starts, or is missing, or auditd has no log.
ReaderStarts ==
    /\ reader = "starting"
    /\ reader' \in {"reading"} \cup IF Faults THEN {"ended"} ELSE {}
    /\ UNCHANGED <<qvars, mode, running, pipe, watcher, todo, emitting, seen, alarms, unstored, caught, missed>>

HostExecutes(c) ==
    /\ reader = "reading" /\ (c \in Accesses => mode = "auditd")
    /\ Len(pipe) < MaxLines
    /\ pipe' = Append(pipe, Shown(c))
    /\ UNCHANGED <<qvars, mode, running, reader, watcher, todo, emitting, seen, alarms, unstored, caught, missed>>

_check_suspicious_command_skips ==
    /\ reader = "reading" /\ running
    /\ pipe # <<>>
    /\ pipe' = Tail(pipe)
    /\ UNCHANGED <<qvars, mode, running, reader, watcher, todo, emitting, seen, alarms, unstored, caught, missed>>

\* One line: every pattern it matches is a finding to store.  A statement that
\* fails loses that one and is only logged (_emit_finding).
_check_suspicious_command ==
    /\ reader = "reading" /\ running
    /\ pipe # <<>>
    /\ \E lost \in SUBSET Matches(Head(pipe)) :
           /\ lost # {} => Faults
           /\ caught' = Matches(Head(pipe)) \ lost
           /\ missed' = lost
    /\ pipe' = Tail(pipe)
    /\ UNCHANGED <<qvars, mode, running, reader, watcher, todo, emitting, seen, alarms, unstored>>

\* Nothing executed for five seconds (ten with auditd): the wait times out,
\* the TimeoutError is caught outside the loop, and the task is over.
QuietSpell ==
    /\ reader = "reading" /\ pipe = <<>>
    /\ reader' = "ended"
    /\ UNCHANGED <<qvars, mode, running, pipe, watcher, todo, emitting, seen, alarms, unstored, caught, missed>>

\* The program it reads from ends.
EndOfFile ==
    /\ Faults
    /\ reader = "reading" /\ pipe = <<>>
    /\ reader' = "ended"
    /\ UNCHANGED <<qvars, mode, running, pipe, watcher, todo, emitting, seen, alarms, unstored, caught, missed>>

----------------------------------------------------------------------------
\* The watcher of files

\* The record of a file holds its date and a digest that nothing compares; a
\* file that cannot be read is not recorded at all.
Record(p, t) == IF fs[p] # Absent /\ p \in Readable THEN t ELSE seen[p]

Baseline ==
    /\ watcher = "baseline"
    /\ seen' = [p \in Paths |-> IF fs[p] = Absent THEN 0 ELSE Record(p, fs[p].t)]
    /\ watcher' = "sleeping"
    /\ UNCHANGED <<qvars, mode, running, reader, pipe, todo, emitting, alarms, unstored, caught, missed>>

RoundBegins ==
    /\ watcher = "sleeping" /\ running
    /\ watcher' = "polling"
    /\ todo' = Paths
    /\ UNCHANGED <<qvars, mode, running, reader, pipe, emitting, seen, alarms, unstored, caught, missed>>

PollFile_silent(p) ==
    /\ watcher = "polling" /\ p \in todo
    /\ todo' = todo \ {p}
    /\ seen' = IF fs[p] = Absent THEN seen ELSE [seen EXCEPT ![p] = Record(p, fs[p].t)]
    /\ UNCHANGED <<qvars, mode, running, reader, pipe, watcher, emitting, alarms, unstored, caught, missed>>

\* A file that is missing is passed over: a deletion is never reported, nor is
\* the first sight of a file that was not there at the start.
PollFile(p) ==
    /\ watcher = "polling" /\ p \in todo
    /\ todo' = todo \ {p}
    /\ IF fs[p] # Absent /\ seen[p] # 0 /\ fs[p].t # seen[p]
       THEN watcher' = "emitting" /\ emitting' = [path |-> p, t |-> fs[p].t] /\ UNCHANGED seen
       ELSE /\ seen' = IF fs[p] = Absent THEN seen ELSE [seen EXCEPT ![p] = Record(p, fs[p].t)]
            /\ UNCHANGED <<watcher, emitting>>
    /\ UNCHANGED <<qvars, mode, running, reader, pipe, alarms, unstored, caught, missed>>

\* The date recorded is the one read before the finding was stored, so a change
\* made meanwhile shows in the next round.  A file that has gone meanwhile
\* raises, and the old record stays.  When the finding could not be stored the
\* date is recorded all the same, and nothing comes back to it.
PollEmit ==
    /\ watcher = "emitting"
    /\ \/ /\ alarms' = [alarms EXCEPT ![emitting.path] = emitting.t]
          /\ UNCHANGED unstored
       \/ /\ Faults
          /\ unstored' = [unstored EXCEPT ![emitting.path] = emitting.t]
          /\ UNCHANGED alarms
    /\ seen' = [seen EXCEPT ![emitting.path] = Record(emitting.path, emitting.t)]
    /\ emitting' = Absent
    /\ watcher' = "polling"
    /\ UNCHANGED <<qvars, mode, running, reader, pipe, todo, caught, missed>>

RoundEnds ==
    /\ watcher = "polling" /\ todo = {}
    /\ watcher' = "sleeping"
    /\ UNCHANGED <<qvars, mode, running, reader, pipe, todo, emitting, seen, alarms, unstored, caught, missed>>

Reads == ReaderStarts \/ _check_suspicious_command
Watches == Baseline \/ RoundBegins \/ (\E p \in Paths : PollFile(p)) \/ PollEmit \/ RoundEnds

Next ==
    \/ QNext /\ UNCHANGED mvars
    \/ start \/ stop
    \/ Reads \/ QuietSpell \/ EndOfFile
    \/ \E c \in Commands \cup Accesses : HostExecutes(c)
    \/ Watches

\* The two tasks go on while there is something to do.
MonitorSpec == Init /\ [][Next]_vars /\ WF_vars(Reads) /\ WF_vars(Watches)

----------------------------------------------------------------------------
\* A change of a recorded file does not go by: the record moves on only to a
\* date whose finding was stored, or failed to be, which is the one way to lose
\* it; and as long as the monitor runs a date that differs from the record is
\* reported or put back, whoever writes the file while a finding is stored.
Stale(p) == running /\ seen[p] # 0 /\ fs[p] # Absent /\ fs[p].t # seen[p]

RecordsReported ==
    [][\A p \in Paths : seen[p] # 0 /\ seen'[p] # seen[p] /\ running =>
            seen'[p] \in {alarms'[p], unstored'[p]}]_vars

ChangesReported ==
    /\ RecordsReported
    /\ \A p \in Paths :
           Stale(p) ~> (~Stale(p) \/ (watcher = "emitting" /\ emitting.path = p))

\* A suspicious command, or a critical file created, whose line reached the
\* reader becomes a finding, unless the reader is stopped first or storing it
\* fails.
CommandsCaught ==
    \A k \in Patterns :
        (reader = "reading" /\ \E i \in DOMAIN pipe : k \in Matches(pipe[i]))
            ~> (k \in caught \cup missed \/ reader = "ended")

\* What the monitor promises, in one.
AlarmsComplete == []MTypeOK /\ ChangesReported /\ CommandsCaught
============================================================================
