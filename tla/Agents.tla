------------------------------ MODULE Agents -------------------------------
(* Agents report their audits to a manager (core/agent.py): one POST per    *)
(* audit, never repeated; the manager stores it as a completed audit of the *)
(* organisation the key belongs to, and keeps in memory what each agent     *)
(* said last.                                                               *)
EXTENDS Naturals, FiniteSets

CONSTANTS
    AgentNames, \* names of agents, as the manager cleans them
    Tenants,    \* organisations; "default" is the platform's
    Reports,    \* audits to report
    MaxBeats,   \* bound on heartbeats sent
    MaxRestarts,\* bound on restarts of the manager
    Lossy       \* whether calls fail and answers get lost

\* Reports are numbered from one: 0 is an agent that has none stored.
ASSUME AgentsAssumption == 0 \notin Reports

VARIABLES
    report,     \* report -> [pc, by, key, total, scan, told] on its way
    keys,       \* organisation -> its agent key's number; rotating makes a new one
    scans,      \* audits the manager has stored: [report, tenant, status, total]
    agents,     \* organisation -> name -> what list_agents shows, or Nothing
    beats,      \* heartbeats on their way: [by, tenant, at]
    sentBeats,  \* bound
    clock,      \* dates that agents put on what they send
    restarts    \* bound

agentsVars == <<report, keys, scans, agents, beats, sentBeats, clock, restarts>>

Nothing == [last_seen |-> 0, total |-> 0, report |-> 0, online |-> FALSE]
NoReport == [pc |-> "none", by |-> "none", tenant |-> "none", key |-> 0, total |-> 0, at |-> 0, told |-> "none"]

Stages == {"none", "sent", "create", "complete"}
Answers == {"none", "yes", "no"}
Posts == [pc : Stages, by : AgentNames \cup {"none"}, tenant : Tenants \cup {"none"}, key : {0, 1},
          total : Nat, at : Nat, told : Answers]
Audits == [report : Reports, tenant : Tenants, status : {"running", "completed"}, total : Nat]
Entries == [last_seen : Nat, total : Nat, report : Reports \cup {0}, online : BOOLEAN]

AgentsTypeOK ==
    /\ report \in [Reports -> Posts]
    /\ keys \in [Tenants -> {1, 2}]
    /\ scans \subseteq Audits
    /\ agents \in [Tenants -> [AgentNames -> Entries]]
    /\ beats \subseteq [by : AgentNames, tenant : Tenants, at : Nat]
    /\ clock \in Nat /\ restarts \in Nat

AgentsInit ==
    /\ report = [r \in Reports |-> NoReport]
    /\ keys = [t \in Tenants |-> 1]
    /\ scans = {}
    /\ agents = [t \in Tenants |-> [n \in AgentNames |-> Nothing]]
    /\ beats = {}
    /\ sentBeats = 0
    /\ clock = 1
    /\ restarts = 0

----------------------------------------------------------------------------
\* The agent

Becomes(r, pc, told) == report' = [report EXCEPT ![r] = [@ EXCEPT !.pc = pc, !.told = told]]

\* report_scan: without a URL and a key nothing is sent.  The key is the one it
\* was configured with.
report_scan(r, n, t, findings) ==
    /\ report[r].pc = "none" /\ report[r].told = "none"
    /\ report' = [report EXCEPT ![r] =
          [pc |-> "sent", by |-> n, tenant |-> t, key |-> 1, total |-> findings, at |-> clock, told |-> "none"]]
    /\ clock' = clock + 1
    /\ UNCHANGED <<keys, scans, agents, beats, sentBeats, restarts>>

\* Thirty seconds, a refused connection, another status: False, and nobody
\* tries again.  The manager may have stored the report, or be about to.
Unanswered(r) ==
    /\ Lossy
    /\ report[r].pc # "none" /\ report[r].told = "none"
    /\ Becomes(r, IF report[r].pc = "sent" THEN "none" ELSE report[r].pc, "no")
    /\ UNCHANGED <<keys, scans, agents, beats, sentBeats, clock, restarts>>

\* heartbeat: nothing in the repository calls it on a timer.
heartbeat(n, t) ==
    /\ sentBeats < MaxBeats /\ sentBeats' = sentBeats + 1
    /\ beats' = beats \cup {[by |-> n, tenant |-> t, at |-> clock]}
    /\ clock' = clock + 1
    /\ UNCHANGED <<report, keys, scans, agents, restarts>>

----------------------------------------------------------------------------
\* The manager

\* The middleware finds the organisation by its key; the platform's own key is
\* compared by the handler.  A report whose findings are not a list, or whose
\* score is not one, is refused too.
api_agent_report(r) ==
    /\ report[r].pc = "sent"
    /\ IF report[r].key = keys[report[r].tenant]
       THEN Becomes(r, "create", "none") \/ (Lossy /\ Becomes(r, "none", "no"))
       ELSE Becomes(r, "none", "no")
    /\ UNCHANGED <<keys, scans, agents, beats, sentBeats, clock, restarts>>

Audit(r, t, status, n) == [report |-> r, tenant |-> t, status |-> status, total |-> n]

\* create_scan
ReportCreate(r) ==
    /\ report[r].pc = "create"
    /\ scans' = scans \cup {Audit(r, report[r].tenant, "running", 0)}
    /\ Becomes(r, "complete", report[r].told)
    /\ UNCHANGED <<keys, agents, beats, sentBeats, clock, restarts>>

\* Mutant: the registry is brought up to date before the audit is stored.
ReportComplete_later(r) ==
    /\ report[r].pc = "complete"
    /\ agents' = [agents EXCEPT ![report[r].tenant][report[r].by] =
          [last_seen |-> report[r].at, total |-> report[r].total, report |-> r, online |-> FALSE]]
    /\ Becomes(r, "none", IF report[r].told = "none" THEN "yes" ELSE "no")
    /\ UNCHANGED <<keys, scans, beats, sentBeats, clock, restarts>>

\* complete_scan, then the registry and the answer, with nothing in between: the
\* entry is replaced as a whole, by whichever report finishes last.
ReportComplete(r) ==
    /\ report[r].pc = "complete"
    /\ scans' = {IF s.report = r THEN Audit(r, s.tenant, "completed", report[r].total) ELSE s : s \in scans}
    /\ agents' = [agents EXCEPT ![report[r].tenant][report[r].by] =
          [last_seen |-> report[r].at, total |-> report[r].total, report |-> r, online |-> FALSE]]
    /\ Becomes(r, "none", IF report[r].told = "none" THEN "yes" ELSE "no")
    /\ UNCHANGED <<keys, beats, sentBeats, clock, restarts>>

\* A statement raises: an error is answered, and the audit stays running.
ReportFails(r) ==
    /\ Lossy
    /\ report[r].pc \in {"create", "complete"}
    /\ Becomes(r, "none", "no")
    /\ UNCHANGED <<keys, scans, agents, beats, sentBeats, clock, restarts>>

\* Mutant: the entry is made anew.
receive_heartbeat_anew(b) ==
    /\ b \in beats
    /\ beats' = beats \ {b}
    /\ agents' = [agents EXCEPT ![b.tenant][b.by] = [Nothing EXCEPT !.last_seen = b.at, !.online = TRUE]]
    /\ UNCHANGED <<report, keys, scans, sentBeats, clock, restarts>>

\* A heartbeat changes its own fields of the entry; a late one puts back an
\* earlier date.
receive_heartbeat(b) ==
    /\ b \in beats
    /\ beats' = beats \ {b}
    /\ agents' = [agents EXCEPT ![b.tenant][b.by].last_seen = b.at, ![b.tenant][b.by].online = TRUE]
    /\ UNCHANGED <<report, keys, scans, sentBeats, clock, restarts>>

BeatLost(b) ==
    /\ Lossy /\ b \in beats
    /\ beats' = beats \ {b}
    /\ UNCHANGED <<report, keys, scans, agents, sentBeats, clock, restarts>>

\* The key of an organisation is rotated; its agents keep the old one until
\* somebody configures them.
RotateKey(t) ==
    /\ keys[t] = 1
    /\ keys' = [keys EXCEPT ![t] = 2]
    /\ UNCHANGED <<report, scans, agents, beats, sentBeats, clock, restarts>>

\* The registry is in memory, and so is what was being handled.
ManagerRestarts ==
    /\ restarts < MaxRestarts /\ restarts' = restarts + 1
    /\ agents' = [t \in Tenants |-> [n \in AgentNames |-> Nothing]]
    /\ report' = [r \in Reports |->
          IF report[r].pc \in {"create", "complete"} THEN [report[r] EXCEPT !.pc = "none", !.told = "no"]
          ELSE report[r]]
    /\ UNCHANGED <<keys, scans, beats, sentBeats, clock>>

AgentsNext ==
    \/ \E r \in Reports :
           \/ \E n \in AgentNames, t \in Tenants, k \in 1 .. 2 : report_scan(r, n, t, k)
           \/ Unanswered(r) \/ api_agent_report(r) \/ ReportCreate(r) \/ ReportComplete(r) \/ ReportFails(r)
    \/ \E n \in AgentNames, t \in Tenants : heartbeat(n, t)
    \/ \E b \in beats : receive_heartbeat(b) \/ BeatLost(b)
    \/ \E t \in Tenants : RotateKey(t)
    \/ ManagerRestarts

AgentsSpec == AgentsInit /\ [][AgentsNext]_agentsVars

----------------------------------------------------------------------------
Stored(r) == {s \in scans : s.report = r /\ s.status = "completed"}

\* An agent that was told its report was received has it stored once, whole and
\* in its own organisation; an agent that was told nothing may have it stored
\* all the same.
ToldIsStored ==
    \A r \in Reports :
        /\ report[r].told = "yes" =>
               \E s \in Stored(r) : s.tenant = report[r].tenant /\ s.total = report[r].total
        /\ Cardinality({s \in scans : s.report = r}) <= 1

\* The list of agents shows, for each, the total of an audit of its own that is
\* stored in the same organisation; heartbeats between do not lose it.
ListedIsStored ==
    \A t \in Tenants, n \in AgentNames :
        LET a == agents[t][n] IN
        /\ a.report # 0 => \E s \in Stored(a.report) :
               s.tenant = t /\ s.total = a.total /\ report[s.report].by = n
        \* once an agent's report was stored, only a restart forgets it
        /\ restarts = 0 /\ (\E r \in Reports : report[r].told = "yes" /\ report[r].by = n /\ report[r].tenant = t)
               => a.report # 0

\* What is stored of the agents' reports, in one.
ReportsStored == AgentsTypeOK /\ ToldIsStored /\ ListedIsStored
============================================================================
