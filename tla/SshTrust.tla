----------------------------- MODULE SshTrust ------------------------------
(* Who an organisation connects to over SSH, and with what: the host keys it *)
(* has seen (core/ssh_host_keys.py), the credentials it keeps                *)
(* (core/ssh_credentials.py), the addresses it may analyse (core/scope.py),  *)
(* and the connection that puts them together (RemoteAuditor._connect).      *)
(* Everything here awaits: between two steps of a connection or of a request *)
(* others run, the host behind a name changes, an administrator forgets a    *)
(* key, or the platform narrows the organisation's scope.                    *)
EXTENDS Naturals, FiniteSets

CONSTANTS
    Hosts,      \* names a target may have, all with the same port
    Keys,       \* host keys
    Jobs,       \* connections: of a scan, a fix, an undo or a schedule
    Creds,      \* ids of saved credentials
    Scheds,     \* scheduled tasks
    Requests,   \* requests that are being handled
    MAX_PER_TENANT, \* credentials an organisation may save
    MaxMoves,   \* bound on changes of hosts, scopes, keys forgotten and secrets
    Unreliable  \* whether connections and statements fail

ASSUME SshAssumption ==
    /\ "none" \notin Hosts \cup Keys \cup Creds
    /\ IsFiniteSet(Creds) /\ IsFiniteSet(Requests)
    /\ MAX_PER_TENANT \in Nat \ {0}

VARIABLES
    at,         \* host -> the machine that answers there: its key, its network
    allowed,    \* allowed_targets: "domain" and "mine", its network
    pinned,     \* the table ssh_host_keys: host -> key, or "none"
    creds,      \* the table ssh_credentials: id -> [kind, secret, sealed], or none
    sched,      \* the table schedules: id -> [host, cred] or none
    auth_secret,\* which secret seals credentials
    job,        \* connection -> where it is
    req,        \* request -> where it is
    moves,      \* bound
    epoch,      \* ghost: host -> times its key was forgotten
    runs,       \* ghost: host -> keys of the machines on which commands ran for
                \* connections that found a key saved, since it was last forgotten
    raced       \* ghost: credentials deleted while a schedule with them was made

sshVars == <<at, allowed, pinned, creds, sched, auth_secret, job, req, moves, epoch, runs, raced>>

Networks == {"global", "mine", "foreign"}
NoCred == [kind |-> "none", secret |-> "none", sealed |-> 0]
NoSched == [host |-> "none", cred |-> "none"]
NoJob == [pc |-> "none", host |-> "none", cred |-> "none", pinned |-> "none", key |-> "none",
          epoch |-> 0, blind |-> FALSE, moved |-> FALSE]
NoReq == [pc |-> "none", op |-> "none", cred |-> "none", to |-> NoSched]

Secrets == [kind : {"none", "key", "password"}, secret : {"none", "key", "password"}, sealed : Nat]
Tasks == [host : Hosts \cup {"none"}, cred : Creds \cup {"none"}]
JobStages == {"none", "scope", "cred", "pin", "connect", "save", "run"}
JobStates == [pc : JobStages, host : Hosts \cup {"none"}, cred : Creds \cup {"none"}, pinned : Keys \cup {"none"},
              key : Keys \cup {"none"}, epoch : Nat, blind : BOOLEAN, moved : BOOLEAN]
RequestStates == [pc : {"none", "write"}, op : {"none", "create", "update", "delete", "schedule"},
                  cred : Creds \cup {"none"}, to : Tasks]

SshTypeOK ==
    /\ at \in [Hosts -> [key : Keys, net : Networks]]
    /\ allowed \subseteq {"domain", "mine"}
    /\ pinned \in [Hosts -> Keys \cup {"none"}]
    /\ creds \in [Creds -> Secrets]
    /\ sched \in [Scheds -> Tasks]
    /\ auth_secret \in Nat /\ moves \in Nat
    /\ job \in [Jobs -> JobStates]
    /\ req \in [Requests -> RequestStates]
    /\ epoch \in [Hosts -> Nat]
    /\ runs \in [Hosts -> SUBSET Keys]
    /\ raced \subseteq Creds

SshInit ==
    /\ at \in [Hosts -> [key : Keys, net : {"global", "mine"}]]
    /\ allowed = {"domain", "mine"}
    /\ pinned = [h \in Hosts |-> "none"]
    /\ creds = [c \in Creds |-> NoCred]
    /\ sched \in [Scheds -> {NoSched} \cup {[host |-> h, cred |-> "none"] : h \in Hosts}]
    /\ auth_secret = 1
    /\ job = [j \in Jobs |-> NoJob]
    /\ req = [r \in Requests |-> NoReq]
    /\ moves = 0
    /\ epoch = [h \in Hosts |-> 0]
    /\ runs = [h \in Hosts |-> {}]
    /\ raced = {}

----------------------------------------------------------------------------
\* The scope

\* Mutant: a name whose domain is allowed may lead anywhere.
check_name_only(h, resolved) == "domain" \in allowed

\* The domain is allowed, and the address it has now is public or in a network
\* that is allowed too.  A name that does not resolve in five seconds has no
\* address that could be outside, and passes.
check(h, resolved) ==
    /\ "domain" \in allowed
    /\ resolved => at[h].net = "global" \/ at[h].net \in allowed

\* An organisation with nothing allowed analyses nothing.
_out_of_scope(h, resolved) == allowed = {} \/ ~check(h, resolved)

\* Whether the name resolves (_resolve).
Resolves == {TRUE} \cup IF Unreliable THEN {FALSE} ELSE {}

----------------------------------------------------------------------------
\* A connection

Refuse(j) == job' = [job EXCEPT ![j] = NoJob]
To(j, pc) == job' = [job EXCEPT ![j].pc = pc]

Saved(c) == creds[c].kind # "none"

\* A scan or a fix names the host and the credential; "none" is user and
\* password given with the request.
Ask(j, h, c) ==
    /\ job[j].pc = "none"
    /\ job' = [job EXCEPT ![j] = [NoJob EXCEPT !.pc = "scope", !.host = h, !.cred = c]]
    /\ UNCHANGED <<at, allowed, pinned, creds, sched, auth_secret, req, moves, epoch, runs, raced>>

\* Mutant: what was checked when it was saved is not checked again.
RunSchedule_unchecked(j, s) ==
    /\ job[j].pc = "none" /\ sched[s] # NoSched
    /\ job' = [job EXCEPT ![j] = [NoJob EXCEPT !.pc = "cred", !.host = sched[s].host,
                                               !.cred = sched[s].cred]]
    /\ UNCHANGED <<at, allowed, pinned, creds, sched, auth_secret, req, moves, epoch, runs, raced>>

\* A schedule was within the scope when it was saved; it is checked again when
\* it runs.
RunSchedule(j, s) ==
    /\ sched[s] # NoSched
    /\ Ask(j, sched[s].host, sched[s].cred)

CheckScope(j) ==
    /\ job[j].pc = "scope"
    /\ \E resolved \in Resolves :
           \/ _out_of_scope(job[j].host, resolved) /\ Refuse(j)
           \/ /\ ~_out_of_scope(job[j].host, resolved)
              /\ job' = [job EXCEPT ![j] = [@ EXCEPT !.pc = "cred", !.blind = ~resolved]]
    /\ UNCHANGED <<at, allowed, pinned, creds, sched, auth_secret, req, moves, epoch, runs, raced>>

\* A saved credential must still be there and be sealed with today's secret.
_ssh_creds(j) ==
    /\ job[j].pc = "cred"
    /\ IF job[j].cred = "none" \/ (Saved(job[j].cred) /\ creds[job[j].cred].sealed = auth_secret)
       THEN To(j, "pin") ELSE Refuse(j)
    /\ UNCHANGED <<at, allowed, pinned, creds, sched, auth_secret, req, moves, epoch, runs, raced>>

\* known: the key saved for this host and port.
LookUp(j) ==
    /\ job[j].pc = "pin"
    /\ job' = [job EXCEPT ![j] = [@ EXCEPT !.pc = "connect", !.pinned = pinned[job[j].host],
                                           !.epoch = epoch[job[j].host]]]
    /\ UNCHANGED <<at, allowed, pinned, creds, sched, auth_secret, req, moves, epoch, runs, raced>>

\* Another key than the one saved ends the connection; so does a machine that
\* does not answer or does not take the credential.
Connect(j) ==
    /\ job[j].pc = "connect"
    /\ \/ /\ job[j].pinned \in {"none", at[job[j].host].key}
          /\ job' = [job EXCEPT ![j] = [@ EXCEPT !.pc = "save", !.key = at[job[j].host].key]]
       \/ /\ Unreliable \/ job[j].pinned \notin {"none", at[job[j].host].key}
          /\ Refuse(j)
    /\ UNCHANGED <<at, allowed, pinned, creds, sched, auth_secret, req, moves, epoch, runs, raced>>

\* Mutant: the last one wins.
Learn_overwrites(h, k) == pinned' = [pinned EXCEPT ![h] = k]

\* add_ssh_host_key: ON CONFLICT DO NOTHING.
Learn(h, k) == pinned' = IF pinned[h] = "none" THEN [pinned EXCEPT ![h] = k] ELSE pinned

\* The first key is saved; for a key that was known only the date is.  A
\* statement that fails closes the connection.
SaveKey(j) ==
    /\ job[j].pc = "save"
    /\ \/ /\ IF job[j].pinned = "none" THEN Learn(job[j].host, job[j].key) ELSE UNCHANGED pinned
          /\ To(j, "run")
          /\ runs' = IF job[j].pinned # "none" /\ job[j].epoch = epoch[job[j].host]
                     THEN [runs EXCEPT ![job[j].host] = @ \cup {job[j].key}] ELSE runs
       \/ Unreliable /\ Refuse(j) /\ UNCHANGED <<pinned, runs>>
    /\ UNCHANGED <<at, allowed, creds, sched, auth_secret, req, moves, epoch, raced>>

\* The script runs and the connection closes.
Close(j) ==
    /\ job[j].pc = "run"
    /\ Refuse(j)
    /\ UNCHANGED <<at, allowed, pinned, creds, sched, auth_secret, req, moves, epoch, runs, raced>>

----------------------------------------------------------------------------
\* Requests: the first step of each reads and decides, the second writes

Ends(r) == req' = [req EXCEPT ![r] = NoReq]
Goes(r, op, c, to) ==
    /\ req[r].pc = "none"
    /\ req' = [req EXCEPT ![r] = [pc |-> "write", op |-> op, cred |-> c, to |-> to]]

api_ssh_credentials_create(r) ==
    /\ Cardinality({c \in Creds : Saved(c)}) < MAX_PER_TENANT
    /\ Goes(r, "create", "none", NoSched)
    /\ UNCHANGED <<at, allowed, pinned, creds, sched, auth_secret, job, moves, epoch, runs, raced>>

\* prepare: a key or a password, sealed with the secret of the moment.
CredentialInsert(r, c) ==
    /\ req[r].op = "create" /\ ~Saved(c)
    /\ \A s \in Scheds : sched[s].cred # c          \* a fresh id
    /\ \A q \in Requests : req[q].to.cred # c
    /\ \A j \in Jobs : job[j].cred # c
    /\ \E k \in {"key", "password"} :
           creds' = [creds EXCEPT ![c] = [kind |-> k, secret |-> k, sealed |-> auth_secret]]
    /\ raced' = raced \ {c}
    /\ Ends(r)
    /\ UNCHANGED <<at, allowed, pinned, sched, auth_secret, job, moves, epoch, runs>>

\* An update of other fields keeps kind and secret; a new secret brings its kind.
api_ssh_credentials_update(r, c) ==
    /\ Saved(c)
    /\ Goes(r, "update", c, NoSched)
    /\ UNCHANGED <<at, allowed, pinned, creds, sched, auth_secret, job, moves, epoch, runs, raced>>

CredentialUpdate(r) ==
    /\ req[r].op = "update"
    /\ \E k \in {"key", "password"} :
           creds' = IF Saved(req[r].cred)
                    THEN [creds EXCEPT ![req[r].cred] =
                             [kind |-> k, secret |-> k, sealed |-> auth_secret]]
                    ELSE creds
    /\ Ends(r)
    /\ UNCHANGED <<at, allowed, pinned, sched, auth_secret, job, moves, epoch, runs, raced>>

\* Mutant: whatever uses it.
api_ssh_credentials_delete_any(r, c) ==
    /\ Saved(c)
    /\ Goes(r, "delete", c, NoSched)
    /\ UNCHANGED <<at, allowed, pinned, creds, sched, auth_secret, job, moves, epoch, runs, raced>>

\* Not while schedules use it.
api_ssh_credentials_delete(r, c) ==
    /\ Saved(c)
    /\ \A s \in Scheds : sched[s].cred # c
    /\ Goes(r, "delete", c, NoSched)
    /\ UNCHANGED <<at, allowed, pinned, creds, sched, auth_secret, job, moves, epoch, runs, raced>>

CredentialDelete(r) ==
    /\ req[r].op = "delete"
    /\ creds' = [creds EXCEPT ![req[r].cred] = NoCred]
    /\ raced' = IF \E q \in Requests : req[q].op = "schedule" /\ req[q].to.cred = req[r].cred
                THEN raced \cup {req[r].cred} ELSE raced
    /\ Ends(r)
    /\ UNCHANGED <<at, allowed, pinned, sched, auth_secret, job, moves, epoch, runs>>

\* _schedule_problem: the credential exists and the target is within the scope.
_schedule_problem(h, c) ==
    (c # "none" /\ ~Saved(c)) \/ \A resolved \in Resolves : _out_of_scope(h, resolved)

api_schedules_create(r, h, c) ==
    /\ ~_schedule_problem(h, c)
    /\ Goes(r, "schedule", "none", [host |-> h, cred |-> c])
    /\ UNCHANGED <<at, allowed, pinned, creds, sched, auth_secret, job, moves, epoch, runs, raced>>

ScheduleWrite(r, s) ==
    /\ req[r].op = "schedule"
    /\ sched' = [sched EXCEPT ![s] = req[r].to]
    /\ raced' = IF \E q \in Requests : req[q].op = "delete" /\ req[q].cred = req[r].to.cred
                THEN raced \cup {req[r].to.cred} ELSE raced
    /\ Ends(r)
    /\ UNCHANGED <<at, allowed, pinned, creds, auth_secret, job, moves, epoch, runs>>

ScheduleDelete(s) ==
    /\ sched[s] # NoSched
    /\ sched' = [sched EXCEPT ![s] = NoSched]
    /\ UNCHANGED <<at, allowed, pinned, creds, auth_secret, job, req, moves, epoch, runs, raced>>

\* An administrator forgets a host's key: the next connection saves the one it
\* is shown.
api_ssh_host_keys_delete(h) ==
    /\ pinned[h] # "none" /\ moves < MaxMoves
    /\ moves' = moves + 1
    /\ pinned' = [pinned EXCEPT ![h] = "none"]
    /\ epoch' = [epoch EXCEPT ![h] = @ + 1]
    /\ runs' = [runs EXCEPT ![h] = {}]
    /\ UNCHANGED <<at, allowed, creds, sched, auth_secret, job, req, raced>>

----------------------------------------------------------------------------
\* The world: another machine answers, another scope, another auth.secret

HostMoves(h) ==
    /\ moves < MaxMoves /\ moves' = moves + 1
    /\ \E m \in [key : Keys, net : Networks] : at' = [at EXCEPT ![h] = m]
    /\ job' = [j \in Jobs |-> [job[j] EXCEPT !.moved = @ \/ (job[j].host = h /\ job[j].pc # "none")]]
    /\ UNCHANGED <<allowed, pinned, creds, sched, auth_secret, req, epoch, runs, raced>>

ScopeChanges ==
    /\ moves < MaxMoves /\ moves' = moves + 1
    /\ \E a \in SUBSET {"domain", "mine"} : allowed' = a
    /\ job' = [j \in Jobs |-> [job[j] EXCEPT !.moved = @ \/ job[j].pc # "none"]]
    /\ UNCHANGED <<at, pinned, creds, sched, auth_secret, req, epoch, runs, raced>>

\* auth.secret changes with a restart, which ends what is under way.
SecretChanges ==
    /\ moves < MaxMoves /\ moves' = moves + 1
    /\ auth_secret' = auth_secret + 1
    /\ job' = [j \in Jobs |-> NoJob]
    /\ req' = [r \in Requests |-> NoReq]
    /\ UNCHANGED <<at, allowed, pinned, creds, sched, epoch, runs, raced>>

SshNext ==
    \/ \E j \in Jobs :
           \/ \E h \in Hosts, c \in Creds \cup {"none"} : Ask(j, h, c)
           \/ \E s \in Scheds : RunSchedule(j, s)
           \/ CheckScope(j) \/ _ssh_creds(j) \/ LookUp(j) \/ Connect(j) \/ SaveKey(j) \/ Close(j)
    \/ \E r \in Requests :
           \/ api_ssh_credentials_create(r) \/ CredentialUpdate(r) \/ CredentialDelete(r)
           \/ \E c \in Creds : \/ CredentialInsert(r, c)
                               \/ api_ssh_credentials_update(r, c)
                               \/ api_ssh_credentials_delete(r, c)
           \/ \E h \in Hosts, c \in Creds \cup {"none"} : api_schedules_create(r, h, c)
           \/ \E s \in Scheds : ScheduleWrite(r, s)
    \/ \E s \in Scheds : ScheduleDelete(s)
    \/ \E h \in Hosts : api_ssh_host_keys_delete(h) \/ HostMoves(h)
    \/ ScopeChanges \/ SecretChanges

SshSpec == SshInit /\ [][SshNext]_sshVars

----------------------------------------------------------------------------
\* A connection that finds a key saved for a host runs its commands on a
\* machine with that key, until an administrator forgets it, whichever
\* connections raced to be the first.  Nothing is promised of those that found
\* none: each runs on the machine it met, whatever key the first one saved.
HostKeysHold ==
    \A h \in Hosts : pinned[h] # "none" => runs[h] \subseteq {pinned[h]}

\* What the check of the scope leaves a connection with.
Within(x) ==
    /\ "domain" \in allowed
    /\ x.blind \/ at[x.host].net \in {"global"} \cup (allowed \cap {"mine"})

\* Commands run only on a machine the organisation may analyse, unless the
\* name has moved or the scope was changed since the connection was asked for,
\* or it did not resolve when it was checked: the name is resolved once for the
\* check and again to connect.  The domain is one that is allowed all the same.
ScopeKept ==
    \A j \in Jobs : job[j].pc \in {"cred", "pin", "connect", "save", "run"} /\ ~job[j].moved => Within(job[j])

\* What an organisation's connections rest on, in one.
ConnectionsTrusted == HostKeysHold /\ ScopeKept

\* A scheduled task keeps its credential, unless the deletion and the task's
\* creation overlapped; there are no more credentials than the limit and one
\* for each request that was counting at the same time.
CredentialsKept ==
    /\ \A s \in Scheds : sched[s].cred # "none" => Saved(sched[s].cred) \/ sched[s].cred \in raced
    /\ Cardinality({c \in Creds : Saved(c)}) <= MAX_PER_TENANT + Cardinality(Requests) - 1
    /\ \A c \in Creds : creds[c].kind = creds[c].secret

\* What an organisation may rely on when it connects, in one.
TrustKept == SshTypeOK /\ ConnectionsTrusted /\ CredentialsKept
============================================================================
