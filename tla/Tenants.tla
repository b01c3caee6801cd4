------------------------------ MODULE Tenants ------------------------------
(***************************************************************************)
(* The organisations of a multi-tenant server and their databases: the     *)
(* registry in tenants.json (TenantStore), one SQLite file per slug, the   *)
(* databases that are open (TenantDatabases), the requests and long tasks  *)
(* that reach them through the slug of their context (TenantRouter), the   *)
(* deletion that sets the file aside, and the slug created again.          *)
(*                                                                         *)
(* An organisation is a number: the n-th that was created.  Of a database  *)
(* only this is kept: whether it has tables, and whose rows are in it.     *)
(*                                                                         *)
(* A work is suspended in the statement that its pc names: a call of the   *)
(* database is bound to its slug when it is made, and finds the file that  *)
(* has that name when it runs.                                             *)
(***************************************************************************)
EXTENDS Integers, FiniteSets

CONSTANTS
  Slugs,
  Works,        \* requests and tasks at the same time
  MaxOrgs,      \* bound: organisations ever created
  MaxSeconds,   \* bound: seconds that archives are named after
  MaxRestarts,  \* bound: restarts of the server
  Faults        \* may statements raise?

ASSUME TenantsAssumption ==
  /\ MaxOrgs \in Nat /\ MaxSeconds \in Nat /\ MaxRestarts \in Nat
  /\ Faults \in BOOLEAN

VARIABLES
  registry,     \* TenantStore: slug -> the organisation that has it, or had it last
  file,         \* slug -> the file tenants/<slug>.db
  archived,     \* slug, second -> whose rows the file <slug>.db.baja-<second> has
  open,         \* TenantDatabases._dbs: slugs whose database is open
  work,         \* the requests and tasks under way
  made,         \* organisations created so far
  second,       \* the clock, in seconds
  restarts,     \* restarts so far
  wrote,        \* history: organisations that have stored something
  deletions,    \* history: slug, second -> files that were set aside then
  kept,         \* history: slugs whose file stayed when they were no more registered
  crossed,      \* history: slugs where a work begun before the deletion wrote after it
  raced,        \* history: slugs opened after their deletion had taken the file away
  unled         \* history: organisations made without an administrator, or whose
                \* creation did not end

vars == <<registry, file, archived, open, work, made, second, restarts,
          wrote, deletions, kept, crossed, raced, unled>>

Orgs    == 1 .. MaxOrgs
Seconds == 0 .. MaxSeconds

\* Who works: the superadmin who creates the organisation, with a first administrator
\* or without; a member, whose session is a row of its database; the superadmin who
\* looks into it; an agent, with its key.
Creations == {"creation", "bare creation"}
Kinds     == Creations \cup {"member", "superadmin", "agent"}

NoFile == [tables |-> FALSE, data |-> {0}]
Idle   == [pc |-> "idle"]
Work   == [pc: {"init", "opened", "session", "write"}, kind: Kinds, slug: Slugs,
           org: Orgs, own: BOOLEAN]   \* own (history): registered when it came, or let in
                                      \* by rows that an earlier deletion left

TypeOK ==
  /\ registry \in [Slugs -> [active: BOOLEAN, org: 0 .. MaxOrgs]]
  /\ file \in [Slugs -> [tables: BOOLEAN, data: SUBSET Orgs] \cup {NoFile}]
  /\ archived \in [Slugs \X Seconds -> SUBSET Orgs]
  /\ open \subseteq Slugs
  /\ work \in [Works -> Work \cup {Idle}]
  /\ made \in 0 .. MaxOrgs /\ second \in Seconds /\ restarts \in 0 .. MaxRestarts
  /\ wrote \subseteq Orgs /\ unled \subseteq Orgs
  /\ deletions \in [Slugs \X Seconds -> 0 .. MaxOrgs]
  /\ kept \subseteq Slugs /\ crossed \subseteq Slugs /\ raced \subseteq Slugs

Unregistered == [active |-> FALSE, org |-> 0]

Init ==
  /\ registry = [s \in Slugs |-> Unregistered]
  /\ file = [s \in Slugs |-> NoFile]
  /\ archived = [a \in Slugs \X Seconds |-> {}]
  /\ open = {}
  /\ work = [w \in Works |-> Idle]
  /\ made = 0 /\ second = 0 /\ restarts = 0
  /\ wrote = {} /\ unled = {}
  /\ deletions = [a \in Slugs \X Seconds |-> 0]
  /\ kept = {} /\ crossed = {} /\ raced = {}

Goto(w, pc) == work' = [work EXCEPT ![w].pc = pc]
Finish(w)   == work' = [work EXCEPT ![w] = Idle]

\* The end of a work by an exception: a creation stays half made.
Raise(w) ==
  /\ Finish(w)
  /\ unled' = IF work[w].kind = "creation" THEN unled \cup {work[w].org} ELSE unled

\* ensure: the database is open, or has to be initialised first.
Begin(w, kind, s, org, first) ==
  work' = [work EXCEPT ![w] =
    [pc |-> IF s \in open THEN first ELSE "init", kind |-> kind, slug |-> s, org |-> org,
     own |-> org = registry'[s].org]]

-----------------------------------------------------------------------------
(* Requests *)

\* TenantStore.create: a slug that no active organisation has.
Register(s) ==
  /\ ~registry[s].active /\ made < MaxOrgs
  /\ made' = made + 1
  /\ registry' = [registry EXCEPT ![s] = [active |-> TRUE, org |-> made']]

\* Mutant: an administrator who was asked for is forgotten.
Create_bare(w, s, admin) ==
  /\ work[w] = Idle /\ Register(s)
  /\ IF s \in open THEN UNCHANGED work ELSE Begin(w, "bare creation", s, made', "write")
  /\ unled' = IF admin THEN unled ELSE unled \cup {made'}
  /\ UNCHANGED <<file, archived, open, second, restarts, wrote, deletions, kept,
                 crossed, raced>>

\* api_tenants_create: the database is ensured; the first administrator is optional.
Create(w, s, admin) ==
  /\ work[w] = Idle /\ Register(s)
  /\ IF admin
       THEN Begin(w, "creation", s, made', "write") /\ UNCHANGED unled
       ELSE /\ IF s \in open THEN UNCHANGED work
                             ELSE Begin(w, "bare creation", s, made', "write")
            /\ unled' = unled \cup {made'}
  /\ UNCHANGED <<file, archived, open, second, restarts, wrote, deletions, kept,
                 crossed, raced>>

\* tenant_middleware: anybody who has a session of some organisation with the slug, the
\* superadmin, or an agent that shows the organisation's key.
Enter(w, kind, s, org) ==
  /\ work[w] = Idle /\ registry[s].active /\ org \in 1 .. made
  /\ kind \notin Creations
  /\ kind \in {"superadmin", "agent"} => org = registry[s].org
  /\ UNCHANGED registry
  /\ Begin(w, kind, s, org, IF kind = "member" THEN "session" ELSE "write")
  /\ UNCHANGED <<file, archived, open, made, second, restarts, wrote, deletions, kept,
                 crossed, raced, unled>>

\* Mutant: it counts on the file.
InitDatabase_existing(w) ==
  LET s == work[w].slug IN
  /\ work[w].pc = "init"
  /\ file' = [file EXCEPT ![s].tables = TRUE]
  /\ Goto(w, "opened")
  /\ UNCHANGED <<registry, archived, open, made, second, restarts, wrote, deletions, kept,
                 crossed, raced, unled>>

\* Database.init: the file gets its tables, and keeps the rows it had.
InitDatabase(w) ==
  LET s == work[w].slug IN
  /\ work[w].pc = "init"
  /\ file' = [file EXCEPT ![s] = [tables |-> TRUE,
                                  data |-> IF file[s] = NoFile THEN {} ELSE file[s].data]]
  /\ Goto(w, "opened")
  /\ UNCHANGED <<registry, archived, open, made, second, restarts, wrote, deletions, kept,
                 crossed, raced, unled>>

\* The database is stored as open, whatever happened to its file meanwhile.
Open(w) ==
  LET s == work[w].slug IN
  /\ work[w].pc = "opened"
  /\ open' = open \cup {s}
  /\ raced' = IF file[s].tables THEN raced ELSE raced \cup {s}
  /\ IF work[w].kind = "bare creation" THEN Finish(w)
     ELSE Goto(w, IF work[w].kind = "member" THEN "session" ELSE "write")
  /\ UNCHANGED <<registry, file, archived, made, second, restarts, wrote, deletions, kept,
                 crossed, unled>>

\* aiosqlite.connect: a file that is not there is made, without tables.
Connect(s) == file' = [file EXCEPT ![s] = IF @ = NoFile THEN [tables |-> FALSE, data |-> {}]
                                                        ELSE @]

\* The next call of a work: the router finds the database only while it is open.
Continue(w, s) ==
  work' = [work EXCEPT ![w] = IF s \in open
             THEN [work[w] EXCEPT !.pc = "write",
                                  !.own = work[w].own \/ s \in kept \cup crossed]
             ELSE Idle]

\* Mutant: the session is not looked for.
CheckSession_any(w) ==
  LET s == work[w].slug IN
  /\ work[w].pc = "session"
  /\ Connect(s)
  /\ IF file[s].tables /\ s \in open THEN Goto(w, "write") ELSE Finish(w)
  /\ UNCHANGED <<registry, archived, open, made, second, restarts, wrote, deletions, kept,
                 crossed, raced, unled>>

\* rbac_middleware: the session must be a row of the database.
CheckSession(w) ==
  LET s == work[w].slug IN
  /\ work[w].pc = "session"
  /\ Connect(s)
  /\ IF file[s].tables /\ work[w].org \in file[s].data THEN Continue(w, s) ELSE Finish(w)
  /\ UNCHANGED <<registry, archived, open, made, second, restarts, wrote, deletions, kept,
                 crossed, raced, unled>>

\* What a handler or a task stores (of a creation: the first administrator).  A task
\* does it again and again; every call goes to the database that its slug has by then.
Write(w) ==
  LET s == work[w].slug
      org == work[w].org IN
  /\ work[w].pc = "write"
  /\ IF file[s].tables
       THEN /\ file' = [file EXCEPT ![s].data = @ \cup {org}]
            /\ wrote' = wrote \cup {org}
            /\ crossed' = IF work[w].own /\ registry[s] # [active |-> TRUE, org |-> org]
                            THEN crossed \cup {s} ELSE crossed
            /\ Finish(w) \/ (work[w].kind # "creation" /\ s \in open /\ UNCHANGED work)
            /\ UNCHANGED unled
       ELSE Connect(s) /\ Raise(w) /\ UNCHANGED <<wrote, crossed>>
  /\ UNCHANGED <<registry, archived, open, made, second, restarts, deletions, kept, raced>>

-----------------------------------------------------------------------------
(* Deletion *)

\* Mutant: the file stays where it is.
archive_nothing(s) ==
  /\ open' = open \ {s}
  /\ UNCHANGED <<file, archived, deletions, kept, crossed>>

\* Mutant: the database stays open.
archive_open(s) ==
  /\ UNCHANGED open
  /\ file' = [file EXCEPT ![s] = NoFile]
  /\ archived' = IF file[s] = NoFile THEN archived
                 ELSE [archived EXCEPT ![<<s, second>>] = file[s].data]
  /\ deletions' = IF file[s] = NoFile THEN deletions
                  ELSE [deletions EXCEPT ![<<s, second>>] = @ + 1]
  /\ kept' = kept \ {s} /\ crossed' = crossed \ {s}

\* Mutant: a second file of the same slug takes the first one's name.
archive_unstamped(s) ==
  /\ open' = open \ {s}
  /\ file' = [file EXCEPT ![s] = NoFile]
  /\ archived' = IF file[s] = NoFile THEN archived
                 ELSE [archived EXCEPT ![<<s, 0>>] = file[s].data]
  /\ deletions' = IF file[s] = NoFile THEN deletions
                  ELSE [deletions EXCEPT ![<<s, second>>] = @ + 1]
  /\ kept' = kept \ {s} /\ crossed' = crossed \ {s}

\* TenantDatabases.archive: the database is no more open and its file, if there is one,
\* gets a name with the time in seconds, over any file that has that name.
archive(s) ==
  /\ open' = open \ {s}
  /\ file' = [file EXCEPT ![s] = NoFile]
  /\ archived' = IF file[s] = NoFile THEN archived
                 ELSE [archived EXCEPT ![<<s, second>>] = file[s].data]
  /\ deletions' = IF file[s] = NoFile THEN deletions
                  ELSE [deletions EXCEPT ![<<s, second>>] = @ + 1]
  /\ kept' = kept \ {s} /\ crossed' = crossed \ {s}

\* Mutant: the organisation keeps its slug.
deactivate_not(s) == UNCHANGED registry

\* TenantStore.delete.
deactivate(s) == registry' = [registry EXCEPT ![s].active = FALSE]

\* api_tenant_delete: no statement of it gives way to another request.
Delete(s) ==
  /\ registry[s].active
  /\ deactivate(s)
  /\ archive(s)
  /\ raced' = raced \ {s}
  /\ UNCHANGED <<work, made, second, restarts, wrote, unled>>

\* The registry is saved, and the file cannot be renamed.
DeleteFails(s) ==
  /\ Faults /\ registry[s].active
  /\ deactivate(s)
  /\ open' = open \ {s}
  /\ kept' = kept \cup {s}
  /\ raced' = raced \ {s}
  /\ UNCHANGED <<file, archived, work, made, second, restarts, wrote, deletions, crossed, unled>>

-----------------------------------------------------------------------------

\* A statement of a work raises.
WorkRaises(w) ==
  /\ Faults /\ work[w] # Idle
  /\ Raise(w)
  /\ UNCHANGED <<registry, file, archived, open, made, second, restarts, wrote, deletions,
                 kept, crossed, raced>>

Tick ==
  /\ second < MaxSeconds
  /\ second' = second + 1
  /\ UNCHANGED <<registry, file, archived, open, work, made, restarts, wrote, deletions,
                 kept, crossed, raced, unled>>

Stopped ==
  /\ restarts < MaxRestarts
  /\ restarts' = restarts + 1
  /\ open' = {} /\ raced' = {}
  /\ work' = [w \in Works |-> Idle]
  /\ unled' = unled \cup {work[w].org : w \in {v \in Works : work[v] # Idle
                                                            /\ work[v].kind = "creation"}}
  /\ UNCHANGED <<file, archived, made, second, wrote, deletions, crossed>>

\* The server stops and starts, between two statements.
Restart ==
  /\ Stopped
  /\ UNCHANGED <<registry, kept>>

\* It stops in a deletion: the registry is saved, the file not yet renamed.
CrashInDelete(s) ==
  /\ Stopped
  /\ registry[s].active
  /\ deactivate(s)
  /\ kept' = kept \cup {s}

\* It stops in TenantStore._save, which empties the file before it writes: the registry
\* cannot be read again, and the server starts with none.
CrashInSave ==
  /\ Stopped
  /\ registry' = [s \in Slugs |-> Unregistered]
  /\ kept' = Slugs

Next ==
  \/ \E w \in Works :
       \/ \E s \in Slugs, admin \in BOOLEAN : Create(w, s, admin)
       \/ \E s \in Slugs, k \in Kinds, o \in Orgs : Enter(w, k, s, o)
       \/ InitDatabase(w) \/ Open(w) \/ CheckSession(w) \/ Write(w) \/ WorkRaises(w)
  \/ \E s \in Slugs : Delete(s) \/ DeleteFails(s) \/ CrashInDelete(s)
  \/ Tick \/ Restart \/ CrashInSave

Spec == Init /\ [][Next]_vars

-----------------------------------------------------------------------------
(* Properties *)

\* An organisation finds no rows of another one that had its slug, as the comment of
\* archive promises, but for two kinds of slug: one whose file was never set aside (the
\* rename failed, or the server died before it or in a save of the registry), and one
\* where a work begun for the earlier organisation was still at it.  Members and agents
\* of the earlier organisation never get in by themselves.
InheritanceExplained ==
  \A s \in Slugs \ (kept \cup crossed) :
    registry[s].active /\ file[s] # NoFile => file[s].data \subseteq {registry[s].org}

\* A database that is open has its tables, unless it was being opened while the
\* organisation was deleted (ensure and archive): then the slug is of no use, also
\* to the next organisation that has it, until the server restarts.
OpenHasTables ==
  \A s \in open \ raced : file[s].tables

\* An active organisation has the first administrator it was created with, unless it was
\* created with none, or its creation is under way or did not end (api_tenants_create
\* saves the registry first).
ActiveHasAdmin ==
  \A s \in Slugs : LET org == registry[s].org IN
    registry[s].active =>
      \/ org \in unled \/ (file[s] # NoFile /\ org \in file[s].data)
      \/ \E w \in Works : work[w] # Idle /\ work[w].kind = "creation" /\ work[w].org = org

\* An organisation can be used as soon as it is there: its database has its tables
\* and it can be entered.
OrganisationsWork == TypeOK /\ OpenHasTables /\ ActiveHasAdmin

\* What an organisation has stored is in the file of its slug or in one set aside; a
\* deletion destroys rows only in the second of another one of the same slug (archive).
ArchivesKeepData ==
  \/ \E a \in DOMAIN deletions : deletions[a] > 1
  \/ wrote \subseteq (UNION {file[s].data : s \in Slugs})
                     \cup (UNION {archived[a] : a \in DOMAIN archived})

=============================================================================
