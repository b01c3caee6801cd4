# CyberHound Pro in TLA+

Formal models of the server under `src/cyberhound` (version 6.8.4): TLA+ modules,
TLC configurations that check them on small instances, and TLAPS proofs of what
they promise for every instance.

CyberHound Pro is a security auditor with a web front end: one `aiohttp` process,
one asyncio event loop, SQLite (or PostgreSQL) per organisation. It scans hosts,
applies and undoes fixes, and manages the users of the organisations it serves.
There are no threads to interleave: what interleaves is **handlers at their
`await`s**. A handler runs alone between two awaits, every SQL statement is atomic
(`AccountsDBMixin._run` and the methods of `Database` open, execute and commit one
statement), and nothing spans two statements: no transaction, and a lock only
inside each call of the rate limiter. Hence the shape of every model here: a
request is a small state machine (`req[r].pc`), an action is what happens up to and
including one awaited statement or command, and what the handler has read and
carries over the await is in `req[r]`.

## Inventory

| Component | Source | State | Operations | Interacts with | Hard part | Correct when |
|---|---|---|---|---|---|---|
| Login, sessions, API tokens | `core/auth.py`, `core/accounts_db.py` | `users`, `sessions`, `api_tokens` rows; JWT and pending-2FA cookies at the client | `login_post` (two steps), `logout`, `auth_middleware`, `_verify_api_token` | rate limiter, 2FA, middlewares, account handlers | a login spans a password check, a second read, perhaps five minutes, and an insert | no session or token outlives the credentials it was opened with |
| Role and tenant middlewares | `api/common.py` | context variables per request | session alive? role? permission? | every handler | the answer is stale when the handler acts | an organisation keeps an admin |
| User and account handlers | `api/handlers/accounts.py`, `core/database.py` | the same rows | create, update, delete, revoke, own password, own tokens, 2FA | sessions, tokens, 2FA | one `UPDATE` and then two revocations | as above |
| Two-factor authentication | `core/totp.py` | seven columns of the `users` row | set up, activate, verify, disable | login | read, decide, write back, in several statements | a code is good once; the active secret is a verified one |
| Login rate limiter | `core/security.py` | entry per address, in memory | `is_allowed`, `record_failure`, `record_success`, `cleanup_expired` | login | attempts admitted before a block report during it | a block lasts as announced |
| Remote fixes | `core/remote_fixes.py`, `api/handlers/fixes.py`, `scanners/ssh_audit.py` | `remote_fixes` rows, the host | apply, record, claim, undo, give back | SSH, findings cache | the SSH call lies between the statements | no undo twice, no mark without an undo |
| Local fixes and rollback | `core/rollback.py`, `scanners/hardening.py`, `api/handlers/fixes.py` | files of the server, JSONL journal | fix, journal, rollback | `sshd -t`, reload | several fixes copy and rewrite one file | what was fixed can be taken back |
| Local checks and fixes | `scanners/hardening.py`, `core/sshd_config.py` | facts of the server, journal | audit, fix, rollback, reboot | rollback journal | a check, its fix and its rollback read one fact in three ways | a fix clears its finding, a rollback restores |
| Remote scripts | `scanners/ssh_audit.py` | facts of a host | audit, fix, undo | remote fixes | as above, on another machine | the same |
| Tenants | `core/multitenancy.py`, `api/handlers/platform.py` | registry file, open databases | create, delete (archive), `ensure` | every request, schedules | archive against requests in flight; slug re-used | data of two organisations never meet |
| Schedules of an organisation | `core/schedules.py`, `api/handlers/schedules.py` | rows, running set | tick, run now, edit | scans, scope, tenants | exact minutes, restart, running task | a due schedule runs, once |
| Platform scheduler | `core/scheduler.py` | entries, flags in the configuration | loop, switches, run now | scans, notifications, tickets | the loop awaits each task and compares exact minutes | an entry runs when the list says |
| Scans and results | `core/database.py`, `api/handlers/scans.py` | `scans`, `findings`, `suppressions`, `assets` | create, complete, fail, compare | scheduler, push, agents, tickets | an error after completion; what counts as new | a scan ends in one final state, and is told once |
| Import of audits | `scanners/audit_import.py`, `api/handlers/platform.py` | `scans`, `findings` | detect, parse, store | suppressions | four formats, incomplete items | nothing is lost or weakened unsaid |
| Quarantine | `core/quarantine.py` | file, encrypted copy, JSON index | quarantine, restore, delete | monitor | three writes, no journal | a file is never lost |
| Notifications, tickets, SIEM | `core/notifications.py`, `core/ticketing.py`, `core/siem.py`, `core/integrations.py` | `notifications` rows, managers by slug | send, save settings, test | tenants, scope, HTTP, SMTP | managers that outlive what they were built from | what an organisation sends goes where it says |
| Monitor | `core/ebpf_monitor.py` | running flag, recorded dates | start, stop, read, poll | findings | two tasks, one of which waits with a time limit | a change is reported |
| Agents | `core/agent.py` | registry in memory | report, heartbeat | scans | late and repeated messages | what was answered is stored |
| SSH trust | `core/ssh_credentials.py`, `core/ssh_host_keys.py`, `core/scope.py` | credentials, host keys, scope | connect, save, delete, schedule | schedules, remote audits | everything is checked before an await and used after it | no connection to a machine that was not meant |
| Scoring and compliance | `core/scoring.py`, `scanners/compliance.py` | findings of an audit | score, controls, falls | scheduler | caps, decay, rounding; rows that lost a field | fixing helps, falls are told |
| Everything else | other scanners, reports, UI, configuration, TLS, packaging | - | - | - | none of these: sequential, formatting or I/O | - |

`PROJECT.json` lists the components with their status, and under `hazards` every
place found where this code could go wrong in a way tests hardly reach.

## Modules

### Accounts: users, sessions, tokens

`users`, `sessions` and `tokens` are the three tables, `req` the requests in
flight. A request starts as a login (`LoginCheck`), with a browser's session
(`BrowserRequest`), with a token (`TokenRequest`) or as the platform's superadmin
(`PlatformRequest`); the second half of `rbac_middleware` is `Authorize`. From there:

| Actions | Code |
|---|---|
| `LoginCheck`, `LoginReadUser`, `LoginCode`, `TicketExpires`, `StartSession` | `login_post`: password verified; row read again for the 2FA flag; code verified by a later request with the pending cookie; cookie expired; `_start_session` |
| `UpdateUser`, `RevokeSessions`, `RevokeTokens` | `api_users_update` and `api_users_delete`: one `UPDATE`, then (after a password change or deactivation) two revocations |
| `CreateCheck`, `CreateWrite` | `api_users_create`: is the name taken; insert, or overwrite the row of a deleted user |
| `PasswordCheck`, `PasswordWrite`, `RevokeSessions` | `api_me_password`: keeps the caller's own session |
| `RevokeSessionsOf`, `RevokeOwnSession`, `RevokeOthers`, `CreateToken`, `RevokeOwnToken`, `EndSession` | the other handlers; logout and expiry |
| `Abort` | the process is killed, or a statement raises, between two statements |

A user's credentials are a number: `gen` grows with every new `password_hash` and
every deactivation, `tgen` with the changes after which the code revokes tokens too.
Sessions and tokens remember the number they were opened under. The code reads
neither, they only let the properties speak of "the old password". `excused` is
history too: it marks a session (token) whose insert came from a request that had
read the older number, or whose revocation was lost with its request.

- `StaleSessionsExplained`: a live session older than its user's credentials is being
  closed by a request in flight, or is excused. Any other way, such as a handler that
  does not revoke, would violate it.
- `StaleTokensExplained`, `InactiveUsersClosed`: the same for tokens, and for the
  sessions of a deactivated user (which reactivation would bring back).
- `AdminsRemain`: the code forbids an admin to demote or deactivate itself. That is all
  it has against losing the last admin, and it suffices, except that two admins who have
  both passed the middleware can still demote each other, that the superadmin may do
  anything, and that a creation can overwrite an active row.

The README's promise, that they end at once, needs every excuse: see the findings.

The model folds the three places that write `password_hash` for a user into
generations, leaves out the rehash of a password stored under an older scheme (the
same password under a new hash), and takes the database of one organisation: the
superadmin's own session is in another one.

### TwoFactor: set-up, activation, verification

One user's row: `enabled`, active and pending secret, consumed step, recovery codes,
and whether the secret is stored encrypted. `Tick` moves time by 30-second steps.
`VerifyRead` is the read and the decision of `TOTPManager.verify`; `VerifyCount`,
`VerifySeal` and `VerifyRecover` are its three writes; `ActivateRead`, `ActivateWrite`
and `ActivateCount` are `activate_2fa`; `DisableStatus` and `DisableWrite` are
`api_2fa_disable` around a verification; `setup_2fa` is one statement. `torn` is
history: a write was based on a row that had changed since it was read, or happened
between the two statements of an activation.

`OneTimeUnlessTorn`, `CodesUnlessTorn` and `VerifiedUnlessTorn` say that the *protocol*
is right, through every order of set-ups, activations, disablings and logins: no code
opens anything twice, exactly the unused codes of the last set-up are valid, and the
active secret is one whose first code was verified. What is wrong is only the missing
atomicity: two requests, one code. Codes of distinct
steps or secrets are assumed to be distinct. A secret that cannot be decrypted after a
change of the instance's key is left out, and so is the user's deactivation (Accounts).

### RateLimit: one address of the login's RateLimiter

`entry` is the `RateLimitEntry`, `busy` the attempts that were admitted and are being
verified. Times are relative (`wait` until the end of the block, `age` of the window)
and saturate where the code no longer tells them apart, so there is no bound on
time. Each call takes place at least one instant after the one before.
`promised` is history: what is left of the longest block a client was told of. A restart
of the server forgets every entry, as the class says; it is the initial state again.

`BlocksHold`: a block lasts as announced whatever late attempts do (short of a success).
`OvershootBounded`: past the first block, failures counted plus attempts under way
stay below the limit plus the number of concurrent attempts. It follows that one
attempt at a time never reaches the second tier, which the class's docstring promises.

### Reversal and RemoteFixes

`Reversal` is the promise, in five lines: a fix is applied, claimed for undoing by
one request, and then finished or given back. `RemoteFixes` is the code: `FixStart`,
`FixRuns`, `FixFails`, `FixUnanswered` and `add_remote_fix` are `api_fix_remote`;
`UndoRead`, `mark_remote_fix_undone`, `UndoRuns`, `UndoFails` and
`clear_remote_fix_undone` are `api_fix_remote_undo`; `Abort` kills a request anywhere.
The mapping `fate` reads a row as a state of Reversal; `KeepsPromise` is the
refinement.

`UndoneExplained`: a row marked as undone is undone, being undone, or its request died.
`OriginalKept`: while a setting is fixed, some open row or pending request still holds
its original value, unless history (`lost`) names why not: an unrecorded fix, an undo
that died, or an undo before a later fix. A script that goes on after
its connection broke, and changes made on the host by hand, are not modelled.

### LocalFixes: sshd_config and the journal

`FixWrite` copies the file and writes it, `FixAccepted` and `FixRejected` are the outcome
of `sshd -t`, `FixJournal` appends the entry; `Rollback` restores the copy of
`latest_active`, and `mark_rolled_back` or `RollbackFails` follow the reload. The file is the set of
options that have their safe value (sshd_config and its drop-ins stand as one).
`disorder` is history: a copy was written back although a newer one was still due, or
a fix died before its entry.

`SafeOptionsRevertible` and `FixesStand`: without disorder every safe option can be taken
back, and a rollback takes no other fix with it. `rollback.py` claims it without that
condition, and two fixes rolled back in the order they were made refute it.

### SshdConfig and Hardening: the server's own checks and fixes

`SshdConfig` is what a configuration of sshd means (`effective`: the first global value, with
includes and Match blocks) and the two functions that change it, `plan_set` and
`plan_undo`. `Hardening` has the server as a record of facts. Each `check_...` maps it
to findings, each `_fix_...` maps it and a finding to the set of outcomes its commands
can have (success with a new host and the inverse actions recorded, or failure at any
command), and `perform_rollback` plays those back. The actions are `Audit`, `Fix`,
`Rollback` and `Reboot` (which applies what only files say). A fix runs alone here; LocalFixes
interleaves those that share a file.

- `RisksReported`: `Risk` states each risk from the facts alone, and some check must report
  it, in the states that fixes and rollbacks leave too. `Overlooked` lists the risks the code
  misses.
- `FixesClear`: a fix that says it succeeded has cleared its finding and brought no other,
  save `Stubborn` ones.
- `RollbackRestores`: a rollback puts back exactly the facts its fix changed, as long as they are still
  as the fix left them, and `plan_undo` takes back what `plan_set` did also when another option
  was changed in between.
- `FixesHold`: fixes that were not rolled back stand, over reboots, while rollbacks go newest
  first.
- `DoorsStayOpen`: enabling the firewall leaves open the ports of sshd and of the web interface,
  as the comment of that fix promises. The code does not keep it where a file included by
  sshd_config sets the port: it is the one property that is stated to fail (run `doors`).

`firewall_cmd` is where `firewall-cmd --state` says that firewalld does not run: on its output,
among the errors, or nowhere, which it does of a running one too. `check_firewall` looks for
"running", which is in "not running" as well.

### Schedules: an organisation's programmed scans

`rows` is the table, `running` the set `_schedules_running`, `task` the runs under way, `tick` the
loop between reading the rows and starting the due ones, `req` the handlers. `TickRead`
and `TickStart` are `_schedules_tick`, `Clock` the sleep until the next minute, `EarlyTick`
the sleep that ends within the same minute; `RunSteps` are the statements of `_run_schedule`
with every way out of it; `CreateCount`, `UpdateRead`, `RunRead` and their writes are the handlers;
`Visit` opens the organisation's database; `Restart` drops all tasks and closes it.

`OncePerMinute`: no schedule makes two scans in one minute, whatever ends or restarts in it.
`RowsSound`: the running set is exactly the runs under way; a row "en curso" has one, unless its
run died; the limit is passed only by creations counted together, and a row that cannot run comes
only of two updates at once. `RunsAgain` (liveness): a schedule that
stays enabled runs again and again, if the database is open. `Settles`: a row does not stay "en
curso", and no run leaves its scan running.

The loop takes the minute before it reads the rows, and after the tick sleeps to the end of the
minute it is by then: a tick that crosses the end of a minute makes it skip the next. `Clock` waits
for the tick to end, so this case is left out, and `RunsAgain` is about ticks that end in their
minute.

### PlatformScheduler: the loop of the platform's own entries

`Pass` is the stretch of `_tick` between two awaits: the entries from one position on are looked
at in the current minute, and the first that is due is started and awaited. `_tick` begins it,
`TaskEnds` goes on with it, `Clock` is the minute that the sleep of the loop waits for and a task
does not, and the turn of local time; `api_scheduler_toggle` writes the switch and the
configuration, `Stop` and `build_platform_scheduler` are a restart.

`PlatformRunsExplained`: an entry that is wanted runs in each of its minutes, unless the loop was
awaiting an earlier one when the minute ended, or it or a later one when the minute began; it
runs once, and never when it was switched off, over restarts; the next run that is shown is the
next run, until one was missed. What is missed, and what local time skips and repeats, is a
finding: with the default hours a day of the audit is lost each spring.

### Tenants: registry, files, open databases

An organisation is a number, the n-th that was created. `registry` is tenants.json, `file` the
SQLite file of each slug (whose rows it holds, and whether it has tables), `open` the dictionary
of `TenantDatabases`, `work` the requests and long tasks that carry a slug in their
context. `Create`, `InitDatabase`, `Open`, `Write` are a creation or an entry step by step,
`Delete` is `api_tenants_delete` with `archive`, `DeleteFails` its rename that raises,
`CrashInDelete` and `CrashInSave` a stop between its statements and in the write of the
registry.

`InheritanceExplained`: no organisation finds rows of another in its database, except where the file
was never set aside or a work begun before the deletion was still at it. `OrganisationsWork`: an
open database has its tables, an active organisation its first admin, with named exceptions: the
first administrator is optional (`unled`), an opening may race a deletion, a creation may not end.
`ArchivesKeepData`: what was written is in the file of the slug or in one set aside.

### Scans: results, suppressions, comparisons

A row of `scan` per scan, a task of `job` suspended at the statement its pc names. `Start` is the
scheduler's audit, malware or network entry, a scan over WebSocket, a handler's or an agent's;
`Filter`, `Complete`, `Alert`, `Compare`, `AlertNew`, `Ticket`, `DeviceRead`, `DeviceWrite`,
`Announce` and `Score` follow the code's order for each; `Raises` is an exception at any of them,
into `fail_scan` where the code has it; `SendNew` sends the new devices of a user's scan, to nobody
if the WebSocket is closed or the scan is a schedule's (`unheard`).

`TicketsExact`: each new finding gets one ticket, but for what `get_comparison` takes for new.
`ResultsSound`: a scan that stays completed has been told, each device is announced by the scan that
inserted it unless nobody listened, nothing suppressed is stored. `EveryScanEnds` (liveness): no
scan stays running for good unless the server stopped, `fail_scan` failed, or its handler has none.

### Quarantine and Monitor

`Quarantine` moves a file in three writes (`QuarantineCopy`, `QuarantineUnlink`, `QuarantineIndex`),
restores it in three (`RestoreWrite`, `RestoreCheck`, `RestoreIndex`) and deletes in two, while
other programs write and remove files and any call raises or the process dies (`Stops`, `Vanished`).
`QuarantineKeeps`: a file taken can be had back whole, and one called restored is what was taken.
`Monitor` extends it with the two tasks of the monitor on the same files: `Reads` is the line
reader, `QuietSpell` its time limit, `Watches` the polling of dates. `AlarmsComplete` (liveness): a
change of a recorded file is stored before the record moves on, and a suspicious command, or a
critical file created, whose line reached a living reader becomes a finding; `_emit_finding` passes
over a statement that raises, and what is lost so is named (`unstored`, `missed`).

### RemoteScripts and SshTrust

`RemoteScripts` is the audit script, the fix script and the undo actions of `ssh_audit.py` on a host
of facts, like Hardening. `RemoteSettingsKept`: a fix that stands keeps its finding away, over boots
and whatever else is fixed or undone; an undo gives back what was there. `SshTrust` is a connection
step by step (`CheckScope`, `_ssh_creds`, `LookUp`, `Connect`, `SaveKey`) against handlers that
change credentials, keys, scope and schedules. `TrustKept`: a command runs only on a machine with
the key that was saved and an address in the scope of its check, and no schedule loses its
credential, but for the cases named: first connections that race, a name that did not resolve in
time (`blind`: the check passes) or moved afterwards, a deletion that overlaps.

### Integrations and Agents

`Integrations` has managers cached by slug and kind (`Manager`), the guard of destinations, the
storing of a notification with whoever has the slug by then (`Store`), one action per channel, which
may redirect, and `_save_integration` around its await (`Begins`, `SaveWrite`), with the ways it
raises and leaves the settings changed and the manager not (`unfinished`), while organisations are
deleted and created again and the server restarts from its files. `OutputsPrivate`: what is sent
goes to destinations saved under the sender's slug and is stored under it, and goes inside the
network only within the scope its manager was built with, names that move and redirects excepted.
`OutputsFollowSettings`: it goes out by the channels of the settings last saved, unless that save
raised, and each is tried even when another fails. `Agents` is a report's journey, with lost
answers, rotated keys and restarts. `ReportsStored`: a report answered is stored whole, and what the
list of agents shows of one is.

### Posture and AuditImport

`Posture` computes the score in integers (`Point` is the common denominator), the controls each
finding brings down, and the falls told by an audit from the previous one as it is read back.
`ScoresMakeSense`: lesser findings alone do not sink the score, no fix lowers it, the breakdown
agrees with it. `FallsAreTold`: a framework that lost a control is told of, and no other, but where
one recovered meanwhile or a finding that had passed is read back as failed. `AuditImport` parses
documents of four formats. `ImportsFaithful`: no failing item is lost, its severity is that of the
file, the counts add up, with the exceptions its comments name. The format is guessed or given with
the upload: a file that the other XML parser reads is stored without a finding, and is not what the
property is about.

### Compositions

`Monitor` runs on the files of `Quarantine`; `Hardening` and `RemoteScripts` on `SshdConfig`;
`RemoteFixes` implements `Reversal`. `MCLogin`, `MCTenants`, `MCHosts` and `MCOutputs` put
components side by side that share no state: a behaviour is of one part, chosen at the start, while
the others rest in an initial state, so a run checks each part in full and no product. What they
check of the components with proofs are those components' own definitions, the ones the theorems
name.

## Runs

| Run | Checks | Instance | Distinct states |
|---|---|---|---|
| `sessions` | `StaleSessionsExplained`, `InactiveUsersClosed` | 2 users, 2 session ids, 2 requests, 2 credential changes per user, faults | 505 thousand |
| `tokens` | `StaleTokensExplained`, `AdminsRemain` | 2 users, 1 session id, 1 token, 2 requests, 1 change, two roles, faults | 353 thousand |
| `login` | `OneTimeUnlessTorn`, `CodesUnlessTorn`, `VerifiedUnlessTorn`, `BlocksHold`, `OvershootBounded` | 2 requests, 2 secrets with 2 recovery codes, 2 steps of time (4 codes in view), faults; 5 concurrent attempts, limits 3/5/7, window 4, blocks 4/6/9 | 1.2 million |
| `remote_fixes` | `UndoneExplained`, `OriginalKept`, `KeepsPromise` | 2 settings, 3 fixes, 2 requests, faults | 285 thousand |
| `local_fixes` | `SafeOptionsRevertible`, `FixesStand` | 3 options, 4 fixes, 2 requests, faults | 343 thousand |
| `schedules` | `RowsSound`, `OncePerMinute`, `RunsAgain`, `Settles` | 1 schedule, 2 runs, 2 requests, a week of 2 minutes, 1 restart, faults, fairness | 297 thousand |
| `tenants` | `InheritanceExplained`, `OrganisationsWork`, `ArchivesKeepData`, `PlatformRunsExplained` | 1 slug, 2 organisations with or without an administrator, 2 works, 1 second, 1 restart; 2 entries, a week of 4 minutes, 1 turn of the clock; faults | 493 thousand |
| `scans` | `TicketsExact`, `ResultsSound`, `EveryScanEnds` | 3 scans, 2 of them started, 1 finding, 1 device, 1 restart of a server with scans under way, faults, fairness | 193 thousand |
| `hardening` | `FixesClear`, `RisksReported`, `RollbackRestores`, `FixesHold` | 382 hosts, 2 kernel parameters, 2 fixes, faults | 52 thousand |
| `doors` | `DoorsStayOpen`, which is violated | the same hosts, 1 fix, no faults | until the violation |
| `hosts` | `QuarantineKeeps`, `AlarmsComplete`, `RemoteSettingsKept`, `TrustKept` | quarantine of 2 contents and 2 names; monitor's watcher of 1 file, its reader of 2 lines; 923 remote hosts and 2 fixes; 2 connections; 2 requests; faults, fairness of the monitor | 575 thousand |
| `outputs` | `OutputsPrivate`, `OutputsFollowSettings`, `ReportsStored`, `ScoresMakeSense`, `FallsAreTold`, `ImportsFaithful` | for each kind of integration 1 event and 1 save, the platform and 2 organisations of one slug, 1 change, refusals; 2 reports; hosts with findings of 4 kinds, with eight of one kind, with eleven open ports, 2 audits; 354 files of up to 2 items, each as every format | 561 thousand |

Every run but `doors` passes. Where a document or comment of the repository promises more than the code
does, the property states what holds and names the exceptions in its comment or in a history
variable, and the finding in `PROJECT.json` quotes the promise.

**Bounds and why they suffice.** Two requests at a time are what every race here
takes: one that has read and one that writes. A third request adds a second copy of one
of the two. Two users are needed for "another admin", two session ids for "the others
but mine", three fixes of two settings for a fix after a fix. Two secrets let an old code
meet a new secret; two steps of time give codes before, at and after the consumed
step. `MaxGen`, `MaxSecret`, `MaxStep`, `MaxFixes` and `MaxEntries` bound counters and
appear in guards only; `Dropped` in Accounts ends requests for which the bounds
leave no id or generation. The limits of the rate limiter are scaled down in the
order of the code's (5/10/20 failures, 900/3600/86400 s, window 900 s), with the first
block as long as the window; the proofs cover all of them.

In the newer modules: two organisations of one slug are what inheritance takes, and larger instances
(three organisations and two seconds, or two slugs; 17 and 7 million states) showed nothing more.
Two entries of the platform, due at once and one after the other, are one that waits and one it
waits for; three, of which 4.6 million states were checked, are no different. A week of two minutes
lets a schedule come due, be missed and come due again; two runs, one of the tick and one by hand.
Three scans are one to compare with, one that interferes and one compared. The hosts of `hardening`
vary a few facts at a time around a safe one, sshd's files in every order of two lines, since the
checks read disjoint facts apart from those; two fixes are what the shared files take. `MaxOrgs`,
`MaxSeconds`, `MaxTurns`, `MaxRestarts`, `MaxScans`, `MaxStarted`, `MaxFixes`, `MaxTime`,
`MaxLines`, `MaxMoves`, `MaxChanges`, `MaxBeats`, `MaxFindings`, `MaxAudits` and `MaxImports` appear
in guards only.

Some instances leave out behaviours that others of them, or of the same run, stand for. In `scans` a
restart comes while a scan is under way: another one only counts (`RestartsMatter`). In `hosts` a file that
sshd's configuration does not include is empty, and the two connections start with a schedule in place,
which stays; that schedules come and go is checked with the requests about credentials. In `outputs` the
second report is sent after the first (`InOrder`), hosts with many findings are audited a second time
only when at most two were found then or before (`FewAudits`), and each kind of integration has its part
of what goes wrong (`Parted`): managers, saves and organisations are handled by the same code for all three.

`MCLogin.cfg` stops at the first torn state (`CONSTRAINT Untorn`): its invariants say nothing
beyond. `CHECK_DEADLOCK FALSE` stands where the bounded model ends: all fixes made and rolled back
(`MCLocalFixes`), all organisations, scans or moves used up (`MCTenants`, `MCScans`, `MCHosts`,
`MCOutputs`). Symmetry is over requests, users, session ids, options, recovery codes and works, none
of which the specifications tell apart, and is not used with liveness. Every property has a mutant,
a variant of a mapped operator with a plausible slip (`..._no_guard`, `..._never`), listed in
`PROJECT.json`, under which TLC finds it violated. The mutants stand before the operators they vary
and are used by nothing.

**Fairness.** The event loop resumes every task whose await completes, so a task under way goes on:
that is weak fairness of the next step of each run and request (`Schedules`), of each scan's task
(`Scans`: scanners have time limits, so an await ends or raises), of the reader and the watcher of
the monitor. The clock of `Schedules` has strong fairness: time passes even though a tick that keeps
raising, or runs that keep coming, disable and enable it over and over. Nothing obliges a user, an
error, a restart or another program to act. The bounded restarts do not weaken this: after the last
one the server stays up, which is when the liveness properties are due. The other specifications
state no fairness, and safety only is checked of them.

## Proofs

Checked by TLAPS for every value of the constants that the named assumptions allow; the
assumptions are evaluated by TLC in the runs.

- `AccountsProofs` (assumes `AccountsAssumption`). `Base` is `TypeOK` with the facts that requests
  know their user and live rows have one; it is inductive and gives `TypeCorrect`. `AdminsSafe`
  follows from it, step by step. `StaleSessionsExplained` is not inductive: whether a session
  inserted by a login is excused depends on what the login has read, and a request that closes
  sessions must not be behind. `SessionInv` therefore adds `GensBehind` (no session or pending
  revocation is ahead of its user) and `LoginsOfActive` (a login that read the current number
  belongs to an active user, because every deactivation starts a new one). It gives
  `StaleSessionsSafe` and `InactiveUsersSafe`. Its second part repeats the argument for tokens:
  `TokenInv` adds `CallersActive` and `InactiveTokensClosed`, and gives `StaleTokensSafe`.
- `LoginProofs` is about what stands before a session. TwoFactor (assumes `TwoFactorAssumption`):
  `TwoFactorInv` is `Base`, what each stage of a request carries, and `Intact` as long as no write
  was torn. A code is new because the counter is ahead of every code used of the active secret
  (`Consumed`), except the one whose activation has still to record it (`Recording`), and because a
  pending secret is younger than all in use (`PendingIsNew`). It gives `OneTime`, `CodesExact`,
  `SecretVerified`. RateLimit (assumes `RateLimitAssumption`: limits and blocks ascend, and no block
  is shorter than the window): `LimiterInv` adds `WindowEndsFirst` (when a block is over, so is the
  window: the reason why the count starts again) and `PromisesGraded` (no announced block is longer
  than the current count calls for). It gives `LimiterType`, `BlocksHoldSafe` and `OvershootSafe`.
- `RemoteFixesProofs` (assumes `RemoteFixesAssumption`). `Inv` adds `RowsOfRequests` (the row a
  request undoes is marked and unconfirmed), `OneAtATime` (no two requests record or undo one fix)
  and `RowsSound`. It gives `TypeCorrect`, `UndoneSafe` and `Implements`, the refinement of
  Reversal: each step of the code is one step of Reversal or none. `OriginalKept` says only that
  some row holds the original value of a setting; that fixes are undone in the order in which they
  restore it is `Stacked`, the invariant behind it: of the values held for a setting, by rows and
  by requests alike, the oldest is the original, and an undo under way is of the newest
  (`KeptInv`, `OriginalIsKept`).
- `LocalFixesProofs` (assumes `LocalFixesAssumption`). The copies still to be written back, of
  entries and of fixes under way, form a stack: each holds what the older ones need, and the file
  what they all need (`Ordered`, as long as there was no disorder); `Numbered` tells them apart.
  It gives `OptionsRevertible` and `OtherFixesStand`.
- `TenantsProofs` (assumes `TenantsAssumption`). Whose rows a file can have depends on what the
  works under way were let in with, which `WorkSound` states per work; `OwnRows` extends
  `InheritanceExplained` to slugs that have no organisation at the moment, `ArchivesCounted` makes
  the exception of `ArchivesKeepData` countable. It gives `InheritanceIsExplained`,
  `OrganisationsDoWork` and `NothingStoredIsLost`. Its second part (assumes
  `PlatformSchedulerAssumption`: the entries of the order are distinct, the times are minutes of the
  week) proves `PlatformRuns`, the properties of PlatformScheduler. `NoneBefore` and
  `PassedExplained` say what the loop did in this minute with the entries it has passed,
  `RepeatsKnown` that a start which the clock was turned back over counts as one of another
  minute, and `SwitchesKept` that what was asked for is in the configuration and, while the server
  is up, in the entry. That the next run goes down by one each minute is arithmetic modulo the week.
- `SchedulesProofs` (assumes `SchedulesAssumption`: finite sets of ids, tasks and requests and a
  positive limit; and `InputsAssumption`: new rows have not run, patches have typed fields).
  `RunsApart` (a run per key), `RunSound` (what a run may leave in its row and its scan, by where
  it is) and `RequestSound` (what a request keeps of its read) support each other; the limit is a
  count of rows and pending inserts. It gives `RowsAreSound`, `LoopRunsOnce` and `ScansAreFinal`,
  the safety half of `Settles`.
- `ScansProofs` (assumes `ScansAssumption`: the rows there at the start are of no task).
  `ScanSound` says of each scan, by the statement where its task is, its status, what it has told
  and ticketed and what it has in hand; `PrevSound` that of the scans between one and the one it
  was compared with none can complete any more; `DeviceSound` who will announce a device.
  `TicketsAreExact` follows by descent: a finding without a ticket of its own leads to the scan
  before, and the first one on that way has an excuse or a ticket. The other result is
  `ResultsAreSound`.

- `OutsideProofs` is about what the server exchanges with the world around it, six components, of
  which only Quarantine and Monitor share state.
  - Quarantine (assumes `QuarantineAssumption`: "no file" is no file, and what does not parse is no
    list of entries). `QuarantineInv` says of the operation under way what it has done so far: until
    the original is removed the name of its copy took nothing, and from then on it is in no entry
    and the copy is what was taken, or excused; and each entry has a name of its own, so that the
    first one found is the one. It gives `TakenCanBeHadBack`.
  - SshTrust (assumes `SshAssumption`: finite sets of credentials and requests, a positive limit).
    `TrustInv` says what each connection may still rely on: the key it looked up is the one saved as
    long as nobody forgot it, the scope it was checked against unless it was blind. A request or a
    schedule names a credential that is saved or was deleted in a race. That the credentials do not
    exceed the limit but for concurrent creations is a count of those saved together with those
    about to be. It gives `TrustIsKept`.
  - Integrations (assumes `IntegrationsAssumption`). `OutputsInv` follows the ownership of settings
    along every copy: from a save to the record of the organisation that has the slug by then, in
    memory and on disk, from there to the manager, from the manager to the event and what it
    delivers; all of them stay under one slug, and so does what the router stores. A manager is
    fresh while its slug was used once and no save of it raised half-way. It gives
    `OutputsArePrivate` and `OutputsFollow`.
  - Agents (assumes `AgentsAssumption`). `AgentsInv` is `ReportsStored` with what a report on its
    way has stored by then: nothing before `ReportCreate`, one running audit before
    `ReportComplete`. It gives `ReportsAreStored`, for any finite number of audits.
  - Monitor. `MonitorInv` is `QuarantineInv` with what the watcher has in hand: the report under way
    is of a file and a date it had, nothing is recorded before the baseline, and a recorded date was
    stored or its storing failed. It gives `ChangesAreRecorded`, the action property
    `RecordsReported` within `AlarmsComplete`.
  - Posture (assumes `PostureAssumption`: hosts have findings). `FallsSound` says that what is
    stored is what was reported, without what had passed, and that what was told compares the two.
    The rest is about the table: a framework has between one and a hundred controls
    (`FrameworkControls`), so one control more moves its share by more than rounding hides
    (`RoundApart`, `ShareFalls`), and reading back only adds failures (`DownReadBack`). It gives
    `FallsAreToldOf`.

Each of these invariants was checked by TLC before it was proved. Only model-checked: the
properties of the run `hardening`, `RemoteSettingsKept`, `ScoresMakeSense` and `ImportsFaithful`.
They rest on `SelectSeq`, `FlattenSeq` and folds over sequences of any length (sshd's files, the
actions of a rollback, the penalties of findings, the items of a document), whose values are defined
by recursion: what they compute needs induction over data. Beyond the prover as well, and left to TLC
for good: liveness (`RunsAgain`, `EveryScanEnds`, the liveness halves of `Settles` and
`AlarmsComplete`) and `ENABLED`. No module uses a RECURSIVE operator.

## Plan

What is left, in this order:

1. **Lemmas about sequences**: what `SelectSeq`, `FlattenSeq` and `FoldLeft` return, once a prover
   that does induction is at hand. The properties of `hardening`, `RemoteSettingsKept`,
   `ScoresMakeSense` and `ImportsFaithful` wait for them: that `plan_set` makes the option
   effective and `plan_undo` restores it, for configurations of any length, comes first.
2. **Liveness of RemoteFixes**: a claimed fix is confirmed or given back when its request lives.

## Not modelled, and why

The other scanners (network, malware, services, web) read a host and match texts, sequentially and
without state of their own: a model would have their inputs as its states. Reports, the user
interface, routes, OpenAPI and configuration hold no interacting state. `last_run` of the
platform's entries is only shown. HMAC, base32, bcrypt, Fernet and JWT signatures
are trusted to do what they say. PostgreSQL's back end runs the same statements as SQLite's. Basic
and token authentication modes keep no rows.
