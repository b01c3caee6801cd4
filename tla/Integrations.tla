--------------------------- MODULE Integrations ----------------------------
(* Notifications, SIEM and ticketing of each organisation                   *)
(* (core/integrations.py, notifications.py, siem.py, ticketing.py and the   *)
(* configuration handlers).  An event of an organisation goes out through a *)
(* manager kept under the organisation's slug and the kind of integration;  *)
(* the manager has a copy of the settings and of the scope from when it was *)
(* built.  Saving settings throws it away; deleting an organisation, making *)
(* another with the same slug, changing its scope and a save that raises    *)
(* half-way do not.                                                         *)
EXTENDS Naturals, FiniteSets

CONSTANTS
    Slugs,      \* organisations' slugs; "default", the platform, is apart
    Kinds,      \* subset of notifications, siem, ticketing
    Events,     \* events on their way
    Saves,      \* requests that save settings
    MaxOrgs,    \* bound on organisations ever created
    MaxChanges, \* bound on scope changes, changes of destinations and restarts
    Refusals    \* whether destinations refuse or redirect, and statements and
                \* writes of the files of settings fail

ASSUME IntegrationsAssumption ==
    /\ "default" \notin Slugs
    /\ Kinds \subseteq {"notifications", "siem", "ticketing"}
    /\ MaxOrgs \in Nat \ {0}

VARIABLES
    org,        \* slug -> the organisation that has it, 0 before there is one
    active,     \* slugs of organisations that have not been deleted
    settings,   \* organisation -> kind -> [owner, on], as in memory
    disk,       \* the same, as in config.yaml and tenants.json
    scope,      \* organisation -> may it reach its own network?
    net,        \* organisation -> where the destinations it names are
    cache,      \* <<slug, kind>> -> the manager built, or NoMgr
    event,      \* event -> where it is
    save,       \* request -> where it is
    changes,    \* bound
    delivered,  \* ghost: what arrived last of an event on its way, from and to which organisation
    home,       \* ghost: organisation -> its slug
    unfinished  \* ghost: <<slug, kind>> whose last save raised and left a manager

integrationsVars ==
    <<org, active, settings, disk, scope, net, cache, event, save, changes, delivered, home, unfinished>>

Default == "default"
AllSlugs == Slugs \cup {Default}
Platform == 1                      \* the organisation number of the platform
Orgs == 0 .. MaxOrgs

\* The channels of each kind: the field that turns one on, its destination.
OUTBOUND == [notifications |-> {"email", "webhook"}, siem |-> {"wazuh", "elk"},
             ticketing |-> {"jira", "servicenow"}]

NoMgr == [owner |-> 0, on |-> {}, allowed |-> FALSE]
NoEvent == [pc |-> "none", slug |-> Default, org |-> 0, kind |-> "siem", level |-> "info", mgr |-> NoMgr,
            todo |-> {}, tried |-> {}, stored |-> 0, sure |-> TRUE]
NoSave == [pc |-> "none", slug |-> Default, org |-> 0, kind |-> "siem", new |-> {}]

Off(o) == [k \in Kinds |-> [owner |-> o, on |-> {}]]

Nets == {"public", "inner", "foreign"}
Channels == UNION {OUTBOUND[k] : k \in DOMAIN OUTBOUND}
Settings == [Kinds -> [owner : Orgs, on : SUBSET Channels]]
Managers == [owner : Orgs, on : SUBSET Channels, allowed : BOOLEAN]
EventStages == {"none", "begun", "guard", "send", "channels"}
EventStates == [pc : EventStages, slug : AllSlugs, org : Orgs, kind : DOMAIN OUTBOUND,
                level : {"critical", "info", "test"}, mgr : Managers, todo : SUBSET Channels,
                tried : SUBSET Channels, stored : Orgs, sure : BOOLEAN]
SaveStates == [pc : {"none", "check"}, slug : AllSlugs, org : Orgs, kind : DOMAIN OUTBOUND, new : SUBSET Channels]

IntegrationsTypeOK ==
    /\ org \in [AllSlugs -> Orgs] /\ active \subseteq AllSlugs
    /\ settings \in [Orgs -> Settings] /\ disk \in [Orgs -> Settings]
    /\ scope \in [Orgs -> BOOLEAN]
    /\ net \in [Orgs -> Nets]
    /\ cache \in [AllSlugs \X Kinds -> Managers]
    /\ event \in [Events -> EventStates]
    /\ save \in [Saves -> SaveStates]
    /\ changes \in Nat
    /\ delivered \subseteq [org : Orgs, owner : Orgs, kind : Kinds, net : Nets,
                            allowed : BOOLEAN, sure : BOOLEAN, redirected : BOOLEAN]
    /\ home \in [Orgs -> AllSlugs]
    /\ unfinished \subseteq AllSlugs \X Kinds

IntegrationsInit ==
    /\ org = [s \in AllSlugs |-> IF s = Default THEN Platform ELSE 0]
    /\ active = {Default}
    /\ settings = [o \in Orgs |-> Off(o)] /\ disk = settings
    /\ scope = [o \in Orgs |-> FALSE]
    /\ net = [o \in Orgs |-> "public"]
    /\ cache = [sk \in AllSlugs \X Kinds |-> NoMgr]
    /\ event = [j \in Events |-> NoEvent]
    /\ save = [r \in Saves |-> NoSave]
    /\ changes = 0
    /\ delivered = {}
    /\ home = [o \in Orgs |-> Default]
    /\ unfinished = {}

----------------------------------------------------------------------------
\* Organisations come and go; the registry keeps the deleted ones, and is
\* written whole, with whatever settings are in memory

Used == {org[s] : s \in AllSlugs}
Latest == CHOOSE n \in Used : \A m \in Used : m <= n

\* TenantStore._save: the organisations' settings, and not the platform's.
WritesRegistry(mem) == disk' = [mem EXCEPT ![Platform] = disk[Platform]]

CreateOrg(s) ==
    /\ s \in Slugs \ active
    /\ Latest < MaxOrgs
    /\ org' = [org EXCEPT ![s] = Latest + 1]
    /\ active' = active \cup {s}
    /\ home' = [home EXCEPT ![Latest + 1] = s]
    /\ WritesRegistry(settings)
    /\ UNCHANGED <<settings, scope, net, cache, event, save, changes, delivered, unfinished>>

DeleteOrg(s) ==
    /\ s \in Slugs \cap active
    /\ active' = active \ {s}
    /\ WritesRegistry(settings)
    /\ UNCHANGED <<org, settings, scope, net, cache, event, save, changes, delivered, home, unfinished>>

\* The superadmin changes allowed_targets: managers keep the old list.
AllowedChanges(o) ==
    /\ o \in Used \ {0, Platform}
    /\ changes < MaxChanges /\ changes' = changes + 1
    /\ scope' = [scope EXCEPT ![o] = ~@]
    /\ WritesRegistry(settings)
    /\ UNCHANGED <<org, active, settings, net, cache, event, save, delivered, home, unfinished>>

\* The names of an organisation's destinations lead elsewhere.
DestinationMoves(o) ==
    /\ o \in Used \ {0, Platform}
    /\ changes < MaxChanges /\ changes' = changes + 1
    /\ \E n \in Nets \ {net[o]} : net' = [net EXCEPT ![o] = n]
    \* a send that has been checked resolves the name again
    /\ event' = [j \in Events |-> [event[j] EXCEPT
           !.sure = @ /\ (event[j].mgr.owner # o \/ event[j].pc \in {"none", "begun", "guard"})]]
    /\ UNCHANGED <<org, active, settings, disk, scope, cache, save, delivered, home, unfinished>>

----------------------------------------------------------------------------
\* The managers

\* outbound_problem: an active destination is public, or inside the scope.
outbound_problem(owner, on, allowed) ==
    on # {} /\ ~(net[owner] = "public" \/ (net[owner] = "inner" /\ allowed))

\* A copy of the organisation's settings and its scope.  The database it gets
\* is the router, which looks for that of the slug at each call.
build(s, k) ==
    [owner |-> settings[org[s]][k].owner, on |-> settings[org[s]][k].on, allowed |-> scope[org[s]]]

\* Mutant: one manager for all.
Manager_shared(s, k) ==
    IF \E t \in AllSlugs : cache[<<t, k>>] # NoMgr
    THEN cache[<<CHOOSE t \in AllSlugs : cache[<<t, k>>] # NoMgr, k>>] ELSE build(s, k)

Manager(s, k) == IF cache[<<s, k>>] # NoMgr THEN cache[<<s, k>>] ELSE build(s, k)

Begun(s, k, l) == [NoEvent EXCEPT !.pc = "begun", !.slug = s, !.org = org[s], !.kind = k, !.level = l]

\* Something of an organisation is to be told: a notification, a finding for the
\* SIEM, or a new critical one for ticketing.
Emit(j, s, k) ==
    /\ event[j].pc = "none" /\ s \in active
    /\ \E l \in {"critical", "info"} :
           event' = [event EXCEPT ![j] = Begun(s, k, l)]
    /\ UNCHANGED <<org, active, settings, disk, scope, net, cache, save, changes, delivered, home, unfinished>>

\* An administrator tries the integration out: whatever its least severity.
_test_integration(j, s, k) ==
    /\ event[j].pc = "none" /\ s \in active
    /\ event' = [event EXCEPT ![j] = Begun(s, k, "test")]
    /\ UNCHANGED <<org, active, settings, disk, scope, net, cache, save, changes, delivered, home, unfinished>>

\* The task may have begun long before: it asks by slug.  The SIEM's settings
\* of the moment are looked at first; the platform's manager has no guard.
TakeManager(j) ==
    /\ event[j].pc = "begun"
    /\ LET s == event[j].slug  k == event[j].kind IN
       IF k = "siem" /\ event[j].level # "test" /\ settings[org[s]][k].on = {}
       THEN event' = [event EXCEPT ![j] = NoEvent] /\ UNCHANGED cache
       ELSE /\ event' = [event EXCEPT ![j] = [@ EXCEPT !.pc = IF s = Default THEN "send" ELSE "guard",
                                                      !.mgr = Manager(s, k)]]
            /\ cache' = [cache EXCEPT ![<<s, k>>] = Manager(s, k)]
    /\ UNCHANGED <<org, active, settings, disk, scope, net, save, changes, delivered, home, unfinished>>

Over(j) == event' = [event EXCEPT ![j] = NoEvent]

\* Mutant: the destinations were looked at when they were saved.
Guard_passes(j) ==
    /\ event[j].pc = "guard"
    /\ event' = [event EXCEPT ![j].pc = "send"]
    /\ UNCHANGED <<org, active, settings, disk, scope, net, cache, save, changes, delivered, home, unfinished>>

\* GuardedIntegration: one destination that is not allowed, or does not
\* resolve, and nothing is sent - nor stored: the guard is outside send.
Guard(j) ==
    /\ event[j].pc = "guard"
    /\ \/ /\ ~outbound_problem(event[j].mgr.owner, event[j].mgr.on, event[j].mgr.allowed)
          /\ event' = [event EXCEPT ![j].pc = "send"]
       \/ /\ Refusals \/ outbound_problem(event[j].mgr.owner, event[j].mgr.on, event[j].mgr.allowed)
          /\ Over(j)
    /\ UNCHANGED <<org, active, settings, disk, scope, net, cache, save, changes, delivered, home, unfinished>>

\* A notification is stored first, in the database of the organisation that has
\* the slug by now (TenantRouter), whoever the manager was built for; with none
\* the look-up raises, and nothing is sent, as when the statement fails.
Store(j) ==
    /\ event[j].pc = "send" /\ event[j].kind = "notifications" /\ event[j].level # "test"
    /\ \/ /\ event[j].slug \in active
          /\ event[j].level = "critical"               \* should_notify
          /\ event' = [event EXCEPT ![j] = [@ EXCEPT !.pc = "channels", !.todo = event[j].mgr.on,
                                                      !.stored = org[event[j].slug]]]
       \/ /\ Refusals \/ event[j].slug \notin active \/ event[j].level # "critical"
          /\ Over(j)
    /\ UNCHANGED <<org, active, settings, disk, scope, net, cache, save, changes, delivered, home, unfinished>>

\* should_send, should_create: the least severity, which a test does not ask.
Select(j) ==
    /\ event[j].pc = "send" /\ (event[j].kind # "notifications" \/ event[j].level = "test")
    /\ IF event[j].level \in {"critical", "test"}
       THEN event' = [event EXCEPT ![j] = [@ EXCEPT !.pc = "channels", !.todo = event[j].mgr.on]]
       ELSE Over(j)
    /\ UNCHANGED <<org, active, settings, disk, scope, net, cache, save, changes, delivered, home, unfinished>>

Tried(j, c) == event' = [event EXCEPT ![j] = [@ EXCEPT !.todo = event[j].todo \ {c},
                                                           !.tried = event[j].tried \cup {c}]]

Delivery(j, n, redirected) ==
    [org |-> event[j].org, owner |-> event[j].mgr.owner, kind |-> event[j].kind, net |-> n,
     allowed |-> event[j].mgr.allowed, sure |-> event[j].sure, redirected |-> redirected]

\* It arrives where the name leads; session.post follows redirects, so a
\* destination other than a mail server may have it sent on anywhere.
Arrives(j, c) ==
    \/ delivered' = {Delivery(j, net[event[j].mgr.owner], FALSE)}
    \/ Refusals /\ c # "email" /\ \E n \in Nets : delivered' = {Delivery(j, n, TRUE)}

\* Mutant: an error leaves the other channel without it.
Channel_gives_up(j, c) ==
    /\ event[j].pc = "channels" /\ c \in event[j].todo
    /\ \/ Tried(j, c) /\ Arrives(j, c)
       \/ /\ Refusals
          /\ event' = [event EXCEPT ![j] = [@ EXCEPT !.todo = {}, !.tried = event[j].tried \cup {c}]]
          /\ UNCHANGED delivered
    /\ UNCHANGED <<org, active, settings, disk, scope, net, cache, save, changes, home, unfinished>>

\* One channel: it takes it, or its error is logged and the others go on.
Channel(j, c) ==
    /\ event[j].pc = "channels" /\ c \in event[j].todo
    /\ Tried(j, c)
    /\ \/ Arrives(j, c)
       \/ Refusals /\ UNCHANGED delivered
    /\ UNCHANGED <<org, active, settings, disk, scope, net, cache, save, changes, home, unfinished>>

\* Email and then the webhook, and in a test the others in their order too; the
\* SIEMs and the ticketing systems otherwise at once.
InTurn(j, c) ==
    \A b \in event[j].todo : <<b, c>> \notin {<<"email", "webhook">>, <<"wazuh", "elk">>, <<"jira", "servicenow">>}

send(j, c) == event[j].kind = "notifications" /\ event[j].level # "test" /\ InTurn(j, c) /\ Channel(j, c)
send_finding(j, c) == event[j].kind = "siem" /\ event[j].level # "test" /\ Channel(j, c)
create_ticket(j, c) == event[j].kind = "ticketing" /\ event[j].level # "test" /\ Channel(j, c)
test(j, c) == event[j].level = "test" /\ InTurn(j, c) /\ Channel(j, c)

Finish(j) ==
    /\ event[j].pc = "channels" /\ event[j].todo = {}
    /\ Over(j) /\ delivered' = {}
    /\ UNCHANGED <<org, active, settings, disk, scope, net, cache, save, changes, home, unfinished>>

----------------------------------------------------------------------------
\* Saving settings

Begins(r, s, k) ==
    /\ save[r].pc = "none" /\ s \in active
    /\ \E on \in SUBSET OUTBOUND[k] :
           save' = [save EXCEPT ![r] = [pc |-> "check", slug |-> s, org |-> org[s], kind |-> k, new |-> on]]

\* An organisation's settings are copied, and the fields of the request put into
\* the copy; a type that does not fit is refused and nothing has changed.
_save_integration(r, s, k) ==
    /\ s # Default /\ Begins(r, s, k)
    /\ UNCHANGED <<org, active, settings, disk, scope, net, cache, event, changes, delivered, home, unfinished>>

\* The managers of a slug that a save which raised leaves as they were.
Left(s, k) == IF cache[<<s, k>>] # NoMgr THEN {<<s, k>>} ELSE {}
Thrown(s, k) == cache' = [cache EXCEPT ![<<s, k>>] = NoMgr] /\ unfinished' = unfinished \ {<<s, k>>}
Stays(s, k) == cache' = cache /\ unfinished' = unfinished \cup Left(s, k)

\* Channels whose fields come before one that a type may not fit.
Earlier == [notifications |-> {"email"}, siem |-> {"wazuh", "elk"}, ticketing |-> {"jira"}]

\* The platform's are changed in place, field by field, written to config.yaml,
\* and the manager is thrown away.  A type that does not fit ends it with the
\* fields before changed (apply_update), an error of the file with all of them
\* (Config.save), and in both the manager stays.
SavePlatform(k) ==
    /\ \E on \in SUBSET OUTBOUND[k] :
         LET new == [settings EXCEPT ![Platform][k].on = on]
             half == [settings EXCEPT ![Platform][k].on = (@ \ Earlier[k]) \cup (on \cap Earlier[k])] IN
         \/ settings' = new /\ disk' = [disk EXCEPT ![Platform] = new[Platform]] /\ Thrown(Default, k)
         \/ settings' = half /\ Stays(Default, k) /\ UNCHANGED disk
         \/ Refusals /\ settings' = new /\ Stays(Default, k) /\ UNCHANGED disk
    /\ UNCHANGED <<org, active, scope, net, event, save, changes, delivered, home>>

SaveRefused(r) ==
    /\ save[r].pc = "check"
    /\ Refusals \/ outbound_problem(save[r].org, save[r].new, scope[save[r].org])
    /\ save' = [save EXCEPT ![r] = NoSave]
    /\ UNCHANGED <<org, active, settings, disk, scope, net, cache, event, changes, delivered, home, unfinished>>

\* The record that is written: that of the organisation the request began with,
\* with this kind replaced; it goes to the one that has the slug now.
Written(r) ==
    [settings EXCEPT ![org[save[r].slug]] =
        [settings[save[r].org] EXCEPT ![save[r].kind] = [owner |-> save[r].org, on |-> save[r].new]]]

\* Mutant: the manager stays until the next restart.
SaveWrite_keeps(r) ==
    /\ save[r].pc = "check"
    /\ ~outbound_problem(save[r].org, save[r].new, scope[save[r].org])
    /\ settings' = Written(r)
    /\ \/ WritesRegistry(Written(r)) /\ cache' = cache /\ UNCHANGED unfinished
       \/ Refusals /\ Stays(save[r].slug, save[r].kind) /\ UNCHANGED disk
    /\ save' = [save EXCEPT ![r] = NoSave]
    /\ UNCHANGED <<org, active, scope, net, event, changes, delivered, home>>

\* The destinations have been resolved.  The settings change in memory, the
\* registry is written, and the manager of this kind is thrown away; it stays
\* when the registry cannot be written (set_setting).
SaveWrite(r) ==
    /\ save[r].pc = "check"
    /\ ~outbound_problem(save[r].org, save[r].new, scope[save[r].org])
    /\ settings' = Written(r)
    /\ \/ WritesRegistry(Written(r)) /\ Thrown(save[r].slug, save[r].kind)
       \/ Refusals /\ Stays(save[r].slug, save[r].kind) /\ UNCHANGED disk
    /\ save' = [save EXCEPT ![r] = NoSave]
    /\ UNCHANGED <<org, active, scope, net, event, changes, delivered, home>>

\* A restart forgets managers, events and requests, and reads the files.
PlatformRestarts ==
    /\ changes < MaxChanges /\ changes' = changes + 1
    /\ settings' = disk
    /\ cache' = [sk \in AllSlugs \X Kinds |-> NoMgr]
    /\ event' = [j \in Events |-> NoEvent]
    /\ save' = [r \in Saves |-> NoSave]
    /\ unfinished' = {} /\ delivered' = {}
    /\ UNCHANGED <<org, active, disk, scope, net, home>>

\* What is asked of a kind of integration: to tell something, to be tried out, to
\* be set up.
Asked(k) ==
    \/ \E j \in Events, s \in AllSlugs : Emit(j, s, k) \/ _test_integration(j, s, k)
    \/ \E r \in Saves, s \in AllSlugs : _save_integration(r, s, k)
    \/ SavePlatform(k)

\* What is under way goes on, and the world around it changes.
GoesOn ==
    \/ \E s \in Slugs : CreateOrg(s) \/ DeleteOrg(s)
    \/ \E o \in Orgs : AllowedChanges(o) \/ DestinationMoves(o)
    \/ \E j \in Events :
           \/ TakeManager(j) \/ Guard(j) \/ Store(j) \/ Select(j) \/ Finish(j)
           \/ \E c \in event[j].todo : send(j, c) \/ send_finding(j, c) \/ create_ticket(j, c) \/ test(j, c)
    \/ \E r \in Saves : SaveRefused(r) \/ SaveWrite(r)
    \/ PlatformRestarts

IntegrationsNext == (\E k \in Kinds : Asked(k)) \/ GoesOn

IntegrationsSpec == IntegrationsInit /\ [][IntegrationsNext]_integrationsVars

----------------------------------------------------------------------------
\* What is told under a slug goes to destinations saved under that slug, and is
\* stored in the database of an organisation that has it: with no slug used
\* twice, in its own.
OwnDestinations ==
    /\ \A d \in delivered : home[d.owner] = home[d.org]
    /\ \A j \in Events : event[j].stored # 0 => home[event[j].stored] = home[event[j].org]

\* Nothing of an organisation is sent to an address that is not public, unless
\* its scope had that network when the manager was built, the name has moved
\* since the guard resolved it, or the destination redirected what it was sent.
GuardHolds ==
    \A d \in delivered : home[d.org] # Default /\ d.sure /\ ~d.redirected =>
        d.net = "public" \/ (d.net = "inner" /\ d.allowed)

\* What is sent for an organisation goes to destinations of its own slug, and
\* first to no network its scope does not allow (GuardedIntegration).
OutputsPrivate == IntegrationsTypeOK /\ OwnDestinations /\ GuardHolds

\* A save takes effect, unless it raised half-way: while no slug is used twice,
\* the manager kept for an organisation is that of its settings; when a send has ended, every channel
\* the manager has on was tried, whatever the others did; and a notification,
\* other than a test, goes out only after it was stored.
OutputsFollowSettings ==
    /\ \A s \in AllSlugs, k \in Kinds :
           cache[<<s, k>>] # NoMgr /\ <<s, k>> \notin unfinished /\ (\A o \in Orgs : home[o] = s /\ s # Default => o = org[s]) =>
               cache[<<s, k>>].on = settings[org[s]][k].on
    /\ \A j \in Events : event[j].pc = "channels" /\ event[j].todo = {} => event[j].tried = event[j].mgr.on
    /\ \A j \in Events : event[j].pc = "channels" /\ event[j].kind = "notifications" /\ event[j].level # "test" =>
           event[j].stored # 0
============================================================================
