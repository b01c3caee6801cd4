---------------------------- MODULE TenantsProofs ----------------------------
(***************************************************************************)
(* What Tenants promises, proved for any number of slugs, organisations,   *)
(* requests, seconds and restarts.                                         *)
(*                                                                         *)
(* Whose rows a file can have depends on what the works under way were let *)
(* in with: WorkSound says that whoever is about to write came for the     *)
(* organisation that had the slug, or its write is counted as crossed; and *)
(* OwnRows extends InheritanceExplained to slugs without organisation.     *)
(*                                                                         *)
(* The second part proves what PlatformScheduler promises; the run tenants *)
(* checks both.                                                            *)
(***************************************************************************)
EXTENDS Tenants, PlatformScheduler, WellFoundedInduction, NaturalsInduction, TLAPS

\* Organisations are numbered as they are made, and one is deleted only once.
RegistrySound ==
  \A s \in Slugs :
    /\ registry[s].org <= made
    /\ registry[s].active => registry[s].org # 0
    /\ \A t \in Seconds :
         deletions[<<s, t>>] + (IF registry[s].active THEN 1 ELSE 0) <= made

\* A work is of an organisation that was made; only a member's session is looked
\* for; a creation has the slug of its organisation; who writes came for the
\* organisation of the slug, or by rows that a deletion had left.
WorkSound(q) ==
  q # Idle =>
    /\ q.org <= made
    /\ q.pc = "session" => q.kind = "member"
    /\ q.kind = "creation" => \A t \in Slugs : registry[t].org = q.org => t = q.slug
    /\ q.kind # "member" \/ q.pc = "write" => q.own
    /\ ~q.own => q.org # registry[q.slug].org

\* A file has the rows of the organisation of its slug, and of none when there is
\* none, but for the slugs that InheritanceExplained excepts.
OwnRows ==
  \A s \in Slugs \ (kept \cup crossed) :
    file[s] # NoFile =>
      file[s].data \subseteq (IF registry[s].active THEN {registry[s].org} ELSE {})

\* No file was set aside in a second without deletions.
ArchivesCounted ==
  \A s \in Slugs, t \in Seconds : deletions[<<s, t>>] = 0 => archived[<<s, t>>] = {}

\* What was stored is in a file or was set aside (ArchivesKeepData, which does not
\* mind the name of a file that is not there).
DataSomewhere ==
  \/ \E a \in Slugs \X Seconds : deletions[a] > 1
  \/ \A o \in wrote : \/ \E s \in Slugs : file[s] # NoFile /\ o \in file[s].data
                      \/ \E a \in Slugs \X Seconds : o \in archived[a]

Base == /\ TypeOK /\ RegistrySound
        /\ \A w \in Works : WorkSound(work[w])

Rest == OwnRows /\ OpenHasTables /\ ActiveHasAdmin /\ ArchivesCounted /\ DataSomewhere

TenantsInv == Base /\ Rest

-----------------------------------------------------------------------------

USE TenantsAssumption

Database == [tables: BOOLEAN, data: SUBSET Orgs]

LEMMA WorkShape ==
  ASSUME TypeOK, NEW w \in Works
  PROVE  /\ work[w] \in Work \/ work[w] = Idle
         /\ work[w].pc \in {"idle", "init", "opened", "session", "write"}
         /\ work[w] = Idle <=> work[w].pc = "idle"
         /\ work[w] # Idle =>
              work[w] \in Work /\ work[w].slug \in Slugs /\ work[w].org \in Orgs
<1>1. work[w] \in Work \/ work[w] = Idle
  BY DEF TypeOK
<1>2. CASE work[w] \in Work
  BY <1>2 DEF Work, Idle
<1>3. CASE work[w] = Idle
  BY <1>3 DEF Idle
<1> QED BY <1>1, <1>2, <1>3

LEMMA FileShape ==
  ASSUME TypeOK, NEW s \in Slugs
  PROVE  /\ file[s] \in Database \/ file[s] = NoFile
         /\ file[s] # NoFile => file[s] \in Database
         /\ file[s].tables => file[s] # NoFile
         /\ file[s].tables \in BOOLEAN
<1>1. file[s] \in Database \cup {NoFile}
  BY DEF TypeOK, Database
<1>2. NoFile.tables = FALSE
  BY DEF NoFile
<1>3. file[s] \in Database => file[s].tables \in BOOLEAN
  BY DEF Database
<1> QED BY <1>1, <1>2, <1>3

LEMMA NoDatabase == NoFile \notin Database
BY DEF NoFile, Database, Orgs

\* A file is written.
LEMMA FileSet ==
  ASSUME TypeOK, NEW s \in Slugs, NEW f \in Database \cup {NoFile},
         file' = [file EXCEPT ![s] = f]
  PROVE  /\ file' \in [Slugs -> Database \cup {NoFile}]
         /\ file'[s] = f /\ \A t \in Slugs \ {s} : file'[t] = file[t]
BY DEF TypeOK, Database

\* The registry may only give a slug to the next organisation, or to none.
RegistryMoves ==
  /\ made <= made'
  /\ \A t \in Slugs, o \in Orgs :
       o <= made /\ registry'[t].org = o => registry[t].org = o

\* One work goes on; what is true of the others stays true.
LEMMA WorkSet ==
  ASSUME Base, NEW w \in Works, NEW q \in Work \cup {Idle},
         work' = [work EXCEPT ![w] = q],
         RegistryMoves, made' \in Nat, WorkSound(q)'
  PROVE  /\ work' \in [Works -> Work \cup {Idle}]
         /\ work'[w] = q /\ \A x \in Works \ {w} : work'[x] = work[x]
         /\ (\A x \in Works : WorkSound(work[x]))'
<1>1. /\ work' \in [Works -> Work \cup {Idle}]
      /\ work'[w] = q /\ \A x \in Works \ {w} : work'[x] = work[x]
  BY DEF Base, TypeOK
<1>2. ASSUME NEW x \in Works \ {w} PROVE WorkSound(work[x])'
  <2>1. work'[x] = work[x] /\ WorkSound(work[x])
    BY <1>1 DEF Base
  <2>2. work[x] # Idle => work[x].slug \in Slugs /\ work[x].org \in Orgs
    BY WorkShape DEF Base
  <2>3. made \in Nat
    BY DEF Base, TypeOK
  <2> QED BY <2>1, <2>2, <2>3 DEF WorkSound, RegistryMoves, Orgs
<1>3. WorkSound(work[w])'
  BY <1>1 DEF WorkSound
<1> QED BY <1>1, <1>2, <1>3

LEMMA IdleSound == WorkSound(Idle) /\ WorkSound(Idle)'
BY DEF WorkSound

LEMMA GotoSet ==
  ASSUME Base, NEW w \in Works, work[w] # Idle, NEW pc, Goto(w, pc),
         pc \in {"opened", "session", "write"}
  PROVE  \E q \in Work :
           /\ work' = [work EXCEPT ![w] = q] /\ q # Idle
           /\ q.pc = pc /\ q.kind = work[w].kind /\ q.slug = work[w].slug
           /\ q.org = work[w].org /\ q.own = work[w].own
<1> DEFINE q == [work[w] EXCEPT !.pc = pc]
<1>1. work[w] \in Work
  BY WorkShape DEF Base
<1>2. q \in Work /\ q.pc = pc /\ q.kind = work[w].kind /\ q.slug = work[w].slug
      /\ q.org = work[w].org /\ q.own = work[w].own
  BY <1>1 DEF Work
<1>3. q # Idle
  BY <1>2 DEF Idle
<1>4. work' = [work EXCEPT ![w] = q]
  BY DEF Goto
<1> QED BY <1>2, <1>3, <1>4

\* Most steps leave the registry, and what else concerns it, alone.
LEMMA RegistrySame ==
  ASSUME Base, UNCHANGED <<registry, made, deletions>>
  PROVE  RegistryMoves /\ RegistrySound' /\ made' \in Nat
BY DEF Base, RegistrySound, RegistryMoves, TypeOK

LEMMA WorkEnds ==
  ASSUME Base, NEW w \in Works, Finish(w), RegistryMoves, made' \in Nat
  PROVE  /\ work' \in [Works -> Work \cup {Idle}]
         /\ work'[w] = Idle /\ \A x \in Works \ {w} : work'[x] = work[x]
         /\ (\A x \in Works : WorkSound(work[x]))'
BY WorkSet, IdleSound DEF Finish

\* Where a work that begins goes.
LEMMA BeginSet ==
  ASSUME Base, NEW w \in Works, NEW s \in Slugs, NEW org \in Orgs, NEW kind \in Kinds,
         NEW first \in {"session", "write"}, Begin(w, kind, s, org, first)
  PROVE  \E q \in Work :
           /\ work' = [work EXCEPT ![w] = q]
           /\ q.pc \in {"init", first} /\ q.kind = kind /\ q.slug = s /\ q.org = org
           /\ q.own = (org = registry'[s].org) /\ q # Idle
<1> DEFINE q == [pc |-> IF s \in open THEN first ELSE "init", kind |-> kind,
                 slug |-> s, org |-> org, own |-> org = registry'[s].org]
<1>1. q \in Work /\ q.pc \in {"init", first} /\ q # Idle
  BY DEF Work, Idle
<1>2. work' = [work EXCEPT ![w] = q]
  BY DEF Begin
<1> QED BY <1>1, <1>2

-----------------------------------------------------------------------------

LEMMA CreateBase ==
  ASSUME Base, NEW w \in Works, NEW s \in Slugs, NEW admin \in BOOLEAN, Create(w, s, admin)
  PROVE  Base' /\ \E q \in Work \cup {Idle} :
                    /\ work' = [work EXCEPT ![w] = q]
                    /\ \/ /\ q # Idle /\ q.kind = "creation" /\ q.org = made'
                          /\ unled' = unled
                       \/ unled' = unled \cup {made'}
<1>1. /\ made < MaxOrgs /\ made' = made + 1 /\ ~registry[s].active /\ work[w] = Idle
      /\ registry' = [registry EXCEPT ![s] = [active |-> TRUE, org |-> made + 1]]
      /\ UNCHANGED <<file, archived, open, second, restarts, wrote, deletions, kept,
                     crossed, raced>>
  BY DEF Create, Register
<1>2. made \in Nat /\ made' \in Orgs /\ made' \in Nat /\ made' \in 0 .. MaxOrgs
  BY <1>1 DEF Base, TypeOK, Orgs
<1>3. /\ registry' \in [Slugs -> [active: BOOLEAN, org: 0 .. MaxOrgs]]
      /\ registry'[s].active /\ registry'[s].org = made'
      /\ \A t \in Slugs \ {s} : registry'[t] = registry[t]
  BY <1>1, <1>2 DEF Base, TypeOK
<1>4. RegistryMoves
  BY <1>1, <1>2, <1>3 DEF RegistryMoves
<1>5. RegistrySound'
  <2> SUFFICES ASSUME NEW t \in Slugs
               PROVE  /\ registry'[t].org <= made'
                      /\ registry'[t].active => registry'[t].org # 0
                      /\ \A u \in Seconds :
                           deletions[<<t, u>>] + (IF registry'[t].active THEN 1 ELSE 0) <= made'
    BY <1>1 DEF RegistrySound
  <2>1. registry[t].org \in 0 .. MaxOrgs /\ \A u \in Seconds : deletions[<<t, u>>] \in Nat
    BY DEF Base, TypeOK
  <2>2. CASE t = s
    BY <1>1, <1>2, <1>3, <2>1, <2>2 DEF Base, RegistrySound
  <2>3. CASE t # s
    BY <1>1, <1>2, <1>3, <2>1, <2>3 DEF Base, RegistrySound
  <2> QED BY <2>2, <2>3
<1>6. ASSUME NEW kind \in Creations, Begin(w, kind, s, made', "write")
      PROVE  \E q \in Work :
               /\ work' = [work EXCEPT ![w] = q] /\ q # Idle
               /\ q.pc \in {"init", "write"} /\ q.kind = kind /\ q.slug = s /\ q.org = made'
               /\ q.own = (made' = registry'[s].org)
  <2> DEFINE q == [pc |-> IF s \in open THEN "write" ELSE "init", kind |-> kind,
                   slug |-> s, org |-> made', own |-> made' = registry'[s].org]
  <2>1. q \in Work /\ q.pc \in {"init", "write"} /\ q # Idle
    BY <1>2 DEF Work, Idle, Kinds
  <2>2. work' = [work EXCEPT ![w] = q]
    BY <1>6 DEF Begin
  <2> QED BY <2>1, <2>2
<1>7. PICK q \in Work \cup {Idle} :
        /\ work' = [work EXCEPT ![w] = q]
        /\ \/ q = Idle
           \/ /\ q # Idle /\ q.pc \in {"init", "write"} /\ q.kind \in Creations /\ q.slug = s
              /\ q.org = made' /\ q.own = (made' = registry'[s].org)
        /\ \/ q # Idle /\ q.kind = "creation" /\ unled' = unled
           \/ unled' = unled \cup {made'}
  <2>1. CASE admin
    <3>1. Begin(w, "creation", s, made', "write") /\ unled' = unled
      BY <2>1 DEF Create
    <3>2. "creation" \in Creations
      BY DEF Creations
    <3>3. PICK q \in Work :
            /\ work' = [work EXCEPT ![w] = q] /\ q # Idle
            /\ q.pc \in {"init", "write"} /\ q.kind = "creation" /\ q.slug = s
            /\ q.org = made' /\ q.own = (made' = registry'[s].org)
      BY <3>1, <3>2, <1>6
    <3> QED BY <3>1, <3>2, <3>3
  <2>2. CASE ~admin /\ s \in open
    <3>1. unled' = unled \cup {made'} /\ work' = work
      BY <2>2 DEF Create
    <3>2. PICK q \in {Idle} : work' = [work EXCEPT ![w] = q]
      BY <1>1, <3>1 DEF Base, TypeOK
    <3> QED BY <3>1, <3>2
  <2>3. CASE ~admin /\ s \notin open
    <3>1. Begin(w, "bare creation", s, made', "write") /\ unled' = unled \cup {made'}
      BY <2>3 DEF Create
    <3>2. "bare creation" \in Creations
      BY DEF Creations
    <3>3. PICK q \in Work :
            /\ work' = [work EXCEPT ![w] = q] /\ q # Idle
            /\ q.pc \in {"init", "write"} /\ q.kind = "bare creation" /\ q.slug = s
            /\ q.org = made' /\ q.own = (made' = registry'[s].org)
      BY <3>1, <3>2, <1>6
    <3> QED BY <3>1, <3>2, <3>3
  <2> QED BY <2>1, <2>2, <2>3
<1>8. WorkSound(q)'
  <2>1. \A t \in Slugs : registry'[t].org = made' => t = s
    BY <1>1, <1>2, <1>3 DEF Base, RegistrySound, TypeOK
  <2>2. CASE q = Idle
    BY <2>2, IdleSound
  <2>3. CASE q # Idle
    <3>1. /\ q.pc \in {"init", "write"} /\ q.kind # "member" /\ q.slug = s
          /\ q.org = made' /\ q.own = (made' = registry'[s].org)
      BY <1>7, <2>3 DEF Creations
    <3> QED BY <1>2, <1>3, <2>1, <3>1 DEF WorkSound
  <2> QED BY <2>2, <2>3
<1>9. work' \in [Works -> Work \cup {Idle}] /\ (\A x \in Works : WorkSound(work[x]))'
  BY <1>2, <1>4, <1>7, <1>8, WorkSet
<1>10. unled' \subseteq Orgs
  BY <1>2, <1>7 DEF Base, TypeOK
<1>11. TypeOK'
  BY <1>1, <1>2, <1>3, <1>9, <1>10 DEF Base, TypeOK
<1>12. \/ /\ q # Idle /\ q.kind = "creation" /\ q.org = made' /\ unled' = unled
       \/ unled' = unled \cup {made'}
  BY <1>7
<1> QED BY <1>5, <1>7, <1>9, <1>11, <1>12 DEF Base

LEMMA EnterBase ==
  ASSUME Base, NEW w \in Works, NEW kind \in Kinds, NEW s \in Slugs, NEW org \in Orgs,
         Enter(w, kind, s, org)
  PROVE  Base' /\ work[w] = Idle
<1> DEFINE first == IF kind = "member" THEN "session" ELSE "write"
<1>1. /\ UNCHANGED <<registry, file, archived, open, made, second, restarts, wrote,
                     deletions, kept, crossed, raced, unled>>
      /\ Begin(w, kind, s, org, first) /\ org <= made /\ kind \notin Creations
      /\ kind \in {"superadmin", "agent"} => org = registry[s].org
      /\ work[w] = Idle
  BY DEF Enter, Base, TypeOK
<1>2. PICK q \in Work :
        /\ work' = [work EXCEPT ![w] = q] /\ q # Idle
        /\ q.pc \in {"init", first} /\ q.kind = kind /\ q.slug = s /\ q.org = org
        /\ q.own = (org = registry'[s].org)
  BY <1>1, BeginSet
<1>3. WorkSound(q)'
  BY <1>1, <1>2 DEF WorkSound, Kinds, Creations
<1>4. work' \in [Works -> Work \cup {Idle}] /\ (\A x \in Works : WorkSound(work[x]))'
  BY <1>1, <1>2, <1>3, RegistrySame, WorkSet
<1>5. TypeOK'
  BY <1>1, <1>4 DEF Base, TypeOK
<1> QED BY <1>1, <1>4, <1>5, RegistrySame DEF Base

\* The file of an initialised database, or of one that connect has made.
LEMMA InitDatabaseFile ==
  ASSUME TypeOK, NEW s \in Slugs
  PROVE  [tables |-> TRUE, data |-> IF file[s] = NoFile THEN {} ELSE file[s].data]
           \in Database
<1>1. file[s] # NoFile => file[s].data \in SUBSET Orgs
  BY FileShape DEF Database
<1> QED BY <1>1 DEF Database

LEMMA ConnectFile ==
  ASSUME TypeOK, NEW s \in Slugs, Connect(s)
  PROVE  /\ file' \in [Slugs -> Database \cup {NoFile}]
         /\ file'[s] # NoFile
         /\ file'[s] = IF file[s] = NoFile THEN [tables |-> FALSE, data |-> {}] ELSE file[s]
         /\ file'[s].tables = file[s].tables
         /\ \A t \in Slugs \ {s} : file'[t] = file[t]
<1> DEFINE new == [tables |-> FALSE, data |-> {}]
           f == IF file[s] = NoFile THEN new ELSE file[s]
<1>1. new \in Database /\ new.tables = FALSE
  BY DEF Database
<1>2. NoFile.tables = FALSE
  BY DEF NoFile
<1>3. f \in Database
  BY <1>1, FileShape
<1>4. f # NoFile
  BY <1>3, NoDatabase
<1>5. f.tables = file[s].tables
  BY <1>1, <1>2
<1>6. file' = [file EXCEPT ![s] = f]
  BY DEF Connect
<1>7. /\ file' \in [Slugs -> Database \cup {NoFile}]
      /\ file'[s] = f /\ \A t \in Slugs \ {s} : file'[t] = file[t]
  <2> HIDE DEF f
  <2> QED BY <1>3, <1>6, FileSet
<1> QED BY <1>4, <1>5, <1>7

LEMMA InitDatabaseBase ==
  ASSUME Base, NEW w \in Works, InitDatabase(w)
  PROVE  Base' /\ work[w] # Idle /\ work[w].slug \in Slugs
<1> DEFINE s == work[w].slug
           f == [tables |-> TRUE, data |-> IF file[s] = NoFile THEN {} ELSE file[s].data]
<1>1. /\ file' = [file EXCEPT ![s] = f] /\ Goto(w, "opened") /\ work[w].pc = "init"
      /\ UNCHANGED <<registry, archived, open, made, second, restarts, wrote, deletions,
                     kept, crossed, raced, unled>>
  BY DEF InitDatabase
<1>2. work[w] # Idle /\ s \in Slugs /\ WorkSound(work[w])
  BY <1>1, WorkShape DEF Base
<1>3. file' \in [Slugs -> Database \cup {NoFile}]
  <2>1. f \in Database
    BY <1>2, InitDatabaseFile DEF Base
  <2> HIDE DEF f
  <2> QED BY <1>1, <1>2, <2>1, FileSet DEF Base
<1>4. PICK q \in Work :
        /\ work' = [work EXCEPT ![w] = q] /\ q # Idle
        /\ q.pc = "opened" /\ q.kind = work[w].kind /\ q.slug = work[w].slug
        /\ q.org = work[w].org /\ q.own = work[w].own
  BY <1>1, <1>2, GotoSet
<1>5. WorkSound(q)'
  BY <1>1, <1>2, <1>4 DEF WorkSound
<1>6. work' \in [Works -> Work \cup {Idle}] /\ (\A x \in Works : WorkSound(work[x]))'
  BY <1>1, <1>4, <1>5, RegistrySame, WorkSet
<1>7. TypeOK'
  BY <1>1, <1>3, <1>6 DEF Base, TypeOK, Database
<1> QED BY <1>1, <1>2, <1>6, <1>7, RegistrySame DEF Base

LEMMA OpenBase ==
  ASSUME Base, NEW w \in Works, Open(w)
  PROVE  Base' /\ work[w] # Idle /\ work[w].slug \in Slugs
<1> DEFINE s == work[w].slug
           next == IF work[w].kind = "member" THEN "session" ELSE "write"
<1>1. /\ open' = open \cup {s} /\ work[w].pc = "opened"
      /\ IF work[w].kind = "bare creation" THEN Finish(w) ELSE Goto(w, next)
      /\ raced' = IF file[s].tables THEN raced ELSE raced \cup {s}
      /\ UNCHANGED <<registry, file, archived, made, second, restarts, wrote, deletions,
                     kept, crossed, unled>>
  BY DEF Open
<1>2. work[w] # Idle /\ s \in Slugs /\ WorkSound(work[w])
  BY <1>1, WorkShape DEF Base
<1>3. open' \subseteq Slugs /\ raced' \subseteq Slugs
  BY <1>1, <1>2 DEF Base, TypeOK
<1>4. RegistryMoves /\ RegistrySound' /\ made' \in Nat
  BY <1>1, RegistrySame
<1>5. CASE Finish(w)
  <2>1. work' \in [Works -> Work \cup {Idle}] /\ (\A x \in Works : WorkSound(work[x]))'
    BY <1>4, <1>5, WorkEnds
  <2>2. TypeOK'
    BY <1>1, <1>3, <2>1 DEF Base, TypeOK
  <2> QED BY <1>1, <1>2, <1>4, <2>1, <2>2 DEF Base
<1>6. CASE Goto(w, next)
  <2>1. PICK q \in Work :
          /\ work' = [work EXCEPT ![w] = q] /\ q # Idle
          /\ q.pc = next /\ q.kind = work[w].kind /\ q.slug = work[w].slug
          /\ q.org = work[w].org /\ q.own = work[w].own
    <3>1. next \in {"opened", "session", "write"}
      OBVIOUS
    <3> HIDE DEF next
    <3> QED BY <1>2, <1>6, <3>1, GotoSet
  <2>2. WorkSound(q)'
    BY <1>1, <1>2, <2>1 DEF WorkSound
  <2>3. work' \in [Works -> Work \cup {Idle}] /\ (\A x \in Works : WorkSound(work[x]))'
    BY <1>4, <2>1, <2>2, WorkSet
  <2>4. TypeOK'
    BY <1>1, <1>3, <2>3 DEF Base, TypeOK
  <2> QED BY <1>1, <1>2, <1>4, <2>3, <2>4 DEF Base
<1> QED BY <1>1, <1>5, <1>6

\* A member of an earlier organisation is let in only by rows that a deletion left.
LEMMA CheckSessionBase ==
  ASSUME Base, OwnRows, NEW w \in Works, CheckSession(w)
  PROVE  Base' /\ work[w] # Idle /\ work[w].slug \in Slugs /\ work[w].kind = "member"
<1> DEFINE s == work[w].slug
<1>1. /\ Connect(s) /\ work[w].pc = "session"
      /\ UNCHANGED <<registry, archived, open, made, second, restarts, wrote, deletions,
                     kept, crossed, raced, unled>>
  BY DEF CheckSession
<1>2. /\ work[w] # Idle /\ work[w] \in Work /\ s \in Slugs /\ WorkSound(work[w])
      /\ work[w].kind = "member"
  BY <1>1, WorkShape DEF Base, WorkSound
<1>3. file' \in [Slugs -> Database \cup {NoFile}]
  BY <1>1, <1>2, ConnectFile DEF Base
<1>4. PICK q \in Work :
        /\ q.pc = "write" /\ q.kind = "member" /\ q.slug = s /\ q.org = work[w].org
        /\ q.own = (work[w].own \/ s \in kept \cup crossed)
        /\ \/ Finish(w)
           \/ /\ file[s].tables /\ work[w].org \in file[s].data
              /\ work' = [work EXCEPT ![w] = q]
  <2> DEFINE next == [work[w] EXCEPT !.pc = "write",
                                     !.own = work[w].own \/ s \in kept \cup crossed]
  <2>1. /\ next \in Work
        /\ next.pc = "write" /\ next.kind = "member" /\ next.slug = s
        /\ next.org = work[w].org
        /\ next.own = (work[w].own \/ s \in kept \cup crossed)
    BY <1>2 DEF Work
  <2>2. \/ Finish(w)
        \/ /\ file[s].tables /\ work[w].org \in file[s].data
           /\ work' = [work EXCEPT ![w] = next]
    BY DEF CheckSession, Continue, Finish
  <2> HIDE DEF next
  <2> QED BY <2>1, <2>2
<1>6. ASSUME file[s].tables, work[w].org \in file[s].data,
             work' = [work EXCEPT ![w] = q]
      PROVE  work' \in [Works -> Work \cup {Idle}] /\ (\A x \in Works : WorkSound(work[x]))'
  <2>1. q.own
    <3>1. CASE s \in kept \cup crossed
      BY <1>4, <3>1
    <3>2. CASE s \notin kept \cup crossed
      <4>1. file[s] # NoFile
        BY <1>2, <1>6, FileShape DEF Base
      <4>2. work[w].org = registry[s].org
        BY <1>2, <1>6, <3>2, <4>1 DEF OwnRows
      <4> QED BY <1>2, <1>4, <4>2 DEF WorkSound
    <3> QED BY <3>1, <3>2
  <2>2. WorkSound(q)'
    BY <1>1, <1>2, <1>4, <2>1 DEF WorkSound
  <2>3. work' \in [Works -> Work \cup {Idle}] /\ (\A x \in Works : WorkSound(work[x]))'
    BY <1>1, <1>4, <1>6, <2>2, RegistrySame, WorkSet
  <2> QED BY <2>3
<1>7. ASSUME Finish(w)
      PROVE  work' \in [Works -> Work \cup {Idle}] /\ (\A x \in Works : WorkSound(work[x]))'
  <2>1. RegistryMoves /\ made' \in Nat
    BY <1>1, RegistrySame
  <2> QED BY <1>7, <2>1, WorkEnds
<1>8. work' \in [Works -> Work \cup {Idle}] /\ (\A x \in Works : WorkSound(work[x]))'
  BY <1>4, <1>6, <1>7
<1>9. TypeOK'
  BY <1>1, <1>3, <1>8 DEF Base, TypeOK, Database
<1> QED BY <1>1, <1>2, <1>8, <1>9, RegistrySame DEF Base

\* A work that stores a row in a database with tables.
LEMMA StoreFile ==
  ASSUME TypeOK, NEW s \in Slugs, NEW org \in Orgs, file[s].tables,
         file' = [file EXCEPT ![s].data = @ \cup {org}]
  PROVE  /\ file' \in [Slugs -> Database \cup {NoFile}]
         /\ file'[s] # NoFile /\ file'[s].tables
         /\ file'[s].data = file[s].data \cup {org}
         /\ \A t \in Slugs \ {s} : file'[t] = file[t]
<1> DEFINE f == [file[s] EXCEPT !.data = file[s].data \cup {org}]
<1>1. f \in Database /\ f.tables /\ f.data = file[s].data \cup {org}
  <2>1. file[s] \in [tables: BOOLEAN, data: SUBSET Orgs]
    BY FileShape DEF Database
  <2>2. file[s].data \cup {org} \in SUBSET Orgs
    BY <2>1
  <2> QED BY <2>1, <2>2 DEF Database
<1>2. file' = [file EXCEPT ![s] = f]
  BY DEF TypeOK
<1>3. file'[s] = f /\ file' \in [Slugs -> Database \cup {NoFile}]
      /\ \A t \in Slugs \ {s} : file'[t] = file[t]
  <2> HIDE DEF f
  <2> QED BY <1>1, <1>2, FileSet
<1>4. f # NoFile
  <2> HIDE DEF f
  <2> QED BY <1>1, NoDatabase
<1> HIDE DEF f
<1> QED BY <1>1, <1>3, <1>4

LEMMA RaiseType ==
  ASSUME Base, NEW w \in Works, work[w] # Idle, Raise(w)
  PROVE  unled' \subseteq Orgs /\ Finish(w)
BY WorkShape DEF Raise, Base, TypeOK

\* A write reaches a database with tables, or ends.
LEMMA WriteCases ==
  ASSUME Base, NEW w \in Works, Write(w)
  PROVE  LET s == work[w].slug IN
         /\ work[w] # Idle /\ s \in Slugs /\ work[w].org \in Orgs /\ work[w].own
         /\ file' \in [Slugs -> Database \cup {NoFile}]
         /\ file'[s] # NoFile /\ file'[s].tables = file[s].tables
         /\ \A t \in Slugs \ {s} : file'[t] = file[t]
         /\ UNCHANGED <<registry, archived, open, made, second, restarts, deletions, kept,
                        raced>>
         /\ \/ /\ file[s].tables /\ file'[s].data = file[s].data \cup {work[w].org}
               /\ wrote' = wrote \cup {work[w].org} /\ unled' = unled
               /\ crossed' = IF registry[s] # [active |-> TRUE, org |-> work[w].org]
                               THEN crossed \cup {s} ELSE crossed
               /\ Finish(w) \/ (work[w].kind # "creation" /\ work' = work)
            \/ /\ ~file[s].tables /\ UNCHANGED <<wrote, crossed>> /\ Raise(w)
               /\ file'[s] = IF file[s] = NoFile
                               THEN [tables |-> FALSE, data |-> {}] ELSE file[s]
<1> DEFINE s == work[w].slug
<1>1. /\ work[w] # Idle /\ s \in Slugs /\ work[w].org \in Orgs /\ work[w].own
      /\ file[s].tables \in BOOLEAN
  BY WorkShape, FileShape DEF Write, Base, WorkSound
<1>2. UNCHANGED <<registry, archived, open, made, second, restarts, deletions, kept, raced>>
  BY DEF Write
<1>3. CASE file[s].tables
  <2>1. /\ file' = [file EXCEPT ![s].data = @ \cup {work[w].org}]
        /\ wrote' = wrote \cup {work[w].org} /\ unled' = unled
        /\ crossed' = IF registry[s] # [active |-> TRUE, org |-> work[w].org]
                        THEN crossed \cup {s} ELSE crossed
        /\ Finish(w) \/ (work[w].kind # "creation" /\ work' = work)
    BY <1>1, <1>3 DEF Write
  <2>2. /\ file' \in [Slugs -> Database \cup {NoFile}]
        /\ file'[s] # NoFile /\ file'[s].tables = file[s].tables
        /\ file'[s].data = file[s].data \cup {work[w].org}
        /\ \A t \in Slugs \ {s} : file'[t] = file[t]
    BY <1>1, <1>3, <2>1, StoreFile DEF Base, Database
  <2> QED BY <1>1, <1>2, <1>3, <2>1, <2>2
<1>4. CASE ~file[s].tables
  <2>1. Connect(s) /\ Raise(w) /\ UNCHANGED <<wrote, crossed>>
    BY <1>4 DEF Write
  <2> QED BY <1>1, <1>2, <1>4, <2>1, ConnectFile DEF Base
<1> QED BY <1>3, <1>4

LEMMA WriteBase ==
  ASSUME Base, NEW w \in Works, Write(w)
  PROVE  Base'
<1> DEFINE s == work[w].slug
<1>1. /\ work[w] # Idle /\ s \in Slugs /\ work[w].org \in Orgs
      /\ file' \in [Slugs -> Database \cup {NoFile}]
      /\ UNCHANGED <<registry, archived, open, made, second, restarts, deletions, kept, raced>>
  BY WriteCases
<1>2. wrote' \subseteq Orgs /\ unled' \subseteq Orgs /\ crossed' \subseteq Slugs
  <2>1. unled \subseteq Orgs /\ wrote \subseteq Orgs /\ crossed \subseteq Slugs
    BY DEF Base, TypeOK
  <2>2. \/ wrote' = wrote \cup {work[w].org} /\ unled' = unled
        \/ wrote' = wrote /\ Raise(w)
    BY WriteCases
  <2>3. crossed' \in {crossed, crossed \cup {s}}
    BY WriteCases
  <2>4. Raise(w) => unled' \subseteq Orgs
    BY <1>1, RaiseType
  <2> QED BY <1>1, <2>1, <2>2, <2>3, <2>4
<1>3. Finish(w) \/ work' = work
  BY WriteCases DEF Raise
<1>4. work' \in [Works -> Work \cup {Idle}] /\ (\A x \in Works : WorkSound(work[x]))'
  <2>1. RegistryMoves /\ made' \in Nat
    BY <1>1, RegistrySame
  <2>2. ASSUME work' = work
        PROVE  work' \in [Works -> Work \cup {Idle}] /\ (\A x \in Works : WorkSound(work[x]))'
    BY <1>1, <2>2 DEF Base, TypeOK, WorkSound
  <2> QED BY <1>3, <2>1, <2>2, WorkEnds
<1>5. TypeOK'
  BY <1>1, <1>2, <1>4 DEF Base, TypeOK, Database
<1> QED BY <1>1, <1>4, <1>5, RegistrySame DEF Base

LEMMA WorkRaisesBase ==
  ASSUME Base, NEW w \in Works, WorkRaises(w)
  PROVE  Base'
<1>1. /\ UNCHANGED <<registry, file, archived, open, made, second, restarts, wrote,
                     deletions, kept, crossed, raced>>
      /\ Finish(w) /\ unled' \subseteq Orgs
  BY RaiseType DEF WorkRaises
<1>2. work' \in [Works -> Work \cup {Idle}] /\ (\A x \in Works : WorkSound(work[x]))'
  <2>1. RegistryMoves /\ made' \in Nat
    BY <1>1, RegistrySame
  <2> QED BY <1>1, <2>1, WorkEnds
<1>3. TypeOK'
  BY <1>1, <1>2 DEF Base, TypeOK
<1> QED BY <1>1, <1>2, <1>3, RegistrySame DEF Base

LEMMA TickBase ==
  ASSUME Base, Tick PROVE Base'
<1>1. /\ second' \in Seconds
      /\ UNCHANGED <<registry, file, archived, open, work, made, restarts, wrote, deletions,
                     kept, crossed, raced, unled>>
  BY DEF Tick, Base, TypeOK, Seconds
<1>2. TypeOK' /\ (\A x \in Works : WorkSound(work[x]))'
  BY <1>1 DEF Base, TypeOK, WorkSound
<1> QED BY <1>1, <1>2, RegistrySame DEF Base

-----------------------------------------------------------------------------

\* An organisation that is deleted is the same, but not active.
LEMMA Deactivated ==
  ASSUME Base, NEW s \in Slugs, registry[s].active, deactivate(s), made' = made
  PROVE  /\ registry' \in [Slugs -> [active: BOOLEAN, org: 0 .. MaxOrgs]]
         /\ ~registry'[s].active /\ registry'[s].org = registry[s].org
         /\ \A t \in Slugs \ {s} : registry'[t] = registry[t]
         /\ RegistryMoves
<1>1. registry' = [registry EXCEPT ![s].active = FALSE]
  BY DEF deactivate
<1>2. /\ registry' \in [Slugs -> [active: BOOLEAN, org: 0 .. MaxOrgs]]
      /\ ~registry'[s].active /\ registry'[s].org = registry[s].org
      /\ \A t \in Slugs \ {s} : registry'[t] = registry[t]
  BY <1>1 DEF Base, TypeOK
<1> QED BY <1>2 DEF RegistryMoves, Base, TypeOK

\* What archive does with the file of a slug.
LEMMA ArchiveFacts ==
  ASSUME Base, NEW s \in Slugs, archive(s)
  PROVE  /\ open' = open \ {s} /\ kept' = kept \ {s} /\ crossed' = crossed \ {s}
         /\ file' \in [Slugs -> Database \cup {NoFile}]
         /\ file'[s] = NoFile /\ \A t \in Slugs \ {s} : file'[t] = file[t]
         /\ archived' \in [Slugs \X Seconds -> SUBSET Orgs]
         /\ \A a \in Slugs \X Seconds :
              /\ deletions'[a] = IF a = <<s, second>> /\ file[s] # NoFile
                                   THEN deletions[a] + 1 ELSE deletions[a]
              /\ archived'[a] = IF a = <<s, second>> /\ file[s] # NoFile
                                  THEN file[s].data ELSE archived[a]
         /\ deletions' \in [Slugs \X Seconds -> Nat]
<1>1. /\ open' = open \ {s} /\ kept' = kept \ {s} /\ crossed' = crossed \ {s}
      /\ file' = [file EXCEPT ![s] = NoFile]
      /\ archived' = IF file[s] = NoFile THEN archived
                     ELSE [archived EXCEPT ![<<s, second>>] = file[s].data]
      /\ deletions' = IF file[s] = NoFile THEN deletions
                      ELSE [deletions EXCEPT ![<<s, second>>] = deletions[<<s, second>>] + 1]
  BY DEF archive
<1>2. /\ file' \in [Slugs -> Database \cup {NoFile}]
      /\ file'[s] = NoFile /\ \A t \in Slugs \ {s} : file'[t] = file[t]
  BY <1>1, FileSet DEF Base
<1>3. <<s, second>> \in Slugs \X Seconds
  BY DEF Base, TypeOK
<1>4. /\ archived' \in [Slugs \X Seconds -> SUBSET Orgs]
      /\ \A a \in Slugs \X Seconds :
           archived'[a] = IF a = <<s, second>> /\ file[s] # NoFile
                            THEN file[s].data ELSE archived[a]
  <2>1. archived \in [Slugs \X Seconds -> SUBSET Orgs]
    BY DEF Base, TypeOK
  <2>2. file[s] # NoFile => file[s].data \in SUBSET Orgs
    BY FileShape DEF Base, Database
  <2> QED BY <1>1, <1>3, <2>1, <2>2
<1>5. /\ deletions' \in [Slugs \X Seconds -> Nat]
      /\ \A a \in Slugs \X Seconds :
           deletions'[a] = IF a = <<s, second>> /\ file[s] # NoFile
                             THEN deletions[a] + 1 ELSE deletions[a]
  <2>1. deletions \in [Slugs \X Seconds -> Nat]
    BY DEF Base, TypeOK
  <2> QED BY <1>1, <1>3, <2>1
<1> QED BY <1>1, <1>2, <1>4, <1>5

LEMMA DeleteBase ==
  ASSUME Base, NEW s \in Slugs, Delete(s)
  PROVE  Base'
<1>1. /\ registry[s].active /\ deactivate(s) /\ archive(s) /\ raced' = raced \ {s}
      /\ UNCHANGED <<work, made, second, restarts, wrote, unled>>
  BY DEF Delete
<1>2. RegistrySound'
  <2> SUFFICES ASSUME NEW t \in Slugs
               PROVE  /\ registry'[t].org <= made
                      /\ registry'[t].active => registry'[t].org # 0
                      /\ \A u \in Seconds :
                           deletions'[<<t, u>>] + (IF registry'[t].active THEN 1 ELSE 0)
                             <= made
    BY <1>1 DEF RegistrySound
  <2>1. /\ registry'[t].org = registry[t].org
        /\ registry'[t].active => registry[t].active
    BY <1>1, Deactivated
  <2>2. ASSUME NEW u \in Seconds
        PROVE  deletions'[<<t, u>>] + (IF registry'[t].active THEN 1 ELSE 0) <= made
    <3>1. deletions[<<t, u>>] \in Nat /\ made \in Nat
          /\ deletions[<<t, u>>] + (IF registry[t].active THEN 1 ELSE 0) <= made
      BY DEF Base, TypeOK, RegistrySound
    <3>2. CASE t = s
      <4>1. deletions'[<<t, u>>] \in {deletions[<<t, u>>], deletions[<<t, u>>] + 1}
        BY <1>1, ArchiveFacts
      <4> QED BY <1>1, <3>1, <3>2, <4>1, Deactivated
    <3>3. CASE t # s
      <4>1. deletions'[<<t, u>>] = deletions[<<t, u>>] /\ registry'[t] = registry[t]
        BY <1>1, <3>3, ArchiveFacts, Deactivated
      <4> QED BY <3>1, <4>1
    <3> QED BY <3>2, <3>3
  <2> QED BY <2>1, <2>2 DEF Base, RegistrySound
<1>3. deletions' \in [Slugs \X Seconds -> 0 .. MaxOrgs]
  <2>1. deletions' \in [Slugs \X Seconds -> Nat]
    BY <1>1, ArchiveFacts
  <2>2. ASSUME NEW t \in Slugs, NEW u \in Seconds PROVE deletions'[<<t, u>>] \in 0 .. MaxOrgs
    <3>1. deletions'[<<t, u>>] \in Nat /\ made \in 0 .. MaxOrgs
      BY <2>1 DEF Base, TypeOK
    <3>2. deletions'[<<t, u>>] + (IF registry'[t].active THEN 1 ELSE 0) <= made
      BY <1>1, <1>2 DEF RegistrySound
    <3> QED BY <3>1, <3>2
  <2> QED BY <2>1, <2>2
<1>4. (\A x \in Works : WorkSound(work[x]))'
  <2> SUFFICES ASSUME NEW x \in Works PROVE WorkSound(work[x])'
    OBVIOUS
  <2>1. WorkSound(work[x]) /\ (work[x] # Idle => work[x].slug \in Slugs)
    BY WorkShape DEF Base
  <2>2. \A t \in Slugs : registry'[t].org = registry[t].org
    BY <1>1, Deactivated
  <2> QED BY <1>1, <2>1, <2>2 DEF WorkSound
<1>5. /\ file' \in [Slugs -> Database \cup {NoFile}]
      /\ archived' \in [Slugs \X Seconds -> SUBSET Orgs]
      /\ open' \subseteq Slugs /\ kept' \subseteq Slugs /\ crossed' \subseteq Slugs
      /\ raced' \subseteq Slugs
      /\ registry' \in [Slugs -> [active: BOOLEAN, org: 0 .. MaxOrgs]]
  BY <1>1, ArchiveFacts, Deactivated DEF Base, TypeOK
<1>6. TypeOK'
  BY <1>1, <1>3, <1>5 DEF Base, TypeOK, Database
<1> QED BY <1>2, <1>4, <1>6 DEF Base

\* No registration but those of before, and some less.
LEMMA FewerRegistered ==
  ASSUME Base, UNCHANGED <<made, deletions>>,
         \A t \in Slugs : /\ registry'[t].org \in {registry[t].org, 0}
                          /\ registry'[t].active => registry'[t] = registry[t]
  PROVE  RegistrySound'
<1> SUFFICES ASSUME NEW t \in Slugs
             PROVE  /\ registry'[t].org <= made
                    /\ registry'[t].active => registry'[t].org # 0
                    /\ \A u \in Seconds :
                         deletions[<<t, u>>] + (IF registry'[t].active THEN 1 ELSE 0) <= made
  BY DEF RegistrySound
<1>1. made \in Nat /\ \A u \in Seconds : deletions[<<t, u>>] \in Nat
  BY DEF Base, TypeOK
<1>2. /\ registry[t].org <= made
      /\ registry[t].active => registry[t].org # 0
      /\ \A u \in Seconds :
           deletions[<<t, u>>] + (IF registry[t].active THEN 1 ELSE 0) <= made
  BY DEF Base, RegistrySound
<1> QED BY <1>1, <1>2

LEMMA DeleteFailsBase ==
  ASSUME Base, NEW s \in Slugs, DeleteFails(s)
  PROVE  Base'
<1>1. /\ registry[s].active /\ deactivate(s)
      /\ open' = open \ {s} /\ kept' = kept \cup {s} /\ raced' = raced \ {s}
      /\ UNCHANGED <<file, archived, work, made, second, restarts, wrote, deletions,
                     crossed, unled>>
  BY DEF DeleteFails
<1>2. \A t \in Slugs : /\ registry'[t].org = registry[t].org
                       /\ registry'[t].active => registry'[t] = registry[t]
  BY <1>1, Deactivated
<1>3. RegistrySound'
  BY <1>1, <1>2, FewerRegistered
<1>4. (\A x \in Works : WorkSound(work[x]))'
  <2> SUFFICES ASSUME NEW x \in Works PROVE WorkSound(work[x])'
    OBVIOUS
  <2>1. WorkSound(work[x]) /\ (work[x] # Idle => work[x].slug \in Slugs)
    BY WorkShape DEF Base
  <2> QED BY <1>1, <1>2, <2>1 DEF WorkSound
<1>5. TypeOK'
  BY <1>1, Deactivated DEF Base, TypeOK
<1> QED BY <1>3, <1>4, <1>5 DEF Base

\* When the server stops, every work ends, and creations are left half made.
LEMMA StoppedFacts ==
  ASSUME Base, Stopped
  PROVE  /\ open' = {} /\ raced' = {} /\ restarts' \in 0 .. MaxRestarts
         /\ work' \in [Works -> Work \cup {Idle}] /\ (\A x \in Works : WorkSound(work[x]))'
         /\ unled \subseteq unled' /\ unled' \subseteq Orgs
         /\ \A x \in Works : work[x] # Idle /\ work[x].kind = "creation"
                              => work[x].org \in unled'
         /\ UNCHANGED <<file, archived, made, second, wrote, deletions, crossed>>
<1>1. /\ restarts < MaxRestarts /\ restarts' = restarts + 1
      /\ open' = {} /\ raced' = {} /\ work' = [x \in Works |-> Idle]
      /\ unled' = unled \cup {work[x].org : x \in {v \in Works : work[v] # Idle
                                                 /\ work[v].kind = "creation"}}
      /\ UNCHANGED <<file, archived, made, second, wrote, deletions, crossed>>
  BY DEF Stopped
<1>2. restarts' \in 0 .. MaxRestarts
  BY <1>1 DEF Base, TypeOK
<1>3. work' \in [Works -> Work \cup {Idle}] /\ (\A x \in Works : WorkSound(work[x]))'
  BY <1>1 DEF WorkSound
<1>4. unled' \subseteq Orgs
  <2>1. unled \subseteq Orgs
    BY DEF Base, TypeOK
  <2>2. \A x \in Works : work[x] # Idle => work[x].org \in Orgs
    BY WorkShape DEF Base
  <2> QED BY <1>1, <2>1, <2>2
<1>5. \A x \in Works : work[x] # Idle /\ work[x].kind = "creation" => work[x].org \in unled'
  BY <1>1
<1> QED BY <1>1, <1>2, <1>3, <1>4, <1>5

\* A stop of the server, with a registry that has lost some of its slugs, or none.
LEMMA StoppedBase ==
  ASSUME Base, Stopped, kept' \subseteq Slugs,
         registry' \in [Slugs -> [active: BOOLEAN, org: 0 .. MaxOrgs]],
         \A t \in Slugs : /\ registry'[t].org \in {registry[t].org, 0}
                          /\ registry'[t].active => registry'[t] = registry[t]
  PROVE  Base'
<1>1. RegistrySound'
  BY StoppedFacts, FewerRegistered
<1>2. TypeOK'
  BY StoppedFacts DEF Base, TypeOK
<1> QED BY <1>1, <1>2, StoppedFacts DEF Base

LEMMA CrashInDeleteStops ==
  ASSUME Base, NEW s \in Slugs, CrashInDelete(s)
  PROVE  /\ Stopped /\ kept' = kept \cup {s}
         /\ registry' \in [Slugs -> [active: BOOLEAN, org: 0 .. MaxOrgs]]
         /\ ~registry'[s].active /\ registry'[s].org = registry[s].org
         /\ \A t \in Slugs \ {s} : registry'[t] = registry[t]
<1>1. /\ Stopped /\ registry[s].active /\ deactivate(s) /\ kept' = kept \cup {s}
  BY DEF CrashInDelete
<1>2. made' = made
  BY <1>1 DEF Stopped
<1> QED BY <1>1, <1>2, Deactivated

LEMMA CrashInSaveStops ==
  ASSUME Base, CrashInSave
  PROVE  /\ Stopped /\ kept' = Slugs
         /\ registry' \in [Slugs -> [active: BOOLEAN, org: 0 .. MaxOrgs]]
         /\ \A t \in Slugs : ~registry'[t].active /\ registry'[t].org = 0
<1>1. 0 \in 0 .. MaxOrgs
  OBVIOUS
<1> QED BY <1>1 DEF CrashInSave, Unregistered

LEMMA StopsBase ==
  ASSUME Base, Restart \/ CrashInSave \/ \E s \in Slugs : CrashInDelete(s)
  PROVE  Base'
<1>1. CASE Restart
  <2>1. Stopped /\ registry' = registry /\ kept' = kept
    BY <1>1 DEF Restart
  <2>2. /\ kept' \subseteq Slugs
        /\ registry' \in [Slugs -> [active: BOOLEAN, org: 0 .. MaxOrgs]]
        /\ \A t \in Slugs : /\ registry'[t].org \in {registry[t].org, 0}
                             /\ registry'[t].active => registry'[t] = registry[t]
    BY <2>1 DEF Base, TypeOK
  <2> QED BY <2>1, <2>2, StoppedBase
<1>2. CASE CrashInSave
  BY <1>2, CrashInSaveStops, StoppedBase
<1>3. ASSUME NEW s \in Slugs, CrashInDelete(s) PROVE Base'
  <2>1. kept' \subseteq Slugs
    BY <1>3, CrashInDeleteStops DEF Base, TypeOK
  <2> QED BY <1>3, <2>1, CrashInDeleteStops, StoppedBase
<1> QED BY <1>1, <1>2, <1>3

-----------------------------------------------------------------------------

\* No file loses or gets a row; at most an empty one is made.
RowsStay ==
  \A s \in Slugs :
    /\ file[s] # NoFile => file'[s] # NoFile /\ file'[s].data = file[s].data
    /\ file[s] = NoFile => file'[s] = NoFile \/ file'[s].data = {}
    /\ file[s].tables => file'[s].tables

\* A creation with an administrator goes on, has stored the administrator, or its
\* organisation is unled.
CreationsGoOn ==
  /\ unled \subseteq unled'
  /\ \A x \in Works : work[x] # Idle /\ work[x].kind = "creation" =>
       \/ work[x].org \in unled'
       \/ work'[x] # Idle /\ work'[x].kind = "creation" /\ work'[x].org = work[x].org
       \/ file'[work[x].slug] # NoFile /\ work[x].org \in file'[work[x].slug].data

LEMMA ActiveHasAdminStep ==
  ASSUME Base, ActiveHasAdmin, CreationsGoOn,
         \A s \in Slugs : registry'[s].active =>
           \/ /\ registry'[s] = registry[s]
              /\ file[s] # NoFile => file'[s] # NoFile /\ file[s].data \subseteq file'[s].data
           \/ \E x \in Works : /\ work'[x] # Idle /\ work'[x].kind = "creation"
                                /\ work'[x].org = registry'[s].org
           \/ registry'[s].org \in unled'
  PROVE  ActiveHasAdmin'
<1> SUFFICES ASSUME NEW s \in Slugs, registry'[s].active
             PROVE  LET org == registry'[s].org IN
                      \/ org \in unled' \/ (file'[s] # NoFile /\ org \in file'[s].data)
                      \/ \E x \in Works : /\ work'[x] # Idle /\ work'[x].kind = "creation"
                                           /\ work'[x].org = org
  BY DEF ActiveHasAdmin
<1> DEFINE org == registry[s].org
<1>1. CASE \E x \in Works : /\ work'[x] # Idle /\ work'[x].kind = "creation"
                            /\ work'[x].org = registry'[s].org
  BY <1>1
<1>2. CASE /\ registry'[s] = registry[s]
           /\ file[s] # NoFile => file'[s] # NoFile /\ file[s].data \subseteq file'[s].data
  <2>1. \/ org \in unled \/ (file[s] # NoFile /\ org \in file[s].data)
        \/ \E x \in Works : work[x] # Idle /\ work[x].kind = "creation" /\ work[x].org = org
    BY <1>2 DEF ActiveHasAdmin
  <2>2. CASE org \in unled
    BY <1>2, <2>2 DEF CreationsGoOn
  <2>3. CASE file[s] # NoFile /\ org \in file[s].data
    BY <1>2, <2>3
  <2>4. ASSUME NEW x \in Works, work[x] # Idle, work[x].kind = "creation", work[x].org = org
        PROVE  \/ org \in unled' \/ (file'[s] # NoFile /\ org \in file'[s].data)
               \/ \E v \in Works : /\ work'[v] # Idle /\ work'[v].kind = "creation"
                                    /\ work'[v].org = org
    <3>1. work[x].slug = s
      BY <2>4 DEF Base, WorkSound
    <3> QED BY <2>4, <3>1 DEF CreationsGoOn
  <2> QED BY <1>2, <2>1, <2>2, <2>3, <2>4
<1>3. CASE registry'[s].org \in unled'
  BY <1>3
<1> QED BY <1>1, <1>2, <1>3

\* The steps that store nothing, register nobody and set nothing aside.
LEMMA QuietStep ==
  ASSUME Base, Rest, RowsStay, CreationsGoOn,
         UNCHANGED <<archived, deletions, wrote>>,
         kept \subseteq kept', crossed \subseteq crossed',
         \A s \in Slugs : registry'[s] = registry[s] \/ (s \in kept' /\ ~registry'[s].active),
         \A s \in open' \ raced' : s \in open \ raced \/ file'[s].tables
  PROVE  Rest'
<1>1. OwnRows'
  BY DEF Rest, OwnRows, RowsStay
<1>2. OpenHasTables'
  <2>1. open \subseteq Slugs
    BY DEF Base, TypeOK
  <2> QED BY <2>1 DEF Rest, OpenHasTables, RowsStay
<1>3. ActiveHasAdmin'
  BY ActiveHasAdminStep DEF Rest, RowsStay
<1>4. ArchivesCounted'
  BY DEF Rest, ArchivesCounted
<1>5. DataSomewhere'
  BY DEF Rest, DataSomewhere, RowsStay
<1> QED BY <1>1, <1>2, <1>3, <1>4, <1>5 DEF Rest

LEMMA FileSameRows ==
  ASSUME file' = file PROVE RowsStay
BY DEF RowsStay

\* Connect and init make no row.
LEMMA ConnectRows ==
  ASSUME Base, NEW s \in Slugs, Connect(s) PROVE RowsStay
<1>1. [tables |-> FALSE, data |-> {}].data = {}
  OBVIOUS
<1>2. /\ file'[s] # NoFile
      /\ file[s] = NoFile => file'[s].data = {}
      /\ file[s] # NoFile => file'[s] = file[s]
      /\ file'[s].tables = file[s].tables
      /\ \A t \in Slugs \ {s} : file'[t] = file[t]
  BY <1>1, ConnectFile DEF Base
<1> QED BY <1>2 DEF RowsStay

LEMMA GotoGoesOn ==
  ASSUME Base, NEW w \in Works, work[w] # Idle, unled' = unled,
         NEW pc \in {"opened", "session", "write"}, Goto(w, pc)
  PROVE  CreationsGoOn
<1>1. PICK q \in Work :
        /\ work' = [work EXCEPT ![w] = q] /\ q # Idle
        /\ q.kind = work[w].kind /\ q.org = work[w].org
  BY GotoSet
<1>2. work'[w] = q /\ \A x \in Works \ {w} : work'[x] = work[x]
  BY <1>1 DEF Base, TypeOK
<1> QED BY <1>1, <1>2 DEF CreationsGoOn

\* A work that was idle, or that is of no creation, may become what it likes.
LEMMA OthersGoOn ==
  ASSUME Base, NEW w \in Works, NEW q, work' = [work EXCEPT ![w] = q],
         unled \subseteq unled',
         work[w] # Idle /\ work[w].kind = "creation" =>
           \/ work[w].org \in unled'
           \/ file'[work[w].slug] # NoFile /\ work[w].org \in file'[work[w].slug].data
  PROVE  CreationsGoOn
<1>1. \A x \in Works \ {w} : work'[x] = work[x]
  BY DEF Base, TypeOK
<1> QED BY <1>1 DEF CreationsGoOn

-----------------------------------------------------------------------------

LEMMA EnterRest ==
  ASSUME Base, Rest, NEW w \in Works, NEW kind \in Kinds, NEW s \in Slugs,
         NEW org \in Orgs, Enter(w, kind, s, org)
  PROVE  Rest'
<1>1. /\ UNCHANGED <<registry, file, archived, open, deletions, wrote, kept, crossed,
                     raced, unled>>
      /\ work[w] = Idle
      /\ \E q : work' = [work EXCEPT ![w] = q]
  BY DEF Enter, Begin
<1>2. CreationsGoOn
  BY <1>1, OthersGoOn
<1> QED BY <1>1, <1>2, FileSameRows, QuietStep

LEMMA InitDatabaseRest ==
  ASSUME Base, Rest, NEW w \in Works, InitDatabase(w)
  PROVE  Rest'
<1> DEFINE s == work[w].slug
           f == [tables |-> TRUE, data |-> IF file[s] = NoFile THEN {} ELSE file[s].data]
<1>1. /\ file' = [file EXCEPT ![s] = f] /\ Goto(w, "opened") /\ s \in Slugs
      /\ work[w] # Idle
      /\ UNCHANGED <<registry, archived, open, wrote, deletions, kept, crossed, raced, unled>>
  BY InitDatabaseBase DEF InitDatabase
<1>2. /\ f \in Database /\ f.tables = TRUE
      /\ f.data = IF file[s] = NoFile THEN {} ELSE file[s].data
  BY <1>1, InitDatabaseFile DEF Base
<1>3. file'[s] = f /\ \A t \in Slugs \ {s} : file'[t] = file[t]
  <2> HIDE DEF f
  <2> QED BY <1>1, <1>2, FileSet DEF Base
<1>4. RowsStay
  <2>1. f # NoFile
    BY <1>2, NoDatabase
  <2> HIDE DEF f
  <2> QED BY <1>1, <1>2, <1>3, <2>1 DEF RowsStay
<1>5. CreationsGoOn
  BY <1>1, GotoGoesOn
<1> QED BY <1>1, <1>4, <1>5, QuietStep

LEMMA OpenRest ==
  ASSUME Base, Rest, NEW w \in Works, Open(w)
  PROVE  Rest'
<1> DEFINE s == work[w].slug
           next == IF work[w].kind = "member" THEN "session" ELSE "write"
<1>1. /\ open' = open \cup {s} /\ work[w] # Idle /\ s \in Slugs
      /\ IF work[w].kind = "bare creation" THEN Finish(w) ELSE Goto(w, next)
      /\ raced' = IF file[s].tables THEN raced ELSE raced \cup {s}
      /\ UNCHANGED <<registry, file, archived, wrote, deletions, kept, crossed, unled>>
  BY OpenBase DEF Open
<1>2. CreationsGoOn
  <2>1. next \in {"opened", "session", "write"}
    OBVIOUS
  <2> HIDE DEF next
  <2>2. CASE Goto(w, next)
    BY <1>1, <2>1, <2>2, GotoGoesOn
  <2>3. CASE work[w].kind = "bare creation" /\ Finish(w)
    <3>1. PICK q : q = Idle /\ work' = [work EXCEPT ![w] = q]
      BY <2>3 DEF Finish
    <3>2. unled \subseteq unled' /\ work[w].kind # "creation"
      BY <1>1, <2>3
    <3> QED BY <3>1, <3>2, OthersGoOn
  <2> QED BY <1>1, <2>2, <2>3
<1>3. \A t \in open' \ raced' : t \in open \ raced \/ file'[t].tables
  <2> SUFFICES ASSUME NEW t \in open' \ raced', t \notin open \ raced
               PROVE  file'[t].tables
    OBVIOUS
  <2>1. t = s /\ file[s].tables
    BY <1>1
  <2> QED BY <1>1, <2>1
<1> QED BY <1>1, <1>2, <1>3, FileSameRows, QuietStep

LEMMA CheckSessionRest ==
  ASSUME Base, Rest, NEW w \in Works, CheckSession(w)
  PROVE  Rest'
<1>1. /\ work[w] # Idle /\ work[w].slug \in Slugs /\ work[w].kind = "member"
  BY CheckSessionBase DEF Rest
<1>2. /\ Connect(work[w].slug)
      /\ UNCHANGED <<registry, archived, open, made, second, restarts, wrote, deletions,
                     kept, crossed, raced, unled>>
      /\ \E q : work' = [work EXCEPT ![w] = q]
  BY DEF CheckSession, Continue, Finish
<1>3. CreationsGoOn
  BY <1>1, <1>2, OthersGoOn
<1> QED BY <1>1, <1>2, <1>3, ConnectRows, QuietStep

LEMMA RaiseGoesOn ==
  ASSUME Base, NEW w \in Works, Raise(w)
  PROVE  CreationsGoOn
BY OthersGoOn DEF Raise, Finish

LEMMA WorkRaisesRest ==
  ASSUME Base, Rest, NEW w \in Works, WorkRaises(w)
  PROVE  Rest'
<1>1. /\ UNCHANGED <<registry, file, archived, open, wrote, deletions, kept, crossed, raced>>
      /\ Raise(w)
  BY DEF WorkRaises
<1> QED BY <1>1, RaiseGoesOn, FileSameRows, QuietStep

\* A row is stored by who came for the organisation of the slug, or the slug is
\* counted as crossed.
LEMMA WriteRest ==
  ASSUME Base, Rest, NEW w \in Works, Write(w)
  PROVE  Rest'
<1> DEFINE s == work[w].slug
           org == work[w].org
<1>1. /\ work[w] # Idle /\ s \in Slugs /\ org \in Orgs
      /\ file'[s] # NoFile /\ file'[s].tables = file[s].tables
      /\ \A t \in Slugs \ {s} : file'[t] = file[t]
      /\ UNCHANGED <<registry, archived, open, deletions, kept, raced>>
  BY WriteCases
<1>2. ASSUME ~file[s].tables, UNCHANGED <<wrote, crossed>>, Raise(w),
             file'[s] = IF file[s] = NoFile
                          THEN [tables |-> FALSE, data |-> {}] ELSE file[s]
      PROVE  Rest'
  <2>1. RowsStay
    <3>1. [tables |-> FALSE, data |-> {}].data = {}
      OBVIOUS
    <3> QED BY <1>1, <1>2, <3>1 DEF RowsStay
  <2> QED BY <1>1, <1>2, <2>1, RaiseGoesOn, QuietStep
<1>3. ASSUME file[s].tables, file'[s].data = file[s].data \cup {org},
             wrote' = wrote \cup {org}, unled' = unled,
             crossed' = IF registry[s] # [active |-> TRUE, org |-> org]
                          THEN crossed \cup {s} ELSE crossed,
             Finish(w) \/ (work[w].kind # "creation" /\ work' = work)
      PROVE  Rest'
  <2>1. file[s] # NoFile
    BY <1>1, <1>3, FileShape DEF Base
  <2>2. OwnRows'
    <3> SUFFICES ASSUME NEW t \in Slugs \ (kept' \cup crossed'), file'[t] # NoFile
                 PROVE  file'[t].data \subseteq
                          (IF registry'[t].active THEN {registry'[t].org} ELSE {})
      BY DEF OwnRows
    <3>1. t \in Slugs \ (kept \cup crossed)
      BY <1>1, <1>3
    <3>2. CASE t # s
      BY <1>1, <3>1, <3>2 DEF Rest, OwnRows
    <3>3. CASE t = s
      <4>1. registry[s] = [active |-> TRUE, org |-> org]
        BY <1>3, <3>3
      <4>2. registry[s].active /\ registry[s].org = org
        BY <4>1
      <4>3. file[s].data \subseteq {org}
        BY <2>1, <3>1, <3>3, <4>2 DEF Rest, OwnRows
      <4> QED BY <1>1, <1>3, <3>3, <4>2, <4>3
    <3> QED BY <3>2, <3>3
  <2>3. OpenHasTables'
    <3>1. open \subseteq Slugs
      BY DEF Base, TypeOK
    <3> QED BY <1>1, <3>1 DEF Rest, OpenHasTables
  <2>4. ActiveHasAdmin'
    <3>1. CreationsGoOn
      <4>1. CASE Finish(w)
        BY <1>1, <1>3, <4>1, OthersGoOn DEF Finish
      <4>2. CASE work' = work
        BY <1>3, <4>2 DEF CreationsGoOn
      <4> QED BY <1>3, <4>1, <4>2
    <3>2. \A t \in Slugs : file[t] # NoFile =>
            file'[t] # NoFile /\ file[t].data \subseteq file'[t].data
      BY <1>1, <1>3
    <3> QED BY <1>1, <3>1, <3>2, ActiveHasAdminStep DEF Rest
  <2>5. ArchivesCounted'
    BY <1>1 DEF Rest, ArchivesCounted
  <2>6. DataSomewhere'
    <3>1. \A t \in Slugs : file[t] # NoFile =>
            file'[t] # NoFile /\ file[t].data \subseteq file'[t].data
      BY <1>1, <1>3
    <3>2. file'[s] # NoFile /\ org \in file'[s].data
      BY <1>1, <1>3
    <3> QED BY <1>1, <1>3, <3>1, <3>2 DEF Rest, DataSomewhere
  <2> QED BY <2>2, <2>3, <2>4, <2>5, <2>6 DEF Rest
<1>4. \/ /\ file[s].tables /\ file'[s].data = file[s].data \cup {org}
         /\ wrote' = wrote \cup {org} /\ unled' = unled
         /\ crossed' = IF registry[s] # [active |-> TRUE, org |-> org]
                         THEN crossed \cup {s} ELSE crossed
         /\ Finish(w) \/ (work[w].kind # "creation" /\ work' = work)
      \/ /\ ~file[s].tables /\ UNCHANGED <<wrote, crossed>> /\ Raise(w)
         /\ file'[s] = IF file[s] = NoFile
                         THEN [tables |-> FALSE, data |-> {}] ELSE file[s]
  BY WriteCases
<1> QED BY <1>2, <1>3, <1>4

\* The slug of a new organisation had none: its file, if it has one, has no rows.
LEMMA CreateRest ==
  ASSUME Base, Rest, NEW w \in Works, NEW s \in Slugs, NEW admin \in BOOLEAN,
         Create(w, s, admin)
  PROVE  Rest'
<1>1. /\ work[w] = Idle /\ ~registry[s].active
      /\ registry' = [registry EXCEPT ![s] = [active |-> TRUE, org |-> made']]
      /\ UNCHANGED <<file, archived, open, wrote, deletions, kept, crossed, raced>>
  BY DEF Create, Register
<1>2. PICK q \in Work \cup {Idle} :
        /\ work' = [work EXCEPT ![w] = q]
        /\ \/ /\ q # Idle /\ q.kind = "creation" /\ q.org = made'
              /\ unled' = unled
           \/ unled' = unled \cup {made'}
  BY CreateBase
<1>3. /\ registry'[s].org = made'
      /\ \A t \in Slugs \ {s} : registry'[t] = registry[t]
  BY <1>1 DEF Base, TypeOK
<1>4. OwnRows'
  <2> SUFFICES ASSUME NEW t \in Slugs \ (kept \cup crossed), file[t] # NoFile
               PROVE  file[t].data \subseteq
                        (IF registry'[t].active THEN {registry'[t].org} ELSE {})
    BY <1>1 DEF OwnRows
  <2>1. CASE t = s
    BY <1>1, <2>1 DEF Rest, OwnRows
  <2>2. CASE t # s
    BY <1>3, <2>2 DEF Rest, OwnRows
  <2> QED BY <2>1, <2>2
<1>5. OpenHasTables'
  BY <1>1 DEF Rest, OpenHasTables
<1>6. ActiveHasAdmin'
  <2>1. CreationsGoOn
    BY <1>1, <1>2, OthersGoOn
  <2>2. work'[w] = q
    BY <1>2 DEF Base, TypeOK
  <2> QED BY <1>1, <1>2, <1>3, <2>1, <2>2, ActiveHasAdminStep DEF Rest
<1>7. ArchivesCounted' /\ DataSomewhere'
  BY <1>1 DEF Rest, ArchivesCounted, DataSomewhere
<1> QED BY <1>4, <1>5, <1>6, <1>7 DEF Rest

\* A deletion takes the file away with its rows; it is found again under the name of
\* the second, which was free or has been taken more than once.
LEMMA DeleteRest ==
  ASSUME Base, Rest, NEW s \in Slugs, Delete(s)
  PROVE  Rest'
<1>1. /\ registry[s].active /\ deactivate(s) /\ archive(s) /\ raced' = raced \ {s}
      /\ UNCHANGED <<work, made, second, restarts, wrote, unled>>
  BY DEF Delete
<1>2. /\ open' = open \ {s} /\ kept' = kept \ {s} /\ crossed' = crossed \ {s}
      /\ file'[s] = NoFile /\ \A t \in Slugs \ {s} : file'[t] = file[t]
      /\ ~registry'[s].active /\ \A t \in Slugs \ {s} : registry'[t] = registry[t]
  BY <1>1, ArchiveFacts, Deactivated
<1>3. \A a \in Slugs \X Seconds :
        /\ deletions'[a] = IF a = <<s, second>> /\ file[s] # NoFile
                             THEN deletions[a] + 1 ELSE deletions[a]
        /\ archived'[a] = IF a = <<s, second>> /\ file[s] # NoFile
                            THEN file[s].data ELSE archived[a]
        /\ deletions[a] \in Nat
  BY <1>1, ArchiveFacts DEF Base, TypeOK
<1>4. OwnRows'
  BY <1>2 DEF Rest, OwnRows
<1>5. OpenHasTables'
  <2>1. open \subseteq Slugs
    BY DEF Base, TypeOK
  <2> QED BY <1>1, <1>2, <2>1 DEF Rest, OpenHasTables
<1>6. ActiveHasAdmin'
  <2>1. CreationsGoOn
    BY <1>1 DEF CreationsGoOn
  <2> QED BY <1>2, <2>1, ActiveHasAdminStep DEF Rest
<1>7. ArchivesCounted'
  <2> SUFFICES ASSUME NEW t \in Slugs, NEW u \in Seconds, deletions'[<<t, u>>] = 0
               PROVE  archived'[<<t, u>>] = {}
    BY DEF ArchivesCounted
  <2>1. <<t, u>> \in Slugs \X Seconds
    OBVIOUS
  <2>2. deletions[<<t, u>>] = 0 /\ archived'[<<t, u>>] = archived[<<t, u>>]
    BY <1>3, <2>1
  <2> QED BY <2>2 DEF Rest, ArchivesCounted
<1>8. DataSomewhere'
  <2>1. <<s, second>> \in Slugs \X Seconds /\ second \in Seconds
    BY DEF Base, TypeOK
  <2>2. CASE \E a \in Slugs \X Seconds : deletions[a] > 1
    <3>1. PICK a \in Slugs \X Seconds : deletions[a] > 1
      BY <2>2
    <3>2. deletions'[a] > 1
      BY <1>3, <3>1
    <3> QED BY <3>2 DEF DataSomewhere
  <2>3. CASE file[s] # NoFile /\ deletions[<<s, second>>] # 0
    <3>1. deletions'[<<s, second>>] > 1
      BY <1>3, <2>1, <2>3
    <3> QED BY <2>1, <3>1 DEF DataSomewhere
  <2>4. ASSUME ~(\E a \in Slugs \X Seconds : deletions[a] > 1),
               file[s] = NoFile \/ deletions[<<s, second>>] = 0
        PROVE  DataSomewhere'
    <3> SUFFICES ASSUME NEW o \in wrote
                 PROVE  \/ \E t \in Slugs : file'[t] # NoFile /\ o \in file'[t].data
                        \/ \E a \in Slugs \X Seconds : o \in archived'[a]
      BY <1>1 DEF DataSomewhere
    <3>1. \/ \E t \in Slugs : file[t] # NoFile /\ o \in file[t].data
          \/ \E a \in Slugs \X Seconds : o \in archived[a]
      BY <2>4 DEF Rest, DataSomewhere
    <3>2. ASSUME NEW t \in Slugs, file[t] # NoFile, o \in file[t].data
          PROVE  \/ \E x \in Slugs : file'[x] # NoFile /\ o \in file'[x].data
                 \/ \E a \in Slugs \X Seconds : o \in archived'[a]
      <4>1. CASE t = s
        <5>1. archived'[<<s, second>>] = file[s].data
          BY <1>3, <2>1, <3>2, <4>1
        <5> QED BY <2>1, <3>2, <4>1, <5>1
      <4>2. CASE t # s
        BY <1>2, <3>2, <4>2
      <4> QED BY <4>1, <4>2
    <3>3. ASSUME NEW a \in Slugs \X Seconds, o \in archived[a]
          PROVE  o \in archived'[a]
      <4>1. CASE a = <<s, second>> /\ file[s] # NoFile
        BY <2>1, <2>4, <3>3, <4>1 DEF Rest, ArchivesCounted
      <4>2. CASE ~(a = <<s, second>> /\ file[s] # NoFile)
        BY <1>3, <3>3, <4>2
      <4> QED BY <4>1, <4>2
    <3> QED BY <3>1, <3>2, <3>3
  <2> QED BY <2>2, <2>3, <2>4
<1> QED BY <1>4, <1>5, <1>6, <1>7, <1>8 DEF Rest

LEMMA DeleteFailsRest ==
  ASSUME Base, Rest, NEW s \in Slugs, DeleteFails(s)
  PROVE  Rest'
<1>1. /\ registry[s].active /\ deactivate(s)
      /\ open' = open \ {s} /\ kept' = kept \cup {s} /\ raced' = raced \ {s}
      /\ UNCHANGED <<file, archived, work, made, wrote, deletions, crossed, unled>>
  BY DEF DeleteFails
<1>2. ~registry'[s].active /\ \A t \in Slugs \ {s} : registry'[t] = registry[t]
  BY <1>1, Deactivated
<1>3. CreationsGoOn
  BY <1>1 DEF CreationsGoOn
<1> QED BY <1>1, <1>2, <1>3, FileSameRows, QuietStep

LEMMA StopsRest ==
  ASSUME Base, Rest, Restart \/ CrashInSave \/ \E s \in Slugs : CrashInDelete(s)
  PROVE  Rest'
<1>1. Stopped
  BY DEF Restart, CrashInSave, CrashInDelete
<1>2. kept \subseteq kept'
  BY DEF Restart, CrashInSave, CrashInDelete, Base, TypeOK
<1>3. \A t \in Slugs : registry'[t] = registry[t] \/ (t \in kept' /\ ~registry'[t].active)
  <2>1. CASE Restart
    BY <2>1 DEF Restart
  <2>2. CASE CrashInSave
    BY <2>2, CrashInSaveStops
  <2>3. ASSUME NEW s \in Slugs, CrashInDelete(s)
        PROVE  \A t \in Slugs :
                 registry'[t] = registry[t] \/ (t \in kept' /\ ~registry'[t].active)
    BY <2>3, CrashInDeleteStops
  <2> QED BY <2>1, <2>2, <2>3
<1>4. CreationsGoOn
  BY <1>1, StoppedFacts DEF CreationsGoOn
<1> QED BY <1>1, <1>2, <1>3, <1>4, StoppedFacts, FileSameRows, QuietStep

LEMMA TickRest ==
  ASSUME Base, Rest, Tick PROVE Rest'
<1>1. UNCHANGED <<registry, file, archived, open, work, wrote, deletions, kept, crossed,
                  raced, unled>>
  BY DEF Tick
<1>2. CreationsGoOn
  BY <1>1 DEF CreationsGoOn
<1> QED BY <1>1, <1>2, FileSameRows, QuietStep

-----------------------------------------------------------------------------

LEMMA InitInv == Init => TenantsInv
<1> SUFFICES ASSUME Init PROVE TenantsInv
  OBVIOUS
<1> USE DEF Init
<1>1. \A s \in Slugs : registry[s] = Unregistered /\ file[s] = NoFile
  OBVIOUS
<1>2. /\ Unregistered \in [active: BOOLEAN, org: 0 .. MaxOrgs]
      /\ Unregistered.active = FALSE /\ Unregistered.org = 0 /\ 0 \in Seconds
  BY DEF Unregistered, Seconds
<1>3. \A s \in Slugs, t \in Seconds :
        deletions[<<s, t>>] = 0 /\ archived[<<s, t>>] = {}
  OBVIOUS
<1>4. TypeOK
  BY <1>2 DEF TypeOK
<1>5. RegistrySound
  BY <1>1, <1>2, <1>3 DEF RegistrySound
<1>6. \A x \in Works : WorkSound(work[x])
  BY DEF WorkSound
<1>7. OwnRows /\ OpenHasTables
  BY <1>1 DEF OwnRows, OpenHasTables
<1>8. ActiveHasAdmin /\ ArchivesCounted /\ DataSomewhere
  BY <1>1, <1>2, <1>3 DEF ActiveHasAdmin, ArchivesCounted, DataSomewhere
<1> QED BY <1>4, <1>5, <1>6, <1>7, <1>8 DEF TenantsInv, Base, Rest

\* Every step keeps the invariant.
LEMMA NextInv == TenantsInv /\ [Next]_vars => TenantsInv'
<1> SUFFICES ASSUME Base, Rest, [Next]_vars PROVE Base' /\ Rest'
  BY DEF TenantsInv
<1>1. ASSUME NEW w \in Works, NEW s \in Slugs, NEW admin \in BOOLEAN, Create(w, s, admin)
      PROVE  Base' /\ Rest'
  BY <1>1, CreateBase, CreateRest
<1>2. ASSUME NEW w \in Works, NEW s \in Slugs, NEW kind \in Kinds, NEW org \in Orgs,
             Enter(w, kind, s, org)
      PROVE  Base' /\ Rest'
  BY <1>2, EnterBase, EnterRest
<1>3. ASSUME NEW w \in Works, InitDatabase(w) PROVE Base' /\ Rest'
  BY <1>3, InitDatabaseBase, InitDatabaseRest
<1>4. ASSUME NEW w \in Works, Open(w) PROVE Base' /\ Rest'
  BY <1>4, OpenBase, OpenRest
<1>5. ASSUME NEW w \in Works, CheckSession(w) PROVE Base' /\ Rest'
  BY <1>5, CheckSessionBase, CheckSessionRest DEF Rest
<1>6. ASSUME NEW w \in Works, Write(w) PROVE Base' /\ Rest'
  BY <1>6, WriteBase, WriteRest
<1>7. ASSUME NEW w \in Works, WorkRaises(w) PROVE Base' /\ Rest'
  BY <1>7, WorkRaisesBase, WorkRaisesRest
<1>8. ASSUME NEW s \in Slugs, Delete(s) PROVE Base' /\ Rest'
  BY <1>8, DeleteBase, DeleteRest
<1>9. ASSUME NEW s \in Slugs, DeleteFails(s) PROVE Base' /\ Rest'
  BY <1>9, DeleteFailsBase, DeleteFailsRest
<1>10. CASE Tick
  BY <1>10, TickBase, TickRest
<1>11. CASE Restart \/ CrashInSave \/ \E s \in Slugs : CrashInDelete(s)
  BY <1>11, StopsBase, StopsRest
<1>12. CASE UNCHANGED vars
  <2>1. Base'
    BY <1>12 DEF vars, Base, TypeOK, RegistrySound, WorkSound
  <2>2. Rest'
    BY <1>12 DEF vars, Rest, OwnRows, OpenHasTables, ActiveHasAdmin, ArchivesCounted,
                 DataSomewhere
  <2> QED BY <2>1, <2>2
<1> QED BY <1>1, <1>2, <1>3, <1>4, <1>5, <1>6, <1>7, <1>8, <1>9, <1>10, <1>11, <1>12
        DEF Next

\* The inductive invariant: whose rows a file has, who is let in, which database is
\* open, who is the administrator and what was set aside, together.
THEOREM TenantsInvariant == Spec => []TenantsInv
BY InitInv, NextInv, PTL DEF Spec

\* Every variable of Tenants has its type at every step.
THEOREM TenantsType == Spec => []TypeOK
<1>1. TenantsInv => TypeOK
  BY DEF TenantsInv, Base
<1> QED BY <1>1, TenantsInvariant, PTL

\* InheritanceExplained: the rows of an earlier organisation are found by the next one
\* of its slug only where a deletion left the file, or a work begun before it wrote
\* after it (archive, TenantRouter, tenant_middleware).
THEOREM InheritanceIsExplained == Spec => []InheritanceExplained
<1>1. TenantsInv => InheritanceExplained
  BY DEF TenantsInv, Rest, OwnRows, InheritanceExplained
<1> QED BY <1>1, TenantsInvariant, PTL

\* OrganisationsWork: an open database has its tables unless its opening raced a
\* deletion, and an active organisation its administrator, if made with one, unless its creation is
\* under way or did not end (ensure, archive, api_tenants_create).
THEOREM OrganisationsDoWork == Spec => []OrganisationsWork
<1>1. TenantsInv => OrganisationsWork
  BY DEF TenantsInv, Base, Rest, OrganisationsWork
<1> QED BY <1>1, TenantsInvariant, PTL

\* ArchivesKeepData: a row that was stored is in a file or in one set aside, unless two
\* files of one slug were set aside in the same second (archive).
THEOREM NothingStoredIsLost == Spec => []ArchivesKeepData
<1>1. TenantsInv => ArchivesKeepData
  <2> SUFFICES ASSUME TypeOK, DataSomewhere PROVE ArchivesKeepData
    BY DEF TenantsInv, Base, Rest
  <2>1. DOMAIN deletions = Slugs \X Seconds /\ DOMAIN archived = Slugs \X Seconds
    BY DEF TypeOK
  <2> DEFINE inFiles == UNION {file[s].data : s \in Slugs}
             setAside == UNION {archived[a] : a \in DOMAIN archived}
  <2>2. CASE \E a \in Slugs \X Seconds : deletions[a] > 1
    BY <2>1, <2>2 DEF ArchivesKeepData
  <2>3. CASE ~ \E a \in Slugs \X Seconds : deletions[a] > 1
    <3>1. ASSUME NEW o \in wrote PROVE o \in inFiles \cup setAside
      <4>1. ASSUME NEW s \in Slugs, o \in file[s].data PROVE o \in inFiles
        BY <4>1
      <4>2. ASSUME NEW a \in Slugs \X Seconds, o \in archived[a] PROVE o \in setAside
        BY <2>1, <4>2
      <4> HIDE DEF inFiles, setAside
      <4> QED BY <2>3, <4>1, <4>2 DEF DataSomewhere
    <3>2. wrote \subseteq inFiles \cup setAside
      <4> HIDE DEF inFiles, setAside
      <4> QED BY <3>1
    <3> QED BY <3>2 DEF ArchivesKeepData
  <2> QED BY <2>2, <2>3
<1> QED BY <1>1, TenantsInvariant, PTL

-----------------------------------------------------------------------------
(***************************************************************************)
(* What PlatformScheduler promises, for any order and times of the         *)
(* entries, and however often local time is turned.                        *)
(*                                                                         *)
(* Whether the loop ran what was due depends on where in its round it is:  *)
(* NoneBefore and PassedExplained say what it has done with the entries    *)
(* that it passed in this minute, and PlatformRunsExplained follows when   *)
(* it sleeps, having passed them all.                                      *)
(***************************************************************************)
HIDE TenantsAssumption

\* The loop has looked at the entry in this minute, or has passed it by.
Passed(e) == loop = Asleep \/ (\E nr \in DOMAIN Order : loop = [pc |-> "task", nr |-> nr]
                                                        /\ Place(e) <= nr)

\* The dates that the clock moves stay in their ranges, however often it is turned.
DatesBounded ==
  \A e \in Entries : /\ next_run[e] \in Long .. Week + turns * Shift
                     /\ since[e] \in -(turns * Shift) .. Shift

\* What was asked for is in the configuration, and in the entry while the server is up.
SwitchesKept ==
  \A e \in Entries :
    /\ wanted[e] # "unsure" => wanted[e] = Word(saved[e])
    /\ loop # Down => wanted[e] \in {Word(enabled[e]), "unsure"}

\* A start that the clock was turned back over is not taken for one of this minute.
RepeatsKnown == \A e \in Entries : since[e] < 0 => e \in repeated

\* The loop has started no entry of this minute that it has not come to.
NoneBefore == loop # Down => \A e \in Entries : Ran(e) => Passed(e)

\* What it has passed by was started, not switched on, or missed for a task.
PassedExplained ==
  loop # Down =>
    \A e \in Entries : Passed(e) /\ should_run_now(e) =>
      Ran(e) \/ e \in switched \/ Place(e) <= began

SchedulerInv ==
  /\ SchedulerTypeOK /\ DatesBounded /\ SwitchesKept /\ RepeatsKnown
  /\ NoneBefore /\ PassedExplained /\ NextRunTrue

\* A time of day that goes past the end of the week starts again.
LEMMA Wrap ==
  ASSUME NEW W \in Nat \ {0}, NEW x \in W .. 2 * W - 1 PROVE x % W = x - W
OBVIOUS

LEMMA InWeek ==
  ASSUME NEW W \in Nat \ {0}, NEW x \in Int PROVE x % W \in 0 .. W - 1
OBVIOUS

LEMMA OfTwo ==
  ASSUME NEW a \in Int, NEW b \in Int
  PROVE  /\ Max({a, b}) = IF b < a THEN a ELSE b
         /\ Min({a, b}) = IF b > a THEN a ELSE b
BY DEF Max, Min

\* What the turns add up to.
LEMMA Turned ==
  ASSUME NEW s \in Nat, NEW t \in Nat
  PROVE  /\ t * s \in Nat /\ (t + 1) * s = t * s + s
         /\ \A m \in Nat : t <= m => t * s <= m * s
OBVIOUS

USE PlatformSchedulerAssumption

-----------------------------------------------------------------------------

LEMMA MinFacts ==
  ASSUME NEW S \in SUBSET Nat, S # {}
  PROVE  Min(S) \in S /\ \A k \in S : Min(S) <= k
<1>0. S \subseteq Nat
  OBVIOUS
<1>1. PICK m \in S : \A y \in S : ~(<<y, m>> \in OpToRel(<, Nat))
  BY <1>0, NatLessThanWellFounded, WFMin
<1>2. \A y \in S : ~(y < m)
  BY <1>0, <1>1 DEF OpToRel
<1>3. \A y \in S : m <= y
  BY <1>0, <1>2
<1>4. \E x \in S : \A y \in S : x <= y
  BY <1>3
<1> QED BY <1>4 DEF Min

LEMMA MinIs ==
  ASSUME NEW S \in SUBSET Nat, NEW m \in S, \A k \in S : m <= k
  PROVE  Min(S) = m
<1>1. Min(S) \in S /\ Min(S) <= m
  BY MinFacts
<1>2. m <= Min(S) /\ Min(S) \in Nat /\ m \in Nat
  BY <1>1
<1> QED BY <1>1, <1>2

LEMMA Calendar ==
  ASSUME NEW m \in 0 .. Week - 1, NEW d \in 1 .. Week
  PROVE  (m + d) % Week = IF m + d < Week THEN m + d ELSE m + d - Week
<1> DEFINE x == m + d
<1>0. x \in Nat /\ x < 2 * Week /\ Week \in Nat \ {0}
  OBVIOUS
<1> HIDE DEF x
<1>1. CASE x < Week
  <2>1. x \in 0 .. Week - 1
    BY <1>0, <1>1
  <2>2. x % Week = x
    BY <1>0, <2>1
  <2> QED BY <1>1, <2>2 DEF x
<1>2. CASE ~(x < Week)
  <2>1. x \in Week .. 2 * Week - 1
    BY <1>0, <1>2
  <2>2. x % Week = x - Week
    BY <1>0, <2>1, Wrap
  <2> QED BY <1>2, <2>2 DEF x
<1> QED BY <1>1, <1>2

\* Every entry has a next time, within a week.
LEMMA NextTime ==
  ASSUME NEW e \in Entries, minute \in 0 .. Week - 1
  PROVE  /\ compute_next_run(e) \in 1 .. Week
         /\ (minute + compute_next_run(e)) % Week \in Times[e]
         /\ \A d \in 1 .. Week : (minute + d) % Week \in Times[e] => compute_next_run(e) <= d
<1> DEFINE S == {d \in 1 .. Week : (minute + d) % Week \in Times[e]}
<1>1. PICK t \in 0 .. Week - 1 : t \in Times[e]
  OBVIOUS
<1>2. \E d \in 1 .. Week : (minute + d) % Week = t
  <2>1. CASE t > minute
    <3>1. PICK d \in 1 .. Week : d = t - minute
      BY <2>1
    <3>2. minute + d = t /\ t < Week
      BY <3>1
    <3>3. (minute + d) % Week = t
      BY <3>2, Calendar
    <3> QED BY <3>3
  <2>2. CASE ~(t > minute)
    <3>1. PICK d \in 1 .. Week : d = t - minute + Week
      BY <2>2
    <3>2. ~(minute + d < Week) /\ minute + d - Week = t
      BY <2>2, <3>1
    <3>3. (minute + d) % Week = t
      BY <3>2, Calendar
    <3> QED BY <3>3
  <2> QED BY <2>1, <2>2
<1>3. S \in SUBSET Nat /\ S # {}
  <2>1. PICK d \in 1 .. Week : (minute + d) % Week = t
    BY <1>2
  <2>2. d \in S
    BY <1>1, <2>1
  <2>3. S \in SUBSET Nat
    OBVIOUS
  <2> HIDE DEF S
  <2> QED BY <2>2, <2>3
<1>4. Min(S) \in S /\ \A k \in S : Min(S) <= k
  BY <1>3, MinFacts
<1> QED BY <1>4 DEF compute_next_run

\* A minute later the next time is a minute closer, unless it has come.
LEMMA NextTimeCloser ==
  ASSUME NEW e \in Entries, minute \in 0 .. Week - 1, minute' = (minute + 1) % Week
  PROVE  /\ compute_next_run(e) = 1 => minute' \in Times[e]
         /\ compute_next_run(e) # 1 => compute_next_run(e)' = compute_next_run(e) - 1
<1>1. /\ compute_next_run(e) \in 1 .. Week
      /\ (minute + compute_next_run(e)) % Week \in Times[e]
      /\ \A d \in 1 .. Week : (minute + d) % Week \in Times[e] => compute_next_run(e) <= d
  BY NextTime
<1>2. \A d \in 1 .. Week - 1 : (minute' + d) % Week = (minute + (d + 1)) % Week
  <2> SUFFICES ASSUME NEW d \in 1 .. Week - 1
               PROVE  (minute' + d) % Week = (minute + (d + 1)) % Week
    OBVIOUS
  <2>1. minute' = IF minute + 1 < Week THEN minute + 1 ELSE minute + 1 - Week
    BY Calendar
  <2>2. minute' \in 0 .. Week - 1
    BY <2>1
  <2>3. (minute' + d) % Week = IF minute' + d < Week THEN minute' + d ELSE minute' + d - Week
    BY <2>2, Calendar
  <2>4. (minute + (d + 1)) % Week = IF minute + (d + 1) < Week THEN minute + (d + 1)
                                    ELSE minute + (d + 1) - Week
    <3>1. d + 1 \in 1 .. Week
      OBVIOUS
    <3> QED BY <3>1, Calendar
  <2>5. CASE minute + 1 < Week
    <3>1. minute' = minute + 1
      BY <2>1, <2>5
    <3>2. minute' + d = minute + (d + 1)
      <4>1. minute \in Int /\ d \in Int /\ (minute + 1) + d = minute + (d + 1)
        OBVIOUS
      <4> QED BY ONLY <3>1, <4>1
    <3> QED BY <3>2
  <2>6. CASE ~(minute + 1 < Week)
    <3>1. minute + 1 = Week
      BY <2>6
    <3>2. minute' = 0
      BY <2>1, <3>1
    <3>3. (minute' + d) % Week = d
      BY <2>3, <3>2
    <3>4. (minute + (d + 1)) % Week = d
      BY <2>4, <3>1
    <3> QED BY <3>3, <3>4
  <2> QED BY <2>5, <2>6
<1>3. ASSUME compute_next_run(e) # 1 PROVE compute_next_run(e)' = compute_next_run(e) - 1
  <2> DEFINE S == {d \in 1 .. Week : (minute' + d) % Week \in Times[e]}
             k == compute_next_run(e) - 1
  <2>0. k \in 1 .. Week - 1 /\ k + 1 = compute_next_run(e)
    BY <1>1, <1>3
  <2>1. k \in S
    <3>1. (minute' + k) % Week = (minute + (k + 1)) % Week
      BY <1>2, <2>0
    <3>2. (minute' + k) % Week \in Times[e]
      <4>1. (minute + compute_next_run(e)) % Week \in Times[e]
        BY <1>1
      <4> QED BY <2>0, <3>1, <4>1
    <3>3. k \in 1 .. Week
      BY <2>0
    <3> HIDE DEF k
    <3> QED BY <3>2, <3>3
  <2>2. \A d \in S : k <= d
    <3> SUFFICES ASSUME NEW d \in S PROVE k <= d
      OBVIOUS
    <3>1. CASE d = Week
      BY <2>0, <3>1
    <3>2. CASE d # Week
      <4>1. d \in 1 .. Week - 1 /\ d + 1 \in 1 .. Week
        BY <3>2
      <4>2. (minute + (d + 1)) % Week \in Times[e]
        BY <1>2, <4>1
      <4>3. compute_next_run(e) <= d + 1
        BY <1>1, <4>1, <4>2
      <4> QED BY <1>1, <4>1, <4>3
    <3> QED BY <3>1, <3>2
  <2>3. Min(S) = k
    <3>1. S \in SUBSET Nat
      OBVIOUS
    <3> HIDE DEF S, k
    <3> QED BY <2>1, <2>2, <3>1, MinIs
  <2> QED BY <2>3 DEF compute_next_run
<1> QED BY <1>1, <1>3

LEMMA PlaceFacts ==
  /\ DOMAIN Order \subseteq Nat /\ DOMAIN Order = 1 .. Len(Order) /\ Len(Order) \in Nat
  /\ \A e \in Entries : Place(e) \in DOMAIN Order /\ Order[Place(e)] = e
  /\ \A i \in DOMAIN Order : Order[i] \in Entries /\ Place(Order[i]) = i
<1>1. DOMAIN Order = 1 .. Len(Order) /\ Len(Order) \in Nat
  OBVIOUS
<1>2. \A e \in Entries : Place(e) \in DOMAIN Order /\ Order[Place(e)] = e
  BY DEF Entries, Place
<1>3. \A i \in DOMAIN Order : Order[i] \in Entries
  BY DEF Entries
<1> QED BY <1>1, <1>2, <1>3

-----------------------------------------------------------------------------

LEMMA WaysThrough ==
  /\ Awake # Asleep /\ Awake # Down /\ Asleep # Down
  /\ Awake.pc = "awake" /\ Asleep.pc = "asleep" /\ Down.pc = "down"
  /\ \A nr \in DOMAIN Order : LET task == [pc |-> "task", nr |-> nr] IN
       task # Awake /\ task # Asleep /\ task # Down /\ task.pc = "task" /\ task.nr = nr
BY DEF Awake, Asleep, Down

\* Which entries the loop has passed, by where it is.
LEMMA PassedFacts ==
  /\ loop = Awake => \A e \in Entries : ~Passed(e)
  /\ \A nr \in DOMAIN Order : loop = [pc |-> "task", nr |-> nr] =>
       \A e \in Entries : Passed(e) <=> Place(e) <= nr
<1>1. ASSUME loop = Awake PROVE \A e \in Entries : ~Passed(e)
  BY <1>1, WaysThrough DEF Passed
<1>2. ASSUME NEW nr \in DOMAIN Order, loop = [pc |-> "task", nr |-> nr], NEW e \in Entries
      PROVE  Passed(e) <=> Place(e) <= nr
  <2>1. loop # Asleep /\ loop.nr = nr
    BY <1>2, WaysThrough
  <2>2. \A k \in DOMAIN Order : loop = [pc |-> "task", nr |-> k] => k = nr
    BY <1>2, WaysThrough
  <2> QED BY <1>2, <2>1, <2>2 DEF Passed
<1> QED BY <1>1, <1>2

\* The loop goes on to the next due entry from one on, having passed those before.
LEMMA PassKeeps ==
  ASSUME SchedulerInv, NEW first \in Nat \ {0}, Pass(first), loop # Down,
         \A e \in Entries : Passed(e) <=> Place(e) < first
  PROVE  /\ SchedulerInv'
         /\ \A nr \in DOMAIN Order : LET e == Order[nr] IN
              loop' = [pc |-> "task", nr |-> nr] =>
                minute \in Times[e] /\ wanted[e] # "off" /\ ~Ran(e)
<1> DEFINE due == {i \in first .. Len(Order) : should_run_now(Order[i])}
<1>1. UNCHANGED <<minute, turns, began, switched, enabled, saved, wanted>>
  BY DEF Pass, switches
<1>2. \A e \in Entries : Place(e) \in DOMAIN Order /\ Order[Place(e)] = e
  BY PlaceFacts
<1>3. DOMAIN Order = 1 .. Len(Order) /\ Len(Order) \in Nat
  BY PlaceFacts
<1>4. CASE due = {}
  <2>1. loop' = Asleep /\ UNCHANGED <<next_run, since, repeated, stale>>
    BY <1>4 DEF Pass
  <2>2. SchedulerTypeOK'
    BY <1>1, <2>1 DEF SchedulerInv, SchedulerTypeOK, Asleep
  <2>3. DatesBounded' /\ RepeatsKnown'
    BY <1>1, <2>1 DEF SchedulerInv, DatesBounded, RepeatsKnown
  <2>4. SwitchesKept'
    BY <1>1, <2>1 DEF SchedulerInv, SwitchesKept, Word
  <2>5. NoneBefore' /\ NextRunTrue'
    BY <1>1, <2>1 DEF SchedulerInv, NoneBefore, NextRunTrue, Passed, Ran, compute_next_run
  <2>6. PassedExplained'
    <3> SUFFICES ASSUME NEW e \in Entries, should_run_now(e)
                 PROVE  Ran(e) \/ e \in switched \/ Place(e) <= began
      BY <1>1, <2>1 DEF PassedExplained, should_run_now, Ran
    <3>1. Place(e) \notin due
      BY <1>4
    <3>2. Place(e) < first
      BY <1>2, <1>3, <3>1
    <3> QED BY <3>2 DEF SchedulerInv, PassedExplained
  <2>7. ~ \E nr \in DOMAIN Order : loop' = [pc |-> "task", nr |-> nr]
    BY <2>1, WaysThrough
  <2> QED BY <2>2, <2>3, <2>4, <2>5, <2>6, <2>7 DEF SchedulerInv
<1>5. CASE due # {}
  <2>1. PICK nr : nr = Min(due)
    OBVIOUS
  <2>2. nr \in due /\ \A i \in due : nr <= i
    <3>1. due \in SUBSET Nat
      BY <1>3
    <3> HIDE DEF due
    <3> QED BY <1>5, <2>1, <3>1, MinFacts
  <2>3. nr \in DOMAIN Order /\ nr \in Nat /\ first <= nr /\ should_run_now(Order[nr])
    BY <1>3, <2>2
  <2>4. PICK e : e = Order[nr]
    OBVIOUS
  <2>5. e \in Entries /\ Place(e) = nr /\ enabled[e] /\ minute \in Times[e]
    BY <2>3, <2>4, PlaceFacts DEF should_run_now
  <2>6. /\ loop' = [pc |-> "task", nr |-> nr]
        /\ next_run' = [next_run EXCEPT ![e] = compute_next_run(e)]
        /\ since' = [since EXCEPT ![e] = 0]
        /\ repeated' = repeated \ {e} /\ stale' = stale \ {e}
    BY <1>5, <2>1, <2>4 DEF Pass
  <2>7. \A f \in Entries : Passed(f)' <=> Place(f) <= nr
    <3>1. \A k \in DOMAIN Order : loop' = [pc |-> "task", nr |-> k] <=> k = nr
      BY <2>3, <2>6, WaysThrough
    <3>2. loop' # Asleep
      BY <2>3, <2>6, WaysThrough
    <3> QED BY <2>3, <3>1, <3>2 DEF Passed, Place
  <2>8. ~Ran(e)
    <3>1. ~Passed(e)
      BY <2>3, <2>5
    <3> QED BY <2>5, <3>1 DEF SchedulerInv, NoneBefore
  <2>9. compute_next_run(e) \in 1 .. Week
    BY <2>5, NextTime DEF SchedulerInv, SchedulerTypeOK
  <2>10. /\ \A f \in Entries \ {e} : /\ next_run'[f] = next_run[f] /\ since'[f] = since[f]
                                     /\ f \in repeated' <=> f \in repeated
         /\ next_run'[e] = compute_next_run(e) /\ since'[e] = 0 /\ e \notin repeated'
    BY <2>5, <2>6 DEF SchedulerInv, SchedulerTypeOK
  <2>11. Ran(e)' /\ \A f \in Entries \ {e} : Ran(f)' <=> Ran(f)
    BY <2>10 DEF Ran
  <2>12. SchedulerTypeOK'
    <3>1. loop' \in [pc: {"task"}, nr: DOMAIN Order]
      BY <2>3, <2>6
    <3>2. MaxTurns * Shift \in Nat /\ Long \in Int /\ Long <= 0
      BY DEF Long
    <3>3. compute_next_run(e) \in Long .. Week + MaxTurns * Shift
          /\ 0 \in -(MaxTurns * Shift) .. Shift
      <4> DEFINE turned == MaxTurns * Shift
      <4>1. turned \in Nat
        BY <3>2
      <4> HIDE DEF turned
      <4>2. compute_next_run(e) \in Long .. Week + turned /\ 0 \in -turned .. Shift
        BY <2>9, <3>2, <4>1
      <4> QED BY <4>2 DEF turned
    <3>4. /\ next_run' \in [Entries -> Long .. Week + MaxTurns * Shift]
          /\ since' \in [Entries -> -(MaxTurns * Shift) .. Shift]
      BY <2>6, <3>3 DEF SchedulerInv, SchedulerTypeOK
    <3> QED BY <1>1, <2>6, <3>1, <3>4 DEF SchedulerInv, SchedulerTypeOK
  <2>13. DatesBounded'
    <3>1. turns * Shift \in Nat /\ Long \in Int /\ Long <= 0
      BY DEF SchedulerInv, SchedulerTypeOK, Long
    <3>2. compute_next_run(e) \in Long .. Week + turns * Shift
          /\ 0 \in -(turns * Shift) .. Shift
      BY <2>9, <3>1
    <3> QED BY <1>1, <2>10, <3>2 DEF SchedulerInv, DatesBounded
  <2>14. RepeatsKnown'
    BY <2>10 DEF SchedulerInv, RepeatsKnown
  <2>15. SwitchesKept'
    BY <1>1, <2>6 DEF SchedulerInv, SwitchesKept, Word
  <2>16. NoneBefore'
    <3> SUFFICES ASSUME NEW f \in Entries, Ran(f)' PROVE Place(f) <= nr
      BY <2>7 DEF NoneBefore
    <3>1. CASE f = e
      BY <2>3, <2>5, <3>1
    <3>2. CASE f # e
      <4>1. Passed(f)
        BY <2>11, <3>2 DEF SchedulerInv, NoneBefore
      <4>2. Place(f) < first /\ Place(f) \in Nat
        BY <1>2, <1>3, <4>1
      <4> QED BY <2>3, <4>2
    <3> QED BY <3>1, <3>2
  <2>17. PassedExplained'
    <3> SUFFICES ASSUME NEW f \in Entries, f # e, Place(f) <= nr, should_run_now(f)
                 PROVE  Ran(f) \/ f \in switched \/ Place(f) <= began
      BY <1>1, <2>7, <2>11 DEF PassedExplained, should_run_now
    <3>1. Place(f) # nr
      BY <1>2, <2>4
    <3>2. Place(f) \notin due
      <4>1. Place(f) \in Nat /\ ~(nr <= Place(f))
        BY <1>2, <1>3, <2>3, <3>1
      <4> QED BY <2>2, <4>1
    <3>3. Place(f) < first
      BY <1>2, <1>3, <3>2
    <3> QED BY <3>3 DEF SchedulerInv, PassedExplained
  <2>18. NextRunTrue'
    <3>1. \A f \in Entries : compute_next_run(f)' = compute_next_run(f)
      BY <1>1 DEF compute_next_run
    <3> QED BY <1>1, <2>6, <2>10, <2>11, <3>1 DEF SchedulerInv, NextRunTrue
  <2>19. wanted[e] # "off"
    BY <2>5 DEF SchedulerInv, SwitchesKept, Word
  <2>20. \A k \in DOMAIN Order : loop' = [pc |-> "task", nr |-> k] => k = nr
    BY <2>3, <2>6, WaysThrough
  <2> QED BY <2>4, <2>5, <2>8, <2>12, <2>13, <2>14, <2>15, <2>16, <2>17, <2>18, <2>19, <2>20
          DEF SchedulerInv
<1> QED BY <1>4, <1>5

\* Local time goes on, a minute or with a turn.
LEMMA ClockKeeps ==
  ASSUME SchedulerInv, Clock
  PROVE  /\ SchedulerInv'
         /\ loop # Down => \A e \in Entries : wanted[e] = "on" /\ minute \in Times[e] /\ ~Ran(e) =>
              e \in switched \/ Place(e) <= began \/ (loop.pc = "task" /\ loop.nr < Place(e))
         /\ loop' = loop \/ loop' = Awake
<1>1. PICK d \in {1} \cup (IF turns < MaxTurns THEN {1 + Shift, 1 - Shift} ELSE {}) :
       /\ minute' = (minute + d) % Week
       /\ turns' = turns + (IF d = 1 THEN 0 ELSE 1)
       /\ next_run' = [e \in Entries |-> Max({Long, next_run[e] - d})]
       /\ since' = [e \in Entries |-> Min({Shift, since[e] + d})]
       /\ repeated' = IF d >= 1 THEN repeated
                      ELSE repeated \cup {e \in Entries : since[e] + d <= 0}
       /\ stale' = IF d # 1 THEN Entries
                   ELSE stale \cup {e \in Entries : minute \in Times[e] /\ ~Ran(e)}
  BY DEF Clock
<1>2. /\ loop # Awake
      /\ loop' = IF loop = Asleep THEN Awake ELSE loop
      /\ began' = IF loop.pc = "task" THEN loop.nr ELSE 0
      /\ switched' = {} /\ UNCHANGED <<enabled, saved, wanted>>
  BY DEF Clock, switches
<1>3. d \in Int /\ (d = 1 \/ d = 1 + Shift \/ d = 1 - Shift)
      /\ (d # 1 => turns < MaxTurns)
  BY <1>1
<1>4. minute \in 0 .. Week - 1 /\ turns \in 0 .. MaxTurns
  BY DEF SchedulerInv, SchedulerTypeOK
<1>5. minute' \in 0 .. Week - 1
  <2>1. minute + d \in Int /\ Week \in Nat \ {0}
    BY <1>3, <1>4
  <2>2. (minute + d) % Week \in 0 .. Week - 1
    BY <2>1, InWeek
  <2> QED BY <1>1, <2>2
<1>6. turns' \in 0 .. MaxTurns
  BY <1>1, <1>3, <1>4
<1>7. \A e \in Entries :
        /\ next_run[e] \in Int /\ since[e] \in Int
        /\ next_run'[e] = IF next_run[e] - d < Long THEN Long ELSE next_run[e] - d
        /\ since'[e] = IF since[e] + d > Shift THEN Shift ELSE since[e] + d
  <2> SUFFICES ASSUME NEW e \in Entries
               PROVE  /\ next_run[e] \in Int /\ since[e] \in Int
                      /\ next_run'[e] = IF next_run[e] - d < Long THEN Long ELSE next_run[e] - d
                      /\ since'[e] = IF since[e] + d > Shift THEN Shift ELSE since[e] + d
    OBVIOUS
  <2>1. next_run[e] \in Int /\ since[e] \in Int
    BY DEF SchedulerInv, DatesBounded
  <2>2. next_run[e] - d \in Int /\ since[e] + d \in Int /\ Long \in Int /\ Shift \in Int
    BY <1>3, <2>1 DEF Long
  <2>3. next_run'[e] = Max({Long, next_run[e] - d}) /\ since'[e] = Min({Shift, since[e] + d})
    BY <1>1
  <2> QED BY <2>1, <2>2, <2>3, OfTwo
<1>8. RepeatsKnown'
  <2> SUFFICES ASSUME NEW e \in Entries, since'[e] < 0 PROVE e \in repeated'
    BY DEF RepeatsKnown
  <2>1. since[e] + d < 0 /\ since[e] \in Int
    BY <1>3, <1>7
  <2>2. CASE d >= 1
    BY <1>1, <1>3, <2>1, <2>2 DEF SchedulerInv, RepeatsKnown
  <2>3. CASE ~(d >= 1)
    BY <1>1, <2>1, <2>3
  <2> QED BY <2>2, <2>3
<1>9. \A e \in Entries : ~Ran(e)'
  <2> SUFFICES ASSUME NEW e \in Entries, since'[e] = 0 PROVE e \in repeated'
    BY DEF Ran
  <2>1. since[e] + d = 0 /\ since[e] \in Int
    BY <1>3, <1>7
  <2>2. CASE d >= 1
    BY <1>1, <1>3, <2>1, <2>2 DEF SchedulerInv, RepeatsKnown
  <2>3. CASE ~(d >= 1)
    BY <1>1, <2>1, <2>3
  <2> QED BY <2>2, <2>3
<1>10. DatesBounded'
  <2>1. turns * Shift \in Nat /\ turns' * Shift \in Nat
        /\ (d = 1 => turns' * Shift = turns * Shift)
        /\ (d # 1 => turns' * Shift = turns * Shift + Shift)
    <3>1. turns' = turns \/ turns' = turns + 1
      BY <1>1, <1>3, <1>4
    <3>2. turns' = turns <=> d = 1
      BY <1>1, <1>3, <1>4
    <3> QED BY <1>4, <3>1, <3>2, Turned
  <2> SUFFICES ASSUME NEW e \in Entries
               PROVE  /\ next_run'[e] \in Long .. Week + turns' * Shift
                      /\ since'[e] \in -(turns' * Shift) .. Shift
    BY DEF DatesBounded
  <2> DEFINE was == turns * Shift
             is == turns' * Shift
  <2>2. next_run[e] \in Long .. Week + was /\ since[e] \in -was .. Shift
    BY DEF SchedulerInv, DatesBounded
  <2>3. was \in Nat /\ is \in Nat /\ (d = 1 => is = was) /\ (d # 1 => is = was + Shift)
    BY <2>1
  <2> HIDE DEF was, is
  <2>4. Long \in Int /\ Long <= 0
    BY DEF Long
  <2>5. next_run'[e] \in Long .. Week + is
    <3>1. next_run[e] \in Int /\ Long <= next_run[e] /\ next_run[e] <= Week + was
      BY <2>2, <2>3, <2>4
    <3>2. next_run'[e] = IF next_run[e] - d < Long THEN Long ELSE next_run[e] - d
      BY <1>7
    <3>3. next_run[e] - d \in Int /\ next_run[e] - d <= Week + is
      <4>1. CASE d = 1
        BY <2>3, <3>1, <4>1
      <4>2. CASE d # 1
        <5>1. d \in Int /\ -d <= Shift
          BY <1>3
        <5> QED BY <2>3, <3>1, <4>2, <5>1
      <4> QED BY <4>1, <4>2
    <3>4. Week + is \in Int /\ Long <= Week + is
      BY <2>3, <2>4
    <3> QED BY <2>4, <3>1, <3>2, <3>3, <3>4
  <2>6. since'[e] \in -is .. Shift
    <3>1. CASE since[e] + d > Shift
      BY <1>7, <2>3, <3>1
    <3>2. CASE ~(since[e] + d > Shift)
      <4>1. since'[e] = since[e] + d /\ since[e] \in Int /\ -was <= since[e]
        BY <1>7, <2>2, <2>3, <3>2
      <4>2. -is <= since[e] + d
        <5>1. CASE d = 1
          BY <2>3, <4>1, <5>1
        <5>2. CASE d # 1
          <6>1. d \in Int /\ -Shift <= d
            BY <1>3
          <6> QED BY <2>3, <4>1, <5>2, <6>1
        <5> QED BY <5>1, <5>2
      <4>3. since[e] + d \in Int
        BY <1>3, <4>1
      <4> QED BY <2>3, <3>2, <4>1, <4>2, <4>3
    <3> QED BY <3>1, <3>2
  <2> QED BY <2>5, <2>6 DEF is
<1>11. SchedulerTypeOK'
  <2>1. loop' \in [pc: {"awake", "asleep", "down"}] \cup [pc: {"task"}, nr: DOMAIN Order]
    BY <1>2 DEF SchedulerInv, SchedulerTypeOK, Awake
  <2>2. began' \in {0} \cup DOMAIN Order
    BY <1>2 DEF SchedulerInv, SchedulerTypeOK
  <2>3. repeated' \subseteq Entries /\ stale' \subseteq Entries /\ switched' \subseteq Entries
    BY <1>1, <1>2 DEF SchedulerInv, SchedulerTypeOK
  <2>4. turns' * Shift \in Nat /\ MaxTurns * Shift \in Nat /\ turns' * Shift <= MaxTurns * Shift
    <3>1. turns' \in Nat /\ turns' <= MaxTurns
      BY <1>6
    <3> QED BY <3>1, Turned
  <2>5. /\ \A e \in Entries : next_run'[e] \in Long .. Week + MaxTurns * Shift
        /\ \A e \in Entries : since'[e] \in -(MaxTurns * Shift) .. Shift
    <3> DEFINE is == turns' * Shift
               most == MaxTurns * Shift
    <3>1. \A e \in Entries : next_run'[e] \in Long .. Week + is /\ since'[e] \in -is .. Shift
      BY <1>10 DEF DatesBounded
    <3>2. is \in Nat /\ most \in Nat /\ is <= most
      BY <2>4
    <3> HIDE DEF is, most
    <3>3. Long \in Int
      BY DEF Long
    <3>4. /\ \A e \in Entries : next_run'[e] \in Long .. Week + most
          /\ \A e \in Entries : since'[e] \in -most .. Shift
      BY <3>1, <3>2, <3>3
    <3> QED BY <3>4 DEF most
  <2>6. /\ next_run' \in [Entries -> Long .. Week + MaxTurns * Shift]
        /\ since' \in [Entries -> -(MaxTurns * Shift) .. Shift]
    BY <1>1, <2>5
  <2> QED BY <1>2, <1>5, <1>6, <2>1, <2>2, <2>3, <2>6 DEF SchedulerInv, SchedulerTypeOK
<1>12. SwitchesKept'
  <2>1. loop' # Down => loop # Down
    BY <1>2, WaysThrough
  <2> QED BY <1>2, <2>1 DEF SchedulerInv, SwitchesKept, Word
<1>13. NoneBefore'
  BY <1>9 DEF NoneBefore
<1>14. PassedExplained'
  <2> SUFFICES ASSUME loop' # Down, NEW e \in Entries, Passed(e)' PROVE Place(e) <= began'
    BY DEF PassedExplained, Place
  <2>1. loop' # Asleep
    BY <1>2, WaysThrough
  <2>2. PICK nr \in DOMAIN Order : loop' = [pc |-> "task", nr |-> nr] /\ Place(e) <= nr
    BY <2>1 DEF Passed, Place
  <2>3. loop = loop'
    BY <1>2, <2>2, WaysThrough
  <2> QED BY <1>2, <2>2, <2>3
<1>15. NextRunTrue'
  <2> SUFFICES ASSUME NEW e \in Entries \ stale', loop' # Down
               PROVE  \/ next_run'[e] = compute_next_run(e)'
                      \/ next_run'[e] = 0 /\ minute' \in Times[e]
    BY <1>9 DEF NextRunTrue
  <2>1. d = 1 /\ e \notin stale /\ ~(minute \in Times[e] /\ ~Ran(e))
    BY <1>1
  <2>2. loop # Down
    BY <1>2, WaysThrough
  <2>3. next_run[e] = compute_next_run(e)
    BY <2>1, <2>2 DEF SchedulerInv, NextRunTrue
  <2>4. compute_next_run(e) \in 1 .. Week
    BY <1>4, NextTime
  <2>5. next_run'[e] = compute_next_run(e) - 1
    <3>1. Long \in Int /\ Long < 0
      BY DEF Long
    <3> QED BY <1>7, <2>1, <2>3, <2>4, <3>1
  <2>6. minute' = (minute + 1) % Week
    BY <1>1, <2>1
  <2>7. CASE compute_next_run(e) = 1
    BY <1>4, <2>5, <2>6, <2>7, NextTimeCloser
  <2>8. CASE compute_next_run(e) # 1
    BY <1>4, <2>5, <2>6, <2>8, NextTimeCloser
  <2> QED BY <2>7, <2>8
<1>16. ASSUME loop # Down, NEW e \in Entries, wanted[e] = "on", minute \in Times[e], ~Ran(e)
       PROVE  e \in switched \/ Place(e) <= began \/ (loop.pc = "task" /\ loop.nr < Place(e))
  <2>1. should_run_now(e)
    BY <1>16 DEF SchedulerInv, SwitchesKept, Word, should_run_now
  <2>2. CASE Passed(e)
    BY <1>16, <2>1, <2>2 DEF SchedulerInv, PassedExplained
  <2>3. CASE ~Passed(e)
    <3>1. loop # Asleep
      BY <2>3 DEF Passed
    <3>2. loop.pc = "task" /\ loop.nr \in DOMAIN Order /\ loop = [pc |-> "task", nr |-> loop.nr]
      BY <1>2, <1>16, <3>1 DEF SchedulerInv, SchedulerTypeOK, Awake, Asleep, Down
    <3>3. ~(Place(e) <= loop.nr) /\ Place(e) \in Nat /\ loop.nr \in Nat
      BY <2>3, <3>2, PlaceFacts DEF Passed
    <3> QED BY <3>2, <3>3
  <2> QED BY <2>2, <2>3
<1> QED BY <1>2, <1>8, <1>10, <1>11, <1>12, <1>13, <1>14, <1>15, <1>16 DEF SchedulerInv

-----------------------------------------------------------------------------
(* The switches and the restart *)

LEMMA ToggleKeeps ==
  ASSUME SchedulerInv, NEW e \in Entries, NEW on \in BOOLEAN, api_scheduler_toggle(e, on)
  PROVE  SchedulerInv' /\ minute' = minute /\ loop' = loop
<1>1. /\ UNCHANGED <<minute, turns, next_run, loop, since, repeated, began, stale>>
      /\ enabled' = [enabled EXCEPT ![e] = on] /\ loop # Down
      /\ switched' = IF on /\ loop # Awake THEN switched \cup {e} ELSE switched
  BY DEF api_scheduler_toggle
<1>2. \/ /\ saved' = enabled'
         /\ wanted' = [f \in Entries |-> IF f = e THEN Word(on) ELSE
                          IF wanted[f] = "unsure" THEN Word(enabled[f]) ELSE wanted[f]]
      \/ wanted' = [wanted EXCEPT ![e] = "unsure"] /\ saved' = saved
  BY DEF api_scheduler_toggle
<1>3. /\ enabled \in [Entries -> BOOLEAN] /\ saved \in [Entries -> BOOLEAN]
      /\ wanted \in [Entries -> {"on", "off", "unsure"}]
  BY DEF SchedulerInv, SchedulerTypeOK
<1>4. \A b \in BOOLEAN : Word(b) \in {"on", "off"}
  BY DEF Word
<1>5. /\ enabled' \in [Entries -> BOOLEAN] /\ saved' \in [Entries -> BOOLEAN]
      /\ wanted' \in [Entries -> {"on", "off", "unsure"}]
  <2>1. enabled' \in [Entries -> BOOLEAN]
    BY <1>1, <1>3
  <2>2. CASE /\ saved' = enabled'
             /\ wanted' = [f \in Entries |-> IF f = e THEN Word(on) ELSE
                              IF wanted[f] = "unsure" THEN Word(enabled[f]) ELSE wanted[f]]
    <3>1. \A f \in Entries : wanted'[f] \in {"on", "off", "unsure"}
      BY <1>3, <1>4, <2>2
    <3> QED BY <2>1, <2>2, <3>1
  <2>3. CASE wanted' = [wanted EXCEPT ![e] = "unsure"] /\ saved' = saved
    BY <1>3, <2>1, <2>3
  <2> QED BY <1>2, <2>2, <2>3
<1>6. SchedulerTypeOK'
  BY <1>1, <1>5 DEF SchedulerInv, SchedulerTypeOK
<1>7. SwitchesKept'
  <2> SUFFICES ASSUME NEW f \in Entries
               PROVE  /\ wanted'[f] # "unsure" => wanted'[f] = Word(saved'[f])
                      /\ wanted'[f] \in {Word(enabled'[f]), "unsure"}
    BY DEF SwitchesKept, Word
  <2>1. /\ wanted[f] # "unsure" => wanted[f] = Word(saved[f])
        /\ wanted[f] \in {Word(enabled[f]), "unsure"}
    BY <1>1 DEF SchedulerInv, SwitchesKept
  <2> QED BY <1>1, <1>2, <1>3, <2>1
<1>8. DatesBounded' /\ RepeatsKnown' /\ NoneBefore' /\ NextRunTrue'
  BY <1>1 DEF SchedulerInv, DatesBounded, RepeatsKnown, NoneBefore, NextRunTrue, Ran, Passed,
              compute_next_run
<1>9. PassedExplained'
  <2> SUFFICES ASSUME NEW f \in Entries, Passed(f), enabled'[f], minute \in Times[f]
               PROVE  Ran(f) \/ f \in switched' \/ Place(f) <= began
    BY <1>1 DEF PassedExplained, should_run_now, Ran, Passed
  <2>1. CASE f = e /\ on
    <3>1. loop # Awake
      BY PassedFacts
    <3> QED BY <1>1, <2>1, <3>1
  <2>2. CASE ~(f = e /\ on)
    <3>1. enabled[f] /\ switched \subseteq switched'
      BY <1>1, <1>3, <2>2
    <3> QED BY <1>1, <3>1 DEF SchedulerInv, PassedExplained, should_run_now
  <2> QED BY <2>1, <2>2
<1> QED BY <1>1, <1>6, <1>7, <1>8, <1>9 DEF SchedulerInv

LEMMA StopKeeps ==
  ASSUME SchedulerInv, Stop
  PROVE  SchedulerInv' /\ minute' = minute /\ loop' = Down
<1>1. /\ UNCHANGED <<minute, turns, next_run, since, repeated, began, switched, stale>>
      /\ UNCHANGED <<enabled, saved, wanted>> /\ loop' = Down
  BY DEF Stop, switches
<1>2. SchedulerTypeOK'
  BY <1>1 DEF SchedulerInv, SchedulerTypeOK, Down
<1>3. DatesBounded' /\ RepeatsKnown' /\ SwitchesKept'
  BY <1>1 DEF SchedulerInv, DatesBounded, RepeatsKnown, SwitchesKept
<1> QED BY <1>1, <1>2, <1>3 DEF SchedulerInv, NoneBefore, PassedExplained, NextRunTrue

\* Just started, it has looked at nothing.
LEMMA Started ==
  ASSUME NEW m \in 0 .. Week - 1, NEW t \in 0 .. MaxTurns, NEW next, NEW whole,
         minute = m, turns = t,
         next = [e \in Entries |-> compute_next_run(e)], whole = [e \in Entries |-> Shift]
  PROVE  /\ next \in [Entries -> Long .. Week + MaxTurns * Shift]
         /\ whole \in [Entries -> -(MaxTurns * Shift) .. Shift]
         /\ \A e \in Entries : next[e] \in Long .. Week + t * Shift
         /\ \A e \in Entries : whole[e] \in -(t * Shift) .. Shift
<1>1. \A e \in Entries : compute_next_run(e) \in 1 .. Week
  BY NextTime
<1>2. t * Shift \in Nat /\ MaxTurns * Shift \in Nat
  BY Turned
<1>3. Long \in Int /\ Long <= 0
  BY DEF Long
<1> DEFINE is == t * Shift
           most == MaxTurns * Shift
<1>4. is \in Nat /\ most \in Nat
  BY <1>2
<1> HIDE DEF is, most
<1>5. \A e \in Entries : /\ next[e] \in Long .. Week + is /\ whole[e] \in -is .. Shift
                         /\ next[e] \in Long .. Week + most /\ whole[e] \in -most .. Shift
  BY <1>1, <1>3, <1>4
<1>6. next \in [Entries -> Long .. Week + most] /\ whole \in [Entries -> -most .. Shift]
  BY <1>5
<1> QED BY <1>5, <1>6 DEF is, most

LEMMA SchedulerInitInv ==
  SchedulerInit => SchedulerInv
<1> SUFFICES ASSUME SchedulerInit PROVE SchedulerInv
  OBVIOUS
<1> USE DEF SchedulerInit
<1>1. minute \in 0 .. Week - 1 /\ turns \in 0 .. MaxTurns
  OBVIOUS
<1>2. /\ next_run \in [Entries -> Long .. Week + MaxTurns * Shift]
      /\ since \in [Entries -> -(MaxTurns * Shift) .. Shift]
      /\ DatesBounded
  BY <1>1, Started DEF DatesBounded
<1>3. SchedulerTypeOK /\ SwitchesKept
  BY <1>1, <1>2 DEF SchedulerTypeOK, SwitchesKept, Word, Awake
<1>4. RepeatsKnown /\ \A e \in Entries : ~Ran(e)
  BY DEF RepeatsKnown, Ran
<1>5. NoneBefore /\ PassedExplained
  BY <1>4, PassedFacts DEF NoneBefore, PassedExplained
<1>6. NextRunTrue
  BY DEF NextRunTrue
<1> QED BY <1>2, <1>3, <1>4, <1>5, <1>6 DEF SchedulerInv

LEMMA RestartKeeps ==
  ASSUME SchedulerInv, build_platform_scheduler
  PROVE  SchedulerInv' /\ minute' = minute /\ loop' = Awake
<1>1. /\ UNCHANGED <<minute, turns, saved>> /\ enabled' = saved /\ loop' = Awake
      /\ next_run' = [e \in Entries |-> compute_next_run(e)]
      /\ since' = [e \in Entries |-> Shift]
      /\ repeated' = {} /\ began' = 0 /\ switched' = {} /\ stale' = {}
      /\ wanted' = [e \in Entries |-> IF wanted[e] = "unsure" THEN Word(saved[e]) ELSE wanted[e]]
  BY DEF build_platform_scheduler
<1>2. minute \in 0 .. Week - 1 /\ turns \in 0 .. MaxTurns /\ saved \in [Entries -> BOOLEAN]
  BY DEF SchedulerInv, SchedulerTypeOK
<1>3. /\ next_run' \in [Entries -> Long .. Week + MaxTurns * Shift]
      /\ since' \in [Entries -> -(MaxTurns * Shift) .. Shift]
      /\ \A e \in Entries : next_run'[e] \in Long .. Week + turns * Shift
      /\ \A e \in Entries : since'[e] \in -(turns * Shift) .. Shift
  BY <1>1, <1>2, Started
<1>4. \A e \in Entries : wanted'[e] = Word(saved[e])
  BY <1>1 DEF SchedulerInv, SwitchesKept
<1>5. SchedulerTypeOK'
  <2>1. wanted' \in [Entries -> {"on", "off", "unsure"}]
    BY <1>1, <1>4 DEF Word
  <2> QED BY <1>1, <1>2, <1>3, <2>1 DEF SchedulerTypeOK, Awake
<1>6. DatesBounded' /\ SwitchesKept'
  BY <1>1, <1>3, <1>4 DEF DatesBounded, SwitchesKept, Word
<1>7. RepeatsKnown' /\ \A e \in Entries : ~Ran(e)'
  BY <1>1 DEF RepeatsKnown, Ran
<1>8. NoneBefore'
  BY <1>7 DEF NoneBefore
<1>9. PassedExplained'
  <2>1. \A e \in Entries : ~Passed(e)'
    BY <1>1, WaysThrough DEF Passed
  <2> QED BY <2>1 DEF PassedExplained
<1>10. NextRunTrue'
  BY <1>1 DEF NextRunTrue, compute_next_run
<1> QED BY <1>1, <1>5, <1>6, <1>7, <1>8, <1>9, <1>10 DEF SchedulerInv

-----------------------------------------------------------------------------

Missed(e) ==
  /\ minute' # minute /\ loop # Down
  /\ wanted[e] = "on" /\ minute \in Times[e] /\ ~Ran(e)

\* Each step keeps the invariant, and misses and starts only what the properties allow.
LEMMA SchedulerStep ==
  ASSUME SchedulerInv, [SchedulerNext]_schedulerVars
  PROVE  /\ SchedulerInv'
         /\ \A e \in Entries : Missed(e) =>
              e \in switched \/ Place(e) <= began \/ (loop.pc = "task" /\ loop.nr < Place(e))
         /\ \A nr \in DOMAIN Order : LET e == Order[nr] IN
              loop' = [pc |-> "task", nr |-> nr] /\ loop' # loop =>
                minute \in Times[e] /\ wanted[e] # "off" /\ ~Ran(e)
<1>1. CASE _tick
  <2>1. loop = Awake /\ Pass(1) /\ loop # Down
    BY <1>1, WaysThrough DEF _tick
  <2>2. \A e \in Entries : Passed(e) <=> Place(e) < 1
    BY <2>1, PassedFacts, PlaceFacts
  <2>3. minute' = minute
    BY <2>1 DEF Pass
  <2> QED BY <2>1, <2>2, <2>3, PassKeeps DEF Missed
<1>2. ASSUME NEW n \in DOMAIN Order, TaskEnds(n) PROVE
        /\ SchedulerInv' /\ minute' = minute
        /\ \A nr \in DOMAIN Order : LET e == Order[nr] IN
             loop' = [pc |-> "task", nr |-> nr] =>
               minute \in Times[e] /\ wanted[e] # "off" /\ ~Ran(e)
  <2>1. loop = [pc |-> "task", nr |-> n] /\ Pass(n + 1) /\ loop # Down
    BY <1>2, WaysThrough DEF TaskEnds
  <2>2. n + 1 \in Nat \ {0} /\ \A e \in Entries : Passed(e) <=> Place(e) < n + 1
    BY <2>1, PassedFacts, PlaceFacts
  <2>3. minute' = minute
    BY <2>1 DEF Pass
  <2> QED BY <2>1, <2>2, <2>3, PassKeeps
<1>3. CASE Clock
  BY <1>3, ClockKeeps, WaysThrough DEF Missed
<1>4. ASSUME NEW e \in Entries, NEW on \in BOOLEAN, api_scheduler_toggle(e, on)
      PROVE  SchedulerInv' /\ minute' = minute /\ loop' = loop
  BY <1>4, ToggleKeeps
<1>5. CASE Stop
  BY <1>5, StopKeeps, WaysThrough DEF Missed
<1>6. CASE build_platform_scheduler
  BY <1>6, RestartKeeps, WaysThrough DEF Missed
<1>7. CASE UNCHANGED schedulerVars
  <2>1. minute' = minute /\ loop' = loop
    BY <1>7 DEF schedulerVars
  <2>2. SchedulerTypeOK' /\ DatesBounded' /\ SwitchesKept' /\ RepeatsKnown'
    BY <1>7 DEF schedulerVars, SchedulerInv, SchedulerTypeOK, DatesBounded, SwitchesKept,
                RepeatsKnown
  <2>3. NoneBefore' /\ PassedExplained' /\ NextRunTrue'
    BY <1>7 DEF schedulerVars, SchedulerInv, NoneBefore, PassedExplained, NextRunTrue, Ran, Passed,
                should_run_now, compute_next_run
  <2> QED BY <2>1, <2>2, <2>3 DEF SchedulerInv, Missed
<1> QED BY <1>1, <1>2, <1>3, <1>4, <1>5, <1>6, <1>7 DEF SchedulerNext, Missed

\* The invariant of the platform's scheduler.
THEOREM SchedulerInvariant == SchedulerSpec => []SchedulerInv
<1>1. SchedulerInv /\ [SchedulerNext]_schedulerVars => SchedulerInv'
  BY SchedulerStep
<1> QED BY <1>1, SchedulerInitInv, PTL DEF SchedulerSpec

\* For any entries and times, of any length of the week and of the turns of local
\* time: an entry that is wanted and due is missed only for the causes named, one is
\* started only in its minute, once, and never when it was switched off, and the
\* next run that is shown is the next one (Scheduler._tick, api_scheduler_toggle).
THEOREM PlatformRuns == SchedulerSpec => PlatformRunsExplained
<1>1. SchedulerInv /\ [SchedulerNext]_schedulerVars =>
        [\A e \in Entries :
           /\ minute' # minute /\ loop # Down
           /\ wanted[e] = "on" /\ minute \in Times[e] /\ ~Ran(e)
           => \/ e \in switched
              \/ Place(e) <= began
              \/ loop.pc = "task" /\ loop.nr < Place(e)]_schedulerVars
  BY SchedulerStep DEF Missed
<1>2. SchedulerInv /\ [SchedulerNext]_schedulerVars =>
        [\A nr \in DOMAIN Order : LET e == Order[nr] IN
           loop' = [pc |-> "task", nr |-> nr] /\ loop' # loop =>
             /\ minute \in Times[e] /\ wanted[e] # "off"
             /\ ~Ran(e)]_schedulerVars
  BY SchedulerStep
<1>3. SchedulerInv => SchedulerTypeOK /\ NextRunTrue
  BY DEF SchedulerInv
<1> QED BY <1>1, <1>2, <1>3, SchedulerInvariant, PTL
        DEF SchedulerSpec, PlatformRunsExplained, SlotsExplained, StartsExplained

=============================================================================
