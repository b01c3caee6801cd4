----------------------------- MODULE ScansProofs -----------------------------
(***************************************************************************)
(* What a scan finds is ticketed, told and stored as it should be, for any *)
(* number of scans, findings, devices and restarts.                        *)
(*                                                                         *)
(* The properties speak of scans that have ended; a step of a task knows   *)
(* only its own.  ScansInv says of each scan, by the statement where its   *)
(* task is, what it has done so far and what it still has in hand; and of  *)
(* each comparison, that no scan in between can complete any more.         *)
(***************************************************************************)
EXTENDS Scans, SequenceTheorems, WellFoundedInduction, NaturalsInduction, TLAPS

-----------------------------------------------------------------------------
(* The inductive invariant *)

Working == {"scan", "device", "upsert", "announce", "filter", "complete", "refuse"}
Telling == {"alert", "compare", "alert_new", "ticket", "drops", "score"}
Compared == {"alert_new", "ticket", "drops", "fail", "ended"}

\* The status of a scan's row tells how far its task is.
StatusSound(n) ==
  /\ job[n].pc \in Working => scan[n].status = "running"
  /\ job[n].pc \in Telling => scan[n].status = "completed"
  /\ job[n].pc = "refused" => scan[n].status = "failed"
  /\ n \in spoilt => scan[n].status = "failed"

\* Which tasks take which way.
KindSound(n) ==
  /\ scan[n].kind = "audit" => scan[n].type = "audit"
  /\ scan[n].kind = "before" => job[n].pc = "ended"
  /\ job[n].pc = "alert" => scan[n].kind \in {"audit", "malware"}
  /\ job[n].pc = "compare" => scan[n].kind \in {"audit", "user"}
  /\ job[n].pc = "score" => scan[n].kind = "user"
  /\ job[n].pc \in {"alert_new", "ticket", "drops", "refused"} => scan[n].kind = "audit"

\* A loop has something left to go through.
LoopSound(n) ==
  /\ job[n].pc \in {"device", "upsert"} => job[n].devices # {}
  /\ job[n].pc \in {"filter", "alert_new", "ticket"} => job[n].todo # {}
  /\ job[n].pc = "upsert" /\ ~job[n].unknown => Next1(job[n].devices) \in assets

NewSince(n) == scan[n].found \ scan[prev[n]].found

\* A scan is compared with a completed one of its type; and of those in between none
\* had completed then and, unless one was under way, none ever will.
PrevSound(n) ==
  prev[n] # 0 =>
    /\ prev[n] \in 1 .. n - 1 /\ scan[prev[n]].type = scan[n].type /\ prev[n] \in Completed
    /\ job[n].pc \in Compared \cup {"score"}
    /\ n \notin early =>
         \A m \in prev[n] + 1 .. n - 1 :
           scan[m].type = scan[n].type => m \notin Live /\ scan[m].status # "completed"

\* The tickets of a scan are for findings new in it; while it makes them, those that
\* have none are in hand.
TicketSound(n) ==
  /\ \A f \in Findings :
       <<f, n>> \in tickets =>
         /\ scan[n].kind = "audit" /\ scan[n].status # "running"
         /\ job[n].pc \in {"ticket", "drops", "fail", "ended"}
         /\ prev[n] # 0 /\ f \in NewSince(n)
  /\ job[n].pc \in {"alert_new", "ticket", "drops"} => prev[n] # 0
  /\ job[n].pc \in {"alert_new", "ticket"} =>
       /\ job[n].todo \subseteq NewSince(n)
       /\ \A f \in NewSince(n) \ job[n].todo : <<f, n>> \in tickets
  /\ scan[n].kind = "audit" /\ scan[n].status = "completed" /\ n \notin lost
       /\ job[n].pc \in {"drops", "ended"} /\ prev[n] # 0 =>
       \A f \in NewSince(n) : <<f, n>> \in tickets

\* What has been told when the task is there.
ToldSound(n) ==
  scan[n].status = "completed" /\ n \notin lost =>
    /\ scan[n].kind = "audit" /\ scan[n].found \cap Critical # {}
         /\ job[n].pc \in {"compare", "alert_new", "ticket", "drops", "ended"} =>
         <<n, "alert">> \in notices
    /\ scan[n].kind = "malware" /\ scan[n].found # {} /\ job[n].pc = "ended" =>
         <<n, "alert">> \in notices
    /\ scan[n].kind = "audit" /\ prev[n] # 0 /\ NewSince(n) \cap Critical # {}
         /\ job[n].pc \in {"ticket", "drops", "ended"} =>
         <<n, "new">> \in notices

\* What is not suppressed now was not at some moment of the task.
FilterSound(n) ==
  n \in Live =>
    /\ Findings \ suppressed \subseteq job[n].could
    /\ scan[n].kind # "agent" => job[n].kept \subseteq job[n].could

ScanSound(n) ==
  /\ StatusSound(n) /\ KindSound(n) /\ LoopSound(n) /\ PrevSound(n)
  /\ TicketSound(n) /\ ToldSound(n) /\ FilterSound(n)

\* A device that was not announced is about to be, by the scan that found it, unless
\* that one fails or was a user's that nobody listened to.
DeviceSound(d) ==
  d \in assets \ told =>
    LET n == finder[d] IN
    /\ n \in Ids
    /\ \/ n \in lost \/ job[n].pc = "fail"
       \/ n \notin Live /\ scan[n].status = "failed"
       \/ n \in unheard /\ scan[n].kind = "user"
       \/ job[n].pc \in {"device", "upsert", "announce"} /\ d \in job[n].fresh

ScansInv ==
  /\ TypeOK
  /\ \A n \in Ids : ScanSound(n)
  /\ \A d \in Devices : DeviceSound(d)

-----------------------------------------------------------------------------
(* What a step leaves true of the scans that it is not about *)

USE ScansAssumption

LEMMA RowShape ==
  ASSUME TypeOK, NEW n \in Ids
  PROVE  /\ scan[n] \in Row /\ job[n] \in Job /\ prev[n] \in 0 .. MaxScans
         /\ n \in Nat /\ n # 0 /\ n <= MaxScans /\ Len(scan) \in Nat
<1>1. Len(scan) \in Nat
  BY LenProperties DEF TypeOK
<1>2. scan[n] \in Row
  BY ElementOfSeq DEF TypeOK, Ids
<1>3. job[n] \in Job /\ prev[n] \in 0 .. MaxScans /\ Len(scan) <= MaxScans
  BY DEF TypeOK
<1>4. n \in Nat /\ n # 0 /\ n <= Len(scan)
  BY <1>1 DEF Ids
<1> QED BY <1>1, <1>2, <1>3, <1>4

LEMMA EndedShape == Ended \in Job /\ Ended.pc = "ended"
BY DEF Ended, Job

\* Nothing that was done is undone: no scan runs again or finds something else, none
\* that another was compared with stops counting as completed.
Grows ==
  /\ Len(scan') \in Nat /\ Len(scan) <= Len(scan')
  /\ assets \subseteq assets' /\ told \subseteq told' /\ notices \subseteq notices'
  /\ tickets \subseteq tickets' /\ lost \subseteq lost' /\ early \subseteq early'
  /\ unheard \subseteq unheard'
  /\ \A m \in Ids :
       /\ scan'[m].kind = scan[m].kind /\ scan'[m].type = scan[m].type
       /\ scan[m].status # "running" =>
            scan'[m].status # "running" /\ scan'[m].found = scan[m].found
       /\ m \notin Live => job'[m].pc = "ended" /\ scan'[m].status = scan[m].status
       /\ m \in Completed /\ (\E k \in Ids : prev[k] = m) => m \in Completed'

\* The task of a scan does not move, though what it may keep can grow.
Rests(k) ==
  /\ scan'[k] = scan[k] /\ prev'[k] = prev[k]
  /\ job'[k].pc = job[k].pc /\ job'[k].devices = job[k].devices
  /\ job'[k].fresh = job[k].fresh /\ job'[k].unknown = job[k].unknown
  /\ job'[k].todo = job[k].todo /\ job'[k].kept = job[k].kept
  /\ job[k].could \subseteq job'[k].could
  /\ k \in Live => Findings \ suppressed' \subseteq job'[k].could
  /\ k \in spoilt' => k \in spoilt
  /\ \A f \in Findings : <<f, k>> \in tickets' <=> <<f, k>> \in tickets

\* The scan that one is compared with has completed, and stays as it is.
LEMMA ComparedStays ==
  ASSUME ScansInv, Grows, NEW k \in Ids, prev[k] # 0
  PROVE  /\ prev[k] \in Ids /\ prev[k] \in Completed' /\ prev[k] < k
         /\ scan'[prev[k]].found = scan[prev[k]].found
         /\ scan'[prev[k]].type = scan[prev[k]].type
<1>1. PrevSound(k)
  BY DEF ScansInv, ScanSound
<1>2. prev[k] \in 1 .. k - 1 /\ prev[k] \in Completed
  BY <1>1 DEF PrevSound
<1>3. k \in Nat /\ Len(scan) \in Nat
  BY RowShape DEF ScansInv
<1>4. prev[k] \in Ids /\ prev[k] < k
  BY <1>2, <1>3 DEF Ids
<1>5. StatusSound(prev[k])
  BY <1>4 DEF ScansInv, ScanSound
<1>6. scan[prev[k]].status # "running"
  BY <1>2, <1>5 DEF Completed, StatusSound
<1> QED BY <1>2, <1>4, <1>6 DEF Grows

LEMMA NewSinceStays ==
  ASSUME ScansInv, Grows, NEW k \in Ids, prev[k] # 0, prev'[k] = prev[k],
         scan'[k].found = scan[k].found
  PROVE  NewSince(k)' = NewSince(k)
<1>1. scan'[prev[k]].found = scan[prev[k]].found
  BY ComparedStays
<1> QED BY <1>1 DEF NewSince

\* A comparison stays sound while the task goes on from it.
LEMMA PrevStays ==
  ASSUME ScansInv, Grows, NEW k \in Ids, prev'[k] = prev[k],
         prev[k] # 0 => job'[k].pc \in Compared \cup {"score"}
  PROVE  PrevSound(k)'
<1> SUFFICES ASSUME prev[k] # 0 PROVE PrevSound(k)'
  BY DEF PrevSound
<1>1. PrevSound(k)
  BY DEF ScansInv, ScanSound
<1>2. prev[k] \in 1 .. k - 1 /\ prev[k] \in Completed' /\ scan'[prev[k]].type = scan'[k].type
  BY <1>1, ComparedStays DEF PrevSound, Grows
<1>3. ASSUME k \notin early', NEW m \in prev[k] + 1 .. k - 1, scan'[m].type = scan'[k].type
      PROVE  m \notin Live' /\ scan'[m].status # "completed"
  <2>1. k \in Nat /\ Len(scan) \in Nat /\ prev[k] \in Nat
    BY RowShape DEF ScansInv
  <2>2. m \in Ids
    BY <2>1 DEF Ids
  <2>3. scan[m].type = scan[k].type /\ k \notin early
    BY <1>3, <2>2 DEF Grows
  <2>4. m \notin Live /\ scan[m].status # "completed"
    BY <1>1, <2>3 DEF PrevSound
  <2>5. job'[m].pc = "ended" /\ scan'[m].status = scan[m].status
    BY <2>2, <2>4 DEF Grows
  <2> QED BY <2>4, <2>5 DEF Live
<1> QED BY <1>2, <1>3 DEF PrevSound

\* What is so of a scan whose task rests stays so.
LEMMA RestsSound ==
  ASSUME ScansInv, Grows, NEW k \in Ids, Rests(k)
  PROVE  ScanSound(k)'
<1>1. ScanSound(k)
  BY DEF ScansInv
<1>2. StatusSound(k)'
  BY <1>1 DEF ScanSound, StatusSound, Rests
<1>3. KindSound(k)'
  BY <1>1 DEF ScanSound, KindSound, Rests
<1>4. LoopSound(k)'
  BY <1>1 DEF ScanSound, LoopSound, Rests, Grows
<1>5. PrevSound(k)'
  <2>1. prev[k] # 0 => job'[k].pc \in Compared \cup {"score"}
    BY <1>1 DEF ScanSound, PrevSound, Rests
  <2> QED BY <2>1, PrevStays DEF Rests
<1>6. prev[k] # 0 => NewSince(k)' = NewSince(k)
  BY NewSinceStays DEF Rests
<1>7. TicketSound(k)'
  <2>1. TicketSound(k) /\ lost \subseteq lost' /\ tickets \subseteq tickets'
    BY <1>1 DEF ScanSound, Grows
  <2> QED BY <1>6, <2>1 DEF TicketSound, Rests
<1>8. ToldSound(k)'
  <2>1. ToldSound(k) /\ lost \subseteq lost' /\ notices \subseteq notices'
    BY <1>1 DEF ScanSound, Grows
  <2> QED BY <1>6, <2>1 DEF ToldSound, Rests
<1>9. FilterSound(k)'
  <2>1. k \in Live' => k \in Live
    BY RowShape DEF Live, Rests
  <2> QED BY <1>1, <2>1 DEF ScanSound, FilterSound, Rests
<1> QED BY <1>2, <1>3, <1>4, <1>5, <1>7, <1>8, <1>9 DEF ScanSound

-----------------------------------------------------------------------------
(* A step of one task *)

\* What a step of the task of scan n may do to the rest of the state.
Touches(n) ==
  /\ scan' \in Seq(Row) /\ Len(scan') = Len(scan)
  /\ scan'[n].kind = scan[n].kind /\ scan'[n].type = scan[n].type
  /\ scan[n].status # "running" =>
       scan'[n].status # "running" /\ scan'[n].found = scan[n].found
  /\ n \in Completed /\ (\E k \in Ids : prev[k] = n) =>
       scan'[n].status = "completed" \/ n \in spoilt'
  /\ prev' \in [Ids -> 0 .. MaxScans]
  /\ \A k \in Ids \ {n} : scan'[k] = scan[k] /\ prev'[k] = prev[k]
  /\ restarts' = restarts /\ suppressed' = suppressed
  /\ finder' \in [Devices -> 0 .. MaxScans]
  /\ assets \subseteq assets' /\ assets' \subseteq Devices
  /\ told \subseteq told' /\ told' \subseteq Devices
  /\ notices \subseteq notices' /\ notices' \subseteq Ids \X {"alert", "new", "refused", "drop"}
  /\ tickets \subseteq tickets' /\ tickets' \subseteq tickets \cup (Findings \X {n})
  /\ early \subseteq early' /\ early' \subseteq Ids
  /\ unheard \subseteq unheard' /\ unheard' \subseteq Ids
  /\ lost \subseteq lost' /\ lost' \subseteq Ids
  /\ spoilt \subseteq spoilt' /\ spoilt' \subseteq spoilt \cup {n}

LEMMA GotoFacts ==
  ASSUME TypeOK, NEW n \in Ids, NEW task \in Job, GotoWith(n, task)
  PROVE  /\ job' \in [Ids -> Job]
         /\ job'[n] = IF task.pc = "ended" THEN Ended ELSE task
         /\ job'[n].pc = task.pc
         /\ \A k \in Ids \ {n} : job'[k] = job[k]
BY EndedShape DEF GotoWith, TypeOK

\* Such a step keeps the types, and what is so of the other scans.
LEMMA TaskStep ==
  ASSUME ScansInv, NEW n \in Ids, n \in Live, NEW task \in Job, GotoWith(n, task), Touches(n)
  PROVE  /\ TypeOK' /\ Grows /\ Ids' = Ids
         /\ \A k \in Ids \ {n} : ScanSound(k)'
         /\ job'[n] = IF task.pc = "ended" THEN Ended ELSE task
         /\ job'[n].pc = task.pc
         /\ \A k \in Ids \ {n} : job'[k] = job[k]
<1> USE DEF ScansInv
<1>1. /\ job' \in [Ids -> Job] /\ job'[n].pc = task.pc
      /\ job'[n] = IF task.pc = "ended" THEN Ended ELSE task
      /\ \A k \in Ids \ {n} : job'[k] = job[k]
  BY GotoFacts
<1>2. Ids' = Ids /\ Len(scan) \in Nat
  BY RowShape DEF Touches, Ids
<1>3. TypeOK'
  BY <1>1, <1>2 DEF TypeOK, Touches
<1>4. Grows
  <2>1. ASSUME NEW m \in Ids, m \notin Live
        PROVE  job'[m].pc = "ended" /\ scan'[m].status = scan[m].status
    <3>1. m # n
      BY <2>1
    <3> QED BY <1>1, <2>1, <3>1 DEF Live, Touches
  <2>2. ASSUME NEW m \in Ids, m \in Completed, \E k \in Ids : prev[k] = m
        PROVE  m \in Completed'
    <3>1. CASE m = n
      BY <1>2, <2>2, <3>1 DEF Touches, Completed
    <3>2. CASE m # n
      BY <1>2, <2>2, <3>2 DEF Touches, Completed
    <3> QED BY <3>1, <3>2
  <2>3. ASSUME NEW m \in Ids
        PROVE  /\ scan'[m].kind = scan[m].kind /\ scan'[m].type = scan[m].type
               /\ scan[m].status # "running" =>
                    scan'[m].status # "running" /\ scan'[m].found = scan[m].found
    BY DEF Touches
  <2> QED BY <1>2, <2>1, <2>2, <2>3 DEF Grows, Touches
<1>5. ASSUME NEW k \in Ids \ {n} PROVE ScanSound(k)'
  <2>1. FilterSound(k)
    BY DEF ScanSound
  <2>2. Rests(k)
    <3>1. k \in Live => Findings \ suppressed' \subseteq job'[k].could
      BY <1>1, <2>1 DEF FilterSound, Touches
    <3>2. ASSUME NEW f \in Findings PROVE <<f, k>> \in tickets' <=> <<f, k>> \in tickets
      BY DEF Touches
    <3> QED BY <1>1, <3>1, <3>2 DEF Rests, Touches
  <2> QED BY <1>4, <2>2, RestsSound
<1> QED BY <1>1, <1>2, <1>3, <1>4, <1>5

\* A task that is not about devices, or that fails, leaves them as they were.
LEMMA DevicesStay ==
  ASSUME ScansInv, Grows, NEW n \in Ids, n \in Live, Ids \subseteq Ids',
         \A k \in Ids \ {n} : job'[k] = job[k],
         assets' = assets, finder' = finder,
         \/ job[n].pc \notin {"device", "upsert", "announce", "fail"}
         \/ job'[n].pc = "fail"
         \/ n \in lost'
         \/ job'[n].pc = "ended" /\ scan'[n].status = "failed"
  PROVE  \A d \in Devices : DeviceSound(d)'
<1> SUFFICES ASSUME NEW d \in Devices, d \in assets' \ told' PROVE DeviceSound(d)'
  BY DEF DeviceSound
<1> DEFINE k == finder[d]
<1>1. DeviceSound(d) /\ d \in assets \ told
  BY DEF ScansInv, Grows
<1>2. k \in Ids /\ k \in Ids' /\ finder'[d] = k
  BY <1>1 DEF DeviceSound
<1>3. CASE k = n
  <2>1. \/ n \in lost \/ job[n].pc \in {"device", "upsert", "announce", "fail"}
        \/ n \in unheard /\ scan[n].kind = "user"
    BY <1>1, <1>3 DEF DeviceSound
  <2>2. \/ n \in lost' \/ job'[n].pc = "fail"
        \/ job'[n].pc = "ended" /\ scan'[n].status = "failed"
        \/ n \in unheard' /\ scan'[n].kind = "user"
    BY <2>1 DEF Grows
  <2> QED BY <1>2, <1>3, <2>2 DEF DeviceSound, Live
<1>4. CASE k # n
  <2>1. job'[k] = job[k] /\ (k \notin Live => k \notin Live' /\ scan'[k].status = scan[k].status)
    BY <1>2, <1>4 DEF Grows, Live
  <2> HIDE DEF k
  <2> QED BY <1>1, <1>2, <2>1 DEF DeviceSound, Grows
<1> QED BY <1>3, <1>4

\* What is left to show of a step.
LEMMA StepSound ==
  ASSUME ScansInv, NEW n \in Ids, TypeOK', Ids' = Ids,
         \A k \in Ids \ {n} : ScanSound(k)', ScanSound(n)',
         \A d \in Devices : DeviceSound(d)'
  PROVE  ScansInv'
<1>1. ASSUME NEW k \in Ids' PROVE ScanSound(k)'
  BY <1>1
<1> QED BY <1>1 DEF ScansInv

\* Steps that write nothing but where the task is.
LEMMA QuietTouches ==
  ASSUME ScansInv, NEW n \in Ids, UNCHANGED <<db, restarts, prev, finder, early, unheard, spoilt>>,
         lost \subseteq lost', lost' \subseteq Ids
  PROVE  Touches(n)
<1> USE DEF ScansInv
<1>1. n \in Completed => scan[n].status = "completed" \/ n \in spoilt
  BY DEF Completed
<1> QED BY <1>1 DEF Touches, TypeOK, db

\* A task that still works has neither completed nor been compared nor made tickets.
LEMMA WorkingSound ==
  ASSUME ScansInv, Grows, NEW n \in Ids, job[n].pc \in Working,
         job'[n].pc \in Working \cup {"fail", "ended"},
         scan'[n] = scan[n], prev'[n] = prev[n], tickets' = tickets, spoilt' = spoilt,
         LoopSound(n)', FilterSound(n)'
  PROVE  ScanSound(n)'
<1>1. ScanSound(n)
  BY DEF ScansInv
<1>2. scan[n].status = "running" /\ scan[n].kind # "before" /\ prev[n] = 0
  BY <1>1 DEF ScanSound, StatusSound, KindSound, PrevSound, Working, Compared
<1>3. StatusSound(n)'
  BY <1>1, <1>2 DEF ScanSound, StatusSound, Working, Telling
<1>4. KindSound(n)'
  BY <1>1, <1>2 DEF ScanSound, KindSound, Working
<1>5. PrevSound(n)'
  BY <1>2 DEF PrevSound
<1>6. TicketSound(n)'
  BY <1>1, <1>2 DEF ScanSound, TicketSound, Working
<1>7. ToldSound(n)'
  BY <1>2 DEF ToldSound
<1> QED BY <1>3, <1>4, <1>5, <1>6, <1>7 DEF ScanSound

\* A task that gives up, having failed or lost its end, owes nothing more.
LEMMA GivesUpSound ==
  ASSUME ScansInv, Grows, NEW n \in Ids, n \in Live,
         \/ job'[n].pc = "fail"
         \/ job'[n].pc = "ended" /\ n \in lost',
         (job'[n].kept = job[n].kept /\ job'[n].could = job[n].could) \/ job'[n].pc = "ended",
         scan'[n] = scan[n], prev'[n] = prev[n], tickets' = tickets, spoilt' = spoilt,
         suppressed' = suppressed
  PROVE  ScanSound(n)'
<1>1. ScanSound(n)
  BY DEF ScansInv
<1>2. StatusSound(n)'
  BY <1>1 DEF ScanSound, StatusSound, Working, Telling
<1>3. KindSound(n)'
  BY <1>1 DEF ScanSound, KindSound, Live
<1>4. LoopSound(n)'
  BY DEF LoopSound
<1>5. PrevSound(n)'
  BY PrevStays DEF Compared
<1>6. TicketSound(n)'
  <2>1. prev[n] # 0 => NewSince(n)' = NewSince(n)
    BY NewSinceStays
  <2> QED BY <1>1, <2>1 DEF ScanSound, TicketSound
<1>7. ToldSound(n)'
  BY DEF ToldSound
<1>8. FilterSound(n)'
  BY <1>1 DEF ScanSound, FilterSound, Live
<1> QED BY <1>2, <1>3, <1>4, <1>5, <1>6, <1>7, <1>8 DEF ScanSound

\* Filter's part of what is so, when neither the suppressions nor what is kept changes.
LEMMA FilterStays ==
  ASSUME ScansInv, NEW n \in Ids, n \in Live, scan'[n].kind = scan[n].kind, suppressed' = suppressed,
         (job'[n].kept = job[n].kept /\ job'[n].could = job[n].could) \/ job'[n].pc = "ended"
  PROVE  FilterSound(n)'
BY DEF ScansInv, ScanSound, FilterSound, Live

LEMMA PickSound ==
  ASSUME NEW S, S # {} PROVE Next1(S) \in S
BY DEF Next1

LEMMA ScanReturnsSound ==
  ASSUME ScansInv, NEW n, ScanReturns(n) PROVE ScansInv'
<1>1. n \in Ids /\ n \in Live /\ job[n].pc = "scan" /\ job[n] \in Job
  BY RowShape DEF ScanReturns, At, Live, ScansInv
<1>2. PICK devices \in SUBSET Devices, found \in SUBSET Findings :
        GotoWith(n, [job[n] EXCEPT !.devices = devices, !.todo = found,
                       !.pc = CASE devices # {} -> "device"
                                [] devices = {} /\ found # {} -> "filter"
                                [] OTHER -> "complete"])
  BY DEF ScanReturns
<1> DEFINE task == [job[n] EXCEPT !.devices = devices, !.todo = found,
                      !.pc = CASE devices # {} -> "device"
                               [] devices = {} /\ found # {} -> "filter"
                               [] OTHER -> "complete"]
<1>0. GotoWith(n, task)
  BY <1>2
<1>3. /\ task \in Job /\ task.kept = job[n].kept /\ task.could = job[n].could
      /\ task.pc \in {"device", "filter", "complete"}
      /\ task.pc = "device" => task.devices # {}
      /\ task.pc = "filter" => task.todo # {}
  BY <1>1 DEF Job
<1>4. UNCHANGED <<db, restarts, history>>
  BY DEF ScanReturns
<1>5. Touches(n)
  BY <1>1, <1>4, QuietTouches DEF history, ScansInv, TypeOK
<1> HIDE DEF task
<1>6. /\ TypeOK' /\ Grows /\ Ids' = Ids
      /\ \A k \in Ids \ {n} : ScanSound(k)' /\ job'[k] = job[k]
      /\ job'[n] = task
  <2>1. n \in Ids /\ n \in Live /\ task.pc # "ended"
    BY <1>1, <1>3
  <2> QED BY <1>0, <1>3, <1>5, <2>1, TaskStep
<1>7. ScanSound(n)'
  <2>1. LoopSound(n)'
    BY <1>3, <1>6 DEF LoopSound
  <2>2. FilterSound(n)'
    BY <1>1, <1>3, <1>4, <1>6, FilterStays DEF db
  <2> QED BY <1>1, <1>3, <1>4, <1>6, <2>1, <2>2, WorkingSound DEF Working, db, history
<1>8. \A d \in Devices : DeviceSound(d)'
  BY <1>1, <1>4, <1>6, DevicesStay DEF db, history
<1> QED BY <1>1, <1>6, <1>7, <1>8, StepSound

LEMMA DeviceReadSound ==
  ASSUME ScansInv, NEW n, DeviceRead(n) PROVE ScansInv'
<1>1. n \in Ids /\ n \in Live /\ job[n].pc = "device" /\ job[n] \in Job
  BY RowShape DEF DeviceRead, At, Live, ScansInv
<1> DEFINE task == [job[n] EXCEPT !.pc = "upsert", !.unknown = Next1(job[n].devices) \notin assets]
<1>2. GotoWith(n, task) /\ UNCHANGED <<db, restarts, history>>
  BY DEF DeviceRead
<1>3. /\ task \in Job /\ task.kept = job[n].kept /\ task.could = job[n].could
      /\ task.pc = "upsert" /\ task.devices = job[n].devices /\ task.fresh = job[n].fresh
      /\ ~task.unknown => Next1(task.devices) \in assets
  BY <1>1 DEF Job
<1>4. Touches(n)
  BY <1>1, <1>2, QuietTouches DEF history, ScansInv, TypeOK
<1> HIDE DEF task
<1>5. /\ TypeOK' /\ Grows /\ Ids' = Ids
      /\ \A k \in Ids \ {n} : ScanSound(k)' /\ job'[k] = job[k]
      /\ job'[n] = task
  BY <1>1, <1>2, <1>3, <1>4, TaskStep
<1>6. ScanSound(n)'
  <2>1. LoopSound(n)
    BY <1>1 DEF ScansInv, ScanSound
  <2>2. LoopSound(n)'
    BY <1>1, <1>2, <1>3, <1>5, <2>1 DEF LoopSound, db
  <2>3. FilterSound(n)'
    BY <1>1, <1>2, <1>3, <1>5, FilterStays DEF db
  <2> QED BY <1>1, <1>2, <1>3, <1>5, <2>2, <2>3, WorkingSound DEF Working, db, history
<1>7. ASSUME NEW d \in Devices PROVE DeviceSound(d)'
  <2>1. DeviceSound(d)
    BY DEF ScansInv
  <2>2. \A k \in Ids : k \notin Live => k \notin Live'
    BY <1>5 DEF Grows, Live
  <2>3. CASE finder[d] = n
    BY <1>1, <1>2, <1>3, <1>5, <2>1, <2>3 DEF DeviceSound, Live, db, history
  <2>4. CASE finder[d] # n
    BY <1>2, <1>5, <2>1, <2>2, <2>4 DEF DeviceSound, db, history
  <2> QED BY <2>3, <2>4
<1> QED BY <1>1, <1>5, <1>6, <1>7, StepSound

\* Where a task goes when it has written a device.
LEMMA AfterWrite ==
  ASSUME NEW rest, NEW user \in BOOLEAN, NEW todo, NEW fresh
  PROVE  LET pc == CASE rest # {} -> "device"
                     [] rest = {} /\ user /\ todo # {} -> "filter"
                     [] rest = {} /\ ~user /\ fresh # {} -> "announce"
                     [] OTHER -> "complete"
         IN  /\ pc \in {"device", "filter", "announce", "complete"}
             /\ pc = "device" => rest # {}
             /\ pc = "filter" => todo # {}
             /\ pc \in {"device", "announce"} \/ (rest = {} /\ user) \/ fresh = {}
<1> DEFINE pc == CASE rest # {} -> "device"
                   [] rest = {} /\ user /\ todo # {} -> "filter"
                   [] rest = {} /\ ~user /\ fresh # {} -> "announce"
                   [] OTHER -> "complete"
<1>1. rest # {} => pc = "device"
  OBVIOUS
<1>2. rest = {} /\ user /\ todo # {} => pc = "filter"
  OBVIOUS
<1>3. rest = {} /\ ~user /\ fresh # {} => pc = "announce"
  OBVIOUS
<1>4. rest = {} /\ (user => todo = {}) /\ (~user => fresh = {}) => pc = "complete"
  OBVIOUS
<1> HIDE DEF pc
<1>5. /\ pc \in {"device", "filter", "announce", "complete"}
      /\ pc = "device" => rest # {}
      /\ pc = "filter" => todo # {}
      /\ pc \in {"device", "announce"} \/ (rest = {} /\ user) \/ fresh = {}
  BY <1>1, <1>2, <1>3, <1>4
<1> QED BY <1>5 DEF pc

LEMMA DeviceWriteSound ==
  ASSUME ScansInv, NEW n, DeviceWrite(n) PROVE ScansInv'
<1>1. n \in Ids /\ n \in Live /\ job[n].pc = "upsert" /\ job[n] \in Job
  BY RowShape DEF DeviceWrite, At, Live, ScansInv
<1> DEFINE d     == Next1(job[n].devices)
           rest  == job[n].devices \ {d}
           fresh == job[n].fresh \cup (IF job[n].unknown THEN {d} ELSE {})
           user  == scan[n].kind = "user"
           task  == [job[n] EXCEPT !.devices = rest, !.fresh = fresh,
                       !.pc = CASE rest # {} -> "device"
                                [] rest = {} /\ user /\ job[n].todo # {} -> "filter"
                                [] rest = {} /\ ~user /\ fresh # {} -> "announce"
                                [] OTHER -> "complete"]
<1>2. /\ assets' = assets \cup {d}
      /\ finder' = IF job[n].unknown THEN [finder EXCEPT ![d] = n] ELSE finder
      /\ \/ told' = told /\ unheard' = unheard /\ (rest # {} \/ ~user \/ fresh = {})
         \/ rest = {} /\ user /\ told' = told \cup fresh /\ unheard' = unheard
         \/ rest = {} /\ user /\ told' = told /\ unheard' = unheard \cup {n}
      /\ GotoWith(n, task)
      /\ UNCHANGED <<scan, suppressed, notices, tickets, restarts, prev, early, lost, spoilt>>
  BY DEF DeviceWrite, SendNew
<1>3. LoopSound(n)
  BY <1>1 DEF ScansInv, ScanSound
<1>4. d \in Devices /\ rest \subseteq Devices /\ fresh \subseteq Devices
  BY <1>1, <1>3, PickSound DEF LoopSound, Job
<1>5. /\ task \in Job /\ task.kept = job[n].kept /\ task.could = job[n].could /\ task.fresh = fresh
      /\ task.pc \in {"device", "filter", "announce", "complete"}
      /\ task.pc = "device" => task.devices # {}
      /\ task.pc = "filter" => task.todo # {}
      /\ \/ task.pc \in {"device", "announce"}
         \/ rest = {} /\ user
         \/ fresh = {}
  <2> DEFINE pc == CASE rest # {} -> "device"
                     [] rest = {} /\ user /\ job[n].todo # {} -> "filter"
                     [] rest = {} /\ ~user /\ fresh # {} -> "announce"
                     [] OTHER -> "complete"
  <2>1. /\ pc \in {"device", "filter", "announce", "complete"}
        /\ pc = "device" => rest # {}
        /\ pc = "filter" => job[n].todo # {}
        /\ pc \in {"device", "announce"} \/ (rest = {} /\ user) \/ fresh = {}
    <3> HIDE DEF d, rest, fresh, user
    <3> QED BY AfterWrite
  <2>2. task = [job[n] EXCEPT !.devices = rest, !.fresh = fresh, !.pc = pc]
    OBVIOUS
  <2> HIDE DEF d, rest, fresh, user, task, pc
  <2>3. /\ task \in Job /\ task.kept = job[n].kept /\ task.could = job[n].could
        /\ task.fresh = fresh /\ task.pc = pc /\ task.devices = rest /\ task.todo = job[n].todo
    BY <1>1, <1>4, <2>1, <2>2 DEF Job
  <2> QED BY <2>1, <2>3
<1>6. Touches(n)
  <2>1. TypeOK /\ n <= MaxScans /\ n \in Nat
    BY <1>1, RowShape DEF ScansInv
  <2>2. finder' \in [Devices -> 0 .. MaxScans]
    BY <1>2, <1>4, <2>1 DEF TypeOK
  <2>3. n \in Completed => scan[n].status = "completed" \/ n \in spoilt
    BY DEF Completed
  <2>4. told' \subseteq Devices /\ told \subseteq told'
        /\ unheard' \subseteq Ids /\ unheard \subseteq unheard'
    BY <1>1, <1>2, <1>4, <2>1 DEF TypeOK
  <2> HIDE DEF d, rest, fresh, user, task
  <2> QED BY <1>2, <1>4, <2>1, <2>2, <2>3, <2>4 DEF Touches, TypeOK
<1> HIDE DEF task, d, rest, fresh, user
<1>7. /\ TypeOK' /\ Grows /\ Ids' = Ids
      /\ \A k \in Ids \ {n} : ScanSound(k)' /\ job'[k] = job[k]
      /\ job'[n] = task
  BY <1>1, <1>2, <1>5, <1>6, TaskStep
<1>8. ScanSound(n)'
  <2>1. LoopSound(n)'
    BY <1>5, <1>7 DEF LoopSound
  <2>2. FilterSound(n)'
    BY <1>1, <1>2, <1>5, <1>7, FilterStays
  <2> QED BY <1>1, <1>2, <1>5, <1>7, <2>1, <2>2, WorkingSound DEF Working
<1>9. ASSUME NEW e \in Devices PROVE DeviceSound(e)'
  <2> SUFFICES ASSUME e \in assets' \ told' PROVE DeviceSound(e)'
    BY DEF DeviceSound
  <2>1. DeviceSound(e)
    BY DEF ScansInv
  <2>2. \A k \in Ids : k \notin Live => k \notin Live'
    BY <1>7 DEF Grows, Live
  <2>3. CASE e = d /\ job[n].unknown
    <3>1. finder'[e] = n /\ e \in fresh
      BY <1>2, <1>4, <2>3 DEF fresh, ScansInv, TypeOK
    <3>2. \/ task.pc \in {"device", "announce"}
          \/ n \in unheard' /\ scan'[n].kind = "user"
      BY <1>2, <1>5, <3>1 DEF user
    <3> QED BY <1>1, <1>5, <1>7, <3>1, <3>2 DEF DeviceSound
  <2>4. CASE ~(e = d /\ job[n].unknown)
    <3>1. e \in assets \ told
      BY <1>1, <1>2, <1>3, <2>4 DEF LoopSound, d
    <3>2. finder'[e] = finder[e]
      BY <1>2, <1>4, <2>4 DEF ScansInv, TypeOK
    <3>3. CASE finder[e] = n
      <4>1. n \in lost \/ e \in job[n].fresh \/ (n \in unheard /\ scan[n].kind = "user")
        BY <1>1, <2>1, <3>1, <3>3 DEF DeviceSound
      <4>2. CASE n \in lost
        BY <1>1, <1>2, <1>7, <3>2, <3>3, <4>2 DEF DeviceSound
      <4>3. CASE e \in job[n].fresh
        <5>1. e \in fresh
          BY <4>3 DEF fresh
        <5>2. \/ task.pc \in {"device", "announce"}
              \/ n \in unheard' /\ scan'[n].kind = "user"
          BY <1>2, <1>5, <5>1 DEF user
        <5> QED BY <1>1, <1>5, <1>7, <3>2, <3>3, <5>1, <5>2 DEF DeviceSound
      <4>4. CASE n \in unheard /\ scan[n].kind = "user"
        BY <1>1, <1>2, <1>7, <3>2, <3>3, <4>4 DEF DeviceSound, Grows
      <4> QED BY <4>1, <4>2, <4>3, <4>4
    <3>4. CASE finder[e] # n
      <4>1. finder[e] \in Ids \ {n}
        BY <2>1, <3>1, <3>4 DEF DeviceSound
      <4> QED BY <1>2, <1>7, <2>1, <2>2, <3>1, <3>2, <4>1 DEF DeviceSound, Grows
    <3> QED BY <3>3, <3>4
  <2> QED BY <2>3, <2>4
<1> QED BY <1>1, <1>7, <1>8, <1>9, StepSound

LEMMA AnnounceSound ==
  ASSUME ScansInv, NEW n, Announce(n) PROVE ScansInv'
<1>1. n \in Ids /\ n \in Live /\ job[n].pc = "announce" /\ job[n] \in Job
  BY RowShape DEF Announce, At, Live, ScansInv
<1> DEFINE task == [job[n] EXCEPT !.pc = "complete"]
<1>2. /\ GotoWith(n, task) /\ told' = told \cup job[n].fresh
      /\ UNCHANGED <<scan, assets, suppressed, notices, tickets, restarts, history>>
  BY DEF Announce, Goto
<1>3. /\ task \in Job /\ task.kept = job[n].kept /\ task.could = job[n].could
      /\ task.pc = "complete" /\ job[n].fresh \subseteq Devices
  BY <1>1 DEF Job
<1>4. Touches(n)
  BY <1>1, <1>2, <1>3 DEF Touches, history, ScansInv, TypeOK, Completed
<1> HIDE DEF task
<1>5. /\ TypeOK' /\ Grows /\ Ids' = Ids
      /\ \A k \in Ids \ {n} : ScanSound(k)' /\ job'[k] = job[k]
      /\ job'[n] = task
  BY <1>1, <1>2, <1>3, <1>4, TaskStep
<1>6. ScanSound(n)'
  <2>1. LoopSound(n)'
    BY <1>3, <1>5 DEF LoopSound
  <2>2. FilterSound(n)'
    BY <1>1, <1>2, <1>3, <1>5, FilterStays
  <2> QED BY <1>1, <1>2, <1>3, <1>5, <2>1, <2>2, WorkingSound DEF Working, history
<1>7. ASSUME NEW d \in Devices PROVE DeviceSound(d)'
  <2>1. DeviceSound(d)
    BY DEF ScansInv
  <2>2. \A k \in Ids : k \notin Live => k \notin Live'
    BY <1>5 DEF Grows, Live
  <2>3. CASE finder[d] = n
    BY <1>1, <1>2, <1>3, <1>5, <2>1, <2>3 DEF DeviceSound, Live, history
  <2>4. CASE finder[d] # n
    BY <1>2, <1>5, <2>1, <2>2, <2>4 DEF DeviceSound, history
  <2> QED BY <2>3, <2>4
<1> QED BY <1>1, <1>5, <1>6, <1>7, StepSound

LEMMA FilterStepSound ==
  ASSUME ScansInv, NEW n, Filter(n) PROVE ScansInv'
<1>1. n \in Ids /\ n \in Live /\ job[n].pc = "filter" /\ job[n] \in Job
  BY RowShape DEF Filter, At, Live, ScansInv
<1> DEFINE f    == Next1(job[n].todo)
           rest == job[n].todo \ {f}
           task == [job[n] EXCEPT !.pc = IF rest = {} THEN "complete" ELSE "filter",
                                  !.todo = rest, !.kept = @ \cup ({f} \ suppressed)]
<1>2. GotoWith(n, task) /\ UNCHANGED <<db, restarts, history>>
  BY DEF Filter
<1>3. LoopSound(n) /\ FilterSound(n)
  BY <1>1 DEF ScansInv, ScanSound
<1>4. f \in Findings
  BY <1>1, <1>3, PickSound DEF LoopSound, Job
<1>5. /\ task \in Job /\ task.kept = job[n].kept \cup ({f} \ suppressed) /\ task.could = job[n].could
      /\ task.pc \in {"filter", "complete"}
      /\ task.pc = "filter" => task.todo # {}
  BY <1>1, <1>4 DEF Job
<1>6. Touches(n)
  BY <1>1, <1>2, QuietTouches DEF history, ScansInv, TypeOK
<1> HIDE DEF task
<1>7. /\ TypeOK' /\ Grows /\ Ids' = Ids
      /\ \A k \in Ids \ {n} : ScanSound(k)' /\ job'[k] = job[k]
      /\ job'[n] = task
  BY <1>1, <1>2, <1>5, <1>6, TaskStep
<1>8. ScanSound(n)'
  <2>1. LoopSound(n)'
    BY <1>5, <1>7 DEF LoopSound
  <2>2. FilterSound(n)'
    BY <1>1, <1>2, <1>3, <1>4, <1>5, <1>7 DEF FilterSound, db
  <2> QED BY <1>1, <1>2, <1>5, <1>7, <2>1, <2>2, WorkingSound DEF Working, db, history
<1>9. \A d \in Devices : DeviceSound(d)'
  BY <1>1, <1>2, <1>7, DevicesStay DEF db, history
<1> QED BY <1>1, <1>7, <1>8, <1>9, StepSound

LEMMA ScanRefusesSound ==
  ASSUME ScansInv, NEW n, ScanRefuses(n) PROVE ScansInv'
<1>1. n \in Ids /\ n \in Live /\ job[n].pc = "scan" /\ job[n] \in Job
  BY RowShape DEF ScanRefuses, At, Live, ScansInv
<1> DEFINE task == [job[n] EXCEPT !.pc = "refuse"]
<1>2. GotoWith(n, task) /\ UNCHANGED <<db, restarts, history>>
  BY DEF ScanRefuses, Goto
<1>3. /\ task \in Job /\ task.kept = job[n].kept /\ task.could = job[n].could /\ task.pc = "refuse"
  BY <1>1 DEF Job
<1>4. Touches(n)
  BY <1>1, <1>2, QuietTouches DEF history, ScansInv, TypeOK
<1> HIDE DEF task
<1>5. /\ TypeOK' /\ Grows /\ Ids' = Ids
      /\ \A k \in Ids \ {n} : ScanSound(k)' /\ job'[k] = job[k]
      /\ job'[n] = task
  BY <1>1, <1>2, <1>3, <1>4, TaskStep
<1>6. ScanSound(n)'
  <2>1. LoopSound(n)'
    BY <1>3, <1>5 DEF LoopSound
  <2>2. FilterSound(n)'
    BY <1>1, <1>2, <1>3, <1>5, FilterStays DEF db
  <2> QED BY <1>1, <1>2, <1>3, <1>5, <2>1, <2>2, WorkingSound DEF Working, db, history
<1>7. \A d \in Devices : DeviceSound(d)'
  BY <1>1, <1>2, <1>5, DevicesStay DEF db, history
<1> QED BY <1>1, <1>5, <1>6, <1>7, StepSound

\* Raises and FailRaises.
LEMMA GivesUpStep ==
  ASSUME ScansInv, NEW n \in Ids, n \in Live, NEW pc \in {"fail", "ended"}, Goto(n, pc),
         pc = "ended" => n \in lost', lost \subseteq lost', lost' \subseteq Ids,
         UNCHANGED <<db, restarts, prev, finder, early, unheard, spoilt>>
  PROVE  ScansInv'
<1>1. job[n] \in Job
  BY RowShape DEF ScansInv
<1> DEFINE task == [job[n] EXCEPT !.pc = pc]
<1>2. GotoWith(n, task)
  BY DEF Goto
<1>3. task \in Job /\ task.kept = job[n].kept /\ task.could = job[n].could /\ task.pc = pc
  BY <1>1 DEF Job
<1>4. Touches(n)
  BY QuietTouches
<1> HIDE DEF task
<1>5. /\ TypeOK' /\ Grows /\ Ids' = Ids
      /\ \A k \in Ids \ {n} : ScanSound(k)' /\ job'[k] = job[k]
      /\ job'[n].pc = pc
      /\ job'[n] = IF pc = "ended" THEN Ended ELSE task
  BY <1>2, <1>3, <1>4, TaskStep
<1>6. ScanSound(n)'
  BY <1>3, <1>5, GivesUpSound DEF db
<1>7. \A d \in Devices : DeviceSound(d)'
  BY <1>5, DevicesStay DEF db
<1> QED BY <1>5, <1>6, <1>7, StepSound

LEMMA RaisesSound ==
  ASSUME ScansInv, NEW n, Raises(n) \/ FailRaises(n) PROVE ScansInv'
<1>1. n \in Ids /\ n \in Live /\ lost \subseteq Ids
  BY DEF Raises, FailRaises, At, Live, ScansInv, TypeOK
<1>2. UNCHANGED <<db, restarts, prev, finder, early, unheard, spoilt>>
  BY DEF Raises, FailRaises
<1>3. \E pc \in {"fail", "ended"} :
        Goto(n, pc) /\ (pc = "ended" => n \in lost') /\ lost \subseteq lost' /\ lost' \subseteq Ids
  <2>1. CASE Raises(n) /\ HasExcept(n)
    BY <1>1, <2>1 DEF Raises
  <2>2. CASE Raises(n) /\ ~HasExcept(n)
    BY <1>1, <2>2 DEF Raises
  <2>3. CASE FailRaises(n)
    BY <1>1, <2>3 DEF FailRaises
  <2> QED BY <2>1, <2>2, <2>3
<1>4. PICK pc \in {"fail", "ended"} :
        Goto(n, pc) /\ (pc = "ended" => n \in lost') /\ lost \subseteq lost' /\ lost' \subseteq Ids
  BY <1>3
<1> QED BY <1>1, <1>2, <1>4, GivesUpStep

-----------------------------------------------------------------------------
(* The end of a scan, and what is told of it *)

LEMMA CompleteRow ==
  ASSUME TypeOK, NEW n \in Ids, NEW F \in SUBSET Findings, complete_scan(n, F)
  PROVE  /\ scan' \in Seq(Row) /\ Len(scan') = Len(scan)
         /\ scan'[n].kind = scan[n].kind /\ scan'[n].type = scan[n].type
         /\ scan'[n].status = "completed" /\ scan'[n].found = F
         /\ \A k \in Ids \ {n} : scan'[k] = scan[k]
<1> DEFINE row == [scan[n] EXCEPT !.status = "completed", !.found = F]
<1>1. scan[n] \in Row
  BY RowShape
<1>2. /\ row \in Row /\ row.kind = scan[n].kind /\ row.type = scan[n].type
      /\ row.status = "completed" /\ row.found = F
  BY <1>1 DEF Row
<1>3. scan' = [scan EXCEPT ![n] = row]
  BY <1>1, LenProperties DEF complete_scan, TypeOK, Ids, Row
<1> HIDE DEF row
<1> QED BY <1>2, <1>3, ExceptSeq DEF TypeOK, Ids

LEMMA FailRow ==
  ASSUME TypeOK, NEW n \in Ids, fail_scan(n)
  PROVE  /\ scan' \in Seq(Row) /\ Len(scan') = Len(scan)
         /\ scan'[n].kind = scan[n].kind /\ scan'[n].type = scan[n].type
         /\ scan'[n].status = "failed" /\ scan'[n].found = scan[n].found
         /\ \A k \in Ids \ {n} : scan'[k] = scan[k]
<1> DEFINE row == [scan[n] EXCEPT !.status = "failed"]
<1>1. scan[n] \in Row
  BY RowShape
<1>2. /\ row \in Row /\ row.kind = scan[n].kind /\ row.type = scan[n].type
      /\ row.status = "failed" /\ row.found = scan[n].found
  BY <1>1 DEF Row
<1>3. scan' = [scan EXCEPT ![n] = row]
  BY DEF fail_scan
<1> HIDE DEF row
<1> QED BY <1>2, <1>3, ExceptSeq DEF TypeOK, Ids

LEMMA CompleteSound ==
  ASSUME ScansInv, NEW n, Complete(n) PROVE ScansInv'
<1>1. n \in Ids /\ n \in Live /\ job[n].pc = "complete" /\ job[n] \in Job /\ TypeOK
  BY RowShape DEF Complete, At, Live, ScansInv
<1> DEFINE kind  == scan[n].kind
           alert == \/ kind = "audit" /\ job[n].kept \cap Critical # {}
                    \/ kind = "malware" /\ job[n].kept # {}
           pc    == CASE alert -> "alert"
                      [] ~alert /\ kind \in {"audit", "user"} -> "compare"
                      [] OTHER -> "ended"
           task  == [job[n] EXCEPT !.pc = pc]
<1>2. /\ complete_scan(n, job[n].kept) /\ GotoWith(n, task)
      /\ UNCHANGED <<assets, suppressed, notices, told, tickets, restarts, history>>
  BY DEF Complete, Goto
<1>3. /\ alert => pc = "alert"
      /\ ~alert /\ kind \in {"audit", "user"} => pc = "compare"
      /\ ~alert /\ kind \notin {"audit", "user"} => pc = "ended"
  <2> HIDE DEF alert, kind
  <2> QED OBVIOUS
<1> HIDE DEF pc
<1>4. /\ task \in Job /\ task.pc = pc /\ task.kept = job[n].kept /\ task.could = job[n].could
      /\ job[n].kept \in SUBSET Findings
  <2>1. pc \in {"alert", "compare", "ended"}
    <3> HIDE DEF alert, kind
    <3> QED BY <1>3
  <2> QED BY <1>1, <2>1 DEF Job
<1>5. /\ scan' \in Seq(Row) /\ Len(scan') = Len(scan)
      /\ scan'[n].kind = kind /\ scan'[n].type = scan[n].type
      /\ scan'[n].status = "completed" /\ scan'[n].found = job[n].kept
      /\ \A k \in Ids \ {n} : scan'[k] = scan[k]
  BY <1>1, <1>2, <1>4, CompleteRow
<1>6. ScanSound(n)
  BY <1>1 DEF ScansInv
<1>7. scan[n].status = "running" /\ n \notin spoilt /\ prev[n] = 0
  BY <1>1, <1>6 DEF ScanSound, StatusSound, PrevSound, Working, Compared
<1>8. Touches(n)
  <2> HIDE DEF kind, alert, task
  <2> QED BY <1>1, <1>2, <1>5, <1>7 DEF Touches, history, TypeOK, kind
<1> HIDE DEF task
<1>9. /\ TypeOK' /\ Grows /\ Ids' = Ids
      /\ \A k \in Ids \ {n} : ScanSound(k)' /\ job'[k] = job[k]
      /\ job'[n] = (IF pc = "ended" THEN Ended ELSE task) /\ job'[n].pc = pc
  BY <1>1, <1>2, <1>4, <1>8, TaskStep
<1>10. ScanSound(n)'
  <2>1. StatusSound(n)'
    BY <1>2, <1>3, <1>5, <1>7, <1>9 DEF StatusSound, Working, history
  <2>2. KindSound(n)'
    BY <1>1, <1>3, <1>5, <1>6, <1>9 DEF KindSound, ScanSound
  <2>3. LoopSound(n)'
    BY <1>3, <1>9 DEF LoopSound
  <2>4. PrevSound(n)'
    BY <1>2, <1>7 DEF PrevSound, history
  <2>5. TicketSound(n)'
    <3>1. \A f \in Findings : <<f, n>> \notin tickets
      BY <1>1, <1>6 DEF TicketSound, ScanSound
    <3>2. pc \in {"alert", "compare", "ended"} /\ prev'[n] = 0 /\ tickets' = tickets
      BY <1>2, <1>3, <1>7 DEF history
    <3> QED BY <1>9, <3>1, <3>2 DEF TicketSound
  <2>6. ToldSound(n)'
    <3>1. prev'[n] = 0
      BY <1>2, <1>7 DEF history
    <3> QED BY <1>3, <1>5, <1>9, <3>1 DEF ToldSound
  <2>7. FilterSound(n)'
    <3>1. (job'[n].kept = job[n].kept /\ job'[n].could = job[n].could) \/ job'[n].pc = "ended"
      BY <1>4, <1>9
    <3> QED BY <1>1, <1>2, <1>5, <3>1, FilterStays
  <2> QED BY <2>1, <2>2, <2>3, <2>4, <2>5, <2>6, <2>7 DEF ScanSound
<1>11. \A d \in Devices : DeviceSound(d)'
  BY <1>1, <1>2, <1>9, DevicesStay DEF history
<1> QED BY <1>1, <1>9, <1>10, <1>11, StepSound

LEMMA FailSound ==
  ASSUME ScansInv, NEW n, Fail(n) PROVE ScansInv'
<1>1. n \in Ids /\ n \in Live /\ job[n].pc \in {"refuse", "fail"} /\ job[n] \in Job /\ TypeOK
  BY RowShape DEF Fail, At, Live, ScansInv
<1>2. PICK pc \in {"refused", "ended"} :
        /\ Goto(n, pc) /\ (pc = "refused" => scan[n].kind = "audit" /\ job[n].pc = "refuse")
        /\ UNCHANGED <<assets, suppressed, notices, told, tickets, restarts, prev, finder, early,
                       unheard, lost>>
  BY <1>1 DEF Fail, At
<1> DEFINE task == [job[n] EXCEPT !.pc = pc]
<1>3. GotoWith(n, task) /\ task \in Job /\ task.pc = pc
  BY <1>1, <1>2 DEF Goto, Job
<1>4. /\ scan' \in Seq(Row) /\ Len(scan') = Len(scan)
      /\ scan'[n].kind = scan[n].kind /\ scan'[n].type = scan[n].type
      /\ scan'[n].status = "failed" /\ scan'[n].found = scan[n].found
      /\ \A k \in Ids \ {n} : scan'[k] = scan[k]
  BY <1>1, FailRow DEF Fail
<1>5. spoilt' = IF \E m \in Ids : prev[m] = n THEN spoilt \cup {n} ELSE spoilt
  BY DEF Fail
<1>6. ScanSound(n)
  BY <1>1 DEF ScansInv
<1>7. Touches(n)
  <2> HIDE DEF task
  <2> QED BY <1>1, <1>2, <1>4, <1>5 DEF Touches, TypeOK
<1> HIDE DEF task
<1>8. /\ TypeOK' /\ Grows /\ Ids' = Ids
      /\ \A k \in Ids \ {n} : ScanSound(k)' /\ job'[k] = job[k]
      /\ job'[n].pc = pc /\ job'[n] = IF pc = "ended" THEN Ended ELSE task
  BY <1>1, <1>3, <1>7, TaskStep
<1>9. ScanSound(n)'
  <2>1. StatusSound(n)'
    BY <1>4, <1>8 DEF StatusSound, Working, Telling
  <2>2. KindSound(n)'
    BY <1>2, <1>4, <1>6, <1>8, <1>1 DEF KindSound, ScanSound
  <2>3. LoopSound(n)'
    BY <1>8 DEF LoopSound
  <2>4. prev[n] # 0 => pc = "ended"
    BY <1>1, <1>2, <1>6 DEF ScanSound, PrevSound, Compared
  <2>5. PrevSound(n)'
    <3>1. prev'[n] = prev[n] /\ (prev[n] # 0 => job'[n].pc \in Compared \cup {"score"})
      BY <1>2, <1>8, <2>4 DEF Compared
    <3> QED BY <1>1, <1>8, <3>1, PrevStays
  <2>6. TicketSound(n)'
    <3>1. prev[n] # 0 => NewSince(n)' = NewSince(n)
      <4>1. prev'[n] = prev[n] /\ scan'[n].found = scan[n].found
        BY <1>2, <1>4
      <4> QED BY <1>1, <1>8, <4>1, NewSinceStays
    <3> QED BY <1>2, <1>4, <1>6, <1>8, <2>4, <3>1 DEF ScanSound, TicketSound
  <2>7. ToldSound(n)'
    BY <1>4 DEF ToldSound
  <2>8. FilterSound(n)'
    <3>1. (job'[n].kept = job[n].kept /\ job'[n].could = job[n].could) \/ job'[n].pc = "ended"
      BY <1>1, <1>8 DEF Job, task
    <3> QED BY <1>1, <1>2, <1>4, <3>1, FilterStays
  <2> QED BY <2>1, <2>2, <2>3, <2>5, <2>6, <2>7, <2>8 DEF ScanSound
<1>10. \A d \in Devices : DeviceSound(d)'
  BY <1>1, <1>2, <1>4, <1>8, DevicesStay
<1> QED BY <1>1, <1>8, <1>9, <1>10, StepSound

\* A step that tells something and writes no scan.
LEMMA TellStep ==
  ASSUME ScansInv, NEW n \in Ids, job[n].pc \in Telling \cup {"refused"},
         NEW task \in Job, GotoWith(n, task),
         task.pc \in {"compare", "ticket", "drops", "ended"},
         task.pc = "compare" => job[n].pc = "alert",
         job[n].pc = "refused" => task.pc = "ended",
         task.kept = job[n].kept, task.could = job[n].could,
         UNCHANGED <<scan, assets, suppressed, told, restarts, history>>,
         notices \subseteq notices',
         notices' \subseteq notices \cup ({n} \X {"alert", "new", "refused", "drop"}),
         tickets \subseteq tickets', tickets' \subseteq tickets \cup (Findings \X {n}),
         scan[n].kind = "audit" \/ task.pc \in {"compare", "ended"},
         task.pc = "ticket" => task.todo # {},
         task.pc = "compare" => scan[n].kind = "audit"
  PROVE  /\ n \in Live /\ TypeOK' /\ Grows /\ Ids' = Ids
         /\ \A k \in Ids \ {n} : ScanSound(k)'
         /\ job'[n] = (IF task.pc = "ended" THEN Ended ELSE task) /\ job'[n].pc = task.pc
         /\ prev[n] # 0 => NewSince(n)' = NewSince(n)
         /\ StatusSound(n)' /\ KindSound(n)' /\ LoopSound(n)' /\ PrevSound(n)' /\ FilterSound(n)'
         /\ \A d \in Devices : DeviceSound(d)'
<1>1. n \in Live /\ TypeOK
  BY DEF Live, Telling, ScansInv
<1>2. Touches(n)
  <2>1. n \in Completed => scan[n].status = "completed" \/ n \in spoilt
    BY DEF Completed
  <2> QED BY <1>1, <2>1 DEF Touches, TypeOK, history
<1>3. /\ TypeOK' /\ Grows /\ Ids' = Ids
      /\ \A k \in Ids \ {n} : ScanSound(k)' /\ job'[k] = job[k]
      /\ job'[n] = (IF task.pc = "ended" THEN Ended ELSE task) /\ job'[n].pc = task.pc
  BY <1>1, <1>2, TaskStep
<1>4. ScanSound(n)
  BY DEF ScansInv
<1>5. StatusSound(n)'
  BY <1>3, <1>4 DEF ScanSound, StatusSound, Working, Telling, history
<1>6. KindSound(n)'
  BY <1>1, <1>3, <1>4 DEF ScanSound, KindSound, Live
<1>7. LoopSound(n)'
  BY <1>3 DEF LoopSound
<1>8. PrevSound(n)'
  <2>1. prev[n] # 0 => job'[n].pc \in Compared \cup {"score"}
    BY <1>3, <1>4 DEF ScanSound, PrevSound, Compared
  <2>2. prev'[n] = prev[n]
    BY DEF history
  <2> QED BY <1>3, <2>1, <2>2, PrevStays
<1>9. prev[n] # 0 => NewSince(n)' = NewSince(n)
  <2>1. prev'[n] = prev[n] /\ scan'[n].found = scan[n].found
    BY DEF history
  <2> QED BY <1>3, <2>1, NewSinceStays
<1>10. FilterSound(n)'
  <2>1. (job'[n].kept = job[n].kept /\ job'[n].could = job[n].could) \/ job'[n].pc = "ended"
    BY <1>3
  <2>2. suppressed' = suppressed /\ scan'[n].kind = scan[n].kind
    OBVIOUS
  <2> QED BY <1>1, <2>1, <2>2, FilterStays
<1>11. \A d \in Devices : DeviceSound(d)'
  <2>1. job[n].pc \notin {"device", "upsert", "announce", "fail"}
    BY DEF Telling
  <2> QED BY <1>1, <1>3, <2>1, DevicesStay DEF history
<1> QED BY <1>1, <1>3, <1>5, <1>6, <1>7, <1>8, <1>9, <1>10, <1>11

LEMMA AlertSound ==
  ASSUME ScansInv, NEW n, Alert(n) PROVE ScansInv'
<1>1. n \in Ids /\ job[n].pc = "alert" /\ job[n] \in Job /\ ScanSound(n)
  BY RowShape DEF Alert, At, ScansInv
<1> DEFINE pc   == IF scan[n].kind = "audit" THEN "compare" ELSE "ended"
           task == [job[n] EXCEPT !.pc = pc]
<1>2. /\ GotoWith(n, task) /\ notices' = notices \cup {<<n, "alert">>}
      /\ UNCHANGED <<scan, assets, suppressed, told, tickets, restarts, history>>
  BY DEF Alert, Goto, Notify
<1>3. task \in Job /\ task.pc = pc /\ task.kept = job[n].kept /\ task.could = job[n].could
  BY <1>1 DEF Job
<1>4. /\ pc \in {"compare", "ended"} /\ (pc = "compare" => scan[n].kind = "audit")
      /\ pc = "ended" => scan[n].kind = "malware"
  BY <1>1 DEF ScanSound, KindSound
<1> HIDE DEF task, pc
<1>5. /\ notices \subseteq notices'
      /\ notices' \subseteq notices \cup ({n} \X {"alert", "new", "refused", "drop"})
      /\ <<n, "alert">> \in notices'
      /\ tickets \subseteq tickets' /\ tickets' \subseteq tickets \cup (Findings \X {n})
  BY <1>2
<1>6. /\ TypeOK' /\ Grows /\ Ids' = Ids
      /\ \A k \in Ids \ {n} : ScanSound(k)'
      /\ job'[n].pc = pc
      /\ StatusSound(n)' /\ KindSound(n)' /\ LoopSound(n)' /\ PrevSound(n)' /\ FilterSound(n)'
      /\ \A d \in Devices : DeviceSound(d)'
  BY <1>1, <1>2, <1>3, <1>4, <1>5, TellStep DEF Telling
<1>7. prev[n] = 0 /\ prev'[n] = 0 /\ \A f \in Findings : <<f, n>> \notin tickets'
  BY <1>1, <1>2 DEF ScanSound, PrevSound, TicketSound, Compared, history
<1>8. TicketSound(n)'
  BY <1>4, <1>6, <1>7 DEF TicketSound
<1>9. ToldSound(n)'
  BY <1>5, <1>7 DEF ToldSound
<1> QED BY <1>1, <1>6, <1>8, <1>9, StepSound DEF ScanSound

LEMMA AlertNewSound ==
  ASSUME ScansInv, NEW n, AlertNew(n) PROVE ScansInv'
<1>1. n \in Ids /\ job[n].pc = "alert_new" /\ job[n] \in Job /\ ScanSound(n)
  BY RowShape DEF AlertNew, At, ScansInv
<1> DEFINE task == [job[n] EXCEPT !.pc = "ticket"]
<1>2. /\ GotoWith(n, task) /\ notices' = notices \cup {<<n, "new">>}
      /\ UNCHANGED <<scan, assets, suppressed, told, tickets, restarts, history>>
  BY DEF AlertNew, Goto, Notify
<1>3. /\ task \in Job /\ task.pc = "ticket" /\ task.kept = job[n].kept /\ task.could = job[n].could
      /\ task.todo = job[n].todo
  BY <1>1 DEF Job
<1>4. scan[n].kind = "audit" /\ job[n].todo # {} /\ prev[n] # 0
  BY <1>1 DEF ScanSound, KindSound, LoopSound, TicketSound
<1> HIDE DEF task
<1>5. /\ notices \subseteq notices'
      /\ notices' \subseteq notices \cup ({n} \X {"alert", "new", "refused", "drop"})
      /\ <<n, "new">> \in notices'
      /\ tickets \subseteq tickets' /\ tickets' \subseteq tickets \cup (Findings \X {n})
  BY <1>2
<1>6. /\ TypeOK' /\ Grows /\ Ids' = Ids
      /\ \A k \in Ids \ {n} : ScanSound(k)'
      /\ job'[n] = task /\ NewSince(n)' = NewSince(n)
      /\ StatusSound(n)' /\ KindSound(n)' /\ LoopSound(n)' /\ PrevSound(n)' /\ FilterSound(n)'
      /\ \A d \in Devices : DeviceSound(d)'
  BY <1>1, <1>2, <1>3, <1>4, <1>5, TellStep DEF Telling
<1>7. prev'[n] = prev[n] /\ tickets' = tickets /\ lost' = lost /\ scan'[n] = scan[n]
  BY <1>2 DEF history
<1>8. TicketSound(n)'
  BY <1>1, <1>3, <1>4, <1>6, <1>7 DEF ScanSound, TicketSound
<1>9. ToldSound(n)'
  BY <1>1, <1>3, <1>4, <1>5, <1>6, <1>7 DEF ScanSound, ToldSound
<1> QED BY <1>1, <1>6, <1>8, <1>9, StepSound DEF ScanSound

LEMMA TicketStepSound ==
  ASSUME ScansInv, NEW n, Ticket(n) PROVE ScansInv'
<1>1. n \in Ids /\ job[n].pc = "ticket" /\ job[n] \in Job /\ ScanSound(n)
  BY RowShape DEF Ticket, At, ScansInv
<1> DEFINE f    == Next1(job[n].todo)
           rest == job[n].todo \ {f}
           pc   == IF rest = {} THEN "drops" ELSE "ticket"
           task == [job[n] EXCEPT !.pc = pc, !.todo = rest]
<1>2. /\ GotoWith(n, task) /\ tickets' = tickets \cup {<<f, n>>}
      /\ UNCHANGED <<scan, assets, suppressed, notices, told, restarts, history>>
  BY DEF Ticket
<1>3. /\ scan[n].kind = "audit" /\ job[n].todo # {} /\ prev[n] # 0
      /\ scan[n].status = "completed"
      /\ job[n].todo \subseteq NewSince(n)
      /\ \A g \in NewSince(n) \ job[n].todo : <<g, n>> \in tickets
  BY <1>1 DEF ScanSound, KindSound, LoopSound, TicketSound, StatusSound, Telling
<1>4. f \in job[n].todo /\ f \in Findings
  BY <1>1, <1>3, PickSound DEF Job
<1>5. /\ task \in Job /\ task.pc = pc /\ task.kept = job[n].kept /\ task.could = job[n].could
      /\ task.todo = rest /\ pc \in {"drops", "ticket"} /\ (pc = "ticket" <=> rest # {})
  BY <1>1, <1>4 DEF Job
<1> HIDE DEF task, pc
<1>6. /\ notices \subseteq notices'
      /\ notices' \subseteq notices \cup ({n} \X {"alert", "new", "refused", "drop"})
      /\ tickets \subseteq tickets' /\ tickets' \subseteq tickets \cup (Findings \X {n})
  BY <1>2, <1>4
<1>7. /\ TypeOK' /\ Grows /\ Ids' = Ids
      /\ \A k \in Ids \ {n} : ScanSound(k)'
      /\ job'[n] = task /\ NewSince(n)' = NewSince(n)
      /\ StatusSound(n)' /\ KindSound(n)' /\ LoopSound(n)' /\ PrevSound(n)' /\ FilterSound(n)'
      /\ \A d \in Devices : DeviceSound(d)'
  BY <1>1, <1>2, <1>3, <1>5, <1>6, TellStep DEF Telling
<1>8. prev'[n] = prev[n] /\ notices' = notices /\ lost' = lost /\ scan'[n] = scan[n]
  BY <1>2 DEF history
<1>9. TicketSound(n)'
  <2>1. ASSUME NEW g \in Findings, <<g, n>> \in tickets' PROVE g \in NewSince(n)
    BY <1>1, <1>2, <1>3, <1>4, <2>1 DEF ScanSound, TicketSound
  <2>2. rest \subseteq NewSince(n) /\ \A g \in NewSince(n) \ rest : <<g, n>> \in tickets'
    BY <1>2, <1>3
  <2>3. pc = "drops" => rest = {}
    BY <1>5
  <2> HIDE DEF rest
  <2> QED BY <1>3, <1>5, <1>7, <1>8, <2>1, <2>2, <2>3 DEF TicketSound
<1>10. ToldSound(n)'
  BY <1>1, <1>3, <1>5, <1>7, <1>8 DEF ScanSound, ToldSound
<1> QED BY <1>1, <1>7, <1>9, <1>10, StepSound DEF ScanSound

LEMMA DropsSound ==
  ASSUME ScansInv, NEW n, Drops(n) PROVE ScansInv'
<1>1. n \in Ids /\ job[n].pc = "drops" /\ job[n] \in Job /\ ScanSound(n)
  BY RowShape DEF Drops, At, ScansInv
<1> DEFINE task == [job[n] EXCEPT !.pc = "ended"]
<1>2. /\ GotoWith(n, task) /\ (notices' = notices \cup {<<n, "drop">>} \/ notices' = notices)
      /\ UNCHANGED <<scan, assets, suppressed, told, tickets, restarts, history>>
  BY DEF Drops, Goto, Notify
<1>3. task \in Job /\ task.pc = "ended" /\ task.kept = job[n].kept /\ task.could = job[n].could
  BY <1>1 DEF Job
<1>4. prev[n] # 0
  BY <1>1 DEF ScanSound, TicketSound
<1> HIDE DEF task
<1>5. /\ notices \subseteq notices'
      /\ notices' \subseteq notices \cup ({n} \X {"alert", "new", "refused", "drop"})
      /\ tickets \subseteq tickets' /\ tickets' \subseteq tickets \cup (Findings \X {n})
  BY <1>2
<1>6. /\ TypeOK' /\ Grows /\ Ids' = Ids
      /\ \A k \in Ids \ {n} : ScanSound(k)'
      /\ job'[n].pc = "ended" /\ NewSince(n)' = NewSince(n)
      /\ StatusSound(n)' /\ KindSound(n)' /\ LoopSound(n)' /\ PrevSound(n)' /\ FilterSound(n)'
      /\ \A d \in Devices : DeviceSound(d)'
  BY <1>1, <1>2, <1>3, <1>4, <1>5, TellStep DEF Telling
<1>7. prev'[n] = prev[n] /\ tickets' = tickets /\ lost' = lost /\ scan'[n] = scan[n]
  BY <1>2 DEF history
<1>8. TicketSound(n)'
  BY <1>1, <1>4, <1>6, <1>7 DEF ScanSound, TicketSound
<1>9. ToldSound(n)'
  <2>1. scan[n].kind = "audit"
    BY <1>1 DEF ScanSound, KindSound
  <2> QED BY <1>1, <1>5, <1>6, <1>7, <2>1 DEF ScanSound, ToldSound
<1> QED BY <1>1, <1>6, <1>8, <1>9, StepSound DEF ScanSound

\* Score and Refused.
LEMMA LastStepSound ==
  ASSUME ScansInv, NEW n, Score(n) \/ Refused(n) PROVE ScansInv'
<1>1. n \in Ids /\ job[n].pc \in {"score", "refused"} /\ job[n] \in Job /\ ScanSound(n)
  BY RowShape DEF Score, Refused, At, ScansInv
<1> DEFINE task == [job[n] EXCEPT !.pc = "ended"]
<1>2. /\ GotoWith(n, task) /\ (notices' = notices \cup {<<n, "refused">>} \/ notices' = notices)
      /\ UNCHANGED <<scan, assets, suppressed, told, tickets, restarts, history>>
  BY DEF Score, Refused, Goto, Notify, db
<1>3. task \in Job /\ task.pc = "ended" /\ task.kept = job[n].kept /\ task.could = job[n].could
  BY <1>1 DEF Job
<1> HIDE DEF task
<1>4. /\ notices \subseteq notices'
      /\ notices' \subseteq notices \cup ({n} \X {"alert", "new", "refused", "drop"})
      /\ tickets \subseteq tickets' /\ tickets' \subseteq tickets \cup (Findings \X {n})
  BY <1>2
<1>5. /\ TypeOK' /\ Grows /\ Ids' = Ids
      /\ \A k \in Ids \ {n} : ScanSound(k)'
      /\ job'[n].pc = "ended"
      /\ StatusSound(n)' /\ KindSound(n)' /\ LoopSound(n)' /\ PrevSound(n)' /\ FilterSound(n)'
      /\ \A d \in Devices : DeviceSound(d)'
  BY <1>1, <1>2, <1>3, <1>4, TellStep DEF Telling
<1>6. \A f \in Findings : <<f, n>> \notin tickets'
  BY <1>1, <1>2 DEF ScanSound, TicketSound
<1>7. \/ scan'[n].status # "completed"
      \/ scan'[n].kind \notin {"audit", "malware"}
  BY <1>1, <1>2 DEF ScanSound, StatusSound, KindSound
<1>8. TicketSound(n)'
  BY <1>5, <1>6, <1>7 DEF TicketSound
<1>9. ToldSound(n)'
  BY <1>7 DEF ToldSound
<1> QED BY <1>1, <1>5, <1>8, <1>9, StepSound DEF ScanSound

-----------------------------------------------------------------------------
(* The comparison *)

\* Numbers up to a bound have a largest.
LEMMA MaxFacts ==
  ASSUME NEW N \in Nat, NEW S \in SUBSET (0 .. N), S # {}
  PROVE  Max(S) \in S /\ \A k \in S : Max(S) >= k
<1> DEFINE T == {N - i : i \in S}
<1>1. \A i \in S : N - i \in Nat
  OBVIOUS
<1>2. T \subseteq Nat /\ T # {}
  BY <1>1
<1>3. PICK m \in T : \A y \in T : ~(<<y, m>> \in OpToRel(<, Nat))
  BY <1>2, NatLessThanWellFounded, WFMin
<1>4. \A y \in T : ~(y < m)
  BY <1>2, <1>3 DEF OpToRel
<1>5. PICK i \in S : m = N - i
  BY <1>2
<1>6. \A k \in S : ~(N - k < N - i)
  BY <1>4, <1>5
<1>7. \A k \in S : i >= k
  BY <1>6
<1>8. \E j \in S : \A k \in S : j >= k
  BY <1>7
<1> QED BY <1>8 DEF Max

\* get_comparison finds the last completed scan of the type before this one, or none.
LEMMA PreviousFacts ==
  ASSUME TypeOK, NEW n \in Ids
  PROVE  /\ Previous(n) \in 0 .. MaxScans /\ Previous(n) < n
         /\ Previous(n) # 0 =>
              /\ Previous(n) \in 1 .. n - 1 /\ scan[Previous(n)].type = scan[n].type
              /\ scan[Previous(n)].status = "completed"
         /\ \A m \in Previous(n) + 1 .. n - 1 :
              scan[m].type = scan[n].type => scan[m].status # "completed"
<1> DEFINE S == {0} \cup {m \in 1 .. n - 1 : scan[m].type = scan[n].type
                                              /\ scan[m].status = "completed"}
<1>1. n \in Nat /\ n # 0 /\ n <= MaxScans
  BY RowShape
<1>2. S \in SUBSET (0 .. n - 1) /\ S # {} /\ n - 1 \in Nat
  BY <1>1
<1>3. Max(S) \in S /\ \A k \in S : Max(S) >= k
  BY <1>2, MaxFacts
<1>4. Previous(n) = Max(S)
  BY DEF Previous
<1>5. ASSUME NEW m \in Previous(n) + 1 .. n - 1, scan[m].type = scan[n].type,
             scan[m].status = "completed"
      PROVE  FALSE
  <2>1. Previous(n) \in Nat /\ \A k \in S : Previous(n) >= k
    BY <1>2, <1>3, <1>4
  <2>2. m \in S
    BY <1>1, <1>5, <2>1
  <2>3. Previous(n) >= m
    BY <2>1, <2>2
  <2> QED BY <1>1, <2>1, <2>3
<1>6. Previous(n) \in S
  BY <1>3, <1>4
<1> HIDE DEF S
<1>7. Previous(n) \in 0 .. n - 1
  BY <1>2, <1>6
<1>8. Previous(n) # 0 =>
        /\ Previous(n) \in 1 .. n - 1 /\ scan[Previous(n)].type = scan[n].type
        /\ scan[Previous(n)].status = "completed"
  BY <1>6 DEF S
<1> QED BY <1>1, <1>5, <1>7, <1>8

LEMMA CompareSound ==
  ASSUME ScansInv, NEW n, Compare(n) PROVE ScansInv'
<1>1. n \in Ids /\ n \in Live /\ job[n].pc = "compare" /\ job[n] \in Job /\ ScanSound(n) /\ TypeOK
  BY RowShape DEF Compare, At, Live, ScansInv
<1> DEFINE pc   == CASE scan[n].kind = "user" -> "score"
                     [] scan[n].kind = "audit" /\ New(n) \cap Critical # {} -> "alert_new"
                     [] scan[n].kind = "audit" /\ New(n) # {} /\ New(n) \cap Critical = {} -> "ticket"
                     [] scan[n].kind = "audit" /\ Previous(n) # 0 /\ New(n) = {} -> "drops"
                     [] OTHER -> "ended"
           task == [job[n] EXCEPT !.todo = New(n), !.pc = pc]
<1>2. /\ prev' = [prev EXCEPT ![n] = Previous(n)]
      /\ early' = IF \E m \in 1 .. n - 1 : scan[m].type = scan[n].type /\ m \in Live
                    THEN early \cup {n} ELSE early
      /\ GotoWith(n, task)
      /\ UNCHANGED <<db, restarts, finder, unheard, lost, spoilt>>
  BY DEF Compare
<1>3. PICK p : p = Previous(n)
  OBVIOUS
<1>4. PICK new : new = New(n)
  OBVIOUS
<1>5. /\ p \in 0 .. MaxScans /\ p < n
      /\ p # 0 => p \in 1 .. n - 1 /\ scan[p].type = scan[n].type /\ scan[p].status = "completed"
      /\ \A m \in p + 1 .. n - 1 : scan[m].type = scan[n].type => scan[m].status # "completed"
  BY <1>1, <1>3, PreviousFacts
<1>6. new = IF p = 0 THEN {} ELSE scan[n].found \ scan[p].found
  BY <1>3, <1>4 DEF New
<1>7. new \subseteq Findings
  <2>1. scan[n] \in Row
    BY <1>1, RowShape
  <2> QED BY <1>6, <2>1 DEF Row
<1>8. scan[n].kind \in {"audit", "user"} /\ scan[n].status = "completed" /\ prev[n] = 0
      /\ n \notin spoilt /\ \A f \in Findings : <<f, n>> \notin tickets
  BY <1>1 DEF ScanSound, KindSound, StatusSound, PrevSound, TicketSound, Telling, Compared
<1> HIDE DEF pc
<1>9. /\ scan[n].kind = "user" => pc = "score"
      /\ scan[n].kind = "audit" /\ new \cap Critical # {} => pc = "alert_new"
      /\ scan[n].kind = "audit" /\ new # {} /\ new \cap Critical = {} => pc = "ticket"
      /\ scan[n].kind = "audit" /\ new = {} /\ p # 0 => pc = "drops"
      /\ scan[n].kind = "audit" /\ new = {} /\ p = 0 => pc = "ended"
  BY <1>3, <1>4 DEF pc
<1>10. /\ pc \in {"score", "alert_new", "ticket", "drops", "ended"}
       /\ pc = "score" => scan[n].kind = "user"
       /\ pc \in {"alert_new", "ticket", "drops"} => scan[n].kind = "audit" /\ p # 0
       /\ pc \in {"alert_new", "ticket"} => new # {}
       /\ pc = "ticket" => new \cap Critical = {}
       /\ pc = "drops" => new = {}
       /\ pc = "ended" => p = 0
  BY <1>6, <1>8, <1>9
<1>11. /\ task \in Job /\ task.pc = pc /\ task.todo = new
       /\ task.kept = job[n].kept /\ task.could = job[n].could
  BY <1>1, <1>4, <1>7, <1>10 DEF Job
<1>12. /\ prev' \in [Ids -> 0 .. MaxScans] /\ prev'[n] = p
       /\ \A k \in Ids \ {n} : prev'[k] = prev[k]
  BY <1>1, <1>2, <1>3, <1>5 DEF TypeOK
<1>13. Touches(n)
  <2>1. n \in Completed => scan[n].status = "completed" \/ n \in spoilt
    BY DEF Completed
  <2> HIDE DEF task
  <2> QED BY <1>1, <1>2, <1>12, <2>1 DEF Touches, TypeOK, db
<1> HIDE DEF task
<1>14. /\ TypeOK' /\ Grows /\ Ids' = Ids
       /\ \A k \in Ids \ {n} : ScanSound(k)' /\ job'[k] = job[k]
       /\ job'[n] = (IF pc = "ended" THEN Ended ELSE task) /\ job'[n].pc = pc
  BY <1>1, <1>2, <1>11, <1>13, TaskStep
<1>15. scan' = scan /\ tickets' = tickets /\ notices' = notices /\ suppressed' = suppressed
       /\ lost' = lost /\ spoilt' = spoilt /\ assets' = assets /\ finder' = finder
  BY <1>2 DEF db
<1>16. p # 0 => NewSince(n)' = new
  BY <1>6, <1>12, <1>15 DEF NewSince
<1>17. ScanSound(n)'
  <2>1. StatusSound(n)'
    BY <1>8, <1>10, <1>14, <1>15 DEF StatusSound, Working
  <2>2. KindSound(n)'
    BY <1>1, <1>10, <1>14, <1>15 DEF ScanSound, KindSound
  <2>3. LoopSound(n)'
    BY <1>10, <1>11, <1>14 DEF LoopSound
  <2>4. PrevSound(n)'
    <3> SUFFICES ASSUME p # 0 PROVE PrevSound(n)'
      BY <1>12 DEF PrevSound
    <3>1. n \in Nat /\ Len(scan) \in Nat /\ n \in 1 .. Len(scan)
      BY <1>1, RowShape DEF Ids
    <3>2. p \in Ids /\ p \in 1 .. n - 1 /\ p \in Completed'
      BY <1>5, <1>14, <1>15, <3>1 DEF Ids, Completed
    <3>3. ASSUME n \notin early', NEW m \in p + 1 .. n - 1, scan[m].type = scan[n].type
          PROVE  m \notin Live' /\ scan[m].status # "completed"
      <4>1. m \in Ids /\ m \in 1 .. n - 1 /\ m # n
        BY <1>5, <3>1 DEF Ids
      <4>2. m \notin Live
        BY <1>2, <3>3, <4>1
      <4> QED BY <1>5, <1>14, <3>3, <4>1, <4>2 DEF Live
    <3>4. pc \in Compared \cup {"score"}
      BY <1>10 DEF Compared
    <3> QED BY <1>5, <1>12, <1>14, <1>15, <3>2, <3>3, <3>4 DEF PrevSound
  <2>5. TicketSound(n)'
    BY <1>8, <1>10, <1>11, <1>12, <1>14, <1>15, <1>16 DEF TicketSound
  <2>6. ToldSound(n)'
    BY <1>1, <1>8, <1>10, <1>12, <1>14, <1>15, <1>16 DEF ScanSound, ToldSound
  <2>7. FilterSound(n)'
    <3>1. (job'[n].kept = job[n].kept /\ job'[n].could = job[n].could) \/ job'[n].pc = "ended"
      BY <1>11, <1>14
    <3> QED BY <1>1, <1>15, <3>1, FilterStays
  <2> QED BY <2>1, <2>2, <2>3, <2>4, <2>5, <2>6, <2>7 DEF ScanSound
<1>18. \A d \in Devices : DeviceSound(d)'
  BY <1>1, <1>14, <1>15, DevicesStay
<1> QED BY <1>1, <1>14, <1>17, <1>18, StepSound

-----------------------------------------------------------------------------
(* Steps that are of no task, or of all *)

\* A function over the first m numbers is a sequence of its values.
LEMMA FunctionIsSeq ==
  ASSUME NEW S, NEW m \in Nat, NEW f \in [1 .. m -> S]
  PROVE  f \in Seq(S) /\ Len(f) = m
OBVIOUS

LEMMA StartSound ==
  ASSUME ScansInv, NEW kind \in Kinds, NEW type \in Types(kind), Start(kind, type)
  PROVE  ScansInv'
<1>1. TypeOK /\ Len(scan) \in Nat /\ Len(scan) < MaxScans
  BY LenProperties DEF ScansInv, TypeOK, Start
<1>0. PICK n : n = Len(scan) + 1
  OBVIOUS
<1> DEFINE row == [kind |-> kind, type |-> type, status |-> "running", found |-> {}]
<1>2. PICK found \in SUBSET Findings :
        /\ kind # "agent" => found = {}
        /\ job' = Append(job, [Ended EXCEPT !.pc = IF kind = "agent" THEN "complete" ELSE "scan",
                                            !.kept = found, !.could = Findings \ suppressed])
  BY DEF Start
<1>3. PICK task : task = [Ended EXCEPT !.pc = IF kind = "agent" THEN "complete" ELSE "scan",
                                      !.kept = found, !.could = Findings \ suppressed]
  OBVIOUS
<1>4. /\ task \in Job /\ task.pc \in {"scan", "complete"} /\ task.could = Findings \ suppressed
      /\ kind # "agent" => task.kept = {}
  BY <1>2, <1>3 DEF Ended, Job
<1>5. /\ scan' = Append(scan, row) /\ prev' = Append(prev, 0)
      /\ UNCHANGED <<assets, suppressed, notices, told, tickets, restarts, finder, early,
                     unheard, lost, spoilt>>
  BY DEF Start, create_scan
<1>6. type \in {"audit", "malware", "network", "runtime"} /\ (kind = "audit" => type = "audit")
  BY DEF Types, Kinds
<1>7. row \in Row
  BY <1>6 DEF Row
<1>8. /\ scan' \in Seq(Row) /\ Len(scan') = n /\ scan'[n] = row
      /\ \A k \in Ids : scan'[k] = scan[k]
  BY <1>0, <1>1, <1>5, <1>7, AppendProperties DEF TypeOK, Ids
<1>9. Ids' = Ids \cup {n} /\ n \notin Ids
  BY <1>0, <1>1, <1>8 DEF Ids
<1>10. /\ job' \in [Ids' -> Job] /\ job'[n] = task /\ \A k \in Ids : job'[k] = job[k]
  <2>1. job \in Seq(Job) /\ Len(job) = Len(scan)
    <3>1. job \in [1 .. Len(scan) -> Job]
      BY <1>1 DEF TypeOK, Ids
    <3> QED BY <1>1, <3>1, FunctionIsSeq
  <2>2. /\ job' \in Seq(Job) /\ Len(job') = n /\ job'[n] = task
        /\ \A k \in Ids : job'[k] = job[k]
    BY <1>0, <1>2, <1>3, <1>4, <2>1, AppendProperties DEF Ids
  <2> QED BY <1>8, <2>2, LenProperties DEF Ids
<1>11. /\ prev' \in [Ids' -> 0 .. MaxScans] /\ prev'[n] = 0 /\ \A k \in Ids : prev'[k] = prev[k]
  <2>1. prev \in Seq(0 .. MaxScans) /\ Len(prev) = Len(scan) /\ 0 \in 0 .. MaxScans
    <3>1. prev \in [1 .. Len(scan) -> 0 .. MaxScans]
      BY <1>1 DEF TypeOK, Ids
    <3>2. prev \in Seq(0 .. MaxScans) /\ Len(prev) = Len(scan)
      BY <1>1, <3>1, FunctionIsSeq
    <3> QED BY <1>1, <3>2
  <2>2. /\ prev' \in Seq(0 .. MaxScans) /\ Len(prev') = n /\ prev'[n] = 0
        /\ \A k \in Ids : prev'[k] = prev[k]
    BY <1>0, <1>5, <2>1, AppendProperties DEF Ids
  <2> QED BY <1>8, <2>2, LenProperties DEF Ids
<1>12. n \in Nat /\ n <= MaxScans
  BY <1>0, <1>1
<1> HIDE DEF row
<1>13. TypeOK'
  BY <1>1, <1>5, <1>8, <1>9, <1>10, <1>11, <1>12 DEF TypeOK
<1>14. Grows
  <2>1. Len(scan') \in Nat /\ Len(scan) <= Len(scan')
    BY <1>0, <1>1, <1>8
  <2>2. ASSUME NEW m \in Ids, m \in Completed PROVE m \in Completed'
    BY <1>5, <1>8, <1>9, <2>2 DEF Completed
  <2> QED BY <1>5, <1>8, <1>10, <2>1, <2>2 DEF Grows, Live
<1>15. ASSUME NEW k \in Ids PROVE ScanSound(k)'
  <2>1. FilterSound(k)
    BY DEF ScansInv, ScanSound
  <2>2. Rests(k)
    BY <1>5, <1>8, <1>10, <1>11, <2>1 DEF Rests, FilterSound
  <2> QED BY <1>14, <2>2, RestsSound
<1>16. ScanSound(n)'
  <2>1. scan'[n].kind = kind /\ scan'[n].type = type /\ scan'[n].status = "running"
    BY <1>8 DEF row
  <2>2. n \notin spoilt' /\ \A f \in Findings : <<f, n>> \notin tickets'
    BY <1>1, <1>5, <1>9 DEF TypeOK
  <2>3. StatusSound(n)'
    BY <1>4, <1>10, <2>1, <2>2 DEF StatusSound, Working, Telling
  <2>4. KindSound(n)'
    BY <1>4, <1>6, <1>10, <2>1 DEF KindSound, Kinds
  <2>5. LoopSound(n)'
    BY <1>4, <1>10 DEF LoopSound
  <2>6. PrevSound(n)'
    BY <1>11 DEF PrevSound
  <2>7. TicketSound(n)'
    BY <1>4, <1>10, <2>1, <2>2 DEF TicketSound
  <2>8. ToldSound(n)'
    BY <2>1 DEF ToldSound
  <2>9. FilterSound(n)'
    BY <1>4, <1>5, <1>10, <2>1 DEF FilterSound
  <2> QED BY <2>3, <2>4, <2>5, <2>6, <2>7, <2>8, <2>9 DEF ScanSound
<1>17. ASSUME NEW d \in Devices PROVE DeviceSound(d)'
  <2>1. DeviceSound(d)
    BY DEF ScansInv
  <2> QED BY <1>5, <1>8, <1>9, <1>10, <2>1 DEF DeviceSound, Live
<1> QED BY <1>9, <1>13, <1>15, <1>16, <1>17 DEF ScansInv

LEMMA RestartSound ==
  ASSUME ScansInv, Restart PROVE ScansInv'
<1>1. TypeOK /\ Live \subseteq Ids
  BY DEF ScansInv, Live
<1>2. /\ job' = [n \in Ids |-> Ended] /\ lost' = lost \cup Live
      /\ restarts < MaxRestarts /\ restarts' = restarts + 1
      /\ scan' = scan /\ assets' = assets /\ suppressed' = suppressed /\ notices' = notices
      /\ told' = told /\ tickets' = tickets
      /\ prev' = prev /\ finder' = finder /\ early' = early /\ spoilt' = spoilt
      /\ unheard' = unheard
  BY DEF Restart, db
<1>3. Ids' = Ids /\ \A k \in Ids : job'[k].pc = "ended"
  BY <1>2, EndedShape DEF Ids
<1>4. TypeOK'
  BY <1>1, <1>2, <1>3, EndedShape DEF TypeOK
<1>5. Grows
  <2>1. \A m \in Ids : m \in Completed => m \in Completed'
    BY <1>2, <1>3 DEF Completed
  <2>2. Len(scan) \in Nat
    BY <1>1, LenProperties DEF TypeOK
  <2> QED BY <1>2, <1>3, <2>1, <2>2 DEF Grows
<1>6. ASSUME NEW k \in Ids PROVE ScanSound(k)'
  <2>1. ScanSound(k) /\ (k \notin lost' => job[k].pc = "ended")
    BY <1>2 DEF ScansInv, Live
  <2>2. StatusSound(k)'
    BY <1>2, <1>3, <2>1 DEF ScanSound, StatusSound, Working, Telling
  <2>3. KindSound(k)'
    BY <1>2, <1>3, <2>1 DEF ScanSound, KindSound
  <2>4. LoopSound(k)'
    BY <1>3 DEF LoopSound
  <2>5. PrevSound(k)'
    BY <1>2, <1>3, <1>5, PrevStays DEF Compared
  <2>6. NewSince(k)' = NewSince(k)
    BY <1>2 DEF NewSince
  <2>7. TicketSound(k)'
    BY <1>2, <1>3, <2>1, <2>6 DEF ScanSound, TicketSound
  <2>8. ToldSound(k)'
    BY <1>2, <1>3, <2>1, <2>6 DEF ScanSound, ToldSound
  <2>9. FilterSound(k)'
    BY <1>3 DEF FilterSound, Live
  <2> QED BY <2>2, <2>3, <2>4, <2>5, <2>7, <2>8, <2>9 DEF ScanSound
<1>7. ASSUME NEW d \in Devices PROVE DeviceSound(d)'
  <2>1. DeviceSound(d)
    BY DEF ScansInv
  <2> QED BY <1>2, <1>3, <2>1 DEF DeviceSound, Live
<1> QED BY <1>3, <1>4, <1>6, <1>7 DEF ScansInv

\* add_suppression and remove_suppression.
LEMMA SuppressionSound ==
  ASSUME ScansInv, NEW f \in Findings, add_suppression(f) \/ remove_suppression(f)
  PROVE  ScansInv'
<1>1. TypeOK /\ Len(scan) \in Nat
  BY LenProperties DEF ScansInv, TypeOK
<1>2. /\ UNCHANGED <<scan, assets, notices, told, tickets, restarts, history>>
      /\ suppressed' \subseteq Findings
  BY <1>1 DEF add_suppression, remove_suppression, TypeOK
<1>3. Ids' = Ids
  BY <1>2 DEF Ids
<1>4. job' \in [Ids -> Job]
      /\ \A k \in Ids :
           /\ job'[k].pc = job[k].pc /\ job'[k].devices = job[k].devices
           /\ job'[k].fresh = job[k].fresh /\ job'[k].unknown = job[k].unknown
           /\ job'[k].todo = job[k].todo /\ job'[k].kept = job[k].kept
           /\ job[k].could \subseteq job'[k].could
           /\ k \in Live => Findings \ suppressed' \subseteq job'[k].could
  <2>1. \A k \in Ids : FilterSound(k) /\ job[k] \in Job
    BY RowShape DEF ScansInv, ScanSound
  <2>2. CASE add_suppression(f)
    BY <1>1, <2>1, <2>2 DEF add_suppression, FilterSound, TypeOK
  <2>3. CASE remove_suppression(f)
    <3>1. /\ suppressed' = suppressed \ {f}
          /\ job' = [n \in Ids |-> IF n \in Live THEN [job[n] EXCEPT !.could = @ \cup {f}] ELSE job[n]]
      BY <2>3 DEF remove_suppression
    <3>2. ASSUME NEW k \in Ids
          PROVE  /\ job'[k] \in Job
                 /\ job'[k].pc = job[k].pc /\ job'[k].devices = job[k].devices
                 /\ job'[k].fresh = job[k].fresh /\ job'[k].unknown = job[k].unknown
                 /\ job'[k].todo = job[k].todo /\ job'[k].kept = job[k].kept
                 /\ job[k].could \subseteq job'[k].could
                 /\ k \in Live => Findings \ suppressed' \subseteq job'[k].could
      <4>1. CASE k \in Live
        <5>1. job'[k] = [job[k] EXCEPT !.could = @ \cup {f}] /\ job[k] \in Job
          BY <2>1, <3>1, <4>1
        <5>2. Findings \ suppressed \subseteq job[k].could
          BY <2>1, <4>1 DEF FilterSound
        <5> QED BY <3>1, <5>1, <5>2 DEF Job
      <4>2. CASE k \notin Live
        BY <2>1, <3>1, <4>2
      <4> QED BY <4>1, <4>2
    <3>3. job' \in [Ids -> Job]
      BY <3>1, <3>2
    <3> QED BY <3>2, <3>3
  <2> QED BY <2>2, <2>3
<1>5. TypeOK'
  BY <1>1, <1>2, <1>3, <1>4 DEF TypeOK, history
<1>6. Grows
  <2>1. \A m \in Ids : m \in Completed => m \in Completed'
    BY <1>2, <1>3 DEF Completed, history
  <2>2. \A m \in Ids : m \notin Live => job'[m].pc = "ended"
    BY <1>4 DEF Live
  <2> QED BY <1>1, <1>2, <2>1, <2>2 DEF Grows, history
<1>7. ASSUME NEW k \in Ids PROVE ScanSound(k)'
  <2>1. Rests(k)
    BY <1>2, <1>4 DEF Rests, history
  <2> QED BY <1>6, <2>1, RestsSound
<1>8. ASSUME NEW d \in Devices PROVE DeviceSound(d)'
  <2>1. DeviceSound(d)
    BY DEF ScansInv
  <2> QED BY <1>2, <1>3, <1>4, <2>1 DEF DeviceSound, Live, history
<1> QED BY <1>3, <1>5, <1>7, <1>8 DEF ScansInv

LEMMA InitScans ==
  Init => ScansInv
<1> SUFFICES ASSUME Init PROVE ScansInv
  OBVIOUS
<1>1. scan \in Seq(Row) /\ Len(scan) <= MaxScans /\ \A n \in Ids : scan[n].kind = "before"
  BY DEF Init, Ids
<1>2. /\ \A n \in Ids : job[n].pc = "ended" /\ prev[n] = 0
      /\ tickets = {} /\ assets = {} /\ spoilt = {}
  BY EndedShape DEF Init
<1>3. TypeOK
  BY <1>1, EndedShape DEF Init, TypeOK
<1>4. ASSUME NEW n \in Ids PROVE ScanSound(n)
  BY <1>1, <1>2 DEF ScanSound, StatusSound, KindSound, LoopSound, PrevSound, TicketSound,
                    ToldSound, FilterSound, Working, Telling, Live
<1>5. ASSUME NEW d \in Devices PROVE DeviceSound(d)
  BY <1>2 DEF DeviceSound
<1> QED BY <1>3, <1>4, <1>5 DEF ScansInv

\* Every step of the tasks and of the users.
LEMMA NextScans ==
  ScansInv /\ [Next]_vars => ScansInv'
<1> SUFFICES ASSUME ScansInv, [Next]_vars PROVE ScansInv'
  OBVIOUS
<1>1. ASSUME NEW kind \in Kinds, NEW type \in Types(kind), Start(kind, type) PROVE ScansInv'
  BY <1>1, StartSound
<1>2. ASSUME NEW n \in 1 .. MaxScans, Steps(n) PROVE ScansInv'
  BY <1>2, ScanReturnsSound, DeviceReadSound, DeviceWriteSound, AnnounceSound, FilterStepSound,
     CompleteSound, AlertSound, CompareSound, AlertNewSound, TicketStepSound, DropsSound,
     LastStepSound, FailSound DEF Steps
<1>3. ASSUME NEW n \in 1 .. MaxScans, ScanRefuses(n) \/ Raises(n) \/ FailRaises(n) PROVE ScansInv'
  BY <1>3, ScanRefusesSound, RaisesSound
<1>4. ASSUME NEW f \in Findings, add_suppression(f) \/ remove_suppression(f) PROVE ScansInv'
  BY <1>4, SuppressionSound
<1>5. CASE Restart
  BY <1>5, RestartSound
<1>6. CASE UNCHANGED vars
  <2>1. /\ UNCHANGED <<scan, assets, suppressed, notices, told, tickets, job, restarts>>
        /\ UNCHANGED <<prev, finder, early, unheard, lost, spoilt>>
    BY <1>6 DEF vars, db, history
  <2>2. TypeOK' /\ Ids' = Ids
    BY <2>1 DEF ScansInv, TypeOK, Ids
  <2>3. ASSUME NEW n \in Ids PROVE ScanSound(n)'
    <3>1. ScanSound(n)
      BY DEF ScansInv
    <3> QED BY <2>1, <2>2, <3>1
          DEF ScanSound, StatusSound, KindSound, LoopSound, PrevSound, TicketSound, ToldSound,
              FilterSound, NewSince, Live, Completed, Ids
  <2>4. ASSUME NEW d \in Devices PROVE DeviceSound(d)'
    BY <2>1, <2>2 DEF ScansInv, DeviceSound, NewSince, Live, Completed, Ids
  <2> QED BY <2>2, <2>3, <2>4 DEF ScansInv
<1> QED BY <1>1, <1>2, <1>3, <1>4, <1>5, <1>6 DEF Next

-----------------------------------------------------------------------------
(* The invariant implies the properties *)

LEMMA TicketOnceHolds ==
  ScansInv => TicketOnce
<1> SUFFICES ASSUME ScansInv, NEW n \in Audits, NEW m \in Audits, NEW f \in Findings,
                    m < n, <<f, m>> \in tickets, <<f, n>> \in tickets
             PROVE  \/ \E k \in m + 1 .. n - 1 :
                         scan[k].type = "audit" /\ k \in Completed /\ f \notin scan[k].found
                    \/ scan[m].status = "failed"
                    \/ n \in early
  BY DEF TicketOnce
<1>1. n \in Ids /\ m \in Ids /\ n \in Nat /\ m \in Nat /\ ScanSound(n) /\ ScanSound(m)
  BY RowShape DEF Audits, ScansInv
<1>2. PICK p : p = prev[n]
  OBVIOUS
<1>3. /\ p # 0 /\ f \notin scan[p].found
      /\ scan[m].status # "running" /\ f \in scan[m].found
      /\ scan[n].kind = "audit" /\ scan[m].kind = "audit"
  BY <1>1, <1>2 DEF ScanSound, TicketSound, NewSince
<1>4. scan[n].type = "audit" /\ scan[m].type = "audit"
  BY <1>1, <1>3 DEF ScanSound, KindSound
<1>5. /\ p \in 1 .. n - 1 /\ scan[p].type = "audit" /\ p \in Completed
      /\ n \notin early =>
           \A k \in p + 1 .. n - 1 : scan[k].type = "audit" => scan[k].status # "completed"
  BY <1>1, <1>2, <1>3, <1>4 DEF ScanSound, PrevSound
<1>6. CASE p > m
  BY <1>1, <1>3, <1>5, <1>6
<1>7. CASE p = m
  BY <1>3, <1>7
<1>8. CASE p < m
  <2>1. m \in p + 1 .. n - 1
    BY <1>1, <1>5, <1>8
  <2>2. scan[m].status \in {"running", "completed", "failed"}
    BY <1>1, RowShape DEF ScansInv, Row
  <2> QED BY <1>3, <1>4, <1>5, <2>1, <2>2
<1> QED BY <1>1, <1>5, <1>6, <1>7, <1>8

\* The scan where a finding of scan n was new, or one that did not have to tell.
Source(n, f) ==
  \E m \in 1 .. n :
    /\ scan[m].type = "audit" /\ f \in scan[m].found
    /\ \/ <<f, m>> \in tickets \/ prev[m] = 0 \/ scan[m].kind # "audit"
       \/ m \in Live \cup lost \cup spoilt

\* One comparison takes a finding either to its ticket or one scan back.
LEMMA OneBack ==
  ASSUME ScansInv, NEW n \in Audits \cap Settled, NEW f \in scan[n].found
  PROVE  \/ Source(n, f)
         \/ \E p \in Audits \cap Settled :
              p < n /\ f \in scan[p].found /\ (Source(p, f) => Source(n, f))
<1>1. n \in Ids /\ n \in Nat /\ n # 0 /\ ScanSound(n) /\ n \notin Live /\ n \notin lost
  BY RowShape DEF Audits, Settled, ScansInv
<1>2. scan[n].kind = "audit" /\ scan[n].status = "completed" /\ scan[n].type = "audit"
  BY <1>1 DEF Audits, Settled, ScanSound, KindSound
<1>3. PICK p : p = prev[n]
  OBVIOUS
<1> DEFINE Out(m) == \/ <<f, m>> \in tickets \/ prev[m] = 0 \/ scan[m].kind # "audit"
                     \/ m \in Live \cup lost \cup spoilt
<1>4. ASSUME NEW m \in 1 .. n, scan[m].type = "audit", f \in scan[m].found, Out(m)
      PROVE  Source(n, f)
  BY <1>4 DEF Source
<1>5. n \in 1 .. n
  BY <1>1
<1>6. CASE p = 0
  <2>1. Out(n)
    BY <1>3, <1>6
  <2> HIDE DEF Out
  <2> QED BY <1>2, <1>4, <1>5, <2>1
<1>7. CASE p # 0 /\ f \notin scan[p].found
  <2>1. f \in NewSince(n)
    BY <1>3, <1>7 DEF NewSince
  <2>2. job[n].pc = "ended"
    BY <1>1 DEF Live
  <2>3. <<f, n>> \in tickets
    BY <1>1, <1>2, <1>3, <1>7, <2>1, <2>2 DEF ScanSound, TicketSound
  <2>4. Out(n)
    BY <2>3
  <2> HIDE DEF Out
  <2> QED BY <1>2, <1>4, <1>5, <2>4
<1>8. CASE p # 0 /\ f \in scan[p].found
  <2>1. p \in 1 .. n - 1 /\ scan[p].type = "audit" /\ p \in Completed
    BY <1>1, <1>2, <1>3, <1>8 DEF ScanSound, PrevSound
  <2>2. p \in Ids /\ p \in Nat /\ p < n /\ Len(scan) \in Nat
    BY <1>1, <2>1, RowShape DEF Ids, ScansInv
  <2>3. CASE scan[p].kind # "audit" \/ p \in Live \cup lost \cup spoilt
    BY <1>1, <1>8, <2>1, <2>3 DEF Source
  <2>4. CASE scan[p].kind = "audit" /\ p \notin Live \cup lost \cup spoilt
    <3>1. p \in Audits \cap Settled
      BY <2>1, <2>2, <2>4 DEF Audits, Settled, Completed
    <3>2. 1 .. p \subseteq 1 .. n
      BY <1>1, <2>2
    <3>3. Source(p, f) => Source(n, f)
      BY <3>2 DEF Source
    <3> QED BY <1>8, <2>2, <3>1, <3>3
  <2> QED BY <2>3, <2>4
<1> QED BY <1>6, <1>7, <1>8

LEMMA NewTicketedHolds ==
  ScansInv => NewTicketed
<1> SUFFICES ASSUME ScansInv, NEW f PROVE
      \A n \in Audits \cap Settled : f \in scan[n].found => Source(n, f)
  BY DEF NewTicketed, Source
<1> DEFINE S == {n \in Audits \cap Settled : f \in scan[n].found /\ ~Source(n, f)}
<1> SUFFICES ASSUME S # {} PROVE FALSE
  OBVIOUS
<1>1. S \subseteq Nat
  BY RowShape DEF Audits, ScansInv
<1>2. PICK n \in S : \A p \in S : ~(<<p, n>> \in OpToRel(<, Nat))
  BY <1>1, NatLessThanWellFounded, WFMin
<1>3. \A p \in S : ~(p < n)
  BY <1>1, <1>2 DEF OpToRel
<1>4. \E p \in Audits \cap Settled :
        p < n /\ f \in scan[p].found /\ (Source(p, f) => Source(n, f))
  BY <1>2, OneBack
<1> QED BY <1>2, <1>3, <1>4

LEMMA ToldHolds ==
  ScansInv => CompletedTold
<1> SUFFICES ASSUME ScansInv, NEW n \in Settled
             PROVE  /\ scan[n].kind = "audit" /\ scan[n].found \cap Critical # {}
                         => <<n, "alert">> \in notices
                    /\ scan[n].kind = "malware" /\ scan[n].found # {} => <<n, "alert">> \in notices
                    /\ scan[n].kind = "audit" /\ prev[n] # 0
                         /\ (scan[n].found \ scan[prev[n]].found) \cap Critical # {}
                         => <<n, "new">> \in notices
  BY DEF CompletedTold
<1>1. /\ n \in Ids /\ job[n].pc = "ended" /\ n \notin lost /\ scan[n].status = "completed"
      /\ ToldSound(n)
  BY DEF Settled, Live, ScansInv, ScanSound
<1> QED BY <1>1 DEF ToldSound, NewSince

LEMMA DevicesToldHolds ==
  ScansInv => DevicesTold
<1> SUFFICES ASSUME ScansInv, NEW d \in assets
             PROVE  \/ d \in told \/ finder[d] \in Live \cup lost
                    \/ finder[d] \in Ids /\ scan[finder[d]].status = "failed"
                    \/ finder[d] \in unheard /\ scan[finder[d]].kind = "user"
  BY DEF DevicesTold
<1>1. d \in Devices /\ DeviceSound(d)
  BY DEF ScansInv, TypeOK
<1> QED BY <1>1 DEF DeviceSound, Live

LEMMA DroppedHolds ==
  ScansInv => SuppressedDropped
BY DEF ScansInv, ScanSound, FilterSound, SuppressedDropped, Live

-----------------------------------------------------------------------------
(* The theorems *)

\* ScansInv holds in every reachable state.
THEOREM ScansInvariant ==
  Spec => []ScansInv
<1>1. Init => ScansInv
  BY InitScans
<1>2. ScansInv /\ [Next]_vars => ScansInv'
  BY NextScans
<1> QED BY <1>1, <1>2, PTL DEF Spec

\* Rows, tasks and what is told have the types of TypeOK.
THEOREM ScansType ==
  Spec => []TypeOK
<1>1. ScansInv => TypeOK
  BY DEF ScansInv
<1> QED BY <1>1, ScansInvariant, PTL

\* Every new finding of an audit gets a ticket and one only, however audits and
\* failures interleave: but for the audits that were compared before an earlier one had
\* ended, that were cut short, or that failed after they had made tickets.
THEOREM TicketsAreExact ==
  Spec => []TicketsExact
<1>1. ScansInv => TicketsExact
  BY TicketOnceHolds, NewTicketedHolds DEF TicketsExact
<1> QED BY <1>1, ScansInvariant, PTL

\* What a completed scan found was told; a new device is announced, or its scan fails or
\* is a user's that nobody listened to; and nothing is stored that was suppressed all along.
THEOREM ResultsAreSound ==
  Spec => []ResultsSound
<1>1. ScansInv => ResultsSound
  BY ToldHolds, DevicesToldHolds, DroppedHolds DEF ResultsSound, ScansInv
<1> QED BY <1>1, ScansInvariant, PTL

=============================================================================
