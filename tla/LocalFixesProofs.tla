-------------------------- MODULE LocalFixesProofs --------------------------
(***************************************************************************)
(* What LocalFixes promises until some copy is written back over a newer   *)
(* one, proved for any number of requests, options and fixes.              *)
(*                                                                         *)
(* The copies that are still to be written back form a stack: each of them *)
(* has in it what the older ones need, and the file has what they all      *)
(* need.  Ordered says so, of the entries that are not rolled back and of  *)
(* the fixes under way alike.                                              *)
(***************************************************************************)
EXTENDS LocalFixes, FiniteSetTheorems, SequenceTheorems, WellFoundedInduction, TLAPS

\* No two copies have the same number, whether in the journal or on their way
\* to it, and a request that will mark an entry has written its copy back.
Numbered ==
  /\ \A i \in 1 .. Len(journal) : journal[i].copy.nr <= copies
  /\ \A i, k \in 1 .. Len(journal) :
       journal[i].copy.nr = journal[k].copy.nr => i = k
  /\ \A r \in Requests : Fixing(r) =>
       /\ req[r].copy.nr <= copies
       /\ \A i \in 1 .. Len(journal) : journal[i].copy.nr # req[r].copy.nr
       /\ \A x \in Requests : Fixing(x) /\ req[x].copy.nr = req[r].copy.nr => x = r
  /\ \A r \in Requests : req[r].pc = "mark" =>
       req[r].id <= Len(journal) /\ journal[req[r].id].restored

Base == TypeOK /\ Numbered

\* The copies that can still be written back.
FromJournal == {[copy |-> journal[i].copy, restored |-> journal[i].restored] : i \in Active}
FromFixes   == {[copy |-> req[r].copy, restored |-> FALSE] :
                  r \in {x \in Requests : Fixing(x)}}
Due == FromJournal \cup FromFixes

\* What a later copy, and the file, must have for the sake of this one.
Keeps(d) == d.copy.before \cup (IF d.restored THEN {} ELSE {d.copy.option})

Ordered ==
  /\ \A d \in Due : d.copy.option \notin d.copy.before /\ Keeps(d) \subseteq file
  /\ \A d, e \in Due : d.copy.nr < e.copy.nr => Keeps(d) \subseteq e.copy.before
  /\ \A o \in file : \E d \in Due : ~d.restored /\ d.copy.option = o

LocalFixesInv == Base /\ (~disorder => Ordered)

-----------------------------------------------------------------------------

USE LocalFixesAssumption

\* A set of positions in a journal has a last one.
LEMMA LastExists ==
  ASSUME NEW n \in Nat, NEW S \in SUBSET (1 .. n), S # {}
  PROVE  \E i \in S : \A k \in S : i >= k
<1> DEFINE T == {n - i : i \in S}
<1>1. \A i \in S : n - i \in Nat
  OBVIOUS
<1>2. T \subseteq Nat /\ T # {}
  BY <1>1
<1>3. PICK m \in T : \A y \in T : ~(<<y, m>> \in OpToRel(<, Nat))
  BY <1>2, NatLessThanWellFounded, WFMin
<1>4. \A y \in T : ~(y < m)
  BY <1>2, <1>3 DEF OpToRel
<1>5. PICK i \in S : m = n - i
  BY <1>2
<1>6. \A k \in S : ~(n - k < n - i)
  BY <1>4, <1>5
<1> QED BY <1>6

\* The entry that a rollback of an option is about.
LEMMA LatestFacts ==
  ASSUME TypeOK, NEW o, Candidates(o) # {}
  PROVE  /\ latest_active(o) \in Active
         /\ latest_active(o) \in 1 .. Len(journal)
         /\ journal[latest_active(o)].copy.option = o
<1>1. Len(journal) \in Nat
  BY LenProperties DEF TypeOK
<1>2. Candidates(o) \in SUBSET (1 .. Len(journal))
  BY DEF Candidates, Active
<1>3. \E i \in Candidates(o) : \A k \in Candidates(o) : i >= k
  BY <1>1, <1>2, LastExists
<1>4. latest_active(o) \in Candidates(o)
  BY <1>3 DEF latest_active
<1> QED BY <1>2, <1>4 DEF Candidates

LEMMA EntryShape ==
  ASSUME TypeOK, NEW i \in 1 .. Len(journal)
  PROVE  /\ journal[i] \in Entry /\ journal[i].copy \in Copy
         /\ journal[i].restored \in BOOLEAN /\ journal[i].rolledBack \in BOOLEAN
<1>1. journal[i] \in Entry
  BY ElementOfSeq DEF TypeOK
<1> QED BY <1>1 DEF Entry

\* There are n numbers up to n.
LEMMA IntervalSize ==
  ASSUME NEW n \in Nat PROVE IsFiniteSet(1 .. n) /\ Cardinality(1 .. n) = n
<1>1. 1 \in Int /\ n \in Int /\ n >= 0
  OBVIOUS
<1>2. /\ IsFiniteSet(1 .. n)
      /\ Cardinality(1 .. n) = IF 1 > n THEN 0 ELSE n - 1 + 1
  BY <1>1, FS_Interval
<1>3. (IF 1 > n THEN 0 ELSE n - 1 + 1) = n
  BY <1>1
<1> QED BY <1>2, <1>3

\* Entries have different numbers, so there are no more of them than copies.
LEMMA JournalBounded ==
  ASSUME Base PROVE Len(journal) <= copies
<1> DEFINE f == [i \in 1 .. Len(journal) |-> journal[i].copy.nr]
<1>1. Len(journal) \in Nat /\ copies \in Nat
  BY LenProperties DEF Base, TypeOK
<1>2. \A i \in 1 .. Len(journal) : f[i] \in 1 .. copies
  <2> SUFFICES ASSUME NEW i \in 1 .. Len(journal) PROVE f[i] \in 1 .. copies
    OBVIOUS
  <2>1. journal[i].copy.nr \in 1 .. MaxEntries
    BY EntryShape DEF Base, Copy
  <2>2. journal[i].copy.nr <= copies
    BY DEF Base, Numbered
  <2> QED BY <1>1, <2>1, <2>2
<1>3. f \in Injection(1 .. Len(journal), 1 .. copies)
  BY <1>2 DEF Injection, IsInjective, Base, Numbered
<1>4. Cardinality(1 .. Len(journal)) <= Cardinality(1 .. copies)
  <2>1. IsFiniteSet(1 .. Len(journal)) /\ IsFiniteSet(1 .. copies)
    BY <1>1, IntervalSize
  <2> QED BY <1>3, <2>1, FS_Injection
<1>5. Cardinality(1 .. Len(journal)) = Len(journal)
  BY <1>1, IntervalSize
<1>6. Cardinality(1 .. copies) = copies
  BY <1>1, IntervalSize
<1> QED BY <1>4, <1>5, <1>6

LEMMA GotoFacts ==
  ASSUME TypeOK, NEW r \in Requests, NEW q \in Request, Goto(r, q)
  PROVE  /\ req' \in [Requests -> Request]
         /\ req'[r] = q
         /\ \A x \in Requests \ {r} : req'[x] = req[x]
BY DEF Goto, TypeOK

LEMMA IdleType == Idle \in Request /\ Idle.pc = "idle"
BY DEF Idle, Request

\* The shapes of a request.
LEMMA RequestShape ==
  ASSUME TypeOK, NEW r \in Requests
  PROVE  /\ Fixing(r) => req[r].copy \in Copy
         /\ req[r].pc = "mark" => req[r].id \in 1 .. MaxEntries
         /\ req[r].pc = "idle" => ~Fixing(r)
         /\ req[r].pc \in {"idle", "test", "reload", "mark"}
<1>1. req[r] \in Request
  BY DEF TypeOK
<1>2. \/ req[r] \in [pc: {"idle"}]
      \/ req[r] \in [pc: {"test", "reload"}, copy: Copy]
      \/ req[r] \in [pc: {"mark"}, id: 1 .. MaxEntries]
  BY <1>1 DEF Request
<1> QED BY <1>2 DEF Fixing

-----------------------------------------------------------------------------

\* One entry of the journal is written again.
LEMMA JournalSet ==
  ASSUME TypeOK, NEW i \in 1 .. Len(journal), NEW e \in Entry,
         journal' = [journal EXCEPT ![i] = e]
  PROVE  /\ journal' \in Seq(Entry) /\ Len(journal') = Len(journal)
         /\ journal'[i] = e
         /\ \A k \in 1 .. Len(journal) : k # i => journal'[k] = journal[k]
BY ExceptSeq DEF TypeOK

\* Or one added.
LEMMA JournalAppend ==
  ASSUME TypeOK, NEW e \in Entry, journal' = Append(journal, e)
  PROVE  /\ journal' \in Seq(Entry) /\ Len(journal') = Len(journal) + 1
         /\ journal'[Len(journal) + 1] = e
         /\ \A k \in 1 .. Len(journal) : journal'[k] = journal[k]
         /\ Len(journal) \in Nat
BY AppendProperties, LenProperties DEF TypeOK

\* A request that turns idle takes nothing along.
LEMMA FinishBase ==
  ASSUME Base, NEW r \in Requests, Finish(r),
         UNCHANGED <<copies, journal>>, file' \subseteq Options, disorder' \in BOOLEAN
  PROVE  Base'
<1>1. /\ req' \in [Requests -> Request] /\ req'[r].pc = "idle"
      /\ \A x \in Requests \ {r} : req'[x] = req[x]
  BY IdleType, GotoFacts DEF Base, Finish
<1>2. Numbered'
  BY <1>1 DEF Base, Numbered, Fixing
<1> QED BY <1>1, <1>2 DEF Base, TypeOK

LEMMA FixWriteBase ==
  ASSUME Base, NEW r \in Requests, NEW o \in Options, FixWrite(r, o)
  PROVE  Base'
<1> DEFINE c == [option |-> o, before |-> file, nr |-> copies + 1]
           q == [pc |-> "test", copy |-> c]
<1>1. /\ Goto(r, q) /\ copies < MaxEntries /\ copies' = copies + 1
      /\ file' = file \cup {o} /\ UNCHANGED <<journal, disorder>>
  BY DEF FixWrite
<1>2. copies \in Nat /\ copies' \in 0 .. MaxEntries /\ copies + 1 \in 1 .. MaxEntries
  BY <1>1 DEF Base, TypeOK
<1>3. c \in Copy
  BY <1>2 DEF Copy, Base, TypeOK
<1>4. q \in Request /\ q.pc = "test" /\ q.copy.nr = copies + 1
  BY <1>3 DEF Request
<1>5. /\ req' \in [Requests -> Request] /\ req'[r] = q
      /\ \A x \in Requests \ {r} : req'[x] = req[x]
  BY <1>1, <1>4, GotoFacts DEF Base
<1>6. \A i \in 1 .. Len(journal) : journal[i].copy.nr \in Nat
  BY EntryShape DEF Base, Copy
<1>7. \A x \in Requests : Fixing(x) => req[x].copy.nr \in Nat
  BY RequestShape DEF Base, Copy
<1>8. Numbered'
  BY <1>1, <1>2, <1>4, <1>5, <1>6, <1>7 DEF Base, Numbered, Fixing
<1> QED BY <1>1, <1>2, <1>5, <1>8 DEF Base, TypeOK

LEMMA FixAcceptedBase ==
  ASSUME Base, NEW r \in Requests, FixAccepted(r)
  PROVE  Base'
<1> DEFINE q == [req[r] EXCEPT !.pc = "reload"]
<1>1. Goto(r, q) /\ req[r].pc = "test" /\ UNCHANGED <<file, copies, journal, disorder>>
  BY DEF FixAccepted
<1>2. req[r] \in [pc: {"test", "reload"}, copy: Copy]
  <2>1. req[r] \in Request
    BY DEF Base, TypeOK
  <2> QED BY <1>1, <2>1 DEF Request
<1>3. q \in Request /\ q.pc = "reload" /\ q.copy = req[r].copy
  <2>1. /\ q \in [pc: {"test", "reload"}, copy: Copy]
        /\ q.pc = "reload" /\ q.copy = req[r].copy
    BY <1>2
  <2>2. [pc: {"test", "reload"}, copy: Copy] \subseteq Request
    BY Zenon DEF Request
  <2> QED BY <2>1, <2>2
<1>4. /\ req' \in [Requests -> Request] /\ req'[r] = q
      /\ \A x \in Requests \ {r} : req'[x] = req[x]
  BY <1>1, <1>3, GotoFacts DEF Base
<1>5. \A x \in Requests :
        /\ Fixing(x)' => Fixing(x) /\ req'[x].copy = req[x].copy
        /\ req'[x].pc = "mark" => req'[x] = req[x]
  BY <1>1, <1>3, <1>4 DEF Fixing
<1>6. Numbered'
  BY <1>1, <1>5 DEF Base, Numbered
<1> QED BY <1>1, <1>4, <1>6 DEF Base, TypeOK

LEMMA FixRejectedBase ==
  ASSUME Base, NEW r \in Requests, FixRejected(r)
  PROVE  Base'
<1>1. req[r].copy \in Copy /\ UNCHANGED <<copies, journal>> /\ Finish(r)
  BY RequestShape DEF FixRejected, Fixing, Base
<1>2. file' \subseteq Options
  BY <1>1 DEF FixRejected, Copy
<1>3. disorder' \in BOOLEAN
  BY DEF FixRejected, Base, TypeOK
<1> QED BY <1>1, <1>2, <1>3, FinishBase

LEMMA FixJournalFacts ==
  ASSUME Base, NEW r \in Requests, FixJournal(r)
  PROVE  LET e == [copy |-> req[r].copy, rolledBack |-> FALSE, restored |-> FALSE] IN
         /\ req[r].copy \in Copy /\ e \in Entry /\ journal' = Append(journal, e)
BY RequestShape DEF FixJournal, Record, Fixing, Base, Entry

LEMMA FixJournalBase ==
  ASSUME Base, NEW r \in Requests, FixJournal(r)
  PROVE  Base'
<1> DEFINE e == [copy |-> req[r].copy, rolledBack |-> FALSE, restored |-> FALSE]
<1>1. /\ journal' \in Seq(Entry) /\ Len(journal') = Len(journal) + 1
      /\ journal'[Len(journal) + 1] = e
      /\ \A k \in 1 .. Len(journal) : journal'[k] = journal[k]
      /\ Len(journal) \in Nat
  BY FixJournalFacts, JournalAppend DEF Base
<1>2. /\ req' \in [Requests -> Request] /\ req'[r].pc = "idle"
      /\ \A x \in Requests \ {r} : req'[x] = req[x]
  BY IdleType, GotoFacts DEF Base, Finish, FixJournal
<1>3. UNCHANGED <<file, copies, disorder>> /\ Fixing(r)
  BY DEF FixJournal, Fixing
<1>4. e.copy = req[r].copy
  OBVIOUS
<1>5. \A i \in 1 .. Len(journal') :
        i \in 1 .. Len(journal) \/ i = Len(journal) + 1
  BY <1>1
<1>6. /\ \A i \in 1 .. Len(journal') : journal'[i].copy.nr <= copies
      /\ \A i, k \in 1 .. Len(journal') :
           journal'[i].copy.nr = journal'[k].copy.nr => i = k
  BY <1>1, <1>3, <1>4, <1>5 DEF Base, Numbered
<1>7. ASSUME NEW x \in Requests, Fixing(x)'
      PROVE  /\ req'[x].copy.nr <= copies
             /\ \A i \in 1 .. Len(journal') : journal'[i].copy.nr # req'[x].copy.nr
             /\ \A y \in Requests :
                  Fixing(y)' /\ req'[y].copy.nr = req'[x].copy.nr => y = x
  <2>1. x # r /\ req'[x] = req[x] /\ Fixing(x)
    BY <1>2, <1>7 DEF Fixing
  <2>2. \A y \in Requests : Fixing(y)' => y # r /\ req'[y] = req[y] /\ Fixing(y)
    BY <1>2 DEF Fixing
  <2>3. req[x].copy.nr # req[r].copy.nr
    BY <1>3, <2>1 DEF Base, Numbered
  <2> QED BY <1>1, <1>4, <1>5, <2>1, <2>2, <2>3 DEF Base, Numbered
<1>8. \A x \in Requests : req'[x].pc = "mark" =>
        req'[x].id <= Len(journal') /\ journal'[req'[x].id].restored
  <2> SUFFICES ASSUME NEW x \in Requests, req'[x].pc = "mark"
               PROVE  req'[x].id <= Len(journal') /\ journal'[req'[x].id].restored
    OBVIOUS
  <2>1. x # r /\ req'[x] = req[x]
    BY <1>2
  <2>2. req[x].id \in 1 .. Len(journal) /\ journal[req[x].id].restored
    BY <1>1, <2>1, RequestShape DEF Base, Numbered
  <2> QED BY <1>1, <2>1, <2>2
<1>9. Numbered'
  BY <1>3, <1>6, <1>7, <1>8 DEF Numbered
<1> QED BY <1>1, <1>2, <1>3, <1>9 DEF Base, TypeOK

\* A change of what has been done with an entry keeps the numbers.
LEMMA EntryBase ==
  ASSUME Base, NEW r \in Requests, NEW q \in Request, Goto(r, q), q.pc \in {"idle", "mark"},
         NEW i \in 1 .. Len(journal), NEW e \in Entry,
         journal' = [journal EXCEPT ![i] = e],
         e.copy = journal[i].copy, journal[i].restored => e.restored,
         q.pc = "mark" => q.id = i /\ e.restored,
         copies' = copies, file' \subseteq Options, disorder' \in BOOLEAN
  PROVE  Base'
<1>1. /\ journal' \in Seq(Entry) /\ Len(journal') = Len(journal)
      /\ journal'[i] = e
      /\ \A k \in 1 .. Len(journal) : k # i => journal'[k] = journal[k]
  BY JournalSet DEF Base
<1>2. /\ req' \in [Requests -> Request] /\ req'[r] = q
      /\ \A x \in Requests \ {r} : req'[x] = req[x]
  BY GotoFacts DEF Base
<1>3. \A k \in 1 .. Len(journal) :
        /\ journal'[k].copy = journal[k].copy
        /\ journal[k].restored => journal'[k].restored
  BY <1>1
<1>4. \A x \in Requests : Fixing(x)' => req'[x] = req[x] /\ Fixing(x)
  BY <1>2 DEF Fixing
<1>5. /\ \A k \in 1 .. Len(journal) : journal'[k].copy.nr <= copies
      /\ \A k, l \in 1 .. Len(journal) :
           journal'[k].copy.nr = journal'[l].copy.nr => k = l
  BY <1>3 DEF Base, Numbered
<1>6. \A x \in Requests : Fixing(x)' =>
       /\ req'[x].copy.nr <= copies
       /\ \A k \in 1 .. Len(journal) : journal'[k].copy.nr # req'[x].copy.nr
       /\ \A y \in Requests : Fixing(y)' /\ req'[y].copy.nr = req'[x].copy.nr => y = x
  BY <1>3, <1>4 DEF Base, Numbered
<1>7. ASSUME NEW x \in Requests, req'[x].pc = "mark"
      PROVE  req'[x].id <= Len(journal) /\ journal'[req'[x].id].restored
  <2>1. CASE x = r
    <3>1. Len(journal) \in Nat
      BY LenProperties DEF Base, TypeOK
    <3> QED BY <1>1, <1>2, <1>7, <2>1, <3>1
  <2>2. CASE x # r
    <3>1. req'[x] = req[x]
      BY <1>2, <2>2
    <3>2. req[x].id \in 1 .. Len(journal) /\ journal[req[x].id].restored
      <4>1. Len(journal) \in Nat
        BY LenProperties DEF Base, TypeOK
      <4> QED BY <1>7, <3>1, <4>1, RequestShape DEF Base, Numbered
    <3> QED BY <1>3, <3>1, <3>2
  <2> QED BY <2>1, <2>2
<1>8. Numbered'
  BY <1>1, <1>5, <1>6, <1>7 DEF Numbered
<1> QED BY <1>1, <1>2, <1>8 DEF Base, TypeOK

LEMMA RollbackBase ==
  ASSUME Base, NEW r \in Requests, NEW o \in Options, Rollback(r, o)
  PROVE  Base'
<1> DEFINE i == latest_active(o)
           e == [journal[i] EXCEPT !.restored = TRUE]
           q == [pc |-> "mark", id |-> i]
<1>1. /\ Goto(r, q) /\ journal' = [journal EXCEPT ![i] = e]
      /\ file' = journal[i].copy.before /\ copies' = copies
      /\ Candidates(o) # {}
  BY DEF Rollback
<1>2. i \in 1 .. Len(journal)
  BY <1>1, LatestFacts DEF Base
<1>3. journal[i] \in Entry /\ journal[i].copy \in Copy
  BY <1>2, EntryShape DEF Base
<1>4. e \in Entry /\ e.copy = journal[i].copy /\ e.restored
  BY <1>3 DEF Entry
<1>5. q \in Request /\ q.pc = "mark" /\ q.id = i
  <2>1. i \in 1 .. MaxEntries
    BY <1>2, JournalBounded, LenProperties DEF Base, TypeOK
  <2> QED BY <2>1 DEF Request
<1>6. file' \subseteq Options /\ disorder' \in BOOLEAN
  BY <1>1, <1>3 DEF Copy, Rollback, Base, TypeOK
<1> HIDE DEF i, e, q
<1> QED BY <1>1, <1>2, <1>4, <1>5, <1>6, EntryBase

LEMMA MarkFacts ==
  ASSUME Base, NEW r \in Requests, mark_rolled_back(r)
  PROVE  LET i == req[r].id
             e == [journal[i] EXCEPT !.rolledBack = TRUE] IN
         /\ i \in 1 .. Len(journal) /\ journal[i].restored
         /\ e \in Entry /\ e.copy = journal[i].copy /\ e.restored /\ e.rolledBack
         /\ journal' = [journal EXCEPT ![i] = e]
<1> DEFINE i == req[r].id
           e == [journal[i] EXCEPT !.rolledBack = TRUE]
<1>1. req[r].pc = "mark" /\ journal' = [journal EXCEPT ![i] = e]
  BY DEF mark_rolled_back
<1>2. i \in 1 .. Len(journal) /\ journal[i].restored
  BY <1>1, RequestShape, LenProperties DEF Base, Numbered, TypeOK
<1>3. journal[i] \in Entry
  BY <1>2, EntryShape DEF Base
<1>4. e \in Entry /\ e.copy = journal[i].copy /\ e.restored /\ e.rolledBack
  BY <1>2, <1>3 DEF Entry
<1> QED BY <1>1, <1>2, <1>4

LEMMA MarkBase ==
  ASSUME Base, NEW r \in Requests, mark_rolled_back(r)
  PROVE  Base'
<1> DEFINE i == req[r].id
           e == [journal[i] EXCEPT !.rolledBack = TRUE]
<1>1. /\ Goto(r, Idle) /\ UNCHANGED <<file, copies, disorder>>
  BY DEF mark_rolled_back, Finish
<1>2. /\ i \in 1 .. Len(journal) /\ e \in Entry /\ e.copy = journal[i].copy /\ e.restored
      /\ journal' = [journal EXCEPT ![i] = e]
  BY MarkFacts
<1>3. file' \subseteq Options /\ disorder' \in BOOLEAN
  BY <1>1 DEF Base, TypeOK
<1> HIDE DEF i, e
<1> QED BY <1>1, <1>2, <1>3, IdleType, EntryBase

LEMMA NextBase ==
  ASSUME Base, [Next]_vars PROVE Base'
<1>1. CASE UNCHANGED vars
  BY <1>1 DEF vars, Base, TypeOK, Numbered, Fixing
<1>2. ASSUME NEW r \in Requests, RollbackFails(r) PROVE Base'
  BY <1>2, FinishBase DEF RollbackFails, Base, TypeOK
<1>3. ASSUME NEW r \in Requests, Abort(r) PROVE Base'
  <2>1. Finish(r) /\ UNCHANGED <<file, copies, journal>> /\ disorder' \in BOOLEAN
    BY <1>3 DEF Abort, Base, TypeOK
  <2>2. file' \subseteq Options
    BY <2>1 DEF Base, TypeOK
  <2> QED BY <2>1, <2>2, FinishBase
<1> QED BY <1>1, <1>2, <1>3, FixWriteBase, FixAcceptedBase, FixRejectedBase,
           FixJournalBase, RollbackBase, MarkBase DEF Next

-----------------------------------------------------------------------------
(* The copies that are due *)

\* Each is an entry that is not rolled back, or a fix under way.
LEMMA DueCases ==
  ASSUME NEW d
  PROVE  d \in Due <=>
           \/ \E i \in 1 .. Len(journal) :
                ~journal[i].rolledBack
                  /\ d = [copy |-> journal[i].copy, restored |-> journal[i].restored]
           \/ \E r \in Requests : Fixing(r)
                  /\ d = [copy |-> req[r].copy, restored |-> FALSE]
BY DEF Due, FromJournal, FromFixes, Active

LEMMA DueShape ==
  ASSUME Base, NEW d \in Due
  PROVE  /\ d.copy \in Copy /\ d.copy.nr \in Nat /\ d.copy.nr <= copies
         /\ d.restored \in BOOLEAN
         /\ d = [copy |-> d.copy, restored |-> d.restored]
<1>1. ASSUME NEW i \in 1 .. Len(journal),
             d = [copy |-> journal[i].copy, restored |-> journal[i].restored]
      PROVE  /\ d.copy \in Copy /\ d.copy.nr <= copies /\ d.restored \in BOOLEAN
             /\ d = [copy |-> d.copy, restored |-> d.restored]
  BY <1>1, EntryShape DEF Base, Numbered
<1>2. ASSUME NEW r \in Requests, Fixing(r), d = [copy |-> req[r].copy, restored |-> FALSE]
      PROVE  /\ d.copy \in Copy /\ d.copy.nr <= copies /\ d.restored \in BOOLEAN
             /\ d = [copy |-> d.copy, restored |-> d.restored]
  BY <1>2, RequestShape DEF Base, Numbered
<1>3. /\ d.copy \in Copy /\ d.copy.nr <= copies /\ d.restored \in BOOLEAN
      /\ d = [copy |-> d.copy, restored |-> d.restored]
  BY <1>1, <1>2, DueCases
<1> QED BY <1>3 DEF Copy

\* Their numbers tell them apart.
LEMMA DueUnique ==
  ASSUME Base, NEW d \in Due, NEW e \in Due, d.copy.nr = e.copy.nr
  PROVE  d = e
<1>1. ASSUME NEW i \in 1 .. Len(journal), NEW r \in Requests, Fixing(r)
      PROVE  journal[i].copy.nr # req[r].copy.nr
  BY <1>1 DEF Base, Numbered
<1>2. ASSUME NEW i \in 1 .. Len(journal), NEW k \in 1 .. Len(journal),
             journal[i].copy.nr = journal[k].copy.nr
      PROVE  i = k
  BY <1>2 DEF Base, Numbered
<1>3. ASSUME NEW r \in Requests, NEW x \in Requests, Fixing(r), Fixing(x),
             req[r].copy.nr = req[x].copy.nr
      PROVE  r = x
  BY <1>3 DEF Base, Numbered
<1> DEFINE entry(x, i) == x = [copy |-> journal[i].copy, restored |-> journal[i].restored]
           fix(x, r) == Fixing(r) /\ x = [copy |-> req[r].copy, restored |-> FALSE]
<1>4. \A x \in Due : \/ \E i \in 1 .. Len(journal) : entry(x, i)
                     \/ \E r \in Requests : fix(x, r)
  BY DueCases
<1>5. ASSUME NEW i \in 1 .. Len(journal), entry(d, i) PROVE d = e
  <2>1. d.copy = journal[i].copy
    BY <1>5
  <2>2. ASSUME NEW k \in 1 .. Len(journal), entry(e, k) PROVE d = e
    <3>1. i = k
      BY <1>2, <2>1, <2>2
    <3> QED BY <1>5, <2>2, <3>1
  <2>3. ASSUME NEW r \in Requests, fix(e, r) PROVE FALSE
    BY <1>1, <2>1, <2>3
  <2> QED BY <1>4, <2>2, <2>3
<1>6. ASSUME NEW r \in Requests, fix(d, r) PROVE d = e
  <2>1. d.copy = req[r].copy
    BY <1>6
  <2>2. ASSUME NEW k \in 1 .. Len(journal), entry(e, k) PROVE FALSE
    BY <1>1, <1>6, <2>1, <2>2
  <2>3. ASSUME NEW x \in Requests, fix(e, x) PROVE d = e
    <3>1. r = x
      BY <1>3, <1>6, <2>1, <2>3
    <3> QED BY <1>6, <2>3, <3>1
  <2> QED BY <1>4, <2>2, <2>3
<1> QED BY <1>4, <1>5, <1>6

\* When no newer copy is due, all the others are older.
LEMMA NewestOfDue ==
  ASSUME Base, NEW d \in Due, ~Newer(d.copy), NEW e \in Due, e # d
  PROVE  e.copy.nr < d.copy.nr
<1>1. ~(e.copy.nr > d.copy.nr)
  BY DueCases DEF Newer, Active
<1>2. e.copy.nr # d.copy.nr
  BY DueUnique
<1> QED BY <1>1, <1>2, DueShape

\* Fewer entries, none of them needed, and the same file.
LEMMA OrderedFewer ==
  ASSUME Base, Ordered, file' = file, Due' \subseteq Due,
         \A d \in Due : ~d.restored => d \in Due'
  PROVE  Ordered'
<1>1. \A o \in file' : \E d \in Due' : ~d.restored /\ d.copy.option = o
  BY DEF Ordered
<1>2. /\ \A d \in Due' : d.copy.option \notin d.copy.before /\ Keeps(d) \subseteq file'
      /\ \A d, e \in Due' : d.copy.nr < e.copy.nr => Keeps(d) \subseteq e.copy.before
  BY DEF Ordered
<1> QED BY <1>1, <1>2 DEF Ordered

\* One option more in the file, with a copy of the file before.
LEMMA OrderedPush ==
  ASSUME Base, Ordered, NEW d, d.copy.before = file, d.copy.nr = copies + 1,
         ~d.restored, d.copy.option \notin file, file' = file \cup {d.copy.option},
         Due' = Due \cup {d}
  PROVE  Ordered'
<1>1. /\ \A e \in Due' : e.copy.option \notin e.copy.before /\ Keeps(e) \subseteq file'
  BY DEF Ordered, Keeps
<1>2. \A e \in Due : ~(d.copy.nr < e.copy.nr) /\ e.copy.nr # d.copy.nr
  BY DueShape DEF Base, TypeOK
<1>3. \A e, f \in Due' : e.copy.nr < f.copy.nr => Keeps(e) \subseteq f.copy.before
  <2> SUFFICES ASSUME NEW e \in Due', NEW f \in Due', e.copy.nr < f.copy.nr
               PROVE  Keeps(e) \subseteq f.copy.before
    OBVIOUS
  <2>1. CASE e \in Due /\ f \in Due
    BY <2>1 DEF Ordered
  <2>2. CASE e \in Due /\ f = d
    BY <2>2 DEF Ordered
  <2>3. CASE e = d
    BY <1>2, <2>3 DEF Base, TypeOK
  <2> QED BY <2>1, <2>2, <2>3
<1>4. \A o \in file' : \E e \in Due' : ~e.restored /\ e.copy.option = o
  BY DEF Ordered
<1> QED BY <1>1, <1>3, <1>4 DEF Ordered

\* The newest copy is written back: it is due no more, or still, as restored.
LEMMA OrderedPop ==
  ASSUME Base, Ordered, NEW d \in Due, ~Newer(d.copy), file' = d.copy.before,
         NEW e, e.copy = d.copy, e.restored,
         Due \ {d} \subseteq Due', Due' \subseteq (Due \ {d}) \cup {e}
  PROVE  Ordered'
<1>1. \A f \in Due \ {d} : f.copy.nr < d.copy.nr /\ Keeps(f) \subseteq file'
  BY NewestOfDue DEF Ordered
<1>2. e.copy.option \notin e.copy.before /\ Keeps(e) = file'
  BY DEF Ordered, Keeps
<1>3. \A f \in Due' : f.copy.option \notin f.copy.before /\ Keeps(f) \subseteq file'
  BY <1>1, <1>2 DEF Ordered
<1>4. \A f, g \in Due' : f.copy.nr < g.copy.nr => Keeps(f) \subseteq g.copy.before
  <2> SUFFICES ASSUME NEW f \in Due', NEW g \in Due', f.copy.nr < g.copy.nr
               PROVE  Keeps(f) \subseteq g.copy.before
    OBVIOUS
  <2>1. CASE f \in Due \ {d} /\ g \in Due \ {d}
    BY <2>1 DEF Ordered
  <2>2. CASE f \in Due \ {d} /\ g = e
    BY <1>1, <2>2
  <2>3. CASE f = e
    <3>1. g \in Due /\ f.copy.nr = d.copy.nr
      BY <2>3, DueShape
    <3>2. g.copy.nr <= d.copy.nr
      BY <1>1, <3>1, DueShape
    <3> QED BY <3>1, <3>2, DueShape
  <2> QED BY <2>1, <2>2, <2>3
<1>5. \A o \in file' : \E f \in Due' : ~f.restored /\ f.copy.option = o
  <2> SUFFICES ASSUME NEW o \in file' PROVE \E f \in Due' : ~f.restored /\ f.copy.option = o
    OBVIOUS
  <2>1. o # d.copy.option /\ o \in file
    BY DEF Ordered, Keeps
  <2> QED BY <2>1 DEF Ordered
<1> QED BY <1>3, <1>4, <1>5 DEF Ordered

-----------------------------------------------------------------------------
(* The steps *)

\* Only req moves: the entries that are due stay the same.
LEMMA FromJournalSame ==
  ASSUME journal' = journal PROVE FromJournal' = FromJournal
BY DEF FromJournal, Active

LEMMA FixWriteOrdered ==
  ASSUME Base, Ordered, NEW r \in Requests, NEW o \in Options, FixWrite(r, o)
  PROVE  Ordered'
<1> DEFINE c == [option |-> o, before |-> file, nr |-> copies + 1]
           q == [pc |-> "test", copy |-> c]
           d == [copy |-> c, restored |-> FALSE]
<1>1. /\ Goto(r, q) /\ req[r].pc = "idle" /\ o \notin file
      /\ file' = file \cup {o} /\ journal' = journal /\ copies + 1 \in 1 .. MaxEntries
  BY DEF FixWrite, Base, TypeOK
<1>2. q \in Request
  <2>1. c \in Copy
    BY <1>1 DEF Copy, Base, TypeOK
  <2> QED BY <2>1 DEF Request
<1>3. /\ req'[r] = q /\ \A x \in Requests \ {r} : req'[x] = req[x]
  BY <1>1, <1>2, GotoFacts DEF Base
<1>4. FromFixes' = FromFixes \cup {d}
  <2>1. Fixing(r)' /\ ~Fixing(r) /\ req'[r].copy = c
    BY <1>1, <1>3 DEF Fixing
  <2>2. \A x \in Requests \ {r} : Fixing(x)' <=> Fixing(x)
    BY <1>3 DEF Fixing
  <2> HIDE DEF c, q
  <2> QED BY <1>3, <2>1, <2>2 DEF FromFixes
<1>5. Due' = Due \cup {d}
  BY <1>1, <1>4, FromJournalSame DEF Due
<1>6. /\ d.copy.before = file /\ d.copy.nr = copies + 1 /\ ~d.restored
      /\ d.copy.option = o
  OBVIOUS
<1> HIDE DEF d
<1> QED BY <1>1, <1>5, <1>6, OrderedPush

\* A request that stays what it is for the others: under way, or not.
LEMMA SameDue ==
  ASSUME Base, NEW r \in Requests, NEW q \in Request, Goto(r, q), journal' = journal,
         Fixing(r) => q.pc \in {"test", "reload"} /\ q.copy = req[r].copy,
         ~Fixing(r) => q.pc \notin {"test", "reload"}
  PROVE  Due' = Due
<1>1. /\ req'[r] = q /\ \A x \in Requests \ {r} : req'[x] = req[x]
  BY GotoFacts DEF Base
<1>2. \A x \in Requests :
        (Fixing(x)' <=> Fixing(x)) /\ (Fixing(x) => req'[x].copy = req[x].copy)
  BY <1>1 DEF Fixing
<1>3. FromFixes' = FromFixes
  BY <1>2 DEF FromFixes
<1> QED BY <1>3, FromJournalSame DEF Due

LEMMA FixAcceptedOrdered ==
  ASSUME Base, Ordered, NEW r \in Requests, FixAccepted(r)
  PROVE  Ordered'
<1> DEFINE q == [req[r] EXCEPT !.pc = "reload"]
<1>1. /\ Goto(r, q) /\ req[r].pc = "test" /\ UNCHANGED <<file, journal>> /\ Fixing(r)
  BY DEF FixAccepted, Fixing
<1>2. req[r].copy \in Copy /\ req[r] \in [pc: {"test", "reload"}, copy: Copy]
  <2>1. req[r] \in Request
    BY DEF Base, TypeOK
  <2>2. req[r] \in [pc: {"test", "reload"}, copy: Copy]
    BY <1>1, <2>1 DEF Request
  <2> QED BY <2>2
<1>3. /\ q \in [pc: {"test", "reload"}, copy: Copy]
      /\ q.pc = "reload" /\ q.copy = req[r].copy
  BY <1>2
<1>4. [pc: {"test", "reload"}, copy: Copy] \subseteq Request
  BY Zenon DEF Request
<1>5. Due' = Due
  <2> HIDE DEF q
  <2> QED BY <1>1, <1>3, <1>4, SameDue
<1> QED BY <1>1, <1>5, OrderedFewer

\* A fix that ends without an entry is due no more.
LEMMA FinishFix ==
  ASSUME Base, NEW r \in Requests, Fixing(r), Finish(r), journal' = journal
  PROVE  LET d == [copy |-> req[r].copy, restored |-> FALSE] IN
         d \in Due /\ Due \ {d} \subseteq Due' /\ Due' \subseteq Due
<1> DEFINE d == [copy |-> req[r].copy, restored |-> FALSE]
<1>1. /\ req'[r].pc = "idle" /\ \A x \in Requests \ {r} : req'[x] = req[x]
  BY IdleType, GotoFacts DEF Base, Finish
<1>2. d \in FromFixes
  BY DEF FromFixes
<1>3. FromFixes \ {d} \subseteq FromFixes' /\ FromFixes' \subseteq FromFixes
  <2>1. \A x \in Requests : Fixing(x)' => Fixing(x) /\ x # r /\ req'[x] = req[x]
    BY <1>1 DEF Fixing
  <2>2. \A x \in Requests : Fixing(x) /\ x # r => Fixing(x)' /\ req'[x] = req[x]
    BY <1>1 DEF Fixing
  <2>3. FromFixes' \subseteq FromFixes
    BY <2>1 DEF FromFixes
  <2>4. FromFixes \ {d} \subseteq FromFixes'
    BY <2>2 DEF FromFixes
  <2> QED BY <2>3, <2>4
<1> QED BY <1>2, <1>3, FromJournalSame DEF Due

LEMMA FixRejectedOrdered ==
  ASSUME Base, Ordered, NEW r \in Requests, FixRejected(r), ~disorder'
  PROVE  Ordered'
<1> DEFINE d == [copy |-> req[r].copy, restored |-> FALSE]
           e == [copy |-> req[r].copy, restored |-> TRUE]
<1>1. /\ file' = req[r].copy.before /\ ~Newer(req[r].copy) /\ Finish(r)
      /\ journal' = journal /\ Fixing(r)
  BY DEF FixRejected, Fixing
<1>2. d \in Due /\ Due \ {d} \subseteq Due' /\ Due' \subseteq Due
  BY <1>1, FinishFix
<1>3. d.copy = req[r].copy /\ e.copy = d.copy /\ e.restored
  OBVIOUS
<1>4. d \notin Due'
  <2>1. /\ req'[r].pc = "idle" /\ \A x \in Requests \ {r} : req'[x] = req[x]
    BY <1>1, IdleType, GotoFacts DEF Base, Finish
  <2>2. ASSUME NEW i \in 1 .. Len(journal),
               d = [copy |-> journal[i].copy, restored |-> journal[i].restored]
        PROVE  FALSE
    <3>1. d.copy = journal[i].copy
      BY <2>2
    <3> QED BY <1>1, <1>3, <3>1 DEF Base, Numbered
  <2>3. ASSUME NEW x \in Requests, Fixing(x)', d = [copy |-> req'[x].copy, restored |-> FALSE]
        PROVE  FALSE
    <3>1. x # r /\ req'[x] = req[x] /\ Fixing(x)
      BY <2>1, <2>3 DEF Fixing
    <3>2. req[x].copy = req[r].copy
      BY <1>3, <2>3, <3>1
    <3> QED BY <1>1, <3>1, <3>2 DEF Base, Numbered
  <2> HIDE DEF d
  <2> QED BY <1>1, <2>2, <2>3 DEF Due, FromJournal, FromFixes, Active
<1> HIDE DEF d, e
<1> QED BY <1>1, <1>2, <1>3, <1>4, OrderedPop

\* The entry takes the place of the fix.
LEMMA FixJournalOrdered ==
  ASSUME Base, Ordered, NEW r \in Requests, FixJournal(r)
  PROVE  Ordered'
<1> DEFINE e == [copy |-> req[r].copy, rolledBack |-> FALSE, restored |-> FALSE]
           d == [copy |-> req[r].copy, restored |-> FALSE]
           n == Len(journal) + 1
<1>1. /\ Len(journal') = n /\ journal'[n] = e /\ n \notin 1 .. Len(journal)
      /\ \A k \in 1 .. Len(journal) : journal'[k] = journal[k]
      /\ 1 .. Len(journal') = (1 .. Len(journal)) \cup {n}
  BY FixJournalFacts, JournalAppend DEF Base
<1>2. /\ req'[r].pc = "idle" /\ \A x \in Requests \ {r} : req'[x] = req[x]
  BY IdleType, GotoFacts DEF Base, Finish, FixJournal
<1>3. file' = file /\ Fixing(r)
  BY DEF FixJournal, Fixing
<1>4. FromJournal' = FromJournal \cup {d}
  <2>1. Active' = Active \cup {n}
    BY <1>1 DEF Active
  <2>2. \A k \in Active : journal'[k] = journal[k]
    BY <1>1 DEF Active
  <2>3. d = [copy |-> journal'[n].copy, restored |-> journal'[n].restored]
    BY <1>1
  <2>4. FromJournal \cup {d} \subseteq FromJournal'
    <3> HIDE DEF d, e, n
    <3> QED BY <2>1, <2>2, <2>3 DEF FromJournal
  <2>5. FromJournal' \subseteq FromJournal \cup {d}
    <3> HIDE DEF d, e, n
    <3> QED BY <2>1, <2>2, <2>3 DEF FromJournal
  <2> QED BY <2>4, <2>5
<1>5. FromFixes = FromFixes' \cup {d}
  <2>1. \A x \in Requests : Fixing(x) <=> Fixing(x)' \/ x = r
    BY <1>2, <1>3 DEF Fixing
  <2>2. \A x \in Requests : Fixing(x)' => req'[x] = req[x]
    BY <1>2 DEF Fixing
  <2>3. FromFixes \subseteq FromFixes' \cup {d}
    BY <2>1, <2>2 DEF FromFixes
  <2>4. FromFixes' \subseteq FromFixes
    BY <2>1, <2>2 DEF FromFixes
  <2>5. d \in FromFixes
    BY <1>3 DEF FromFixes
  <2> QED BY <2>3, <2>4, <2>5
<1>6. Due' = Due
  BY <1>4, <1>5 DEF Due
<1> QED BY <1>3, <1>6, OrderedFewer

\* What is due when one entry of the journal is written again.
LEMMA EntryDue ==
  ASSUME Base, NEW r \in Requests, NEW q \in Request, Goto(r, q),
         req[r].pc \in {"idle", "mark"}, q.pc \in {"idle", "mark"},
         NEW i \in 1 .. Len(journal), NEW e \in Entry,
         journal' = [journal EXCEPT ![i] = e]
  PROVE  LET d == [copy |-> journal[i].copy, restored |-> journal[i].restored]
             f == [copy |-> e.copy, restored |-> e.restored]
         IN  /\ Due \ {d} \subseteq Due' /\ Due' \subseteq Due \cup {f}
             /\ ~journal[i].rolledBack => d \in Due
             /\ e.rolledBack => Due' \subseteq Due
             /\ (d # f /\ ~journal[i].rolledBack) => d \notin Due'
<1> DEFINE d == [copy |-> journal[i].copy, restored |-> journal[i].restored]
           f == [copy |-> e.copy, restored |-> e.restored]
<1>1. /\ Len(journal') = Len(journal) /\ journal'[i] = e
      /\ \A k \in 1 .. Len(journal) : k # i => journal'[k] = journal[k]
  BY JournalSet DEF Base
<1>2. /\ req'[r] = q /\ \A x \in Requests \ {r} : req'[x] = req[x]
  BY GotoFacts DEF Base
<1>3. \A x \in Requests :
        (Fixing(x)' <=> Fixing(x)) /\ (Fixing(x) => req'[x].copy = req[x].copy)
  BY <1>2 DEF Fixing
<1>4. FromFixes' = FromFixes
  BY <1>3 DEF FromFixes
<1>5. FromJournal \ {d} \subseteq FromJournal'
  BY <1>1 DEF FromJournal, Active
<1>6. FromJournal' \subseteq FromJournal \cup {f}
  BY <1>1 DEF FromJournal, Active
<1>7. e.rolledBack => FromJournal' \subseteq FromJournal
  BY <1>1 DEF FromJournal, Active
<1>8. ~journal[i].rolledBack => d \in FromJournal
  BY DEF FromJournal, Active
<1>9. ASSUME d # f, ~journal[i].rolledBack, d \in Due' PROVE FALSE
  <2>1. CASE d \in FromFixes
    <3>1. PICK x \in Requests : Fixing(x) /\ d = [copy |-> req[x].copy, restored |-> FALSE]
      BY <2>1 DEF FromFixes
    <3>2. req[x].copy = journal[i].copy
      BY <3>1
    <3> QED BY <3>1, <3>2 DEF Base, Numbered
  <2>2. CASE d \in FromJournal'
    <3>1. PICK k \in 1 .. Len(journal) :
            d = [copy |-> journal'[k].copy, restored |-> journal'[k].restored]
      BY <1>1, <2>2 DEF FromJournal, Active
    <3>2. k # i
      BY <1>1, <1>9, <3>1
    <3>3. journal[k].copy = journal[i].copy
      BY <1>1, <3>1, <3>2
    <3> QED BY <3>2, <3>3 DEF Base, Numbered
  <2> QED BY <1>4, <1>9, <2>1, <2>2 DEF Due
<1>10. /\ Due \ {d} \subseteq Due' /\ Due' \subseteq Due \cup {f}
       /\ ~journal[i].rolledBack => d \in Due
       /\ e.rolledBack => Due' \subseteq Due
       /\ (d # f /\ ~journal[i].rolledBack) => d \notin Due'
  <2> HIDE DEF d, f
  <2> QED BY <1>4, <1>5, <1>6, <1>7, <1>8, <1>9 DEF Due
<1> QED BY <1>10

LEMMA RollbackOrdered ==
  ASSUME Base, Ordered, NEW r \in Requests, NEW o \in Options, Rollback(r, o),
         ~disorder'
  PROVE  Ordered'
<1> DEFINE i == latest_active(o)
           e == [journal[i] EXCEPT !.restored = TRUE]
           q == [pc |-> "mark", id |-> i]
           d == [copy |-> journal[i].copy, restored |-> journal[i].restored]
           f == [copy |-> e.copy, restored |-> e.restored]
<1>1. /\ Goto(r, q) /\ journal' = [journal EXCEPT ![i] = e] /\ req[r].pc = "idle"
      /\ file' = journal[i].copy.before /\ ~Newer(journal[i].copy)
      /\ Candidates(o) # {}
  BY DEF Rollback
<1>2. i \in 1 .. Len(journal) /\ ~journal[i].rolledBack
  BY <1>1, LatestFacts DEF Base, Active
<1>3. e \in Entry /\ e.copy = journal[i].copy /\ e.restored
  BY <1>2, EntryShape DEF Base, Entry
<1>4. q \in Request /\ q.pc = "mark"
  <2>1. i \in 1 .. MaxEntries
    BY <1>2, JournalBounded, LenProperties DEF Base, TypeOK
  <2> QED BY <2>1 DEF Request
<1>5. d.copy = journal[i].copy /\ f.copy = d.copy /\ f.restored
  BY <1>3
<1>6. /\ d \in Due /\ Due \ {d} \subseteq Due' /\ Due' \subseteq Due \cup {f}
      /\ d # f => d \notin Due'
  <2> HIDE DEF i, e, q
  <2> QED BY <1>1, <1>2, <1>3, <1>4, EntryDue
<1>7. Due' \subseteq (Due \ {d}) \cup {f}
  <2> HIDE DEF d, f
  <2> QED BY <1>6
<1>8. file' = d.copy.before /\ ~Newer(d.copy)
  BY <1>1
<1> HIDE DEF d, f
<1> QED BY <1>5, <1>6, <1>7, <1>8, OrderedPop

\* What is marked has been written back: nothing of the file depends on it.
LEMMA MarkOrdered ==
  ASSUME Base, Ordered, NEW r \in Requests, mark_rolled_back(r)
  PROVE  Ordered'
<1> DEFINE i == req[r].id
           e == [journal[i] EXCEPT !.rolledBack = TRUE]
           d == [copy |-> journal[i].copy, restored |-> journal[i].restored]
<1>1. Goto(r, Idle) /\ file' = file /\ req[r].pc = "mark"
  BY DEF mark_rolled_back, Finish
<1>2. /\ i \in 1 .. Len(journal) /\ journal[i].restored /\ e \in Entry /\ e.rolledBack
      /\ journal' = [journal EXCEPT ![i] = e]
  BY MarkFacts
<1>3. Due \ {d} \subseteq Due' /\ Due' \subseteq Due
  <2> HIDE DEF i, e
  <2> QED BY <1>1, <1>2, IdleType, EntryDue DEF d
<1>4. d.restored
  BY <1>2
<1> HIDE DEF d
<1> QED BY <1>1, <1>3, <1>4, OrderedFewer

LEMMA NextOrdered ==
  ASSUME Base, Ordered, [Next]_vars, ~disorder' PROVE Ordered'
<1>1. CASE UNCHANGED vars
  <2>1. Due' = Due /\ file' = file
    BY <1>1 DEF vars, Due, FromJournal, FromFixes, Active, Fixing
  <2> QED BY <2>1, OrderedFewer
<1>2. ASSUME NEW r \in Requests, RollbackFails(r) \/ Abort(r) PROVE Ordered'
  <2>1. /\ Goto(r, Idle) /\ UNCHANGED <<file, journal>> /\ ~Fixing(r)
    BY <1>2 DEF RollbackFails, Abort, Finish, Fixing
  <2>2. Due' = Due
    BY <2>1, IdleType, SameDue
  <2> QED BY <2>1, <2>2, OrderedFewer
<1> QED BY <1>1, <1>2, FixWriteOrdered, FixAcceptedOrdered, FixRejectedOrdered,
           FixJournalOrdered, RollbackOrdered, MarkOrdered DEF Next

-----------------------------------------------------------------------------

LEMMA InitBase == Init => Base /\ Ordered
<1> SUFFICES ASSUME Init PROVE Base /\ Ordered
  OBVIOUS
<1>1. /\ file = {} /\ copies = 0 /\ journal = <<>> /\ disorder = FALSE
      /\ \A r \in Requests : req[r] = Idle
  BY DEF Init
<1>2. req \in [Requests -> Request]
  BY IdleType DEF Init
<1>3. journal \in Seq(Entry) /\ Len(journal) = 0
  BY <1>1, EmptySeq
<1>4. \A r \in Requests : ~Fixing(r) /\ req[r].pc = "idle"
  BY <1>1, IdleType DEF Fixing
<1>5. TypeOK
  <2>1. copies \in 0 .. MaxEntries
    BY <1>1
  <2>2. disorder \in BOOLEAN
    BY Zenon, <1>1
  <2> QED BY <1>1, <1>2, <1>3, <2>1, <2>2 DEF TypeOK
<1>6. Numbered
  BY <1>3, <1>4 DEF Numbered
<1>7. Due = {}
  BY <1>3, <1>4 DEF Due, FromJournal, FromFixes, Active
<1> QED BY <1>1, <1>5, <1>6, <1>7 DEF Base, Ordered

LEMMA DisorderStays ==
  ASSUME [Next]_vars, disorder PROVE disorder'
BY DEF vars, Next, FixWrite, FixAccepted, FixRejected, FixJournal, Rollback,
       RollbackFails, mark_rolled_back, Abort

\* Every reachable state of the file, the journal and the requests satisfies
\* the invariant below: the copies that are due form a stack.
THEOREM LocalFixesInvariant == Spec => []LocalFixesInv
<1>1. Init => LocalFixesInv
  BY InitBase DEF LocalFixesInv
<1>2. LocalFixesInv /\ [Next]_vars => LocalFixesInv'
  BY NextBase, NextOrdered, DisorderStays DEF LocalFixesInv
<1> QED BY <1>1, <1>2, PTL DEF Spec

\* The journal, the requests and the file keep their types: no rollback is
\* about an entry that RollbackJournal does not have.
THEOREM LocalFixesType == Spec => []TypeOK
BY LocalFixesInvariant, PTL DEF LocalFixesInv, Base

\* Until a copy is written back over a newer one, every option that _fix_ssh
\* made safe can be taken back.
THEOREM OptionsRevertible == Spec => []SafeOptionsRevertible
<1>1. LocalFixesInv => SafeOptionsRevertible
  <2> SUFFICES ASSUME LocalFixesInv, ~disorder, NEW o \in file
               PROVE  \/ \E i \in Active : /\ journal[i].copy.option = o
                                           /\ o \notin journal[i].copy.before
                      \/ \E r \in Requests : Fixing(r) /\ req[r].copy.option = o
    BY DEF SafeOptionsRevertible
  <2>1. PICK d \in Due : d.copy.option = o /\ o \notin d.copy.before
    BY DEF LocalFixesInv, Ordered
  <2> QED BY <2>1, DueCases DEF Active
<1> QED BY <1>1, LocalFixesInvariant, PTL

\* As long, api_rollback_local undoes the fix of its entry and no other one.
THEOREM OtherFixesStand == Spec => []FixesStand
<1>1. LocalFixesInv => FixesStand
  <2> SUFFICES ASSUME LocalFixesInv, ~disorder, NEW i \in Active, ~journal[i].restored
               PROVE  journal[i].copy.option \in file
    BY DEF FixesStand
  <2> DEFINE d == [copy |-> journal[i].copy, restored |-> journal[i].restored]
  <2>1. d \in Due /\ d.copy = journal[i].copy /\ ~d.restored
    BY DEF Due, FromJournal
  <2>2. Keeps(d) \subseteq file
    BY <2>1 DEF LocalFixesInv, Ordered
  <2>3. d.copy.option \in Keeps(d)
    BY <2>1 DEF Keeps
  <2> QED BY <2>1, <2>2, <2>3
<1> QED BY <1>1, LocalFixesInvariant, PTL

=============================================================================
