---------------------------- MODULE OutsideProofs ----------------------------
(* Proofs about what meets the world outside the platform: the files put in  *)
(* quarantine (Quarantine), the hosts that organisations connect to          *)
(* (SshTrust), the messages they send (Integrations), the reports their      *)
(* agents send in (Agents), the changes the monitor reports (Monitor) and    *)
(* the compliance that audits tell of (Posture).  Each has an inductive      *)
(* invariant of its own; they are in one module because they share nothing,  *)
(* not even a name.                                                          *)
EXTENDS Monitor, SshTrust, Integrations, Agents, Posture, FiniteSetTheorems, FunctionTheorems,
        NaturalsInduction, WellFoundedInduction, TLAPS

-----------------------------------------------------------------------------
\* Quarantine

\* A file that was taken can be had back.
Kept(n) ==
  /\ quar[n] = took[n].c
  /\ \E i \in 1..Len(_load_meta) :
       /\ _load_meta[i].name = n /\ _load_meta[i].hash = took[n].c
       /\ _load_meta[i].path = took[n].path /\ ~_load_meta[i].deleted

\* Every entry has a name of its own, and is of something taken.
IndexSound ==
  /\ \A i, j \in 1..Len(_load_meta) : _load_meta[i].name = _load_meta[j].name => i = j
  /\ \A i \in 1..Len(_load_meta) : took[_load_meta[i].name] # Absent

\* What each step of an operation has behind it: a name no quarantine used, a
\* copy of what was read, a removal with no entry yet, an entry found.
OperationSound ==
  /\ op.kind = "quarantine" => op.name \in Names /\ op.path \in Paths /\ op.hash \in Held
  /\ op.kind = "quarantine" /\ op.pc \in {"copy", "unlink"} => took[op.name] = Absent
  /\ op.kind = "quarantine" /\ op.pc = "unlink" => quar[op.name] = op.c
  /\ op.kind = "quarantine" /\ op.pc = "index" =>
       /\ took[op.name] # Absent /\ ~Listed(op.name)
       /\ op.name \notin excused =>
            quar[op.name] = took[op.name].c /\ op.hash = took[op.name].c /\ op.path = took[op.name].path
  /\ op.kind = "restore" => op.name \in Names /\ op.path \in Paths /\ Listed(op.name)
  /\ op.kind = "restore" /\ op.pc = "index" /\ op.name \notin excused => op.c = took[op.name].c
  /\ op.kind = "delete" => op.name \in excused

\* Between its removal and its entry a file is not yet kept; at all other times
\* it is.
UnderWay(n) == op.kind = "quarantine" /\ op.pc = "index" /\ op.name = n

AllKept == \A n \in Names : took[n] # Absent /\ n \notin excused /\ ~UnderWay(n) => Kept(n)

QuarantineInv == QTypeOK /\ IndexSound /\ OperationSound /\ AllKept

-----------------------------------------------------------------------------

\* The entries read from index.json, one by one.
LEMMA MetaEntries ==
  ASSUME QTypeOK
  PROVE  /\ _load_meta \in Seq(MetaEntry) /\ Len(_load_meta) \in Nat
         /\ \A i \in 1..Len(_load_meta) : _load_meta[i] \in MetaEntry
  BY DEF QTypeOK, _load_meta

\* The entry of a name is the only one.
LEMMA EntryOfName ==
  ASSUME QTypeOK, IndexSound, NEW i \in 1..Len(_load_meta)
  PROVE  Entry(_load_meta[i].name) = _load_meta[i]
  <1> DEFINE First(k) == /\ _load_meta[k].name = _load_meta[i].name
                         /\ \A j \in 1..(k - 1) : _load_meta[j].name # _load_meta[i].name
  <1>1. \A k \in 1..Len(_load_meta) : First(k) => k = i BY DEF IndexSound
  <1>2. First(i)
    <2>1. Len(_load_meta) \in Nat BY MetaEntries
    <2>2. \A j \in 1..(i - 1) : j \in 1..Len(_load_meta) /\ j # i BY <2>1
    <2> QED BY <2>2 DEF IndexSound
  <1>3. Entry(_load_meta[i].name) = _load_meta[CHOOSE k \in 1..Len(_load_meta) : First(k)] BY DEF Entry
  <1> HIDE DEF First
  <1>4. (CHOOSE k \in 1..Len(_load_meta) : First(k)) = i BY <1>1, <1>2
  <1> QED BY <1>3, <1>4

\* What is listed has an entry.
LEMMA EntryListed ==
  ASSUME QTypeOK, IndexSound, NEW n, Listed(n)
  PROVE  /\ Entry(n) \in MetaEntry /\ took[n] # Absent
         /\ \E i \in 1..Len(_load_meta) : _load_meta[i].name = n /\ Entry(n) = _load_meta[i]
  BY EntryOfName, MetaEntries DEF Listed, IndexSound

\* The index has been written, or it is torn and every name in it is excused.
LEMMA SaveMeta ==
  ASSUME QTypeOK, NEW meta \in Seq(MetaEntry), _save_meta(meta)
  PROVE  /\ index' = Torn \/ index' \in Seq(MetaEntry)
         /\ excused \subseteq excused' /\ excused' \subseteq Names
         /\ \/ _load_meta' = meta /\ excused' = excused
            \/ /\ _load_meta' = <<>>
               /\ \A n \in Names : Listed(n) => n \in excused'
               /\ \A i \in 1..Len(meta) : meta[i].name \in excused'
  <1>1. CASE index' = meta /\ UNCHANGED excused
    <2>1. meta # Torn BY QuarantineAssumption
    <2> QED BY <1>1, <2>1 DEF _load_meta, QTypeOK
  <1>2. CASE index' = Torn /\ excused' = excused \cup {n \in Names : Listed(n)} \cup {meta[i].name : i \in DOMAIN meta}
    <2>1. DOMAIN meta = 1..Len(meta) OBVIOUS
    <2>2. \A i \in 1..Len(meta) : meta[i] \in MetaEntry /\ meta[i].name \in Names
      <3>1. \A i \in 1..Len(meta) : meta[i] \in MetaEntry OBVIOUS
      <3> QED BY <3>1 DEF MetaEntry
    <2>3. excused \subseteq Names BY DEF QTypeOK
    <2> QED BY <1>2, <2>1, <2>2, <2>3 DEF _load_meta
  <1> QED BY <1>1, <1>2 DEF _save_meta

\* Marking entries keeps their names, digests and paths.
LEMMA SetEntries ==
  ASSUME QTypeOK, NEW n, NEW r \in BOOLEAN, NEW d \in BOOLEAN
  PROVE  /\ SetEntry(n, r, d) \in Seq(MetaEntry) /\ Len(SetEntry(n, r, d)) = Len(_load_meta)
         /\ \A i \in 1..Len(_load_meta) :
              /\ SetEntry(n, r, d)[i].name = _load_meta[i].name /\ SetEntry(n, r, d)[i].hash = _load_meta[i].hash
              /\ SetEntry(n, r, d)[i].path = _load_meta[i].path
              /\ ~d \/ _load_meta[i].name # n => SetEntry(n, r, d)[i].deleted = _load_meta[i].deleted
  <1> DEFINE s == SetEntry(n, r, d)  L == Len(_load_meta)
  <1>1. L \in Nat BY MetaEntries
  <1>2. ASSUME NEW i \in 1..L
        PROVE  /\ s[i] \in MetaEntry
               /\ s[i].name = _load_meta[i].name /\ s[i].hash = _load_meta[i].hash /\ s[i].path = _load_meta[i].path
               /\ ~d \/ _load_meta[i].name # n => s[i].deleted = _load_meta[i].deleted
    <2> DEFINE e == _load_meta[i]
    <2>1. e \in MetaEntry BY MetaEntries
    <2>2. s[i] = IF e.name = n THEN [e EXCEPT !.restored = @ \/ r, !.deleted = @ \/ d] ELSE e BY DEF SetEntry
    <2> HIDE DEF e, s
    <2>3. e.restored \in BOOLEAN /\ e.deleted \in BOOLEAN BY <2>1 DEF MetaEntry
    <2>4. CASE e.name = n
      <3> DEFINE a == e.restored \/ r  b == e.deleted \/ d
      <3>1. s[i] = [e EXCEPT !.restored = a, !.deleted = b] BY <2>2, <2>4
      <3>2. a \in BOOLEAN /\ b \in BOOLEAN BY <2>3
      <3>3. ~d => b = e.deleted BY <2>3
      <3> HIDE DEF a, b
      <3>4. s[i] \in MetaEntry /\ s[i].name = e.name /\ s[i].hash = e.hash /\ s[i].path = e.path /\ s[i].deleted = b
        BY <2>1, <3>1, <3>2 DEF MetaEntry
      <3> QED BY <2>4, <3>3, <3>4 DEF e
    <2>5. CASE e.name # n BY <2>1, <2>2, <2>5 DEF e
    <2> QED BY <2>4, <2>5
  <1>3. s = [i \in 1..L |-> s[i]] BY DEF SetEntry
  <1>4. s \in [1..L -> MetaEntry]
    <2> HIDE DEF s, L
    <2> QED BY <1>2, <1>3
  <1> HIDE DEF s
  <1>5. s \in Seq(MetaEntry) /\ Len(s) = L BY <1>1, <1>4
  <1> QED BY <1>2, <1>5 DEF s, L

\* What is kept stays kept as long as its copy and the index do.
LEMMA KeptStays ==
  ASSUME NEW n, Kept(n), quar'[n] = quar[n], took'[n] = took[n], _load_meta' = _load_meta
  PROVE  Kept(n)'
  BY DEF Kept

\* Nothing is kept, and no operation is under way, at the start.
LEMMA QStart == QInit => QuarantineInv
  <1> SUFFICES ASSUME QInit PROVE QuarantineInv OBVIOUS
  <1>1. _load_meta = <<>> /\ Len(_load_meta) = 0
    <2>1. <<>> \in Seq(MetaEntry) OBVIOUS
    <2> QED BY <2>1, QuarantineAssumption DEF QInit, _load_meta
  <1>2. QTypeOK
    <2>1. <<>> \in Seq(MetaEntry) OBVIOUS
    <2>2. Idle \in Operations BY DEF Idle, Doing, Operations
    <2>3. 1 \in 1..MaxTime BY QuarantineAssumption
    <2> QED BY <2>1, <2>2, <2>3 DEF QInit, QTypeOK, Held
  <1>3. op.kind = "none" BY DEF QInit, Idle, Doing
  <1> QED BY <1>1, <1>2, <1>3 DEF QuarantineInv, IndexSound, OperationSound, AllKept, QInit

\* An operation that goes on keeps its kind, its name, its path and its digest.
LEMMA OperationGoesOn ==
  ASSUME QTypeOK, NEW pc \in {"none", "copy", "unlink", "check", "index"}, NEW c \in Held,
         op' = [op EXCEPT !.pc = pc, !.c = c]
  PROVE  /\ op' \in Operations /\ op'.pc = pc /\ op'.c = c
         /\ op'.kind = op.kind /\ op'.name = op.name /\ op'.path = op.path /\ op'.hash = op.hash
  <1>1. op \in Operations BY DEF QTypeOK
  <1> QED BY <1>1 DEF Operations

\* A step that leaves the copies, the index and what was taken alone breaks
\* nothing, if the operation it goes on with is sound.
LEMMA QuarantineRestsOn ==
  ASSUME QuarantineInv, UNCHANGED <<quar, index, took, excused>>, QTypeOK', OperationSound',
         \A n \in Names : UnderWay(n) => UnderWay(n)'
  PROVE  QuarantineInv'
  <1>1. _load_meta' = _load_meta BY DEF _load_meta
  <1>2. IndexSound' BY <1>1 DEF QuarantineInv, IndexSound
  <1>3. AllKept' BY <1>1, KeptStays DEF QuarantineInv, AllKept
  <1> QED BY <1>2, <1>3 DEF QuarantineInv

\* An operation that ends leaves nothing to be sound about.
LEMMA IdleSound == op' = Idle => op' \in Operations /\ OperationSound'
  BY DEF Idle, Doing, Operations, OperationSound

\* quarantine_file keeps the invariant: it takes only what it has copied, and
\* what it took is named in the index or excused.
LEMMA QuarantineSteps ==
  ASSUME QuarantineInv,
         \/ \E p \in Paths : QuarantineHash(p)
         \/ QuarantineCopy \/ QuarantineUnlink \/ QuarantineIndex
  PROVE  QuarantineInv'
  <1> USE DEF QuarantineInv
  <1>t. QTypeOK OBVIOUS
  <1>1. ASSUME NEW p \in Paths, QuarantineHash(p) PROVE QuarantineInv'
    <2>1. PICK n \in Names : took[n] = Absent /\ op' = Doing("quarantine", "copy", p, n, fs[p].c)
      BY <1>1 DEF QuarantineHash
    <2>2. op.kind = "none" /\ fs[p] # Absent /\ UNCHANGED <<fs, now, quar, index, took, excused>>
      BY <1>1 DEF QuarantineHash, Idle, Doing
    <2>3. fs[p].c \in Held BY <2>2, <1>t DEF QTypeOK
    <2>4. /\ op'.kind = "quarantine" /\ op'.pc = "copy" /\ op'.name = n /\ op'.path = p /\ op'.hash = fs[p].c
          /\ op' \in Operations
      BY <2>1, <2>3 DEF Doing, Operations
    <2>5. QTypeOK' BY <1>t, <2>2, <2>4 DEF QTypeOK
    <2>6. OperationSound' BY <2>1, <2>2, <2>3, <2>4 DEF OperationSound
    <2> QED BY <2>2, <2>5, <2>6, QuarantineRestsOn DEF UnderWay
  <1>2. ASSUME QuarantineCopy PROVE QuarantineInv'
    <2>1. /\ op.kind = "quarantine" /\ op.pc = "copy" /\ fs[op.path] # Absent
          /\ UNCHANGED <<fs, now, index, took, excused>> /\ _load_meta' = _load_meta
      BY <1>2 DEF QuarantineCopy, _load_meta
    <2>2. op.name \in Names /\ op.path \in Paths /\ took[op.name] = Absent /\ op.hash \in Held
      BY <2>1 DEF OperationSound
    <2>3. fs[op.path].c \in Held BY <2>1, <2>2, <1>t DEF QTypeOK
    <2>4. IndexSound' BY <2>1 DEF IndexSound
    <2>5. \A n \in Names : n # op.name => quar'[n] = quar[n] BY <1>2, <1>t DEF QuarantineCopy, QTypeOK
    <2>6. AllKept'
      <3> SUFFICES ASSUME NEW n \in Names, took'[n] # Absent, n \notin excused' PROVE Kept(n)' BY DEF AllKept
      <3>1. n # op.name /\ ~UnderWay(n) BY <2>1, <2>2 DEF UnderWay
      <3>2. Kept(n) BY <2>1, <3>1 DEF AllKept
      <3> QED BY <2>1, <2>5, <3>1, <3>2, KeptStays
    <2>7. quar' \in [Names -> Held \cup {Absent}] BY <1>2, <1>t, <2>3 DEF QuarantineCopy, QTypeOK, Held
    <2>8. CASE op' = Idle
      BY <1>t, <2>1, <2>4, <2>6, <2>7, <2>8, IdleSound DEF QTypeOK
    <2>9. CASE /\ quar' = [quar EXCEPT ![op.name] = fs[op.path].c]
               /\ op' = [op EXCEPT !.pc = "unlink", !.c = fs[op.path].c]
      <3>1. /\ op' \in Operations /\ op'.pc = "unlink" /\ op'.c = fs[op.path].c /\ op'.kind = "quarantine"
            /\ op'.name = op.name /\ op'.path = op.path /\ op'.hash = op.hash
        BY <1>t, <2>1, <2>3, <2>9, OperationGoesOn
      <3>2. quar'[op.name] = fs[op.path].c BY <1>t, <2>2, <2>9 DEF QTypeOK
      <3>3. OperationSound' BY <2>1, <2>2, <3>1, <3>2 DEF OperationSound
      <3> QED BY <1>t, <2>1, <2>4, <2>6, <2>7, <3>1, <3>3 DEF QTypeOK
    <2> QED BY <1>2, <2>8, <2>9 DEF QuarantineCopy
  <1>3. ASSUME QuarantineUnlink PROVE QuarantineInv'
    <2> DEFINE new == [path |-> op.path, c |-> fs[op.path].c]
    <2>1. /\ op.kind = "quarantine" /\ op.pc = "unlink" /\ fs[op.path] # Absent
          /\ UNCHANGED <<now, quar, index>> /\ _load_meta' = _load_meta
          /\ took' = [took EXCEPT ![op.name] = new]
          /\ op' = [op EXCEPT !.pc = "index"]
          /\ fs' = [fs EXCEPT ![op.path] = Absent]
      BY <1>3 DEF QuarantineUnlink, _load_meta
    <2>2. /\ op.name \in Names /\ op.path \in Paths /\ took[op.name] = Absent /\ op.hash \in Held
          /\ quar[op.name] = op.c
      BY <2>1 DEF OperationSound
    <2>3. fs[op.path].c \in Held BY <2>1, <2>2, <1>t DEF QTypeOK
    <2>4. new \in Places /\ new # Absent /\ new.c = fs[op.path].c /\ new.path = op.path
      BY <2>2, <2>3, QuarantineAssumption DEF Places
    <2>5. /\ op' \in Operations /\ op'.pc = "index" /\ op'.kind = "quarantine"
          /\ op'.name = op.name /\ op'.path = op.path /\ op'.hash = op.hash
      <3>1. op \in Operations BY <1>t DEF QTypeOK
      <3> QED BY <2>1, <3>1 DEF Operations
    <2> HIDE DEF new
    <2>6. took' \in [Names -> Places \cup {Absent}] /\ took'[op.name] = new
          /\ \A n : n # op.name => took'[n] = took[n]
      BY <2>1, <2>2, <2>4, <1>t DEF QTypeOK
    <2>7. excused \subseteq excused' /\ excused' \subseteq Names
      BY <1>3, <1>t, <2>2 DEF QuarantineUnlink, QTypeOK
    <2>8. op.name \notin excused' => fs[op.path].c = op.c /\ op.c = op.hash
      BY <1>3 DEF QuarantineUnlink
    <2>9. QTypeOK' BY <1>t, <2>1, <2>2, <2>5, <2>6, <2>7 DEF QTypeOK
    <2>10. ~Listed(op.name) /\ Listed(op.name)' = Listed(op.name)
      BY <2>1, <2>2 DEF Listed, IndexSound
    <2>11. IndexSound' BY <2>1, <2>4, <2>6 DEF IndexSound
    <2>12. OperationSound'
      BY <2>1, <2>2, <2>4, <2>5, <2>6, <2>8, <2>10 DEF OperationSound
    <2>13. AllKept'
      <3> SUFFICES ASSUME NEW n \in Names, took'[n] # Absent, n \notin excused', ~UnderWay(n)' PROVE Kept(n)' BY DEF AllKept
      <3>1. n # op.name BY <2>5 DEF UnderWay
      <3>2. Kept(n) BY <2>1, <2>6, <2>7, <3>1 DEF AllKept, UnderWay
      <3> QED BY <2>1, <2>6, <3>1, <3>2, KeptStays
    <2> QED BY <2>9, <2>11, <2>12, <2>13
  <1>4. ASSUME QuarantineIndex PROVE QuarantineInv'
    <2> DEFINE e == [name |-> op.name, path |-> op.path, hash |-> op.hash, restored |-> FALSE, deleted |-> FALSE]
               meta == Append(_load_meta, e)
               L == Len(_load_meta)
    <2>1. /\ op.kind = "quarantine" /\ op.pc = "index" /\ _save_meta(meta) /\ op' = Idle
          /\ UNCHANGED <<fs, now, quar, took>>
      BY <1>4 DEF QuarantineIndex
    <2>2. /\ op.name \in Names /\ op.path \in Paths /\ op.hash \in Held /\ took[op.name] # Absent /\ ~Listed(op.name)
          /\ op.name \notin excused =>
                quar[op.name] = took[op.name].c /\ op.hash = took[op.name].c /\ op.path = took[op.name].path
      BY <2>1 DEF OperationSound
    <2>3. e \in MetaEntry /\ e.name = op.name /\ e.path = op.path /\ e.hash = op.hash /\ ~e.deleted
      BY <2>2 DEF MetaEntry
    <2> HIDE DEF e
    <2>4. _load_meta \in Seq(MetaEntry) /\ L \in Nat BY <1>t, MetaEntries
    <2>5. /\ meta \in Seq(MetaEntry) /\ Len(meta) = L + 1 /\ meta[L + 1] = e
          /\ \A i \in 1..L : meta[i] = _load_meta[i]
      BY <2>3, <2>4
    <2> HIDE DEF meta
    <2>6. /\ index' = Torn \/ index' \in Seq(MetaEntry)
          /\ excused \subseteq excused' /\ excused' \subseteq Names
          /\ \/ _load_meta' = meta /\ excused' = excused
             \/ /\ _load_meta' = <<>>
                /\ \A n \in Names : Listed(n) => n \in excused'
                /\ \A i \in 1..Len(meta) : meta[i].name \in excused'
      BY <1>t, <2>1, <2>5, SaveMeta
    <2>7. op' \in Operations /\ OperationSound' BY <2>1, IdleSound
    <2>8. QTypeOK' BY <1>t, <2>1, <2>6, <2>7 DEF QTypeOK
    <2>9. CASE _load_meta' = <<>> /\ (\A n \in Names : Listed(n) => n \in excused')
               /\ \A i \in 1..Len(meta) : meta[i].name \in excused'
      <3>1. IndexSound' BY <2>9 DEF IndexSound
      <3>2. op.name \in excused' BY <2>3, <2>4, <2>5, <2>9
      <3>3. AllKept' BY <2>1, <2>6, <2>9, <3>2 DEF AllKept, UnderWay, Kept, Listed
      <3> QED BY <2>7, <2>8, <3>1, <3>3
    <2>10. CASE _load_meta' = meta /\ excused' = excused
      <3>1. \A i \in 1..L : _load_meta[i].name # op.name BY <2>2 DEF Listed
      <3>2. \A i \in 1..(L + 1) : i = L + 1 \/ i \in 1..L BY <2>4
      <3>3. Len(_load_meta') = L + 1 BY <2>5, <2>10
      <3>4. IndexSound'
        <4>1. \A i, j \in 1..(L + 1) : meta[i].name = meta[j].name => i = j
          BY <2>3, <2>5, <3>1, <3>2 DEF IndexSound
        <4>2. \A i \in 1..(L + 1) : took[meta[i].name] # Absent
          BY <2>2, <2>3, <2>5, <3>2 DEF IndexSound
        <4> QED BY <2>1, <2>10, <3>3, <4>1, <4>2 DEF IndexSound
      <3>5. AllKept'
        <4> SUFFICES ASSUME NEW n \in Names, took'[n] # Absent, n \notin excused' PROVE Kept(n)' BY DEF AllKept
        <4>1. CASE n = op.name
          <5>1. meta[L + 1].name = n /\ meta[L + 1].hash = took[n].c /\ meta[L + 1].path = took[n].path /\ ~meta[L + 1].deleted
            BY <2>2, <2>3, <2>5, <2>10, <4>1
          <5>2. L + 1 \in 1..Len(_load_meta') BY <2>4, <3>3
          <5>3. quar'[n] = took'[n].c BY <2>1, <2>2, <2>10, <4>1
          <5> QED BY <2>1, <2>10, <5>1, <5>2, <5>3 DEF Kept
        <4>2. CASE n # op.name
          <5>1. Kept(n) BY <2>1, <2>10, <4>2 DEF AllKept, UnderWay
          <5>2. PICK i \in 1..L : /\ _load_meta[i].name = n /\ _load_meta[i].hash = took[n].c
                                  /\ _load_meta[i].path = took[n].path /\ ~_load_meta[i].deleted
            BY <5>1 DEF Kept
          <5>3. i \in 1..Len(_load_meta') /\ meta[i] = _load_meta[i] BY <2>4, <2>5, <3>3
          <5>4. quar'[n] = took'[n].c BY <2>1, <5>1 DEF Kept
          <5> QED BY <2>1, <2>10, <5>2, <5>3, <5>4 DEF Kept
        <4> QED BY <4>1, <4>2
      <3> QED BY <2>7, <2>8, <3>4, <3>5
    <2> QED BY <2>6, <2>9, <2>10
  <1> QED BY <1>1, <1>2, <1>3, <1>4

\* restore_file and delete_quarantined keep it: they change an entry's marks,
\* and remove the copies they were asked to.
LEMMA RestoreSteps ==
  ASSUME QuarantineInv,
         \/ \E n \in Names : DeleteCopy(n) \/ \E p \in Paths : RestoreWrite(n, p)
         \/ RestoreCheck \/ RestoreIndex \/ DeleteIndex
  PROVE  QuarantineInv'
  <1> USE DEF QuarantineInv
  <1>t. QTypeOK OBVIOUS
  <1>1. ASSUME NEW n \in Names, DeleteCopy(n) PROVE QuarantineInv'
    <2>1. /\ op = Idle /\ Listed(n) /\ quar' = [quar EXCEPT ![n] = Absent]
          /\ op' = Doing("delete", "index", Absent, n, Absent) /\ excused' = excused \cup {n}
          /\ UNCHANGED <<fs, now, index, took>> /\ _load_meta' = _load_meta
      BY <1>1 DEF DeleteCopy, _load_meta
    <2>2. op'.kind = "delete" /\ op'.name = n /\ op' \in Operations BY <2>1 DEF Doing, Operations
    <2>3. QTypeOK' BY <1>t, <2>1, <2>2 DEF QTypeOK
    <2>4. OperationSound' BY <2>1, <2>2 DEF OperationSound
    <2>5. IndexSound' BY <2>1 DEF IndexSound
    <2>6. AllKept'
      <3> SUFFICES ASSUME NEW m \in Names, took'[m] # Absent, m \notin excused' PROVE Kept(m)' BY DEF AllKept
      <3>1. m # n /\ m \notin excused /\ op.kind = "none" BY <2>1 DEF Idle, Doing
      <3>2. Kept(m) BY <2>1, <3>1 DEF AllKept, UnderWay
      <3>3. quar'[m] = quar[m] BY <1>t, <2>1, <3>1 DEF QTypeOK
      <3> QED BY <2>1, <3>2, <3>3, KeptStays
    <2> QED BY <2>3, <2>4, <2>5, <2>6
  <1>2. ASSUME NEW n \in Names, NEW p \in Paths, RestoreWrite(n, p) PROVE QuarantineInv'
    <2>1. PICK c \in {quar[n]} \cup IF Faults THEN {Torn} ELSE {} :
            /\ fs' = [fs EXCEPT ![p] = [c |-> c, t |-> now]]
            /\ op' = IF c = quar[n] THEN Doing("restore", "check", p, n, Absent) ELSE Idle
      BY <1>2 DEF RestoreWrite
    <2>2. /\ op = Idle /\ Listed(n) /\ quar[n] # Absent /\ UNCHANGED <<now, quar, index, took, excused>>
          /\ _load_meta' = _load_meta
      BY <1>2 DEF RestoreWrite, _load_meta
    <2>3. c \in Held BY <1>t, <2>2 DEF QTypeOK, Held
    <2>4. fs' \in [Paths -> [c : Held, t : 1..MaxTime] \cup {Absent}] BY <1>t, <2>1, <2>3 DEF QTypeOK
    <2>5. CASE op' = Idle
      <3>1. QTypeOK' BY <1>t, <2>2, <2>4, <2>5, IdleSound DEF QTypeOK
      <3> QED BY <2>2, <2>5, <3>1, IdleSound, QuarantineRestsOn DEF UnderWay, Idle, Doing
    <2>6. CASE op' = Doing("restore", "check", p, n, Absent)
      <3>1. op' \in Operations /\ op'.kind = "restore" /\ op'.pc = "check" /\ op'.name = n /\ op'.path = p
        BY <2>6 DEF Doing, Operations
      <3>2. QTypeOK' BY <1>t, <2>2, <2>4, <3>1 DEF QTypeOK
      <3>3. OperationSound' BY <2>2, <3>1 DEF OperationSound, Listed
      <3> QED BY <2>2, <3>2, <3>3, QuarantineRestsOn DEF UnderWay, Idle, Doing
    <2> QED BY <2>1, <2>5, <2>6
  <1>3. ASSUME RestoreCheck PROVE QuarantineInv'
    <2>1. /\ op.kind = "restore" /\ op.pc = "check" /\ fs[op.path] # Absent /\ UNCHANGED <<now, quar, index, took, excused>>
          /\ _load_meta' = _load_meta
      BY <1>3 DEF RestoreCheck, _load_meta
    <2>2. op.name \in Names /\ op.path \in Paths /\ Listed(op.name) BY <2>1 DEF OperationSound
    <2>3. \A n \in Names : ~UnderWay(n) BY <2>1 DEF UnderWay
    <2>4. CASE op' = Idle /\ fs' = [fs EXCEPT ![op.path] = Absent]
      <3>1. QTypeOK' BY <1>t, <2>1, <2>4, IdleSound DEF QTypeOK
      <3> QED BY <2>1, <2>3, <2>4, <3>1, IdleSound, QuarantineRestsOn
    <2>5. CASE /\ fs[op.path].c = Entry(op.name).hash
               /\ op' = [op EXCEPT !.pc = "index", !.c = fs[op.path].c] /\ UNCHANGED fs
      <3>1. fs[op.path].c \in Held BY <1>t, <2>1, <2>2 DEF QTypeOK
      <3>2. /\ op' \in Operations /\ op'.pc = "index" /\ op'.c = fs[op.path].c
            /\ op'.kind = "restore" /\ op'.name = op.name /\ op'.path = op.path
        BY <1>t, <2>1, <2>5, <3>1, OperationGoesOn
      <3>3. QTypeOK' BY <1>t, <2>1, <2>5, <3>2 DEF QTypeOK
      <3>4. op.name \notin excused => Entry(op.name).hash = took[op.name].c
        <4>1. took[op.name] # Absent /\ \E i \in 1..Len(_load_meta) : _load_meta[i].name = op.name
          BY <1>t, <2>2, EntryListed
        <4>2. op.name \notin excused => Kept(op.name) BY <2>2, <2>3, <4>1 DEF AllKept
        <4> QED BY <1>t, <4>2, EntryOfName DEF Kept
      <3>5. OperationSound' BY <2>1, <2>2, <2>5, <3>2, <3>4 DEF OperationSound, Listed
      <3> QED BY <2>1, <2>3, <3>3, <3>5, QuarantineRestsOn
    <2> QED BY <1>3, <2>4, <2>5 DEF RestoreCheck
  <1>4. ASSUME NEW r \in BOOLEAN, NEW d \in BOOLEAN, op.kind = IF d THEN "delete" ELSE "restore", op.pc = "index",
               _save_meta(SetEntry(op.name, r, d)), op' = Idle, UNCHANGED <<fs, now, quar, took>>
        PROVE  QuarantineInv'
    <2> DEFINE meta == SetEntry(op.name, r, d)  L == Len(_load_meta)
    <2>1. /\ meta \in Seq(MetaEntry) /\ Len(meta) = L
          /\ \A i \in 1..L : /\ meta[i].name = _load_meta[i].name /\ meta[i].hash = _load_meta[i].hash
                             /\ meta[i].path = _load_meta[i].path
                             /\ ~d \/ _load_meta[i].name # op.name => meta[i].deleted = _load_meta[i].deleted
      BY <1>t, SetEntries
    <2> HIDE DEF meta
    <2>2. /\ index' = Torn \/ index' \in Seq(MetaEntry)
          /\ excused \subseteq excused' /\ excused' \subseteq Names
          /\ \/ _load_meta' = meta /\ excused' = excused
             \/ /\ _load_meta' = <<>>
                /\ \A n \in Names : Listed(n) => n \in excused'
      BY <1>t, <1>4, <2>1, SaveMeta DEF meta
    <2>3. op' \in Operations /\ OperationSound' BY <1>4, IdleSound
    <2>4. QTypeOK' BY <1>t, <1>4, <2>2, <2>3 DEF QTypeOK
    <2>5. \A n \in Names : ~UnderWay(n) BY <1>4 DEF UnderWay
    <2>6. d => op.name \in excused BY <1>4 DEF OperationSound
    <2>7. CASE _load_meta' = <<>> /\ (\A n \in Names : Listed(n) => n \in excused')
      <3>1. IndexSound' BY <2>7 DEF IndexSound
      <3>2. AllKept' BY <1>4, <2>2, <2>5, <2>7 DEF AllKept, Kept, Listed
      <3> QED BY <2>3, <2>4, <3>1, <3>2
    <2>8. CASE _load_meta' = meta /\ excused' = excused
      <3>1. Len(_load_meta') = L BY <2>1, <2>8
      <3>2. IndexSound' BY <1>4, <2>1, <2>8, <3>1 DEF IndexSound
      <3>3. AllKept'
        <4> SUFFICES ASSUME NEW n \in Names, took'[n] # Absent, n \notin excused' PROVE Kept(n)' BY DEF AllKept
        <4>1. Kept(n) BY <1>4, <2>5, <2>8 DEF AllKept
        <4>2. PICK i \in 1..L : /\ _load_meta[i].name = n /\ _load_meta[i].hash = took[n].c
                                /\ _load_meta[i].path = took[n].path /\ ~_load_meta[i].deleted
          BY <4>1 DEF Kept
        <4>3. /\ meta[i].name = n /\ meta[i].hash = took[n].c /\ meta[i].path = took[n].path /\ ~meta[i].deleted
          BY <2>1, <2>6, <2>8, <4>2
        <4>4. quar'[n] = took'[n].c BY <1>4, <4>1 DEF Kept
        <4> QED BY <1>4, <2>8, <3>1, <4>3, <4>4 DEF Kept
      <3> QED BY <2>3, <2>4, <3>2, <3>3
    <2> QED BY <2>2, <2>7, <2>8
  <1>5. ASSUME RestoreIndex PROVE QuarantineInv'
    <2>1. /\ op.kind = "restore" /\ op.pc = "index" /\ _save_meta(SetEntry(op.name, TRUE, FALSE))
          /\ op' = Idle /\ UNCHANGED <<fs, now, quar, took>>
      BY <1>5 DEF RestoreIndex
    <2> QED BY <1>4, <2>1
  <1>6. ASSUME DeleteIndex PROVE QuarantineInv'
    <2>1. /\ op.kind = "delete" /\ op.pc = "index" /\ _save_meta(SetEntry(op.name, FALSE, TRUE))
          /\ op' = Idle /\ UNCHANGED <<fs, now, quar, took>>
      BY <1>6 DEF DeleteIndex
    <2> QED BY <1>4, <2>1
  <1> QED BY <1>1, <1>2, <1>3, <1>5, <1>6

\* Every step keeps the invariant.
LEMMA QStep == QuarantineInv /\ [QNext]_qvars => QuarantineInv'
  <1> SUFFICES ASSUME QuarantineInv, [QNext]_qvars PROVE QuarantineInv' OBVIOUS
  <1>t. QTypeOK BY DEF QuarantineInv
  <1>0. CASE UNCHANGED qvars
    <2>1. UNCHANGED <<fs, now, quar, index, op, took, excused>> BY <1>0 DEF qvars
    <2>2. QTypeOK' BY <1>t, <2>1 DEF QTypeOK
    <2>3. OperationSound' BY <2>1 DEF QuarantineInv, OperationSound, Listed, _load_meta
    <2> QED BY <2>1, <2>2, <2>3, QuarantineRestsOn DEF UnderWay
  <1>1. ASSUME Stops PROVE QuarantineInv'
    <2>1. op' = Idle /\ UNCHANGED <<fs, now, quar, index, took>> /\ _load_meta' = _load_meta
      BY <1>1 DEF Stops, _load_meta
    <2>2. excused' \subseteq Names /\ excused \subseteq excused' /\ \A n \in Names : UnderWay(n) => n \in excused'
      BY <1>1, <1>t DEF Stops, UnderWay, QuarantineInv, OperationSound, QTypeOK
    <2>3. QTypeOK' BY <1>t, <2>1, <2>2, IdleSound DEF QTypeOK
    <2>4. IndexSound' BY <2>1 DEF QuarantineInv, IndexSound
    <2>5. AllKept' BY <2>1, <2>2, KeptStays DEF QuarantineInv, AllKept
    <2> QED BY <2>1, <2>3, <2>4, <2>5, IdleSound DEF QuarantineInv
  <1>2. ASSUME Vanished PROVE QuarantineInv'
    <2>1. op' = Idle /\ op.pc # "index" /\ UNCHANGED <<fs, now, quar, index, took, excused>> BY <1>2 DEF Vanished
    <2>2. QTypeOK' BY <1>t, <2>1, IdleSound DEF QTypeOK
    <2> QED BY <2>1, <2>2, IdleSound, QuarantineRestsOn DEF UnderWay
  <1>3. ASSUME Tick \/ \E p \in Paths : HostWrites(p) \/ HostRemoves(p) PROVE QuarantineInv'
    <2>1. UNCHANGED <<quar, index, op, took, excused>> BY <1>3 DEF Tick, HostWrites, HostRemoves
    <2>2. fs' \in [Paths -> [c : Held, t : 1..MaxTime] \cup {Absent}] /\ now' \in 1..MaxTime
      <3>1. CASE Tick BY <1>t, <3>1, QuarantineAssumption DEF Tick, QTypeOK
      <3>2. ASSUME NEW p \in Paths, HostRemoves(p)
            PROVE  fs' \in [Paths -> [c : Held, t : 1..MaxTime] \cup {Absent}] /\ now' \in 1..MaxTime
        BY <1>t, <3>2 DEF HostRemoves, QTypeOK
      <3>3. ASSUME NEW p \in Paths, HostWrites(p)
            PROVE  fs' \in [Paths -> [c : Held, t : 1..MaxTime] \cup {Absent}] /\ now' \in 1..MaxTime
        <4>1. PICK c \in Contents, u \in 1..now : fs' = [fs EXCEPT ![p] = [c |-> c, t |-> u]] BY <3>3 DEF HostWrites
        <4>2. now' = now /\ now \in 1..MaxTime BY <1>t, <3>3 DEF HostWrites, QTypeOK
        <4>3. [c |-> c, t |-> u] \in [c : Held, t : 1..MaxTime] BY <4>2, QuarantineAssumption DEF Held
        <4> QED BY <1>t, <4>1, <4>2, <4>3 DEF QTypeOK
      <3> QED BY <1>3, <3>1, <3>2, <3>3
    <2>3. QTypeOK' BY <1>t, <2>1, <2>2 DEF QTypeOK
    <2>4. OperationSound' BY <2>1 DEF QuarantineInv, OperationSound, Listed, _load_meta
    <2> QED BY <2>1, <2>3, <2>4, QuarantineRestsOn DEF UnderWay
  <1> QED BY <1>0, <1>1, <1>2, <1>3, QuarantineSteps, RestoreSteps DEF QNext

\* Files, copies, index and operation keep their types.
THEOREM QuarantineType == QSpec => []QTypeOK
  <1>1. QuarantineInv => QTypeOK BY DEF QuarantineInv
  <1> QED BY <1>1, QStart, QStep, PTL DEF QSpec

\* Whatever else writes the files, and wherever an operation stops: what
\* quarantine_file took can be had back whole from its copy and its entry, and
\* restore_file calls restored only what is, the named losses apart.
THEOREM TakenCanBeHadBack == QSpec => []QuarantineKeeps
  <1>1. QuarantineInv => QuarantineKeeps
    <2> SUFFICES ASSUME QuarantineInv PROVE QuarantineKeeps OBVIOUS
    <2>1. TakenIsKept
      <3> SUFFICES ASSUME NEW n \in Names, took[n] # Absent, n \notin excused, ~(op.name = n /\ op.pc = "index")
                   PROVE  /\ quar[n] = took[n].c /\ Listed(n)
                          /\ Entry(n).hash = took[n].c /\ Entry(n).path = took[n].path /\ ~Entry(n).deleted
        BY DEF TakenIsKept
      <3>1. Kept(n) BY DEF QuarantineInv, AllKept, UnderWay
      <3> QED BY <3>1, EntryOfName DEF Kept, Listed, QuarantineInv
    <2>2. RestoredIsWhole BY DEF QuarantineInv, OperationSound, RestoredIsWhole
    <2> QED BY <2>1, <2>2 DEF QuarantineKeeps, QuarantineInv
  <1> QED BY <1>1, QStart, QStep, PTL DEF QSpec

-----------------------------------------------------------------------------
\* Monitor

\* The report under way is of a file and a date it had; nothing is recorded
\* before the first comparison, and nothing compares before the start.
WatchSound ==
  /\ todo \subseteq Paths
  /\ alarms \in [Paths -> 0..MaxTime]
  /\ unstored \in [Paths -> 0..MaxTime]
  /\ watcher = "emitting" => emitting \in [path : Paths, t : 1..MaxTime]
  /\ mode = "none" => watcher = "off" /\ ~running
  /\ mode = "none" \/ watcher = "baseline" => \A p \in Paths : seen[p] = 0

MonitorInv == QuarantineInv /\ MTypeOK /\ WatchSound

\* It holds when the monitor is made.
LEMMA MonitorStart == Init => MonitorInv
  <1> SUFFICES ASSUME Init PROVE MonitorInv OBVIOUS
  <1>1. QuarantineInv BY QStart DEF Init
  <1>2. 0 \in 0..MaxTime BY QuarantineAssumption
  <1> QED BY <1>1, <1>2 DEF Init, MonitorInv, MTypeOK, WatchSound

\* The date of a file that is there can be recorded.
LEMMA DateRecorded ==
  ASSUME QTypeOK, NEW p \in Paths, fs[p] # Absent
  PROVE  fs[p].t \in 1..MaxTime
  BY DEF QTypeOK

\* What a record becomes is a date.
LEMMA RecordTyped ==
  ASSUME MTypeOK, NEW p \in Paths, NEW t \in 1..MaxTime
  PROVE  Record(p, t) \in 0..MaxTime
  <1>1. seen[p] \in 0..MaxTime BY DEF MTypeOK
  <1>2. t \in 0..MaxTime BY QuarantineAssumption
  <1> QED BY <1>1, <1>2 DEF Record

\* A step keeps the records, or reports what it records.
LEMMA WatcherSteps ==
  ASSUME MonitorInv, Watches
  PROVE  /\ MTypeOK' /\ WatchSound'
         /\ \A p \in Paths : seen[p] # 0 /\ seen'[p] # seen[p] => seen'[p] \in {alarms'[p], unstored'[p]}
  <1> USE DEF MonitorInv, QuarantineInv
  <1>1. CASE Baseline
    <2>1. \A p \in Paths : (IF fs[p] = Absent THEN 0 ELSE Record(p, fs[p].t)) \in 0..MaxTime
      <3>1. ASSUME NEW p \in Paths, fs[p] # Absent PROVE Record(p, fs[p].t) \in 0..MaxTime
        <4>1. fs[p].t \in 1..MaxTime BY <3>1, DateRecorded
        <4> QED BY <4>1, RecordTyped
      <3>2. 0 \in 0..MaxTime BY QuarantineAssumption
      <3> HIDE DEF MonitorInv, QuarantineInv
      <3> QED BY <3>1, <3>2
    <2>2. seen' \in [Paths -> 0..MaxTime] BY <1>1, <2>1 DEF Baseline
    <2>3. \A p \in Paths : seen[p] = 0 BY <1>1 DEF Baseline, WatchSound
    <2> QED BY <1>1, <2>2, <2>3 DEF Baseline, MTypeOK, WatchSound
  <1>2. CASE RoundBegins BY <1>2 DEF RoundBegins, MTypeOK, WatchSound
  <1>3. ASSUME NEW p \in Paths, PollFile(p)
        PROVE  /\ MTypeOK' /\ WatchSound'
               /\ \A q \in Paths : seen[q] # 0 /\ seen'[q] # seen[q] => seen'[q] \in {alarms'[q], unstored'[q]}
    <2>1. CASE fs[p] # Absent /\ seen[p] # 0 /\ fs[p].t # seen[p]
      <3>1. emitting' = [path |-> p, t |-> fs[p].t] /\ watcher' = "emitting" /\ seen' = seen
        BY <1>3, <2>1 DEF PollFile
      <3>2. emitting' \in [path : Paths, t : 1..MaxTime] BY <2>1, <3>1, DateRecorded
      <3>3. mode # "none" BY <1>3 DEF PollFile, WatchSound
      <3> QED BY <1>3, <3>1, <3>2, <3>3 DEF PollFile, MTypeOK, WatchSound
    <2>2. CASE ~(fs[p] # Absent /\ seen[p] # 0 /\ fs[p].t # seen[p])
      <3>1. /\ seen' = IF fs[p] = Absent THEN seen ELSE [seen EXCEPT ![p] = Record(p, fs[p].t)]
            /\ UNCHANGED <<watcher, emitting>>
        BY <1>3, <2>2 DEF PollFile
      <3>2. seen' \in [Paths -> 0..MaxTime]
        <4>1. CASE fs[p] = Absent BY <3>1, <4>1 DEF MTypeOK
        <4>2. CASE fs[p] # Absent
          <5>1. Record(p, fs[p].t) \in 0..MaxTime BY <4>2, DateRecorded, RecordTyped
          <5> QED BY <3>1, <4>2, <5>1 DEF MTypeOK
        <4> QED BY <4>1, <4>2
      <3>3. \A q \in Paths : seen[q] # 0 => seen'[q] = seen[q]
        BY <2>2, <3>1 DEF Record, MTypeOK
      <3>4. mode # "none" /\ watcher = "polling" BY <1>3 DEF PollFile, WatchSound
      <3> QED BY <1>3, <3>1, <3>2, <3>3, <3>4 DEF PollFile, MTypeOK, WatchSound
    <2> QED BY <2>1, <2>2
  <1>4. CASE PollEmit
    <2>1. emitting.path \in Paths /\ emitting.t \in 1..MaxTime /\ emitting.t \in 0..MaxTime
      BY <1>4, QuarantineAssumption DEF PollEmit, WatchSound
    <2>2. Record(emitting.path, emitting.t) \in 0..MaxTime BY <2>1, RecordTyped
    <2>3. mode # "none" BY <1>4 DEF PollEmit, WatchSound
    <2>4. \/ alarms' = [alarms EXCEPT ![emitting.path] = emitting.t] /\ unstored' = unstored
          \/ unstored' = [unstored EXCEPT ![emitting.path] = emitting.t] /\ alarms' = alarms
      BY <1>4 DEF PollEmit
    <2>5. alarms' \in [Paths -> 0..MaxTime] /\ unstored' \in [Paths -> 0..MaxTime]
      BY <2>1, <2>4 DEF WatchSound
    <2>6. emitting.t \in {alarms'[emitting.path], unstored'[emitting.path]}
      BY <2>1, <2>4 DEF WatchSound
    <2>7. \A q \in Paths : seen'[q] # seen[q] => seen'[q] \in {alarms'[q], unstored'[q]}
      BY <1>4, <2>1, <2>6 DEF PollEmit, Record, MTypeOK
    <2> QED BY <1>4, <2>2, <2>3, <2>5, <2>7 DEF PollEmit, MTypeOK, WatchSound
  <1>5. CASE RoundEnds BY <1>5 DEF RoundEnds, MTypeOK, WatchSound
  <1> QED BY <1>1, <1>2, <1>3, <1>4, <1>5 DEF Watches

\* So it is with every step.
LEMMA MonitorSteps ==
  ASSUME MonitorInv, [Next]_vars
  PROVE  /\ MonitorInv'
         /\ \A p \in Paths : seen[p] # 0 /\ seen'[p] # seen[p] => seen'[p] \in {alarms'[p], unstored'[p]}
  <1>1. CASE UNCHANGED mvars /\ [QNext]_qvars
    <2>1. QuarantineInv' BY <1>1, QStep DEF MonitorInv
    <2> QED BY <1>1, <2>1 DEF mvars, MonitorInv, MTypeOK, WatchSound
  <1>2. ASSUME UNCHANGED qvars, MTypeOK' /\ WatchSound' PROVE MonitorInv'
    BY <1>2, QStep DEF MonitorInv
  <1>3. CASE start
    BY <1>2, <1>3 DEF start, MonitorInv, MTypeOK, WatchSound, qvars
  <1>4. CASE stop
    <2>1. mode # "none" BY <1>4 DEF stop, MonitorInv, WatchSound
    <2> QED BY <1>2, <1>4, <2>1 DEF stop, MonitorInv, MTypeOK, WatchSound, qvars
  <1>5. ASSUME reader' \in {"off", "starting", "reading", "ended"},
               caught' \cup missed' \subseteq Patterns,
               UNCHANGED <<qvars, mode, running, watcher, todo, emitting, seen, alarms, unstored>>
        PROVE  MonitorInv' /\ seen' = seen
    BY <1>2, <1>5 DEF MonitorInv, MTypeOK, WatchSound
  <1>6. CASE Reads \/ QuietSpell \/ EndOfFile \/ \E c \in Commands \cup Accesses : HostExecutes(c)
    <2>1. reader' \in {"off", "starting", "reading", "ended"}
      BY <1>6 DEF Reads, ReaderStarts, _check_suspicious_command, QuietSpell, EndOfFile, HostExecutes, MonitorInv, MTypeOK
    <2>2. UNCHANGED <<qvars, mode, running, watcher, todo, emitting, seen, alarms, unstored>>
      BY <1>6 DEF Reads, ReaderStarts, _check_suspicious_command, QuietSpell, EndOfFile, HostExecutes
    <2>3. caught' \cup missed' \subseteq Patterns
      <3>1. CASE _check_suspicious_command
        <4>1. Matches(Head(pipe)) \subseteq Patterns BY DEF Matches, _process_audit_line, Patterns
        <4>2. PICK lost \in SUBSET Matches(Head(pipe)) : caught' = Matches(Head(pipe)) \ lost /\ missed' = lost
          BY <3>1 DEF _check_suspicious_command
        <4> QED BY <4>1, <4>2
      <3>2. CASE ReaderStarts \/ QuietSpell \/ EndOfFile \/ \E c \in Commands \cup Accesses : HostExecutes(c)
        BY <3>2 DEF ReaderStarts, QuietSpell, EndOfFile, HostExecutes, MonitorInv, MTypeOK
      <3> QED BY <1>6, <3>1, <3>2 DEF Reads
    <2> QED BY <1>5, <2>1, <2>2, <2>3
  <1>7. CASE Watches
    <2>1. UNCHANGED qvars BY <1>7 DEF Watches, Baseline, RoundBegins, PollFile, PollEmit, RoundEnds
    <2> QED BY <1>2, <1>7, <2>1, WatcherSteps
  <1> QED BY <1>1, <1>3, <1>4, <1>6, <1>7 DEF Next, vars

\* The monitor's own state keeps its types.
THEOREM MonitorType == MonitorSpec => []MTypeOK
  <1>1. MonitorInv => MTypeOK BY DEF MonitorInv
  <1>2. MonitorInv /\ [Next]_vars => MonitorInv' BY MonitorSteps
  <1> QED BY <1>1, <1>2, MonitorStart, PTL DEF MonitorSpec

\* A recorded date changes only to one whose finding has been stored, or whose
\* storing failed, whoever writes the file meanwhile (_monitor_critical_files).
THEOREM ChangesAreRecorded == MonitorSpec => RecordsReported
  <1>1. MonitorInv /\ [Next]_vars => MonitorInv' BY MonitorSteps
  <1>2. MonitorInv /\ [Next]_vars
          => [\A p \in Paths : seen[p] # 0 /\ seen'[p] # seen[p] /\ running => seen'[p] \in {alarms'[p], unstored'[p]}]_vars
    BY MonitorSteps
  <1> QED BY <1>1, <1>2, MonitorStart, PTL DEF MonitorSpec, RecordsReported

-----------------------------------------------------------------------------
\* SSH trust

\* A connection is to a host; the key it looked up is still the one saved,
\* unless that was forgotten since; and it goes on only with a machine that
\* showed the key it looked up, if there was one.
JobSound(j) ==
  /\ job[j].pc # "none" => job[j].host \in Hosts
  /\ job[j].pc = "none" => job[j].pinned = "none"
  /\ job[j].pinned # "none" /\ job[j].epoch = epoch[job[j].host] => pinned[job[j].host] = job[j].pinned
  /\ job[j].pinned # "none" => job[j].epoch <= epoch[job[j].host]
  /\ job[j].pc = "save" => job[j].key \in Keys /\ job[j].pinned \in {"none", job[j].key}

\* Where no key is saved no command has run since; where one is, only on
\* machines with it.
RunsSound == \A h \in Hosts : runs[h] \subseteq {pinned[h]}

\* A request that decides is one that has yet to write.
RequestSound(r) ==
  /\ req[r].pc = "none" => req[r].op = "none"
  /\ req[r].op \in {"update", "delete"} => req[r].cred \in Creds
  /\ req[r].op = "schedule" => /\ req[r].to.host \in Hosts
                               /\ req[r].to.cred # "none" => Saved(req[r].to.cred) \/ req[r].to.cred \in raced
  /\ req[r].op = "delete" => \A s \in Scheds : sched[s].cred = req[r].cred => req[r].cred \in raced

SchedSound == \A s \in Scheds : /\ sched[s] # NoSched => sched[s].host \in Hosts
                                /\ sched[s].cred # "none" => Saved(sched[s].cred) \/ sched[s].cred \in raced

\* Those that are counting at the same time may all be right to go on.
Creating == {r \in Requests : req[r].op = "create"}
SavedCreds == {c \in Creds : Saved(c)}
LimitSound == Cardinality(SavedCreds) + Cardinality(Creating) <= MAX_PER_TENANT + Cardinality(Requests) - 1

TrustInv ==
  /\ SshTypeOK
  /\ \A j \in Jobs : JobSound(j)
  /\ RunsSound
  /\ ScopeKept
  /\ \A r \in Requests : RequestSound(r)
  /\ SchedSound
  /\ LimitSound
  /\ \A c \in Creds : creds[c].kind = creds[c].secret

-----------------------------------------------------------------------------

\* Nothing is saved and nobody is connected at first.
LEMMA TrustStart == SshInit => TrustInv
  <1> SUFFICES ASSUME SshInit PROVE TrustInv OBVIOUS
  <1> USE SshAssumption
  <1>1. NoCred \in Secrets /\ NoCred.kind = "none" /\ NoCred.secret = "none" BY DEF NoCred, Secrets
  <1>2. NoSched \in Tasks /\ NoSched.cred = "none" BY DEF NoSched, Tasks
  <1>3. NoJob \in JobStates /\ NoJob.pc = "none" /\ NoJob.pinned = "none" BY DEF NoJob, JobStates, JobStages
  <1>4. NoReq \in RequestStates /\ NoReq.pc = "none" /\ NoReq.op = "none" BY <1>2 DEF NoReq, RequestStates
  <1>5. \A s \in Scheds : (sched[s] = NoSched \/ sched[s].host \in Hosts) /\ sched[s].cred = "none"
    <2> SUFFICES ASSUME NEW s \in Scheds
                 PROVE  (sched[s] = NoSched \/ sched[s].host \in Hosts) /\ sched[s].cred = "none"
      OBVIOUS
    <2>1. sched[s] \in {NoSched} \cup {[host |-> h, cred |-> "none"] : h \in Hosts} BY DEF SshInit
    <2> QED BY <1>2, <2>1
  <1>6. SshTypeOK
    <2>1. sched \in [Scheds -> Tasks]
      <3>1. \E f \in [Scheds -> {NoSched} \cup {[host |-> h, cred |-> "none"] : h \in Hosts}] : sched = f BY DEF SshInit
      <3>2. {NoSched} \cup {[host |-> h, cred |-> "none"] : h \in Hosts} \subseteq Tasks BY <1>2 DEF Tasks
      <3> QED BY <3>1, <3>2
    <2>2. at \in [Hosts -> [key : Keys, net : Networks]]
      <3>1. [key : Keys, net : {"global", "mine"}] \subseteq [key : Keys, net : Networks] BY DEF Networks
      <3> QED BY <3>1 DEF SshInit
    <2> QED BY <1>1, <1>3, <1>4, <2>1, <2>2 DEF SshInit, SshTypeOK
  <1>7. LimitSound
    <2>1. SavedCreds = {} BY <1>1 DEF SshInit, SavedCreds, Saved
    <2>2. Creating = {} BY <1>4 DEF SshInit, Creating
    <2>3. Cardinality({}) = 0 /\ Cardinality(Requests) \in Nat BY FS_EmptySet, FS_CardinalityType
    <2> QED BY <2>1, <2>2, <2>3 DEF LimitSound
  <1>8. \A j \in Jobs : JobSound(j) BY <1>3 DEF SshInit, JobSound
  <1>9. \A r \in Requests : RequestSound(r) BY <1>4 DEF SshInit, RequestSound
  <1>10. SchedSound BY <1>2, <1>5 DEF SchedSound
  <1>11. ScopeKept /\ RunsSound BY <1>3 DEF SshInit, ScopeKept, RunsSound
  <1> QED BY <1>1, <1>6, <1>7, <1>8, <1>9, <1>10, <1>11 DEF TrustInv, SshInit

\* What a connection keeps of its state as it goes on.
LEMMA JobFields ==
  ASSUME SshTypeOK, NEW j \in Jobs
  PROVE  /\ job \in [Jobs -> JobStates] /\ job[j] \in JobStates
         /\ job[j].pc \in JobStages /\ job[j].host \in Hosts \cup {"none"} /\ job[j].cred \in Creds \cup {"none"}
         /\ job[j].pinned \in Keys \cup {"none"} /\ job[j].key \in Keys \cup {"none"}
         /\ job[j].epoch \in Nat /\ job[j].blind \in BOOLEAN /\ job[j].moved \in BOOLEAN
  <1>1. job[j] \in JobStates BY DEF SshTypeOK
  <1> QED BY <1>1 DEF SshTypeOK, JobStates

\* Refusing, and going on without looking at anything.
LEMMA JobEnds ==
  ASSUME SshTypeOK, NEW j \in Jobs, Refuse(j)
  PROVE  /\ job' \in [Jobs -> JobStates] /\ job'[j].pc = "none" /\ job'[j].pinned = "none"
         /\ \A i \in Jobs : i # j => job'[i] = job[i]
  <1>1. NoJob \in JobStates /\ NoJob.pc = "none" /\ NoJob.pinned = "none" BY DEF NoJob, JobStates, JobStages
  <1> QED BY <1>1, JobFields DEF Refuse

\* Going on changes where a connection is and nothing else.
LEMMA JobGoesOn ==
  ASSUME SshTypeOK, NEW j \in Jobs, NEW pc \in JobStages, To(j, pc)
  PROVE  /\ job' \in [Jobs -> JobStates] /\ job'[j].pc = pc
         /\ job'[j].host = job[j].host /\ job'[j].pinned = job[j].pinned /\ job'[j].key = job[j].key
         /\ job'[j].epoch = job[j].epoch /\ job'[j].blind = job[j].blind /\ job'[j].moved = job[j].moved
         /\ \A i \in Jobs : i # j => job'[i] = job[i]
  <1> DEFINE x == [job[j] EXCEPT !.pc = pc]
  <1>1. job \in [Jobs -> JobStates] /\ job[j] \in JobStates BY JobFields
  <1>2. /\ x \in JobStates /\ x.pc = pc /\ x.host = job[j].host /\ x.pinned = job[j].pinned /\ x.key = job[j].key
        /\ x.epoch = job[j].epoch /\ x.blind = job[j].blind /\ x.moved = job[j].moved
    BY <1>1 DEF JobStates
  <1>3. job' = [job EXCEPT ![j] = x] BY DEF To
  <1> HIDE DEF x
  <1> QED BY <1>1, <1>2, <1>3

\* A step of one connection, that leaves everything else alone but for a key
\* saved where there was none.
LEMMA JobStep ==
  ASSUME TrustInv, NEW j \in Jobs, job' \in [Jobs -> JobStates], \A i \in Jobs : i # j => job'[i] = job[i],
         UNCHANGED <<at, allowed, creds, sched, auth_secret, req, moves, epoch, raced>>,
         pinned' \in [Hosts -> Keys \cup {"none"}], runs' \in [Hosts -> SUBSET Keys],
         \A h \in Hosts : pinned[h] # "none" => pinned'[h] = pinned[h],
         RunsSound', JobSound(j)',
         job'[j].pc \in {"cred", "pin", "connect", "save", "run"} /\ ~job'[j].moved => Within(job'[j])
  PROVE  TrustInv'
  <1> USE DEF TrustInv
  <1>1. SshTypeOK' BY DEF SshTypeOK
  <1>2. \A i \in Jobs : JobSound(i)'
    <2> SUFFICES ASSUME NEW i \in Jobs, i # j PROVE JobSound(i)' OBVIOUS
    <2>1. job'[i] = job[i] /\ JobSound(i) /\ epoch' = epoch OBVIOUS
    <2>2. job[i].pinned # "none" => job[i].host \in Hosts BY <2>1 DEF JobSound
    <2>3. job[i].pinned \in Keys \cup {"none"} BY JobFields
    <2>4. "none" \notin Keys BY SshAssumption
    <2>5. job[i].pinned # "none" /\ job[i].epoch = epoch[job[i].host] => pinned'[job[i].host] = job[i].pinned
      BY <2>1, <2>2, <2>3, <2>4 DEF JobSound
    <2> QED BY <2>1, <2>5 DEF JobSound
  <1>3. ScopeKept' BY DEF ScopeKept, Within
  <1>4. \A c : Saved(c)' <=> Saved(c) BY DEF Saved
  <1>5. \A r \in Requests : RequestSound(r)' BY <1>4 DEF RequestSound
  <1>6. SchedSound' BY <1>4 DEF SchedSound
  <1>7. LimitSound' BY DEF LimitSound, SavedCreds, Creating, Saved
  <1> QED BY <1>1, <1>2, <1>3, <1>5, <1>6, <1>7

\* Every step of a connection keeps the invariant.
LEMMA ConnectionSteps ==
  ASSUME TrustInv, NEW j \in Jobs,
         \/ \E h \in Hosts, c \in Creds \cup {"none"} : Ask(j, h, c)
         \/ \E s \in Scheds : RunSchedule(j, s)
         \/ CheckScope(j) \/ _ssh_creds(j) \/ LookUp(j) \/ Connect(j) \/ SaveKey(j) \/ Close(j)
  PROVE  TrustInv'
  <1>t. SshTypeOK /\ JobSound(j) BY DEF TrustInv
  <1>r. RunsSound /\ "none" \notin Keys BY SshAssumption DEF TrustInv
  <1>p. pinned \in [Hosts -> Keys \cup {"none"}] /\ runs \in [Hosts -> SUBSET Keys] BY <1>t DEF SshTypeOK
  <1> DEFINE Rest == UNCHANGED <<at, allowed, creds, sched, auth_secret, req, moves, epoch, raced>>
  <1>0. ASSUME Refuse(j), Rest, UNCHANGED <<pinned, runs>> PROVE TrustInv'
    <2>1. /\ job' \in [Jobs -> JobStates] /\ job'[j].pc = "none" /\ job'[j].pinned = "none"
          /\ \A i \in Jobs : i # j => job'[i] = job[i]
      BY <1>t, <1>0, JobEnds
    <2>2. JobSound(j)' BY <2>1 DEF JobSound
    <2>3. RunsSound' BY <1>r, <1>0 DEF RunsSound
    <2> QED BY <1>p, <1>0, <2>1, <2>2, <2>3, JobStep
  <1>00. ASSUME NEW pc \in {"cred", "pin", "run"}, To(j, pc), Rest, UNCHANGED <<pinned, runs>>, job[j].pc # "none",
                job[j].pc \in {"cred", "pin", "connect", "save", "run"}
         PROVE TrustInv'
    <2>1. /\ job' \in [Jobs -> JobStates] /\ job'[j].pc = pc
          /\ job'[j].host = job[j].host /\ job'[j].pinned = job[j].pinned /\ job'[j].key = job[j].key
          /\ job'[j].epoch = job[j].epoch /\ job'[j].blind = job[j].blind /\ job'[j].moved = job[j].moved
          /\ \A i \in Jobs : i # j => job'[i] = job[i]
      <3>1. pc \in JobStages BY DEF JobStages
      <3> QED BY <1>t, <1>00, <3>1, JobGoesOn
    <2>2. JobSound(j)' BY <1>t, <1>00, <2>1 DEF JobSound
    <2>3. RunsSound' BY <1>r, <1>00 DEF RunsSound
    <2>4. job[j].host \in Hosts BY <1>t, <1>00 DEF JobSound
    <2>5. ~job[j].moved => Within(job[j]) BY <1>00 DEF TrustInv, ScopeKept
    <2>6. ~job'[j].moved => Within(job'[j]) BY <2>1, <2>5 DEF Within
    <2> QED BY <1>p, <1>00, <2>1, <2>2, <2>3, <2>6, JobStep
  <1>1. ASSUME NEW h \in Hosts, NEW c \in Creds \cup {"none"}, Ask(j, h, c) PROVE TrustInv'
    <2> DEFINE x == [NoJob EXCEPT !.pc = "scope", !.host = h, !.cred = c]
    <2>1. x \in JobStates /\ x.pc = "scope" /\ x.host = h /\ x.pinned = "none"
      BY DEF NoJob, JobStates, JobStages
    <2>2. job' = [job EXCEPT ![j] = x] /\ Rest /\ UNCHANGED <<pinned, runs>> BY <1>1 DEF Ask
    <2> HIDE DEF x
    <2>3. job' \in [Jobs -> JobStates] /\ job'[j] = x /\ \A i \in Jobs : i # j => job'[i] = job[i]
      BY <1>t, <2>1, <2>2, JobFields
    <2>4. JobSound(j)' BY <2>1, <2>3 DEF JobSound
    <2>5. RunsSound' BY <1>r, <2>2 DEF RunsSound
    <2> QED BY <1>p, <2>1, <2>2, <2>3, <2>4, <2>5, JobStep
  <1>2. ASSUME NEW s \in Scheds, RunSchedule(j, s) PROVE TrustInv'
    <2>1. sched[s] # NoSched /\ Ask(j, sched[s].host, sched[s].cred) BY <1>2 DEF RunSchedule
    <2>2. sched[s].host \in Hosts BY <2>1 DEF TrustInv, SchedSound
    <2>3. sched[s].cred \in Creds \cup {"none"}
      <3>1. sched[s] \in Tasks BY <1>t DEF SshTypeOK
      <3> QED BY <3>1 DEF Tasks
    <2> QED BY <1>1, <2>1, <2>2, <2>3
  <1>3. ASSUME CheckScope(j) PROVE TrustInv'
    <2>1. Rest /\ UNCHANGED <<pinned, runs>> /\ job[j].pc = "scope" BY <1>3 DEF CheckScope
    <2>2. PICK resolved \in Resolves :
             \/ Refuse(j)
             \/ /\ ~_out_of_scope(job[j].host, resolved)
                /\ job' = [job EXCEPT ![j] = [job[j] EXCEPT !.pc = "cred", !.blind = ~resolved]]
      BY <1>3 DEF CheckScope
    <2>3. CASE Refuse(j) BY <1>0, <2>1, <2>3
    <2>4. CASE /\ ~_out_of_scope(job[j].host, resolved)
               /\ job' = [job EXCEPT ![j] = [job[j] EXCEPT !.pc = "cred", !.blind = ~resolved]]
      <3> DEFINE b == ~resolved
                 x == [job[j] EXCEPT !.pc = "cred", !.blind = b]
      <3>1. job[j].host \in Hosts BY <1>t, <2>1 DEF JobSound
      <3>2. b \in BOOLEAN /\ job[j] \in JobStates BY <1>t, JobFields
      <3>3. job' = [job EXCEPT ![j] = x] BY <2>4
      <3>4. Within([host |-> job[j].host, blind |-> b])
        <4>1. at[job[j].host] \in [key : Keys, net : Networks] /\ allowed \subseteq {"domain", "mine"}
          BY <1>t, <3>1 DEF SshTypeOK
        <4>2. at[job[j].host].net \in {"global", "mine", "foreign"} BY <4>1 DEF Networks
        <4> QED BY <2>4, <4>1, <4>2 DEF _out_of_scope, check, Within
      <3> HIDE DEF b
      <3>5. /\ x \in JobStates /\ x.pc = "cred" /\ x.host = job[j].host /\ x.pinned = job[j].pinned
            /\ x.key = job[j].key /\ x.epoch = job[j].epoch /\ x.blind = b /\ x.moved = job[j].moved
        BY <3>2 DEF JobStates, JobStages
      <3> HIDE DEF x
      <3>6. job' \in [Jobs -> JobStates] /\ job'[j] = x /\ \A i \in Jobs : i # j => job'[i] = job[i]
        BY <1>t, <3>3, <3>5, JobFields
      <3>7. JobSound(j)' BY <1>t, <2>1, <3>1, <3>5, <3>6 DEF JobSound
      <3>8. RunsSound' BY <1>r, <2>1 DEF RunsSound
      <3>9. Within(job'[j]) BY <3>4, <3>5, <3>6 DEF Within
      <3> QED BY <1>p, <2>1, <3>6, <3>7, <3>8, <3>9, JobStep
    <2> QED BY <2>2, <2>3, <2>4
  <1>4. ASSUME _ssh_creds(j) PROVE TrustInv'
    <2>1. Rest /\ UNCHANGED <<pinned, runs>> /\ job[j].pc = "cred" BY <1>4 DEF _ssh_creds
    <2>2. Refuse(j) \/ To(j, "pin") BY <1>4 DEF _ssh_creds
    <2> QED BY <1>0, <1>00, <2>1, <2>2
  <1>5. ASSUME LookUp(j) PROVE TrustInv'
    <2> DEFINE x == [job[j] EXCEPT !.pc = "connect", !.pinned = pinned[job[j].host], !.epoch = epoch[job[j].host]]
    <2>1. Rest /\ UNCHANGED <<pinned, runs>> /\ job[j].pc = "pin" /\ job' = [job EXCEPT ![j] = x] BY <1>5 DEF LookUp
    <2>2. job[j].host \in Hosts BY <1>t, <2>1 DEF JobSound
    <2>3. pinned[job[j].host] \in Keys \cup {"none"} /\ epoch[job[j].host] \in Nat BY <1>t, <2>2 DEF SshTypeOK
    <2>4. /\ x \in JobStates /\ x.pc = "connect" /\ x.host = job[j].host /\ x.moved = job[j].moved /\ x.blind = job[j].blind
          /\ x.pinned = pinned[job[j].host] /\ x.epoch = epoch[job[j].host]
      <3>1. job[j] \in JobStates BY <1>t, JobFields
      <3> QED BY <2>3, <3>1 DEF JobStates, JobStages
    <2> HIDE DEF x
    <2>5. job' \in [Jobs -> JobStates] /\ job'[j] = x /\ \A i \in Jobs : i # j => job'[i] = job[i]
      BY <1>t, <2>1, <2>4, JobFields
    <2>6. JobSound(j)' BY <2>1, <2>2, <2>3, <2>4, <2>5 DEF JobSound
    <2>7. RunsSound' BY <1>r, <2>1 DEF RunsSound
    <2>8. ~job[j].moved => Within(job[j]) BY <2>1 DEF TrustInv, ScopeKept
    <2>8a. ~job'[j].moved => Within(job'[j]) BY <2>4, <2>5, <2>8 DEF Within
    <2> QED BY <1>p, <2>1, <2>4, <2>5, <2>6, <2>7, <2>8a, JobStep
  <1>6. ASSUME Connect(j) PROVE TrustInv'
    <2>1. Rest /\ UNCHANGED <<pinned, runs>> /\ job[j].pc = "connect" BY <1>6 DEF Connect
    <2> DEFINE k == at[job[j].host].key
               x == [job[j] EXCEPT !.pc = "save", !.key = k]
    <2>2. CASE Refuse(j) BY <1>0, <2>1, <2>2
    <2>3. CASE job[j].pinned \in {"none", k} /\ job' = [job EXCEPT ![j] = x]
      <3>1. job[j].host \in Hosts BY <1>t, <2>1 DEF JobSound
      <3>2. k \in Keys
        <4>1. at[job[j].host] \in [key : Keys, net : Networks] BY <1>t, <3>1 DEF SshTypeOK
        <4> QED BY <4>1
      <3> HIDE DEF k
      <3>3. /\ x \in JobStates /\ x.pc = "save" /\ x.host = job[j].host /\ x.blind = job[j].blind /\ x.moved = job[j].moved /\ x.key = k
            /\ x.pinned = job[j].pinned /\ x.epoch = job[j].epoch
        <4>1. job[j] \in JobStates BY <1>t, JobFields
        <4> QED BY <3>2, <4>1 DEF JobStates, JobStages
      <3> HIDE DEF x
      <3>4. job' \in [Jobs -> JobStates] /\ job'[j] = x /\ \A i \in Jobs : i # j => job'[i] = job[i]
        BY <1>t, <2>3, <3>3, JobFields
      <3>5. JobSound(j)' BY <1>t, <2>1, <2>3, <3>1, <3>2, <3>3, <3>4 DEF JobSound
      <3>6. RunsSound' BY <1>r, <2>1 DEF RunsSound
      <3>7. ~job[j].moved => Within(job[j]) BY <2>1 DEF TrustInv, ScopeKept
      <3>7a. ~job'[j].moved => Within(job'[j]) BY <3>3, <3>4, <3>7 DEF Within
      <3> QED BY <1>p, <2>1, <3>3, <3>4, <3>5, <3>6, <3>7a, JobStep
    <2> QED BY <1>6, <2>2, <2>3 DEF Connect
  <1>7. ASSUME SaveKey(j) PROVE TrustInv'
    <2> DEFINE h == job[j].host  k == job[j].key
    <2>1. Rest /\ job[j].pc = "save" BY <1>7 DEF SaveKey
    <2>2. CASE Refuse(j) /\ UNCHANGED <<pinned, runs>> BY <1>0, <2>1, <2>2
    <2>3. CASE /\ IF job[j].pinned = "none" THEN Learn(h, k) ELSE UNCHANGED pinned
               /\ To(j, "run")
               /\ runs' = IF job[j].pinned # "none" /\ job[j].epoch = epoch[h]
                          THEN [runs EXCEPT ![h] = @ \cup {k}] ELSE runs
      <3>1. h \in Hosts /\ k \in Keys /\ job[j].pinned \in {"none", k} BY <1>t, <2>1 DEF JobSound
      <3>2. /\ job' \in [Jobs -> JobStates] /\ job'[j].pc = "run"
            /\ job'[j].host = h /\ job'[j].pinned = job[j].pinned /\ job'[j].key = k
            /\ job'[j].epoch = job[j].epoch /\ job'[j].blind = job[j].blind /\ job'[j].moved = job[j].moved
            /\ \A i \in Jobs : i # j => job'[i] = job[i]
        <4>1. "run" \in JobStages BY DEF JobStages
        <4> QED BY <1>t, <2>3, <4>1, JobGoesOn
      <3> HIDE DEF h, k
      <3>3. /\ pinned' \in [Hosts -> Keys \cup {"none"}]
            /\ \A g \in Hosts : pinned[g] # "none" => pinned'[g] = pinned[g]
            /\ job[j].pinned # "none" => pinned' = pinned
        BY <1>p, <2>3, <3>1 DEF Learn
      <3>4. job[j].pinned # "none" /\ job[j].epoch = epoch[h] => pinned[h] = k /\ pinned' = pinned
        BY <1>t, <3>1, <3>3 DEF JobSound, h
      <3>5. \A g \in Hosts : pinned[g] = "none" => runs[g] = {} BY <1>p, <1>r DEF RunsSound
      <3>6. runs' \in [Hosts -> SUBSET Keys] BY <1>p, <2>3, <3>1
      <3>7. RunsSound'
        <4>1. CASE job[j].pinned # "none" /\ job[j].epoch = epoch[h]
          <5>1. runs' = [runs EXCEPT ![h] = @ \cup {k}] BY <2>3, <4>1
          <5> QED BY <1>p, <1>r, <3>1, <3>4, <4>1, <5>1 DEF RunsSound
        <4>2. CASE ~(job[j].pinned # "none" /\ job[j].epoch = epoch[h])
          <5>1. runs' = runs BY <2>3, <4>2
          <5> QED BY <1>r, <3>3, <3>5, <5>1 DEF RunsSound
        <4> QED BY <4>1, <4>2
      <3>8. JobSound(j)' BY <1>t, <2>1, <3>1, <3>2, <3>4 DEF JobSound, h
      <3>9. ~job[j].moved => Within(job[j]) BY <2>1 DEF TrustInv, ScopeKept
      <3>9a. ~job'[j].moved => Within(job'[j]) BY <3>2, <3>9 DEF Within, h
      <3> QED BY <2>1, <3>2, <3>3, <3>6, <3>7, <3>8, <3>9a, JobStep
    <2> QED BY <1>7, <2>2, <2>3 DEF SaveKey
  <1>8. ASSUME Close(j) PROVE TrustInv'
    BY <1>0, <1>8 DEF Close
  <1> QED BY <1>1, <1>2, <1>3, <1>4, <1>5, <1>6, <1>7, <1>8

-----------------------------------------------------------------------------

\* Steps that leave the connections, the hosts and their keys alone keep what
\* the invariant says of them.
LEMMA StoreStep ==
  ASSUME TrustInv, UNCHANGED <<at, allowed, pinned, auth_secret, job, moves, epoch, runs>>,
         creds' \in [Creds -> Secrets], sched' \in [Scheds -> Tasks], req' \in [Requests -> RequestStates],
         raced' \subseteq Creds, \A r \in Requests : RequestSound(r)', SchedSound', LimitSound',
         \A c \in Creds : creds'[c].kind = creds'[c].secret
  PROVE  TrustInv'
  <1> USE DEF TrustInv
  <1>1. SshTypeOK' BY DEF SshTypeOK
  <1>2. \A j \in Jobs : JobSound(j)' BY DEF JobSound
  <1>3. RunsSound' /\ ScopeKept' BY DEF RunsSound, ScopeKept, Within
  <1> QED BY <1>1, <1>2, <1>3

\* What a request holds.
LEMMA RequestFields ==
  ASSUME SshTypeOK, NEW r \in Requests
  PROVE  /\ req \in [Requests -> RequestStates] /\ req[r] \in RequestStates
         /\ req[r].cred \in Creds \cup {"none"} /\ req[r].to \in Tasks
         /\ req[r].to.cred \in Creds \cup {"none"} /\ req[r].to.host \in Hosts \cup {"none"}
  <1>1. req[r] \in RequestStates BY DEF SshTypeOK
  <1>2. req[r].to \in Tasks BY <1>1 DEF RequestStates
  <1> QED BY <1>1, <1>2 DEF SshTypeOK, RequestStates, Tasks

\* What a scheduled task holds.
LEMMA SchedFields ==
  ASSUME SshTypeOK, NEW s \in Scheds
  PROVE  /\ sched \in [Scheds -> Tasks] /\ sched[s] \in Tasks
         /\ sched[s].cred \in Creds \cup {"none"} /\ sched[s].host \in Hosts \cup {"none"}
  <1>1. sched[s] \in Tasks BY DEF SshTypeOK
  <1> QED BY <1>1 DEF SshTypeOK, Tasks

\* A request that ends holds nothing.
LEMMA RequestEnds ==
  ASSUME SshTypeOK, NEW r \in Requests, Ends(r)
  PROVE  /\ req' \in [Requests -> RequestStates] /\ req'[r].pc = "none" /\ req'[r].op = "none"
         /\ req'[r].cred = "none" /\ req'[r].to.cred = "none"
         /\ \A q \in Requests : q # r => req'[q] = req[q]
  <1>1. NoSched \in Tasks /\ NoSched.cred = "none" BY DEF NoSched, Tasks
  <1>2. NoReq \in RequestStates /\ NoReq.pc = "none" /\ NoReq.op = "none" /\ NoReq.cred = "none" /\ NoReq.to = NoSched
    BY <1>1 DEF NoReq, RequestStates
  <1> QED BY <1>1, <1>2, RequestFields DEF Ends

\* A request that has decided holds what it will write.
LEMMA RequestGoes ==
  ASSUME SshTypeOK, NEW r \in Requests, NEW what \in {"create", "update", "delete", "schedule"},
         NEW c \in Creds \cup {"none"}, NEW to \in Tasks, Goes(r, what, c, to)
  PROVE  /\ req' \in [Requests -> RequestStates] /\ req'[r].pc = "write" /\ req'[r].op = what
         /\ req'[r].cred = c /\ req'[r].to = to
         /\ req[r].pc = "none"
         /\ \A q \in Requests : q # r => req'[q] = req[q]
  <1> DEFINE x == [pc |-> "write", op |-> what, cred |-> c, to |-> to]
  <1>1. x \in RequestStates /\ x.pc = "write" /\ x.op = what /\ x.cred = c /\ x.to = to BY DEF RequestStates
  <1>2. req' = [req EXCEPT ![r] = x] /\ req[r].pc = "none" BY DEF Goes
  <1> HIDE DEF x
  <1> QED BY <1>1, <1>2, RequestFields

\* The numbers that the limit is about.
LEMMA Counts ==
  /\ IsFiniteSet(SavedCreds) /\ IsFiniteSet(Creating)
  /\ Cardinality(SavedCreds) \in Nat /\ Cardinality(Creating) \in Nat /\ Cardinality(Requests) \in Nat
  /\ Cardinality(Creating) <= Cardinality(Requests)
  <1>1. SavedCreds \subseteq Creds /\ Creating \subseteq Requests BY DEF SavedCreds, Creating
  <1> QED BY <1>1, SshAssumption, FS_Subset, FS_CardinalityType

\* A request that was not counting and is not, with no credential more, keeps
\* the limit.
LEMMA LimitHolds ==
  ASSUME LimitSound, SavedCreds' \subseteq SavedCreds, Creating' \subseteq Creating
  PROVE  LimitSound'
  <1>1. IsFiniteSet(SavedCreds') /\ Cardinality(SavedCreds') \in Nat /\ Cardinality(SavedCreds') <= Cardinality(SavedCreds)
    BY Counts, FS_Subset, FS_CardinalityType
  <1>2. IsFiniteSet(Creating') /\ Cardinality(Creating') \in Nat /\ Cardinality(Creating') <= Cardinality(Creating)
    BY Counts, FS_Subset, FS_CardinalityType
  <1>3. /\ Cardinality(SavedCreds') <= Cardinality(SavedCreds) /\ Cardinality(SavedCreds') = Cardinality(SavedCreds)'
        /\ Cardinality(Creating') = Cardinality(Creating)'
    BY <1>1
  <1> QED BY <1>1, <1>2, <1>3, Counts, SshAssumption DEF LimitSound

\* Of the credentials and of the schedules made with them.
LEMMA RequestSteps ==
  ASSUME TrustInv, NEW r \in Requests,
         \/ api_ssh_credentials_create(r) \/ CredentialUpdate(r) \/ CredentialDelete(r)
         \/ \E c \in Creds : \/ CredentialInsert(r, c)
                             \/ api_ssh_credentials_update(r, c)
                             \/ api_ssh_credentials_delete(r, c)
         \/ \E h \in Hosts, c \in Creds \cup {"none"} : api_schedules_create(r, h, c)
         \/ \E s \in Scheds : ScheduleWrite(r, s)
  PROVE  TrustInv'
  <1> USE DEF TrustInv
  <1>t. SshTypeOK /\ SchedSound /\ LimitSound /\ "none" \notin Creds BY SshAssumption
  <1>n. NoSched \in Tasks /\ NoSched.cred = "none" BY DEF NoSched, Tasks
  <1>c. creds \in [Creds -> Secrets] /\ sched \in [Scheds -> Tasks] /\ raced \subseteq Creds BY DEF SshTypeOK
  <1> DEFINE Rest == UNCHANGED <<at, allowed, pinned, auth_secret, job, moves, epoch, runs>>
  <1>g. ASSUME NEW what \in {"update", "delete", "schedule"}, NEW c \in Creds \cup {"none"}, NEW to \in Tasks,
               Goes(r, what, c, to), Rest, UNCHANGED <<creds, sched, raced>>,
               what \in {"update", "delete"} => c \in Creds,
               what = "delete" => \A s \in Scheds : sched[s].cred # c,
               what = "schedule" => to.host \in Hosts /\ (to.cred # "none" => Saved(to.cred))
        PROVE  TrustInv'
    <2>1. /\ req' \in [Requests -> RequestStates] /\ req'[r].pc = "write" /\ req'[r].op = what
          /\ req'[r].cred = c /\ req'[r].to = to
          /\ \A q \in Requests : q # r => req'[q] = req[q]
      BY <1>t, <1>g, RequestGoes
    <2>2. \A d : Saved(d)' <=> Saved(d) BY <1>g DEF Saved
    <2>3. RequestSound(r)' BY <1>g, <2>1, <2>2 DEF RequestSound
    <2>4. \A q \in Requests : q # r => RequestSound(q)' BY <1>g, <2>1, <2>2 DEF RequestSound
    <2>5. SchedSound' BY <1>t, <1>g, <2>2 DEF SchedSound
    <2>6. LimitSound'
      <3>1. SavedCreds' \subseteq SavedCreds BY <2>2 DEF SavedCreds
      <3>2. Creating' \subseteq Creating BY <1>g, <2>1 DEF Creating
      <3> QED BY <1>t, <3>1, <3>2, LimitHolds
    <2> QED BY <1>c, <1>g, <2>1, <2>3, <2>4, <2>5, <2>6, StoreStep
  <1>1. ASSUME api_ssh_credentials_create(r) PROVE TrustInv'
    <2>0. Goes(r, "create", "none", NoSched) /\ Rest /\ UNCHANGED <<creds, sched, raced>>
      BY <1>1 DEF api_ssh_credentials_create
    <2>1. /\ req' \in [Requests -> RequestStates] /\ req'[r].op = "create"
          /\ \A q \in Requests : q # r => req'[q] = req[q]
      BY <1>t, <1>n, <2>0, RequestGoes
    <2>2. \A d : Saved(d)' <=> Saved(d) BY <2>0 DEF Saved
    <2>3. RequestSound(r)'
      <3>1. req'[r].pc = "write" BY <1>t, <1>n, <2>0, RequestGoes
      <3> QED BY <2>1, <3>1 DEF RequestSound
    <2>4. \A q \in Requests : q # r => RequestSound(q)' BY <2>0, <2>1, <2>2 DEF RequestSound
    <2>5. SchedSound' BY <1>t, <2>0, <2>2 DEF SchedSound
    <2>6. LimitSound'
      <3>1. SavedCreds' = SavedCreds BY <2>2 DEF SavedCreds
      <3>2. Cardinality(SavedCreds) < MAX_PER_TENANT BY <1>1 DEF api_ssh_credentials_create, SavedCreds
      <3>3. Creating' \subseteq Requests BY DEF Creating
      <3>4. Cardinality(Creating') \in Nat /\ Cardinality(Creating') <= Cardinality(Requests)
        BY <3>3, SshAssumption, FS_Subset, FS_CardinalityType
      <3>5. Cardinality(Creating') = Cardinality(Creating)' /\ Cardinality(SavedCreds)' = Cardinality(SavedCreds)
        BY <3>1
      <3> QED BY <3>2, <3>4, <3>5, Counts, SshAssumption DEF LimitSound
    <2> QED BY <1>c, <2>0, <2>1, <2>3, <2>4, <2>5, <2>6, StoreStep
  <1>2. ASSUME CredentialUpdate(r) PROVE TrustInv'
    <2>0. Ends(r) /\ Rest /\ UNCHANGED <<sched, raced>> /\ req[r].op = "update" BY <1>2 DEF CredentialUpdate
    <2>1. /\ req' \in [Requests -> RequestStates] /\ req'[r].pc = "none" /\ req'[r].op = "none"
          /\ \A q \in Requests : q # r => req'[q] = req[q]
      BY <1>t, <2>0, RequestEnds
    <2>u. req[r].cred \in Creds BY <2>0 DEF RequestSound
    <2>2. PICK k \in {"key", "password"} :
             creds' = IF Saved(req[r].cred)
                      THEN [creds EXCEPT ![req[r].cred] = [kind |-> k, secret |-> k, sealed |-> auth_secret]]
                      ELSE creds
      BY <1>2 DEF CredentialUpdate
    <2> DEFINE x == [kind |-> k, secret |-> k, sealed |-> auth_secret]
    <2>x. x \in Secrets /\ x.kind = k /\ x.secret = k BY DEF Secrets, SshTypeOK
    <2> HIDE DEF x
    <2>3. creds' \in [Creds -> Secrets] /\ \A c \in Creds : creds'[c] = creds[c] \/ (creds'[c] = x /\ Saved(c))
      BY <1>c, <2>u, <2>2, <2>x DEF x
    <2>4. \A c \in Creds : (Saved(c)' <=> Saved(c)) /\ creds'[c].kind = creds'[c].secret
      BY <2>3, <2>x DEF Saved
    <2>5. \A q \in Requests : req[q].to.cred \in Creds \cup {"none"} BY <1>t, RequestFields
    <2>6. RequestSound(r)' BY <2>1 DEF RequestSound
    <2>7. \A q \in Requests : q # r => RequestSound(q)' BY <2>0, <2>1, <2>4, <2>5 DEF RequestSound
    <2>8. SchedSound'
      <3>1. \A s \in Scheds : sched[s].cred \in Creds \cup {"none"} BY <1>t, SchedFields
      <3> QED BY <1>t, <2>0, <2>4, <3>1 DEF SchedSound
    <2>9. LimitSound'
      <3>1. SavedCreds' \subseteq SavedCreds BY <2>4 DEF SavedCreds
      <3>2. Creating' \subseteq Creating BY <2>1 DEF Creating
      <3> QED BY <1>t, <3>1, <3>2, LimitHolds
    <2> QED BY <1>c, <2>0, <2>1, <2>3, <2>4, <2>6, <2>7, <2>8, <2>9, StoreStep
  <1>3. ASSUME CredentialDelete(r) PROVE TrustInv'
    <2>0. /\ Ends(r) /\ Rest /\ UNCHANGED sched /\ req[r].op = "delete"
          /\ creds' = [creds EXCEPT ![req[r].cred] = NoCred]
          /\ raced' = IF \E q \in Requests : req[q].op = "schedule" /\ req[q].to.cred = req[r].cred
                      THEN raced \cup {req[r].cred} ELSE raced
      BY <1>3 DEF CredentialDelete
    <2>1. /\ req' \in [Requests -> RequestStates] /\ req'[r].pc = "none" /\ req'[r].op = "none"
          /\ \A q \in Requests : q # r => req'[q] = req[q]
      BY <1>t, <2>0, RequestEnds
    <2>u. req[r].cred \in Creds BY <2>0 DEF RequestSound
    <2>x. NoCred \in Secrets /\ NoCred.kind = "none" /\ NoCred.secret = "none" BY DEF NoCred, Secrets
    <2>3. /\ creds' \in [Creds -> Secrets]
          /\ \A c \in Creds : creds'[c] = (IF c = req[r].cred THEN NoCred ELSE creds[c])
      BY <1>c, <2>0, <2>x
    <2>4. \A c \in Creds : /\ (Saved(c)' <=> (c # req[r].cred /\ Saved(c)))
                           /\ creds'[c].kind = creds'[c].secret
      BY <2>u, <2>3, <2>x DEF Saved
    <2>5. raced \subseteq raced' /\ raced' \subseteq Creds BY <1>c, <2>0, <2>u
    <2>6. RequestSound(r)' BY <2>1 DEF RequestSound
    <2>7. ASSUME NEW q \in Requests, q # r PROVE RequestSound(q)'
      <3>1. req'[q] = req[q] /\ RequestSound(q) BY <2>1, <2>7
      <3>2. req[q].to.cred \in Creds \cup {"none"} BY <1>t, RequestFields
      <3>3. ASSUME req[q].op = "schedule", req[q].to.cred # "none"
            PROVE  Saved(req[q].to.cred)' \/ req[q].to.cred \in raced'
        <4>1. CASE req[q].to.cred = req[r].cred BY <2>0, <3>3, <4>1
        <4>2. CASE req[q].to.cred # req[r].cred
          BY <2>4, <2>5, <3>1, <3>2, <3>3, <4>2 DEF RequestSound
        <4> QED BY <4>1, <4>2
      <3>4. req[q].op = "delete" => \A s \in Scheds : sched'[s].cred = req[q].cred => req[q].cred \in raced'
        BY <2>0, <2>5, <3>1 DEF RequestSound
      <3> QED BY <3>1, <3>3, <3>4 DEF RequestSound
    <2>8. SchedSound'
      <3>1. \A s \in Scheds : sched[s].cred \in Creds \cup {"none"} BY <1>t, SchedFields
      <3>2. RequestSound(r) OBVIOUS
      <3>3. \A s \in Scheds : sched[s].cred = req[r].cred => req[r].cred \in raced BY <2>0, <3>2 DEF RequestSound
      <3> QED BY <1>t, <2>0, <2>4, <2>5, <3>1, <3>3 DEF SchedSound
    <2>9. LimitSound'
      <3>1. SavedCreds' \subseteq SavedCreds BY <2>4 DEF SavedCreds
      <3>2. Creating' \subseteq Creating BY <2>1 DEF Creating
      <3> QED BY <1>t, <3>1, <3>2, LimitHolds
    <2> QED BY <1>c, <2>0, <2>1, <2>3, <2>4, <2>5, <2>6, <2>7, <2>8, <2>9, StoreStep
  <1>4. ASSUME NEW c \in Creds, CredentialInsert(r, c) PROVE TrustInv'
    <2>0. /\ Ends(r) /\ Rest /\ UNCHANGED sched /\ req[r].op = "create" /\ ~Saved(c) /\ raced' = raced \ {c}
          /\ \A s \in Scheds : sched[s].cred # c
          /\ \A q \in Requests : req[q].to.cred # c
      BY <1>4 DEF CredentialInsert
    <2>1. /\ req' \in [Requests -> RequestStates] /\ req'[r].pc = "none" /\ req'[r].op = "none"
          /\ \A q \in Requests : q # r => req'[q] = req[q]
      BY <1>t, <2>0, RequestEnds
    <2>2. PICK k \in {"key", "password"} :
             creds' = [creds EXCEPT ![c] = [kind |-> k, secret |-> k, sealed |-> auth_secret]]
      BY <1>4 DEF CredentialInsert
    <2> DEFINE x == [kind |-> k, secret |-> k, sealed |-> auth_secret]
    <2>x. x \in Secrets /\ x.kind = k /\ x.secret = k BY DEF Secrets, SshTypeOK
    <2> HIDE DEF x
    <2>3. creds' \in [Creds -> Secrets] /\ \A d \in Creds : creds'[d] = (IF d = c THEN x ELSE creds[d])
      BY <1>c, <2>2, <2>x DEF x
    <2>4. /\ \A d \in Creds : (d # c => (Saved(d)' <=> Saved(d))) /\ creds'[d].kind = creds'[d].secret
          /\ Saved(c)'
      BY <2>3, <2>x DEF Saved
    <2>6. RequestSound(r)' BY <2>1 DEF RequestSound
    <2>7. ASSUME NEW q \in Requests, q # r PROVE RequestSound(q)'
      <3>1. req'[q] = req[q] /\ RequestSound(q) BY <2>1, <2>7
      <3>2. req[q].to.cred \in Creds \cup {"none"} BY <1>t, RequestFields
      <3>3. req[q].op = "schedule" /\ req[q].to.cred # "none" => Saved(req[q].to.cred)' \/ req[q].to.cred \in raced'
        BY <2>0, <2>4, <3>1, <3>2 DEF RequestSound
      <3>4. req[q].op = "delete" => \A s \in Scheds : sched'[s].cred = req[q].cred => req[q].cred \in raced'
        BY <2>0, <3>1 DEF RequestSound
      <3> QED BY <3>1, <3>3, <3>4 DEF RequestSound
    <2>8. SchedSound'
      <3>1. \A s \in Scheds : sched[s].cred \in Creds \cup {"none"} BY <1>t, SchedFields
      <3> QED BY <1>t, <2>0, <2>4, <3>1 DEF SchedSound
    <2>9. LimitSound'
      <3>1. SavedCreds' \subseteq SavedCreds \cup {c} BY <2>4 DEF SavedCreds
      <3>2. Creating' = Creating \ {r} /\ r \in Creating BY <2>0, <2>1 DEF Creating
      <3>3. c \notin SavedCreds BY <2>0 DEF SavedCreds
      <3>4. IsFiniteSet(SavedCreds \cup {c}) /\ Cardinality(SavedCreds \cup {c}) = Cardinality(SavedCreds) + 1
        BY <3>3, Counts, FS_AddElement
      <3>5. Cardinality(SavedCreds') \in Nat /\ Cardinality(SavedCreds') <= Cardinality(SavedCreds) + 1
        BY <3>1, <3>4, FS_Subset, FS_CardinalityType
      <3>6. Cardinality(Creating \ {r}) = Cardinality(Creating) - 1 BY <3>2, Counts, FS_RemoveElement
      <3>7. Cardinality(Creating)' = Cardinality(Creating) - 1 /\ Cardinality(SavedCreds)' = Cardinality(SavedCreds')
        BY <3>2, <3>6
      <3> QED BY <1>t, <3>5, <3>7, Counts, SshAssumption DEF LimitSound
    <2> QED BY <1>c, <2>0, <2>1, <2>3, <2>4, <2>6, <2>7, <2>8, <2>9, StoreStep
  <1>5. ASSUME NEW c \in Creds, api_ssh_credentials_update(r, c) PROVE TrustInv'
    BY <1>n, <1>g, <1>5 DEF api_ssh_credentials_update
  <1>6. ASSUME NEW c \in Creds, api_ssh_credentials_delete(r, c) PROVE TrustInv'
    BY <1>n, <1>g, <1>6 DEF api_ssh_credentials_delete
  <1>7. ASSUME NEW h \in Hosts, NEW c \in Creds \cup {"none"}, api_schedules_create(r, h, c) PROVE TrustInv'
    <2> DEFINE to == [host |-> h, cred |-> c]
    <2>1. to \in Tasks /\ to.host = h /\ to.cred = c BY DEF Tasks
    <2>2. Goes(r, "schedule", "none", to) /\ Rest /\ UNCHANGED <<creds, sched, raced>>
      BY <1>7 DEF api_schedules_create
    <2>3. c # "none" => Saved(c) BY <1>7 DEF api_schedules_create, _schedule_problem
    <2> HIDE DEF to
    <2> QED BY <1>g, <2>1, <2>2, <2>3
  <1>8. ASSUME NEW s \in Scheds, ScheduleWrite(r, s) PROVE TrustInv'
    <2> DEFINE to == req[r].to
    <2>0. /\ Ends(r) /\ Rest /\ UNCHANGED creds /\ req[r].op = "schedule" /\ sched' = [sched EXCEPT ![s] = to]
          /\ raced' = IF \E q \in Requests : req[q].op = "delete" /\ req[q].cred = to.cred
                      THEN raced \cup {to.cred} ELSE raced
      BY <1>8 DEF ScheduleWrite
    <2>1. /\ req' \in [Requests -> RequestStates] /\ req'[r].pc = "none" /\ req'[r].op = "none"
          /\ \A q \in Requests : q # r => req'[q] = req[q]
      BY <1>t, <2>0, RequestEnds
    <2>2. to \in Tasks /\ to.cred \in Creds \cup {"none"} BY <1>t, RequestFields
    <2>3. to.host \in Hosts /\ (to.cred # "none" => Saved(to.cred) \/ to.cred \in raced)
      <3>1. RequestSound(r) OBVIOUS
      <3> QED BY <2>0, <3>1 DEF RequestSound
    <2> HIDE DEF to
    <2>4. sched' \in [Scheds -> Tasks] /\ \A t \in Scheds : sched'[t] = (IF t = s THEN to ELSE sched[t])
      BY <1>c, <2>0, <2>2
    <2>5. raced \subseteq raced' /\ raced' \subseteq Creds
      <3>1. \A q \in Requests : req[q].op = "delete" => req[q].cred \in Creds BY DEF RequestSound
      <3> QED BY <1>c, <2>0, <3>1
    <2>6. \A d : Saved(d)' <=> Saved(d) BY <2>0 DEF Saved
    <2>7. RequestSound(r)' BY <2>1 DEF RequestSound
    <2>8. ASSUME NEW q \in Requests, q # r PROVE RequestSound(q)'
      <3>1. req'[q] = req[q] /\ RequestSound(q) BY <2>1, <2>8
      <3>2. req[q].op = "delete" => \A t \in Scheds : sched'[t].cred = req[q].cred => req[q].cred \in raced'
        <4> SUFFICES ASSUME req[q].op = "delete", NEW t \in Scheds, sched'[t].cred = req[q].cred
                     PROVE  req[q].cred \in raced'
          OBVIOUS
        <4>1. CASE t = s BY <2>0, <2>4, <4>1
        <4>2. CASE t # s BY <2>4, <2>5, <3>1, <4>2 DEF RequestSound
        <4> QED BY <4>1, <4>2
      <3> QED BY <2>5, <2>6, <3>1, <3>2 DEF RequestSound
    <2>9. SchedSound' BY <1>t, <2>3, <2>4, <2>5, <2>6 DEF SchedSound
    <2>10. LimitSound'
      <3>1. SavedCreds' \subseteq SavedCreds BY <2>6 DEF SavedCreds
      <3>2. Creating' \subseteq Creating BY <2>1 DEF Creating
      <3> QED BY <1>t, <3>1, <3>2, LimitHolds
    <2>11. \A c \in Creds : creds'[c].kind = creds'[c].secret BY <2>0
    <2> QED BY <1>c, <2>0, <2>1, <2>4, <2>5, <2>7, <2>8, <2>9, <2>10, <2>11, StoreStep
  <1> QED BY <1>1, <1>2, <1>3, <1>4, <1>5, <1>6, <1>7, <1>8

-----------------------------------------------------------------------------

\* Administrators, and the world.
LEMMA WorldSteps ==
  ASSUME TrustInv,
         \/ \E s \in Scheds : ScheduleDelete(s)
         \/ \E h \in Hosts : api_ssh_host_keys_delete(h) \/ HostMoves(h)
         \/ ScopeChanges \/ SecretChanges
  PROVE  TrustInv'
  <1> USE DEF TrustInv
  <1>t. SshTypeOK /\ SchedSound /\ LimitSound /\ ScopeKept /\ RunsSound
        /\ "none" \notin Hosts \cup Keys \cup Creds
    BY SshAssumption
  <1>n. /\ NoSched \in Tasks /\ NoSched.cred = "none"
        /\ NoJob \in JobStates /\ NoJob.pc = "none" /\ NoJob.pinned = "none"
        /\ NoReq \in RequestStates /\ NoReq.pc = "none" /\ NoReq.op = "none"
    <2>1. NoSched \in Tasks /\ NoSched.cred = "none" BY DEF NoSched, Tasks
    <2> QED BY <2>1 DEF NoJob, JobStates, JobStages, NoReq, RequestStates
  <1>1. ASSUME NEW s \in Scheds, ScheduleDelete(s) PROVE TrustInv'
    <2>1. /\ sched' = [sched EXCEPT ![s] = NoSched]
          /\ UNCHANGED <<at, allowed, pinned, creds, auth_secret, job, req, moves, epoch, runs, raced>>
      BY <1>1 DEF ScheduleDelete
    <2>2. sched' \in [Scheds -> Tasks] /\ \A t \in Scheds : sched'[t] = (IF t = s THEN NoSched ELSE sched[t])
      BY <1>t, <1>n, <2>1 DEF SshTypeOK
    <2>3. \A d : Saved(d)' <=> Saved(d) BY <2>1 DEF Saved
    <2>4. ASSUME NEW q \in Requests PROVE RequestSound(q)'
      <3>1. RequestSound(q) OBVIOUS
      <3>2. req[q].op = "delete" => req[q].cred \in Creds BY <3>1 DEF RequestSound
      <3>3. req[q].op = "delete" => \A t \in Scheds : sched'[t].cred = req[q].cred => req[q].cred \in raced
        BY <1>t, <1>n, <2>2, <3>1, <3>2 DEF RequestSound
      <3> QED BY <2>1, <2>3, <3>1, <3>3 DEF RequestSound
    <2>5. SchedSound' BY <1>t, <1>n, <2>1, <2>2, <2>3 DEF SchedSound
    <2>6. LimitSound' BY <2>1, <2>3 DEF LimitSound, SavedCreds, Creating
    <2>7. creds' \in [Creds -> Secrets] /\ req' \in [Requests -> RequestStates] /\ raced' \subseteq Creds
          /\ \A c \in Creds : creds'[c].kind = creds'[c].secret
      BY <2>1 DEF SshTypeOK
    <2> QED BY <2>1, <2>2, <2>4, <2>5, <2>6, <2>7, StoreStep
  <1>2. ASSUME NEW h \in Hosts, api_ssh_host_keys_delete(h) PROVE TrustInv'
    <2>1. /\ pinned' = [pinned EXCEPT ![h] = "none"] /\ runs' = [runs EXCEPT ![h] = {}]
          /\ epoch' = [epoch EXCEPT ![h] = @ + 1]
          /\ moves' = moves + 1
          /\ UNCHANGED <<at, allowed, creds, sched, auth_secret, job, req, raced>>
      BY <1>2 DEF api_ssh_host_keys_delete
    <2>2. epoch \in [Hosts -> Nat] /\ moves \in Nat /\ pinned \in [Hosts -> Keys \cup {"none"}]
          /\ runs \in [Hosts -> SUBSET Keys]
      BY DEF SshTypeOK
    <2>3. /\ \A g \in Hosts : epoch'[g] = (IF g = h THEN epoch[h] + 1 ELSE epoch[g])
          /\ epoch[h] \in Nat /\ epoch' \in [Hosts -> Nat] /\ moves' \in Nat
      BY <2>1, <2>2
    <2>4. /\ \A g \in Hosts : /\ pinned'[g] = (IF g = h THEN "none" ELSE pinned[g])
                              /\ runs'[g] = (IF g = h THEN {} ELSE runs[g])
          /\ pinned' \in [Hosts -> Keys \cup {"none"}] /\ runs' \in [Hosts -> SUBSET Keys]
      BY <2>1, <2>2
    <2>5. SshTypeOK' BY <2>1, <2>3, <2>4 DEF SshTypeOK
    <2>6. ASSUME NEW j \in Jobs PROVE JobSound(j)'
      <3>1. JobSound(j) /\ job[j].epoch \in Nat BY <1>t, JobFields
      <3>2. job[j].pinned # "none" => job[j].host \in Hosts BY <3>1 DEF JobSound
      <3>3. job[j].pinned # "none" =>
               /\ job[j].epoch <= epoch'[job[j].host]
               /\ job[j].epoch = epoch'[job[j].host] =>
                     job[j].host # h /\ job[j].epoch = epoch[job[j].host]
        BY <2>2, <2>3, <3>1, <3>2 DEF JobSound
      <3>4. job[j].pinned # "none" /\ job[j].epoch = epoch'[job[j].host] => pinned'[job[j].host] = job[j].pinned
        BY <2>4, <3>1, <3>2, <3>3 DEF JobSound
      <3> QED BY <2>1, <3>1, <3>3, <3>4 DEF JobSound
    <2>7. RunsSound' BY <1>t, <2>4 DEF RunsSound
    <2>8. ScopeKept' BY <1>t, <2>1 DEF ScopeKept, Within
    <2>9. \A d : Saved(d)' <=> Saved(d) BY <2>1 DEF Saved
    <2>10. \A q \in Requests : RequestSound(q)' BY <2>1, <2>9 DEF RequestSound
    <2>11. SchedSound' /\ LimitSound'
      BY <1>t, <2>1, <2>9 DEF SchedSound, LimitSound, SavedCreds, Creating
    <2>12. \A c \in Creds : creds'[c].kind = creds'[c].secret BY <2>1
    <2> QED BY <2>5, <2>6, <2>7, <2>8, <2>10, <2>11, <2>12
  <1>m. ASSUME NEW G \in [Jobs -> BOOLEAN], UNCHANGED <<pinned, creds, sched, auth_secret, req, epoch, runs, raced>>,
               moves' = moves + 1, at' \in [Hosts -> [key : Keys, net : Networks]],
               allowed' \subseteq {"domain", "mine"},
               job' = [j \in Jobs |-> [job[j] EXCEPT !.moved = @ \/ G[j]]],
               \A j \in Jobs : ~G[j] /\ job[j].pc # "none" => at'[job[j].host] = at[job[j].host] /\ allowed' = allowed
        PROVE  TrustInv'
    <2>1. \A j \in Jobs : /\ job'[j] \in JobStates
                          /\ job'[j].pc = job[j].pc /\ job'[j].host = job[j].host
                          /\ job'[j].pinned = job[j].pinned /\ job'[j].key = job[j].key
                          /\ job'[j].epoch = job[j].epoch /\ job'[j].blind = job[j].blind /\ job'[j].moved = (job[j].moved \/ G[j])
      <3> SUFFICES ASSUME NEW j \in Jobs
                   PROVE  /\ job'[j] \in JobStates
                          /\ job'[j].pc = job[j].pc /\ job'[j].host = job[j].host
                          /\ job'[j].pinned = job[j].pinned /\ job'[j].key = job[j].key
                          /\ job'[j].epoch = job[j].epoch /\ job'[j].blind = job[j].blind /\ job'[j].moved = (job[j].moved \/ G[j])
        OBVIOUS
      <3> DEFINE b == job[j].moved \/ G[j]
                 x == [job[j] EXCEPT !.moved = b]
      <3>1. job[j] \in JobStates /\ b \in BOOLEAN BY <1>t, <1>m, JobFields
      <3>2. job'[j] = x BY <1>m
      <3> HIDE DEF b
      <3>3. /\ x \in JobStates /\ x.pc = job[j].pc /\ x.host = job[j].host /\ x.pinned = job[j].pinned
            /\ x.key = job[j].key /\ x.epoch = job[j].epoch /\ x.blind = job[j].blind /\ x.moved = b
        BY <3>1 DEF JobStates
      <3> QED BY <3>2, <3>3 DEF b
    <2>2. job' \in [Jobs -> JobStates] BY <1>m, <2>1
    <2>3. SshTypeOK' BY <1>m, <2>2 DEF SshTypeOK
    <2>4. ASSUME NEW j \in Jobs PROVE JobSound(j)'
      <3>1. JobSound(j) OBVIOUS
      <3> QED BY <1>m, <2>1, <3>1 DEF JobSound
    <2>5. ScopeKept'
      <3> SUFFICES ASSUME NEW j \in Jobs, job'[j].pc \in {"cred", "pin", "connect", "save", "run"}, ~job'[j].moved
                   PROVE  Within(job[j])'
        BY DEF ScopeKept
      <3>1. /\ ~G[j] /\ ~job[j].moved /\ job[j].pc = job'[j].pc /\ job[j].host = job'[j].host
            /\ job[j].blind = job'[j].blind
        BY <2>1
      <3>2. at'[job[j].host] = at[job[j].host] /\ allowed' = allowed BY <1>m, <3>1
      <3> QED BY <1>t, <3>1, <3>2 DEF ScopeKept, Within
    <2>6. RunsSound' BY <1>t, <1>m DEF RunsSound
    <2>9. \A d : Saved(d)' <=> Saved(d) BY <1>m DEF Saved
    <2>10. \A q \in Requests : RequestSound(q)' BY <1>m, <2>9 DEF RequestSound
    <2>11. SchedSound' /\ LimitSound' BY <1>t, <1>m, <2>9 DEF SchedSound, LimitSound, SavedCreds, Creating
    <2>12. \A c \in Creds : creds'[c].kind = creds'[c].secret BY <1>m
    <2> QED BY <2>3, <2>4, <2>5, <2>6, <2>10, <2>11, <2>12
  <1>3. ASSUME NEW h \in Hosts, HostMoves(h) PROVE TrustInv'
    <2> DEFINE G == [j \in Jobs |-> job[j].host = h /\ job[j].pc # "none"]
    <2>1. PICK m \in [key : Keys, net : Networks] : at' = [at EXCEPT ![h] = m] BY <1>3 DEF HostMoves
    <2>2. at' \in [Hosts -> [key : Keys, net : Networks]] /\ \A g \in Hosts : g # h => at'[g] = at[g]
      BY <2>1 DEF SshTypeOK
    <2>3. /\ UNCHANGED <<allowed, pinned, creds, sched, auth_secret, req, epoch, runs, raced>>
          /\ moves' = moves + 1
          /\ job' = [j \in Jobs |-> [job[j] EXCEPT !.moved = @ \/ (job[j].host = h /\ job[j].pc # "none")]]
      BY <1>3 DEF HostMoves
    <2>8. job' = [j \in Jobs |-> [job[j] EXCEPT !.moved = @ \/ G[j]]] BY <2>3
    <2>4. \A j \in Jobs : job[j].pc # "none" => job[j].host \in Hosts BY DEF JobSound
    <2>5. \A j \in Jobs : ~G[j] /\ job[j].pc # "none" => at'[job[j].host] = at[job[j].host] /\ allowed' = allowed
      BY <2>2, <2>3, <2>4
    <2>6. G \in [Jobs -> BOOLEAN] OBVIOUS
    <2>7. allowed' \subseteq {"domain", "mine"} BY <2>3 DEF SshTypeOK
    <2> HIDE DEF G
    <2> QED BY <1>m, <2>2, <2>3, <2>5, <2>6, <2>7, <2>8
  <1>4. ASSUME ScopeChanges PROVE TrustInv'
    <2> DEFINE G == [j \in Jobs |-> job[j].pc # "none"]
    <2>1. /\ UNCHANGED <<at, pinned, creds, sched, auth_secret, req, epoch, runs, raced>>
          /\ moves' = moves + 1 /\ allowed' \subseteq {"domain", "mine"}
          /\ job' = [j \in Jobs |-> [job[j] EXCEPT !.moved = @ \/ job[j].pc # "none"]]
      BY <1>4 DEF ScopeChanges
    <2>5. job' = [j \in Jobs |-> [job[j] EXCEPT !.moved = @ \/ G[j]]] BY <2>1
    <2>2. \A j \in Jobs : ~G[j] /\ job[j].pc # "none" => at'[job[j].host] = at[job[j].host] /\ allowed' = allowed
      OBVIOUS
    <2>3. G \in [Jobs -> BOOLEAN] OBVIOUS
    <2>4. at' \in [Hosts -> [key : Keys, net : Networks]] BY <2>1 DEF SshTypeOK
    <2> HIDE DEF G
    <2> QED BY <1>m, <2>1, <2>2, <2>3, <2>4, <2>5
  <1>5. ASSUME SecretChanges PROVE TrustInv'
    <2>1. /\ UNCHANGED <<at, allowed, pinned, creds, sched, epoch, runs, raced>>
          /\ auth_secret' = auth_secret + 1 /\ moves' = moves + 1
          /\ job' = [j \in Jobs |-> NoJob] /\ req' = [q \in Requests |-> NoReq]
      BY <1>5 DEF SecretChanges
    <2>2. job' \in [Jobs -> JobStates] /\ \A j \in Jobs : job'[j] = NoJob BY <1>n, <2>1
    <2>3. req' \in [Requests -> RequestStates] /\ \A q \in Requests : req'[q] = NoReq BY <1>n, <2>1
    <2>4. auth_secret' \in Nat /\ moves' \in Nat BY <1>t, <2>1 DEF SshTypeOK
    <2>5. SshTypeOK' BY <1>t, <2>1, <2>2, <2>3, <2>4 DEF SshTypeOK
    <2>6. \A j \in Jobs : JobSound(j)' BY <1>n, <2>2 DEF JobSound
    <2>7. ScopeKept' BY <1>n, <2>2 DEF ScopeKept
    <2>8. RunsSound' BY <1>t, <2>1 DEF RunsSound
    <2>9. \A d : Saved(d)' <=> Saved(d) BY <2>1 DEF Saved
    <2>10. \A q \in Requests : RequestSound(q)' BY <1>n, <2>3 DEF RequestSound
    <2>11. SchedSound' BY <1>t, <2>1, <2>9 DEF SchedSound
    <2>12. LimitSound'
      <3>1. SavedCreds' \subseteq SavedCreds BY <2>9 DEF SavedCreds
      <3>2. Creating' \subseteq Creating BY <1>n, <2>3 DEF Creating
      <3> QED BY <1>t, <3>1, <3>2, LimitHolds
    <2>13. \A c \in Creds : creds'[c].kind = creds'[c].secret BY <2>1
    <2> QED BY <2>5, <2>6, <2>7, <2>8, <2>10, <2>11, <2>12, <2>13
  <1> QED BY <1>1, <1>2, <1>3, <1>4, <1>5

\* Every step keeps the invariant.
LEMMA TrustSteps == TrustInv /\ [SshNext]_sshVars => TrustInv'
  <1> SUFFICES ASSUME TrustInv, [SshNext]_sshVars PROVE TrustInv' OBVIOUS
  <1>1. CASE UNCHANGED sshVars
    <2> USE <1>1 DEF TrustInv, sshVars
    <2>1. SshTypeOK' BY DEF SshTypeOK
    <2>2. \A j \in Jobs : JobSound(j)' BY DEF JobSound
    <2>3. \A r \in Requests : RequestSound(r)' BY DEF RequestSound, Saved
    <2>4. RunsSound' /\ ScopeKept' BY DEF RunsSound, ScopeKept, Within
    <2>5. SchedSound' /\ LimitSound' BY DEF SchedSound, LimitSound, SavedCreds, Creating, Saved
    <2> QED BY <2>1, <2>2, <2>3, <2>4, <2>5
  <1>2. CASE \E j \in Jobs :
                \/ \E h \in Hosts, c \in Creds \cup {"none"} : Ask(j, h, c)
                \/ \E s \in Scheds : RunSchedule(j, s)
                \/ CheckScope(j) \/ _ssh_creds(j) \/ LookUp(j) \/ Connect(j) \/ SaveKey(j) \/ Close(j)
    BY <1>2, ConnectionSteps
  <1>3. CASE \E r \in Requests :
                \/ api_ssh_credentials_create(r) \/ CredentialUpdate(r) \/ CredentialDelete(r)
                \/ \E c \in Creds : \/ CredentialInsert(r, c)
                                    \/ api_ssh_credentials_update(r, c)
                                    \/ api_ssh_credentials_delete(r, c)
                \/ \E h \in Hosts, c \in Creds \cup {"none"} : api_schedules_create(r, h, c)
                \/ \E s \in Scheds : ScheduleWrite(r, s)
    BY <1>3, RequestSteps
  <1>4. CASE \/ \E s \in Scheds : ScheduleDelete(s)
             \/ \E h \in Hosts : api_ssh_host_keys_delete(h) \/ HostMoves(h)
             \/ ScopeChanges \/ SecretChanges
    BY <1>4, WorldSteps
  <1> QED BY <1>1, <1>2, <1>3, <1>4 DEF SshNext

\* The inductive invariant of SSH trust, for any instance of SshTrust.
THEOREM TrustInvariant == SshSpec => []TrustInv
  BY TrustStart, TrustSteps, PTL DEF SshSpec

\* The variables of SSH trust keep their types, for any hosts, keys,
\* connections, credentials and requests.
THEOREM SshType == SshSpec => []SshTypeOK
  <1>1. TrustInv => SshTypeOK BY DEF TrustInv
  <1> QED BY <1>1, TrustInvariant, PTL

\* A connection that found a key runs commands only on the machine with that key, and
\* one whose check had addresses only within the scope; and a task keeps its credential:
\* whatever the hosts, the administrators and the others do between two awaits.
THEOREM TrustIsKept == SshSpec => []TrustKept
  <1>1. TrustInv => TrustKept
    <2> SUFFICES ASSUME TrustInv PROVE TrustKept OBVIOUS
    <2> USE DEF TrustInv
    <2>1. HostKeysHold BY DEF HostKeysHold, RunsSound
    <2>2. Cardinality(SavedCreds) <= MAX_PER_TENANT + Cardinality(Requests) - 1
      BY Counts, SshAssumption DEF LimitSound
    <2>3. CredentialsKept BY <2>2 DEF CredentialsKept, SchedSound, SavedCreds
    <2> QED BY <2>1, <2>3 DEF TrustKept, ConnectionsTrusted
  <1> QED BY <1>1, TrustInvariant, PTL

-----------------------------------------------------------------------------
\* Integrations

\* Organisations are numbered as they come: those with a number have the home
\* they were given, and the others have none.
OrgsSound ==
  /\ Latest \in Used
  /\ \A o \in Used : o <= Latest
  /\ Platform <= Latest
  /\ org[Default] = Platform /\ Default \in active
  /\ \A s \in AllSlugs : s \in active => org[s] # 0
  /\ \A s \in AllSlugs : org[s] # 0 => home[org[s]] = s
  /\ home[0] = Default /\ home[Platform] = Default
  /\ \A o \in Orgs : o > Latest => home[o] = Default

\* Destinations are of an organisation with the same slug, in memory and in
\* the files.
Owned(f, o) ==
  /\ \A k \in Kinds :
       \/ f[k].owner = o
       \/ f[k].owner <= Latest /\ o <= Latest /\ home[f[k].owner] = home[o]
  /\ o > Latest => f = Off(o)

SettingsSound == \A o \in Orgs : Owned(settings[o], o) /\ Owned(disk[o], o)

CacheSound(s, k) ==
  cache[<<s, k>>] # NoMgr =>
    /\ org[s] # 0
    /\ cache[<<s, k>>].owner <= Latest /\ home[cache[<<s, k>>].owner] = s

\* The manager is that of the settings, while the slug has been of one only and
\* no save raised half-way.
CacheFresh(s, k) ==
  cache[<<s, k>>] # NoMgr /\ <<s, k>> \notin unfinished /\ (\A o \in Orgs : home[o] = s /\ s # Default => o = org[s]) =>
    cache[<<s, k>>].on = settings[org[s]][k].on

\* An event is of its slug from beginning to end, and is sent where the guard
\* has looked, unless the destinations have moved since.
EventSound(j) ==
  /\ event[j].pc # "none" =>
       /\ event[j].kind \in Kinds
       /\ org[event[j].slug] # 0 /\ event[j].org <= Latest /\ home[event[j].org] = event[j].slug
  /\ event[j].pc \in {"guard", "send", "channels"} =>
       event[j].mgr.owner <= Latest /\ home[event[j].mgr.owner] = event[j].slug
  /\ event[j].pc \in {"send", "channels"} /\ event[j].slug # Default /\ event[j].sure =>
       ~outbound_problem(event[j].mgr.owner, event[j].mgr.on, event[j].mgr.allowed)
  /\ event[j].pc = "channels" => event[j].todo \cup event[j].tried = event[j].mgr.on
  /\ event[j].pc # "channels" => event[j].tried = {} /\ event[j].stored = 0
  /\ event[j].stored # 0 => event[j].stored <= Latest /\ home[event[j].stored] = event[j].slug
  /\ event[j].pc = "channels" /\ event[j].kind = "notifications" /\ event[j].level # "test" => event[j].stored # 0

SaveSound(r) ==
  save[r].pc # "none" =>
    /\ save[r].kind \in Kinds /\ save[r].slug # Default
    /\ org[save[r].slug] # 0 /\ save[r].org <= Latest /\ home[save[r].org] = save[r].slug

DeliverySound(d) ==
  /\ d.org <= Latest /\ d.owner <= Latest /\ home[d.owner] = home[d.org]
  /\ home[d.org] # Default /\ d.sure /\ ~d.redirected => d.net = "public" \/ (d.net = "inner" /\ d.allowed)

OutputsInv ==
  /\ IntegrationsTypeOK
  /\ OrgsSound
  /\ SettingsSound
  /\ \A s \in AllSlugs, k \in Kinds : CacheSound(s, k) /\ CacheFresh(s, k)
  /\ \A j \in Events : EventSound(j)
  /\ \A r \in Saves : SaveSound(r)
  /\ \A d \in delivered : DeliverySound(d)

-----------------------------------------------------------------------------

\* Among the numbers that are in use there is a last.
LEMMA LatestExists ==
  ASSUME org \in [AllSlugs -> Orgs]
  PROVE  Latest \in Used /\ \A o \in Used : o <= Latest
  <1> DEFINE T == {n \in Nat : \E o \in Used : n = MaxOrgs - o}
  <1>1. Used \subseteq Orgs /\ org[Default] \in Used BY DEF Used, AllSlugs
  <1>2. MaxOrgs \in Nat /\ Orgs = 0 .. MaxOrgs BY IntegrationsAssumption DEF Orgs
  <1>3. MaxOrgs - org[Default] \in T
    <2>1. org[Default] \in 0 .. MaxOrgs BY <1>1, <1>2
    <2>2. MaxOrgs - org[Default] \in Nat BY <1>2, <2>1
    <2> QED BY <1>1, <2>2
  <1>4. \E n \in T : \A m \in T : <<m, n>> \notin OpToRel(<, Nat)
    <2>1. T \subseteq Nat /\ T # {} BY <1>3
    <2> HIDE DEF T
    <2> QED BY <2>1, WFMin, NatLessThanWellFounded, Zenon
  <1>5. PICK n \in T : \A m \in T : ~(m < n)
    BY <1>4, Zenon DEF OpToRel
  <1>6. PICK o \in Used : n = MaxOrgs - o OBVIOUS
  <1>7. \A p \in Used : p <= o
    <2> SUFFICES ASSUME NEW p \in Used, ~(p <= o) PROVE FALSE OBVIOUS
    <2>1. MaxOrgs - p \in T BY <1>1, <1>2
    <2> QED BY <1>1, <1>2, <1>5, <1>6, <2>1
  <1> QED BY <1>7 DEF Latest

\* A number in use that none exceeds is the last.
LEMMA LatestIs ==
  ASSUME Used \subseteq Nat, NEW n \in Used, \A o \in Used : o <= n
  PROVE  Latest = n
  <1>1. Latest \in Used /\ \A o \in Used : o <= Latest BY DEF Latest
  <1>2. Latest <= n /\ n <= Latest /\ n \in Nat /\ Latest \in Nat BY <1>1
  <1> QED BY <1>2

\* Numbers and homes that do not change.
LEMMA SameOrgs ==
  ASSUME UNCHANGED org
  PROVE  Latest' = Latest /\ Used' = Used
  BY DEF Latest, Used

\* No manager, no event and no save are what their types say.
LEMMA NoMgrIs == NoMgr \in Managers /\ NoMgr.owner = 0 /\ NoMgr.on = {}
  BY IntegrationsAssumption DEF NoMgr, Managers, Orgs

LEMMA NoEventIs ==
  /\ NoEvent \in EventStates /\ NoEvent.pc = "none" /\ NoEvent.tried = {} /\ NoEvent.stored = 0
  /\ NoEvent.mgr = NoMgr
  BY IntegrationsAssumption, NoMgrIs DEF NoEvent, EventStates, EventStages, Orgs, OUTBOUND, AllSlugs

LEMMA NoSaveIs == NoSave \in SaveStates /\ NoSave.pc = "none"
  BY IntegrationsAssumption DEF NoSave, SaveStates, Orgs, OUTBOUND, AllSlugs

\* What is known of numbers of organisations.
LEMMA OrgFields ==
  ASSUME IntegrationsTypeOK
  PROVE  /\ MaxOrgs \in Nat /\ Orgs = 0 .. MaxOrgs /\ 0 \in Orgs /\ Platform \in Orgs
         /\ org \in [AllSlugs -> Orgs] /\ home \in [Orgs -> AllSlugs]
         /\ Used \subseteq Orgs /\ Latest \in Orgs /\ \A o \in Used : o <= Latest
         /\ \A o \in Orgs : o \in Nat
  <1>1. MaxOrgs \in Nat /\ Orgs = 0 .. MaxOrgs /\ 0 \in Orgs /\ Platform \in Orgs
    BY IntegrationsAssumption DEF Orgs, Platform
  <1>2. org \in [AllSlugs -> Orgs] /\ home \in [Orgs -> AllSlugs] BY DEF IntegrationsTypeOK
  <1>3. Used \subseteq Orgs BY <1>2 DEF Used
  <1>4. Latest \in Used /\ \A o \in Used : o <= Latest BY <1>2, LatestExists
  <1> QED BY <1>1, <1>2, <1>3, <1>4

\* What settings, managers, events and saves hold.
LEMMA SettingFields ==
  ASSUME IntegrationsTypeOK, NEW o \in Orgs, NEW k \in Kinds
  PROVE  /\ settings[o] \in Settings /\ settings[o][k] \in [owner : Orgs, on : SUBSET Channels]
         /\ settings[o][k].owner \in Orgs /\ settings[o][k].on \subseteq Channels
  <1>1. settings[o] \in Settings BY DEF IntegrationsTypeOK
  <1>2. settings[o][k] \in [owner : Orgs, on : SUBSET Channels] BY <1>1 DEF Settings
  <1> QED BY <1>1, <1>2

LEMMA ManagerFields ==
  ASSUME NEW m \in Managers
  PROVE  m.owner \in Orgs /\ m.on \subseteq Channels /\ m.allowed \in BOOLEAN
  BY DEF Managers

LEMMA EventFields ==
  ASSUME IntegrationsTypeOK, NEW j \in Events
  PROVE  /\ event \in [Events -> EventStates] /\ event[j] \in EventStates
         /\ event[j].pc \in EventStages /\ event[j].slug \in AllSlugs /\ event[j].org \in Orgs
         /\ event[j].mgr \in Managers /\ event[j].todo \subseteq Channels /\ event[j].tried \subseteq Channels
         /\ event[j].stored \in Orgs /\ event[j].sure \in BOOLEAN
  <1>1. event \in [Events -> EventStates] BY DEF IntegrationsTypeOK
  <1>2. event[j] \in EventStates BY <1>1
  <1> QED BY <1>1, <1>2 DEF EventStates

LEMMA SaveFields ==
  ASSUME IntegrationsTypeOK, NEW r \in Saves
  PROVE  /\ save \in [Saves -> SaveStates] /\ save[r] \in SaveStates
         /\ save[r].slug \in AllSlugs /\ save[r].org \in Orgs /\ save[r].new \subseteq Channels
  <1>1. save \in [Saves -> SaveStates] BY DEF IntegrationsTypeOK
  <1>2. save[r] \in SaveStates BY <1>1
  <1> QED BY <1>1, <1>2 DEF SaveStates

\* Only the platform exists at first.
LEMMA OutputsStart == IntegrationsInit => OutputsInv
  <1> SUFFICES ASSUME IntegrationsInit PROVE OutputsInv OBVIOUS
  <1> USE DEF IntegrationsInit
  <1>0. MaxOrgs \in Nat \ {0} /\ 0 \in Orgs /\ Platform \in Orgs /\ Default \notin Slugs
    BY IntegrationsAssumption DEF Orgs, Platform, Default
  <1>1. IntegrationsTypeOK
    <2>1. org \in [AllSlugs -> Orgs] /\ active \subseteq AllSlugs BY <1>0 DEF AllSlugs
    <2>2. settings \in [Orgs -> Settings] /\ disk \in [Orgs -> Settings] BY DEF Settings, Off
    <2>3. scope \in [Orgs -> BOOLEAN] /\ net \in [Orgs -> Nets] BY DEF Nets
    <2>4. cache \in [AllSlugs \X Kinds -> Managers] BY NoMgrIs
    <2>5. event \in [Events -> EventStates] /\ save \in [Saves -> SaveStates] BY NoEventIs, NoSaveIs
    <2>6. home \in [Orgs -> AllSlugs] BY DEF AllSlugs
    <2> QED BY <2>1, <2>2, <2>3, <2>4, <2>5, <2>6 DEF IntegrationsTypeOK
  <1>2. Latest = Platform
    <2>1. Used \subseteq {0, Platform} /\ Platform \in Used BY DEF Used, AllSlugs
    <2> QED BY <2>1, LatestIs DEF Platform
  <1>3. OrgsSound
    <2>1. Latest \in Used /\ \A o \in Used : o <= Latest BY <1>1, LatestExists DEF IntegrationsTypeOK
    <2>2. home[0] = Default /\ home[Platform] = Default BY <1>0
    <2>3. \A o \in Orgs : o > Latest => home[o] = Default OBVIOUS
    <2>4. org[Default] = Platform /\ Default \in active BY DEF AllSlugs
    <2>5. \A s \in AllSlugs : (s \in active => org[s] # 0) /\ (org[s] # 0 => home[org[s]] = s)
      BY <2>2 DEF Platform
    <2>6. Platform <= Latest BY <1>2 DEF Platform
    <2> QED BY <2>1, <2>2, <2>3, <2>4, <2>5, <2>6 DEF OrgsSound
  <1>4. SettingsSound BY DEF SettingsSound, Owned, Off
  <1>5. \A s \in AllSlugs, k \in Kinds : CacheSound(s, k) /\ CacheFresh(s, k) BY DEF CacheSound, CacheFresh
  <1>6. \A j \in Events : EventSound(j) BY NoEventIs DEF EventSound
  <1>7. \A r \in Saves : SaveSound(r) BY NoSaveIs DEF SaveSound
  <1> QED BY <1>1, <1>3, <1>4, <1>5, <1>6, <1>7 DEF OutputsInv

\* A step that leaves the organisations alone, and writes to the files what is
\* in memory.
LEMMA OutputStep ==
  ASSUME OutputsInv, UNCHANGED <<org, home>>, active' \subseteq AllSlugs, Default \in active',
         \A s \in active' : org[s] # 0,
         settings' \in [Orgs -> Settings], disk' \in [Orgs -> Settings],
         \A o \in Orgs : Owned(settings'[o], o),
         \A o \in Orgs : disk'[o] \in {disk[o], settings'[o]},
         scope' \in [Orgs -> BOOLEAN], net' \in [Orgs -> Nets], changes' \in Nat,
         cache' \in [AllSlugs \X Kinds -> Managers], event' \in [Events -> EventStates],
         save' \in [Saves -> SaveStates], unfinished' \subseteq AllSlugs \X Kinds,
         delivered' \subseteq [org : Orgs, owner : Orgs, kind : Kinds, net : Nets, allowed : BOOLEAN, sure : BOOLEAN, redirected : BOOLEAN],
         \A s \in AllSlugs, k \in Kinds : CacheSound(s, k)' /\ CacheFresh(s, k)',
         \A j \in Events : EventSound(j)', \A r \in Saves : SaveSound(r)', \A d \in delivered' : DeliverySound(d)'
  PROVE  OutputsInv'
  <1> USE DEF OutputsInv
  <1>1. IntegrationsTypeOK' BY DEF IntegrationsTypeOK
  <1>2. Latest' = Latest /\ Used' = Used BY SameOrgs
  <1>3. OrgsSound' BY <1>2 DEF OrgsSound
  <1>4. SettingsSound'
    <2> SUFFICES ASSUME NEW o \in Orgs PROVE Owned(settings[o], o)' /\ Owned(disk[o], o)'
      BY DEF SettingsSound
    <2>1. ASSUME NEW f, Owned(f, o)
          PROVE  /\ \A k \in Kinds : \/ f[k].owner = o
                                     \/ f[k].owner <= Latest' /\ o <= Latest' /\ home'[f[k].owner] = home'[o]
                 /\ o > Latest' => f = Off(o)
      BY <1>2, <2>1 DEF Owned
    <2>2. Owned(settings'[o], o) /\ Owned(disk[o], o) BY DEF SettingsSound
    <2>3. Owned(disk'[o], o) BY <2>2
    <2> QED BY <2>1, <2>2, <2>3 DEF Owned, Off
  <1> QED BY <1>1, <1>3, <1>4

\* What is not touched stays sound.
LEMMA Untouched ==
  ASSUME OutputsInv, UNCHANGED <<org, home>>
  PROVE  /\ Latest' = Latest
         /\ UNCHANGED cache => \A s \in AllSlugs, k \in Kinds : CacheSound(s, k)'
         /\ UNCHANGED <<settings, cache, unfinished>> => \A s \in AllSlugs, k \in Kinds : CacheFresh(s, k)'
         /\ UNCHANGED net => \A j \in Events : event'[j] = event[j] => EventSound(j)'
         /\ \A r \in Saves : save'[r] = save[r] => SaveSound(r)'
         /\ UNCHANGED delivered => \A d \in delivered' : DeliverySound(d)'
         /\ UNCHANGED settings => settings' \in [Orgs -> Settings] /\ \A o \in Orgs : Owned(settings'[o], o)
         /\ UNCHANGED disk => disk' \in [Orgs -> Settings] /\ \A o \in Orgs : disk'[o] \in {disk[o], settings'[o]}
         /\ UNCHANGED settings /\ WritesRegistry(settings) =>
               disk' \in [Orgs -> Settings] /\ \A o \in Orgs : disk'[o] \in {disk[o], settings'[o]}
         /\ UNCHANGED unfinished => unfinished' \subseteq AllSlugs \X Kinds
  <1>1. Latest' = Latest BY SameOrgs
  <1>2. ASSUME UNCHANGED cache, NEW s \in AllSlugs, NEW k \in Kinds PROVE CacheSound(s, k)'
    <2>1. CacheSound(s, k) BY DEF OutputsInv
    <2>2. cache'[<<s, k>>] = cache[<<s, k>>] BY <1>2
    <2> QED BY <1>1, <1>2, <2>1, <2>2 DEF CacheSound
  <1>6. ASSUME UNCHANGED <<settings, cache, unfinished>>, NEW s \in AllSlugs, NEW k \in Kinds PROVE CacheFresh(s, k)'
    <2>1. CacheFresh(s, k) BY DEF OutputsInv
    <2>2. cache'[<<s, k>>] = cache[<<s, k>>] BY <1>6
    <2> QED BY <1>1, <1>6, <2>1, <2>2 DEF CacheFresh
  <1>3. UNCHANGED net => \A j \in Events : event'[j] = event[j] => EventSound(j)'
    BY <1>1 DEF OutputsInv, EventSound, outbound_problem
  <1>4. \A r \in Saves : save'[r] = save[r] => SaveSound(r)' BY <1>1 DEF OutputsInv, SaveSound
  <1>5. UNCHANGED delivered => \A d \in delivered' : DeliverySound(d)' BY <1>1 DEF OutputsInv, DeliverySound
  <1>7. settings \in [Orgs -> Settings] /\ disk \in [Orgs -> Settings] /\ unfinished \subseteq AllSlugs \X Kinds
        /\ \A o \in Orgs : Owned(settings[o], o)
    BY DEF OutputsInv, IntegrationsTypeOK, SettingsSound
  <1>8. ASSUME UNCHANGED settings, WritesRegistry(settings)
        PROVE  disk' \in [Orgs -> Settings] /\ \A o \in Orgs : disk'[o] \in {disk[o], settings'[o]}
    BY <1>7, <1>8 DEF WritesRegistry
  <1> QED BY <1>1, <1>2, <1>3, <1>4, <1>5, <1>6, <1>7, <1>8

-----------------------------------------------------------------------------

\* Steps of one event that leave the managers alone.
LEMMA EventStep ==
  ASSUME OutputsInv, NEW j \in Events, NEW x \in EventStates, event' = [event EXCEPT ![j] = x],
         UNCHANGED <<org, active, settings, disk, scope, net, cache, save, changes, home, unfinished>>,
         EventSound(j)',
         delivered' = delivered
           \/ /\ delivered' \subseteq [org : Orgs, owner : Orgs, kind : Kinds, net : Nets, allowed : BOOLEAN, sure : BOOLEAN, redirected : BOOLEAN]
              /\ \A d \in delivered' : DeliverySound(d)'
  PROVE  OutputsInv'
  <1>0. IntegrationsTypeOK /\ OrgsSound BY DEF OutputsInv
  <1>1. event' \in [Events -> EventStates] /\ \A i \in Events : i # j => event'[i] = event[i] BY <1>0, EventFields
  <1>2. \A i \in Events : EventSound(i)' BY <1>1, Untouched
  <1>3. \A r \in Saves : SaveSound(r)' BY Untouched
  <1>4. \A s \in AllSlugs, k \in Kinds : CacheSound(s, k)' /\ CacheFresh(s, k)' BY Untouched
  <1>5. \A d \in delivered' : DeliverySound(d)' BY Untouched
  <1>7. /\ settings' \in [Orgs -> Settings] /\ \A o \in Orgs : Owned(settings'[o], o)
        /\ disk' \in [Orgs -> Settings] /\ \A o \in Orgs : disk'[o] \in {disk[o], settings'[o]}
        /\ unfinished' \subseteq AllSlugs \X Kinds
    BY Untouched
  <1>6. /\ active' \subseteq AllSlugs /\ Default \in active' /\ \A s \in active' : org[s] # 0
        /\ scope' \in [Orgs -> BOOLEAN] /\ net' \in [Orgs -> Nets] /\ changes' \in Nat
        /\ cache' \in [AllSlugs \X Kinds -> Managers] /\ save' \in [Saves -> SaveStates]
        /\ delivered' \subseteq [org : Orgs, owner : Orgs, kind : Kinds, net : Nets, allowed : BOOLEAN, sure : BOOLEAN, redirected : BOOLEAN]
    BY <1>0 DEF IntegrationsTypeOK, OrgsSound
  <1> QED BY <1>1, <1>2, <1>3, <1>4, <1>5, <1>6, <1>7, OutputStep

\* An event that is over leaves nothing to keep.
LEMMA OverStep ==
  ASSUME OutputsInv, NEW j \in Events, Over(j), delivered' = delivered \/ delivered' = {},
         UNCHANGED <<org, active, settings, disk, scope, net, cache, save, changes, home, unfinished>>
  PROVE  OutputsInv'
  <1>1. event' = [event EXCEPT ![j] = NoEvent] BY DEF Over
  <1>2. event'[j] = NoEvent BY <1>1, EventFields DEF OutputsInv
  <1>3. EventSound(j)' BY <1>2, NoEventIs DEF EventSound
  <1> QED BY <1>1, <1>3, NoEventIs, EventStep

\* Something to be told of an organisation that exists.
LEMMA BeginStep ==
  ASSUME OutputsInv, NEW j \in Events, NEW s \in active, NEW k \in Kinds, NEW l \in {"critical", "info", "test"},
         event' = [event EXCEPT ![j] = Begun(s, k, l)],
         UNCHANGED <<org, active, settings, disk, scope, net, cache, save, changes, delivered, home, unfinished>>
  PROVE  OutputsInv'
  <1>0. IntegrationsTypeOK /\ OrgsSound BY DEF OutputsInv
  <1>1. s \in AllSlugs /\ org[s] \in Orgs /\ org[s] # 0 /\ org[s] <= Latest /\ home[org[s]] = s
    BY <1>0, OrgFields DEF IntegrationsTypeOK, OrgsSound, Used
  <1> DEFINE x == Begun(s, k, l)
  <1>2. /\ x \in EventStates /\ x.pc = "begun" /\ x.slug = s /\ x.org = org[s] /\ x.kind = k
        /\ x.tried = {} /\ x.stored = 0
    <2>1. k \in DOMAIN OUTBOUND BY IntegrationsAssumption DEF OUTBOUND
    <2> QED BY <1>1, <2>1, NoEventIs DEF Begun, EventStates, EventStages
  <1> HIDE DEF x
  <1>3. event' = [event EXCEPT ![j] = x] BY DEF x
  <1>4. event'[j] = x BY <1>0, <1>3, EventFields
  <1>5. Latest' = Latest BY SameOrgs
  <1>6. EventSound(j)' BY <1>1, <1>2, <1>4, <1>5 DEF EventSound
  <1> QED BY <1>2, <1>3, <1>6, EventStep

\* The manager that an event is given, the one kept or another built now.
LEMMA ManagerSound ==
  ASSUME OutputsInv, NEW s \in AllSlugs, NEW k \in Kinds, org[s] # 0
  PROVE  LET m == Manager(s, k) IN
         /\ m \in Managers /\ m.owner <= Latest /\ home[m.owner] = s
         /\ <<s, k>> \notin unfinished /\ (\A o \in Orgs : home[o] = s /\ s # Default => o = org[s]) => m.on = settings[org[s]][k].on
  <1>0. IntegrationsTypeOK /\ OrgsSound /\ SettingsSound /\ CacheSound(s, k) /\ CacheFresh(s, k) BY DEF OutputsInv
  <1>1. CASE cache[<<s, k>>] # NoMgr
    <2>1. Manager(s, k) = cache[<<s, k>>] BY <1>1 DEF Manager
    <2>2. cache[<<s, k>>] \in Managers BY <1>0 DEF IntegrationsTypeOK
    <2> QED BY <1>0, <1>1, <2>1, <2>2 DEF CacheSound, CacheFresh
  <1>2. CASE cache[<<s, k>>] = NoMgr
    <2> DEFINE m == build(s, k)
    <2>1. Manager(s, k) = m BY <1>2 DEF Manager
    <2>2. org[s] \in Orgs /\ org[s] <= Latest /\ home[org[s]] = s
      BY <1>0, OrgFields DEF IntegrationsTypeOK, OrgsSound, Used
    <2>3. settings[org[s]][k].owner \in Orgs /\ settings[org[s]][k].on \subseteq Channels
      BY <1>0, <2>2, SettingFields
    <2>4. settings[org[s]][k].owner <= Latest /\ home[settings[org[s]][k].owner] = s
      BY <1>0, <2>2 DEF SettingsSound, Owned
    <2>5. scope[org[s]] \in BOOLEAN BY <1>0, <2>2 DEF IntegrationsTypeOK
    <2>6. /\ m \in Managers /\ m.owner = settings[org[s]][k].owner
          /\ m.on = settings[org[s]][k].on
      BY <2>2, <2>3, <2>5 DEF build, Managers
    <2> HIDE DEF m
    <2> QED BY <2>1, <2>2, <2>4, <2>6
  <1> QED BY <1>1, <1>2

\* An event takes a manager of its slug, and leaves it for the next.
LEMMA TakeStep ==
  ASSUME OutputsInv, NEW j \in Events, TakeManager(j)
  PROVE  OutputsInv'
  <1> DEFINE s == event[j].slug  k == event[j].kind  m == Manager(s, k)
             pc == IF s = Default THEN "send" ELSE "guard"
             x == [event[j] EXCEPT !.pc = pc, !.mgr = m]
  <1>0. IntegrationsTypeOK /\ OrgsSound /\ EventSound(j) BY DEF OutputsInv
  <1>1. /\ event[j].pc = "begun"
        /\ UNCHANGED <<org, active, settings, disk, scope, net, save, changes, delivered, home, unfinished>>
    BY DEF TakeManager
  <1>2. CASE Over(j) /\ UNCHANGED cache BY <1>1, <1>2, OverStep
  <1>3. CASE event' = [event EXCEPT ![j] = x] /\ cache' = [cache EXCEPT ![<<s, k>>] = m]
    <2>1. s \in AllSlugs /\ k \in Kinds /\ org[s] # 0 /\ event[j].org <= Latest /\ home[event[j].org] = s
      BY <1>0, <1>1, EventFields DEF EventSound
    <2>2. /\ m \in Managers /\ m.owner <= Latest /\ home[m.owner] = s
          /\ <<s, k>> \notin unfinished /\ (\A o \in Orgs : home[o] = s /\ s # Default => o = org[s]) => m.on = settings[org[s]][k].on
      BY <2>1, ManagerSound
    <2> HIDE DEF m
    <2>0. event[j] \in EventStates /\ pc \in EventStages BY <1>0, EventFields DEF EventStages
    <2> HIDE DEF pc
    <2>3. /\ x \in EventStates /\ x.pc = pc /\ x.mgr = m /\ x.slug = s /\ x.kind = k /\ x.org = event[j].org
          /\ x.tried = event[j].tried /\ x.stored = event[j].stored
      BY <2>0, <2>2 DEF EventStates
    <2> HIDE DEF x
    <2>4. event' \in [Events -> EventStates] /\ event'[j] = x /\ \A i \in Events : i # j => event'[i] = event[i]
      BY <1>0, <1>3, <2>3, EventFields
    <2>5. Latest' = Latest BY <1>1, SameOrgs
    <2>6. pc = "guard" \/ (pc = "send" /\ s = Default) BY DEF pc
    <2> HIDE DEF s, k
    <2>7. event[j].tried = {} /\ event[j].stored = 0 BY <1>0, <1>1 DEF EventSound
    <2>8. EventSound(j)' BY <1>1, <2>1, <2>2, <2>3, <2>4, <2>5, <2>6, <2>7 DEF EventSound
    <2>9. \A i \in Events : EventSound(i)' BY <1>1, <2>4, <2>8, Untouched
    <2>10. cache' \in [AllSlugs \X Kinds -> Managers]
           /\ \A t \in AllSlugs, l \in Kinds : cache'[<<t, l>>] = (IF t = s /\ l = k THEN m ELSE cache[<<t, l>>])
      BY <1>0, <1>3, <2>1, <2>2 DEF IntegrationsTypeOK
    <2>11. ASSUME NEW t \in AllSlugs, NEW l \in Kinds PROVE CacheSound(t, l)' /\ CacheFresh(t, l)'
      <3>1. CASE t = s /\ l = k
        <4>1. cache'[<<t, l>>] = m BY <2>10, <3>1
        <4> QED BY <1>1, <2>1, <2>2, <2>5, <3>1, <4>1 DEF CacheSound, CacheFresh
      <3>2. CASE ~(t = s /\ l = k)
        <4>1. cache'[<<t, l>>] = cache[<<t, l>>] BY <2>10, <3>2
        <4>2. CacheSound(t, l) /\ CacheFresh(t, l) BY DEF OutputsInv
        <4> QED BY <1>1, <2>5, <4>1, <4>2 DEF CacheSound, CacheFresh
      <3> QED BY <3>1, <3>2
    <2>12. (\A r \in Saves : SaveSound(r)') /\ \A d \in delivered' : DeliverySound(d)' BY <1>1, Untouched
    <2>13. /\ active' \subseteq AllSlugs /\ Default \in active' /\ \A t \in active' : org[t] # 0
           /\ scope' \in [Orgs -> BOOLEAN] /\ net' \in [Orgs -> Nets] /\ changes' \in Nat
           /\ save' \in [Saves -> SaveStates]
           /\ delivered' \subseteq [org : Orgs, owner : Orgs, kind : Kinds, net : Nets, allowed : BOOLEAN, sure : BOOLEAN, redirected : BOOLEAN]
      BY <1>0, <1>1 DEF IntegrationsTypeOK, OrgsSound
    <2>14. /\ settings' \in [Orgs -> Settings] /\ \A o \in Orgs : Owned(settings'[o], o)
           /\ disk' \in [Orgs -> Settings] /\ \A o \in Orgs : disk'[o] \in {disk[o], settings'[o]}
           /\ unfinished' \subseteq AllSlugs \X Kinds
      BY <1>1, Untouched
    <2> QED BY <1>1, <2>4, <2>9, <2>10, <2>11, <2>12, <2>13, <2>14, OutputStep
  <1> QED BY <1>2, <1>3 DEF TakeManager, Over

\* The steps of an event that is being sent.
LEMMA SendingSteps ==
  ASSUME OutputsInv, NEW j \in Events, Guard(j) \/ Store(j) \/ Select(j) \/ Finish(j)
  PROVE  OutputsInv'
  <1> DEFINE e == event[j]
             Rest == UNCHANGED <<org, active, settings, disk, scope, net, cache, save, changes, delivered, home, unfinished>>
  <1>0. IntegrationsTypeOK /\ OrgsSound /\ EventSound(j) BY DEF OutputsInv
  <1>1. /\ e \in EventStates /\ e.mgr \in Managers /\ e.mgr.on \subseteq Channels
        /\ e.slug \in AllSlugs
    BY <1>0, EventFields, ManagerFields, OrgFields
  <1>2. ASSUME Over(j), Rest PROVE OutputsInv' BY <1>2, OverStep
  <1>3. ASSUME Guard(j) PROVE OutputsInv'
    <2> DEFINE x == [event[j] EXCEPT !.pc = "send"]
    <2>1. Rest /\ e.pc = "guard" BY <1>3 DEF Guard
    <2>2. CASE event' = [event EXCEPT ![j] = x] /\ ~outbound_problem(e.mgr.owner, e.mgr.on, e.mgr.allowed)
      <3>1. /\ x \in EventStates /\ x.pc = "send" /\ x.mgr = e.mgr /\ x.slug = e.slug /\ x.kind = e.kind
            /\ x.org = e.org /\ x.tried = e.tried /\ x.stored = e.stored
        BY <1>1 DEF EventStates, EventStages
      <3> HIDE DEF x
      <3>2. event'[j] = x BY <1>0, <2>2, EventFields
      <3>3. Latest' = Latest /\ net' = net BY <2>1, SameOrgs
      <3>4. EventSound(j)' BY <1>0, <2>1, <2>2, <3>1, <3>2, <3>3 DEF EventSound, outbound_problem
      <3> QED BY <2>1, <2>2, <3>1, <3>4, EventStep
    <2> QED BY <1>2, <1>3, <2>1, <2>2 DEF Guard
  <1>5. ASSUME Store(j) PROVE OutputsInv'
    <2>1. e.pc = "send" /\ Rest BY <1>5 DEF Store
    <2>2. org[e.slug] # 0 BY <1>0, <2>1 DEF EventSound
    <2>3. org[e.slug] \in Orgs /\ org[e.slug] <= Latest /\ home[org[e.slug]] = e.slug
      BY <1>0, <1>1, <2>2, OrgFields DEF OrgsSound, Used
    <2>4. PICK st \in Orgs : st = org[e.slug] BY <2>3
    <2>7. st <= Latest /\ home[st] = e.slug /\ st # 0 BY <2>2, <2>3, <2>4
    <2>5. CASE event' = [event EXCEPT ![j] = [event[j] EXCEPT !.pc = "channels", !.todo = e.mgr.on, !.stored = st]]
      <3> DEFINE x == [event[j] EXCEPT !.pc = "channels", !.todo = e.mgr.on, !.stored = st]
      <3>1. /\ x \in EventStates /\ x.pc = "channels" /\ x.mgr = e.mgr /\ x.slug = e.slug /\ x.kind = e.kind
            /\ x.org = e.org /\ x.tried = e.tried /\ x.stored = st /\ x.todo = e.mgr.on /\ x.level = e.level
            /\ x.sure = e.sure
        BY <1>1 DEF EventStates, EventStages
      <3> HIDE DEF x
      <3>2. event'[j] = x BY <1>0, <2>5, EventFields DEF x
      <3>3. Latest' = Latest /\ net' = net BY <2>1, SameOrgs
      <3>4. EventSound(j)' BY <1>0, <2>1, <2>7, <3>1, <3>2, <3>3 DEF EventSound, outbound_problem
      <3> QED BY <2>1, <2>5, <3>1, <3>4, EventStep DEF x
    <2>6. Over(j) \/ event' = [event EXCEPT ![j] = [event[j] EXCEPT !.pc = "channels", !.todo = e.mgr.on, !.stored = org[e.slug]]]
      BY <1>5 DEF Store
    <2> QED BY <1>2, <2>1, <2>4, <2>5, <2>6
  <1>6. ASSUME Select(j) PROVE OutputsInv'
    <2>1. Rest /\ e.pc = "send" /\ (e.kind # "notifications" \/ e.level = "test") BY <1>6 DEF Select
    <2>2. CASE event' = [event EXCEPT ![j] = [event[j] EXCEPT !.pc = "channels", !.todo = e.mgr.on]]
      <3> DEFINE x == [event[j] EXCEPT !.pc = "channels", !.todo = e.mgr.on]
      <3>1. /\ x \in EventStates /\ x.pc = "channels" /\ x.mgr = e.mgr /\ x.slug = e.slug /\ x.kind = e.kind
            /\ x.org = e.org /\ x.tried = e.tried /\ x.stored = e.stored /\ x.todo = e.mgr.on /\ x.level = e.level
            /\ x.sure = e.sure
        BY <1>1 DEF EventStates, EventStages
      <3> HIDE DEF x
      <3>2. event'[j] = x BY <1>0, <2>2, EventFields DEF x
      <3>3. Latest' = Latest /\ net' = net BY <2>1, SameOrgs
      <3>4. EventSound(j)' BY <1>0, <2>1, <3>1, <3>2, <3>3 DEF EventSound, outbound_problem
      <3> QED BY <2>1, <2>2, <3>1, <3>4, EventStep DEF x
    <2> QED BY <1>2, <1>6, <2>1, <2>2 DEF Select
  <1>7. ASSUME Finish(j) PROVE OutputsInv' BY <1>7, OverStep DEF Finish
  <1> QED BY <1>3, <1>5, <1>6, <1>7

\* One channel takes the event, or fails.
LEMMA ChannelStep ==
  ASSUME OutputsInv, NEW j \in Events, NEW c, Channel(j, c)
  PROVE  OutputsInv'
  <1> DEFINE e == event[j]
             x == [event[j] EXCEPT !.todo = event[j].todo \ {c}, !.tried = event[j].tried \cup {c}]
  <1>0. IntegrationsTypeOK /\ OrgsSound /\ EventSound(j) BY DEF OutputsInv
  <1>1. /\ e \in EventStates /\ e.mgr \in Managers /\ e.mgr.owner \in Orgs /\ e.mgr.allowed \in BOOLEAN
        /\ e.org \in Orgs /\ e.sure \in BOOLEAN /\ e.todo \subseteq Channels /\ e.tried \subseteq Channels
    BY <1>0, EventFields, ManagerFields
  <1>n. net[e.mgr.owner] \in Nets BY <1>0, <1>1 DEF IntegrationsTypeOK
  <1>d. PICK n \in Nets, b \in BOOLEAN :
             /\ delivered' = {Delivery(j, n, b)} \/ delivered' = delivered
             /\ n = net[e.mgr.owner] \/ b
    BY <1>n DEF Channel, Arrives
  <1> PICK d : d = Delivery(j, n, b) OBVIOUS
  <1>2. /\ e.pc = "channels" /\ c \in e.todo /\ event' = [event EXCEPT ![j] = x]
        /\ delivered' = {d} \/ delivered' = delivered
        /\ UNCHANGED <<org, active, settings, disk, scope, net, cache, save, changes, home, unfinished>>
    <2>1. event' = [event EXCEPT ![j] = x] BY DEF Channel, Tried
    <2> QED BY <1>d, <2>1 DEF Channel
  <1>3. /\ x \in EventStates /\ x.pc = e.pc /\ x.mgr = e.mgr /\ x.slug = e.slug /\ x.kind = e.kind
        /\ x.org = e.org /\ x.stored = e.stored /\ x.level = e.level /\ x.sure = e.sure
        /\ x.todo = e.todo \ {c} /\ x.tried = e.tried \cup {c}
    BY <1>1, <1>2 DEF EventStates
  <1> HIDE DEF x
  <1>4. event'[j] = x BY <1>0, <1>2, EventFields
  <1>5. Latest' = Latest BY <1>2, SameOrgs
  <1>6. x.todo \cup x.tried = e.todo \cup e.tried BY <1>2, <1>3
  <1>7. EventSound(j)' BY <1>0, <1>2, <1>3, <1>4, <1>5, <1>6 DEF EventSound, outbound_problem
  <1>8. e.kind \in Kinds BY <1>0, <1>2 DEF EventSound
  <1>9. d \in [org : Orgs, owner : Orgs, kind : Kinds, net : Nets, allowed : BOOLEAN, sure : BOOLEAN, redirected : BOOLEAN]
    BY <1>1, <1>8 DEF Delivery
  <1>10. /\ e.org <= Latest /\ e.mgr.owner <= Latest /\ home[e.mgr.owner] = e.slug /\ home[e.org] = e.slug
         /\ e.slug # Default /\ e.sure => ~outbound_problem(e.mgr.owner, e.mgr.on, e.mgr.allowed)
         /\ e.mgr.on # {}
    BY <1>0, <1>2 DEF EventSound
  <1>11. DeliverySound(d)'
    <2>1. d.org = e.org /\ d.owner = e.mgr.owner /\ d.net = n /\ d.allowed = e.mgr.allowed
          /\ d.sure = e.sure /\ d.redirected = b
      BY DEF Delivery
    <2>2. UNCHANGED home /\ UNCHANGED net BY <1>2
    <2> QED BY <1>5, <1>10, <1>d, <2>1, <2>2 DEF DeliverySound, outbound_problem
  <1> QED BY <1>2, <1>3, <1>7, <1>9, <1>11, EventStep

-----------------------------------------------------------------------------

\* The settings f of organisation o replace those it had, in memory and, unless
\* the files fail, in them, and the manager of the kind saved is thrown away or
\* stays.
Replaces(s, k, o, f) ==
  /\ settings' = [settings EXCEPT ![o] = f]
  /\ disk' \in [Orgs -> Settings] /\ \A p \in Orgs : disk'[p] \in {disk[p], settings'[p]}
  /\ Thrown(s, k) \/ Stays(s, k)
  /\ o = org[s] /\ o # 0
  /\ \A l \in Kinds : f[l].owner = o \/ (f[l].owner <= Latest /\ home[f[l].owner] = home[o])
  /\ \A l \in Kinds : l # k /\ (\A p \in Orgs : home[p] = s /\ s # Default => p = o) => f[l].on = settings[o][l].on
  /\ UNCHANGED <<org, active, scope, net, event, changes, delivered, home>>

\* A manager of another kind stays that of its settings.
LEMMA SettingsStep ==
  ASSUME OutputsInv, NEW s \in AllSlugs, NEW k \in Kinds, NEW o \in Orgs, NEW f \in Settings, Replaces(s, k, o, f),
         save' \in [Saves -> SaveStates], \A r \in Saves : SaveSound(r)'
  PROVE  OutputsInv'
  <1> USE DEF Replaces
  <1>0. IntegrationsTypeOK /\ OrgsSound /\ SettingsSound BY DEF OutputsInv
  <1>1. Latest' = Latest BY SameOrgs
  <1>2. o <= Latest /\ home[o] = s BY <1>0, OrgFields DEF OrgsSound, Used
  <1>3. settings' \in [Orgs -> Settings] /\ \A p \in Orgs : settings'[p] = (IF p = o THEN f ELSE settings[p])
    BY <1>0 DEF IntegrationsTypeOK
  <1>4. /\ cache' \in [AllSlugs \X Kinds -> Managers] /\ unfinished' \subseteq AllSlugs \X Kinds
        /\ unfinished \ {<<s, k>>} \subseteq unfinished'
        /\ \A t \in AllSlugs, l \in Kinds :
              IF t = s /\ l = k THEN cache'[<<t, l>>] = NoMgr \/ (cache' = cache /\ <<t, l>> \in unfinished')
              ELSE cache'[<<t, l>>] = cache[<<t, l>>]
    <2>0. cache \in [AllSlugs \X Kinds -> Managers] /\ unfinished \subseteq AllSlugs \X Kinds
      BY <1>0 DEF IntegrationsTypeOK
    <2>1. CASE Thrown(s, k) BY <2>0, <2>1, NoMgrIs DEF Thrown
    <2>2. CASE Stays(s, k) BY <2>0, <2>2 DEF Stays, Left
    <2> QED BY <2>1, <2>2
  <1>7. \A p \in Orgs : Owned(settings'[p], p)
    <2>1. Latest \in Orgs /\ \A p \in Orgs : p \in Nat BY <1>0, OrgFields
    <2>2. Owned(f, o) BY <1>2, <2>1 DEF Owned
    <2> QED BY <1>0, <1>3, <2>2 DEF SettingsSound
  <1>8. ASSUME NEW t \in AllSlugs, NEW l \in Kinds PROVE CacheSound(t, l)' /\ CacheFresh(t, l)'
    <2>0. CacheSound(t, l) /\ CacheFresh(t, l) BY DEF OutputsInv
    <2>1. CASE t = s /\ l = k BY <1>1, <1>4, <2>0, <2>1 DEF CacheSound, CacheFresh
    <2>2. CASE ~(t = s /\ l = k)
      <3>1. cache'[<<t, l>>] = cache[<<t, l>>] /\ (<<t, l>> \notin unfinished' => <<t, l>> \notin unfinished)
        BY <1>4, <2>2
      <3>2. CacheSound(t, l)' BY <1>1, <2>0, <3>1 DEF CacheSound
      <3>3. CacheFresh(t, l)'
        <4> SUFFICES ASSUME cache[<<t, l>>] # NoMgr, <<t, l>> \notin unfinished,
                            \A p \in Orgs : home[p] = t /\ t # Default => p = org[t]
                     PROVE  cache[<<t, l>>].on = settings'[org[t]][l].on
          BY <3>1 DEF CacheFresh
        <4>1. cache[<<t, l>>].on = settings[org[t]][l].on BY <2>0 DEF CacheFresh
        <4>2. org[t] \in Orgs /\ org[t] # 0 /\ home[org[t]] = t
          BY <1>0, <2>0, OrgFields DEF CacheSound, OrgsSound
        <4>3. CASE t = s BY <1>3, <2>2, <4>1, <4>3
        <4>4. CASE t # s BY <1>2, <1>3, <4>1, <4>2, <4>4
        <4> QED BY <4>3, <4>4
      <3> QED BY <3>2, <3>3
    <2> QED BY <2>1, <2>2
  <1>9. (\A j \in Events : EventSound(j)') /\ \A d \in delivered' : DeliverySound(d)' BY Untouched
  <1>10. /\ active' \subseteq AllSlugs /\ Default \in active' /\ \A t \in active' : org[t] # 0
         /\ scope' \in [Orgs -> BOOLEAN] /\ net' \in [Orgs -> Nets] /\ changes' \in Nat
         /\ event' \in [Events -> EventStates]
         /\ delivered' \subseteq [org : Orgs, owner : Orgs, kind : Kinds, net : Nets, allowed : BOOLEAN, sure : BOOLEAN, redirected : BOOLEAN]
    BY <1>0 DEF IntegrationsTypeOK, OrgsSound
  <1> QED BY <1>3, <1>4, <1>7, <1>8, <1>9, <1>10, OutputStep

\* The channels of a kind.
LEMMA ChannelsOf ==
  ASSUME NEW k \in Kinds
  PROVE  k \in DOMAIN OUTBOUND /\ OUTBOUND[k] \subseteq Channels
  <1>1. k \in DOMAIN OUTBOUND BY IntegrationsAssumption DEF OUTBOUND
  <1> QED BY <1>1 DEF Channels

\* The platform's settings: changed whole or in part, and written or not.
LEMMA PlatformSaveStep ==
  ASSUME OutputsInv, NEW k \in Kinds, SavePlatform(k)
  PROVE  OutputsInv'
  <1>0. IntegrationsTypeOK /\ OrgsSound /\ SettingsSound BY DEF OutputsInv
  <1>1. /\ UNCHANGED <<org, active, scope, net, event, save, changes, delivered, home>>
        /\ Thrown(Default, k) \/ Stays(Default, k)
    BY DEF SavePlatform
  <1>2. Platform \in Orgs /\ Platform # 0 /\ org[Default] = Platform /\ home[Platform] = Default /\ Default \in AllSlugs
    BY <1>0, OrgFields DEF OrgsSound, Platform, AllSlugs
  <1>3. /\ settings[Platform] \in Settings /\ settings[Platform][k] \in [owner : Orgs, on : SUBSET Channels]
        /\ settings \in [Orgs -> Settings] /\ disk \in [Orgs -> Settings]
    BY <1>0, <1>2, SettingFields DEF IntegrationsTypeOK
  <1>4. PICK v \in SUBSET Channels :
             /\ settings' = [settings EXCEPT ![Platform][k].on = v]
             /\ disk' = disk \/ disk' = [disk EXCEPT ![Platform] = settings'[Platform]]
    <2>1. PICK on \in SUBSET OUTBOUND[k] :
             \/ /\ settings' = [settings EXCEPT ![Platform][k].on = on]
                /\ disk' = disk \/ disk' = [disk EXCEPT ![Platform] = settings'[Platform]]
             \/ /\ settings' = [settings EXCEPT ![Platform][k].on =
                                   (settings[Platform][k].on \ Earlier[k]) \cup (on \cap Earlier[k])]
                /\ disk' = disk
      BY DEF SavePlatform
    <2>2. on \subseteq Channels /\ (settings[Platform][k].on \ Earlier[k]) \cup (on \cap Earlier[k]) \subseteq Channels
      BY <1>3, ChannelsOf
    <2> QED BY <2>1, <2>2
  <1> DEFINE y == [settings[Platform][k] EXCEPT !.on = v]
             f == [settings[Platform] EXCEPT ![k] = y]
  <1>5. settings' = [settings EXCEPT ![Platform] = f] BY <1>4
  <1>6. y \in [owner : Orgs, on : SUBSET Channels] /\ y.owner = settings[Platform][k].owner BY <1>3
  <1> HIDE DEF y
  <1>7. f \in Settings /\ \A l \in Kinds : f[l] = (IF l = k THEN y ELSE settings[Platform][l])
    BY <1>3, <1>6 DEF Settings
  <1> HIDE DEF f
  <1>8. \A l \in Kinds : f[l].owner = settings[Platform][l].owner BY <1>6, <1>7
  <1>9. \A l \in Kinds : f[l].owner = Platform \/ (f[l].owner <= Latest /\ home[f[l].owner] = home[Platform])
    BY <1>0, <1>2, <1>8 DEF SettingsSound, Owned
  <1>10. disk' \in [Orgs -> Settings] /\ \A p \in Orgs : disk'[p] \in {disk[p], settings'[p]}
    BY <1>2, <1>3, <1>4, <1>5, <1>7
  <1>11. \A q \in Saves : SaveSound(q)' BY <1>1, Untouched
  <1>12. save' \in [Saves -> SaveStates] BY <1>0, <1>1 DEF IntegrationsTypeOK
  <1>13. Replaces(Default, k, Platform, f)
    <2>1. \A l \in Kinds : l # k => f[l].on = settings[Platform][l].on BY <1>7
    <2> QED BY <1>1, <1>2, <1>5, <1>9, <1>10, <2>1 DEF Replaces
  <1> QED BY <1>2, <1>7, <1>11, <1>12, <1>13, SettingsStep

\* Saving settings: read, refused, written.
LEMMA SaveSteps ==
  ASSUME OutputsInv, NEW r \in Saves,
         \/ \E s \in AllSlugs, k \in Kinds : _save_integration(r, s, k)
         \/ SaveRefused(r) \/ SaveWrite(r)
  PROVE  OutputsInv'
  <1>0. IntegrationsTypeOK /\ OrgsSound /\ SettingsSound /\ SaveSound(r) BY DEF OutputsInv
  <1>f. save \in [Saves -> SaveStates] BY <1>0, SaveFields
  <1>r. /\ active \subseteq AllSlugs /\ Default \in active /\ \A t \in active : org[t] # 0
        /\ scope \in [Orgs -> BOOLEAN] /\ net \in [Orgs -> Nets] /\ changes \in Nat
        /\ cache \in [AllSlugs \X Kinds -> Managers] /\ event \in [Events -> EventStates]
        /\ delivered \subseteq [org : Orgs, owner : Orgs, kind : Kinds, net : Nets, allowed : BOOLEAN, sure : BOOLEAN, redirected : BOOLEAN]
    BY <1>0 DEF IntegrationsTypeOK, OrgsSound
  <1>1. ASSUME NEW x \in SaveStates, save' = [save EXCEPT ![r] = x],
               UNCHANGED <<org, active, settings, disk, scope, net, cache, event, changes, delivered, home, unfinished>>,
               SaveSound(r)'
        PROVE  OutputsInv'
    <2>1. save' \in [Saves -> SaveStates] /\ \A q \in Saves : q # r => save'[q] = save[q] BY <1>f, <1>1
    <2>2. \A q \in Saves : SaveSound(q)' BY <1>1, <2>1, Untouched
    <2>3. /\ \A s \in AllSlugs, k \in Kinds : CacheSound(s, k)' /\ CacheFresh(s, k)'
          /\ \A j \in Events : EventSound(j)'
          /\ \A d \in delivered' : DeliverySound(d)'
      BY <1>1, Untouched
    <2>4. /\ settings' \in [Orgs -> Settings] /\ \A o \in Orgs : Owned(settings'[o], o)
          /\ disk' \in [Orgs -> Settings] /\ \A o \in Orgs : disk'[o] \in {disk[o], settings'[o]}
          /\ unfinished' \subseteq AllSlugs \X Kinds
      BY <1>1, Untouched
    <2> QED BY <1>r, <1>1, <2>1, <2>2, <2>3, <2>4, OutputStep
  <1>2. ASSUME NEW s \in AllSlugs, NEW k \in Kinds, _save_integration(r, s, k) PROVE OutputsInv'
    <2>1. /\ s \in active /\ s # Default
          /\ UNCHANGED <<org, active, settings, disk, scope, net, cache, event, changes, delivered, home, unfinished>>
      BY <1>2 DEF _save_integration, Begins
    <2>2. PICK on \in SUBSET OUTBOUND[k] :
             save' = [save EXCEPT ![r] = [pc |-> "check", slug |-> s, org |-> org[s], kind |-> k, new |-> on]]
      BY <1>2 DEF _save_integration, Begins
    <2>3. on \subseteq Channels /\ k \in DOMAIN OUTBOUND BY ChannelsOf
    <2> DEFINE x == [pc |-> "check", slug |-> s, org |-> org[s], kind |-> k, new |-> on]
    <2>4. org[s] \in Orgs /\ org[s] # 0 /\ org[s] <= Latest /\ home[org[s]] = s
      BY <1>0, <2>1, OrgFields DEF OrgsSound, Used
    <2>5. x \in SaveStates /\ x.slug = s /\ x.org = org[s] /\ x.kind = k BY <2>3, <2>4 DEF SaveStates
    <2>6. save' = [save EXCEPT ![r] = x] BY <2>2
    <2> HIDE DEF x
    <2>7. save'[r] = x /\ Latest' = Latest BY <1>f, <2>1, <2>6, SameOrgs
    <2>8. SaveSound(r)' BY <2>1, <2>4, <2>5, <2>7 DEF SaveSound
    <2> QED BY <1>1, <2>1, <2>5, <2>6, <2>8
  <1>3. ASSUME SaveRefused(r) PROVE OutputsInv'
    <2>1. /\ save' = [save EXCEPT ![r] = NoSave]
          /\ UNCHANGED <<org, active, settings, disk, scope, net, cache, event, changes, delivered, home, unfinished>>
      BY <1>3 DEF SaveRefused
    <2>2. save'[r] = NoSave BY <1>f, <2>1
    <2>3. SaveSound(r)' BY <2>2, NoSaveIs DEF SaveSound
    <2> QED BY <1>1, <2>1, <2>3, NoSaveIs
  <1>4. ASSUME SaveWrite(r) PROVE OutputsInv'
    <2> DEFINE s == save[r].slug  k == save[r].kind  p == save[r].org  o == org[s]
               y == [owner |-> p, on |-> save[r].new]
               f == [settings[p] EXCEPT ![k] = y]
    <2>1. /\ settings' = [settings EXCEPT ![o] = f]
          /\ Thrown(s, k) \/ Stays(s, k)
          /\ disk' = disk \/ disk' = [settings' EXCEPT ![Platform] = disk[Platform]]
          /\ save' = [save EXCEPT ![r] = NoSave] /\ save[r].pc = "check"
          /\ UNCHANGED <<org, active, scope, net, event, changes, delivered, home>>
      BY <1>4 DEF SaveWrite, Written, WritesRegistry
    <2>2. /\ s \in AllSlugs /\ p \in Orgs /\ save[r].new \subseteq Channels
          /\ k \in Kinds /\ org[s] # 0 /\ p <= Latest /\ home[p] = s /\ s # Default
      BY <1>0, <2>1, SaveFields DEF SaveSound
    <2>3. o \in Orgs /\ o <= Latest /\ home[o] = s
      BY <1>0, <2>2, OrgFields DEF OrgsSound, Used
    <2>4. settings[p] \in Settings BY <1>0, <2>2, SettingFields
    <2>5. y \in [owner : Orgs, on : SUBSET Channels] /\ y.owner = p BY <2>2
    <2> HIDE DEF y
    <2>6. f \in Settings /\ \A l \in Kinds : f[l] = (IF l = k THEN y ELSE settings[p][l])
      BY <2>2, <2>4, <2>5 DEF Settings
    <2> HIDE DEF f, s, k, p, o
    <2>7. \A l \in Kinds : f[l].owner = o \/ (f[l].owner <= Latest /\ home[f[l].owner] = home[o])
      BY <1>0, <2>2, <2>3, <2>5, <2>6 DEF SettingsSound, Owned
    <2>8. \A l \in Kinds : l # k /\ (\A q \in Orgs : home[q] = s /\ s # Default => q = o) => f[l].on = settings[o][l].on
      BY <2>2, <2>6
    <2>9. save' \in [Saves -> SaveStates] /\ save'[r] = NoSave /\ \A q \in Saves : q # r => save'[q] = save[q]
      BY <1>f, <2>1, NoSaveIs
    <2>10. SaveSound(r)' BY <2>9, NoSaveIs DEF SaveSound
    <2>11. \A q \in Saves : SaveSound(q)' BY <2>1, <2>9, <2>10, Untouched
    <2>12. o = org[s] /\ o # 0 BY <2>2 DEF o
    <2>14. settings' \in [Orgs -> Settings] /\ disk \in [Orgs -> Settings] /\ Platform \in Orgs
      BY <1>0, <2>1, <2>3, <2>6, OrgFields DEF IntegrationsTypeOK
    <2>15. disk' \in [Orgs -> Settings] /\ \A q \in Orgs : disk'[q] \in {disk[q], settings'[q]}
      <3>1. settings'[Platform] \in Settings /\ disk[Platform] \in Settings BY <2>14
      <3> QED BY <2>1, <2>14, <3>1
    <2>13. Replaces(s, k, o, f) BY <2>1, <2>7, <2>8, <2>12, <2>15 DEF Replaces
    <2> QED BY <2>2, <2>3, <2>6, <2>9, <2>11, <2>13, SettingsStep
  <1> QED BY <1>2, <1>3, <1>4

-----------------------------------------------------------------------------

\* Another organisation, with a slug of its own or one that another had.
LEMMA CreateStep ==
  ASSUME OutputsInv, NEW s \in Slugs, CreateOrg(s)
  PROVE  OutputsInv'
  <1> DEFINE n == Latest + 1
  <1>0. IntegrationsTypeOK /\ OrgsSound /\ SettingsSound BY DEF OutputsInv
  <1>1. /\ s \notin active /\ Latest < MaxOrgs /\ org' = [org EXCEPT ![s] = n] /\ active' = active \cup {s}
        /\ home' = [home EXCEPT ![n] = s]
        /\ WritesRegistry(settings)
        /\ UNCHANGED <<settings, scope, net, cache, event, save, changes, delivered, unfinished>>
    BY DEF CreateOrg
  <1>2. /\ MaxOrgs \in Nat /\ Latest \in Orgs /\ Latest \in Nat /\ Orgs = 0 .. MaxOrgs
        /\ \A o \in Orgs : o \in Nat
        /\ Used \subseteq Orgs /\ (\A o \in Used : o <= Latest)
        /\ org \in [AllSlugs -> Orgs] /\ home \in [Orgs -> AllSlugs]
    BY <1>0, OrgFields
  <1>3. s \in AllSlugs /\ s # Default /\ n \in Orgs /\ Platform < n /\ n \in Nat /\ n > Latest /\ n # 0 /\ n # Platform
    <2>1. s \in AllSlugs /\ s # Default BY IntegrationsAssumption DEF AllSlugs, Default
    <2>2. Platform <= Latest BY <1>0 DEF OrgsSound
    <2> QED BY <1>1, <1>2, <2>1, <2>2 DEF Platform
  <1>4. PICK m \in Orgs : m = n BY <1>3
  <1> HIDE DEF n
  <1>5. /\ org' \in [AllSlugs -> Orgs] /\ home' \in [Orgs -> AllSlugs]
        /\ \A t \in AllSlugs : org'[t] = (IF t = s THEN m ELSE org[t])
        /\ \A o \in Orgs : home'[o] = (IF o = m THEN s ELSE home[o])
    BY <1>1, <1>2, <1>3, <1>4
  <1>m. m \in Nat /\ m <= m /\ \A o \in Orgs : o <= Latest => o # m /\ o <= m
    <2>1. m \in Nat /\ m = Latest + 1 BY <1>3, <1>4 DEF n
    <2> QED BY <1>2, <2>1
  <1>6. Latest' = m /\ m \in Used' /\ \A o \in Used' : o <= m
    <2> DEFINE U == {org'[t] : t \in AllSlugs}
    <2>1. U = Used' BY DEF Used
    <2>2. m \in U /\ U \subseteq Orgs BY <1>3, <1>5
    <2>3. \A o \in U : o <= m
      <3> SUFFICES ASSUME NEW t \in AllSlugs PROVE org'[t] <= m OBVIOUS
      <3>1. org[t] \in Orgs /\ org[t] <= Latest BY <1>2 DEF Used
      <3> QED BY <1>m, <1>5, <3>1
    <2>4. Latest' = CHOOSE x \in U : \A o \in U : o <= x BY <2>1 DEF Latest
    <2> HIDE DEF U
    <2>5. Latest' \in U /\ \A o \in U : o <= Latest' BY <2>2, <2>3, <2>4
    <2>6. Latest' <= m /\ m <= Latest' /\ Latest' \in Nat BY <1>2, <2>2, <2>3, <2>5
    <2>7. Latest' = m BY <1>m, <2>6
    <2> QED BY <2>1, <2>2, <2>3, <2>7
  <1>7. \A o \in Orgs : o <= Latest => o # m /\ o <= Latest' /\ home'[o] = home[o]
    BY <1>m, <1>5, <1>6
  <1>d. disk' \in [Orgs -> Settings] /\ \A o \in Orgs : disk'[o] \in {disk[o], settings[o]}
    BY <1>0, <1>1 DEF IntegrationsTypeOK, WritesRegistry
  <1>8. IntegrationsTypeOK' BY <1>0, <1>1, <1>3, <1>5, <1>d DEF IntegrationsTypeOK
  <1>9. \A t \in AllSlugs : /\ org[t] <= Latest /\ org[t] \in Orgs
                            /\ org[t] # 0 => org'[t] # 0
                            /\ org'[t] # 0 => home'[org'[t]] = t
    <2> SUFFICES ASSUME NEW t \in AllSlugs
                 PROVE  /\ org[t] <= Latest /\ org[t] \in Orgs
                        /\ org[t] # 0 => org'[t] # 0
                        /\ org'[t] # 0 => home'[org'[t]] = t
      OBVIOUS
    <2>1. org[t] <= Latest /\ org[t] \in Orgs BY <1>2 DEF Used
    <2>2. CASE t = s BY <1>3, <1>4, <1>5, <2>1, <2>2
    <2>3. CASE t # s BY <1>0, <1>5, <1>7, <2>1, <2>3 DEF OrgsSound
    <2> QED BY <2>2, <2>3
  <1>10. OrgsSound'
    <2>1. Latest' \in Used' /\ \A o \in Used' : o <= Latest' BY <1>6
    <2>2. Platform <= Latest' BY <1>2, <1>3, <1>4, <1>6 DEF Platform
    <2>3. org'[Default] = Platform /\ Default \in active' BY <1>0, <1>1, <1>3, <1>5 DEF OrgsSound, AllSlugs
    <2>4. \A t \in AllSlugs : (t \in active' => org'[t] # 0) /\ (org'[t] # 0 => home'[org'[t]] = t)
      BY <1>0, <1>1, <1>3, <1>4, <1>5, <1>9 DEF OrgsSound
    <2>5. home'[0] = Default /\ home'[Platform] = Default
      BY <1>0, <1>2, <1>3, <1>4, <1>5, OrgFields DEF OrgsSound
    <2>6. \A o \in Orgs : o > Latest' => home'[o] = Default
      <3>1. \A o \in Orgs : o > m => o > Latest /\ o # m BY <1>2, <1>3, <1>4
      <3>2. \A o \in Orgs : o > Latest => home[o] = Default BY <1>0 DEF OrgsSound
      <3> QED BY <1>1, <1>5, <1>6, <3>1, <3>2
    <2> QED BY <2>1, <2>2, <2>3, <2>4, <2>5, <2>6 DEF OrgsSound
  <1>11. SettingsSound'
    <2>0. \A o \in Orgs : o > m => o > Latest BY <1>2, <1>3, <1>4
    <2>1. ASSUME NEW o \in Orgs, NEW f \in Settings, Owned(f, o)
          PROVE  /\ \A k \in Kinds : \/ f[k].owner = o
                                     \/ f[k].owner <= m /\ o <= m /\ home'[f[k].owner] = home'[o]
                 /\ o > m => f = Off(o)
      <3>1. \A k \in Kinds : f[k].owner \in Orgs BY DEF Settings
      <3> QED BY <1>6, <1>7, <2>0, <2>1, <3>1 DEF Owned
    <2>2. ASSUME NEW o \in Orgs PROVE Owned(settings[o], o)' /\ Owned(disk[o], o)'
      <3>1. /\ settings[o] \in Settings /\ Owned(settings[o], o)
            /\ disk'[o] \in Settings /\ Owned(disk'[o], o) /\ settings' = settings
        <4>1. Owned(settings[o], o) /\ Owned(disk[o], o) /\ settings[o] \in Settings
          BY <1>0 DEF SettingsSound, IntegrationsTypeOK
        <4> QED BY <1>1, <1>d, <4>1
      <3>2. /\ \A k \in Kinds : \/ settings[o][k].owner = o
                                \/ settings[o][k].owner <= m /\ o <= m /\ home'[settings[o][k].owner] = home'[o]
            /\ o > m => settings[o] = Off(o)
        BY <2>1, <3>1
      <3>3. /\ \A k \in Kinds : \/ disk'[o][k].owner = o
                                \/ disk'[o][k].owner <= m /\ o <= m /\ home'[disk'[o][k].owner] = home'[o]
            /\ o > m => disk'[o] = Off(o)
        BY <2>1, <3>1
      <3>4. Owned(settings[o], o)' BY <1>1, <1>6, <3>2 DEF Owned, Off
      <3>5. Owned(disk[o], o)' BY <1>6, <3>3 DEF Owned, Off
      <3> QED BY <3>4, <3>5
    <2> QED BY <2>2 DEF SettingsSound
  <1>12. ASSUME NEW t \in AllSlugs, NEW k \in Kinds PROVE CacheSound(t, k)' /\ CacheFresh(t, k)'
    <2>0. CacheSound(t, k) /\ CacheFresh(t, k) BY DEF OutputsInv
    <2>1. cache'[<<t, k>>] = cache[<<t, k>>] /\ cache[<<t, k>>] \in Managers BY <1>0, <1>1 DEF IntegrationsTypeOK
    <2>2. cache[<<t, k>>].owner \in Orgs BY <2>1, ManagerFields
    <2>3. CacheSound(t, k)' BY <1>7, <1>9, <2>0, <2>1, <2>2 DEF CacheSound
    <2>4. CacheFresh(t, k)'
      <3> SUFFICES ASSUME cache[<<t, k>>] # NoMgr, <<t, k>> \notin unfinished,
                          \A o \in Orgs : home'[o] = t /\ t # Default => o = org'[t]
                   PROVE  cache[<<t, k>>].on = settings[org'[t]][k].on
        BY <1>1, <2>1 DEF CacheFresh
      <3>1. org[t] # 0 /\ home[org[t]] = t /\ home'[org[t]] = t /\ org[t] # m
        BY <1>0, <1>7, <1>9, <2>0 DEF CacheSound, OrgsSound
      <3>2. t # s BY <1>3, <1>5, <1>9, <3>1
      <3>3. org'[t] = org[t] BY <1>5, <3>2
      <3>4. \A o \in Orgs : home[o] = t /\ t # Default => o = org[t]
        <4> SUFFICES ASSUME NEW o \in Orgs, home[o] = t, t # Default PROVE o = org[t] OBVIOUS
        <4>1. CASE o = m
          <5>1. home[m] = Default BY <1>0, <1>3, <1>4 DEF OrgsSound
          <5> QED BY <4>1, <5>1
        <4>2. CASE o # m BY <1>5, <3>3, <4>2
        <4> QED BY <4>1, <4>2
      <3> QED BY <2>0, <3>3, <3>4 DEF CacheFresh
    <2> QED BY <2>3, <2>4
  <1>13. ASSUME NEW j \in Events PROVE EventSound(j)'
    <2>0. EventSound(j) /\ event'[j] = event[j] BY <1>1 DEF OutputsInv
    <2>1. event[j].slug \in AllSlugs /\ event[j].org \in Orgs /\ event[j].mgr.owner \in Orgs /\ event[j].stored \in Orgs
      BY <1>0, EventFields, ManagerFields
    <2> QED BY <1>1, <1>7, <1>9, <2>0, <2>1 DEF EventSound, outbound_problem
  <1>14. ASSUME NEW r \in Saves PROVE SaveSound(r)'
    <2>0. SaveSound(r) /\ save'[r] = save[r] BY <1>1 DEF OutputsInv
    <2>1. save[r].slug \in AllSlugs /\ save[r].org \in Orgs BY <1>0, SaveFields
    <2> QED BY <1>7, <1>9, <2>0, <2>1 DEF SaveSound
  <1>15. ASSUME NEW d \in delivered' PROVE DeliverySound(d)'
    <2>0. d \in delivered /\ DeliverySound(d) BY <1>1, <1>15 DEF OutputsInv
    <2>1. d.org \in Orgs /\ d.owner \in Orgs BY <1>0, <2>0 DEF IntegrationsTypeOK
    <2> QED BY <1>7, <2>0, <2>1 DEF DeliverySound
  <1> QED BY <1>8, <1>10, <1>11, <1>12, <1>13, <1>14, <1>15 DEF OutputsInv

\* The superadmin, the destinations and restarts.
LEMMA OutsideSteps ==
  ASSUME OutputsInv,
         \/ \E s \in Slugs : DeleteOrg(s)
         \/ \E o \in Orgs : AllowedChanges(o) \/ DestinationMoves(o)
         \/ PlatformRestarts
  PROVE  OutputsInv'
  <1>0. IntegrationsTypeOK /\ OrgsSound BY DEF OutputsInv
  <1>r. /\ active \subseteq AllSlugs /\ Default \in active /\ \A t \in active : org[t] # 0
        /\ scope \in [Orgs -> BOOLEAN] /\ net \in [Orgs -> Nets] /\ changes \in Nat
        /\ cache \in [AllSlugs \X Kinds -> Managers] /\ event \in [Events -> EventStates]
        /\ save \in [Saves -> SaveStates]
        /\ delivered \subseteq [org : Orgs, owner : Orgs, kind : Kinds, net : Nets, allowed : BOOLEAN, sure : BOOLEAN, redirected : BOOLEAN]
    BY <1>0 DEF IntegrationsTypeOK, OrgsSound
  <1>1. ASSUME NEW s \in Slugs, DeleteOrg(s) PROVE OutputsInv'
    <2>1. /\ active' = active \ {s} /\ s # Default
          /\ WritesRegistry(settings)
          /\ UNCHANGED <<org, settings, scope, net, cache, event, save, changes, delivered, home, unfinished>>
      BY <1>1, IntegrationsAssumption DEF DeleteOrg, Default
    <2>2. /\ \A t \in AllSlugs, k \in Kinds : CacheSound(t, k)' /\ CacheFresh(t, k)'
          /\ \A j \in Events : EventSound(j)'
          /\ \A r \in Saves : SaveSound(r)'
          /\ \A d \in delivered' : DeliverySound(d)'
          /\ settings' \in [Orgs -> Settings] /\ \A p \in Orgs : Owned(settings'[p], p)
          /\ disk' \in [Orgs -> Settings] /\ \A p \in Orgs : disk'[p] \in {disk[p], settings'[p]}
          /\ unfinished' \subseteq AllSlugs \X Kinds
      BY <2>1, Untouched
    <2> QED BY <1>r, <2>1, <2>2, OutputStep
  <1>2. ASSUME NEW o \in Orgs, AllowedChanges(o) PROVE OutputsInv'
    <2>1. /\ scope' \in [Orgs -> BOOLEAN] /\ changes' \in Nat
          /\ WritesRegistry(settings)
          /\ UNCHANGED <<org, active, settings, net, cache, event, save, delivered, home, unfinished>>
      <3>1. changes' = changes + 1 /\ scope' = [scope EXCEPT ![o] = ~scope[o]]
            /\ WritesRegistry(settings)
            /\ UNCHANGED <<org, active, settings, net, cache, event, save, delivered, home, unfinished>>
        BY <1>2 DEF AllowedChanges
      <3>2. (~scope[o]) \in BOOLEAN OBVIOUS
      <3> QED BY <1>r, <3>1, <3>2
    <2>2. /\ \A t \in AllSlugs, k \in Kinds : CacheSound(t, k)' /\ CacheFresh(t, k)'
          /\ \A j \in Events : EventSound(j)'
          /\ \A r \in Saves : SaveSound(r)'
          /\ \A d \in delivered' : DeliverySound(d)'
          /\ settings' \in [Orgs -> Settings] /\ \A p \in Orgs : Owned(settings'[p], p)
          /\ disk' \in [Orgs -> Settings] /\ \A p \in Orgs : disk'[p] \in {disk[p], settings'[p]}
          /\ unfinished' \subseteq AllSlugs \X Kinds
      BY <2>1, Untouched
    <2> QED BY <1>r, <2>1, <2>2, OutputStep
  <1>3. ASSUME NEW o \in Orgs, DestinationMoves(o) PROVE OutputsInv'
    <2> DEFINE b(j) == event[j].sure /\ (event[j].mgr.owner # o \/ event[j].pc \in {"none", "begun", "guard"})
               x(j) == [event[j] EXCEPT !.sure = b(j)]
    <2>1. /\ changes' = changes + 1 /\ event' = [j \in Events |-> x(j)]
          /\ \E n \in Nets \ {net[o]} : net' = [net EXCEPT ![o] = n]
          /\ UNCHANGED <<org, active, settings, disk, scope, cache, save, delivered, home, unfinished>>
      BY <1>3 DEF DestinationMoves
    <2>2. net' \in [Orgs -> Nets] /\ (\A p \in Orgs : p # o => net'[p] = net[p]) /\ changes' \in Nat
      BY <1>r, <2>1
    <2>3. ASSUME NEW j \in Events
          PROVE  /\ x(j) \in EventStates /\ x(j).pc = event[j].pc /\ x(j).slug = event[j].slug
                 /\ x(j).org = event[j].org /\ x(j).kind = event[j].kind /\ x(j).level = event[j].level
                 /\ x(j).mgr = event[j].mgr /\ x(j).todo = event[j].todo /\ x(j).tried = event[j].tried
                 /\ x(j).stored = event[j].stored
                 /\ x(j).sure => event[j].sure
                                 /\ (event[j].mgr.owner # o \/ event[j].pc \in {"none", "begun", "guard"})
      <3>1. event[j] \in EventStates /\ b(j) \in BOOLEAN BY <1>0, EventFields
      <3>2. b(j) => event[j].sure /\ (event[j].mgr.owner # o \/ event[j].pc \in {"none", "begun", "guard"}) OBVIOUS
      <3> HIDE DEF b
      <3>3. /\ x(j) \in EventStates /\ x(j).pc = event[j].pc /\ x(j).slug = event[j].slug
            /\ x(j).org = event[j].org /\ x(j).kind = event[j].kind /\ x(j).level = event[j].level
            /\ x(j).mgr = event[j].mgr /\ x(j).todo = event[j].todo /\ x(j).tried = event[j].tried
            /\ x(j).stored = event[j].stored /\ x(j).sure = b(j)
        BY <3>1 DEF EventStates
      <3> QED BY <3>2, <3>3
    <2> HIDE DEF x
    <2>4. event' \in [Events -> EventStates] /\ \A j \in Events : event'[j] = x(j) BY <2>1, <2>3
    <2>5. Latest' = Latest BY <2>1, SameOrgs
    <2>6. ASSUME NEW j \in Events PROVE EventSound(j)'
      <3>1. EventSound(j) /\ event'[j] = x(j) BY <2>4 DEF OutputsInv
      <3>2. event[j].mgr.owner \in Orgs BY <1>0, EventFields, ManagerFields
      <3>3. x(j).sure /\ event[j].pc \in {"send", "channels"} => net'[event[j].mgr.owner] = net[event[j].mgr.owner]
        BY <2>2, <2>3, <3>2
      <3> QED BY <2>1, <2>3, <2>5, <3>1, <3>3 DEF EventSound, outbound_problem
    <2>7. /\ \A t \in AllSlugs, k \in Kinds : CacheSound(t, k)' /\ CacheFresh(t, k)'
          /\ \A r \in Saves : SaveSound(r)'
          /\ \A d \in delivered' : DeliverySound(d)'
          /\ settings' \in [Orgs -> Settings] /\ \A p \in Orgs : Owned(settings'[p], p)
          /\ disk' \in [Orgs -> Settings] /\ \A p \in Orgs : disk'[p] \in {disk[p], settings'[p]}
          /\ unfinished' \subseteq AllSlugs \X Kinds
      BY <2>1, Untouched
    <2> QED BY <1>r, <2>1, <2>2, <2>4, <2>6, <2>7, OutputStep
  <1>4. ASSUME PlatformRestarts PROVE OutputsInv'
    <2>1. /\ changes' = changes + 1 /\ cache' = [sk \in AllSlugs \X Kinds |-> NoMgr]
          /\ event' = [j \in Events |-> NoEvent] /\ save' = [r \in Saves |-> NoSave]
          /\ settings' = disk /\ delivered' = {} /\ unfinished' = {}
          /\ UNCHANGED <<org, active, disk, scope, net, home>>
      BY <1>4 DEF PlatformRestarts
    <2>2. /\ cache' \in [AllSlugs \X Kinds -> Managers] /\ event' \in [Events -> EventStates]
          /\ save' \in [Saves -> SaveStates] /\ changes' \in Nat
      BY <1>r, <2>1, NoMgrIs, NoEventIs, NoSaveIs
    <2>3. \A t \in AllSlugs, k \in Kinds : CacheSound(t, k)' /\ CacheFresh(t, k)'
      BY <2>1 DEF CacheSound, CacheFresh
    <2>4. \A j \in Events : EventSound(j)' BY <2>1, NoEventIs DEF EventSound
    <2>5. \A r \in Saves : SaveSound(r)' BY <2>1, NoSaveIs DEF SaveSound
    <2>6. /\ settings' \in [Orgs -> Settings] /\ \A p \in Orgs : Owned(settings'[p], p)
          /\ disk' \in [Orgs -> Settings] /\ \A p \in Orgs : disk'[p] \in {disk[p], settings'[p]}
      BY <1>0, <2>1 DEF OutputsInv, IntegrationsTypeOK, SettingsSound
    <2>7. (\A d \in delivered' : DeliverySound(d)') /\ unfinished' \subseteq AllSlugs \X Kinds BY <2>1
    <2> QED BY <1>r, <2>1, <2>2, <2>3, <2>4, <2>5, <2>6, <2>7, OutputStep
  <1> QED BY <1>1, <1>2, <1>3, <1>4

\* Every step keeps the invariant.
LEMMA OutputsSteps == OutputsInv /\ [IntegrationsNext]_integrationsVars => OutputsInv'
  <1> SUFFICES ASSUME OutputsInv, [IntegrationsNext]_integrationsVars PROVE OutputsInv' OBVIOUS
  <1>0. IntegrationsTypeOK /\ OrgsSound BY DEF OutputsInv
  <1>1. CASE UNCHANGED integrationsVars
    <2> USE <1>1 DEF integrationsVars
    <2>1. /\ \A t \in AllSlugs, k \in Kinds : CacheSound(t, k)' /\ CacheFresh(t, k)'
          /\ \A j \in Events : EventSound(j)'
          /\ \A r \in Saves : SaveSound(r)'
          /\ \A d \in delivered' : DeliverySound(d)'
          /\ settings' \in [Orgs -> Settings] /\ \A p \in Orgs : Owned(settings'[p], p)
          /\ disk' \in [Orgs -> Settings] /\ \A p \in Orgs : disk'[p] \in {disk[p], settings'[p]}
          /\ unfinished' \subseteq AllSlugs \X Kinds
      BY Untouched
    <2> QED BY <1>0, <2>1, OutputStep DEF IntegrationsTypeOK, OrgsSound
  <1>2. ASSUME NEW j \in Events, NEW s \in AllSlugs, NEW k \in Kinds, Emit(j, s, k) \/ _test_integration(j, s, k)
        PROVE  OutputsInv'
    BY <1>2, BeginStep DEF Emit, _test_integration
  <1>3. ASSUME NEW j \in Events, NEW c, send(j, c) \/ send_finding(j, c) \/ create_ticket(j, c) \/ test(j, c)
        PROVE  OutputsInv'
    BY <1>3, ChannelStep DEF send, send_finding, create_ticket, test
  <1>4. ASSUME NEW j \in Events,
               TakeManager(j) \/ Guard(j) \/ Store(j) \/ Select(j) \/ Finish(j)
        PROVE  OutputsInv'
    BY <1>4, TakeStep, SendingSteps
  <1> QED BY <1>1, <1>2, <1>3, <1>4, CreateStep, SaveSteps, PlatformSaveStep, OutsideSteps DEF IntegrationsNext, Asked, GoesOn

\* The inductive invariant of what goes out, for any instance of Integrations.
THEOREM OutputsInvariant == IntegrationsSpec => []OutputsInv
  BY OutputsStart, OutputsSteps, PTL DEF IntegrationsSpec

\* The variables of the integrations keep their types, for any organisations,
\* events and saves.
THEOREM IntegrationsType == IntegrationsSpec => []IntegrationsTypeOK
  <1>1. OutputsInv => IntegrationsTypeOK BY DEF OutputsInv
  <1> QED BY <1>1, OutputsInvariant, PTL

\* What is told under a slug goes where that slug's settings say, is stored with an
\* organisation of the slug, and goes first to nowhere its scope does not reach, names
\* that moved since the check apart (Store, GuardedIntegration).
THEOREM OutputsArePrivate == IntegrationsSpec => []OutputsPrivate
  <1>1. OutputsInv => OutputsPrivate
    <2> SUFFICES ASSUME OutputsInv PROVE OutputsPrivate OBVIOUS
    <2>1. OwnDestinations
      <3>1. \A d \in delivered : home[d.owner] = home[d.org] BY DEF OutputsInv, DeliverySound
      <3>2. \A j \in Events : event[j].stored # 0 => home[event[j].stored] = home[event[j].org]
        <4> SUFFICES ASSUME NEW j \in Events, event[j].stored # 0
                     PROVE  home[event[j].stored] = home[event[j].org]
          OBVIOUS
        <4>1. EventSound(j) BY DEF OutputsInv
        <4>2. event[j].pc = "channels" BY <4>1 DEF EventSound
        <4> QED BY <4>1, <4>2 DEF EventSound
      <3> QED BY <3>1, <3>2 DEF OwnDestinations
    <2>2. GuardHolds BY DEF OutputsInv, DeliverySound, GuardHolds
    <2> QED BY <2>1, <2>2 DEF OutputsPrivate, OutputsInv
  <1> QED BY <1>1, OutputsInvariant, PTL

\* Settings that were saved are those in force, unless the save raised half-way; every
\* channel that is on is tried, and a notification is stored before it goes out.
THEOREM OutputsFollow == IntegrationsSpec => []OutputsFollowSettings
  <1>1. OutputsInv => OutputsFollowSettings
    <2> SUFFICES ASSUME OutputsInv PROVE OutputsFollowSettings OBVIOUS
    <2>1. \A s \in AllSlugs, k \in Kinds : CacheFresh(s, k) BY DEF OutputsInv
    <2>2. \A j \in Events : EventSound(j) BY DEF OutputsInv
    <2>3. \A j \in Events : event[j].pc = "channels" /\ event[j].todo = {} => event[j].tried = event[j].mgr.on
      BY <2>2 DEF EventSound
    <2> QED BY <2>1, <2>2, <2>3 DEF OutputsFollowSettings, CacheFresh, EventSound
  <1> QED BY <1>1, OutputsInvariant, PTL

-----------------------------------------------------------------------------
\* Agents

\* The audit of a report, as the manager stores it in the end.
Whole(r, t, n) == Audit(r, t, "completed", n)

\* A report has no audit before create_scan, a running one until complete_scan,
\* and never a second one.
AuditsFollow ==
  /\ \A r \in Reports : \A s \in scans : s.report = r =>
       ~(report[r].pc = "none" /\ report[r].told = "none") /\ report[r].pc \notin {"sent", "create"}
  /\ \A r \in Reports : report[r].pc = "complete" =>
       Audit(r, report[r].tenant, "running", 0) \in scans
  /\ \A s \in scans, u \in scans : s.report = u.report => s = u

\* A report on its way comes from an agent and is for an organisation; whose
\* agent was told yes is stored, and its handling is over.
AnswersTrue ==
  /\ \A r \in Reports : report[r].pc # "none" \/ report[r].told # "none" =>
       report[r].by \in AgentNames /\ report[r].tenant \in Tenants
  /\ \A r \in Reports : report[r].pc = "sent" => report[r].told = "none"
  /\ \A r \in Reports : report[r].told = "yes" =>
       report[r].pc = "none" /\ Whole(r, report[r].tenant, report[r].total) \in scans

\* What is listed of an agent is stored, and was sent by it.
EntryTrue(t, n) ==
  LET a == agents[t][n] IN
  /\ a.report # 0 => Whole(a.report, t, a.total) \in scans /\ report[a.report].by = n
  /\ restarts = 0 /\ (\E r \in Reports : report[r].told = "yes" /\ report[r].by = n /\ report[r].tenant = t)
       => a.report # 0

ListTrue == \A t \in Tenants, n \in AgentNames : EntryTrue(t, n)

AgentsInv == AgentsTypeOK /\ AuditsFollow /\ AnswersTrue /\ ListTrue

\* The manager begins with nothing on its way and nothing stored.
LEMMA AgentsStart == AgentsInit => AgentsInv
  BY AgentsAssumption
  DEF AgentsInit, AgentsInv, Posts, Entries, Stages, Answers, AgentsTypeOK, AuditsFollow, AnswersTrue, ListTrue, EntryTrue, NoReport, Nothing

\* A step of a report changes that one, in its stage and what its agent was told.
LEMMA ReportBecomes ==
  ASSUME AgentsTypeOK, NEW r \in Reports, NEW p \in Stages, NEW a \in Answers, Becomes(r, p, a)
  PROVE  /\ report' \in [Reports -> Posts]
         /\ report'[r].pc = p /\ report'[r].told = a
         /\ report'[r].by = report[r].by /\ report'[r].tenant = report[r].tenant /\ report'[r].total = report[r].total
         /\ \A q \in Reports : q # r => report'[q] = report[q]
  <1> DEFINE x == [report[r] EXCEPT !.pc = p, !.told = a]
  <1>1. report \in [Reports -> Posts] /\ report[r] \in Posts BY DEF AgentsTypeOK
  <1>2. /\ x \in Posts /\ x.pc = p /\ x.told = a /\ x.by = report[r].by
        /\ x.tenant = report[r].tenant /\ x.total = report[r].total
    BY <1>1 DEF Posts
  <1>3. report' = [report EXCEPT ![r] = x] BY DEF Becomes
  <1> HIDE DEF x
  <1> QED BY <1>1, <1>2, <1>3

\* The list says what it said as long as it stays, no audit goes, and no agent
\* is told anything new.
LEMMA ListStays ==
  ASSUME AgentsTypeOK, ListTrue, NEW t \in Tenants, NEW n \in AgentNames,
         agents'[t][n].report = agents[t][n].report, agents'[t][n].total = agents[t][n].total,
         UNCHANGED restarts,
         agents[t][n].report # 0 => /\ Whole(agents[t][n].report, t, agents[t][n].total) \in scans'
                                    /\ report'[agents[t][n].report].by = report[agents[t][n].report].by,
         \A q \in Reports : report'[q].told = "yes" /\ report'[q].by = n /\ report'[q].tenant = t =>
            report[q].told = "yes" /\ report[q].by = n /\ report[q].tenant = t
  PROVE  EntryTrue(t, n)'
  BY DEF ListTrue, EntryTrue

\* An entry is of a report.
LEMMA EntryFields ==
  ASSUME AgentsTypeOK, NEW t \in Tenants, NEW n \in AgentNames
  PROVE  agents[t][n].report \in Reports \cup {0}
  BY DEF AgentsTypeOK, Entries

\* What a report carries.
LEMMA ReportFields ==
  ASSUME AgentsTypeOK, NEW r \in Reports
  PROVE  /\ report[r].pc \in Stages /\ report[r].told \in Answers /\ report[r].total \in Nat /\ report[r].at \in Nat
         /\ report[r].by \in AgentNames \cup {"none"} /\ report[r].tenant \in Tenants \cup {"none"}
  BY DEF AgentsTypeOK, Posts

\* Every step keeps the types.
LEMMA AgentsTypeStep ==
  ASSUME AgentsInv, AgentsNext PROVE AgentsTypeOK'
  <1> USE DEF AgentsInv
  <1>t. AgentsTypeOK OBVIOUS
  <1>1. ASSUME NEW r \in Reports, NEW n \in AgentNames, NEW t \in Tenants, NEW k \in 1 .. 2,
               report_scan(r, n, t, k) PROVE AgentsTypeOK'
    BY <1>1 DEF report_scan, AgentsTypeOK, Posts, Stages, Answers
  <1>2. ASSUME NEW r \in Reports, Unanswered(r) \/ api_agent_report(r) \/ ReportFails(r) PROVE AgentsTypeOK'
    <2>1. /\ \E p \in Stages, a \in Answers : Becomes(r, p, a)
          /\ UNCHANGED <<keys, scans, agents, beats, clock, restarts>>
      BY <1>2, <1>t, ReportFields DEF Unanswered, api_agent_report, ReportFails, Stages, Answers
    <2> QED BY <1>t, <2>1, ReportBecomes DEF AgentsTypeOK
  <1>4. ASSUME NEW r \in Reports, ReportCreate(r) PROVE AgentsTypeOK'
    <2>1. /\ report[r].pc = "complete" \/ report[r].pc # "none"
          /\ \E p \in Stages, a \in Answers : Becomes(r, p, a)
          /\ UNCHANGED <<keys, agents, beats, clock, restarts>>
      BY <1>4, <1>t, ReportFields DEF ReportCreate, Stages
    <2>2. scans' \subseteq Audits
      <3>1. report[r].tenant \in Tenants BY <2>1 DEF AnswersTrue
      <3>2. Audit(r, report[r].tenant, "running", 0) \in Audits BY <3>1 DEF Audit, Audits
      <3> QED BY <1>4, <1>t, <3>2 DEF ReportCreate, AgentsTypeOK
    <2> QED BY <1>t, <2>1, <2>2, ReportBecomes DEF AgentsTypeOK
  <1>5. ASSUME NEW r \in Reports, ReportComplete(r) PROVE AgentsTypeOK'
    <2> DEFINE b == report[r].by  u == report[r].tenant
               e == [last_seen |-> report[r].at, total |-> report[r].total, report |-> r, online |-> FALSE]
    <2>1. b \in AgentNames /\ u \in Tenants /\ report[r].at \in Nat /\ report[r].total \in Nat
      BY <1>5, <1>t, ReportFields DEF ReportComplete, AnswersTrue
    <2>2. e \in Entries
      BY <2>1 DEF Entries
    <2>3. agents' = [agents EXCEPT ![u][b] = e]
      BY <1>5 DEF ReportComplete
    <2>4. agents' \in [Tenants -> [AgentNames -> Entries]]
      <3> HIDE DEF b, u, e
      <3> QED BY <1>t, <2>1, <2>2, <2>3 DEF AgentsTypeOK
    <2>5. scans' \subseteq Audits
      <3>1. \A s \in Audits : Audit(r, s.tenant, "completed", report[r].total) \in Audits
        BY <2>1 DEF Audit, Audits
      <3> QED BY <1>5, <1>t, <3>1 DEF ReportComplete, AgentsTypeOK
    <2>6. /\ \E p \in Stages, a \in Answers : Becomes(r, p, a)
          /\ UNCHANGED <<keys, beats, clock, restarts>>
      BY <1>5 DEF ReportComplete, Stages, Answers
    <2> QED BY <1>t, <2>4, <2>5, <2>6, ReportBecomes DEF AgentsTypeOK
  <1>7. ASSUME NEW n \in AgentNames, NEW t \in Tenants, heartbeat(n, t) PROVE AgentsTypeOK'
    BY <1>7 DEF heartbeat, AgentsTypeOK
  <1>8. ASSUME NEW b \in beats, receive_heartbeat(b) \/ BeatLost(b) PROVE AgentsTypeOK'
    <2>1. b \in [by : AgentNames, tenant : Tenants, at : Nat] BY <1>t DEF AgentsTypeOK
    <2>2. agents' \in [Tenants -> [AgentNames -> Entries]]
      <3>1. b.tenant \in Tenants /\ b.by \in AgentNames /\ b.at \in Nat BY <2>1
      <3> DEFINE e == [agents[b.tenant][b.by] EXCEPT !.last_seen = b.at, !.online = TRUE]
      <3>2. e \in Entries
        <4>1. agents[b.tenant][b.by] \in Entries BY <1>t, <3>1 DEF AgentsTypeOK
        <4> QED BY <4>1, <3>1 DEF Entries
      <3>3. agents' = [agents EXCEPT ![b.tenant][b.by] = e] \/ agents' = agents
        BY <1>8, <1>t, <3>1 DEF receive_heartbeat, BeatLost, AgentsTypeOK
      <3> HIDE DEF e
      <3> QED BY <1>t, <3>1, <3>2, <3>3 DEF AgentsTypeOK
    <2> QED BY <1>8, <1>t, <2>2 DEF receive_heartbeat, BeatLost, AgentsTypeOK
  <1>9. ASSUME NEW t \in Tenants, RotateKey(t) PROVE AgentsTypeOK'
    BY <1>9 DEF RotateKey, AgentsTypeOK
  <1>10. ASSUME ManagerRestarts PROVE AgentsTypeOK'
    <2>1. \A r \in Reports : report[r] \in Posts /\ [report[r] EXCEPT !.pc = "none", !.told = "no"] \in Posts
      <3> TAKE r \in Reports
      <3>1. report[r] \in Posts BY <1>t DEF AgentsTypeOK
      <3> QED BY <3>1 DEF Posts, Stages, Answers
    <2>2. Nothing \in Entries BY DEF Nothing, Entries
    <2>3. report' \in [Reports -> Posts] BY <1>10, <2>1 DEF ManagerRestarts
    <2>4. agents' \in [Tenants -> [AgentNames -> Entries]] BY <1>10, <2>2 DEF ManagerRestarts
    <2>5. restarts' \in Nat /\ UNCHANGED <<keys, scans, beats, clock>>
      <3>1. restarts \in Nat BY <1>t DEF AgentsTypeOK
      <3>2. restarts' = restarts + 1 /\ UNCHANGED <<keys, scans, beats, clock>> BY <1>10 DEF ManagerRestarts
      <3> QED BY <3>1, <3>2
    <2> QED BY <1>t, <2>3, <2>4, <2>5 DEF AgentsTypeOK
  <1> QED BY <1>1, <1>2, <1>4, <1>5, <1>7, <1>8, <1>9, <1>10 DEF AgentsNext

\* A report's audit follows its handling, and the list follows the audits.
LEMMA AgentsStep == AgentsInv /\ [AgentsNext]_agentsVars => AgentsInv'
  <1> SUFFICES ASSUME AgentsInv, [AgentsNext]_agentsVars PROVE AgentsInv' OBVIOUS
  <1> USE AgentsAssumption DEF AgentsInv
  <1>0. CASE UNCHANGED agentsVars
    BY <1>0 DEF agentsVars, AgentsTypeOK, AuditsFollow, AnswersTrue, ListTrue, EntryTrue
  <1>1. CASE AgentsNext
    <2>0. AgentsTypeOK' BY <1>1, AgentsTypeStep
    <2>t. AgentsTypeOK OBVIOUS
    <2>1. ASSUME NEW r \in Reports, NEW n \in AgentNames, NEW t \in Tenants, NEW k \in 1 .. 2,
                 report_scan(r, n, t, k) PROVE AgentsInv'
      <3>1. /\ UNCHANGED <<scans, agents, restarts>>
            /\ report[r].pc = "none" /\ report[r].told = "none"
            /\ report'[r].pc = "sent" /\ report'[r].by = n /\ report'[r].tenant = t /\ report'[r].told = "none"
            /\ \A q \in Reports : q # r => report'[q] = report[q]
        BY <2>1, <2>t DEF report_scan, AgentsTypeOK, Posts
      <3>2. \A s \in scans : s.report # r BY <3>1 DEF AuditsFollow
      <3>3. AuditsFollow' BY <3>1, <3>2 DEF AuditsFollow
      <3>4. AnswersTrue' BY <3>1 DEF AnswersTrue
      <3>5. ListTrue'
        <4>1. \A u \in Tenants, m \in AgentNames : agents[u][m].report # 0 =>
                agents[u][m].report # r /\ Whole(agents[u][m].report, u, agents[u][m].total) \in scans
          BY <3>2 DEF ListTrue, EntryTrue, Whole, Audit
        <4>2. ASSUME NEW u \in Tenants, NEW m \in AgentNames PROVE EntryTrue(u, m)'
          BY <3>1, <4>1, <2>t, ListStays, EntryFields
        <4> QED BY <4>2 DEF ListTrue
      <3> QED BY <2>0, <3>3, <3>4, <3>5
    <2>2. ASSUME NEW r \in Reports, Unanswered(r) \/ api_agent_report(r) \/ ReportFails(r) PROVE AgentsInv'
      <3>1. /\ UNCHANGED <<scans, agents, restarts>>
            /\ report[r].pc # "none" /\ report'[r].by = report[r].by /\ report'[r].tenant = report[r].tenant
            /\ \/ report'[r].told = "none" /\ report[r].pc = "sent" /\ report'[r].pc = "create"
               \/ report'[r].told = "no" /\ report'[r].pc = "none"
               \/ report'[r].told = "no" /\ report'[r].pc = report[r].pc /\ report[r].pc # "sent"
            /\ \A q \in Reports : q # r => report'[q] = report[q]
        <4>1. /\ UNCHANGED <<scans, agents, restarts>> /\ report[r].pc # "none"
              /\ \/ Becomes(r, "create", "none") /\ report[r].pc = "sent"
                 \/ Becomes(r, "none", "no")
                 \/ Becomes(r, report[r].pc, "no") /\ report[r].pc # "sent"
          BY <2>2 DEF Unanswered, api_agent_report, ReportFails
        <4> QED BY <4>1, <2>t, ReportBecomes, ReportFields DEF Stages, Answers
      <3>2. \A s \in scans : s.report = r => report[r].pc = "complete"
        BY <2>t, <3>1, ReportFields DEF AuditsFollow, Stages
      <3>3. AuditsFollow' BY <3>1, <3>2 DEF AuditsFollow
      <3>4. AnswersTrue' BY <3>1 DEF AnswersTrue
      <3>5. ListTrue'
        <4>1. ASSUME NEW u \in Tenants, NEW m \in AgentNames PROVE EntryTrue(u, m)'
          <5>1. agents[u][m].report # 0 => Whole(agents[u][m].report, u, agents[u][m].total) \in scans'
            BY <3>1 DEF ListTrue, EntryTrue
          <5> QED BY <3>1, <5>1, <2>t, ListStays, EntryFields
        <4> QED BY <4>1 DEF ListTrue
      <3> QED BY <2>0, <3>3, <3>4, <3>5
    <2>3. ASSUME NEW r \in Reports, ReportCreate(r) PROVE AgentsInv'
      <3> DEFINE new == Audit(r, report[r].tenant, "running", 0)
      <3>1. /\ UNCHANGED <<agents, restarts>> /\ scans' = scans \cup {new}
            /\ report[r].pc = "create" /\ report'[r].pc = "complete" /\ report'[r].by = report[r].by
            /\ report'[r].tenant = report[r].tenant /\ report'[r].told = report[r].told
            /\ \A q \in Reports : q # r => report'[q] = report[q]
        BY <2>3, <2>t, ReportBecomes, ReportFields DEF ReportCreate, Stages
      <3>2. \A s \in scans : s.report # r BY <3>1 DEF AuditsFollow
      <3>n. new = Audit(r, report[r].tenant, "running", 0) /\ new.report = r BY DEF Audit
      <3> HIDE DEF new
      <3>3. AuditsFollow' BY <3>1, <3>2, <3>n DEF AuditsFollow
      <3>4. AnswersTrue' BY <3>1 DEF AnswersTrue
      <3>5. ListTrue'
        <4>1. ASSUME NEW u \in Tenants, NEW m \in AgentNames PROVE EntryTrue(u, m)'
          <5>1. agents[u][m].report # 0 => Whole(agents[u][m].report, u, agents[u][m].total) \in scans'
            BY <3>1 DEF ListTrue, EntryTrue
          <5> QED BY <3>1, <5>1, <2>t, ListStays, EntryFields
        <4> QED BY <4>1 DEF ListTrue
      <3> QED BY <2>0, <3>3, <3>4, <3>5
    <2>4. ASSUME NEW r \in Reports, ReportComplete(r) PROVE AgentsInv'
      <3> DEFINE u == report[r].tenant  b == report[r].by  k == report[r].total
                 old == Audit(r, u, "running", 0)
                 new == Whole(r, u, k)
      <3>1. /\ UNCHANGED restarts
            /\ report[r].pc = "complete" /\ report'[r].pc = "none" /\ report'[r].by = b
            /\ report'[r].tenant = u /\ report'[r].told \in {"yes", "no"} /\ report'[r].total = k
            /\ report[r].told # "yes"
            /\ \A q \in Reports : q # r => report'[q] = report[q]
        <4>1. /\ UNCHANGED restarts /\ report[r].pc = "complete"
              /\ Becomes(r, "none", "yes") \/ Becomes(r, "none", "no")
          BY <2>4 DEF ReportComplete
        <4> QED BY <4>1, <2>t, ReportBecomes DEF Stages, Answers, AnswersTrue
      <3>2. old \in scans /\ \A s \in scans : s.report = r <=> s = old
        <4>1. old \in scans BY <3>1 DEF AuditsFollow
        <4>2. old.report = r BY DEF Audit
        <4> HIDE DEF old
        <4> QED BY <4>1, <4>2 DEF AuditsFollow
      <3>3. b \in AgentNames /\ u \in Tenants BY <3>1 DEF AnswersTrue
      <3>4. scans' = (scans \ {old}) \cup {new}
        <4>1. Audit(r, old.tenant, "completed", k) = new BY DEF Whole, Audit
        <4>2. scans' = {IF s.report = r THEN Audit(r, s.tenant, "completed", k) ELSE s : s \in scans}
          BY <2>4 DEF ReportComplete
        <4> HIDE DEF old, new
        <4> QED BY <3>2, <4>1, <4>2
      <3>5. new.report = r /\ old.report = r BY DEF Whole, Audit
      <3>6. AuditsFollow'
        <4> HIDE DEF old, new
        <4>1. \A s \in scans' : s.report = r <=> s = new BY <3>2, <3>4, <3>5
        <4>2. \A q \in Reports : q # r => \A s : s.report = q => (s \in scans <=> s \in scans')
          BY <3>4, <3>5
        <4>3. \A q \in Reports : \A s \in scans' : s.report = q =>
                ~(report'[q].pc = "none" /\ report'[q].told = "none") /\ report'[q].pc \notin {"sent", "create"}
          BY <3>1, <3>4, <4>1 DEF AuditsFollow
        <4>4. \A q \in Reports : report'[q].pc = "complete" =>
                Audit(q, report'[q].tenant, "running", 0) \in scans'
          <5>1. \A q, v : Audit(q, v, "running", 0).report = q BY DEF Audit
          <5> QED BY <3>1, <4>2, <5>1 DEF AuditsFollow
        <4>5. \A s \in scans', v \in scans' : s.report = v.report => s = v
          BY <3>4, <4>1 DEF AuditsFollow
        <4> QED BY <4>3, <4>4, <4>5 DEF AuditsFollow
      <3>7. \A q, t, m : Whole(q, t, m) \in scans => Whole(q, t, m) \in scans' /\ q # r
        <4> SUFFICES ASSUME NEW q, NEW t, NEW m, Whole(q, t, m) \in scans
                     PROVE  Whole(q, t, m) \in scans' /\ q # r OBVIOUS
        <4>1. Whole(q, t, m) # old /\ Whole(q, t, m).report = q BY DEF Whole, Audit
        <4> HIDE DEF old, new
        <4> QED BY <3>2, <3>4, <4>1
      <3>8. AnswersTrue'
        <4> HIDE DEF old
        <4> QED BY <3>1, <3>3, <3>4, <3>7 DEF AnswersTrue
      <3>9. ListTrue'
        <4>1. /\ \A t \in Tenants, n \in AgentNames : t # u \/ n # b => agents'[t][n] = agents[t][n]
              /\ agents'[u][b].report = r /\ agents'[u][b].total = k
          BY <2>4, <2>t, <3>3 DEF ReportComplete, AgentsTypeOK
        <4>2. ASSUME NEW t \in Tenants, NEW n \in AgentNames
              PROVE EntryTrue(t, n)'
          <5> HIDE DEF old
          <5>1. CASE t = u /\ n = b BY <5>1, <4>1, <3>1, <3>4 DEF EntryTrue
          <5>2. CASE t # u \/ n # b
            <6>1. agents'[t][n] = agents[t][n] BY <5>2, <4>1
            <6>2. agents[t][n].report \in Reports \cup {0} BY <2>t DEF AgentsTypeOK, Entries
            <6> HIDE DEF new, u, b, k
            <6>3. agents[t][n].report # 0 => agents[t][n].report # r /\ Whole(agents[t][n].report, t, agents[t][n].total) \in scans'
              BY <3>7 DEF ListTrue, EntryTrue
            <6>4. \A q \in Reports : q = r /\ report[q].by = n => report[q].tenant # t BY <5>2 DEF b, u
            <6>5. \A q \in Reports : report'[q].told = "yes" /\ report'[q].by = n /\ report'[q].tenant = t =>
                    report[q].told = "yes" /\ report[q].by = n /\ report[q].tenant = t
              <7>1. report'[r].by = report[r].by /\ report'[r].tenant = report[r].tenant BY <3>1 DEF u, b
              <7> QED BY <3>1, <6>4, <7>1
            <6>6. agents[t][n].report # 0 => report'[agents[t][n].report].by = report[agents[t][n].report].by
              BY <6>2, <6>3, <3>1
            <6>7. restarts' = restarts BY <3>1
            <6> QED BY <6>1, <6>3, <6>5, <6>6, <6>7, <2>t, ListStays
          <5> QED BY <5>1, <5>2
        <4> QED BY <4>2 DEF ListTrue
      <3> QED BY <2>0, <3>6, <3>8, <3>9
    <2>5. ASSUME (\E n \in AgentNames, t \in Tenants : heartbeat(n, t)) \/ (\E b \in beats : BeatLost(b))
                 \/ (\E t \in Tenants : RotateKey(t)) PROVE AgentsInv'
      <3>1. UNCHANGED <<report, scans, agents, restarts>> BY <2>5 DEF heartbeat, BeatLost, RotateKey
      <3> QED BY <2>0, <3>1 DEF AuditsFollow, AnswersTrue, ListTrue, EntryTrue
    <2>6. ASSUME NEW b \in beats, receive_heartbeat(b) PROVE AgentsInv'
      <3>1. UNCHANGED <<report, scans, restarts>> BY <2>6 DEF receive_heartbeat
      <3>2. \A t \in Tenants, n \in AgentNames :
              agents'[t][n].report = agents[t][n].report /\ agents'[t][n].total = agents[t][n].total
        <4>1. /\ b.tenant \in Tenants /\ b.by \in AgentNames
              /\ agents \in [Tenants -> [AgentNames -> Entries]] /\ agents[b.tenant][b.by] \in Entries
          BY <2>t DEF AgentsTypeOK
        <4> DEFINE e == [agents[b.tenant][b.by] EXCEPT !.last_seen = b.at, !.online = TRUE]
        <4>2. e.report = agents[b.tenant][b.by].report /\ e.total = agents[b.tenant][b.by].total
          BY <4>1 DEF Entries
        <4>3. agents' = [agents EXCEPT ![b.tenant][b.by] = e]
          BY <2>6, <4>1 DEF receive_heartbeat
        <4> HIDE DEF e
        <4> QED BY <4>1, <4>2, <4>3
      <3> QED BY <2>0, <3>1, <3>2 DEF AuditsFollow, AnswersTrue, ListTrue, EntryTrue
    <2>7. ASSUME ManagerRestarts PROVE AgentsInv'
      <3>1. /\ scans' = scans /\ restarts' # 0
            /\ \A t \in Tenants, n \in AgentNames : agents'[t][n].report = 0
            /\ \A q \in Reports : \/ report'[q] = report[q] /\ report[q].pc \notin {"create", "complete"}
                                  \/ /\ report[q].pc \in {"create", "complete"}
                                     /\ report'[q].pc = "none" /\ report'[q].told = "no"
                                     /\ report'[q].by = report[q].by /\ report'[q].tenant = report[q].tenant
        <4>1. \A q \in Reports : report[q].pc \in {"create", "complete"} =>
                 report'[q] = [report[q] EXCEPT !.pc = "none", !.told = "no"]
          BY <2>7 DEF ManagerRestarts
        <4>2. \A q \in Reports : report[q].pc \notin {"create", "complete"} => report'[q] = report[q]
          BY <2>7 DEF ManagerRestarts
        <4>3. \A q \in Reports : report[q] \in Posts BY <2>t DEF AgentsTypeOK
        <4>4. scans' = scans /\ restarts' # 0
          <5>1. restarts \in Nat BY <2>t DEF AgentsTypeOK
          <5>2. scans' = scans /\ restarts' = restarts + 1 BY <2>7 DEF ManagerRestarts
          <5> QED BY <5>1, <5>2
        <4>5. \A t \in Tenants, n \in AgentNames : agents'[t][n].report = 0 BY <2>7 DEF ManagerRestarts, Nothing
        <4>6. \A q \in Reports : report[q].pc \in {"create", "complete"} =>
                 /\ report'[q].pc = "none" /\ report'[q].told = "no"
                 /\ report'[q].by = report[q].by /\ report'[q].tenant = report[q].tenant
          <5> TAKE q \in Reports
          <5> HAVE report[q].pc \in {"create", "complete"}
          <5>1. report[q] \in Posts /\ report'[q] = [report[q] EXCEPT !.pc = "none", !.told = "no"] BY <4>1, <4>3
          <5> QED BY <5>1 DEF Posts
        <4> QED BY <4>2, <4>4, <4>5, <4>6
      <3>2. AuditsFollow' BY <3>1 DEF AuditsFollow
      <3>3. AnswersTrue'
        <4>1. \A q \in Reports : report'[q].told = "yes" => report'[q] = report[q] BY <3>1
        <4> QED BY <3>1, <4>1 DEF AnswersTrue
      <3>4. ListTrue' BY <3>1 DEF ListTrue, EntryTrue
      <3> QED BY <2>0, <3>2, <3>3, <3>4
    <2> QED BY <1>1, <2>1, <2>2, <2>3, <2>4, <2>5, <2>6, <2>7 DEF AgentsNext
  <1> QED BY <1>0, <1>1

\* The reports, the registry and what is stored of them keep their types
\* (AgentManager).
THEOREM AgentsType == AgentsSpec => []AgentsTypeOK
  BY AgentsStart, AgentsStep, PTL DEF AgentsSpec, AgentsInv

\* Whatever reports, heartbeats and restarts come in any order: a report whose
\* agent was told it was received is stored once, whole and in its own
\* organisation, and what is listed of an agent is an audit of its own.
THEOREM ReportsAreStored == AgentsSpec => []ReportsStored
  <1>1. AgentsInv => ReportsStored
    <2> SUFFICES ASSUME AgentsInv PROVE ReportsStored OBVIOUS
    <2> USE DEF AgentsInv
    <2>1. \A r \in Reports : \A t, n : Whole(r, t, n) \in scans =>
            \E s \in Stored(r) : s = Whole(r, t, n) /\ s.tenant = t /\ s.total = n /\ s.report = r
      BY DEF Whole, Stored, Audit
    <2>2. ASSUME NEW r \in Reports PROVE Cardinality({s \in scans : s.report = r}) <= 1
      <3> DEFINE S == {s \in scans : s.report = r}
      <3>1. S = {} \/ \E s : S = {s} BY DEF AuditsFollow
      <3>2. Cardinality({}) = 0 BY FS_EmptySet
      <3>3. \A s : Cardinality({s}) = 1 BY FS_Singleton
      <3> HIDE DEF S
      <3>4. ASSUME S = {} PROVE Cardinality(S) <= 1 BY <3>2, <3>4
      <3>5. ASSUME NEW s, S = {s} PROVE Cardinality(S) <= 1 BY <3>3, <3>5
      <3>6. Cardinality(S) <= 1 BY <3>1, <3>4, <3>5
      <3> QED BY <3>6 DEF S
    <2>3. ToldIsStored BY <2>1, <2>2 DEF ToldIsStored, AnswersTrue
    <2>4. ListedIsStored
      <3>1. \A t \in Tenants, n \in AgentNames : agents[t][n].report \in Reports \cup {0} BY DEF AgentsTypeOK, Entries
      <3> QED BY <2>1, <3>1 DEF ListedIsStored, ListTrue, EntryTrue
    <2> QED BY <2>3, <2>4 DEF ReportsStored, AgentsInv
  <1> QED BY <1>1, AgentsStart, AgentsStep, PTL DEF AgentsSpec

-----------------------------------------------------------------------------
\* Posture

\* What is stored is what was reported, and what was told compares it with what
\* was stored before.
FallsSound ==
  /\ found \in Seq(Findings) /\ audited \in Seq(Findings) /\ told.before \in Seq(Findings)
  /\ stored = ReadBack(audited)
  /\ ~told.first => told.frameworks = detect_compliance_drops(ReadBack(told.before), audited)

\* Before the first audit nothing is stored or told.
LEMMA FallsStart == PostureInit => FallsSound
  <1> SUFFICES ASSUME PostureInit PROVE FallsSound OBVIOUS
  <1>1. ReadBack(<<>>) = <<>> BY DEF ReadBack
  <1> QED BY <1>1, PostureAssumption DEF PostureInit, FallsSound

\* An audit compares what it found with what the one before stored.
LEMMA FallsStep == FallsSound /\ [PostureNext]_postureVars => FallsSound'
  <1> SUFFICES ASSUME FallsSound, [PostureNext]_postureVars PROVE FallsSound' OBVIOUS
  <1>1. CASE UNCHANGED postureVars BY <1>1 DEF postureVars, FallsSound
  <1>2. ASSUME found' \in Seq(Findings), UNCHANGED <<audited, stored, told>> PROVE FallsSound'
    BY <1>2 DEF FallsSound
  <1>3. ASSUME NEW f \in Problems, Appears(f) PROVE FallsSound'
    <2>1. f \in Findings /\ found \in Seq(Findings) BY PostureAssumption DEF FallsSound
    <2> QED BY <1>2, <1>3, <2>1 DEF Appears
  <1>4. ASSUME NEW i \in DOMAIN found, Fixed(i) PROVE FallsSound'
    <2>1. found \in Seq(Findings) BY DEF FallsSound
    <2>2. SubSeq(found, 1, i - 1) \in Seq(Findings) /\ SubSeq(found, i + 1, Len(found)) \in Seq(Findings)
      BY <2>1
    <2> QED BY <1>2, <1>4, <2>2 DEF Fixed, RemoveAt
  <1>5. CASE DailyAudit
    <2>1. audited' = found /\ stored' = ReadBack(found) /\ found' = found BY <1>5 DEF DailyAudit
    <2>2. /\ told'.first = (audits = 0) /\ told'.before = audited
          /\ told'.frameworks = IF audits = 0 THEN {} ELSE detect_compliance_drops(stored, found)
      BY <1>5 DEF DailyAudit
    <2>3. stored' = ReadBack(audited') /\ found' \in Seq(Findings) /\ audited' \in Seq(Findings)
          /\ told'.before \in Seq(Findings)
      BY <2>1, <2>2 DEF FallsSound
    <2>4. ASSUME ~told'.first
          PROVE  told'.frameworks = detect_compliance_drops(ReadBack(told'.before), audited')
      BY <2>1, <2>2, <2>4 DEF FallsSound
    <2> QED BY <2>3, <2>4 DEF FallsSound
  <1> QED BY <1>1, <1>3, <1>4, <1>5 DEF PostureNext

\* A fall of more than the whole is one after rounding.
LEMMA RoundApart ==
  ASSUME NEW x \in Nat, NEW y \in Nat, NEW den \in Nat \ {0}
  PROVE  /\ Round(x, den) \in Int /\ Round(y, den) \in Int
         /\ x + den < y => Round(x, den) < Round(y, den)
  <1>1. ASSUME NEW n \in Nat
        PROVE  /\ Round(n, den) \in Int
               /\ 2 * n - den <= 2 * (den * Round(n, den))
               /\ 2 * (den * Round(n, den)) <= 2 * n + den
    <2>1. PICK q, r : q = n \div den /\ r = n % den OBVIOUS
    <2>2. q \in Int /\ r \in Int /\ 0 <= r /\ r < den /\ n = den * q + r BY <2>1
    <2>3. Round(n, den) = IF 2 * r < den \/ (2 * r = den /\ q % 2 = 0) THEN q ELSE q + 1
      BY <2>1 DEF Round
    <2>4. PICK k \in Int : k = den * q BY <2>2
    <2>5. den * (q + 1) = k + den BY <2>2, <2>4
    <2>6. CASE 2 * r < den \/ (2 * r = den /\ q % 2 = 0)
      <3>1. Round(n, den) = q BY <2>3, <2>6
      <3> QED BY <2>2, <2>4, <2>6, <3>1
    <2>7. CASE ~(2 * r < den \/ (2 * r = den /\ q % 2 = 0))
      <3>1. Round(n, den) = q + 1 BY <2>3, <2>7
      <3>2. 2 * r >= den BY <2>2, <2>7
      <3> QED BY <2>2, <2>4, <2>5, <3>1, <3>2
    <2> QED BY <2>6, <2>7
  <1>2. PICK a, b : a = Round(x, den) /\ b = Round(y, den) OBVIOUS
  <1>3. a \in Int /\ b \in Int /\ (x + den < y => den * a < den * b) BY <1>1, <1>2
  <1>4. ASSUME x + den < y PROVE a < b
    <2> SUFFICES ASSUME b <= a PROVE FALSE BY <1>3
    <2>1. den * b <= den * a BY <1>3
    <2> QED BY <1>3, <1>4, <2>1
  <1> QED BY <1>2, <1>3, <1>4

-----------------------------------------------------------------------------
\* The controls of the table, and a set of at most four.
Mapped == UNION {CATEGORY_TO_CONTROLS[i][2] : i \in DOMAIN CATEGORY_TO_CONTROLS}
Four(S) == \E a, b, c, d : S = {a, b, c, d}

\* Every entry of the table brings down at most four controls.
LEMMA FourAtMost ==
  /\ DOMAIN CATEGORY_TO_CONTROLS = 1 .. 25
  /\ \A i \in 1 .. 25 : Four(CATEGORY_TO_CONTROLS[i][2])
  <1>1. DOMAIN CATEGORY_TO_CONTROLS = 1 .. 25 BY DEF CATEGORY_TO_CONTROLS
  <1>2. \A i \in 1 .. 25 : Four(CATEGORY_TO_CONTROLS[i][2])
    <2>1. \A a, b : Four({a, b})
      <3> SUFFICES ASSUME NEW a, NEW b PROVE Four({a, b}) OBVIOUS
      <3>1. {a, b} = {a, b, b, b} OBVIOUS
      <3> QED BY <3>1 DEF Four
    <2>2. \A a, b, c : Four({a, b, c})
      <3> SUFFICES ASSUME NEW a, NEW b, NEW c PROVE Four({a, b, c}) OBVIOUS
      <3>1. {a, b, c} = {a, b, c, c} OBVIOUS
      <3> QED BY <3>1 DEF Four
    <2>3. \A a, b, c, d : Four({a, b, c, d}) BY DEF Four
    <2>4. /\ Four(CATEGORY_TO_CONTROLS[1][2]) /\ Four(CATEGORY_TO_CONTROLS[2][2]) /\ Four(CATEGORY_TO_CONTROLS[3][2]) /\ Four(CATEGORY_TO_CONTROLS[4][2]) /\ Four(CATEGORY_TO_CONTROLS[5][2])
          /\ Four(CATEGORY_TO_CONTROLS[6][2]) /\ Four(CATEGORY_TO_CONTROLS[7][2]) /\ Four(CATEGORY_TO_CONTROLS[8][2]) /\ Four(CATEGORY_TO_CONTROLS[9][2]) /\ Four(CATEGORY_TO_CONTROLS[10][2])
          /\ Four(CATEGORY_TO_CONTROLS[11][2]) /\ Four(CATEGORY_TO_CONTROLS[12][2]) /\ Four(CATEGORY_TO_CONTROLS[13][2]) /\ Four(CATEGORY_TO_CONTROLS[14][2]) /\ Four(CATEGORY_TO_CONTROLS[15][2])
          /\ Four(CATEGORY_TO_CONTROLS[16][2]) /\ Four(CATEGORY_TO_CONTROLS[17][2]) /\ Four(CATEGORY_TO_CONTROLS[18][2]) /\ Four(CATEGORY_TO_CONTROLS[19][2]) /\ Four(CATEGORY_TO_CONTROLS[20][2])
          /\ Four(CATEGORY_TO_CONTROLS[21][2]) /\ Four(CATEGORY_TO_CONTROLS[22][2]) /\ Four(CATEGORY_TO_CONTROLS[23][2]) /\ Four(CATEGORY_TO_CONTROLS[24][2]) /\ Four(CATEGORY_TO_CONTROLS[25][2])
      BY <2>1, <2>2, <2>3 DEF CATEGORY_TO_CONTROLS
    <2> QED BY <2>4
  <1> QED BY <1>1, <1>2

\* All of them are a hundred at most.
LEMMA MappedBound == IsFiniteSet(Mapped) /\ Cardinality(Mapped) <= 100
  <1> DEFINE Quad(i) == CHOOSE q \in [1 .. 4 -> Mapped] : \A c \in CATEGORY_TO_CONTROLS[i][2] : \E m \in 1 .. 4 : q[m] = c
             f == [k \in 1 .. 100 |-> Quad((k - 1) \div 4 + 1)[((k - 1) % 4) + 1]]
  <1>1. ASSUME NEW i \in 1 .. 25
        PROVE  Quad(i) \in [1 .. 4 -> Mapped] /\ \A c \in CATEGORY_TO_CONTROLS[i][2] : \E m \in 1 .. 4 : Quad(i)[m] = c
    <2>1. PICK a, b, c, d : CATEGORY_TO_CONTROLS[i][2] = {a, b, c, d} BY FourAtMost DEF Four
    <2>2. {a, b, c, d} \subseteq Mapped BY <2>1, FourAtMost DEF Mapped
    <2>3. PICK q : q = [m \in 1 .. 4 |-> IF m = 1 THEN a ELSE IF m = 2 THEN b ELSE IF m = 3 THEN c ELSE d] OBVIOUS
    <2>4. q \in [1 .. 4 -> Mapped] /\ q[1] = a /\ q[2] = b /\ q[3] = c /\ q[4] = d BY <2>2, <2>3
    <2>5. \A x \in CATEGORY_TO_CONTROLS[i][2] : \E m \in 1 .. 4 : q[m] = x BY <2>1, <2>4
    <2> QED BY <2>4, <2>5
  <1> HIDE DEF Quad
  <1>2. \A k \in 1 .. 100 : (k - 1) \div 4 + 1 \in 1 .. 25 /\ ((k - 1) % 4) + 1 \in 1 .. 4 OBVIOUS
  <1>3. f \in [1 .. 100 -> Mapped] BY <1>1, <1>2
  <1>4. \A c \in Mapped : \E k \in 1 .. 100 : f[k] = c
    <2> SUFFICES ASSUME NEW c \in Mapped PROVE \E k \in 1 .. 100 : f[k] = c OBVIOUS
    <2>1. PICK i \in 1 .. 25 : c \in CATEGORY_TO_CONTROLS[i][2] BY FourAtMost DEF Mapped
    <2>2. PICK m \in 1 .. 4 : Quad(i)[m] = c BY <1>1, <2>1
    <2>3. PICK k \in 1 .. 100 : k = 4 * (i - 1) + m OBVIOUS
    <2>4. (k - 1) \div 4 + 1 = i /\ ((k - 1) % 4) + 1 = m BY <2>3
    <2>5. f[k] = c BY <2>2, <2>4
    <2> QED BY <2>5
  <1> HIDE DEF f
  <1>6. IsFiniteSet(1 .. 100) /\ Cardinality(1 .. 100) = 100
    <2>1. PICK a \in Int, b \in Int : a = 1 /\ b = 100 OBVIOUS
    <2>2. IsFiniteSet(a .. b) /\ Cardinality(a .. b) = IF a > b THEN 0 ELSE b - a + 1 BY FS_Interval
    <2>3. (IF a > b THEN 0 ELSE b - a + 1) = 100 BY <2>1
    <2> QED BY <2>1, <2>2, <2>3
  <1>5. f \in Surjection(1 .. 100, Mapped)
    <2>1. PICK g : g = f OBVIOUS
    <2>2. g \in [1 .. 100 -> Mapped] /\ \A c \in Mapped : \E k \in 1 .. 100 : g[k] = c BY <1>3, <1>4, <2>1
    <2>3. g \in Surjection(1 .. 100, Mapped) BY <2>2, Fun_IsSurj
    <2> QED BY <2>1, <2>3
  <1> QED BY <1>5, <1>6, FS_Surjection

\* A framework has controls, a hundred at most.
LEMMA FrameworkControls ==
  ASSUME NEW fw \in FRAMEWORKS
  PROVE  IsFiniteSet(All(fw)) /\ Cardinality(All(fw)) \in 1 .. 100
  <1>1. All(fw) \subseteq Mapped BY DEF All, Of, Mapped
  <1>2. IsFiniteSet(All(fw)) /\ Cardinality(All(fw)) <= Cardinality(Mapped) BY <1>1, MappedBound, FS_Subset
  <1>3. All(fw) # {}
    <2>1. CATEGORY_TO_CONTROLS[1][2] = {E("MP.SI.1"), I("A.9.4.2"), P("8.6"), C("4.1")} BY DEF CATEGORY_TO_CONTROLS
    <2>2. {E("MP.SI.1"), I("A.9.4.2"), P("8.6"), C("4.1")} \subseteq Mapped
      BY <2>1, FourAtMost DEF Mapped
    <2>3. E("MP.SI.1")[1] = "ens" /\ I("A.9.4.2")[1] = "iso27001" /\ P("8.6")[1] = "pci-dss" /\ C("4.1")[1] = "cis"
      BY DEF E, I, P, C
    <2> QED BY <2>2, <2>3 DEF All, Of, FRAMEWORKS, Mapped
  <1>4. Cardinality(All(fw)) \in Nat /\ Cardinality(All(fw)) # 0 BY <1>2, <1>3, FS_CardinalityType, FS_EmptySet
  <1>5. Cardinality(Mapped) \in Nat /\ Cardinality(Mapped) <= 100 BY MappedBound, FS_CardinalityType
  <1> QED BY <1>2, <1>4, <1>5

\* The first entry of some is one of them.
LEMMA FirstExists ==
  ASSUME NEW S \in SUBSET (1 .. 25), S # {}
  PROVE  Min(S) \in S
  <1>1. \E x \in S : \A y \in S : x <= y
    <2>1. \E n \in 1 .. 25 : n \in S OBVIOUS
    <2> QED BY <2>1
  <1> QED BY <1>1 DEF Min

\* A category brings down what the table says, or nothing.
LEMMA ControlsMapped ==
  ASSUME NEW category
  PROVE  Controls(category) \subseteq Mapped
  <1>1. ASSUME NEW S \in SUBSET (1 .. 25), S # {} PROVE CATEGORY_TO_CONTROLS[Min(S)][2] \subseteq Mapped
    BY <1>1, FirstExists, FourAtMost DEF Mapped
  <1>2. CASE Controls(category) = {} BY <1>2
  <1>3. CASE Controls(category) # {}
    <2>1. \E S \in SUBSET (1 .. 25) : S # {} /\ Controls(category) = CATEGORY_TO_CONTROLS[Min(S)][2]
      BY <1>3, FourAtMost DEF Controls, FirstOf
    <2> QED BY <1>1, <2>1
  <1> QED BY <1>2, <1>3

\* What findings bring down of a framework is of its controls.
LEMMA DownMapped ==
  ASSUME NEW s, NEW fw
  PROVE  Of(fw, Down(s)) \subseteq All(fw)
  BY ControlsMapped DEF Of, Down, All, Mapped

\* Read back, a finding that had passed is one that failed.
LEMMA DownReadBack ==
  ASSUME NEW s \in Seq(Findings)
  PROVE  /\ Down(s) \subseteq Down(ReadBack(s))
         /\ (\A i \in DOMAIN s : ~s[i].passed) => Down(ReadBack(s)) = Down(s)
  <1>1. DOMAIN ReadBack(s) = DOMAIN s BY DEF ReadBack
  <1>2. \A i \in DOMAIN s : ReadBack(s)[i].category = s[i].category /\ ~ReadBack(s)[i].passed
    <2> SUFFICES ASSUME NEW i \in DOMAIN s
                 PROVE  ReadBack(s)[i].category = s[i].category /\ ~ReadBack(s)[i].passed
      OBVIOUS
    <2>1. s[i] \in Findings OBVIOUS
    <2>2. ReadBack(s)[i] = [s[i] EXCEPT !.passed = FALSE] BY DEF ReadBack
    <2> QED BY <2>1, <2>2 DEF Findings
  <1>3. Down(ReadBack(s)) = UNION {Controls(s[i].category) : i \in DOMAIN s} BY <1>1, <1>2 DEF Down
  <1> QED BY <1>3 DEF Down

\* The share of a framework falls when more of its controls are down, and only
\* then.
LEMMA ShareFalls ==
  ASSUME NEW s, NEW t, NEW fw \in FRAMEWORKS
  PROVE  fw \in detect_compliance_drops(s, t)
           <=> Cardinality(Of(fw, Down(s))) < Cardinality(Of(fw, Down(t)))
  <1> DEFINE total == Cardinality(All(fw))
             b == Cardinality(Of(fw, Down(s)))
             n == Cardinality(Of(fw, Down(t)))
  <1>1. total \in 1 .. 100 /\ IsFiniteSet(All(fw)) BY FrameworkControls
  <1>2. b \in Nat /\ n \in Nat /\ b <= total /\ n <= total
    BY <1>1, DownMapped, FS_Subset, FS_CardinalityType
  <1>3. /\ analyze_compliance(s)[fw].score_pct = Round(1000 * (total - b), total)
        /\ analyze_compliance(t)[fw].score_pct = Round(1000 * (total - n), total)
    BY DEF analyze_compliance
  <1>4. fw \in detect_compliance_drops(s, t) <=> Round(1000 * (total - n), total) < Round(1000 * (total - b), total)
    BY <1>3 DEF detect_compliance_drops
  <1> HIDE DEF total, b, n
  <1>5. PICK x \in Nat, y \in Nat : x = 1000 * (total - n) /\ y = 1000 * (total - b) BY <1>1, <1>2
  <1>6. CASE b < n
    <2>1. x + total < y BY <1>1, <1>2, <1>5, <1>6
    <2> QED BY <1>1, <1>4, <1>5, <1>6, <2>1, RoundApart DEF b, n
  <1>7. CASE b = n
    <2>1. Round(x, total) = Round(y, total) /\ Round(y, total) \in Int BY <1>1, <1>5, <1>7, RoundApart
    <2>2. ~(Round(x, total) < Round(y, total)) BY <2>1
    <2> QED BY <1>2, <1>4, <1>5, <1>7, <2>2 DEF b, n
  <1>8. CASE n < b
    <2>1. y + total < x BY <1>1, <1>2, <1>5, <1>8
    <2>2. Round(y, total) < Round(x, total) /\ Round(x, total) \in Int /\ Round(y, total) \in Int
      BY <1>1, <1>5, <2>1, RoundApart
    <2>3. ~(Round(x, total) < Round(y, total)) BY <2>2
    <2> QED BY <1>2, <1>4, <1>5, <1>8, <2>3 DEF b, n
  <1> QED BY <1>2, <1>6, <1>7, <1>8

\* The daily audit tells of every framework that lost a control and recovered
\* none, unless a finding that had only passed hides it, and of no framework
\* that lost none (complete_scan, detect_compliance_drops).
THEOREM FallsAreToldOf == PostureSpec => []FallsAreTold
  <1>1. FallsSound => FallsAreTold
    <2> SUFFICES ASSUME FallsSound, ~told.first, NEW fw \in FRAMEWORKS
                 PROVE  LET before == Of(fw, Down(told.before))
                            after == Of(fw, Down(audited))
                        IN /\ after \ before # {} /\ before \subseteq after
                                /\ (\A i \in DOMAIN told.before : ~told.before[i].passed)
                                  => fw \in told.frameworks
                           /\ fw \in told.frameworks => after \ before # {}
      BY DEF FallsAreTold
    <2> DEFINE before == Of(fw, Down(told.before))
               back == Of(fw, Down(ReadBack(told.before)))
               after == Of(fw, Down(audited))
    <2>1. fw \in told.frameworks <=> Cardinality(back) < Cardinality(after)
      BY ShareFalls DEF FallsSound
    <2>2. before \subseteq back /\ ((\A i \in DOMAIN told.before : ~told.before[i].passed) => back = before)
      BY DownReadBack DEF FallsSound, Of
    <2>3. /\ IsFiniteSet(back) /\ Cardinality(back) \in Nat
          /\ IsFiniteSet(after) /\ Cardinality(after) \in Nat
      BY FrameworkControls, DownMapped, FS_Subset, FS_CardinalityType
    <2> HIDE DEF before, back, after
    <2>4. ASSUME after \ before # {}, before \subseteq after, \A i \in DOMAIN told.before : ~told.before[i].passed
          PROVE  fw \in told.frameworks
      <3>1. back \subseteq after /\ back # after BY <2>2, <2>4
      <3>2. Cardinality(back) <= Cardinality(after) /\ Cardinality(back) # Cardinality(after)
        BY <2>3, <3>1, FS_Subset
      <3> QED BY <2>1, <2>3, <3>2
    <2>5. ASSUME fw \in told.frameworks, after \ before = {} PROVE FALSE
      <3>1. after \subseteq back BY <2>2, <2>5
      <3>2. Cardinality(after) <= Cardinality(back) BY <2>3, <3>1, FS_Subset
      <3> QED BY <2>1, <2>3, <2>5, <3>2
    <2> QED BY <2>4, <2>5 DEF before, after
  <1> QED BY <1>1, FallsStart, FallsStep, PTL DEF PostureSpec
==============================================================================
