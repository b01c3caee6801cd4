---------------------------- MODULE Quarantine ----------------------------
(* The quarantine of suspicious files (core/quarantine.py).  A file is       *)
(* moved by copying it, scrambled, under a fresh name, removing the original *)
(* and adding an entry to index.json.  The handlers call these functions     *)
(* without awaiting, so one operation runs at a time; but the other programs *)
(* of the host go on writing, any call may raise, and the process may die    *)
(* between two of the three writes.  The index is rewritten in place, and an *)
(* index that cannot be parsed counts as an empty one.                       *)
EXTENDS Naturals, Sequences

CONSTANTS
    Paths,      \* files of the host
    Contents,   \* what a file may hold
    Names,      \* names of the copies, a second and eight random digits each
    MaxTime,    \* bound on the clock that dates writes
    Absent,     \* no file
    Torn,       \* a file cut short by an error or a crash
    Faults      \* whether calls raise and the process dies

Held == Contents \cup {Torn}               \* what a file holds
Places == [path : Paths, c : Held]         \* a file in its place
MetaEntry == [name : Names, path : Paths, hash : Held, restored : BOOLEAN, deleted : BOOLEAN]

\* No file is not a file, and what does not parse is not a list of entries.
ASSUME QuarantineAssumption ==
    /\ MaxTime \in Nat \ {0}
    /\ Absent \notin Places \cup Held
    /\ Torn \notin Seq(MetaEntry)

VARIABLES
    fs,         \* path -> [c, t]: contents and mtime, or Absent
    now,        \* the clock
    quar,       \* name -> contents of its copy, Torn or Absent
    index,      \* the entries of index.json, or Torn
    op,         \* the operation under way
    took,       \* ghost: name -> what its quarantine removed, or Absent
    excused     \* ghost: names whose loss a named event explains

qvars == <<fs, now, quar, index, op, took, excused>>

Doing(kind, pc, path, name, hash) ==
    [kind |-> kind, pc |-> pc, path |-> path, name |-> name, c |-> Absent, hash |-> hash]
Idle == Doing("none", "none", Absent, Absent, Absent)
Operations == [kind : {"none", "quarantine", "restore", "delete"}, pc : {"none", "copy", "unlink", "check", "index"},
               path : Paths \cup {Absent}, name : Names \cup {Absent}, c : Held \cup {Absent}, hash : Held \cup {Absent}]

QTypeOK ==
    /\ fs \in [Paths -> [c : Held, t : 1..MaxTime] \cup {Absent}]
    /\ now \in 1..MaxTime
    /\ quar \in [Names -> Held \cup {Absent}]
    /\ index = Torn \/ index \in Seq(MetaEntry)
    /\ op \in Operations
    /\ took \in [Names -> Places \cup {Absent}]
    /\ excused \subseteq Names

QInit ==
    /\ fs \in [Paths -> {[c |-> c, t |-> 1] : c \in Contents} \cup {Absent}]
    /\ now = 1
    /\ quar = [n \in Names |-> Absent]
    /\ index = <<>>
    /\ op = Idle
    /\ took = [n \in Names |-> Absent]
    /\ excused = {}

----------------------------------------------------------------------------
\* The index

_load_meta == IF index = Torn THEN <<>> ELSE index

Listed(n) == \E i \in 1..Len(_load_meta) : _load_meta[i].name = n

\* The first entry of that name, as next(...) finds it.
Entry(n) ==
    _load_meta[CHOOSE i \in 1..Len(_load_meta) :
                   _load_meta[i].name = n /\ \A j \in 1..(i - 1) : _load_meta[j].name # n]

\* Every entry of that name is marked as restored, or as deleted.
SetEntry(n, restored, deleted) ==
    [i \in 1..Len(_load_meta) |->
        IF _load_meta[i].name = n
        THEN [_load_meta[i] EXCEPT !.restored = @ \/ restored, !.deleted = @ \/ deleted]
        ELSE _load_meta[i]]

\* write_text truncates and then writes: an error or a crash in between leaves
\* a file that does not parse, and with it every entry is gone.
_save_meta(meta) ==
    \/ index' = meta /\ UNCHANGED excused
    \/ /\ Faults
       /\ index' = Torn
       /\ excused' = excused \cup {n \in Names : Listed(n)} \cup {meta[i].name : i \in DOMAIN meta}

----------------------------------------------------------------------------
\* quarantine_file

\* The digest is taken first; the file is read again for the copy.
QuarantineHash(p) ==
    /\ op = Idle
    /\ fs[p] # Absent
    /\ \E n \in {m \in Names : quar[m] = Absent /\ took[m] = Absent} :
           op' = Doing("quarantine", "copy", p, n, fs[p].c)
    /\ UNCHANGED <<fs, now, quar, index, took, excused>>

QuarantineCopy_goes_on ==
    /\ op.kind = "quarantine" /\ op.pc = "copy"
    /\ fs[op.path] # Absent
    /\ \E c \in {fs[op.path].c} \cup IF Faults THEN {Torn} ELSE {} :
           quar' = [quar EXCEPT ![op.name] = c]
    /\ op' = [op EXCEPT !.pc = "unlink", !.c = fs[op.path].c]
    /\ UNCHANGED <<fs, now, index, took, excused>>

\* A full disk leaves a torn copy; the function returns and the original stays.
QuarantineCopy ==
    /\ op.kind = "quarantine" /\ op.pc = "copy"
    /\ fs[op.path] # Absent
    /\ \/ /\ quar' = [quar EXCEPT ![op.name] = fs[op.path].c]
          /\ op' = [op EXCEPT !.pc = "unlink", !.c = fs[op.path].c]
       \/ /\ Faults
          /\ quar' = [quar EXCEPT ![op.name] = Torn]
          /\ op' = Idle
    /\ UNCHANGED <<fs, now, index, took, excused>>

QuarantineUnlink ==
    /\ op.kind = "quarantine" /\ op.pc = "unlink"
    /\ fs[op.path] # Absent
    /\ took' = [took EXCEPT ![op.name] = [path |-> op.path, c |-> fs[op.path].c]]
    \* somebody wrote the file after the digest or the copy was taken
    /\ excused' = IF fs[op.path].c # op.c \/ op.c # op.hash THEN excused \cup {op.name} ELSE excused
    /\ fs' = [fs EXCEPT ![op.path] = Absent]
    /\ op' = [op EXCEPT !.pc = "index"]
    /\ UNCHANGED <<now, quar, index>>

QuarantineIndex ==
    /\ op.kind = "quarantine" /\ op.pc = "index"
    /\ _save_meta(Append(_load_meta, [name |-> op.name, path |-> op.path, hash |-> op.hash,
                                      restored |-> FALSE, deleted |-> FALSE]))
    /\ op' = Idle
    /\ UNCHANGED <<fs, now, quar, took>>

----------------------------------------------------------------------------
\* restore_file and delete_quarantined

\* Whatever is at the destination is overwritten, without a look at it.
RestoreWrite(n, p) ==
    /\ op = Idle
    /\ Listed(n) /\ ~Entry(n).deleted
    /\ quar[n] # Absent
    /\ \E c \in {quar[n]} \cup IF Faults THEN {Torn} ELSE {} :
           /\ fs' = [fs EXCEPT ![p] = [c |-> c, t |-> now]]
           \* the disk is full: the destination is left torn
           /\ op' = IF c = quar[n]
                    THEN Doing("restore", "check", p, n, Absent)
                    ELSE Idle
    /\ UNCHANGED <<now, quar, index, took, excused>>

RestoreCheck_any ==
    /\ op.kind = "restore" /\ op.pc = "check"
    /\ fs[op.path] # Absent
    /\ op' = [op EXCEPT !.pc = "index", !.c = fs[op.path].c]
    /\ UNCHANGED <<fs, now, quar, index, took, excused>>

\* The digest is compared with the file as it is now on the disk; when they
\* differ the destination is removed.
RestoreCheck ==
    /\ op.kind = "restore" /\ op.pc = "check"
    /\ fs[op.path] # Absent
    /\ IF fs[op.path].c = Entry(op.name).hash
       THEN op' = [op EXCEPT !.pc = "index", !.c = fs[op.path].c] /\ UNCHANGED fs
       ELSE op' = Idle /\ fs' = [fs EXCEPT ![op.path] = Absent]
    /\ UNCHANGED <<now, quar, index, took, excused>>

RestoreIndex ==
    /\ op.kind = "restore" /\ op.pc = "index"
    /\ _save_meta(SetEntry(op.name, TRUE, FALSE))
    /\ op' = Idle
    /\ UNCHANGED <<fs, now, quar, took>>

DeleteCopy(n) ==
    /\ op = Idle
    /\ Listed(n)
    /\ quar' = [quar EXCEPT ![n] = Absent]
    /\ op' = Doing("delete", "index", Absent, n, Absent)
    /\ excused' = excused \cup {n}          \* asked for
    /\ UNCHANGED <<fs, now, index, took>>

DeleteIndex ==
    /\ op.kind = "delete" /\ op.pc = "index"
    /\ _save_meta(SetEntry(op.name, FALSE, TRUE))
    /\ op' = Idle
    /\ UNCHANGED <<fs, now, quar, took>>

----------------------------------------------------------------------------
\* Errors, crashes and the other programs of the host

\* A call that raises ends the operation with an error; so does a crash.  The
\* file that has been removed and not yet indexed is lost to the interface.
Stops ==
    /\ Faults
    /\ op # Idle
    /\ excused' = IF op.kind = "quarantine" /\ op.pc = "index"
                  THEN excused \cup {op.name} ELSE excused
    /\ op' = Idle
    /\ UNCHANGED <<fs, now, quar, index, took>>

\* A file that vanishes under the operation makes it raise.
Vanished ==
    /\ op.pc \in {"copy", "unlink", "check"}
    /\ fs[op.path] = Absent
    /\ op' = Idle
    /\ UNCHANGED <<fs, now, quar, index, took, excused>>

\* Some other program writes or removes a file; cp -p and touch choose the date.
HostWrites(p) ==
    /\ \E c \in Contents, t \in 1..now : fs' = [fs EXCEPT ![p] = [c |-> c, t |-> t]]
    /\ UNCHANGED <<now, quar, index, op, took, excused>>

HostRemoves(p) ==
    /\ fs[p] # Absent
    /\ fs' = [fs EXCEPT ![p] = Absent]
    /\ UNCHANGED <<now, quar, index, op, took, excused>>

Tick ==
    /\ now < MaxTime
    /\ now' = now + 1
    /\ UNCHANGED <<fs, quar, index, op, took, excused>>

QNext ==
    \/ \E p \in Paths : QuarantineHash(p) \/ HostWrites(p) \/ HostRemoves(p)
    \/ QuarantineCopy \/ QuarantineUnlink \/ QuarantineIndex
    \/ \E n \in Names : DeleteCopy(n) \/ \E p \in Paths : RestoreWrite(n, p)
    \/ RestoreCheck \/ RestoreIndex \/ DeleteIndex
    \/ Stops \/ Vanished \/ Tick

QSpec == QInit /\ [][QNext]_qvars

----------------------------------------------------------------------------
\* A file that was taken from its place can be had back: its copy is whole and
\* the index leads to it, with its digest and its path - unless it was deleted
\* on request, a write of the index failed since (all entries go with it), the
\* operation stopped between the removal and the entry, or somebody wrote the
\* file while it was being moved.
TakenIsKept ==
    \A n \in Names :
        took[n] # Absent /\ n \notin excused /\ ~(op.name = n /\ op.pc = "index") =>
            /\ quar[n] = took[n].c
            /\ Listed(n)
            /\ Entry(n).hash = took[n].c /\ Entry(n).path = took[n].path
            /\ ~Entry(n).deleted

\* The interface calls a file restored only when the bytes that reached the
\* disk were those that were taken from it.
RestoredIsWhole ==
    op.kind = "restore" /\ op.pc = "index" /\ op.name \notin excused => op.c = took[op.name].c

\* What the quarantine promises, in one.
QuarantineKeeps == QTypeOK /\ TakenIsKept /\ RestoredIsWhole
============================================================================
