----------------------------- MODULE LocalFixes -----------------------------
(***************************************************************************)
(* Fixes of this server's own sshd and their rollback: _fix_ssh, the       *)
(* handlers api_fix_local and api_rollback_local and the rollback journal. *)
(*                                                                         *)
(* The fixes of several findings edit one file.  A fix stores the whole    *)
(* file as it was, and a rollback writes that copy back.  The file is the  *)
(* set of options that have their safe value; a handler is left between    *)
(* two of its awaits, which are the commands that it runs.                 *)
(***************************************************************************)
EXTENDS Integers, Sequences

CONSTANTS
  Requests,     \* requests being handled at the same time
  Options,      \* of sshd, each with its finding
  MaxEntries,   \* bound: fixes applied
  Faults        \* may the process die?

ASSUME LocalFixesAssumption == MaxEntries \in Nat /\ Faults \in BOOLEAN

VARIABLES
  file,         \* options with their safe value
  copies,       \* fixes written so far
  journal,      \* the entries, in the order of their times
  req,          \* where each request is
  disorder      \* history: some copy was not the newest when written back

vars == <<file, copies, journal, req, disorder>>

\* The file that a fix copied.  nr (history): in which order they were copied.
Copy == [option: Options, before: SUBSET Options, nr: 1 .. MaxEntries]

\* restored (history): the copy has been written back.
Entry == [copy: Copy, rolledBack: BOOLEAN, restored: BOOLEAN]

Request == [pc: {"idle"}] \cup [pc: {"test", "reload"}, copy: Copy]
             \cup [pc: {"mark"}, id: 1 .. MaxEntries]

TypeOK ==
  /\ file \subseteq Options
  /\ copies \in 0 .. MaxEntries
  /\ journal \in Seq(Entry)
  /\ req \in [Requests -> Request]
  /\ disorder \in BOOLEAN

Idle == [pc |-> "idle"]

Init ==
  /\ file = {}
  /\ copies = 0
  /\ journal = <<>>
  /\ req = [r \in Requests |-> Idle]
  /\ disorder = FALSE

Goto(r, next) == req' = [req EXCEPT ![r] = next]
Finish(r) == Goto(r, Idle)

Fixing(r) == req[r].pc \in {"test", "reload"}
Active    == {i \in 1 .. Len(journal) : ~journal[i].rolledBack}

\* A later copy of the file is still to be written back.
Newer(copy) ==
  \/ \E i \in Active : journal[i].copy.nr > copy.nr
  \/ \E r \in Requests : Fixing(r) /\ req[r].copy.nr > copy.nr

-----------------------------------------------------------------------------
(* api_fix_local *)

\* The option is looked up, the file copied and written; sshd -t is called.
\* An option that is safe already is left alone, with nothing to roll back.
FixWrite(r, o) ==
  /\ req[r].pc = "idle"
  /\ o \notin file
  /\ copies < MaxEntries
  /\ copies' = copies + 1
  /\ file' = file \cup {o}
  /\ Goto(r, [pc |-> "test", copy |-> [option |-> o, before |-> file, nr |-> copies']])
  /\ UNCHANGED <<journal, disorder>>

\* sshd -t accepts the file and the option has its value; sshd is reloaded.
FixAccepted(r) ==
  /\ req[r].pc = "test"
  /\ req[r].copy.option \in file
  /\ Goto(r, [req[r] EXCEPT !.pc = "reload"])
  /\ UNCHANGED <<file, copies, journal, disorder>>

\* Otherwise the copy is written back, and no entry made.
FixRejected(r) ==
  LET copy == req[r].copy IN
  /\ req[r].pc = "test"
  /\ file' = copy.before
  /\ disorder' = (disorder \/ Newer(copy))
  /\ Finish(r)
  /\ UNCHANGED <<copies, journal>>

Record(copy) ==
  Append(journal, [copy |-> copy, rolledBack |-> FALSE, restored |-> FALSE])

\* Mutants: the entry has an empty file; it has the copy of some other file.
FixJournal_empty(r) ==
  /\ req[r].pc = "reload"
  /\ journal' = Record([req[r].copy EXCEPT !.before = {}])
  /\ Finish(r)
  /\ UNCHANGED <<file, copies, disorder>>

\* RollbackJournal.append, with the time of the end of the fix.
FixJournal(r) ==
  /\ req[r].pc = "reload"
  /\ journal' = Record(req[r].copy)
  /\ Finish(r)
  /\ UNCHANGED <<file, copies, disorder>>

-----------------------------------------------------------------------------
(* api_rollback_local *)

\* The entries of an option that are not rolled back, and the last of them.
Candidates(o)    == {i \in Active : journal[i].copy.option = o}
latest_active(o) == CHOOSE i \in Candidates(o) : \A k \in Candidates(o) : i >= k

\* perform_rollback, in reverse order: the file is restored, then sshd reloaded.
Rollback(r, o) ==
  LET i == latest_active(o) IN
  /\ req[r].pc = "idle"
  /\ Candidates(o) # {}
  /\ file' = journal[i].copy.before
  /\ journal' = [journal EXCEPT ![i] = [@ EXCEPT !.restored = TRUE]]
  /\ disorder' = (disorder \/ Newer(journal[i].copy))
  /\ Goto(r, [pc |-> "mark", id |-> i])
  /\ UNCHANGED copies

\* sshd does not reload: the entry stays, and can be rolled back again.
RollbackFails(r) ==
  /\ req[r].pc = "mark"
  /\ Finish(r)
  /\ UNCHANGED <<file, copies, journal, disorder>>

\* Mutant: every entry of the option is marked.
mark_rolled_back_all(r) ==
  /\ req[r].pc = "mark"
  /\ journal' = [i \in DOMAIN journal |->
       IF journal[i].copy.option = journal[req[r].id].copy.option
         THEN [journal[i] EXCEPT !.rolledBack = TRUE] ELSE journal[i]]
  /\ Finish(r)
  /\ UNCHANGED <<file, copies, disorder>>

\* The journal is read again, and written with that entry marked.
mark_rolled_back(r) ==
  /\ req[r].pc = "mark"
  /\ journal' = [journal EXCEPT ![req[r].id] = [@ EXCEPT !.rolledBack = TRUE]]
  /\ Finish(r)
  /\ UNCHANGED <<file, copies, disorder>>

\* The process dies while a command runs, or the journal cannot be written: the
\* error is logged and nothing else.
Abort(r) ==
  /\ Faults
  /\ req[r].pc # "idle"
  /\ disorder' = (disorder \/ Fixing(r))
  /\ Finish(r)
  /\ UNCHANGED <<file, copies, journal>>

Next == \E r \in Requests :
  \/ \E o \in Options : FixWrite(r, o) \/ Rollback(r, o)
  \/ FixAccepted(r) \/ FixRejected(r) \/ FixJournal(r)
  \/ RollbackFails(r) \/ mark_rolled_back(r)
  \/ Abort(r)

Spec == Init /\ [][Next]_vars

-----------------------------------------------------------------------------
(* Properties *)

\* An option that has its safe value can be taken back: an entry that is not
\* rolled back has the file without it, or the fix is under way.  This is so
\* until a copy is written back over a newer one, or a fix dies before its
\* entry (RollbackJournal, _fix_ssh).
SafeOptionsRevertible ==
  ~disorder => \A o \in file :
    \/ \E i \in Active : journal[i].copy.option = o /\ o \notin journal[i].copy.before
    \/ \E r \in Requests : Fixing(r) /\ req[r].copy.option = o

\* As long, a rollback undoes its own fix and no other: a fix that nobody
\* rolled back is in force.
FixesStand ==
  ~disorder => \A i \in Active : journal[i].restored \/ journal[i].copy.option \in file

=============================================================================
