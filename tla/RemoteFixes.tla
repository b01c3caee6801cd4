----------------------------- MODULE RemoteFixes -----------------------------
(***************************************************************************)
(* Fixes applied over SSH and their undoing: the handlers api_fix_remote   *)
(* and api_fix_remote_undo, the table remote_fixes and the script that     *)
(* they run on the host.  A handler is left between any two of its awaits. *)
(*                                                                         *)
(* A setting of the host has its original value or the one that its fix    *)
(* writes.  The script of a fix returns the value it found, and the row    *)
(* keeps it as what an undo has to write.  Rows are named by the order in  *)
(* which their scripts ran.                                                *)
(***************************************************************************)
EXTENDS Integers

CONSTANTS
  Requests,     \* requests being handled at the same time
  Settings,     \* of a host
  MaxFixes,     \* bound: scripts of fixes that run
  Faults        \* may a connection break or the process die?

ASSUME RemoteFixesAssumption ==
  Settings # {} /\ MaxFixes \in Nat /\ Faults \in BOOLEAN

VARIABLES
  host,         \* the value of each setting
  ran,          \* scripts of fixes run so far
  rows,         \* the table remote_fixes
  req,          \* where each request is
  lost          \* history: settings whose original value no row may hold

vars == <<host, ran, rows, req, lost>>

Ids    == 1 .. MaxFixes
Values == {"original", "fixed"}

\* undo: the value found before, "none" if it was not saved.  st: "done" is
\* undone_at IS NOT NULL.  confirmed (history): since it was marked, the host
\* answered that it is undone.  died: the request that marked it is gone.
Row == [st: {"free", "open", "done"}, setting: Settings, undo: Values \cup {"none"},
        confirmed: BOOLEAN, died: BOOLEAN]

Request == [pc: {"idle", "apply", "record", "claim", "undo", "clear"},
            setting: Settings, id: 0 .. MaxFixes, undo: Values \cup {"none"}]

Somewhere == CHOOSE s \in Settings : TRUE
Idle == [pc |-> "idle", setting |-> Somewhere, id |-> 0, undo |-> "none"]
Free == [st |-> "free", setting |-> Somewhere, undo |-> "none",
         confirmed |-> FALSE, died |-> FALSE]

TypeOK ==
  /\ host \in [Settings -> Values]
  /\ ran \in 0 .. MaxFixes
  /\ rows \in [Ids -> Row]
  /\ req \in [Requests -> Request]
  /\ lost \subseteq Settings

Init ==
  /\ host = [s \in Settings |-> "original"]
  /\ ran = 0
  /\ rows = [i \in Ids |-> Free]
  /\ req = [r \in Requests |-> Idle]
  /\ lost = {}

Goto(r, next) == req' = [req EXCEPT ![r] = next]
Finish(r) == Goto(r, Idle)

-----------------------------------------------------------------------------
(* api_fix_remote *)

\* A cached finding names the setting, fixed meanwhile or not.
FixStart(r, s) ==
  /\ req[r].pc = "idle"
  /\ Goto(r, [Idle EXCEPT !.pc = "apply", !.setting = s])
  /\ UNCHANGED <<host, ran, rows, lost>>

\* An undo of an earlier fix of s is under way.
BeingUndone(s) ==
  \E x \in Requests : req[x].pc \in {"undo", "clear"} /\ req[x].setting = s

\* Mutant: the script reads the setting after it has written it.
FixRuns_reads_late(r, trusted) ==
  LET s == req[r].setting IN
  /\ req[r].pc = "apply"
  /\ ran < MaxFixes
  /\ ran' = ran + 1
  /\ host' = [host EXCEPT ![s] = "fixed"]
  /\ Goto(r, [pc |-> "record", setting |-> s, id |-> ran',
              undo |-> IF trusted THEN "fixed" ELSE "none"])
  /\ lost' = IF trusted /\ ~BeingUndone(s) THEN lost ELSE lost \cup {s}
  /\ UNCHANGED rows

\* The script runs and answers.  undo_action discards a value it does not trust.
FixRuns(r, trusted) ==
  LET s    == req[r].setting
      undo == IF trusted THEN host[s] ELSE "none"
  IN
  /\ req[r].pc = "apply"
  /\ ran < MaxFixes
  /\ ran' = ran + 1
  /\ host' = [host EXCEPT ![s] = "fixed"]
  /\ Goto(r, [pc |-> "record", setting |-> s, id |-> ran', undo |-> undo])
  /\ lost' = IF trusted /\ ~BeingUndone(s) THEN lost ELSE lost \cup {s}
  /\ UNCHANGED rows

\* The script fails, or the host is out of reach: no row.
FixFails(r) ==
  /\ req[r].pc = "apply"
  /\ Finish(r)
  /\ UNCHANGED <<host, ran, rows, lost>>

\* The script runs, the answer is lost: no row either.
FixUnanswered(r) ==
  LET s == req[r].setting IN
  /\ Faults
  /\ req[r].pc = "apply"
  /\ host' = [host EXCEPT ![s] = "fixed"]
  /\ lost' = lost \cup {s}
  /\ Finish(r)
  /\ UNCHANGED <<ran, rows>>

add_remote_fix(r) ==
  LET q == req[r] IN
  /\ q.pc = "record"
  /\ rows' = [rows EXCEPT ![q.id] =
       [st |-> "open", setting |-> q.setting, undo |-> q.undo,
        confirmed |-> FALSE, died |-> FALSE]]
  /\ Finish(r)
  /\ UNCHANGED <<host, ran, lost>>

-----------------------------------------------------------------------------
(* api_fix_remote_undo *)

\* get_remote_fix: the row can be undone, as far as one can see.
UndoRead(r, i) ==
  /\ req[r].pc = "idle"
  /\ rows[i].st = "open" /\ rows[i].undo # "none"
  /\ Goto(r, [pc |-> "claim", setting |-> rows[i].setting, id |-> i,
              undo |-> rows[i].undo])
  /\ UNCHANGED <<host, ran, rows, lost>>

\* Some later fix of the same setting has not been undone.
Newer(i) ==
  \/ \E k \in Ids : /\ k > i /\ rows[k].st = "open"
                    /\ rows[k].setting = rows[i].setting
  \/ \E x \in Requests : /\ req[x].pc \in {"record", "undo", "clear"}
                          /\ req[x].id > i
                          /\ req[x].setting = rows[i].setting

\* Mutant: the statement does not ask whether the row is marked already.
mark_remote_fix_undone_blind(r) ==
  LET i == req[r].id IN
  /\ req[r].pc = "claim"
  /\ rows' = [rows EXCEPT ![i] = [@ EXCEPT !.st = "done"]]
  /\ Goto(r, [req[r] EXCEPT !.pc = "undo"])
  /\ lost' = IF Newer(i) THEN lost \cup {req[r].setting} ELSE lost
  /\ UNCHANGED <<host, ran>>

\* UPDATE ... SET undone_at WHERE id = i AND undone_at IS NULL: one request
\* goes on, a second one is told that it is undone.
mark_remote_fix_undone(r) ==
  LET i == req[r].id IN
  /\ req[r].pc = "claim"
  /\ IF rows[i].st = "open"
       THEN /\ rows' = [rows EXCEPT ![i] = [@ EXCEPT !.st = "done"]]
            /\ Goto(r, [req[r] EXCEPT !.pc = "undo"])
            /\ lost' = IF Newer(i) THEN lost \cup {req[r].setting} ELSE lost
       ELSE Finish(r) /\ UNCHANGED <<rows, lost>>
  /\ UNCHANGED <<host, ran>>

\* The inverse script runs and answers.
UndoRuns(r) ==
  LET q == req[r] IN
  /\ q.pc = "undo"
  /\ host' = [host EXCEPT ![q.setting] = q.undo]
  /\ rows' = [rows EXCEPT ![q.id] = [@ EXCEPT !.confirmed = TRUE]]
  /\ Finish(r)
  /\ UNCHANGED <<ran, lost>>

\* It fails, or nothing is known of it.
UndoFails(r) ==
  /\ req[r].pc = "undo"
  /\ \/ UNCHANGED host
     \/ Faults /\ host' = [host EXCEPT ![req[r].setting] = req[r].undo]
  /\ Goto(r, [req[r] EXCEPT !.pc = "clear"])
  /\ UNCHANGED <<ran, rows, lost>>

\* Mutant: a failed undo leaves its mark.
clear_remote_fix_undone_never(r) ==
  /\ req[r].pc = "clear"
  /\ Finish(r)
  /\ UNCHANGED <<host, ran, rows, lost>>

clear_remote_fix_undone(r) ==
  /\ req[r].pc = "clear"
  /\ rows' = [rows EXCEPT ![req[r].id] = [@ EXCEPT !.st = "open"]]
  /\ Finish(r)
  /\ UNCHANGED <<host, ran, lost>>

-----------------------------------------------------------------------------

\* The process dies, or the handler raises, between two awaits.
Abort(r) ==
  LET q == req[r] IN
  /\ Faults
  /\ q.pc # "idle"
  /\ Finish(r)
  /\ rows' = IF q.pc \in {"undo", "clear"}
               THEN [rows EXCEPT ![q.id] = [@ EXCEPT !.died = TRUE]] ELSE rows
  /\ lost' = IF q.pc \in {"record", "undo", "clear"}
               THEN lost \cup {q.setting} ELSE lost
  /\ UNCHANGED <<host, ran>>

Fix(r)  == \/ \E s \in Settings : FixStart(r, s)
           \/ \E trusted \in BOOLEAN : FixRuns(r, trusted)
           \/ FixFails(r) \/ FixUnanswered(r) \/ add_remote_fix(r)
Undo(r) == \/ \E i \in Ids : UndoRead(r, i)
           \/ mark_remote_fix_undone(r)
           \/ UndoRuns(r) \/ UndoFails(r) \/ clear_remote_fix_undone(r)

Next == \E r \in Requests : Fix(r) \/ Undo(r) \/ Abort(r)

Spec == Init /\ [][Next]_vars

-----------------------------------------------------------------------------
(* Properties *)

\* A fix that is marked as undone has been undone on the host, or a request
\* is at it, or the request that marked it died (api_fix_remote_undo): two
\* undos at the same time, one failing, never leave a mark behind.
UndoneExplained ==
  \A i \in Ids : rows[i].st = "done" =>
    \/ rows[i].confirmed \/ rows[i].died
    \/ \E r \in Requests : req[r].pc \in {"undo", "clear"} /\ req[r].id = i

\* While a setting is not as it was, somebody can still put it back: some
\* row that is not undone holds the original value, or a request is about to
\* write it to a row or to the host.  Excepted are the settings with a fix that
\* was not recorded, an undo that died halfway, or an undo with a later fix
\* still standing or getting in while it runs.
OriginalKept ==
  \A s \in Settings \ lost : host[s] = "fixed" =>
    \/ \E i \in Ids : /\ rows[i].st = "open" /\ rows[i].setting = s
                      /\ rows[i].undo = "original"
    \/ \E r \in Requests : /\ req[r].pc \in {"record", "undo", "clear"}
                           /\ req[r].setting = s /\ req[r].undo = "original"

\* What has become of the fix of a row, in the terms of Reversal.
Fate(row) ==
  CASE row.st = "free" -> "none"
    [] row.st = "open" -> "applied"
    [] row.st = "done" /\ ~row.confirmed -> "undoing"
    [] row.st = "done" /\ row.confirmed -> "undone"

fate == [i \in Ids |-> Fate(rows[i])]

Abstract == INSTANCE Reversal WITH Fixes <- Ids, state <- fate

\* The record of fixes keeps the promise of Reversal: a second click never
\* undoes twice, and what is undone stays undone (mark_remote_fix_undone,
\* clear_remote_fix_undone).
KeepsPromise == Abstract!Spec

=============================================================================
