-------------------------- MODULE RemoteFixesProofs --------------------------
(***************************************************************************)
(* What holds of RemoteFixes for any number of requests, settings and      *)
(* fixes: its types, the meaning of the mark that a row has been undone,   *)
(* and that it implements Reversal.                                        *)
(***************************************************************************)
EXTENDS RemoteFixes, TLAPS

Undoing(q) == q.pc \in {"undo", "clear"}

\* What a request goes by is so: the row it will write is free, the one it
\* read is there, and the one it undoes is marked and not yet confirmed.
RowsOfRequests ==
  \A r \in Requests : LET q == req[r] IN
    /\ q.pc \in {"record", "claim", "undo", "clear"} => q.id \in Ids
    /\ q.pc = "record" => q.id <= ran /\ rows[q.id].st = "free"
    /\ q.pc \in {"claim", "undo", "clear"} => rows[q.id].st # "free" /\ q.undo \in Values
    /\ Undoing(q) => rows[q.id].st = "done" /\ ~rows[q.id].confirmed

\* No two requests record the same fix, or undo it.
OneAtATime ==
  \A r, x \in Requests :
    /\ r # x
    /\ \/ req[r].pc = "record" /\ req[x].pc = "record"
       \/ Undoing(req[r]) /\ Undoing(req[x])
    => req[r].id # req[x].id

\* A row is there once its script has run; one that is open is unconfirmed.
RowsSound ==
  \A i \in Ids : /\ i > ran => rows[i].st = "free"
                 /\ rows[i].st = "open" => ~rows[i].confirmed

Inv == TypeOK /\ RowsOfRequests /\ OneAtATime /\ RowsSound /\ UndoneExplained

-----------------------------------------------------------------------------
(* Records *)

LEMMA Constants ==
  /\ Idle \in Request /\ Idle.pc = "idle"
  /\ Free \in Row /\ Free.st = "free" /\ ~Free.confirmed
  <1>1. Somewhere \in Settings BY RemoteFixesAssumption DEF Somewhere
  <1>2. 0 \in 0 .. MaxFixes BY RemoteFixesAssumption
  <1>3. Idle \in Request /\ Idle.pc = "idle" BY <1>1, <1>2 DEF Idle, Request
  <1>4. Free \in Row /\ Free.st = "free" /\ ~Free.confirmed
    BY <1>1 DEF Free, Row, Values
  <1> QED BY <1>3, <1>4

\* A row whose mark changes.
LEMMA Marked ==
  ASSUME NEW row \in Row, NEW st \in {"free", "open", "done"}
  PROVE  /\ [row EXCEPT !.st = st] \in Row
         /\ [row EXCEPT !.st = st].st = st
         /\ [row EXCEPT !.st = st].confirmed = row.confirmed
         /\ [row EXCEPT !.st = st].died = row.died
  BY DEF Row

LEMMA Confirmed ==
  ASSUME NEW row \in Row
  PROVE  /\ [row EXCEPT !.confirmed = TRUE] \in Row
         /\ [row EXCEPT !.confirmed = TRUE].st = row.st
         /\ [row EXCEPT !.confirmed = TRUE].confirmed
         /\ [row EXCEPT !.confirmed = TRUE].died = row.died
  BY DEF Row

LEMMA Died ==
  ASSUME NEW row \in Row
  PROVE  /\ [row EXCEPT !.died = TRUE] \in Row
         /\ [row EXCEPT !.died = TRUE].st = row.st
         /\ [row EXCEPT !.died = TRUE].confirmed = row.confirmed
         /\ [row EXCEPT !.died = TRUE].died
  BY DEF Row

\* A request that moves on without a change of what it is about.
LEMMA Moved ==
  ASSUME NEW q \in Request,
         NEW pc \in {"idle", "apply", "record", "claim", "undo", "clear"}
  PROVE  /\ [q EXCEPT !.pc = pc] \in Request
         /\ [q EXCEPT !.pc = pc].pc = pc
         /\ [q EXCEPT !.pc = pc].id = q.id
         /\ [q EXCEPT !.pc = pc].undo = q.undo
  BY DEF Request

\* Fates, by the columns of a row.
LEMMA FateOf ==
  ASSUME NEW row \in Row
  PROVE  /\ row.st = "free" => Fate(row) = "none"
         /\ row.st = "open" => Fate(row) = "applied"
         /\ row.st = "done" /\ ~row.confirmed => Fate(row) = "undoing"
         /\ row.st = "done" /\ row.confirmed => Fate(row) = "undone"
  BY DEF Fate, Row

-----------------------------------------------------------------------------
(* The invariant *)

\* The request n in r's place and the table t go together, m scripts having run.
Sound(r, n, t, m) ==
  /\ n.pc \in {"record", "claim", "undo", "clear"} => n.id \in Ids
  /\ n.pc = "record" => n.id <= m /\ t[n.id].st = "free"
  /\ n.pc \in {"claim", "undo", "clear"} => t[n.id].st # "free" /\ n.undo \in Values
  /\ Undoing(n) => t[n.id].st = "done" /\ ~t[n.id].confirmed

\* The other requests go together with them.
Others(r, n, t) ==
  \A x \in Requests \ {r} :
    /\ n.pc = "record" /\ req[x].pc = "record" => n.id # req[x].id
    /\ Undoing(n) /\ Undoing(req[x]) => n.id # req[x].id
    /\ req[x].pc = "record" => t[req[x].id].st = "free"
    /\ req[x].pc \in {"claim", "undo", "clear"} => t[req[x].id].st # "free"
    /\ Undoing(req[x]) => t[req[x].id].st = "done" /\ ~t[req[x].id].confirmed

\* So do the rows.
Table(r, n, t, m) ==
  \A i \in Ids : /\ i > m => t[i].st = "free"
                 /\ t[i].st = "open" => ~t[i].confirmed
                 /\ t[i].st = "done" =>
                      \/ t[i].confirmed \/ t[i].died
                      \/ Undoing(n) /\ n.id = i
                      \/ \E x \in Requests \ {r} : Undoing(req[x]) /\ req[x].id = i

\* A step of r to n that leaves the table at t keeps the invariant.
LEMMA Preserved ==
  ASSUME Inv, NEW r \in Requests, NEW n \in Request, NEW t \in [Ids -> Row],
         NEW m \in 0 .. MaxFixes, ran <= m, ran' = m,
         req' = [req EXCEPT ![r] = n], rows' = t,
         host' \in [Settings -> Values], lost' \subseteq Settings,
         Sound(r, n, t, m), Others(r, n, t), Table(r, n, t, m)
  PROVE  Inv'
  <1> USE DEF Inv, Sound, Others, Table
  <1>1. /\ req \in [Requests -> Request] /\ req'[r] = n
        /\ \A x \in Requests \ {r} : req'[x] = req[x]
    BY DEF TypeOK
  <1>2. TypeOK' BY <1>1 DEF TypeOK
  <1>3. RowsOfRequests'
    <2> SUFFICES ASSUME NEW x \in Requests
                 PROVE  /\ req'[x].pc \in {"record", "claim", "undo", "clear"} =>
                             req'[x].id \in Ids
                        /\ req'[x].pc = "record" =>
                             req'[x].id <= ran' /\ rows'[req'[x].id].st = "free"
                        /\ req'[x].pc \in {"claim", "undo", "clear"} =>
                             rows'[req'[x].id].st # "free" /\ req'[x].undo \in Values
                        /\ Undoing(req'[x]) => /\ rows'[req'[x].id].st = "done"
                                               /\ ~rows'[req'[x].id].confirmed
      BY DEF RowsOfRequests, Undoing
    <2>1. CASE x = r BY <1>1, <2>1
    <2>2. CASE x # r
      <3>1. req[x].pc = "record" => req[x].id \in Ids /\ req[x].id <= ran
        BY DEF RowsOfRequests
      <3>2. req[x].pc = "record" => req[x].id <= ran'
        BY <3>1, RemoteFixesAssumption DEF TypeOK, Ids
      <3> QED BY <1>1, <2>2, <3>2 DEF RowsOfRequests
    <2> QED BY <2>1, <2>2
  <1>4. OneAtATime' BY <1>1 DEF OneAtATime, Undoing
  <1>5. RowsSound' BY DEF RowsSound
  <1>6. UndoneExplained'
    <2> SUFFICES ASSUME NEW i \in Ids, t[i].st = "done"
                 PROVE  \/ t[i].confirmed \/ t[i].died
                        \/ \E x \in Requests : Undoing(req'[x]) /\ req'[x].id = i
      BY DEF UndoneExplained, Undoing
    <2> QED BY <1>1
  <1> QED BY <1>2, <1>3, <1>4, <1>5, <1>6

\* The invariant holds when no fix is recorded.
THEOREM InitInv == Init => Inv
  <1> SUFFICES ASSUME Init PROVE Inv OBVIOUS
  <1>1. 0 \in 0 .. MaxFixes BY RemoteFixesAssumption
  <1>2. TypeOK BY <1>1, Constants DEF Init, TypeOK, Values
  <1>3. /\ \A r \in Requests : req[r].pc = "idle"
        /\ \A i \in Ids : rows[i].st = "free"
    BY Constants DEF Init
  <1> QED BY <1>2, <1>3 DEF Inv, RowsOfRequests, OneAtATime, RowsSound,
                           UndoneExplained, Undoing

\* What the proofs of the single steps take from the invariant.
LEMMA Types ==
  ASSUME Inv
  PROVE  /\ host \in [Settings -> Values] /\ lost \subseteq Settings
         /\ ran \in 0 .. MaxFixes
         /\ rows \in [Ids -> Row] /\ req \in [Requests -> Request]
  BY DEF Inv, TypeOK

LEMMA OfRequests ==
  ASSUME Inv, NEW x \in Requests
  PROVE  /\ req[x].pc \in {"record", "claim", "undo", "clear"} => req[x].id \in Ids
         /\ req[x].pc = "record" => req[x].id <= ran /\ rows[req[x].id].st = "free"
         /\ req[x].pc \in {"claim", "undo", "clear"} =>
              rows[req[x].id].st # "free" /\ req[x].undo \in Values
         /\ Undoing(req[x]) => /\ rows[req[x].id].st = "done"
                               /\ ~rows[req[x].id].confirmed
  BY DEF Inv, RowsOfRequests, Undoing

LEMMA Apart ==
  ASSUME Inv, NEW x \in Requests, NEW y \in Requests \ {x}
  PROVE  /\ req[x].pc = "record" /\ req[y].pc = "record" => req[x].id # req[y].id
         /\ Undoing(req[x]) /\ Undoing(req[y]) => req[x].id # req[y].id
  BY DEF Inv, OneAtATime

LEMMA OfRows ==
  ASSUME Inv, NEW i \in Ids
  PROVE  /\ i > ran => rows[i].st = "free"
         /\ rows[i].st = "open" => ~rows[i].confirmed
         /\ rows[i].st = "done" =>
              \/ rows[i].confirmed \/ rows[i].died
              \/ \E x \in Requests : Undoing(req[x]) /\ req[x].id = i
  BY DEF Inv, RowsSound, UndoneExplained, Undoing

\* A request that stops, or goes on without the record or an undo of a row.
LEMMA Quiet ==
  ASSUME Inv, NEW r \in Requests, NEW n \in Request,
         req' = [req EXCEPT ![r] = n], UNCHANGED <<rows, ran>>,
         host' \in [Settings -> Values], lost' \subseteq Settings,
         n.pc \in {"idle", "apply", "claim"},
         n.pc = "claim" =>
           n.id \in Ids /\ rows[n.id].st # "free" /\ n.undo \in Values,
         ~Undoing(req[r])
  PROVE  Inv'
  <1>1. ran \in 0 .. MaxFixes /\ ran <= ran /\ rows \in [Ids -> Row]
    BY Types, RemoteFixesAssumption
  <1>2. ~Undoing(n) /\ n.pc # "record" BY DEF Undoing
  <1>3. Sound(r, n, rows, ran) BY <1>2 DEF Sound
  <1>4. Others(r, n, rows) BY <1>2, OfRequests DEF Others
  <1>5. Table(r, n, rows, ran)
    <2> SUFFICES ASSUME NEW i \in Ids
                 PROVE  /\ i > ran => rows[i].st = "free"
                        /\ rows[i].st = "open" => ~rows[i].confirmed
                        /\ rows[i].st = "done" =>
                             \/ rows[i].confirmed \/ rows[i].died
                             \/ \E x \in Requests \ {r} : Undoing(req[x]) /\ req[x].id = i
      BY <1>2 DEF Table
    <2> QED BY OfRows
  <1> QED BY <1>1, <1>3, <1>4, <1>5, Preserved

\* A row that r is not undoing is accounted for without it.
LEMMA WithoutR ==
  ASSUME Inv, NEW r \in Requests, NEW i \in Ids,
         Undoing(req[r]) => req[r].id # i
  PROVE  /\ i > ran => rows[i].st = "free"
         /\ rows[i].st = "open" => ~rows[i].confirmed
         /\ rows[i].st = "done" =>
              \/ rows[i].confirmed \/ rows[i].died
              \/ \E x \in Requests \ {r} : Undoing(req[x]) /\ req[x].id = i
  BY OfRows

LEMMA FixStartInv ==
  ASSUME Inv, NEW r \in Requests, NEW s \in Settings, FixStart(r, s)  PROVE Inv'
  <1> DEFINE n == [Idle EXCEPT !.pc = "apply", !.setting = s]
  <1>1. n \in Request /\ n.pc = "apply" BY Constants DEF Request
  <1>2. req' = [req EXCEPT ![r] = n] /\ UNCHANGED <<host, ran, rows, lost>>
        /\ ~Undoing(req[r])
    BY DEF FixStart, Goto, Undoing
  <1> HIDE DEF n
  <1> QED BY <1>1, <1>2, Types, Quiet

\* FixRuns numbers the row; nobody else goes by that number.
LEMMA FixRunsInv ==
  ASSUME Inv, NEW r \in Requests, NEW trusted \in BOOLEAN, FixRuns(r, trusted)
  PROVE  Inv'
  <1> DEFINE s == req[r].setting
             undo == IF trusted THEN host[s] ELSE "none"
             n == [pc |-> "record", setting |-> s, id |-> ran + 1, undo |-> undo]
  <1>1. ran \in 0 .. MaxFixes /\ ran < MaxFixes BY Types DEF FixRuns
  <1>2. ran + 1 \in 0 .. MaxFixes /\ ran + 1 \in Ids /\ ran <= ran + 1
    BY <1>1, RemoteFixesAssumption DEF Ids
  <1>3. s \in Settings /\ undo \in Values \cup {"none"}
    <2>1. s \in Settings BY Types DEF Request
    <2> QED BY <2>1, Types
  <1>4. n \in Request /\ n.pc = "record" /\ n.id = ran + 1
    BY <1>2, <1>3 DEF Request
  <1>5. /\ req' = [req EXCEPT ![r] = n] /\ ran' = ran + 1 /\ rows' = rows
        /\ host' = [host EXCEPT ![s] = "fixed"] /\ lost' \in {lost, lost \cup {s}}
        /\ ~Undoing(req[r])
    BY DEF FixRuns, Goto, Undoing
  <1>6. host' \in [Settings -> Values] /\ lost' \subseteq Settings
    BY <1>3, <1>5, Types DEF Values
  <1> HIDE DEF n, s, undo
  <1>7. ~Undoing(n) BY <1>4 DEF Undoing
  <1>8. Sound(r, n, rows, ran + 1)
    <2>1. rows[ran + 1].st = "free" BY <1>1, <1>2, OfRows
    <2> QED BY <1>1, <1>2, <1>4, <1>7, <2>1 DEF Sound
  <1>9. Others(r, n, rows)
    <2> SUFFICES ASSUME NEW x \in Requests \ {r}
                 PROVE  req[x].pc = "record" => n.id # req[x].id
      BY <1>7, OfRequests DEF Others
    <2>1. req[x].pc = "record" => req[x].id \in Ids /\ req[x].id <= ran BY OfRequests
    <2> QED BY <1>1, <1>4, <2>1, RemoteFixesAssumption DEF Ids
  <1>10. Table(r, n, rows, ran + 1)
    <2> SUFFICES ASSUME NEW i \in Ids
                 PROVE  /\ i > ran + 1 => rows[i].st = "free"
                        /\ rows[i].st = "open" => ~rows[i].confirmed
                        /\ rows[i].st = "done" =>
                             \/ rows[i].confirmed \/ rows[i].died
                             \/ \E x \in Requests \ {r} : Undoing(req[x]) /\ req[x].id = i
      BY <1>7 DEF Table
    <2>1. i > ran + 1 => i > ran BY <1>1, RemoteFixesAssumption DEF Ids
    <2> QED BY <1>5, <2>1, WithoutR
  <1>11. rows \in [Ids -> Row] BY Types
  <1> QED BY <1>2, <1>4, <1>5, <1>6, <1>8, <1>9, <1>10, <1>11, Preserved

\* What FixFails, FixUnanswered, a second click and most deaths come to.
LEMMA StopsInv ==
  ASSUME Inv, NEW r \in Requests, Finish(r), UNCHANGED <<rows, ran>>,
         host' \in [Settings -> Values], lost' \subseteq Settings,
         ~Undoing(req[r])
  PROVE  Inv'
  BY Constants, Quiet DEF Finish, Goto

LEMMA FixStopsInv ==
  ASSUME Inv, NEW r \in Requests, FixFails(r) \/ FixUnanswered(r)  PROVE Inv'
  <1>1. req[r].setting \in Settings BY Types DEF Request
  <1>2. host' \in [Settings -> Values] /\ lost' \subseteq Settings
    BY <1>1, Types DEF FixFails, FixUnanswered, Values
  <1> QED BY <1>2, StopsInv DEF FixFails, FixUnanswered, Undoing

LEMMA RecordInv ==
  ASSUME Inv, NEW r \in Requests, add_remote_fix(r)  PROVE Inv'
  <1> DEFINE q == req[r]
             y == [st |-> "open", setting |-> q.setting, undo |-> q.undo,
                   confirmed |-> FALSE, died |-> FALSE]
             t == [rows EXCEPT ![q.id] = y]
  <1>1. /\ q.pc = "record" /\ rows' = t /\ Finish(r) /\ UNCHANGED <<host, ran, lost>>
    BY DEF add_remote_fix
  <1>2. q \in Request BY Types
  <1>3. y \in Row /\ y.st = "open" /\ ~y.confirmed BY <1>2 DEF Request, Row
  <1>4. q.id \in Ids /\ q.id <= ran /\ rows[q.id].st = "free" BY <1>1, OfRequests
  <1> HIDE DEF y
  <1>5. /\ t \in [Ids -> Row] /\ t[q.id] = y
        /\ \A i \in Ids \ {q.id} : t[i] = rows[i]
    BY <1>3, <1>4, Types
  <1> HIDE DEF t
  <1>6. ~Undoing(q) /\ ~Undoing(Idle) BY <1>1, Constants DEF Undoing
  <1>7. Sound(r, Idle, t, ran) BY <1>6, Constants DEF Sound
  <1>8. Others(r, Idle, t)
    <2> SUFFICES ASSUME NEW x \in Requests \ {r}
                 PROVE  /\ req[x].pc = "record" => t[req[x].id].st = "free"
                        /\ req[x].pc \in {"claim", "undo", "clear"} => t[req[x].id].st # "free"
                        /\ Undoing(req[x]) => t[req[x].id].st = "done" /\ ~t[req[x].id].confirmed
      BY <1>6, Constants DEF Others
    <2>1. req[x].pc = "record" => req[x].id # q.id BY <1>1, Apart
    <2>2. Undoing(req[x]) => req[x].pc \in {"undo", "clear"} BY DEF Undoing
    <2> QED BY <1>3, <1>4, <1>5, <2>1, <2>2, OfRequests
  <1>9. Table(r, Idle, t, ran)
    <2> SUFFICES ASSUME NEW i \in Ids
                 PROVE  /\ i > ran => t[i].st = "free"
                        /\ t[i].st = "open" => ~t[i].confirmed
                        /\ t[i].st = "done" =>
                             \/ t[i].confirmed \/ t[i].died
                             \/ \E x \in Requests \ {r} : Undoing(req[x]) /\ req[x].id = i
      BY <1>6 DEF Table
    <2>1. CASE i = q.id
      <3>1. ran \in Int /\ i \in Int BY Types, RemoteFixesAssumption DEF Ids
      <3> QED BY <1>3, <1>4, <1>5, <2>1, <3>1
    <2>2. CASE i # q.id BY <1>5, <1>6, <2>2, WithoutR
    <2> QED BY <2>1, <2>2
  <1>10. ran <= ran BY Types, RemoteFixesAssumption
  <1> QED BY <1>1, <1>5, <1>7, <1>8, <1>9, <1>10, Types, Constants, Preserved
          DEF Finish, Goto

LEMMA UndoReadInv ==
  ASSUME Inv, NEW r \in Requests, NEW i \in Ids, UndoRead(r, i)  PROVE Inv'
  <1> DEFINE n == [pc |-> "claim", setting |-> rows[i].setting, id |-> i,
                   undo |-> rows[i].undo]
  <1>1. i \in 0 .. MaxFixes BY RemoteFixesAssumption DEF Ids
  <1>2. rows[i] \in Row BY Types
  <1>3. n \in Request /\ n.pc = "claim" /\ n.id = i /\ n.undo \in Values
    BY <1>1, <1>2 DEF Request, Row, UndoRead
  <1>4. /\ req' = [req EXCEPT ![r] = n] /\ UNCHANGED <<host, ran, rows, lost>>
        /\ ~Undoing(req[r]) /\ rows[i].st # "free"
    BY DEF UndoRead, Goto, Undoing
  <1> HIDE DEF n
  <1> QED BY <1>3, <1>4, Types, Quiet

\* A step of the request that has the row i in hand, and nobody else undoing it.
LEMMA InHand ==
  ASSUME Inv, NEW r \in Requests, NEW i \in Ids, NEW n \in Request, NEW y \in Row,
         req[r].pc \in {"claim", "undo", "clear"}, req[r].id = i,
         req' = [req EXCEPT ![r] = n], rows' = [rows EXCEPT ![i] = y], ran' = ran,
         host' \in [Settings -> Values], lost' \subseteq Settings,
         n.pc \in {"idle", "undo", "clear"},
         Undoing(n) =>
           n.id = i /\ n.undo \in Values /\ y.st = "done" /\ ~y.confirmed,
         \A x \in Requests \ {r} : Undoing(req[x]) => req[x].id # i,
         y.st \in {"open", "done"}, y.st = "open" => ~y.confirmed,
         y.st = "done" => y.confirmed \/ y.died \/ Undoing(n)
  PROVE  Inv'
  <1> DEFINE t == [rows EXCEPT ![i] = y]
  <1>1. /\ t \in [Ids -> Row] /\ t[i] = y
        /\ \A k \in Ids \ {i} : t[k] = rows[k]
    BY Types
  <1>2. rows' = t OBVIOUS
  <1> HIDE DEF t
  <1>3. rows[i].st # "free" BY OfRequests
  <1>4. ran \in 0 .. MaxFixes /\ ran <= ran BY Types, RemoteFixesAssumption
  <1>5. Sound(r, n, t, ran) BY <1>1 DEF Sound, Undoing
  <1>6. Others(r, n, t)
    <2> SUFFICES ASSUME NEW x \in Requests \ {r}
                 PROVE  /\ req[x].pc = "record" => t[req[x].id].st = "free"
                        /\ req[x].pc \in {"claim", "undo", "clear"} => t[req[x].id].st # "free"
                        /\ Undoing(req[x]) => t[req[x].id].st = "done" /\ ~t[req[x].id].confirmed
      BY DEF Others
    <2>1. Undoing(req[x]) => req[x].pc \in {"undo", "clear"} BY DEF Undoing
    <2> QED BY <1>1, <1>3, <2>1, OfRequests
  <1>7. Table(r, n, t, ran)
    <2> SUFFICES ASSUME NEW k \in Ids
                 PROVE  /\ k > ran => t[k].st = "free"
                        /\ t[k].st = "open" => ~t[k].confirmed
                        /\ t[k].st = "done" =>
                             \/ t[k].confirmed \/ t[k].died
                             \/ Undoing(n) /\ n.id = k
                             \/ \E x \in Requests \ {r} : Undoing(req[x]) /\ req[x].id = k
      BY DEF Table
    <2>1. CASE k = i BY <1>1, <1>3, <2>1, OfRows
    <2>2. CASE k # i BY <1>1, <2>2, WithoutR
    <2> QED BY <2>1, <2>2
  <1> QED BY <1>1, <1>2, <1>4, <1>5, <1>6, <1>7, Preserved

LEMMA MarkInv ==
  ASSUME Inv, NEW r \in Requests, mark_remote_fix_undone(r)  PROVE Inv'
  <1> DEFINE i == req[r].id
  <1>1. i \in Ids /\ req[r].pc = "claim" /\ UNCHANGED <<host, ran>>
    BY OfRequests DEF mark_remote_fix_undone
  <1>2. req[r] \in Request /\ rows[i] \in Row /\ req[r].setting \in Settings
    BY <1>1, Types DEF Request
  <1>3. CASE rows[i].st = "open"
    <2> DEFINE n == [req[r] EXCEPT !.pc = "undo"]
               y == [rows[i] EXCEPT !.st = "done"]
    <2>1. n \in Request /\ n.pc = "undo" /\ n.id = i /\ n.undo \in Values
      BY <1>1, <1>2, Moved, OfRequests
    <2>2. y \in Row /\ y.st = "done" /\ y.confirmed = rows[i].confirmed BY <1>2, Marked
    <2>3. ~rows[i].confirmed BY <1>1, <1>3, OfRows
    <2>4. /\ req' = [req EXCEPT ![r] = n] /\ rows' = [rows EXCEPT ![i] = y]
          /\ lost' \in {lost, lost \cup {req[r].setting}}
      BY <1>3 DEF mark_remote_fix_undone, Goto
    <2> HIDE DEF n, y
    <2>5. \A x \in Requests \ {r} : Undoing(req[x]) => req[x].id # i
      BY <1>3, OfRequests
    <2>6. Undoing(n) BY <2>1 DEF Undoing
    <2>7. /\ host' \in [Settings -> Values] /\ lost' \subseteq Settings
          /\ ran' = ran
      BY <1>1, <1>2, <2>4, Types
    <2>8. /\ req[r].pc \in {"claim", "undo", "clear"} /\ n.pc \in {"idle", "undo", "clear"}
          /\ y.st \in {"open", "done"} /\ y.st # "open"
          /\ n.id = i /\ n.undo \in Values /\ y.st = "done" /\ ~y.confirmed
      BY <1>1, <2>1, <2>2, <2>3
    <2>9. n \in Request /\ y \in Row BY <2>1, <2>2
    <2> HIDE DEF i
    <2>10. req[r].id = i BY DEF i
    <2> QED BY <1>1, <2>4, <2>5, <2>6, <2>7, <2>8, <2>9, <2>10, InHand
  <1>4. CASE rows[i].st # "open"
    BY <1>1, <1>4, Types, StopsInv DEF mark_remote_fix_undone, Undoing
  <1> QED BY <1>3, <1>4

LEMMA UndoRunsInv ==
  ASSUME Inv, NEW r \in Requests, UndoRuns(r)  PROVE Inv'
  <1> DEFINE i == req[r].id
             y == [rows[i] EXCEPT !.confirmed = TRUE]
  <1>1. req[r].pc = "undo" /\ Undoing(req[r]) BY DEF UndoRuns, Undoing
  <1>2. i \in Ids /\ rows[i].st = "done" BY <1>1, OfRequests
  <1>3. req[r] \in Request /\ rows[i] \in Row BY <1>2, Types
  <1>4. y \in Row /\ y.st = "done" /\ y.confirmed BY <1>2, <1>3, Confirmed
  <1>5. /\ req' = [req EXCEPT ![r] = Idle] /\ rows' = [rows EXCEPT ![i] = y]
        /\ UNCHANGED <<ran, lost>> /\ lost \subseteq Settings
    BY Types DEF UndoRuns, Finish, Goto
  <1>6. host' \in [Settings -> Values]
    <2>1. req[r].undo \in Values BY <1>1, OfRequests
    <2> QED BY <2>1, Types DEF UndoRuns
  <1>7. \A x \in Requests \ {r} : Undoing(req[x]) => req[x].id # i BY <1>1, Apart
  <1>8. ~Undoing(Idle) BY Constants DEF Undoing
  <1>9. /\ req[r].pc \in {"claim", "undo", "clear"} /\ req[r].id = i /\ ran' = ran
        /\ y.st \in {"open", "done"} /\ y.st # "open" /\ lost' \subseteq Settings
        /\ Idle \in Request /\ Idle.pc \in {"idle", "undo", "clear"}
    BY <1>1, <1>4, <1>5, Constants
  <1> HIDE DEF i, y
  <1> QED BY <1>2, <1>4, <1>5, <1>6, <1>7, <1>8, <1>9, InHand

LEMMA UndoFailsInv ==
  ASSUME Inv, NEW r \in Requests, UndoFails(r)  PROVE Inv'
  <1> DEFINE i == req[r].id
             n == [req[r] EXCEPT !.pc = "clear"]
  <1>1. req[r].pc = "undo" /\ Undoing(req[r]) BY DEF UndoFails, Undoing
  <1>2. /\ i \in Ids /\ rows[i].st = "done" /\ ~rows[i].confirmed
        /\ req[r].undo \in Values
    BY <1>1, OfRequests
  <1>3. req[r] \in Request /\ rows[i] \in Row BY <1>2, Types
  <1>4. n \in Request /\ n.pc = "clear" /\ n.id = i /\ n.undo \in Values
    BY <1>2, <1>3, Moved
  <1>5. /\ req' = [req EXCEPT ![r] = n] /\ rows' = [rows EXCEPT ![i] = rows[i]]
        /\ UNCHANGED <<ran, lost>> /\ lost \subseteq Settings
        /\ host' \in [Settings -> Values]
    BY <1>2, Types DEF UndoFails, Goto
  <1>6. \A x \in Requests \ {r} : Undoing(req[x]) => req[x].id # i BY <1>1, Apart
  <1> DEFINE y == rows[i]
  <1> HIDE DEF n
  <1>7. Undoing(n) BY <1>4 DEF Undoing
  <1>8. /\ y \in Row /\ rows' = [rows EXCEPT ![i] = y]
        /\ y.st = "done" /\ y.st \in {"open", "done"} /\ y.st # "open" /\ ~y.confirmed
    BY <1>2, <1>3, <1>5
  <1>9. /\ req[r].pc \in {"claim", "undo", "clear"} /\ req[r].id = i /\ ran' = ran
        /\ n.pc \in {"idle", "undo", "clear"} /\ lost' \subseteq Settings
    BY <1>1, <1>4, <1>5
  <1>10. n \in Request /\ host' \in [Settings -> Values] /\ req' = [req EXCEPT ![r] = n]
    BY <1>4, <1>5
  <1>11. n.id = i /\ n.undo \in Values /\ i \in Ids BY <1>2, <1>4
  <1> HIDE DEF i, y
  <1> QED BY <1>6, <1>7, <1>8, <1>9, <1>10, <1>11, InHand

LEMMA ClearInv ==
  ASSUME Inv, NEW r \in Requests, clear_remote_fix_undone(r)  PROVE Inv'
  <1> DEFINE i == req[r].id
             y == [rows[i] EXCEPT !.st = "open"]
  <1>1. req[r].pc = "clear" /\ Undoing(req[r]) BY DEF clear_remote_fix_undone, Undoing
  <1>2. i \in Ids /\ ~rows[i].confirmed BY <1>1, OfRequests
  <1>3. rows[i] \in Row BY <1>2, Types
  <1>4. y \in Row /\ y.st = "open" /\ ~y.confirmed BY <1>2, <1>3, Marked
  <1>5. /\ req' = [req EXCEPT ![r] = Idle] /\ rows' = [rows EXCEPT ![i] = y]
        /\ UNCHANGED <<ran, lost>> /\ lost' \subseteq Settings
        /\ host' \in [Settings -> Values]
    BY Types DEF clear_remote_fix_undone, Finish, Goto
  <1>6. \A x \in Requests \ {r} : Undoing(req[x]) => req[x].id # i BY <1>1, Apart
  <1>7. ~Undoing(Idle) BY Constants DEF Undoing
  <1> HIDE DEF y
  <1>8. /\ req[r].pc \in {"claim", "undo", "clear"} /\ ran' = ran
        /\ y.st \in {"open", "done"} /\ y.st # "done"
        /\ Idle \in Request /\ Idle.pc \in {"idle", "undo", "clear"}
    BY <1>1, <1>4, <1>5, Constants
  <1> QED BY <1>2, <1>4, <1>5, <1>6, <1>7, <1>8, InHand

LEMMA AbortInv ==
  ASSUME Inv, NEW r \in Requests, Abort(r)  PROVE Inv'
  <1> DEFINE i == req[r].id
             y == [rows[i] EXCEPT !.died = TRUE]
  <1>1. req[r].setting \in Settings BY Types DEF Request
  <1>2. /\ req' = [req EXCEPT ![r] = Idle] /\ lost' \subseteq Settings
        /\ host' \in [Settings -> Values] /\ ran' = ran
    BY <1>1, Types DEF Abort, Finish, Goto
  <1>3. CASE Undoing(req[r])
    <2>1. req[r].pc \in {"undo", "clear"} BY <1>3 DEF Undoing
    <2>2. i \in Ids /\ rows[i].st = "done" BY <1>3, <2>1, OfRequests
    <2>3. rows[i] \in Row BY <2>2, Types
    <2>4. y \in Row /\ y.st = "done" /\ y.died BY <2>2, <2>3, Died
    <2>5. rows' = [rows EXCEPT ![i] = y] BY <2>1 DEF Abort
    <2>6. \A x \in Requests \ {r} : Undoing(req[x]) => req[x].id # i BY <1>3, Apart
    <2>7. ~Undoing(Idle) BY Constants DEF Undoing
    <2> HIDE DEF y
    <2> QED BY <1>2, <2>1, <2>2, <2>4, <2>5, <2>6, <2>7, Constants, InHand
  <1>4. CASE ~Undoing(req[r])
    <2>1. rows' = rows BY <1>4 DEF Abort, Undoing
    <2> QED BY <1>2, <1>4, <2>1, StopsInv DEF Abort
  <1> QED BY <1>3, <1>4

\* Every step of api_fix_remote and api_fix_remote_undo keeps it.
THEOREM NextInv == Inv /\ [Next]_vars => Inv'
  <1> SUFFICES ASSUME Inv, [Next]_vars PROVE Inv' OBVIOUS
  <1>1. CASE UNCHANGED vars
    BY <1>1 DEF vars, Inv, TypeOK, RowsOfRequests, OneAtATime, RowsSound,
                UndoneExplained, Undoing
  <1>2. ASSUME NEW r \in Requests, Fix(r) \/ Undo(r) \/ Abort(r) PROVE Inv'
    BY <1>2, FixStartInv, FixRunsInv, FixStopsInv, RecordInv, UndoReadInv, MarkInv,
       UndoRunsInv, UndoFailsInv, ClearInv, AbortInv DEF Fix, Undo
  <1> QED BY <1>1, <1>2 DEF Next

\* So it holds of every record of remote fixes.
THEOREM SpecInv == Spec => []Inv
  BY InitInv, NextInv, PTL DEF Spec

\* The table, the requests and the settings of the host are of their types.
THEOREM TypeCorrect == Spec => []TypeOK
  BY SpecInv, PTL DEF Inv

\* A row marked as undone is so on the host, or being undone, or its request
\* died: for any number of clicks at the same time.
THEOREM UndoneSafe == Spec => []UndoneExplained
  BY SpecInv, PTL DEF Inv

-----------------------------------------------------------------------------
(* RemoteFixes implements Reversal *)

\* One row changes, and its fate with it.
LEMMA OneFate ==
  ASSUME rows \in [Ids -> Row], NEW i \in Ids, NEW y \in Row,
         rows' = [rows EXCEPT ![i] = y]
  PROVE  fate' = [fate EXCEPT ![i] = Fate(y)]
  <1>1. \A k \in Ids : rows'[k] = IF k = i THEN y ELSE rows[k] OBVIOUS
  <1> QED BY <1>1 DEF fate

\* An empty table is the initial state of Reversal.
THEOREM InitAbstract == Init => Abstract!Init
  BY Constants, FateOf DEF Init, fate, Abstract!Init

\* Each step is one of Reversal's, or none.
THEOREM NextAbstract == Inv /\ [Next]_vars => [Abstract!Next]_fate
  <1> SUFFICES ASSUME Inv, [Next]_vars PROVE [Abstract!Next]_fate OBVIOUS
  <1>1. ASSUME UNCHANGED rows PROVE UNCHANGED fate BY <1>1 DEF fate
  <1>2. ASSUME NEW r \in Requests, add_remote_fix(r) PROVE Abstract!Next
    <2> DEFINE i == req[r].id
               y == [st |-> "open", setting |-> req[r].setting, undo |-> req[r].undo,
                     confirmed |-> FALSE, died |-> FALSE]
    <2>1. i \in Ids /\ rows[i].st = "free" BY <1>2, OfRequests DEF add_remote_fix
    <2>2. req[r] \in Request /\ rows[i] \in Row /\ rows \in [Ids -> Row] BY <2>1, Types
    <2>3. y \in Row /\ y.st = "open" BY <2>2 DEF Request, Row
    <2>4. rows' = [rows EXCEPT ![i] = y] BY <1>2 DEF add_remote_fix
    <2> HIDE DEF y
    <2>5. fate' = [fate EXCEPT ![i] = "applied"] /\ fate[i] = "none"
      BY <2>1, <2>2, <2>3, <2>4, OneFate, FateOf DEF fate
    <2> QED BY <2>1, <2>5 DEF Abstract!Next, Abstract!Apply, Abstract!Move
  <1>3. ASSUME NEW r \in Requests, mark_remote_fix_undone(r)
        PROVE  Abstract!Next \/ UNCHANGED fate
    <2> DEFINE i == req[r].id
               y == [rows[i] EXCEPT !.st = "done"]
    <2>1. i \in Ids BY <1>3, OfRequests DEF mark_remote_fix_undone
    <2>2. CASE rows[i].st = "open"
      <3>1. rows[i] \in Row /\ rows \in [Ids -> Row] /\ ~rows[i].confirmed
        BY <2>1, <2>2, Types, OfRows
      <3>2. y \in Row /\ y.st = "done" /\ ~y.confirmed BY <3>1, Marked
      <3>3. rows' = [rows EXCEPT ![i] = y]
        BY <1>3, <2>2 DEF mark_remote_fix_undone
      <3> HIDE DEF y
      <3>4. fate' = [fate EXCEPT ![i] = "undoing"] /\ fate[i] = "applied"
        BY <2>1, <2>2, <3>1, <3>2, <3>3, OneFate, FateOf DEF fate
      <3> QED BY <2>1, <3>4 DEF Abstract!Next, Abstract!Claim, Abstract!Move
    <2>3. CASE rows[i].st # "open" BY <1>1, <1>3, <2>3 DEF mark_remote_fix_undone
    <2> QED BY <2>2, <2>3
  <1>4. ASSUME NEW r \in Requests, UndoRuns(r) PROVE Abstract!Next
    <2> DEFINE i == req[r].id
               y == [rows[i] EXCEPT !.confirmed = TRUE]
    <2>1. Undoing(req[r]) /\ req[r].pc \in {"record", "claim", "undo", "clear"}
      BY <1>4 DEF UndoRuns, Undoing
    <2>2. i \in Ids /\ rows[i].st = "done" /\ ~rows[i].confirmed BY <2>1, OfRequests
    <2>3. rows[i] \in Row /\ rows \in [Ids -> Row] BY <2>2, Types
    <2>4. y \in Row /\ y.st = "done" /\ y.confirmed BY <2>2, <2>3, Confirmed
    <2>5. rows' = [rows EXCEPT ![i] = y] BY <1>4 DEF UndoRuns
    <2> HIDE DEF y
    <2>6. fate' = [fate EXCEPT ![i] = "undone"] /\ fate[i] = "undoing"
      BY <2>2, <2>3, <2>4, <2>5, OneFate, FateOf DEF fate
    <2> QED BY <2>2, <2>6 DEF Abstract!Next, Abstract!Finish, Abstract!Move
  <1>5. ASSUME NEW r \in Requests, clear_remote_fix_undone(r) PROVE Abstract!Next
    <2> DEFINE i == req[r].id
               y == [rows[i] EXCEPT !.st = "open"]
    <2>1. Undoing(req[r]) /\ req[r].pc \in {"record", "claim", "undo", "clear"}
      BY <1>5 DEF clear_remote_fix_undone, Undoing
    <2>2. i \in Ids /\ rows[i].st = "done" /\ ~rows[i].confirmed BY <2>1, OfRequests
    <2>3. rows[i] \in Row /\ rows \in [Ids -> Row] BY <2>2, Types
    <2>4. y \in Row /\ y.st = "open" BY <2>3, Marked
    <2>5. rows' = [rows EXCEPT ![i] = y] BY <1>5 DEF clear_remote_fix_undone
    <2> HIDE DEF y
    <2>6. fate' = [fate EXCEPT ![i] = "applied"] /\ fate[i] = "undoing"
      BY <2>2, <2>3, <2>4, <2>5, OneFate, FateOf DEF fate
    <2> QED BY <2>2, <2>6 DEF Abstract!Next, Abstract!GiveBack, Abstract!Move
  <1>6. ASSUME NEW r \in Requests, Abort(r) PROVE UNCHANGED fate
    <2> DEFINE i == req[r].id
               y == [rows[i] EXCEPT !.died = TRUE]
    <2>1. CASE Undoing(req[r])
      <3>1. i \in Ids /\ req[r].pc \in {"undo", "clear"} BY <2>1, OfRequests DEF Undoing
      <3>2. rows[i] \in Row /\ rows \in [Ids -> Row] BY <3>1, Types
      <3>3. y \in Row /\ y.st = rows[i].st /\ y.confirmed = rows[i].confirmed
        BY <3>2, Died
      <3>4. rows' = [rows EXCEPT ![i] = y] BY <1>6, <3>1 DEF Abort
      <3> HIDE DEF y
      <3>5. Fate(y) = Fate(rows[i]) BY <3>3 DEF Fate
      <3>6. fate' = [fate EXCEPT ![i] = fate[i]]
        BY <3>1, <3>2, <3>3, <3>4, <3>5, OneFate DEF fate
      <3> QED BY <3>1, <3>6 DEF fate
    <2>2. CASE ~Undoing(req[r]) BY <1>1, <1>6, <2>2 DEF Abort, Undoing
    <2> QED BY <2>1, <2>2
  <1>7. CASE UNCHANGED vars BY <1>1, <1>7 DEF vars
  <1>8. ASSUME NEW r \in Requests, Fix(r) \/ Undo(r) \/ Abort(r)
        PROVE  Abstract!Next \/ UNCHANGED fate
    BY <1>1, <1>2, <1>3, <1>4, <1>5, <1>6, <1>8
    DEF Fix, Undo, FixStart, FixRuns, FixFails, FixUnanswered, UndoRead, UndoFails
  <1> QED BY <1>7, <1>8 DEF Next

\* The record of remote fixes implements Reversal, whatever requests and faults
\* there are: no fix is undone by two requests, none that is undone comes back.
THEOREM Implements == Spec => KeepsPromise
  <1>1. Init => Abstract!Init BY InitAbstract
  <1>2. Inv /\ [Next]_vars => [Abstract!Next]_fate BY NextAbstract
  <1> QED BY <1>1, <1>2, SpecInv, PTL DEF Spec, KeepsPromise, Abstract!Spec

-----------------------------------------------------------------------------
(* The original values *)

Undos == Values \cup {"none"}

\* A row that is open, or a request that is to write the value to a row or to the
\* host, holds the value u of the setting s.
RowHolds(row, s, u) == row.st = "open" /\ row.setting = s /\ row.undo = u
RequestHolds(q, i, s, u) ==
  q.pc \in {"record", "undo", "clear"} /\ q.id = i /\ q.setting = s /\ q.undo = u

Held(i, s, u) ==
  RowHolds(rows[i], s, u) \/ \E r \in Requests : RequestHolds(req[r], i, s, u)

\* What a request read of a row is still in it.
Agree ==
  \A r \in Requests : req[r].pc \in {"claim", "undo", "clear"} =>
    /\ rows[req[r].id].setting = req[r].setting
    /\ rows[req[r].id].undo = req[r].undo

\* The fixes of a setting are a stack: below every one that found the setting fixed is
\* one that found the original value, and only the top one is being undone.
Stacked(s) ==
  /\ host[s] = "fixed" => \E j \in Ids : Held(j, s, "original")
  /\ \A i \in Ids, u \in Undos \ {"original"} :
       Held(i, s, u) => \E j \in Ids : j < i /\ Held(j, s, "original")
  /\ \A r \in Requests, i \in Ids, u \in Undos :
       Undoing(req[r]) /\ req[r].setting = s /\ Held(i, s, u) => i <= req[r].id

KeptInv == Inv /\ Agree /\ \A s \in Settings \ lost : Stacked(s)

\* A step of one request after which the same values are held.
LEMMA SameHeld ==
  ASSUME Inv, NEW r \in Requests, NEW n \in Request, req' = [req EXCEPT ![r] = n],
         NEW s \in Settings,
         \A j \in Ids, u \in Undos :
           RowHolds(rows'[j], s, u) \/ RequestHolds(n, j, s, u)
             <=> RowHolds(rows[j], s, u) \/ RequestHolds(req[r], j, s, u)
  PROVE  \A j \in Ids, u \in Undos : Held(j, s, u)' <=> Held(j, s, u)
  <1>1. req'[r] = n /\ \A x \in Requests \ {r} : req'[x] = req[x] BY Types
  <1> SUFFICES ASSUME NEW j \in Ids, NEW u \in Undos
               PROVE  Held(j, s, u)' <=> Held(j, s, u)
    OBVIOUS
  <1>2. Held(j, s, u)' <=> \/ RowHolds(rows'[j], s, u) \/ RequestHolds(n, j, s, u)
                          \/ \E x \in Requests \ {r} : RequestHolds(req[x], j, s, u)
    BY <1>1 DEF Held, RowHolds, RequestHolds
  <1>3. Held(j, s, u) <=> \/ RowHolds(rows[j], s, u) \/ RequestHolds(req[r], j, s, u)
                         \/ \E x \in Requests \ {r} : RequestHolds(req[x], j, s, u)
    BY DEF Held
  <1> QED BY <1>2, <1>3

LEMMA StackedSame ==
  ASSUME NEW s \in Settings, Stacked(s),
         \A j \in Ids, u \in Undos : Held(j, s, u)' <=> Held(j, s, u),
         host'[s] = "fixed" => \E j \in Ids : Held(j, s, "original"),
         \A r \in Requests : Undoing(req'[r]) /\ req'[r].setting = s =>
           \/ Undoing(req[r]) /\ req[r].setting = s /\ req'[r].id = req[r].id
           \/ \A i \in Ids, u \in Undos : Held(i, s, u) => i <= req'[r].id
  PROVE  Stacked(s)'
  <1>1. "original" \in Undos BY DEF Undos, Values
  <1>2. host'[s] = "fixed" => \E j \in Ids : Held(j, s, "original")' BY <1>1
  <1>3. ASSUME NEW i \in Ids, NEW u \in Undos \ {"original"}, Held(i, s, u)'
        PROVE  \E j \in Ids : j < i /\ Held(j, s, "original")'
    <2>1. PICK j \in Ids : j < i /\ Held(j, s, "original") BY <1>3 DEF Stacked
    <2> QED BY <1>1, <2>1
  <1>4. ASSUME NEW r \in Requests, NEW i \in Ids, NEW u \in Undos,
               Undoing(req'[r]), req'[r].setting = s, Held(i, s, u)'
        PROVE  i <= req'[r].id
    BY <1>4 DEF Stacked
  <1> QED BY <1>2, <1>3, <1>4 DEF Stacked, Undoing

\* A step that neither the rows nor the requests that hold a value have part in.
LEMMA IdleHolds ==
  ASSUME NEW q, q.pc \in {"idle", "apply", "claim"}
  PROVE  ~Undoing(q) /\ \A j, s, u : ~RequestHolds(q, j, s, u)
  BY DEF Undoing, RequestHolds

\* The requests of which a setting is not, and their undos, stay as they were.
LEMMA OthersStacked ==
  ASSUME Inv, NEW r \in Requests, NEW n \in Request, req' = [req EXCEPT ![r] = n],
         NEW s \in Settings, Stacked(s),
         host'[s] = "fixed" => \E j \in Ids : Held(j, s, "original"),
         \A j \in Ids, u \in Undos :
           RowHolds(rows'[j], s, u) \/ RequestHolds(n, j, s, u)
             <=> RowHolds(rows[j], s, u) \/ RequestHolds(req[r], j, s, u),
         Undoing(n) /\ n.setting = s =>
           \/ Undoing(req[r]) /\ req[r].setting = s /\ n.id = req[r].id
           \/ \A i \in Ids, u \in Undos : Held(i, s, u) => i <= n.id
  PROVE  Stacked(s)'
  <1>1. req'[r] = n /\ \A x \in Requests \ {r} : req'[x] = req[x] BY Types
  <1>2. \A j \in Ids, u \in Undos : Held(j, s, u)' <=> Held(j, s, u) BY SameHeld
  <1>3. \A x \in Requests : Undoing(req'[x]) /\ req'[x].setting = s =>
           \/ Undoing(req[x]) /\ req[x].setting = s /\ req'[x].id = req[x].id
           \/ \A i \in Ids, u \in Undos : Held(i, s, u) => i <= req'[x].id
    BY <1>1
  <1> QED BY <1>2, <1>3, StackedSame

\* A row stays what a request has read, when another request's row changes.
LEMMA AgreeStep ==
  ASSUME Inv, Agree, NEW r \in Requests, NEW n \in Request,
         req' = [req EXCEPT ![r] = n],
         n.pc \in {"claim", "undo", "clear"} =>
           rows'[n.id].setting = n.setting /\ rows'[n.id].undo = n.undo,
         \A i \in Ids : rows[i].st # "free" =>
           rows'[i].setting = rows[i].setting /\ rows'[i].undo = rows[i].undo
  PROVE  Agree'
  <1>1. req'[r] = n /\ \A x \in Requests \ {r} : req'[x] = req[x] BY Types
  <1> SUFFICES ASSUME NEW x \in Requests, req'[x].pc \in {"claim", "undo", "clear"}
               PROVE  /\ rows'[req'[x].id].setting = req'[x].setting
                      /\ rows'[req'[x].id].undo = req'[x].undo
    BY DEF Agree
  <1>2. CASE x = r BY <1>1, <1>2
  <1>3. CASE x # r
    <2>1. req[x].id \in Ids /\ rows[req[x].id].st # "free" BY <1>1, <1>3, OfRequests
    <2> QED BY <1>1, <1>3, <2>1 DEF Agree
  <1> QED BY <1>2, <1>3

\* What is to be shown of a step.
KeptNext == Agree' /\ \A s \in Settings \ lost' : Stacked(s)'

LEMMA OfKept ==
  ASSUME KeptInv
  PROVE  /\ Inv /\ Agree
         /\ \A s \in Settings \ lost : Stacked(s)
         /\ \A s \in Settings \ lost :
              host[s] = "fixed" => \E j \in Ids : Held(j, s, "original")
  BY DEF KeptInv, Stacked

\* Steps of a request that holds nothing, and will hold nothing.
LEMMA PassiveKept ==
  ASSUME KeptInv, NEW r \in Requests, NEW n \in Request, req' = [req EXCEPT ![r] = n],
         rows' = rows, lost \subseteq lost',
         \A s \in Settings \ lost' : host'[s] = host[s],
         req[r].pc \in {"idle", "apply", "claim"}, n.pc \in {"idle", "apply", "claim"},
         n.pc = "claim" => rows[n.id].setting = n.setting /\ rows[n.id].undo = n.undo
  PROVE  KeptNext
  <1>1. Agree' BY OfKept, AgreeStep
  <1>2. ASSUME NEW s \in Settings \ lost' PROVE Stacked(s)'
    <2>1. \A j \in Ids, u \in Undos :
            ~RequestHolds(n, j, s, u) /\ ~RequestHolds(req[r], j, s, u)
      BY IdleHolds
    <2>2. ~Undoing(n) BY IdleHolds
    <2>3. s \in Settings \ lost BY <1>2
    <2> QED BY <1>2, <2>1, <2>2, <2>3, OfKept, OthersStacked
  <1> QED BY <1>1, <1>2 DEF KeptNext

LEMMA FixStartKept ==
  ASSUME KeptInv, NEW r \in Requests, NEW s \in Settings, FixStart(r, s)  PROVE KeptNext
  <1> DEFINE n == [Idle EXCEPT !.pc = "apply", !.setting = s]
  <1>1. n \in Request /\ n.pc = "apply" BY Constants DEF Request
  <1>2. req' = [req EXCEPT ![r] = n] /\ UNCHANGED <<host, ran, rows, lost>>
        /\ req[r].pc = "idle"
    BY DEF FixStart, Goto
  <1> HIDE DEF n
  <1> QED BY <1>1, <1>2, PassiveKept

LEMMA FixStopsKept ==
  ASSUME KeptInv, NEW r \in Requests, FixFails(r) \/ FixUnanswered(r)  PROVE KeptNext
  <1>1. /\ req' = [req EXCEPT ![r] = Idle] /\ rows' = rows /\ req[r].pc = "apply"
        /\ lost \subseteq lost'
    BY DEF FixFails, FixUnanswered, Finish, Goto
  <1>2. \A s \in Settings \ lost' : host'[s] = host[s]
    BY OfKept, Types DEF FixFails, FixUnanswered
  <1> QED BY <1>1, <1>2, Constants, PassiveKept

LEMMA UndoReadKept ==
  ASSUME KeptInv, NEW r \in Requests, NEW i \in Ids, UndoRead(r, i)  PROVE KeptNext
  <1> DEFINE n == [pc |-> "claim", setting |-> rows[i].setting, id |-> i,
                   undo |-> rows[i].undo]
  <1>1. rows[i] \in Row BY OfKept, Types
  <1>2. i \in 0 .. MaxFixes BY RemoteFixesAssumption DEF Ids
  <1>3. n \in Request /\ n.pc = "claim" /\ n.id = i /\ n.setting = rows[i].setting
        /\ n.undo = rows[i].undo
    BY <1>1, <1>2 DEF Row, Request
  <1>4. req' = [req EXCEPT ![r] = n] /\ UNCHANGED <<host, rows, lost>> /\ req[r].pc = "idle"
    BY DEF UndoRead, Goto
  <1> HIDE DEF n
  <1> QED BY <1>3, <1>4, PassiveKept

\* The fix that has run found the setting as it was, or on top of others.
LEMMA FixRunsKept ==
  ASSUME KeptInv, NEW r \in Requests, NEW trusted \in BOOLEAN, FixRuns(r, trusted)
  PROVE  KeptNext
  <1>0. PICK s \in Settings : s = req[r].setting BY OfKept, Types DEF Request
  <1> DEFINE undo == IF trusted THEN host[s] ELSE "none"
             n == [pc |-> "record", setting |-> s, id |-> ran + 1, undo |-> undo]
  <1>1. ran \in 0 .. MaxFixes /\ ran < MaxFixes BY OfKept, Types DEF FixRuns
  <1>2. ran + 1 \in 0 .. MaxFixes /\ ran + 1 \in Ids /\ \A j \in Ids : j <= ran => j < ran + 1
    BY <1>1, RemoteFixesAssumption DEF Ids
  <1>3. host \in [Settings -> Values] /\ undo \in Undos
    <2>1. host \in [Settings -> Values] BY OfKept, Types
    <2> QED BY <2>1 DEF Undos
  <1>4. n \in Request /\ n.pc = "record" /\ n.id = ran + 1 /\ n.setting = s
        /\ n.undo = undo
    BY <1>2, <1>3 DEF Request, Undos
  <1>5. /\ req' = [req EXCEPT ![r] = n] /\ rows' = rows /\ req[r].pc = "apply"
        /\ host' = [host EXCEPT ![s] = "fixed"]
        /\ lost' = IF trusted /\ ~BeingUndone(s) THEN lost ELSE lost \cup {s}
    BY <1>0 DEF FixRuns, Goto
  <1>6. ~Undoing(n) /\ ~Undoing(req[r]) BY <1>4, <1>5 DEF Undoing
  <1>7. Agree'
    <2> HIDE DEF n
    <2> QED BY <1>4, <1>5, OfKept, AgreeStep
  <1>8. \A j \in Ids, t \in Settings, u \in Undos : ~RequestHolds(req[r], j, t, u)
    BY <1>5, IdleHolds
  <1>9. ASSUME NEW t \in Settings \ lost', t # s PROVE Stacked(t)'
    <2>1. \A j \in Ids, u \in Undos : ~RequestHolds(n, j, t, u)
      BY <1>4, <1>9 DEF RequestHolds
    <2>2. t \in Settings \ lost /\ host'[t] = host[t] BY <1>3, <1>5, <1>9
    <2> HIDE DEF n
    <2> QED BY <1>4, <1>5, <1>6, <1>8, <1>9, <2>1, <2>2, OfKept, OthersStacked
  <1>10. ASSUME s \notin lost' PROVE Stacked(s)'
    <2>1. trusted /\ ~BeingUndone(s) /\ s \in Settings \ lost /\ undo = host[s]
      BY <1>3, <1>5, <1>10
    <2>2. req'[r] = n /\ \A x \in Requests \ {r} : req'[x] = req[x]
      BY <1>5, OfKept, Types
    <2>3. \A x \in Requests : ~(Undoing(req'[x]) /\ req'[x].setting = s)
      <3> HIDE DEF n
      <3> QED BY <1>6, <2>1, <2>2 DEF BeingUndone, Undoing
    <2>4. \A j \in Ids, u \in Undos : Held(j, s, u)' <=>
            Held(j, s, u) \/ (j = ran + 1 /\ u = undo)
      <3> SUFFICES ASSUME NEW j \in Ids, NEW u \in Undos
                   PROVE  Held(j, s, u)' <=> Held(j, s, u) \/ (j = ran + 1 /\ u = undo)
        OBVIOUS
      <3>1. RequestHolds(n, j, s, u) <=> j = ran + 1 /\ u = undo
        BY <1>4 DEF RequestHolds
      <3>2. Held(j, s, u)' <=> \/ RowHolds(rows[j], s, u) \/ RequestHolds(n, j, s, u)
                \/ \E x \in Requests \ {r} : RequestHolds(req[x], j, s, u)
        <4> HIDE DEF n
        <4> QED BY <1>5, <2>2 DEF Held, RowHolds, RequestHolds
      <3>3. Held(j, s, u) <=> \/ RowHolds(rows[j], s, u)
                             \/ \E x \in Requests \ {r} : RequestHolds(req[x], j, s, u)
        BY <1>3, <1>8 DEF Held
      <3> QED BY <3>1, <3>2, <3>3
    <2>5. "original" \in Undos /\ host[s] \in {"original", "fixed"} BY <1>3 DEF Undos, Values
    <2>6. \E j \in Ids : Held(j, s, "original")'
      <3>1. CASE host[s] = "original" BY <1>2, <2>1, <2>4, <2>5, <3>1
      <3>2. CASE host[s] = "fixed" BY <2>1, <2>4, <2>5, <3>2, OfKept
      <3> QED BY <2>5, <3>1, <3>2
    <2>7. ASSUME NEW i \in Ids, NEW u \in Undos \ {"original"}, Held(i, s, u)'
          PROVE  \E j \in Ids : j < i /\ Held(j, s, "original")'
      <3>1. CASE Held(i, s, u) BY <2>1, <2>4, <2>5, <3>1, OfKept DEF Stacked
      <3>2. CASE i = ran + 1 /\ u = undo
        <4>1. PICK j \in Ids : Held(j, s, "original")
          BY <2>1, <2>5, <2>7, <3>2, OfKept
        <4>2. j <= ran
          <5>1. CASE RowHolds(rows[j], s, "original")
            <6>1. rows[j].st = "open" BY <5>1 DEF RowHolds
            <6>2. ~(j > ran) BY <6>1, OfKept, OfRows
            <6> QED BY <1>1, <6>2 DEF Ids
          <5>2. ASSUME NEW x \in Requests, RequestHolds(req[x], j, s, "original")
                PROVE  j <= ran
            <6>1. req[x].pc \in {"record", "undo", "clear"} /\ req[x].id = j
              BY <5>2 DEF RequestHolds
            <6>2. CASE req[x].pc = "record" BY <6>1, <6>2, OfKept, OfRequests
            <6>3. CASE req[x].pc \in {"undo", "clear"}
              <7>1. rows[j].st # "free" BY <6>1, <6>3, OfKept, OfRequests
              <7>2. ~(j > ran) BY <7>1, OfKept, OfRows
              <7> QED BY <1>1, <7>2 DEF Ids
            <6> QED BY <6>1, <6>2, <6>3
          <5> QED BY <4>1, <5>1, <5>2 DEF Held
        <4> QED BY <1>2, <2>4, <2>5, <3>2, <4>1, <4>2
      <3> QED BY <2>4, <2>7, <3>1, <3>2
    <2> QED BY <2>3, <2>6, <2>7 DEF Stacked, Undoing
  <1> QED BY <1>7, <1>9, <1>10 DEF KeptNext

\* The value goes from the request to the row.
LEMMA RecordKept ==
  ASSUME KeptInv, NEW r \in Requests, add_remote_fix(r)  PROVE KeptNext
  <1> DEFINE q == req[r]
             y == [st |-> "open", setting |-> q.setting, undo |-> q.undo,
                   confirmed |-> FALSE, died |-> FALSE]
             t == [rows EXCEPT ![q.id] = y]
  <1>1. /\ q.pc = "record" /\ rows' = t /\ UNCHANGED <<host, ran, lost>>
        /\ req' = [req EXCEPT ![r] = Idle]
    BY DEF add_remote_fix, Finish, Goto
  <1>2. q.id \in Ids /\ rows[q.id].st = "free" BY <1>1, OfKept, OfRequests
  <1>3. y.st = "open" /\ y.setting = q.setting /\ y.undo = q.undo OBVIOUS
  <1> HIDE DEF y
  <1>4. t[q.id] = y /\ \A i \in Ids \ {q.id} : t[i] = rows[i] BY <1>2, OfKept, Types
  <1> HIDE DEF t
  <1>5. Agree'
    <2>1. \A i \in Ids : rows[i].st # "free" =>
            rows'[i].setting = rows[i].setting /\ rows'[i].undo = rows[i].undo
      BY <1>1, <1>2, <1>4
    <2> QED BY <1>1, <2>1, Constants, OfKept, AgreeStep
  <1>6. ~Undoing(Idle) /\ \A j, s, u : ~RequestHolds(Idle, j, s, u)
    BY Constants, IdleHolds
  <1>7. ASSUME NEW s \in Settings \ lost' PROVE Stacked(s)'
    <2>1. ASSUME NEW j \in Ids, NEW u \in Undos
          PROVE  RowHolds(rows'[j], s, u) \/ RequestHolds(Idle, j, s, u)
                   <=> RowHolds(rows[j], s, u) \/ RequestHolds(q, j, s, u)
      <3>1. CASE j = q.id
        <4>1. ~RowHolds(rows[j], s, u) BY <1>2, <3>1 DEF RowHolds
        <4>2. RowHolds(rows'[j], s, u) <=> RequestHolds(q, j, s, u)
          BY <1>1, <1>3, <1>4, <3>1 DEF RowHolds, RequestHolds
        <4> QED BY <1>6, <4>1, <4>2
      <3>2. CASE j # q.id
        <4>1. ~RequestHolds(q, j, s, u) BY <3>2 DEF RequestHolds
        <4> QED BY <1>1, <1>4, <1>6, <3>2, <4>1
      <3> QED BY <3>1, <3>2
    <2>2. s \in Settings \ lost /\ host' = host BY <1>1, <1>7
    <2> QED BY <1>1, <1>6, <2>1, <2>2, Constants, OfKept, OthersStacked
  <1> QED BY <1>5, <1>7 DEF KeptNext

\* What such a step has to leave: the row or the request holds its value as before, and
\* who begins an undo is on top.
StillHeld(r, n, y, i) ==
  \A s \in Settings \ lost' :
    /\ host'[s] = "fixed" => \E j \in Ids : Held(j, s, "original")
    /\ s = req[r].setting =>
         ((y.st = "open" \/ Undoing(n)) <=> (rows[i].st = "open" \/ Undoing(req[r])))
    /\ s = req[r].setting /\ Undoing(n) /\ ~Undoing(req[r]) =>
         \A j \in Ids, u \in Undos : Held(j, s, u) => j <= i

\* A request that has a row in hand changes its mark, and keeps in mind what is in it.
LEMMA InHandKept ==
  ASSUME KeptInv, NEW r \in Requests, NEW n \in Request, NEW y \in Row,
         NEW i \in Ids, i = req[r].id, req[r].pc \in {"claim", "undo", "clear"},
         req' = [req EXCEPT ![r] = n], rows' = [rows EXCEPT ![i] = y],
         y.setting = rows[i].setting, y.undo = rows[i].undo,
         Undoing(n) => n.id = i /\ n.setting = req[r].setting /\ n.undo = req[r].undo,
         n.pc \in {"idle", "undo", "clear"},
         lost \subseteq lost',
         StillHeld(r, n, y, i)
  PROVE  KeptNext
  <1>1. /\ rows[i].setting = req[r].setting /\ rows[i].undo = req[r].undo
        /\ rows[i].st # "free"
    BY OfKept, OfRequests DEF Agree
  <1>2. rows'[i] = y /\ \A k \in Ids \ {i} : rows'[k] = rows[k] BY OfKept, Types
  <1>3. Agree'
    <2>1. n.pc \in {"claim", "undo", "clear"} => Undoing(n) BY DEF Undoing
    <2>2. n.pc \in {"claim", "undo", "clear"} =>
            rows'[n.id].setting = n.setting /\ rows'[n.id].undo = n.undo
      BY <1>1, <1>2, <2>1
    <2>3. \A k \in Ids : rows[k].st # "free" =>
            rows'[k].setting = rows[k].setting /\ rows'[k].undo = rows[k].undo
      BY <1>2
    <2> QED BY <2>2, <2>3, OfKept, AgreeStep
  <1>4. ASSUME NEW s \in Settings \ lost' PROVE Stacked(s)'
    <2>1. ASSUME NEW j \in Ids, NEW u \in Undos
          PROVE  RowHolds(rows'[j], s, u) \/ RequestHolds(n, j, s, u)
                   <=> RowHolds(rows[j], s, u) \/ RequestHolds(req[r], j, s, u)
      <3>1. /\ RequestHolds(n, j, s, u) <=>
                 Undoing(n) /\ j = i /\ s = req[r].setting /\ u = req[r].undo
            /\ RequestHolds(req[r], j, s, u) <=>
                 Undoing(req[r]) /\ j = i /\ s = req[r].setting /\ u = req[r].undo
        BY DEF RequestHolds, Undoing
      <3>2. CASE j = i
        <4>1. RowHolds(rows'[j], s, u) <=>
                y.st = "open" /\ s = req[r].setting /\ u = req[r].undo
          BY <1>1, <1>2, <3>2 DEF RowHolds
        <4>2. RowHolds(rows[j], s, u) <=>
                rows[i].st = "open" /\ s = req[r].setting /\ u = req[r].undo
          BY <1>1, <3>2 DEF RowHolds
        <4> QED BY <1>4, <3>1, <3>2, <4>1, <4>2 DEF StillHeld
      <3>3. CASE j # i BY <1>2, <3>1, <3>3
      <3> QED BY <3>2, <3>3
    <2>2. s \in Settings \ lost BY <1>4
    <2>3. Undoing(n) /\ n.setting = s =>
            \/ Undoing(req[r]) /\ req[r].setting = s /\ n.id = req[r].id
            \/ \A j \in Ids, u \in Undos : Held(j, s, u) => j <= n.id
      BY <1>4 DEF StillHeld
    <2>4. host'[s] = "fixed" => \E j \in Ids : Held(j, s, "original")
      BY <1>4 DEF StillHeld
    <2> QED BY <2>1, <2>2, <2>3, <2>4, OfKept, OthersStacked
  <1> QED BY <1>3, <1>4 DEF KeptNext

\* The rest of a row whose mark changes, and of a request that goes on.
LEMMA RowRest ==
  ASSUME NEW row \in Row, NEW st \in {"free", "open", "done"}
  PROVE  /\ [row EXCEPT !.st = st].setting = row.setting
         /\ [row EXCEPT !.st = st].undo = row.undo
         /\ [row EXCEPT !.confirmed = TRUE].setting = row.setting
         /\ [row EXCEPT !.confirmed = TRUE].undo = row.undo
         /\ [row EXCEPT !.died = TRUE].setting = row.setting
         /\ [row EXCEPT !.died = TRUE].undo = row.undo
  BY DEF Row

LEMMA RequestRest ==
  ASSUME NEW q \in Request,
         NEW pc \in {"idle", "apply", "record", "claim", "undo", "clear"}
  PROVE  [q EXCEPT !.pc = pc].setting = q.setting
  BY DEF Request

\* Whoever marks a row is on top, or the setting is lost.
LEMMA MarkKept ==
  ASSUME KeptInv, NEW r \in Requests, mark_remote_fix_undone(r)  PROVE KeptNext
  <1>0. PICK i \in Ids : i = req[r].id
    BY OfKept, OfRequests DEF mark_remote_fix_undone
  <1>1. req[r].pc = "claim" /\ host' = host /\ ~Undoing(req[r])
    BY DEF mark_remote_fix_undone, Undoing
  <1>2. /\ req[r] \in Request /\ rows[i] \in Row
        /\ rows[i].setting = req[r].setting /\ rows[i].undo = req[r].undo
    BY <1>0, <1>1, OfKept, Types DEF Agree
  <1>3. CASE rows[i].st = "open"
    <2> DEFINE n == [req[r] EXCEPT !.pc = "undo"]
               y == [rows[i] EXCEPT !.st = "done"]
    <2>1. n \in Request /\ n.pc = "undo" /\ n.id = i /\ n.undo = req[r].undo
          /\ n.setting = req[r].setting
      BY <1>0, <1>2, Moved, RequestRest
    <2>2. y \in Row /\ y.st = "done" /\ y.setting = rows[i].setting
          /\ y.undo = rows[i].undo
      BY <1>2, Marked, RowRest
    <2>3. /\ req' = [req EXCEPT ![r] = n] /\ rows' = [rows EXCEPT ![i] = y]
          /\ lost' = IF Newer(i) THEN lost \cup {req[r].setting} ELSE lost
      BY <1>0, <1>3 DEF mark_remote_fix_undone, Goto
    <2> HIDE DEF n, y
    <2>4. Undoing(n) BY <2>1 DEF Undoing
    <2>5. ASSUME NEW s \in Settings \ lost', s = req[r].setting,
                 NEW j \in Ids, NEW u \in Undos, Held(j, s, u)
          PROVE  j <= i
      <3>1. ~Newer(i) BY <2>3, <2>5
      <3>2. ~(j > i)
        <4>1. CASE RowHolds(rows[j], s, u)
          BY <1>2, <2>5, <3>1, <4>1 DEF RowHolds, Newer
        <4>2. ASSUME NEW x \in Requests, RequestHolds(req[x], j, s, u) PROVE ~(j > i)
          BY <1>2, <2>5, <3>1, <4>2 DEF RequestHolds, Newer
        <4> QED BY <2>5, <4>1, <4>2 DEF Held
      <3> QED BY <3>2, RemoteFixesAssumption DEF Ids
    <2>6. lost \subseteq lost' BY <2>3
    <2>7. StillHeld(r, n, y, i)
      BY <1>1, <1>3, <2>4, <2>5, <2>6, OfKept DEF StillHeld
    <2> QED BY <1>0, <1>1, <2>1, <2>2, <2>3, <2>6, <2>7, InHandKept
  <1>4. CASE rows[i].st # "open"
    <2>1. req' = [req EXCEPT ![r] = Idle] /\ rows' = rows /\ lost' = lost
      BY <1>0, <1>4 DEF mark_remote_fix_undone, Finish, Goto
    <2> QED BY <1>1, <2>1, Constants, PassiveKept
  <1> QED BY <1>3, <1>4

LEMMA UndoFailsKept ==
  ASSUME KeptInv, NEW r \in Requests, UndoFails(r)  PROVE KeptNext
  <1> DEFINE n == [req[r] EXCEPT !.pc = "clear"]
  <1>1. req[r].pc = "undo" /\ Undoing(req[r]) BY DEF UndoFails, Undoing
  <1>0. PICK i \in Ids : i = req[r].id BY <1>1, OfKept, OfRequests
  <1>2. /\ req[r] \in Request /\ rows[i] \in Row /\ rows[i].st = "done"
        /\ req[r].undo \in Values
    BY <1>0, <1>1, OfKept, Types, OfRequests
  <1>3. n \in Request /\ n.pc = "clear" /\ n.id = i /\ n.undo = req[r].undo
        /\ n.setting = req[r].setting
    BY <1>0, <1>2, Moved, RequestRest
  <1>4. /\ req' = [req EXCEPT ![r] = n] /\ rows' = [rows EXCEPT ![i] = rows[i]]
        /\ lost' = lost
    BY OfKept, Types DEF UndoFails, Goto
  <1> HIDE DEF n
  <1>5. Undoing(n) BY <1>3 DEF Undoing
  <1>6. ASSUME NEW s \in Settings \ lost', host'[s] = "fixed"
        PROVE  \E j \in Ids : Held(j, s, "original")
    <2>1. s \in Settings \ lost BY <1>4, <1>6
    <2>2. CASE host[s] = "fixed" BY <2>1, <2>2, OfKept
    <2>3. CASE host[s] # "fixed"
      <3>1. s = req[r].setting /\ req[r].undo = "fixed"
        BY <1>6, <2>3, OfKept, Types DEF UndoFails
      <3>2. Held(i, s, "fixed")
        BY <1>0, <1>1, <3>1 DEF Held, RequestHolds
      <3>3. "fixed" \in Undos \ {"original"} BY DEF Undos, Values
      <3> QED BY <2>1, <3>2, <3>3, OfKept DEF Stacked
    <2> QED BY <2>2, <2>3
  <1>7. StillHeld(r, n, rows[i], i)
    BY <1>1, <1>5, <1>6 DEF StillHeld
  <1> QED BY <1>0, <1>1, <1>2, <1>3, <1>4, <1>7, InHandKept

LEMMA ClearKept ==
  ASSUME KeptInv, NEW r \in Requests, clear_remote_fix_undone(r)  PROVE KeptNext
  <1>1. req[r].pc = "clear" /\ Undoing(req[r]) BY DEF clear_remote_fix_undone, Undoing
  <1>0. PICK i \in Ids : i = req[r].id BY <1>1, OfKept, OfRequests
  <1> DEFINE y == [rows[i] EXCEPT !.st = "open"]
  <1>2. rows[i] \in Row BY OfKept, Types
  <1>3. y \in Row /\ y.st = "open" /\ y.setting = rows[i].setting /\ y.undo = rows[i].undo
    BY <1>2, Marked, RowRest
  <1>4. /\ req' = [req EXCEPT ![r] = Idle] /\ rows' = [rows EXCEPT ![i] = y]
        /\ UNCHANGED <<host, lost>>
    BY <1>0 DEF clear_remote_fix_undone, Finish, Goto
  <1>5. ~Undoing(Idle) BY Constants DEF Undoing
  <1> HIDE DEF y
  <1>6. StillHeld(r, Idle, y, i)
    BY <1>1, <1>3, <1>4, <1>5, OfKept DEF StillHeld
  <1> QED BY <1>0, <1>1, <1>3, <1>4, <1>5, <1>6, Constants, InHandKept

\* The request that dies takes the value along: its setting is lost, others are not.
LEMMA AbortKept ==
  ASSUME KeptInv, NEW r \in Requests, Abort(r)  PROVE KeptNext
  <1>1. /\ req' = [req EXCEPT ![r] = Idle] /\ host' = host
        /\ rows' = IF req[r].pc \in {"undo", "clear"}
                     THEN [rows EXCEPT ![req[r].id].died = TRUE] ELSE rows
        /\ lost' = IF req[r].pc \in {"record", "undo", "clear"}
                     THEN lost \cup {req[r].setting} ELSE lost
    BY DEF Abort, Finish, Goto
  <1>2. ~Undoing(Idle) BY Constants DEF Undoing
  <1>3. CASE Undoing(req[r])
    <2>1. req[r].pc \in {"undo", "clear"} BY <1>3 DEF Undoing
    <2>2. PICK i \in Ids : i = req[r].id BY <2>1, OfKept, OfRequests
    <2> DEFINE y == [rows[i] EXCEPT !.died = TRUE]
    <2>3. rows[i] \in Row BY OfKept, Types
    <2>4. y \in Row /\ y.setting = rows[i].setting /\ y.undo = rows[i].undo
      BY <2>3, Died, RowRest
    <2>5. rows' = [rows EXCEPT ![i] = y] /\ lost' = lost \cup {req[r].setting}
      BY <1>1, <2>1, <2>2
    <2> HIDE DEF y
    <2>6. \A s \in Settings \ lost' :
            s # req[r].setting /\ (host'[s] = "fixed" => \E j \in Ids : Held(j, s, "original"))
      BY <1>1, <2>5, OfKept
    <2>7. StillHeld(r, Idle, y, i) BY <2>6 DEF StillHeld
    <2> QED BY <1>1, <1>2, <2>1, <2>2, <2>4, <2>5, <2>7, Constants, InHandKept
  <1>4. CASE req[r].pc = "record"
    <2>1. rows' = rows /\ lost' = lost \cup {req[r].setting} BY <1>1, <1>4
    <2>2. Agree' BY <1>1, <2>1, Constants, OfKept, AgreeStep
    <2>3. ASSUME NEW s \in Settings \ lost' PROVE Stacked(s)'
      <3>1. \A j \in Ids, u \in Undos :
              ~RequestHolds(Idle, j, s, u) /\ ~RequestHolds(req[r], j, s, u)
        BY <2>1, <2>3, Constants, IdleHolds DEF RequestHolds
      <3>2. s \in Settings \ lost BY <2>1, <2>3
      <3> QED BY <1>1, <1>2, <2>1, <3>1, <3>2, Constants, OfKept, OthersStacked
    <2> QED BY <2>2, <2>3 DEF KeptNext
  <1>5. CASE ~Undoing(req[r]) /\ req[r].pc # "record"
    <2>1. rows' = rows /\ lost' = lost BY <1>1, <1>5 DEF Undoing
    <2>2. req[r].pc \in {"idle", "apply", "claim"}
      BY <1>5, OfKept, Types DEF Request, Undoing
    <2> QED BY <1>1, <2>1, <2>2, Constants, PassiveKept
  <1> QED BY <1>3, <1>4, <1>5

\* The top of the stack goes; the next one found what the host is set to.
LEMMA UndoRunsKept ==
  ASSUME KeptInv, NEW r \in Requests, UndoRuns(r)  PROVE KeptNext
  <1>1. req[r].pc = "undo" /\ Undoing(req[r]) BY DEF UndoRuns, Undoing
  <1>0. PICK i \in Ids : i = req[r].id BY <1>1, OfKept, OfRequests
  <1>x. PICK x \in Settings : x = req[r].setting BY OfKept, Types DEF Request
  <1> DEFINE y == [rows[i] EXCEPT !.confirmed = TRUE]
  <1>2. rows[i] \in Row /\ rows[i].st = "done" /\ req[r].undo \in Values
    BY <1>0, <1>1, OfKept, Types, OfRequests
  <1>3. y \in Row /\ y.st = "done" /\ y.setting = rows[i].setting /\ y.undo = rows[i].undo
    BY <1>2, Confirmed, RowRest
  <1>4. /\ req' = [req EXCEPT ![r] = Idle] /\ rows' = [rows EXCEPT ![i] = y]
        /\ lost' = lost /\ host' = [host EXCEPT ![x] = req[r].undo]
    BY <1>0, <1>x DEF UndoRuns, Finish, Goto
  <1> HIDE DEF y
  <1>5. ~Undoing(Idle) /\ \A j, s, u : ~RequestHolds(Idle, j, s, u)
    BY Constants, IdleHolds
  <1>6. rows'[i] = y /\ \A k \in Ids \ {i} : rows'[k] = rows[k]
    BY <1>4, OfKept, Types
  <1>7. req'[r] = Idle /\ \A v \in Requests \ {r} : req'[v] = req[v]
    BY <1>4, OfKept, Types
  <1>8. Agree'
    <2>1. \A k \in Ids : rows[k].st # "free" =>
            rows'[k].setting = rows[k].setting /\ rows'[k].undo = rows[k].undo
      BY <1>3, <1>6
    <2> QED BY <1>4, <2>1, Constants, OfKept, AgreeStep
  <1>9. \A k \in Ids : \A s, u : RowHolds(rows'[k], s, u) <=> RowHolds(rows[k], s, u)
    BY <1>2, <1>3, <1>6 DEF RowHolds
  <1>10. ASSUME NEW s \in Settings \ lost', s # x PROVE Stacked(s)'
    <2>1. \A j \in Ids, u \in Undos : ~RequestHolds(req[r], j, s, u)
      BY <1>x, <1>10 DEF RequestHolds
    <2>2. s \in Settings \ lost /\ host'[s] = host[s] BY <1>4, <1>10, OfKept, Types
    <2> QED BY <1>4, <1>5, <1>9, <2>1, <2>2, Constants, OfKept, OthersStacked
  <1>11. ASSUME x \notin lost' PROVE Stacked(x)'
    <2>1. x \in Settings \ lost BY <1>4, <1>11
    <2>2. \A j \in Ids, u \in Undos : Held(j, x, u)' => Held(j, x, u)
      <3> SUFFICES ASSUME NEW j \in Ids, NEW u \in Undos, Held(j, x, u)'
                   PROVE  Held(j, x, u)
        OBVIOUS
      <3>1. CASE RowHolds(rows'[j], x, u) BY <1>9, <3>1 DEF Held
      <3>2. ASSUME NEW v \in Requests, RequestHolds(req'[v], j, x, u) PROVE Held(j, x, u)
        BY <1>5, <1>7, <3>2 DEF Held
      <3> QED BY <3>1, <3>2 DEF Held, RowHolds, RequestHolds
    <2>3. \A j \in Ids \ {i}, u \in Undos : Held(j, x, u) => Held(j, x, u)'
      <3> SUFFICES ASSUME NEW j \in Ids \ {i}, NEW u \in Undos, Held(j, x, u)
                   PROVE  Held(j, x, u)'
        OBVIOUS
      <3>1. CASE RowHolds(rows[j], x, u)
        <4>1. RowHolds(rows'[j], x, u) BY <1>9, <3>1
        <4> QED BY <4>1 DEF Held, RowHolds
      <3>2. ASSUME NEW v \in Requests, RequestHolds(req[v], j, x, u) PROVE Held(j, x, u)'
        <4>1. v # r BY <1>0, <3>2 DEF RequestHolds
        <4>2. RequestHolds(req'[v], j, x, u) BY <1>7, <3>2, <4>1
        <4> QED BY <4>2 DEF Held, RequestHolds
      <3> QED BY <3>1, <3>2 DEF Held
    <2>4. "original" \in Undos /\ req[r].undo \in Undos /\ \A u \in Values : u \in Undos
      BY <1>2 DEF Undos, Values
    <2>5. \A j \in Ids, u \in Undos : Held(j, x, u) => j <= i
      BY <1>0, <1>1, <1>x, <2>1, OfKept DEF Stacked
    <2>6. ASSUME NEW k \in Ids, NEW u \in Undos \ {"original"}, Held(k, x, u)
          PROVE  \E j \in Ids : j < k /\ Held(j, x, "original")'
      <3>1. PICK j \in Ids : j < k /\ Held(j, x, "original")
        BY <2>1, <2>6, OfKept DEF Stacked
      <3>2. j # i BY <2>5, <2>6, <3>1, RemoteFixesAssumption DEF Ids
      <3> QED BY <2>3, <2>4, <3>1, <3>2
    <2>7. ASSUME host'[x] = "fixed" PROVE \E j \in Ids : Held(j, x, "original")'
      <3>1. req[r].undo = "fixed" BY <1>4, <2>7, OfKept, Types
      <3>2. Held(i, x, "fixed") BY <1>0, <1>1, <1>x, <3>1 DEF Held, RequestHolds
      <3>3. "fixed" \in Undos \ {"original"} BY DEF Undos, Values
      <3> QED BY <2>6, <3>2, <3>3
    <2>8. ASSUME NEW k \in Ids, NEW u \in Undos \ {"original"}, Held(k, x, u)'
          PROVE  \E j \in Ids : j < k /\ Held(j, x, "original")'
      BY <2>2, <2>6, <2>8
    <2>9. ASSUME NEW v \in Requests, NEW k \in Ids, NEW u \in Undos,
                 Undoing(req'[v]), req'[v].setting = x, Held(k, x, u)'
          PROVE  k <= req'[v].id
      <3>1. v # r BY <1>5, <1>7, <2>9
      <3>2. req'[v] = req[v] /\ Held(k, x, u) BY <1>7, <2>2, <2>9, <3>1
      <3> QED BY <2>1, <2>9, <3>2, OfKept DEF Stacked
    <2> QED BY <2>7, <2>8, <2>9 DEF Stacked, Undoing
  <1> QED BY <1>8, <1>10, <1>11 DEF KeptNext

\* At first every setting has its original value.
THEOREM InitKept == Init => KeptInv
  <1> SUFFICES ASSUME Init PROVE KeptInv OBVIOUS
  <1>1. /\ \A r \in Requests : req[r] = Idle
        /\ \A s \in Settings : host[s] = "original"
        /\ \A i \in Ids : rows[i].st = "free"
    BY Constants DEF Init
  <1>2. \A i \in Ids : \A s, u : ~Held(i, s, u)
    BY <1>1, Constants DEF Held, RowHolds, RequestHolds
  <1>3. \A r \in Requests : ~Undoing(req[r]) /\ req[r].pc = "idle"
    BY <1>1, Constants DEF Undoing
  <1>4. \A s \in Settings : Stacked(s) BY <1>1, <1>2, <1>3 DEF Stacked
  <1>5. Agree BY <1>3 DEF Agree
  <1> QED BY <1>4, <1>5, InitInv DEF KeptInv

\* Every step keeps the undos of a setting stacked, or the setting is lost.
THEOREM NextKept == KeptInv /\ [Next]_vars => KeptInv'
  <1> SUFFICES ASSUME KeptInv, [Next]_vars PROVE KeptInv' OBVIOUS
  <1>1. Inv' BY OfKept, NextInv
  <1>2. CASE UNCHANGED vars
    <2>1. Agree' BY <1>2, OfKept DEF vars, Agree
    <2>2. ASSUME NEW s \in Settings \ lost' PROVE Stacked(s)'
      BY <1>2, <2>2, OfKept DEF vars, Stacked, Held, RowHolds, RequestHolds, Undoing
    <2> QED BY <1>1, <2>1, <2>2 DEF KeptInv
  <1>3. ASSUME NEW r \in Requests, Fix(r) \/ Undo(r) \/ Abort(r) PROVE KeptNext
    BY <1>3, FixStartKept, FixRunsKept, FixStopsKept, RecordKept, UndoReadKept, MarkKept,
       UndoRunsKept, UndoFailsKept, ClearKept, AbortKept DEF Fix, Undo
  <1>4. CASE Next
    <2>1. KeptNext BY <1>3, <1>4 DEF Next
    <2> QED BY <1>1, <2>1 DEF KeptInv, KeptNext
  <1> QED BY <1>2, <1>4

\* So the undos of a setting that is not lost are always stacked.
THEOREM SpecKept == Spec => []KeptInv
  BY InitKept, NextKept, PTL DEF Spec

\* OriginalKept: a setting that is fixed on the host can be put back by somebody, but for
\* the settings that a lost answer, a death or an undo out of order has spoilt
\* (api_fix_remote, api_fix_remote_undo, undo_action).
THEOREM OriginalIsKept == Spec => []OriginalKept
  <1>1. KeptInv => OriginalKept
    <2> SUFFICES ASSUME KeptInv, NEW s \in Settings \ lost, host[s] = "fixed"
                 PROVE  \/ \E i \in Ids : /\ rows[i].st = "open" /\ rows[i].setting = s
                                          /\ rows[i].undo = "original"
                        \/ \E r \in Requests : /\ req[r].pc \in {"record", "undo", "clear"}
                                               /\ req[r].setting = s
                                               /\ req[r].undo = "original"
      BY DEF OriginalKept
    <2> QED BY OfKept DEF Held, RowHolds, RequestHolds
  <1> QED BY <1>1, SpecKept, PTL

=============================================================================
