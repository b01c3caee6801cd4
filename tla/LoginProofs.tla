---------------------------- MODULE LoginProofs -----------------------------
(***************************************************************************)
(* What guards the login: the second factor, and the limit on attempts.    *)
(*                                                                         *)
(* First what TwoFactor promises as long as no write was torn, for any     *)
(* number of requests, setups, steps and recovery codes.  None of the      *)
(* three promises is inductive: that a code is new depends on which        *)
(* secrets the pending requests have read, and on the counter being ahead  *)
(* of every code of the active secret but the one whose activation still   *)
(* has to record it.  TwoFactorInv says so.  Then RateLimit.               *)
(***************************************************************************)
EXTENDS TwoFactor, RateLimit, FiniteSetTheorems, TLAPS

\* What each stage of a request carries, v being the verified secrets.
Carries(q, v) ==
  /\ q.pc \in {"count", "seal"} =>
       q.seen.secret # 0 /\ q.code \in TotpCodes(q.seen.secret)
  /\ q.pc = "count" => fresh(q.code, q.seen)
  /\ q.pc = "recover" => q.code \in Codes /\ q.code \in q.seen.codes
  /\ q.pc = "activate" =>
       q.seen.pending \in v \ {0} /\ q.code \in TotpCodes(q.seen.pending)
  /\ q.pc = "counter" => q.code \in Codes /\ q.code[1] = "totp"

Base == TypeOK /\ \A r \in Requests : Carries(req[r], verified)

\* The secret has been drawn, and before the one that is pending.
Older(s) == s <= issued /\ (row.pending # 0 => s < row.pending)

\* The pending secret is the last one drawn, and nothing of it is in use yet.
PendingIsNew ==
  /\ row.pending \in {0, issued}
  /\ Older(row.secret)
  /\ \A r \in Requests :
       req[r].pc \in {"count", "seal", "counter"} => Older(req[r].seen.secret)
  /\ \A c \in used : c[2] <= issued /\ (c[1] = "totp" => Older(c[2]))

\* The activation whose code has yet to be recorded has the only code of its
\* secret that was accepted, and nobody else has read that secret.
Recording ==
  \A q \in Requests : req[q].pc = "counter" =>
    /\ req[q].seen.secret = req[q].code[2]
    /\ \A c \in used : c[1] = "totp" /\ c[2] = req[q].code[2] => c = req[q].code
    /\ \A x \in Requests \ {q} :
         req[x].pc \in {"count", "seal", "counter"} =>
           req[x].seen.secret # req[q].seen.secret

\* The counter is ahead of the codes of the active secret.
Consumed ==
  \A c \in used : c[1] = "totp" /\ c[2] = row.secret =>
    \/ c[3] <= row.last
    \/ \E q \in Requests : req[q].pc = "counter" /\ req[q].code = c

Intact ==
  /\ PendingIsNew /\ Recording /\ Consumed
  /\ reused = {}
  /\ row.codes = (IF issued = 0 THEN {} ELSE RecoveryCodes(issued)) \ used
  /\ row.enabled => row.secret \in verified \ {0}

TwoFactorInv == Base /\ (~torn => Intact)

-----------------------------------------------------------------------------

USE TwoFactorAssumption

\* A code is a tuple of its kind, its secret and its number.
LEMMA CodeShape ==
  ASSUME NEW c \in Codes
  PROVE  /\ c[2] \in Secrets \ {0}
         /\ \/ c[1] = "totp" /\ c[3] \in Steps /\ c = <<"totp", c[2], c[3]>>
            \/ c[1] = "recovery" /\ c \in RecoveryCodes(c[2])
BY DEF Codes, RecoveryCodes, TotpCodes

LEMMA TotpShape ==
  ASSUME NEW s \in Secrets, NEW c \in TotpCodes(s)
  PROVE  /\ c[1] = "totp" /\ c[2] = s /\ c[3] \in Steps
         /\ c = <<"totp", s, c[3]>>
         /\ s # 0 => c \in Codes
BY DEF Codes, TotpCodes

LEMMA RecoveryShape ==
  ASSUME NEW s \in Secrets, NEW c \in RecoveryCodes(s)
  PROVE  c[1] = "recovery" /\ c[2] = s /\ (s # 0 => c \in Codes)
BY DEF Codes, RecoveryCodes

\* A code that is shown belongs to the secret it was looked up for.
LEMMA MatchShape ==
  ASSUME NEW s \in Secrets, NEW c \in Codes, now \in 1 .. MaxStep,
         find_matching_step(s, c) # {}
  PROVE  c \in TotpCodes(s)
BY DEF find_matching_step, TotpCodes, Steps

LEMMA NoSecretType == 0 \in Secrets
BY DEF Secrets

LEMMA BlankType == Blank \in Row /\ Idle \in Request
BY DEF Blank, Idle, Row, Request, Secrets, Never

LEMMA RecoveryType ==
  ASSUME NEW s \in Secrets
  PROVE  RecoveryCodes(s) \in SUBSET UNION {RecoveryCodes(t) : t \in Secrets}
OBVIOUS

\* A request goes to its next stage, the others stay where they are.
LEMMA GotoBase ==
  ASSUME Base, NEW r \in Requests, NEW q \in Request, Goto(r, q),
         Carries(q, verified'), verified \subseteq verified'
  PROVE  /\ req' \in [Requests -> Request]
         /\ req'[r] = q
         /\ \A x \in Requests \ {r} : req'[x] = req[x]
         /\ \A x \in Requests : Carries(req'[x], verified')
<1>1. /\ req' \in [Requests -> Request]
      /\ req'[r] = q
      /\ \A x \in Requests \ {r} : req'[x] = req[x]
  BY DEF Goto, Base, TypeOK
<1>2. ASSUME NEW x \in Requests \ {r} PROVE Carries(req'[x], verified')
  BY <1>1 DEF Base, Carries
<1> QED BY <1>1, <1>2

LEMMA IdleCarries == \A v : Carries(Idle, v)
BY DEF Carries, Idle

LEMMA AcceptType ==
  ASSUME Base, NEW code \in Codes, Accept(code)
  PROVE  used' \subseteq Codes /\ reused' \subseteq Codes
BY DEF Accept, Base, TypeOK

\* A request that has its code ends, or goes on to disable.
LEMMA PassedBase ==
  ASSUME Base, NEW r \in Requests, Passed(r), UNCHANGED verified
  PROVE  \E q \in Request :
           /\ Goto(r, q) /\ q.pc \in {"idle", "off"} /\ Carries(q, verified')
<1> DEFINE off == [Idle EXCEPT !.pc = "off", !.op = "disable"]
<1>1. off \in Request /\ off.pc = "off" /\ Carries(off, verified')
  BY BlankType DEF Idle, Request, Carries
<1>2. Idle \in Request /\ Idle.pc = "idle" /\ Carries(Idle, verified')
  BY BlankType, IdleCarries DEF Idle
<1> QED BY <1>1, <1>2 DEF Passed, Finish

-----------------------------------------------------------------------------

LEMMA InitBase == Init => Base
<1> SUFFICES ASSUME Init PROVE Base
  OBVIOUS
<1>1. row \in Row
  <2>1. 1 \in Secrets
    BY DEF Secrets
  <2>2. RecoveryCodes(1) \in SUBSET UNION {RecoveryCodes(s) : s \in Secrets}
    BY <2>1, RecoveryType
  <2>3. CASE row = Blank
    BY <2>3, BlankType
  <2>4. CASE row = [Blank EXCEPT !.enabled = TRUE, !.secret = 1, !.sealed = FALSE,
                                 !.codes = RecoveryCodes(1)]
    BY <2>1, <2>2, <2>4, BlankType DEF Row
  <2> QED BY <2>3, <2>4 DEF Init
<1>2. now \in 1 .. MaxStep /\ issued \in Secrets
  BY DEF Init, Secrets
<1>6. verified \subseteq Secrets
  BY DEF Init, Secrets
<1>7. used = {} /\ reused = {} /\ torn \in BOOLEAN
  BY Zenon DEF Init
<1>3. req \in [Requests -> Request]
  BY BlankType DEF Init
<1>4. TypeOK
  BY <1>1, <1>2, <1>3, <1>6, <1>7 DEF TypeOK
<1>5. ASSUME NEW r \in Requests PROVE Carries(req[r], verified)
  BY IdleCarries DEF Init
<1> QED BY <1>4, <1>5 DEF Base

LEMMA TickBase ==
  ASSUME Base, Tick PROVE Base'
BY DEF Base, TypeOK, Tick, Carries, fresh

LEMMA SetupBase ==
  ASSUME Base, setup_2fa PROVE Base'
<1>1. issued' \in Secrets
  BY DEF setup_2fa, Base, TypeOK, Secrets
<1>3. row' \in Row
  BY <1>1, RecoveryType DEF setup_2fa, Base, TypeOK, Row
<1>2. UNCHANGED <<now, req, torn, used, reused, verified>>
  BY DEF setup_2fa, Quiet
<1> QED BY <1>1, <1>2, <1>3 DEF Base, TypeOK

LEMMA DisableStatusBase ==
  ASSUME Base, NEW r \in Requests, DisableStatus(r) PROVE Base'
<1> DEFINE q == [Idle EXCEPT !.pc = IF row.enabled THEN "verify" ELSE "off",
                             !.op = "disable"]
<1>1. UNCHANGED <<row, now, issued, torn, used, reused, verified>> /\ Goto(r, q)
  BY DEF DisableStatus, Quiet
<1>2. q \in Request /\ Carries(q, verified')
  BY BlankType DEF Idle, Request, Carries
<1>3. req' \in [Requests -> Request] /\ \A x \in Requests : Carries(req'[x], verified')
  BY <1>1, <1>2, GotoBase
<1> QED BY <1>1, <1>3 DEF Base, TypeOK

\* Where a verification goes from the row it has read.
LEMMA VerifyReadNext ==
  ASSUME Base, NEW r \in Requests, NEW code \in Codes, VerifyRead(r, code)
  PROVE  \E q \in Request :
    /\ Goto(r, q) /\ Carries(q, verified)
    /\ q.pc \in {"idle", "off", "count", "recover"}
    /\ q.pc = "count" => q.seen.secret = row.secret
<1>1. row \in Row /\ req[r] \in Request /\ now \in 1 .. MaxStep
  BY DEF Base, TypeOK
<1> DEFINE shown == find_matching_step(row.secret, code) # {} /\ fresh(code, row)
           op == IF req[r].pc = "verify" THEN "disable" ELSE "login"
           idle == Idle
           off == [req[r] EXCEPT !.pc = "off"]
           count == [pc |-> "count", op |-> op, code |-> code,
                     seen |-> [Blank EXCEPT !.secret = row.secret,
                                            !.last = row.last,
                                            !.sealed = row.sealed]]
           recover == [pc |-> "recover", op |-> op, code |-> code,
                       seen |-> [Blank EXCEPT !.codes = row.codes]]
<1>2. \/ Goto(r, idle) \/ Goto(r, off)
      \/ row.secret # 0 /\ shown /\ Goto(r, count)
      \/ code \in row.codes /\ Goto(r, recover)
  BY DEF VerifyRead, Finish
<1>4. CASE Goto(r, idle)
  BY <1>4, BlankType, IdleCarries DEF Idle
<1>5. CASE Goto(r, off)
  <2>1. off \in Request /\ off.pc = "off"
    BY <1>1 DEF Request
  <2>2. Carries(off, verified)
    BY <2>1 DEF Carries
  <2> QED BY <1>5, <2>1, <2>2
<1>6. CASE row.secret # 0 /\ shown /\ Goto(r, count)
  <2>1. count \in Request /\ count.pc = "count" /\ count.code = code
        /\ count.seen.secret = row.secret /\ count.seen.last = row.last
    <3>1. [Blank EXCEPT !.secret = row.secret, !.last = row.last,
                        !.sealed = row.sealed] \in Row
      BY <1>1, BlankType DEF Row, Blank
    <3>2. op \in {"login", "disable", "activate"}
      OBVIOUS
    <3>3. count \in Request
      BY <3>1, <3>2 DEF Request
    <3> QED BY <3>3 DEF Blank
  <2>2. code \in TotpCodes(row.secret)
    BY <1>1, <1>6, MatchShape DEF Row
  <2>3. fresh(code, count.seen)
    BY <1>6, <2>1 DEF fresh
  <2>4. Carries(count, verified)
    BY <1>6, <2>1, <2>2, <2>3 DEF Carries
  <2> QED BY <1>6, <2>1, <2>4
<1>7. CASE code \in row.codes /\ Goto(r, recover)
  <2>1. recover \in Request /\ recover.pc = "recover" /\ recover.code = code
        /\ recover.seen.codes = row.codes
    <3>1. [Blank EXCEPT !.codes = row.codes] \in Row
      BY <1>1, BlankType DEF Row, Blank
    <3>2. op \in {"login", "disable", "activate"}
      OBVIOUS
    <3>3. recover \in Request
      BY <3>1, <3>2 DEF Request
    <3> QED BY <3>3 DEF Blank
  <2>2. Carries(recover, verified)
    BY <1>7, <2>1 DEF Carries
  <2> QED BY <1>7, <2>1, <2>2
<1> QED BY <1>2, <1>4, <1>5, <1>6, <1>7

LEMMA VerifyReadBase ==
  ASSUME Base, NEW r \in Requests, NEW code \in Codes, VerifyRead(r, code)
  PROVE  Base'
<1>1. UNCHANGED <<row, now, issued, used, reused, verified>> /\ torn' \in BOOLEAN
  BY DEF VerifyRead, Quiet, Base, TypeOK
<1>2. PICK q \in Request : Goto(r, q) /\ Carries(q, verified)
  BY VerifyReadNext
<1>3. req' \in [Requests -> Request] /\ \A x \in Requests : Carries(req'[x], verified')
  BY <1>1, <1>2, GotoBase
<1> QED BY <1>1, <1>3 DEF Base, TypeOK

\* What the consumed step says of the code, and where the request goes.
LEMMA VerifyCountNext ==
  ASSUME Base, NEW r \in Requests, VerifyCount(r)
  PROVE  /\ req[r].code \in TotpCodes(req[r].seen.secret)
         /\ req[r].seen.secret \in Secrets \ {0}
         /\ req[r].code \in Codes
         /\ req[r].code[3] \in Steps
         /\ \E q \in Request :
              /\ Goto(r, q) /\ Carries(q, verified')
              /\ q.pc \in {"idle", "off", "seal"}
              /\ q.pc = "seal" => q.seen = req[r].seen
<1>1. req[r] \in Request /\ Carries(req[r], verified) /\ verified' = verified
  BY DEF Base, TypeOK, VerifyCount
<1>2. /\ req[r].code \in TotpCodes(req[r].seen.secret)
      /\ req[r].seen.secret \in Secrets \ {0}
  BY <1>1 DEF Carries, VerifyCount, Request, Row
<1>3. req[r].code \in Codes /\ req[r].code[3] \in Steps
  BY <1>2, TotpShape
<1> DEFINE seal == [req[r] EXCEPT !.pc = "seal"]
<1>4. seal \in Request /\ seal.pc = "seal" /\ seal.seen = req[r].seen
      /\ seal.code = req[r].code
  BY <1>1 DEF Request
<1>5. Carries(seal, verified')
  BY <1>1, <1>2, <1>4 DEF Carries
<1>6. Passed(r) \/ Goto(r, seal)
  BY DEF VerifyCount
<1> QED BY <1>1, <1>2, <1>3, <1>4, <1>5, <1>6, PassedBase

LEMMA VerifyCountBase ==
  ASSUME Base, NEW r \in Requests, VerifyCount(r) PROVE Base'
<1>1. PICK q \in Request : Goto(r, q) /\ Carries(q, verified')
  BY VerifyCountNext
<1>2. UNCHANGED <<now, issued, verified>> /\ torn' \in BOOLEAN
  BY DEF VerifyCount, Base, TypeOK
<1>3. req' \in [Requests -> Request] /\ \A x \in Requests : Carries(req'[x], verified')
  BY <1>1, <1>2, GotoBase
<1>4. row' \in Row
  BY VerifyCountNext DEF VerifyCount, Base, TypeOK, Row
<1>5. used' \subseteq Codes /\ reused' \subseteq Codes
  BY VerifyCountNext, AcceptType DEF VerifyCount
<1> QED BY <1>2, <1>3, <1>4, <1>5 DEF Base, TypeOK

LEMMA VerifySealBase ==
  ASSUME Base, NEW r \in Requests, VerifySeal(r) PROVE Base'
<1>1. UNCHANGED <<now, issued, used, reused, verified>> /\ torn' \in BOOLEAN
  BY DEF VerifySeal, Base, TypeOK, Quiet
<1>2. PICK q \in Request : Goto(r, q) /\ Carries(q, verified')
  BY <1>1, PassedBase DEF VerifySeal
<1>3. req' \in [Requests -> Request] /\ \A x \in Requests : Carries(req'[x], verified')
  BY <1>1, <1>2, GotoBase
<1>4. row' \in Row
  BY DEF VerifySeal, Base, TypeOK, Row, Request
<1> QED BY <1>1, <1>3, <1>4 DEF Base, TypeOK

LEMMA VerifyRecoverBase ==
  ASSUME Base, NEW r \in Requests, VerifyRecover(r) PROVE Base'
<1>1. UNCHANGED <<now, issued, verified>> /\ torn' \in BOOLEAN
  BY DEF VerifyRecover, Base, TypeOK
<1>2. PICK q \in Request : Goto(r, q) /\ Carries(q, verified')
  BY <1>1, PassedBase DEF VerifyRecover
<1>3. req' \in [Requests -> Request] /\ \A x \in Requests : Carries(req'[x], verified')
  BY <1>1, <1>2, GotoBase
<1>4. row' \in Row
  BY DEF VerifyRecover, Base, TypeOK, Row, Request
<1>5. req[r].code \in Codes
  BY DEF VerifyRecover, Base, Carries
<1>6. used' \subseteq Codes /\ reused' \subseteq Codes
  BY <1>5, AcceptType DEF VerifyRecover
<1> QED BY <1>1, <1>3, <1>4, <1>6 DEF Base, TypeOK

LEMMA DisableWriteBase ==
  ASSUME Base, NEW r \in Requests, DisableWrite(r) PROVE Base'
<1>1. UNCHANGED <<now, issued, torn, used, reused, verified>> /\ Goto(r, Idle)
  BY DEF DisableWrite, Quiet, Finish
<1>2. req' \in [Requests -> Request] /\ \A x \in Requests : Carries(req'[x], verified')
  BY <1>1, GotoBase, BlankType, IdleCarries
<1>3. row' \in Row
  BY NoSecretType DEF DisableWrite, Base, TypeOK, Row
<1> QED BY <1>1, <1>2, <1>3 DEF Base, TypeOK

LEMMA ActivateReadNext ==
  ASSUME Base, NEW r \in Requests, NEW code \in Codes, ActivateRead(r, code)
  PROVE  \E q \in Request :
           Goto(r, q) /\ Carries(q, verified') /\ q.pc = "activate"
<1> DEFINE q == [pc |-> "activate", op |-> "activate", code |-> code,
                 seen |-> [Blank EXCEPT !.pending = row.pending]]
<1>1. row \in Row /\ now \in 1 .. MaxStep
  BY DEF Base, TypeOK
<1>2. q \in Request /\ q.pc = "activate" /\ q.code = code
      /\ q.seen.pending = row.pending
  BY <1>1, BlankType DEF Request, Row, Blank
<1>3. code \in TotpCodes(row.pending)
  BY <1>1, MatchShape DEF ActivateRead, Row
<1>4. row.pending \in verified' \ {0}
  BY <1>1 DEF ActivateRead, Row
<1>5. Carries(q, verified')
  BY <1>2, <1>3, <1>4 DEF Carries
<1> QED BY <1>2, <1>5 DEF ActivateRead

LEMMA ActivateReadBase ==
  ASSUME Base, NEW r \in Requests, NEW code \in Codes, ActivateRead(r, code)
  PROVE  Base'
<1>1. UNCHANGED <<row, now, issued, used, reused, torn>>
  BY DEF ActivateRead
<1>2. verified' = verified \cup {row.pending} /\ verified' \subseteq Secrets
  BY DEF ActivateRead, Base, TypeOK, Row
<1>3. PICK q \in Request : Goto(r, q) /\ Carries(q, verified')
  BY ActivateReadNext
<1>4. req' \in [Requests -> Request] /\ \A x \in Requests : Carries(req'[x], verified')
  BY <1>2, <1>3, GotoBase
<1> QED BY <1>1, <1>2, <1>4 DEF Base, TypeOK

\* The activation's code, and the stage in which it is still to be recorded.
LEMMA ActivateWriteNext ==
  ASSUME Base, NEW r \in Requests, ActivateWrite(r)
  PROVE  /\ req[r].seen.pending \in verified \ {0}
         /\ req[r].code \in TotpCodes(req[r].seen.pending)
         /\ req[r].code \in Codes
         /\ \E q \in Request :
              /\ Goto(r, q) /\ Carries(q, verified') /\ q.pc = "counter"
              /\ q.code = req[r].code /\ q.seen.secret = row.pending
<1>1. row \in Row /\ req[r] \in Request /\ Carries(req[r], verified)
      /\ verified' = verified /\ req[r].pc = "activate"
      /\ req[r].seen.pending \in Secrets
  BY DEF Base, TypeOK, ActivateWrite, Request, Row
<1>2. /\ req[r].seen.pending \in verified \ {0}
      /\ req[r].code \in TotpCodes(req[r].seen.pending)
  BY <1>1 DEF Carries
<1>3. req[r].code \in Codes /\ req[r].code[1] = "totp"
  BY <1>1, <1>2, TotpShape
<1> DEFINE q == [req[r] EXCEPT !.pc = "counter",
                   !.seen = [Blank EXCEPT !.secret = row.pending,
                                          !.last = row.last]]
<1>4. q \in Request /\ q.pc = "counter" /\ q.code = req[r].code
      /\ q.seen.secret = row.pending
  BY <1>1, BlankType DEF Request, Row, Blank
<1>5. Carries(q, verified')
  BY <1>3, <1>4 DEF Carries
<1> QED BY <1>2, <1>3, <1>4, <1>5 DEF ActivateWrite

LEMMA ActivateWriteBase ==
  ASSUME Base, NEW r \in Requests, ActivateWrite(r) PROVE Base'
<1>1. UNCHANGED <<now, issued, verified>> /\ torn' \in BOOLEAN
  BY DEF ActivateWrite, Base, TypeOK
<1>2. PICK q \in Request : Goto(r, q) /\ Carries(q, verified')
  BY ActivateWriteNext
<1>3. req' \in [Requests -> Request] /\ \A x \in Requests : Carries(req'[x], verified')
  BY <1>1, <1>2, GotoBase
<1>4. row' \in Row
  BY NoSecretType DEF ActivateWrite, Base, TypeOK, Row
<1>5. used' \subseteq Codes /\ reused' \subseteq Codes
  BY ActivateWriteNext, AcceptType DEF ActivateWrite
<1> QED BY <1>1, <1>3, <1>4, <1>5 DEF Base, TypeOK

LEMMA ActivateCountBase ==
  ASSUME Base, NEW r \in Requests, ActivateCount(r) PROVE Base'
<1>1. UNCHANGED <<now, issued, used, reused, verified>> /\ torn' \in BOOLEAN
      /\ Goto(r, Idle)
  BY DEF ActivateCount, Base, TypeOK, Quiet, Finish
<1>2. req' \in [Requests -> Request] /\ \A x \in Requests : Carries(req'[x], verified')
  BY <1>1, GotoBase, BlankType, IdleCarries
<1>3. req[r].code \in Codes /\ req[r].code[1] = "totp"
  BY DEF ActivateCount, Base, Carries
<1>4. req[r].code[3] \in Steps
  BY <1>3, CodeShape
<1>5. row' \in Row
  BY <1>4 DEF ActivateCount, Base, TypeOK, Row
<1> QED BY <1>1, <1>2, <1>5 DEF Base, TypeOK

LEMMA AbortBase ==
  ASSUME Base, NEW r \in Requests, Abort(r) PROVE Base'
<1>1. UNCHANGED <<row, now, issued, used, reused, verified>> /\ torn' \in BOOLEAN
      /\ Goto(r, Idle)
  BY DEF Abort, Base, TypeOK, Quiet, Finish
<1>2. req' \in [Requests -> Request] /\ \A x \in Requests : Carries(req'[x], verified')
  BY <1>1, GotoBase, BlankType, IdleCarries
<1> QED BY <1>1, <1>2 DEF Base, TypeOK

LEMMA NextBase ==
  ASSUME Base, [Next]_vars PROVE Base'
<1>1. CASE UNCHANGED vars
  <2>1. UNCHANGED <<row, now, issued, req, used, reused, verified, torn>>
    BY <1>1 DEF vars
  <2>2. TypeOK'
    BY <2>1 DEF Base, TypeOK
  <2>3. \A r \in Requests : Carries(req[r], verified)'
    BY <2>1 DEF Base, Carries, fresh
  <2> QED BY <2>2, <2>3 DEF Base
<1>2. CASE Tick
  BY <1>2, TickBase
<1>3. CASE setup_2fa
  BY <1>3, SetupBase
<1>4. ASSUME NEW r \in Requests, Verify(r) PROVE Base'
  BY <1>4, VerifyReadBase, VerifyCountBase, VerifySealBase, VerifyRecoverBase
     DEF Verify
<1>5. ASSUME NEW r \in Requests, Activate(r) PROVE Base'
  BY <1>5, ActivateReadBase, ActivateWriteBase, ActivateCountBase DEF Activate
<1>6. ASSUME NEW r \in Requests, Disable(r) PROVE Base'
  BY <1>6, DisableStatusBase, DisableWriteBase DEF Disable
<1> QED BY <1>1, <1>2, <1>3, <1>4, <1>5, <1>6, AbortBase DEF Next

-----------------------------------------------------------------------------

LEMMA InitIntact == Init => Intact
<1> SUFFICES ASSUME Init PROVE Intact
  OBVIOUS
<1>1. used = {} /\ reused = {} /\ \A r \in Requests : req[r].pc = "idle"
  BY DEF Init, Idle
<1>2. CASE row = Blank /\ issued = 0
  <2>1. /\ row.pending = 0 /\ row.secret = 0 /\ row.codes = {}
        /\ row.enabled = FALSE
    BY <1>2 DEF Blank
  <2>2. PendingIsNew /\ Recording /\ Consumed
    BY <1>1, <1>2, <2>1 DEF PendingIsNew, Recording, Consumed, Older
  <2> QED BY <1>1, <1>2, <2>1, <2>2 DEF Intact
<1>3. CASE /\ row = [Blank EXCEPT !.enabled = TRUE, !.secret = 1, !.sealed = FALSE,
                                  !.codes = RecoveryCodes(1)]
           /\ issued = 1 /\ verified = {1}
  <2>1. row.pending = 0 /\ row.secret = 1 /\ row.codes = RecoveryCodes(1)
    BY <1>3 DEF Blank
  <2>2. PendingIsNew /\ Recording /\ Consumed
    BY <1>1, <1>3, <2>1 DEF PendingIsNew, Recording, Consumed, Older
  <2> QED BY <1>1, <1>3, <2>1, <2>2 DEF Intact
<1> QED BY <1>2, <1>3 DEF Init

\* A request that moves on without writing disturbs nothing, if what it has
\* read belongs to no activation under way.
LEMMA ReqIntact ==
  ASSUME Base, Intact, NEW r \in Requests, NEW q \in Request, Goto(r, q),
         Carries(q, verified'), verified \subseteq verified',
         UNCHANGED <<row, issued, used, reused>>,
         req[r].pc # "counter", q.pc # "counter",
         q.pc \in {"count", "seal"} =>
           /\ Older(q.seen.secret)
           /\ \A x \in Requests : req[x].pc = "counter" =>
                req[x].seen.secret # q.seen.secret
  PROVE  Intact'
<1>1. /\ req'[r] = q
      /\ \A x \in Requests \ {r} : req'[x] = req[x]
  BY GotoBase
<1>2. PendingIsNew'
  BY <1>1 DEF Intact, PendingIsNew, Older
<1>3. Recording'
  BY <1>1 DEF Intact, Recording
<1>4. Consumed'
  BY <1>1 DEF Intact, Consumed
<1> QED BY <1>2, <1>3, <1>4 DEF Intact

LEMMA SetupIntact ==
  ASSUME Base, Intact, setup_2fa PROVE Intact'
<1>1. /\ row' = [row EXCEPT !.pending = issued + 1, !.codes = RecoveryCodes(issued + 1)]
      /\ issued' = issued + 1 /\ issued \in Secrets
      /\ UNCHANGED <<req, used, reused, verified>>
  BY DEF setup_2fa, Quiet, Base, TypeOK
<1>2. /\ row'.pending = issued + 1 /\ row'.codes = RecoveryCodes(issued + 1)
      /\ row'.secret = row.secret /\ row'.last = row.last
      /\ row'.enabled = row.enabled /\ row.secret \in Secrets
  BY <1>1 DEF Base, TypeOK, Row
<1>3. \A s \in Secrets : Older(s) => Older(s)'
  BY <1>1, <1>2 DEF Older, Secrets
<1>4. PendingIsNew'
  <2>1. Older(row.secret)'
    BY <1>2, <1>3 DEF Intact, PendingIsNew
  <2>2. \A r \in Requests :
          req[r].pc \in {"count", "seal", "counter"} => Older(req[r].seen.secret)'
    BY <1>1, <1>3 DEF Intact, PendingIsNew, Base, TypeOK, Request, Row
  <2>3. ASSUME NEW c \in used
        PROVE  c[2] <= issued + 1 /\ (c[1] = "totp" => Older(c[2])')
    <3>1. c[2] \in Secrets /\ c[2] <= issued /\ (c[1] = "totp" => Older(c[2]))
      BY CodeShape DEF Intact, PendingIsNew, Base, TypeOK
    <3> QED BY <1>1, <1>3, <3>1 DEF Secrets
  <2> QED BY <1>1, <1>2, <2>1, <2>2, <2>3 DEF PendingIsNew
<1>5. Recording' /\ Consumed'
  BY <1>1, <1>2 DEF Intact, Recording, Consumed
<1>6. row'.codes = (IF issued' = 0 THEN {} ELSE RecoveryCodes(issued')) \ used'
  <2>1. issued + 1 # 0
    BY <1>1 DEF Secrets
  <2>2. ASSUME NEW c \in RecoveryCodes(issued + 1), c \in used PROVE FALSE
    <3>1. c[2] = issued + 1 /\ c[2] <= issued
      BY <2>2 DEF RecoveryCodes, Intact, PendingIsNew
    <3> QED BY <1>1, <3>1 DEF Secrets
  <2> QED BY <1>1, <1>2, <2>1, <2>2
<1>7. row'.enabled => row'.secret \in verified' \ {0}
  BY <1>1, <1>2 DEF Intact
<1> QED BY <1>1, <1>4, <1>5, <1>6, <1>7 DEF Intact

LEMMA VerifyReadIntact ==
  ASSUME Base, Intact, NEW r \in Requests, NEW code \in Codes,
         VerifyRead(r, code), ~torn'
  PROVE  Intact'
<1>1. /\ UNCHANGED <<row, issued, used, reused, verified>>
      /\ req[r].pc # "counter"
      /\ \A x \in Requests : req[x].pc # "counter"
  BY DEF VerifyRead, Quiet
<1>2. PICK q \in Request :
        /\ Goto(r, q) /\ Carries(q, verified)
        /\ q.pc \in {"idle", "off", "count", "recover"}
        /\ q.pc = "count" => q.seen.secret = row.secret
  BY VerifyReadNext
<1>3. q.pc \in {"count", "seal"} => Older(q.seen.secret)
  BY <1>2 DEF Intact, PendingIsNew
<1> QED BY <1>1, <1>2, <1>3, ReqIntact

\* The code of the step that is consumed is new, and from now on old.
LEMMA VerifyCountIntact ==
  ASSUME Base, Intact, NEW r \in Requests, VerifyCount(r), ~torn'
  PROVE  Intact'
<1> DEFINE code == req[r].code
           s == req[r].seen.secret
<1>1. /\ UNCHANGED <<now, issued, verified>>
      /\ row' = [row EXCEPT !.last = code[3]]
      /\ row.last = req[r].seen.last /\ row.secret = s
      /\ req[r].pc = "count" /\ Accept(code)
  BY DEF VerifyCount
<1>2. /\ code \in TotpCodes(s) /\ s \in Secrets \ {0} /\ code \in Codes
      /\ code[3] \in Steps /\ fresh(code, req[r].seen)
      /\ code[1] = "totp" /\ code[2] = s
  <2>1. fresh(code, req[r].seen)
    BY <1>1 DEF Base, Carries
  <2> QED BY <2>1, VerifyCountNext, TotpShape
<1>3. PICK q \in Request :
        /\ Goto(r, q) /\ Carries(q, verified')
        /\ q.pc \in {"idle", "off", "seal"}
        /\ q.pc = "seal" => q.seen = req[r].seen
  BY VerifyCountNext
<1>4. /\ req'[r] = q
      /\ \A x \in Requests \ {r} : req'[x] = req[x]
  BY <1>1, <1>3, GotoBase
<1>5. /\ row'.pending = row.pending /\ row'.codes = row.codes
      /\ row'.secret = row.secret /\ row'.last = code[3]
      /\ row'.enabled = row.enabled /\ row.last \in Steps \cup {Never}
  BY <1>1 DEF Base, TypeOK, Row
<1>6. \A x \in Requests : req[x].pc = "counter" => req[x].seen.secret # s
  BY <1>1 DEF Intact, Recording
<1>7. ASSUME NEW c \in used, c[1] = "totp", c[2] = s
      PROVE  c[3] <= row.last
  <2>1. ~\E x \in Requests : req[x].pc = "counter" /\ req[x].code = c
    BY <1>6, <1>7 DEF Intact, Recording
  <2> QED BY <1>1, <1>7, <2>1 DEF Intact, Consumed
<1>8. ASSUME NEW c \in used, c[1] = "totp", c[2] = s
      PROVE  c[3] < code[3]
  <2>1. c[3] <= row.last /\ c[3] \in Steps
    BY <1>7, <1>8, CodeShape DEF Base, TypeOK
  <2>2. row.last = Never \/ code[3] > row.last
    BY <1>1, <1>2 DEF fresh
  <2> QED BY <1>2, <1>5, <2>1, <2>2 DEF Steps, Never
<1>9. code \notin used /\ used' = used \cup {code} /\ reused' = {}
  <2>1. code \notin used
    BY <1>2, <1>8 DEF Steps
  <2> QED BY <1>1, <2>1 DEF Accept, Intact
<1>10. PendingIsNew'
  <2>1. Older(s) /\ \A x : Older(x)' <=> Older(x)
    BY <1>1, <1>5 DEF Intact, PendingIsNew, Older
  <2>2. \A x \in Requests :
          req'[x].pc \in {"count", "seal", "counter"} => Older(req'[x].seen.secret)
    BY <1>1, <1>3, <1>4, <2>1 DEF Intact, PendingIsNew
  <2>3. s <= issued
    BY <2>1 DEF Older
  <2> QED BY <1>1, <1>2, <1>5, <1>9, <2>1, <2>2, <2>3 DEF Intact, PendingIsNew
<1>11. Recording'
  <2> SUFFICES ASSUME NEW x \in Requests, req'[x].pc = "counter"
               PROVE  /\ req'[x].seen.secret = req'[x].code[2]
                      /\ \A c \in used' : c[1] = "totp" /\ c[2] = req'[x].code[2]
                           => c = req'[x].code
                      /\ \A y \in Requests \ {x} :
                           req'[y].pc \in {"count", "seal", "counter"} =>
                             req'[y].seen.secret # req'[x].seen.secret
    BY DEF Recording
  <2>1. x # r /\ req'[x] = req[x]
    BY <1>3, <1>4
  <2>2. req[x].seen.secret # s /\ req[x].seen.secret = req[x].code[2]
    BY <1>6, <2>1 DEF Intact, Recording
  <2> QED BY <1>2, <1>3, <1>4, <1>9, <2>1, <2>2 DEF Intact, Recording
<1>12. Consumed'
  <2> SUFFICES ASSUME NEW c \in used', c[1] = "totp", c[2] = s
               PROVE  c[3] <= code[3]
    BY <1>1, <1>5 DEF Consumed
  <2>1. CASE c = code
    BY <1>2, <2>1 DEF Steps
  <2>2. CASE c \in used
    <3>1. c[3] < code[3] /\ c[3] \in Steps
      BY <1>8, <2>2, CodeShape DEF Base, TypeOK
    <3> QED BY <1>2, <3>1 DEF Steps
  <2> QED BY <1>9, <2>1, <2>2
<1>13. row'.codes = (IF issued' = 0 THEN {} ELSE RecoveryCodes(issued')) \ used'
  <2>1. code \notin RecoveryCodes(issued)
    BY <1>2, RecoveryShape DEF Base, TypeOK
  <2> QED BY <1>1, <1>5, <1>9, <2>1 DEF Intact
<1>14. row'.enabled => row'.secret \in verified' \ {0}
  BY <1>1, <1>5 DEF Intact
<1> QED BY <1>9, <1>10, <1>11, <1>12, <1>13, <1>14 DEF Intact

LEMMA VerifySealIntact ==
  ASSUME Base, Intact, NEW r \in Requests, VerifySeal(r), ~torn'
  PROVE  Intact'
<1>1. /\ UNCHANGED <<issued, used, reused, verified>>
      /\ req[r].pc = "seal" /\ row.secret = req[r].seen.secret
      /\ row' = [row EXCEPT !.secret = req[r].seen.secret, !.sealed = TRUE]
  BY DEF VerifySeal, Quiet
<1>2. /\ row'.pending = row.pending /\ row'.codes = row.codes
      /\ row'.secret = row.secret /\ row'.last = row.last
      /\ row'.enabled = row.enabled
  BY <1>1 DEF Base, TypeOK, Row
<1>3. PICK q \in Request :
        Goto(r, q) /\ q.pc \in {"idle", "off"} /\ Carries(q, verified')
  BY <1>1, PassedBase DEF VerifySeal
<1>4. /\ req'[r] = q
      /\ \A x \in Requests \ {r} : req'[x] = req[x]
  BY <1>1, <1>3, GotoBase
<1>5. PendingIsNew'
  BY <1>1, <1>2, <1>3, <1>4 DEF Intact, PendingIsNew, Older
<1>6. Recording'
  BY <1>1, <1>3, <1>4 DEF Intact, Recording
<1>7. Consumed'
  BY <1>1, <1>2, <1>4 DEF Intact, Consumed
<1> QED BY <1>1, <1>2, <1>5, <1>6, <1>7 DEF Intact

\* The recovery code that is used up was valid, hence never used.
LEMMA VerifyRecoverIntact ==
  ASSUME Base, Intact, NEW r \in Requests, VerifyRecover(r), ~torn'
  PROVE  Intact'
<1> DEFINE code == req[r].code
<1>1. /\ UNCHANGED <<issued, verified>>
      /\ req[r].pc = "recover" /\ row.codes = req[r].seen.codes
      /\ row' = [row EXCEPT !.codes = req[r].seen.codes \ {code}]
      /\ Accept(code)
  BY DEF VerifyRecover
<1>2. /\ row'.pending = row.pending /\ row'.codes = row.codes \ {code}
      /\ row'.secret = row.secret /\ row'.last = row.last
      /\ row'.enabled = row.enabled
  BY <1>1 DEF Base, TypeOK, Row
<1>3. PICK q \in Request :
        Goto(r, q) /\ q.pc \in {"idle", "off"} /\ Carries(q, verified')
  BY <1>1, PassedBase DEF VerifyRecover
<1>4. /\ req'[r] = q
      /\ \A x \in Requests \ {r} : req'[x] = req[x]
  BY <1>1, <1>3, GotoBase
<1>5. code \in row.codes
  BY <1>1 DEF Base, Carries
<1>6. code \in RecoveryCodes(issued) /\ code \notin used
  BY <1>5 DEF Intact
<1>7. code[1] = "recovery" /\ code[2] = issued /\ issued \in Nat
  BY <1>6, RecoveryShape DEF Base, TypeOK, Secrets
<1>8. used' = used \cup {code} /\ reused' = {}
  BY <1>1, <1>6 DEF Accept, Intact
<1>9. PendingIsNew'
  BY <1>1, <1>2, <1>3, <1>4, <1>7, <1>8 DEF Intact, PendingIsNew, Older
<1>10. Recording'
  BY <1>1, <1>3, <1>4, <1>7, <1>8 DEF Intact, Recording
<1>11. Consumed'
  BY <1>1, <1>2, <1>4, <1>7, <1>8 DEF Intact, Consumed
<1>12. row'.codes = (IF issued' = 0 THEN {} ELSE RecoveryCodes(issued')) \ used'
  BY <1>1, <1>2, <1>8 DEF Intact
<1> QED BY <1>1, <1>2, <1>8, <1>9, <1>10, <1>11, <1>12 DEF Intact

LEMMA DisableWriteIntact ==
  ASSUME Base, Intact, NEW r \in Requests, DisableWrite(r)
  PROVE  Intact'
<1>1. /\ UNCHANGED <<issued, used, reused, verified>> /\ Goto(r, Idle)
      /\ row' = [row EXCEPT !.enabled = FALSE, !.secret = 0, !.sealed = TRUE,
                            !.pending = 0]
      /\ req[r].pc = "off"
  BY DEF DisableWrite, Quiet, Finish
<1>2. /\ row'.pending = 0 /\ row'.codes = row.codes
      /\ row'.secret = 0 /\ row'.last = row.last /\ row'.enabled = FALSE
  BY <1>1 DEF Base, TypeOK, Row
<1>3. /\ req'[r] = Idle
      /\ \A x \in Requests \ {r} : req'[x] = req[x]
  BY <1>1, GotoBase, BlankType, IdleCarries
<1>4. PendingIsNew'
  BY <1>1, <1>2, <1>3 DEF Intact, PendingIsNew, Older, Idle, Base, TypeOK, Secrets
<1>5. Recording'
  BY <1>1, <1>3 DEF Intact, Recording, Idle
<1>6. Consumed'
  BY <1>1, <1>2, CodeShape DEF Consumed, Base, TypeOK
<1> QED BY <1>1, <1>2, <1>4, <1>5, <1>6 DEF Intact

LEMMA ActivateReadIntact ==
  ASSUME Base, Intact, NEW r \in Requests, NEW code \in Codes,
         ActivateRead(r, code)
  PROVE  Intact'
<1>1. /\ UNCHANGED <<row, issued, used, reused>> /\ req[r].pc = "idle"
      /\ verified \subseteq verified'
  BY DEF ActivateRead
<1> QED BY <1>1, ActivateReadNext, ReqIntact

\* The secret that becomes active is the one whose code was checked, and
\* nothing of it was in use before.
LEMMA ActivateWriteIntact ==
  ASSUME Base, Intact, NEW r \in Requests, ActivateWrite(r), ~torn'
  PROVE  Intact'
<1> DEFINE code == req[r].code
           p == row.pending
<1>1. /\ UNCHANGED <<issued, verified>>
      /\ req[r].pc = "activate" /\ p = req[r].seen.pending
      /\ row' = [row EXCEPT !.enabled = TRUE, !.secret = p, !.sealed = TRUE,
                            !.pending = 0]
      /\ Accept(code)
  BY DEF ActivateWrite
<1>2. /\ row'.pending = 0 /\ row'.codes = row.codes
      /\ row'.secret = p /\ row'.last = row.last /\ row'.enabled
      /\ p \in Secrets /\ issued \in Secrets /\ issued' = issued
  BY <1>1 DEF Base, TypeOK, Row
<1>3. /\ p \in verified \ {0} /\ code \in TotpCodes(p) /\ code \in Codes
      /\ code[1] = "totp" /\ code[2] = p
  BY <1>1, <1>2, ActivateWriteNext, TotpShape
<1>4. PICK q \in Request :
        /\ Goto(r, q) /\ Carries(q, verified') /\ q.pc = "counter"
        /\ q.code = code /\ q.seen.secret = p
  BY ActivateWriteNext
<1>5. /\ req'[r] = q
      /\ \A x \in Requests \ {r} : req'[x] = req[x]
  BY <1>1, <1>4, GotoBase
<1>6. p = issued /\ (\A c \in used : c[1] = "totp" => c[2] < p)
      /\ \A x \in Requests :
           req[x].pc \in {"count", "seal", "counter"} => req[x].seen.secret < p
  BY <1>3 DEF Intact, PendingIsNew, Older
<1>7. code \notin used /\ used' = used \cup {code} /\ reused' = {}
  <2>1. code \notin used
    BY <1>2, <1>3, <1>6 DEF Secrets
  <2> QED BY <1>1, <2>1 DEF Accept, Intact
<1>8. PendingIsNew'
  <2>1. p <= issued
    BY <1>2, <1>6 DEF Secrets
  <2>2. \A x \in Requests :
          req'[x].pc \in {"count", "seal", "counter"} =>
            req'[x].seen.secret <= issued
    BY <1>4, <1>5, <2>1 DEF Intact, PendingIsNew, Older
  <2>3. \A c \in used' : c[2] <= issued
    BY <1>3, <1>7, <2>1 DEF Intact, PendingIsNew
  <2> QED BY <1>1, <1>2, <2>1, <2>2, <2>3 DEF PendingIsNew, Older
<1>9. Recording'
  <2> SUFFICES ASSUME NEW x \in Requests, req'[x].pc = "counter"
               PROVE  /\ req'[x].seen.secret = req'[x].code[2]
                      /\ \A c \in used' : c[1] = "totp" /\ c[2] = req'[x].code[2]
                           => c = req'[x].code
                      /\ \A y \in Requests \ {x} :
                           req'[y].pc \in {"count", "seal", "counter"} =>
                             req'[y].seen.secret # req'[x].seen.secret
    BY DEF Recording
  <2>1. \A y \in Requests :
          req[y].pc \in {"count", "seal", "counter"} => req[y].seen.secret # p
    BY <1>2, <1>6 DEF Secrets
  <2>2. CASE x = r
    <3>1. \A c \in used : c[1] = "totp" => c[2] # p
      BY <1>2, <1>6 DEF Secrets
    <3> QED BY <1>3, <1>4, <1>5, <1>7, <2>1, <2>2, <3>1
  <2>3. CASE x # r
    <3>1. req'[x] = req[x] /\ req[x].seen.secret = req[x].code[2]
          /\ req[x].seen.secret # p
      BY <1>5, <2>1, <2>3 DEF Intact, Recording
    <3> QED BY <1>3, <1>4, <1>5, <1>7, <3>1 DEF Intact, Recording
  <2> QED BY <2>2, <2>3
<1>10. Consumed'
  <2> SUFFICES ASSUME NEW c \in used', c[1] = "totp", c[2] = p
               PROVE  \E x \in Requests : req'[x].pc = "counter" /\ req'[x].code = c
    BY <1>2 DEF Consumed
  <2>1. c = code
    BY <1>2, <1>6, <1>7 DEF Secrets
  <2> QED BY <1>4, <1>5, <2>1
<1>11. row'.codes = (IF issued' = 0 THEN {} ELSE RecoveryCodes(issued')) \ used'
  <2>1. code \notin RecoveryCodes(issued)
    BY <1>2, <1>3, RecoveryShape
  <2> QED BY <1>1, <1>2, <1>7, <2>1 DEF Intact
<1> QED BY <1>1, <1>2, <1>3, <1>7, <1>8, <1>9, <1>10, <1>11 DEF Intact

\* The code of an activation is the only one of its secret, and is recorded.
LEMMA ActivateCountIntact ==
  ASSUME Base, Intact, NEW r \in Requests, ActivateCount(r), ~torn'
  PROVE  Intact'
<1> DEFINE code == req[r].code
<1>1. /\ UNCHANGED <<issued, used, reused, verified>> /\ Goto(r, Idle)
      /\ row' = [row EXCEPT !.last = code[3]]
      /\ req[r].pc = "counter" /\ row.secret = req[r].seen.secret
  BY DEF ActivateCount, Quiet, Finish
<1>2. /\ row'.pending = row.pending /\ row'.codes = row.codes
      /\ row'.secret = row.secret /\ row'.last = code[3]
      /\ row'.enabled = row.enabled
  BY <1>1 DEF Base, TypeOK, Row
<1>3. /\ req'[r] = Idle
      /\ \A x \in Requests \ {r} : req'[x] = req[x]
  BY <1>1, GotoBase, BlankType, IdleCarries
<1>4. PendingIsNew'
  BY <1>1, <1>2, <1>3 DEF Intact, PendingIsNew, Older, Idle
<1>5. Recording'
  BY <1>1, <1>3 DEF Intact, Recording, Idle
<1>6. Consumed'
  <2> SUFFICES ASSUME NEW c \in used, c[1] = "totp", c[2] = row.secret
               PROVE  c[3] <= code[3]
    BY <1>1, <1>2 DEF Consumed
  <2>1. c = code
    BY <1>1 DEF Intact, Recording
  <2>2. c[3] \in Steps
    BY CodeShape DEF Base, TypeOK
  <2> QED BY <2>1, <2>2 DEF Steps
<1> QED BY <1>1, <1>2, <1>4, <1>5, <1>6 DEF Intact

LEMMA NextIntact ==
  ASSUME Base, Intact, [Next]_vars, ~torn' PROVE Intact'
<1>1. CASE UNCHANGED vars \/ Tick
  <2>1. UNCHANGED <<row, issued, req, used, reused, verified>>
    BY <1>1 DEF vars, Tick
  <2>2. PendingIsNew' /\ Recording' /\ Consumed'
    BY <2>1 DEF Intact, PendingIsNew, Older, Recording, Consumed
  <2> QED BY <2>1, <2>2 DEF Intact
<1>2. CASE setup_2fa
  BY <1>2, SetupIntact
<1>3. ASSUME NEW r \in Requests, Verify(r) PROVE Intact'
  BY <1>3, VerifyReadIntact, VerifyCountIntact, VerifySealIntact,
     VerifyRecoverIntact DEF Verify
<1>4. ASSUME NEW r \in Requests, Activate(r) PROVE Intact'
  BY <1>4, ActivateReadIntact, ActivateWriteIntact, ActivateCountIntact
     DEF Activate
<1>5. ASSUME NEW r \in Requests, DisableStatus(r) PROVE Intact'
  <2> DEFINE q == [Idle EXCEPT !.pc = IF row.enabled THEN "verify" ELSE "off",
                               !.op = "disable"]
  <2>1. q \in Request /\ Carries(q, verified') /\ q.pc \in {"verify", "off"}
    BY BlankType DEF Idle, Request, Carries
  <2>2. /\ UNCHANGED <<row, issued, used, reused, verified>> /\ Goto(r, q)
        /\ req[r].pc = "idle"
    BY <1>5 DEF DisableStatus, Quiet
  <2> QED BY <2>1, <2>2, ReqIntact
<1>6. ASSUME NEW r \in Requests, DisableWrite(r) PROVE Intact'
  BY <1>6, DisableWriteIntact
<1>7. ASSUME NEW r \in Requests, Abort(r) PROVE Intact'
  <2>1. /\ UNCHANGED <<row, issued, used, reused, verified>> /\ Goto(r, Idle)
        /\ req[r].pc # "counter"
    BY <1>7 DEF Abort, Quiet, Finish
  <2>2. Idle.pc = "idle" /\ Idle \in Request /\ Carries(Idle, verified')
    BY BlankType, IdleCarries DEF Idle
  <2>3. verified \subseteq verified'
    BY <2>1
  <2>4. Idle.pc # "counter" /\ Idle.pc \notin {"count", "seal"}
    BY <2>2
  <2> QED BY <2>1, <2>2, <2>3, <2>4, ReqIntact
<1> QED BY <1>1, <1>2, <1>3, <1>4, <1>5, <1>6, <1>7 DEF Next, Disable

-----------------------------------------------------------------------------

\* Once a write is torn the history says so for good.
LEMMA TornStays ==
  ASSUME Base, [Next]_vars, torn PROVE torn'
BY DEF vars, Next, Tick, setup_2fa, Verify, Activate, Disable, DisableStatus,
       VerifyRead, VerifyCount, VerifySeal, VerifyRecover, DisableWrite,
       ActivateRead, ActivateWrite, ActivateCount, Abort

\* Every reachable state of TOTPManager's row and its pending requests
\* satisfies the invariant below.
THEOREM TwoFactorInvariant == Spec => []TwoFactorInv
<1>1. Init => TwoFactorInv
  BY InitBase, InitIntact DEF TwoFactorInv
<1>2. TwoFactorInv /\ [Next]_vars => TwoFactorInv'
  BY NextBase, NextIntact, TornStays DEF TwoFactorInv
<1> QED BY <1>1, <1>2, PTL DEF Spec

\* The users row and the requests of the second factor keep their types.
THEOREM TwoFactorType == Spec => []TypeOK
BY TwoFactorInvariant, PTL DEF TwoFactorInv, Base

\* No code is accepted twice by TOTPManager.verify and activate_2fa, whatever
\* the number of concurrent requests, while no write was based on a stale row.
THEOREM OneTime == Spec => []OneTimeUnlessTorn
<1>1. TwoFactorInv => OneTimeUnlessTorn
  BY DEF TwoFactorInv, Intact, OneTimeUnlessTorn
<1> QED BY <1>1, TwoFactorInvariant, PTL

\* Under the same condition the valid recovery codes are exactly the unused
\* ones of the last setup_2fa.
THEOREM CodesExact == Spec => []CodesUnlessTorn
<1>1. TwoFactorInv => CodesUnlessTorn
  BY DEF TwoFactorInv, Intact, CodesUnlessTorn
<1> QED BY <1>1, TwoFactorInvariant, PTL

\* Under the same condition 2FA that is on has a secret whose first code was
\* verified: activate_2fa activates what it checked.
THEOREM SecretVerified == Spec => []VerifiedUnlessTorn
<1>1. TwoFactorInv => VerifiedUnlessTorn
  BY DEF TwoFactorInv, Intact, VerifiedUnlessTorn
<1> QED BY <1>1, TwoFactorInvariant, PTL

-----------------------------------------------------------------------------
(***************************************************************************)
(* The RateLimiter, for any number of attempts at the same time and any    *)
(* blocks that are not shorter than the window.                            *)
(***************************************************************************)

\* By the time a block is over, so is the window: the entry will be forgotten.
WindowEndsFirst ==
  entry # None /\ entry.attempts >= MaxAttempts =>
    entry.wait + entry.age > Window \/ entry.age > Window

\* No block told of is longer than the failures counted call for.
PromisesGraded == entry # None => promised <= block(entry.attempts)

LimiterInv == /\ LimiterTypeOK /\ WindowEndsFirst /\ PromisesGraded
       /\ BlocksHold /\ OvershootBounded

\* Relative times stay in their ranges, and the end of a block that has passed
\* the present has let the window pass it too.
LEMMA Clock ==
  ASSUME NEW d \in Elapsed, NEW w \in -1 .. Block3, NEW a \in 0 .. Window + 1,
         NEW p \in 0 .. Block3
  PROVE  /\ Later(w, d, -1) \in -1 .. Block3
         /\ Later(p, d, 0) \in 0 .. Block3
         /\ Aged(a, d) \in 1 .. Window + 1
         /\ w >= p => Later(w, d, -1) >= Later(p, d, 0) \/ Later(p, d, 0) = 0
         /\ w + a > Window \/ a > Window =>
              Later(w, d, -1) + Aged(a, d) > Window \/ Aged(a, d) > Window
  BY RateLimitAssumption DEF Later, Aged, Elapsed

\* How long a number of failures blocks.
LEMMA BlockLength ==
  ASSUME NEW n \in Nat
  PROVE  /\ block(n) \in 0 .. Block3
         /\ n >= MaxAttempts => block(n) >= Window
         /\ n < MaxAttempts => block(n) = 0
         /\ block(n) <= block(n + 1)
  BY RateLimitAssumption DEF block

\* The entry as a call finds it.
LEMMA CurrentEntry ==
  ASSUME NEW d \in Elapsed, LimiterTypeOK, WindowEndsFirst, PromisesGraded, BlocksHold
  PROVE  /\ Current(d) \in Entry
         /\ Later(promised, d, 0) <= block(Current(d).attempts)
         /\ Current(d).attempts = IF entry = None THEN 0 ELSE entry.attempts
         /\ entry = None => Current(d) = Fresh
         /\ entry # None => Current(d).age >= 1
         /\ Later(promised, d, 0) \in 0 .. Block3
         /\ Current(d).wait >= Later(promised, d, 0) \/ Later(promised, d, 0) = 0
         /\ Current(d).attempts >= MaxAttempts =>
              Current(d).wait + Current(d).age > Window \/ Current(d).age > Window
  <1>1. CASE entry = None
    <2>1. Current(d) = [attempts |-> 0, wait |-> -1, age |-> 0]
      BY <1>1 DEF Current, Fresh
    <2>2. promised = 0 /\ Later(promised, d, 0) = 0
      BY <1>1, RateLimitAssumption DEF BlocksHold, Later, Elapsed
    <2>3. block(0) >= 0 BY BlockLength, RateLimitAssumption
    <2> QED BY <1>1, <2>1, <2>2, <2>3, RateLimitAssumption DEF Entry, Fresh
  <1>2. CASE entry # None
    <2>1. entry \in Entry BY <1>2 DEF LimiterTypeOK
    <2> DEFINE w == entry.wait
               a == entry.age
    <2>2. w \in -1 .. Block3 /\ a \in 0 .. Window + 1 /\ entry.attempts \in Nat
      BY <2>1 DEF Entry
    <2>3. promised \in 0 .. Block3 /\ (w >= promised \/ promised = 0)
      BY <1>2, <2>2, RateLimitAssumption DEF LimiterTypeOK, BlocksHold
    <2>4. entry.attempts >= MaxAttempts => w + a > Window \/ a > Window
      BY <1>2 DEF WindowEndsFirst
    <2>5. Current(d) = [attempts |-> entry.attempts, wait |-> Later(w, d, -1),
                        age |-> Aged(a, d)]
      BY <1>2 DEF Current
    <2> HIDE DEF w, a
    <2>6. /\ Later(w, d, -1) \in -1 .. Block3
          /\ Later(promised, d, 0) \in 0 .. Block3
          /\ Aged(a, d) \in 1 .. Window + 1
          /\ w >= promised => Later(w, d, -1) >= Later(promised, d, 0)
                              \/ Later(promised, d, 0) = 0
          /\ w + a > Window \/ a > Window =>
               Later(w, d, -1) + Aged(a, d) > Window \/ Aged(a, d) > Window
      BY <2>2, <2>3, Clock
    <2>7. promised = 0 => Later(promised, d, 0) = 0
      BY RateLimitAssumption DEF Later, Elapsed
    <2>8. Current(d) \in Entry BY <2>2, <2>5, <2>6, RateLimitAssumption DEF Entry
    <2>9. Later(promised, d, 0) <= block(entry.attempts)
      <3>1. block(entry.attempts) \in 0 .. Block3 BY <2>2, BlockLength
      <3>2. promised <= block(entry.attempts) BY <1>2 DEF PromisesGraded
      <3> QED BY <2>3, <3>1, <3>2, RateLimitAssumption DEF Later, Elapsed
    <2> QED BY <1>2, <2>2, <2>3, <2>4, <2>5, <2>6, <2>7, <2>8, <2>9
  <1> QED BY <1>1, <1>2

\* Admitting a request and taking it off change the number of those in hand.
LEMMA BusyCount ==
  ASSUME busy \subseteq Attempts, NEW r \in Attempts
  PROVE  /\ Cardinality(Attempts) \in Nat /\ Cardinality(busy) \in Nat
         /\ Cardinality(busy) <= Cardinality(Attempts)
         /\ r \in busy => Cardinality(busy \ {r}) = Cardinality(busy) - 1
  <1>1. IsFiniteSet(busy) BY RateLimitAssumption, FS_Subset
  <1> QED BY <1>1, RateLimitAssumption, FS_Subset, FS_CardinalityType, FS_RemoveElement

-----------------------------------------------------------------------------

\* The invariant holds before any attempt.
THEOREM LimiterBegins == LimiterInit => LimiterInv
  BY RateLimitAssumption
  DEF LimiterInit, LimiterInv, LimiterTypeOK, WindowEndsFirst, PromisesGraded, BlocksHold, OvershootBounded

\* A call finds the entry as CurrentEntry says; what is left is what it writes.
THEOREM LimiterSteps == LimiterInv /\ [LimiterNext]_limiterVars => LimiterInv'
  <1> SUFFICES ASSUME LimiterInv, [LimiterNext]_limiterVars PROVE LimiterInv' OBVIOUS
  <1> USE DEF LimiterInv
  <1>1. CASE UNCHANGED limiterVars
    BY <1>1 DEF limiterVars, LimiterTypeOK, WindowEndsFirst, PromisesGraded, BlocksHold,
                OvershootBounded, block
  <1>2. ASSUME NEW d \in Elapsed,
               (\E r \in Attempts : Attempt(r, d)) \/ cleanup_expired(d)
        PROVE  LimiterInv'
    <2> DEFINE e == Current(d)
               left == Later(promised, d, 0)
    <2>0. /\ e \in Entry
          /\ e.attempts = IF entry = None THEN 0 ELSE entry.attempts
          /\ entry = None => e = Fresh
          /\ entry # None => e.age >= 1
          /\ left \in 0 .. Block3 /\ left <= block(e.attempts)
          /\ e.wait >= left \/ left = 0
          /\ e.attempts >= MaxAttempts => e.wait + e.age > Window \/ e.age > Window
      BY CurrentEntry
    <2>1. /\ e.attempts \in Nat /\ e.wait \in -1 .. Block3
          /\ e.age \in 0 .. Window + 1
      BY <2>0 DEF Entry
    <2>2. entry = None => e.attempts = 0 BY <2>0
    <2>3. busy \subseteq Attempts /\ None \notin Entry
      BY RateLimitAssumption DEF LimiterTypeOK, Entry
    <2>4. e.attempts >= MaxAttempts =>
            e.attempts + Cardinality(busy) < MaxAttempts + Cardinality(Attempts)
      BY <2>0, <2>1, <2>2, RateLimitAssumption DEF OvershootBounded
    <2>5. Fresh \in Entry /\ Fresh.attempts = 0 /\ Fresh.wait = -1
      BY RateLimitAssumption DEF Fresh, Entry
    <2>6. block(0) = 0 BY BlockLength, RateLimitAssumption
    <2>7. ASSUME NEW r \in Attempts, is_allowed(r, d) PROVE LimiterInv'
      <3>1. CASE e.wait > 0 /\ entry' = e /\ UNCHANGED busy
        <4>1. promised' = left BY <2>7 DEF is_allowed
        <4> QED BY <2>0, <2>1, <2>3, <2>4, <3>1, <4>1
                DEF LimiterTypeOK, WindowEndsFirst, PromisesGraded, BlocksHold, OvershootBounded
      <3>2. CASE e.wait <= 0 /\ e.age > Window /\ entry' = Fresh
        <4>1. promised' = left /\ busy' = busy \cup {r} BY <2>1, <2>7, <3>2 DEF is_allowed
        <4>2. left = 0 BY <2>0, <2>1, <3>2, RateLimitAssumption
        <4> QED BY <2>0, <2>3, <2>5, <2>6, <3>2, <4>1, <4>2, RateLimitAssumption
                DEF LimiterTypeOK, WindowEndsFirst, PromisesGraded, BlocksHold, OvershootBounded
      <3>3. CASE e.wait <= 0 /\ ~(e.age > Window) /\ entry' = e
        <4>1. promised' = left /\ busy' = busy \cup {r} BY <2>1, <2>7, <3>3 DEF is_allowed
        <4>2. e.attempts < MaxAttempts
          BY <2>0, <2>1, <3>3, RateLimitAssumption
        <4> QED BY <2>0, <2>1, <2>3, <3>3, <4>1, <4>2, RateLimitAssumption
                DEF LimiterTypeOK, WindowEndsFirst, PromisesGraded, BlocksHold, OvershootBounded
      <3> QED BY <2>7, <3>1, <3>2, <3>3 DEF is_allowed
    <2>8. ASSUME NEW r \in Attempts, record_failure(r, d) PROVE LimiterInv'
      <3> DEFINE n == e.attempts + 1
      <3>1. /\ n \in Nat /\ r \in busy /\ busy' = busy \ {r}
            /\ entry' = [attempts |-> n, age |-> e.age,
                         wait |-> IF n >= MaxAttempts THEN block(n) ELSE e.wait]
            /\ promised' = IF block(n) > left THEN block(n) ELSE left
        BY <2>1, <2>8 DEF record_failure
      <3>2. /\ block(n) \in 0 .. Block3
            /\ n >= MaxAttempts => block(n) >= Window
            /\ n < MaxAttempts => block(n) = 0
            /\ block(e.attempts) \in 0 .. Block3 /\ block(e.attempts) <= block(n)
        BY <2>1, <3>1, BlockLength
      <3>3. LimiterTypeOK'
        BY <2>0, <2>1, <2>3, <3>1, <3>2, RateLimitAssumption DEF LimiterTypeOK, Entry
      <3>4. WindowEndsFirst'
        <4>1. CASE n >= MaxAttempts
          <5>1. e.age >= 1 BY <2>0, <2>1, <2>2, <4>1, RateLimitAssumption
          <5> QED BY <2>1, <3>1, <3>2, <4>1, <5>1, RateLimitAssumption
                  DEF WindowEndsFirst
        <4>2. CASE ~(n >= MaxAttempts)
          BY <3>1, <4>2 DEF WindowEndsFirst
        <4> QED BY <4>1, <4>2
      <3>5. BlocksHold' /\ PromisesGraded'
        <4>1. left <= block(n) /\ promised' = block(n)
          BY <2>0, <3>1, <3>2, RateLimitAssumption
        <4>2. n < MaxAttempts => promised' = 0
          BY <3>2, <4>1
        <4>3. entry'.wait = (IF n >= MaxAttempts THEN block(n) ELSE e.wait)
              /\ entry'.attempts = n
          BY <3>1
        <4>4. entry' # None
          <5>1. entry' \in Entry
            BY <2>1, <3>1, <3>2, RateLimitAssumption DEF Entry
          <5> QED BY <2>3, <5>1
        <4>5. entry'.wait >= promised' \/ promised' = 0
          BY <2>1, <3>1, <3>2, <4>1, <4>2, <4>3, RateLimitAssumption
        <4>6. entry'.wait \in Int /\ promised' \in Int
          BY <2>1, <3>2, <4>1, <4>3, RateLimitAssumption
        <4>7. BlocksHold' BY <4>4, <4>5, <4>6 DEF BlocksHold
        <4>8. PromisesGraded'
          BY <3>2, <4>1, <4>3, RateLimitAssumption
             DEF PromisesGraded, block
        <4> QED BY <4>7, <4>8
      <3>6. OvershootBounded'
        <4>1. /\ Cardinality(Attempts) \in Nat /\ Cardinality(busy) \in Nat
              /\ Cardinality(busy) <= Cardinality(Attempts)
              /\ Cardinality(busy') = Cardinality(busy) - 1
          BY <2>3, <3>1, BusyCount
        <4>2. entry'.attempts = n BY <3>1
        <4> QED BY <2>1, <2>4, <3>1, <4>1, <4>2, RateLimitAssumption
                DEF OvershootBounded
      <3> QED BY <3>3, <3>4, <3>5, <3>6
    <2>9. ASSUME NEW r \in Attempts, record_success(r, d) PROVE LimiterInv'
      BY <2>3, <2>9, RateLimitAssumption
      DEF record_success, LimiterTypeOK, WindowEndsFirst, PromisesGraded, BlocksHold,
          OvershootBounded
    <2>10. ASSUME NEW r \in Attempts, Leave(r, d) PROVE LimiterInv'
      <3>1. /\ r \in busy /\ busy' = busy \ {r} /\ promised' = left
            /\ entry' = IF entry = None THEN None ELSE e
        BY <2>10 DEF Leave
      <3>2. /\ Cardinality(Attempts) \in Nat /\ Cardinality(busy) \in Nat
            /\ Cardinality(busy') = Cardinality(busy) - 1
        BY <2>3, <3>1, BusyCount
      <3>3. CASE entry = None
        <4>1. left = 0 BY <2>0, <2>1, <3>3, RateLimitAssumption DEF Fresh
        <4> QED BY <2>3, <3>1, <3>3, <4>1, RateLimitAssumption
                DEF LimiterTypeOK, WindowEndsFirst, PromisesGraded, BlocksHold, OvershootBounded
      <3>4. CASE entry # None
        BY <2>0, <2>1, <2>3, <2>4, <3>1, <3>2, <3>4, RateLimitAssumption
        DEF LimiterTypeOK, WindowEndsFirst, PromisesGraded, BlocksHold, OvershootBounded
      <3> QED BY <3>3, <3>4
    <2>11. ASSUME cleanup_expired(d) PROVE LimiterInv'
      <3>1. /\ entry # None /\ busy' = busy /\ promised' = left
            /\ entry' = IF e.wait < 0 /\ e.age > Window THEN None ELSE e
        BY <2>11 DEF cleanup_expired
      <3>2. CASE e.wait < 0
        <4>1. left = 0 BY <2>0, <2>1, <3>2, RateLimitAssumption
        <4> QED BY <2>0, <2>1, <2>3, <2>4, <3>1, <4>1
                DEF LimiterTypeOK, WindowEndsFirst, PromisesGraded, BlocksHold, OvershootBounded
      <3>3. CASE ~(e.wait < 0)
        BY <2>0, <2>1, <2>3, <2>4, <3>1, <3>3
        DEF LimiterTypeOK, WindowEndsFirst, PromisesGraded, BlocksHold, OvershootBounded
      <3> QED BY <3>2, <3>3
    <2> QED BY <1>2, <2>7, <2>8, <2>9, <2>10, <2>11 DEF Attempt
  <1> QED BY <1>1, <1>2 DEF LimiterNext

\* LimiterInv is inductive: it holds of the limiter whatever attempts come and when.
THEOREM LimiterInvariant == LimiterSpec => []LimiterInv
  BY LimiterBegins, LimiterSteps, PTL DEF LimiterSpec

\* The entry, the requests and the blocks told of are of their types.
THEOREM LimiterType == LimiterSpec => []LimiterTypeOK
  BY LimiterInvariant, PTL DEF LimiterInv

\* A block lasts as long as the client was told, unless an attempt succeeds.
THEOREM BlocksHoldSafe == LimiterSpec => []BlocksHold
  BY LimiterInvariant, PTL DEF LimiterInv

\* Failures past the first block come from attempts admitted before it.
THEOREM OvershootSafe == LimiterSpec => []OvershootBounded
  BY LimiterInvariant, PTL DEF LimiterInv

=============================================================================
