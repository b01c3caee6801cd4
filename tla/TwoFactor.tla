------------------------------ MODULE TwoFactor ------------------------------
(***************************************************************************)
(* The second factor of one user: TOTPManager and the users row it works   *)
(* on.  A login's second step and the disabling of 2FA verify a code; an   *)
(* activation verifies the first code of a new secret.  Each of them reads *)
(* the row, decides, and writes it back in one or more later statements.   *)
(*                                                                         *)
(* Secrets are numbered as setup_2fa draws them, 0 is NULL.  The code that *)
(* secret s shows during 30-second step n is <<"totp", s, n>>, and the     *)
(* recovery codes of its setup are <<"recovery", s, k>>.                   *)
(***************************************************************************)
EXTENDS Integers

CONSTANTS
  Requests,     \* requests being handled at the same time
  Slots,        \* a setup hands out one recovery code per slot
  MaxSecret,    \* bound: setups
  MaxStep,      \* bound: time, in steps
  Faults        \* may a request die between two statements?

ASSUME TwoFactorAssumption ==
  /\ MaxSecret \in Nat \ {0} /\ MaxStep \in Nat \ {0}
  /\ Faults \in BOOLEAN

Secrets == 0 .. MaxSecret
Steps   == 0 .. MaxStep + 1
Never   == -1                     \* totp_last_counter IS NULL

RecoveryCodes(s) == {<<"recovery", s, k>> : k \in Slots}
TotpCodes(s)     == {<<"totp", s, n>> : n \in Steps}
Codes == UNION {RecoveryCodes(s) \cup TotpCodes(s) : s \in Secrets \ {0}}

VARIABLES
  row,        \* the user's row, as far as 2FA goes
  now,        \* the current step
  issued,     \* secrets drawn so far
  req,        \* what each request has read and still has to do
  used,       \* history: codes accepted once
  reused,     \* history: codes accepted again
  verified,   \* history: secrets whose first code has been verified
  torn        \* history: some write was based on a row no longer there

vars == <<row, now, issued, req, used, reused, verified, torn>>

Row == [enabled: BOOLEAN, secret: Secrets, sealed: BOOLEAN, pending: Secrets,
        last: Steps \cup {Never},
        codes: SUBSET UNION {RecoveryCodes(s) : s \in Secrets}]

\* op: what the request is for.  seen: what it read of the row and will write
\* on the strength of (the rest left blank).
Request == [pc: {"idle", "verify", "count", "seal", "recover", "off", "activate",
                 "counter"},
            op: {"login", "disable", "activate"},
            code: Codes \cup {<<>>}, seen: Row]

Blank == [enabled |-> FALSE, secret |-> 0, sealed |-> TRUE, pending |-> 0,
          last |-> Never, codes |-> {}]
Idle  == [pc |-> "idle", op |-> "login", code |-> <<>>, seen |-> Blank]

TypeOK ==
  /\ row \in Row /\ now \in 1 .. MaxStep /\ issued \in Secrets
  /\ req \in [Requests -> Request]
  /\ used \subseteq Codes /\ reused \subseteq Codes /\ verified \subseteq Secrets
  /\ torn \in BOOLEAN

\* Either no 2FA, or an account that enabled it before secrets were encrypted.
Init ==
  /\ \/ row = Blank /\ issued = 0 /\ verified = {}
     \/ /\ row = [Blank EXCEPT !.enabled = TRUE, !.secret = 1, !.sealed = FALSE,
                               !.codes = RecoveryCodes(1)]
        /\ issued = 1 /\ verified = {1}
  /\ now = 1
  /\ req = [r \in Requests |-> Idle]
  /\ used = {} /\ reused = {} /\ torn = FALSE

-----------------------------------------------------------------------------

\* The step, one of three around now, in which secret s shows this code.
find_matching_step(s, code) ==
  {n \in now - 1 .. now + 1 : code = <<"totp", s, n>>}

\* Mutant: any step of the window will do, consumed or not.
fresh_any(code, r0) == TRUE

\* The step has not been consumed: the counter is behind it.
fresh(code, r0) == r0.last = Never \/ code[3] > r0.last

Goto(r, next) == req' = [req EXCEPT ![r] = next]
Finish(r) == Goto(r, Idle)

\* History: the code opened something.
Accept(code) ==
  IF code \in used THEN reused' = reused \cup {code} /\ UNCHANGED used
                   ELSE used' = used \cup {code} /\ UNCHANGED reused
Quiet == UNCHANGED <<used, reused, verified>>

\* A login that has its code goes in; the disabling goes on to the row.
Passed(r) ==
  IF req[r].op = "disable"
    THEN Goto(r, [Idle EXCEPT !.pc = "off", !.op = "disable"])
    ELSE Finish(r)

-----------------------------------------------------------------------------

Tick ==
  /\ now < MaxStep
  /\ now' = now + 1
  /\ UNCHANGED <<row, issued, req, used, reused, verified, torn>>

\* Mutant: the old recovery codes stay valid.
setup_2fa_keeps_codes ==
  /\ issued < MaxSecret
  /\ issued' = issued + 1
  /\ row' = [row EXCEPT !.pending = issued', !.codes = @ \cup RecoveryCodes(issued')]
  /\ UNCHANGED <<now, req, torn>>
  /\ Quiet

\* setup_2fa: a pending secret, and new recovery codes at once.
setup_2fa ==
  /\ issued < MaxSecret
  /\ issued' = issued + 1
  /\ row' = [row EXCEPT !.pending = issued', !.codes = RecoveryCodes(issued')]
  /\ UNCHANGED <<now, req, torn>>
  /\ Quiet

\* api_2fa_disable: a code is only asked for while 2FA is on.
DisableStatus(r) ==
  /\ req[r].pc = "idle"
  /\ Goto(r, [Idle EXCEPT !.pc = IF row.enabled THEN "verify" ELSE "off",
                          !.op = "disable"])
  /\ UNCHANGED <<row, now, issued, torn>>
  /\ Quiet

\* verify, for a login or the disabling of 2FA: the row is read and the code
\* looked up in it.  A code of a consumed step is still tried as a recovery
\* code; with 2FA off, or no code found, nothing is written.
VerifyRead(r, code) ==
  LET shown == find_matching_step(row.secret, code) # {} /\ fresh(code, row)
      op    == IF req[r].pc = "verify" THEN "disable" ELSE "login"
      next(pc, seen) ==
        Goto(r, [pc |-> pc, op |-> op, code |-> code, seen |-> seen])
  IN
  /\ req[r].pc \in {"idle", "verify"}
  /\ torn' = (torn \/ \E x \in Requests : req[x].pc = "counter")
  /\ \/ /\ ~row.enabled
        /\ IF op = "disable" THEN Goto(r, [req[r] EXCEPT !.pc = "off"])
                             ELSE Finish(r)
     \/ /\ row.enabled
        /\ row.secret = 0 \/ ~(shown \/ code \in row.codes)
        /\ Finish(r)
     \/ /\ row.enabled /\ row.secret # 0 /\ shown
        /\ next("count", [Blank EXCEPT !.secret = row.secret, !.last = row.last,
                                       !.sealed = row.sealed])
     \/ /\ row.enabled /\ row.secret # 0 /\ ~shown /\ code \in row.codes
        /\ next("recover", [Blank EXCEPT !.codes = row.codes])
  /\ UNCHANGED <<row, now, issued>>
  /\ Quiet

\* The step is recorded as consumed, whatever the counter says by now.
VerifyCount(r) ==
  LET code == req[r].code
      seen == req[r].seen
  IN
  /\ req[r].pc = "count"
  /\ row' = [row EXCEPT !.last = code[3]]
  /\ torn' = (torn \/ row.last # seen.last \/ row.secret # seen.secret)
  /\ Accept(code)
  /\ IF seen.sealed THEN Passed(r) ELSE Goto(r, [req[r] EXCEPT !.pc = "seal"])
  /\ UNCHANGED <<now, issued, verified>>

\* A secret stored before encryption is stored again, encrypted.
VerifySeal(r) ==
  LET seen == req[r].seen IN
  /\ req[r].pc = "seal"
  /\ row' = [row EXCEPT !.secret = seen.secret, !.sealed = TRUE]
  /\ torn' = (torn \/ row.secret # seen.secret)
  /\ Passed(r)
  /\ UNCHANGED <<now, issued>>
  /\ Quiet

\* The list that was read is written back without the code.
VerifyRecover(r) ==
  LET code == req[r].code
      seen == req[r].seen
  IN
  /\ req[r].pc = "recover"
  /\ row' = [row EXCEPT !.codes = seen.codes \ {code}]
  /\ torn' = (torn \/ row.codes # seen.codes)
  /\ Accept(code)
  /\ Passed(r)
  /\ UNCHANGED <<now, issued, verified>>

\* disable_totp keeps the counter and the recovery codes.
DisableWrite(r) ==
  /\ req[r].pc = "off"
  /\ row' = [row EXCEPT !.enabled = FALSE, !.secret = 0, !.sealed = TRUE,
                        !.pending = 0]
  /\ Finish(r)
  /\ UNCHANGED <<now, issued, torn>>
  /\ Quiet

\* Mutant: a wrong first code activates as well.
ActivateRead_any(r, code) ==
  /\ req[r].pc = "idle"
  /\ row.pending # 0 /\ code[1] = "totp"
  /\ Goto(r, [pc |-> "activate", op |-> "activate", code |-> code,
              seen |-> [Blank EXCEPT !.pending = row.pending]])
  /\ verified' = IF find_matching_step(row.pending, code) # {}
                   THEN verified \cup {row.pending} ELSE verified
  /\ UNCHANGED <<row, now, issued, used, reused, torn>>

\* activate_2fa: the first code is checked against the pending secret ...
ActivateRead(r, code) ==
  /\ req[r].pc = "idle"
  /\ row.pending # 0
  /\ find_matching_step(row.pending, code) # {}
  /\ Goto(r, [pc |-> "activate", op |-> "activate", code |-> code,
              seen |-> [Blank EXCEPT !.pending = row.pending]])
  /\ verified' = verified \cup {row.pending}
  /\ UNCHANGED <<row, now, issued, used, reused, torn>>

\* ... the secret that is pending now becomes the active one ...
ActivateWrite(r) ==
  /\ req[r].pc = "activate"
  /\ row' = [row EXCEPT !.enabled = TRUE, !.secret = row.pending, !.sealed = TRUE,
                        !.pending = 0]
  /\ torn' = (torn \/ row.pending # req[r].seen.pending)
  /\ Accept(req[r].code)
  /\ Goto(r, [req[r] EXCEPT !.pc = "counter",
       !.seen = [Blank EXCEPT !.secret = row.pending, !.last = row.last]])
  /\ UNCHANGED <<now, issued, verified>>

\* ... and the step is recorded as consumed.
ActivateCount(r) ==
  LET seen == req[r].seen IN
  /\ req[r].pc = "counter"
  /\ row' = [row EXCEPT !.last = req[r].code[3]]
  /\ torn' = (torn \/ row.last # seen.last \/ row.secret # seen.secret)
  /\ Finish(r)
  /\ UNCHANGED <<now, issued>>
  /\ Quiet

\* The process dies, or a statement raises.
Abort(r) ==
  /\ Faults
  /\ req[r].pc # "idle"
  /\ torn' = (torn \/ req[r].pc = "counter")
  /\ Finish(r)
  /\ UNCHANGED <<row, now, issued>>
  /\ Quiet

Verify(r)   == \/ \E code \in Codes : VerifyRead(r, code)
               \/ VerifyCount(r) \/ VerifySeal(r) \/ VerifyRecover(r)
Activate(r) == \/ \E code \in Codes : ActivateRead(r, code)
               \/ ActivateWrite(r)
               \/ ActivateCount(r)
Disable(r)  == DisableStatus(r) \/ DisableWrite(r)

Next ==
  \/ Tick
  \/ setup_2fa
  \/ \E r \in Requests :
       Verify(r) \/ Activate(r) \/ Disable(r) \/ Abort(r)

Spec == Init /\ [][Next]_vars

-----------------------------------------------------------------------------
(* Properties *)

\* No code, neither of the app nor for recovery, opens anything twice, through
\* whatever setups, activations, disablings and verifications, as long as no
\* write was based on a row that had changed since (TOTPManager.verify).
OneTimeUnlessTorn == ~torn => reused = {}

\* Under the same condition the valid recovery codes are those of the last
\* setup that have not been used: none is lost and none comes back.
CodesUnlessTorn ==
  ~torn => row.codes = (IF issued = 0 THEN {} ELSE RecoveryCodes(issued)) \ used

\* Under the same condition the active secret is one whose first code was
\* verified, and there is one.
VerifiedUnlessTorn == ~torn /\ row.enabled => row.secret \in verified \ {0}

=============================================================================
