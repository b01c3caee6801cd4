------------------------------ MODULE RateLimit ------------------------------
(***************************************************************************)
(* The login's RateLimiter, for one client address: is_allowed before an   *)
(* attempt, record_failure or record_success after it, and cleanup_expired *)
(* every so often.  The entry is locked within each call and free between  *)
(* them, while the attempt's password or code is being verified.           *)
(*                                                                         *)
(* Times are kept relative to the present.  Every call takes place some    *)
(* time d after the previous one: no two read the same clock.              *)
(***************************************************************************)
EXTENDS Integers, FiniteSets

CONSTANTS
  Attempts,               \* attempts being verified at the same time
  MaxAttempts, Tier2, Tier3,        \* failures that block for ...
  Block1, Block2, Block3,           \* ... so long
  Window,                 \* age at which an entry is forgotten
  None

ASSUME RateLimitAssumption ==
  /\ IsFiniteSet(Attempts) /\ None \notin [attempts: Nat, wait: Int, age: Nat]
  /\ MaxAttempts \in Nat \ {0, 1} /\ Tier2 \in Nat /\ Tier3 \in Nat
  /\ MaxAttempts <= Tier2 /\ Tier2 <= Tier3
  /\ Window \in Nat \ {0} /\ Block1 \in Nat /\ Block2 \in Nat /\ Block3 \in Nat
  /\ Window <= Block1 /\ Block1 <= Block2 /\ Block2 <= Block3

VARIABLES
  entry,        \* RateLimitEntry of the address, None if there is none
  busy,         \* requests whose attempt is being verified
  promised      \* history: what is left of the longest block told of

limiterVars == <<entry, busy, promised>>

Elapsed == 1 .. Block3 + 1

\* wait is blocked_until - now, and -1 for anything before now; age is
\* now - first_attempt, and Window + 1 for anything after the window.
Entry == [attempts: Nat, wait: -1 .. Block3, age: 0 .. Window + 1]

LimiterTypeOK ==
  /\ entry \in Entry \cup {None}
  /\ busy \subseteq Attempts
  /\ promised \in 0 .. Block3

LimiterInit == entry = None /\ busy = {} /\ promised = 0

Later(n, d, floor) == IF n - d < floor THEN floor ELSE n - d
Aged(n, d) == IF n + d > Window THEN Window + 1 ELSE n + d

Fresh == [attempts |-> 0, wait |-> -1, age |-> 0]

\* The entry at the time of the call; defaultdict makes one where there is none.
Current(d) ==
  IF entry = None THEN Fresh
  ELSE [attempts |-> entry.attempts, wait |-> Later(entry.wait, d, -1),
        age |-> Aged(entry.age, d)]

-----------------------------------------------------------------------------

\* Mutant: an entry keeps counting after its window.
is_allowed_no_window(r, d) ==
  /\ r \notin busy
  /\ entry' = Current(d)
  /\ busy' = IF entry'.wait > 0 THEN busy ELSE busy \cup {r}
  /\ promised' = Later(promised, d, 0)

\* Refused while blocked; a window that is over is forgotten.
is_allowed(r, d) ==
  LET e == Current(d) IN
  /\ r \notin busy
  /\ \/ e.wait > 0 /\ entry' = e /\ UNCHANGED busy
     \/ /\ e.wait <= 0
        /\ entry' = IF e.age > Window THEN Fresh ELSE e
        /\ busy' = busy \cup {r}
  /\ promised' = Later(promised, d, 0)

\* How long so many failures block, 0 for not at all.
block(n) ==
  IF n >= Tier3 THEN Block3
  ELSE IF n >= Tier2 THEN Block2
  ELSE IF n >= MaxAttempts THEN Block1
  ELSE 0

record_failure(r, d) ==
  LET e == Current(d)
      n == e.attempts + 1
      left == Later(promised, d, 0)
  IN
  /\ r \in busy
  /\ entry' = [attempts |-> n, age |-> e.age,
               wait |-> IF n >= MaxAttempts THEN block(n) ELSE e.wait]
  /\ busy' = busy \ {r}
  /\ promised' = IF block(n) > left THEN block(n) ELSE left

\* The password is right, or the code: everything is forgotten.
record_success(r, d) ==
  /\ r \in busy
  /\ entry' = None
  /\ busy' = busy \ {r}
  /\ promised' = 0

\* The attempt ends without either: a CSRF token missing or wrong, a body that
\* cannot be read, a client that hangs up.
Leave(r, d) ==
  /\ r \in busy
  /\ entry' = IF entry = None THEN None ELSE Current(d)
  /\ busy' = busy \ {r}
  /\ promised' = Later(promised, d, 0)

\* Mutant: an entry is expired when its window is, blocked or not.
cleanup_expired_blocked(d) ==
  LET e == Current(d) IN
  /\ entry # None
  /\ entry' = IF e.age > Window THEN None ELSE e
  /\ promised' = Later(promised, d, 0)
  /\ UNCHANGED busy

cleanup_expired(d) ==
  LET e == Current(d) IN
  /\ entry # None
  /\ entry' = IF e.wait < 0 /\ e.age > Window THEN None ELSE e
  /\ promised' = Later(promised, d, 0)
  /\ UNCHANGED busy

Attempt(r, d) == \/ is_allowed(r, d)
                 \/ record_failure(r, d) \/ record_success(r, d) \/ Leave(r, d)

LimiterNext == \E d \in Elapsed :
  \/ \E r \in Attempts : Attempt(r, d)
  \/ cleanup_expired(d)

LimiterSpec == LimiterInit /\ [][LimiterNext]_limiterVars

-----------------------------------------------------------------------------
(* Properties *)

\* A block lasts as long as the client was told, whatever attempts that were
\* already admitted do meanwhile, unless one of them succeeds: the entry that
\* holds it is neither forgotten nor given a shorter one (RateLimiter).
BlocksHold == entry = None \/ entry.wait < promised => promised = 0

\* Past the first block, failures add up only through attempts admitted before
\* it: those still being verified and those already counted never exceed the
\* requests there are.  One attempt at a time never reaches the second block,
\* because the window is over when the first one ends (is_allowed).
OvershootBounded ==
  entry # None /\ entry.attempts >= MaxAttempts =>
    entry.attempts + Cardinality(busy) < MaxAttempts + Cardinality(Attempts)

=============================================================================
