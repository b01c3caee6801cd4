----------------------------- MODULE MCTenants -----------------------------
(* What the platform keeps for all: small instances of its organisations and *)
(* of its own scheduler.  They share no state, so a behaviour is of one      *)
(* part, chosen at the start, and the other rests.                           *)
EXTENDS Tenants, PlatformScheduler, TLC

VARIABLE part

tenantsRest   == UNCHANGED vars
schedulerRest == UNCHANGED schedulerVars

\* Two entries that are due at once, and then one and the other.
MCOrder == <<"audit", "network">>
MCTimes == [audit |-> {0, 2}, network |-> {0, 1}]

\* The scheduler at rest is a server that is down.
SchedulerRests ==
  /\ minute = 0 /\ turns = 0 /\ loop = Down
  /\ saved = [e \in Entries |-> FALSE] /\ enabled = saved
  /\ next_run = [e \in Entries |-> 1]
  /\ wanted = [e \in Entries |-> "off"] /\ since = [e \in Entries |-> Shift]
  /\ repeated = {} /\ began = 0 /\ switched = {} /\ stale = {}

MCInit ==
  /\ Init
  /\ \/ part = "organisations" /\ SchedulerRests
     \/ part = "scheduler" /\ SchedulerInit

MCNext ==
  /\ part' = part
  /\ \/ part = "organisations" /\ Next /\ schedulerRest
     \/ part = "scheduler" /\ SchedulerNext /\ tenantsRest

MCSpec == MCInit /\ [][MCNext]_<<part, vars, schedulerVars>>

Symmetry == Permutations(Works)

=============================================================================
