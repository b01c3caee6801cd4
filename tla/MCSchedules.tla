---------------------------- MODULE MCSchedules ----------------------------
(* A small instance of Schedules: an organisation that is not the default.   *)
EXTENDS Schedules

\* Users create network scans with a credential, due in the first minute.
MCNew == {[task |-> "network", cred |-> TRUE, at |-> {0}, enabled |-> TRUE,
           last |-> "before", status |-> "other"]}

\* They switch them off, taking the credential away, or on, as ssh scans.
MCPatches == {[enabled |-> FALSE, cred |-> FALSE], [enabled |-> TRUE, task |-> "ssh"]}

=============================================================================
