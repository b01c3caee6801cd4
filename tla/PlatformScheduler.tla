------------------------- MODULE PlatformScheduler -------------------------
(***************************************************************************)
(* The scheduler of the platform, core/scheduler.py: one loop that awaits  *)
(* the tasks of the entries that are due, one after the other, and the     *)
(* switches that survive a restart.  What a task does is in Scans.         *)
(*                                                                         *)
(* The minutes of a week are 0 .. Week - 1, round and round, in the local  *)
(* time that the code reads, which is turned forward and back once a year. *)
(* The dates it keeps are relative to the current minute.                  *)
(***************************************************************************)
EXTENDS Integers, Sequences, FiniteSetsExt

CONSTANTS
  Order,        \* the entries, in the order in which the loop looks at them
  Times,        \* the minutes of the week at which each is due
  Week,
  Shift,        \* minutes by which local time is turned
  MaxTurns,     \* bound: how often it is
  Unwritable        \* may the configuration fail to be written?

Entries == {Order[i] : i \in DOMAIN Order}

ASSUME PlatformSchedulerAssumption ==
  /\ Order \in Seq(Entries) /\ \A i, j \in DOMAIN Order : Order[i] = Order[j] => i = j
  /\ Week \in Nat \ {0} /\ Shift \in Nat \ {0} /\ MaxTurns \in Nat
  /\ Times \in [Entries -> (SUBSET (0 .. Week - 1)) \ {{}}]
  /\ Unwritable \in BOOLEAN

VARIABLES
  minute,       \* the current minute of the week
  turns,        \* how often local time was turned
  enabled,      \* ScheduleEntry.enabled
  saved,        \* the flags in config.yaml
  next_run,     \* ScheduleEntry.next_run, in minutes from now
  loop,         \* where _loop is
  wanted,       \* history: what was last asked for each switch, "unsure" if that was not saved
  since,        \* history: minutes since the loop started each, up to Shift
  repeated,     \* history: entries whose last run the clock was turned back over
  began,        \* history: the entry whose task was running when the minute began
  switched,     \* history: entries switched on in this minute, after the loop looked
  stale         \* history: entries with a time that went by without them

schedulerVars == <<minute, turns, enabled, saved, next_run, loop,
          wanted, since, repeated, began, switched, stale>>

switches == <<enabled, saved, wanted>>

Long == -(Shift + 1)      \* a date so far in the past that no turn brings it back

SchedulerTypeOK ==
  /\ minute \in 0 .. Week - 1 /\ turns \in 0 .. MaxTurns
  /\ enabled \in [Entries -> BOOLEAN] /\ saved \in [Entries -> BOOLEAN]
  /\ next_run \in [Entries -> Long .. Week + MaxTurns * Shift]
  /\ loop \in [pc: {"awake", "asleep", "down"}] \cup [pc: {"task"}, nr: DOMAIN Order]
  /\ wanted \in [Entries -> {"on", "off", "unsure"}]
  /\ since \in [Entries -> -(MaxTurns * Shift) .. Shift]
  /\ repeated \subseteq Entries
  /\ began \in {0} \cup DOMAIN Order
  /\ switched \subseteq Entries /\ stale \subseteq Entries

Awake  == [pc |-> "awake"]
Asleep == [pc |-> "asleep"]
Down   == [pc |-> "down"]

\* Mutant: a time that is now counts as the next one.
compute_next_run_now(e) == Min({d \in 0 .. Week : (minute + d) % Week \in Times[e]})

\* Minutes from now to the next time of an entry; one that is now is over.
compute_next_run(e) == Min({d \in 1 .. Week : (minute + d) % Week \in Times[e]})

\* History: did the loop start it in this minute?
Ran(e) == since[e] = 0 /\ e \notin repeated

Word(b) == IF b THEN "on" ELSE "off"

SchedulerInit ==
  /\ minute \in 0 .. Week - 1 /\ turns = 0
  /\ saved \in [Entries -> BOOLEAN]
  /\ enabled = saved
  /\ next_run = [e \in Entries |-> compute_next_run(e)]
  /\ loop = Awake
  /\ wanted = [e \in Entries |-> Word(saved[e])]
  /\ since = [e \in Entries |-> Shift]
  /\ repeated = {} /\ began = 0 /\ switched = {} /\ stale = {}

-----------------------------------------------------------------------------
(* The loop *)

should_run_now(e) == enabled[e] /\ minute \in Times[e]

\* The entries from this one on are looked at without an await, until one is
\* due: its task is started and awaited.  After the last one the loop sleeps.
Pass(first) ==
  LET due == {i \in first .. Len(Order) : should_run_now(Order[i])}
      nr  == Min(due)
      e   == Order[nr] IN
  /\ \/ /\ due = {}
        /\ loop' = Asleep
        /\ UNCHANGED <<next_run, since, repeated, stale>>
     \/ /\ due # {}
        /\ loop' = [pc |-> "task", nr |-> nr]
        /\ next_run' = [next_run EXCEPT ![e] = compute_next_run(e)]
        /\ since' = [since EXCEPT ![e] = 0]
        /\ repeated' = repeated \ {e}
        /\ stale' = stale \ {e}
  /\ UNCHANGED <<minute, turns, began, switched>> /\ UNCHANGED switches

_tick == loop = Awake /\ Pass(1)

\* Mutant: an exception ends the tick, not only the task.
TaskEnds_raise(nr) ==
  /\ loop = [pc |-> "task", nr |-> nr]
  /\ Pass(nr + 1) \/ Pass(Len(Order) + 1)

\* Mutant: after a task the entries are looked at from the first one on.
TaskEnds_again(nr) ==
  /\ loop = [pc |-> "task", nr |-> nr]
  /\ Pass(1)

\* A task ends, or raises, which is logged: the loop goes on with the next entry.
TaskEnds(nr) ==
  /\ loop = [pc |-> "task", nr |-> nr]
  /\ Pass(nr + 1)

\* The next minute, which the sleep of the loop ends with and a task does not;
\* or local time is turned.  The loop looks at its entries within the minute.
Clock ==
  /\ loop # Awake
  /\ \E d \in {1} \cup (IF turns < MaxTurns THEN {1 + Shift, 1 - Shift} ELSE {}) :
       /\ minute' = (minute + d) % Week
       /\ turns' = turns + (IF d = 1 THEN 0 ELSE 1)
       /\ next_run' = [e \in Entries |-> Max({Long, next_run[e] - d})]
       /\ since' = [e \in Entries |-> Min({Shift, since[e] + d})]
       /\ repeated' = IF d >= 1 THEN repeated
                      ELSE repeated \cup {e \in Entries : since[e] + d <= 0}
       /\ stale' = IF d # 1 THEN Entries
                   ELSE stale \cup {e \in Entries : minute \in Times[e] /\ ~Ran(e)}
  /\ loop' = IF loop = Asleep THEN Awake ELSE loop
  /\ began' = IF loop.pc = "task" THEN loop.nr ELSE 0
  /\ switched' = {}
  /\ UNCHANGED switches

-----------------------------------------------------------------------------
(* The switches *)

\* Mutant: the switch is not written to the configuration.
api_scheduler_toggle_memory(e, on) ==
  /\ loop # Down
  /\ enabled' = [enabled EXCEPT ![e] = on]
  /\ wanted' = [wanted EXCEPT ![e] = Word(on)]
  /\ UNCHANGED saved
  /\ switched' = IF on /\ loop # Awake THEN switched \cup {e} ELSE switched
  /\ UNCHANGED <<minute, turns, next_run, loop, since, repeated, began, stale>>

\* The entry, then the configuration, whose writing may fail.
api_scheduler_toggle(e, on) ==
  /\ loop # Down
  /\ enabled' = [enabled EXCEPT ![e] = on]
  /\ \/ /\ saved' = enabled'
        /\ wanted' = [f \in Entries |-> IF f = e THEN Word(on) ELSE
                        IF wanted[f] = "unsure" THEN Word(enabled[f]) ELSE wanted[f]]
     \/ /\ Unwritable
        /\ wanted' = [wanted EXCEPT ![e] = "unsure"]
        /\ UNCHANGED saved
  /\ switched' = IF on /\ loop # Awake THEN switched \cup {e} ELSE switched
  /\ UNCHANGED <<minute, turns, next_run, loop, since, repeated, began, stale>>

\* The server stops; nothing is kept but the configuration.
Stop ==
  /\ loop # Down
  /\ loop' = Down
  /\ UNCHANGED <<minute, turns, next_run, since, repeated, began, switched, stale>>
  /\ UNCHANGED switches

\* Mutant: all entries are enabled, as build_scheduler makes them.
build_platform_scheduler_all ==
  /\ loop = Down
  /\ enabled' = [e \in Entries |-> TRUE]
  /\ next_run' = [e \in Entries |-> compute_next_run(e)]
  /\ loop' = Awake
  /\ since' = [e \in Entries |-> Shift]
  /\ repeated' = {} /\ began' = 0 /\ switched' = {} /\ stale' = {}
  /\ wanted' = [e \in Entries |-> IF wanted[e] = "unsure" THEN Word(saved[e]) ELSE wanted[e]]
  /\ UNCHANGED <<minute, turns, saved>>

\* It starts: the entries are made anew, and switched as the configuration says.
build_platform_scheduler ==
  /\ loop = Down
  /\ enabled' = saved
  /\ next_run' = [e \in Entries |-> compute_next_run(e)]
  /\ loop' = Awake
  /\ since' = [e \in Entries |-> Shift]
  /\ repeated' = {} /\ began' = 0 /\ switched' = {} /\ stale' = {}
  /\ wanted' = [e \in Entries |-> IF wanted[e] = "unsure" THEN Word(saved[e]) ELSE wanted[e]]
  /\ UNCHANGED <<minute, turns, saved>>

SchedulerNext ==
  \/ _tick \/ (\E nr \in DOMAIN Order : TaskEnds(nr)) \/ Clock
  \/ \E e \in Entries : \E on \in BOOLEAN : api_scheduler_toggle(e, on)
  \/ Stop \/ build_platform_scheduler

SchedulerSpec == SchedulerInit /\ [][SchedulerNext]_schedulerVars

-----------------------------------------------------------------------------
(* Properties *)

Place(e) == CHOOSE i \in DOMAIN Order : Order[i] = e

\* An entry that is wanted runs whenever it is due and the server is up.  But the
\* loop does not look at it in its minute if it still awaits an earlier task when
\* the minute ends, or if it awaited this one's or a later one's when the minute
\* began (Scheduler._tick).
SlotsExplained ==
  [][\A e \in Entries :
       /\ minute' # minute /\ loop # Down
       /\ wanted[e] = "on" /\ minute \in Times[e] /\ ~Ran(e)
       => \/ e \in switched
          \/ Place(e) <= began
          \/ loop.pc = "task" /\ loop.nr < Place(e)]_schedulerVars

\* The loop starts an entry only in its minute, once, and never one that was
\* switched off, also not after a restart.  A restart within the minute, or a
\* clock turned back over it, starts it once more.
StartsExplained ==
  [][\A nr \in DOMAIN Order : LET e == Order[nr] IN
       loop' = [pc |-> "task", nr |-> nr] /\ loop' # loop =>
         /\ minute \in Times[e] /\ wanted[e] # "off"
         /\ ~Ran(e)]_schedulerVars

\* The next run that the list shows is the next time of the entry, until one of its
\* times goes by without it or the clock is turned (next_run is computed by a start).
NextRunTrue ==
  \A e \in Entries \ stale : loop # Down =>
    \/ next_run[e] = compute_next_run(e)
    \/ next_run[e] = 0 /\ minute \in Times[e] /\ ~Ran(e)

\* The entries of the platform run when the list says, with the exceptions named.
PlatformRunsExplained == SlotsExplained /\ StartsExplained /\ [](SchedulerTypeOK /\ NextRunTrue)

=============================================================================
