------------------------------ MODULE Watchdog ------------------------------
(***************************************************************************)
(* resource_watchdog of app/observability/utils_observability.py: one loop *)
(* that reads CPU, RAM and the free space of the disk, in this order, and  *)
(* reports what was too high, or has recovered, for SUSTAINED seconds.     *)
(*                                                                         *)
(* The loop shares the event loop with handlers that may hold it for long, *)
(* so the time between two rounds is INTERVAL or more.  An exception ends  *)
(* the round: what comes later in it is not read.                          *)
(***************************************************************************)
EXTENDS Integers

CONSTANTS
    SUSTAINED,  \* seconds a condition must hold
    Gaps,       \* seconds from one round to the next
    MaxTime,    \* bound: seconds watched
    Watched     \* bound: the resources of an instance; the program reads all three

Meters == {"cpu", "ram"}
Resources == Meters \cup {"disk"}

ASSUME WatchAssumption ==
    /\ SUSTAINED \in Nat \ {0} /\ Gaps \subseteq Nat /\ MaxTime \in Nat
    /\ Watched \subseteq Resources

VARIABLES
    now,      \* utcnow() of the round, which is taken not to run backwards
    at,       \* the section of the round that comes next
    over,     \* [Resources -> Time]: over_cpu, over_ram, over_disk_free
    recover,  \* [Meters -> Time]: cpu_recover, ram_recover
    open,     \* [Meters -> BOOLEAN]: cpu_alert_open, ram_alert_open
    (* What was read and reported, for the properties.                      *)
    seen,     \* [Resources -> Streak]: the latest readings that agree
    raised    \* [Resources -> Time]: when the latest alert was sent

vars == <<now, at, over, recover, open, seen, raised>>

NoTime == -1
Time == Nat \cup {NoTime}

(* Readings on one side of the threshold, from the first to the last; told  *)
(* is FALSE when what there was to report after the last one failed.        *)
Streak == [high : BOOLEAN, since : Nat, last : Nat, told : BOOLEAN]

TypeOK ==
    /\ now \in Nat
    /\ at \in Resources \cup {"sleep", "stopped"}
    /\ over \in [Resources -> Time]
    /\ recover \in [Meters -> Time]
    /\ open \in [Meters -> BOOLEAN]
    /\ seen \in [Resources -> Streak]
    /\ raised \in [Resources -> Time]

(* The sections of a round. *)
Following(r) ==
    IF r = "cpu" /\ "ram" \in Watched THEN "ram"
    ELSE IF r \in Meters /\ "disk" \in Watched THEN "disk" ELSE "sleep"
First == IF "cpu" \in Watched THEN "cpu" ELSE Following("cpu")

Init ==
    /\ now = 0 /\ at = First
    /\ over = [r \in Resources |-> NoTime]
    /\ recover = [m \in Meters |-> NoTime]
    /\ open = [m \in Meters |-> FALSE]
    /\ seen = [r \in Resources |-> [high |-> FALSE, since |-> 0, last |-> 0, told |-> TRUE]]
    /\ raised = [r \in Resources |-> NoTime]

(* Faulty variants of Started: the timer survives a reading that ends the   *)
(* condition, or starts anew at each reading.                               *)
StartedKept(start, condition) == IF condition /\ start = NoTime THEN now ELSE start
StartedAnew(start, condition) == IF condition THEN now ELSE NoTime

(* _sustained: the start of the condition. *)
Started(start, condition) ==
    IF ~condition THEN NoTime ELSE IF start = NoTime THEN now ELSE start

(* _sustained: the condition has held for the whole window. *)
Fires(start, condition) == condition /\ now - Started(start, condition) >= SUSTAINED

Saw(r, high, told) ==
    seen' = [seen EXCEPT ![r] =
        [high |-> high, since |-> IF @.high = high THEN @.since ELSE now,
         last |-> now, told |-> told]]

-----------------------------------------------------------------------------
(* CPU and RAM. *)

(* A reading with nothing to report. *)
Quiet(m, high) ==
    /\ at = m
    /\ ~(Fires(over[m], high) /\ ~open[m])
    /\ ~(Fires(recover[m], ~high) /\ open[m])
    /\ over' = [over EXCEPT ![m] = Started(@, high)]
    /\ recover' = [recover EXCEPT ![m] = Started(@, ~high)]
    /\ Saw(m, high, TRUE) /\ at' = Following(m)
    /\ UNCHANGED <<now, open, raised>>

(* The alert; both timers start from here. *)
Raise(m) ==
    /\ at = m
    /\ Fires(over[m], TRUE) /\ ~open[m]
    /\ open' = [open EXCEPT ![m] = TRUE]
    /\ over' = [over EXCEPT ![m] = now]
    /\ recover' = [recover EXCEPT ![m] = NoTime]
    /\ raised' = [raised EXCEPT ![m] = now]
    /\ Saw(m, TRUE, TRUE) /\ at' = Following(m)
    /\ UNCHANGED now

(* The message of recovery. *)
Recover(m) ==
    /\ at = m
    /\ Fires(recover[m], TRUE) /\ open[m]
    /\ open' = [open EXCEPT ![m] = FALSE]
    /\ over' = [over EXCEPT ![m] = NoTime]
    /\ recover' = [recover EXCEPT ![m] = NoTime]
    /\ Saw(m, FALSE, TRUE) /\ at' = Following(m)
    /\ UNCHANGED <<now, raised>>

(* capture_message, or the sum over the QEMU processes, raises: the flag is *)
(* not set, the recovery timer not looked at, and the next round retries.   *)
RaiseFails(m) ==
    /\ at = m
    /\ Fires(over[m], TRUE) /\ ~open[m]
    /\ over' = [over EXCEPT ![m] = Started(@, TRUE)]
    /\ Saw(m, TRUE, FALSE) /\ at' = "sleep"
    /\ UNCHANGED <<now, recover, open, raised>>

RecoverFails(m) ==
    /\ at = m
    /\ Fires(recover[m], TRUE) /\ open[m]
    /\ over' = [over EXCEPT ![m] = NoTime]
    /\ recover' = [recover EXCEPT ![m] = Started(@, TRUE)]
    /\ Saw(m, FALSE, FALSE) /\ at' = "sleep"
    /\ UNCHANGED <<now, open, raised>>

-----------------------------------------------------------------------------
(* The disk, whose alert is repeated while the space is short. *)

DiskQuiet(high) ==
    /\ at = "disk" /\ ~Fires(over["disk"], high)
    /\ over' = [over EXCEPT !["disk"] = Started(@, high)]
    /\ Saw("disk", high, TRUE) /\ at' = "sleep"
    /\ UNCHANGED <<now, recover, open, raised>>

(* No partition, or one that cannot be looked at: the timer is dropped.     *)
DiskUnseen ==
    /\ at = "disk"
    /\ over' = [over EXCEPT !["disk"] = NoTime]
    /\ Saw("disk", FALSE, TRUE) /\ at' = "sleep"
    /\ UNCHANGED <<now, recover, open, raised>>

DiskAlertTo(start) ==
    /\ at = "disk" /\ Fires(over["disk"], TRUE)
    /\ over' = [over EXCEPT !["disk"] = start]
    /\ raised' = [raised EXCEPT !["disk"] = now]
    /\ Saw("disk", TRUE, TRUE) /\ at' = "sleep"
    /\ UNCHANGED <<now, recover, open>>

(* Faulty variants: the window is not, or not fully, opened again. *)
DiskAlertAlways == DiskAlertTo(Started(over["disk"], TRUE))
DiskAlertDrops == DiskAlertTo(NoTime)

DiskAlert == DiskAlertTo(now)

DiskAlertFails ==
    /\ at = "disk" /\ Fires(over["disk"], TRUE)
    /\ over' = [over EXCEPT !["disk"] = Started(@, TRUE)]
    /\ Saw("disk", TRUE, FALSE) /\ at' = "sleep"
    /\ UNCHANGED <<now, recover, open, raised>>

-----------------------------------------------------------------------------
(* Reading the resource raises. *)
ReadFails ==
    /\ at \in Resources
    /\ at' = "sleep"
    /\ UNCHANGED <<now, over, recover, open, seen, raised>>

Wake ==
    /\ at = "sleep"
    /\ \E gap \in Gaps : now + gap <= MaxTime /\ now' = now + gap
    /\ at' = First
    /\ UNCHANGED <<over, recover, open, seen, raised>>

(* stop_event ends the sleep and the loop. *)
Stop ==
    /\ at = "sleep" /\ at' = "stopped"
    /\ UNCHANGED <<now, over, recover, open, seen, raised>>

Next ==
    \/ \E m \in Meters :
         \/ \E high \in BOOLEAN : Quiet(m, high)
         \/ Raise(m) \/ RaiseFails(m)
         \/ Recover(m) \/ RecoverFails(m)
    \/ \E high \in BOOLEAN : DiskQuiet(high)
    \/ DiskUnseen \/ DiskAlert \/ DiskAlertFails
    \/ ReadFails
    \/ Wake \/ Stop

Spec == Init /\ [][Next]_vars

-----------------------------------------------------------------------------
(* An alert, or a message of recovery, is sent only when every reading of   *)
(* the last SUSTAINED seconds was on its side of the threshold: a single    *)
(* reading on the other side starts the window again.                       *)
ReportsSustained ==
    [][/\ \A r \in Resources : raised'[r] # raised[r] =>
            seen'[r].high /\ seen'[r].last - seen'[r].since >= SUSTAINED
       /\ \A m \in Meters : open[m] /\ ~open'[m] =>
            ~seen'[m].high /\ seen'[m].last - seen'[m].since >= SUSTAINED]_vars

(* The other way round: once the readings of CPU or RAM agreed for          *)
(* SUSTAINED seconds and no report of the last one failed, the alert is     *)
(* open when they are high and closed when they are not, whatever happened  *)
(* in the rounds before and in the sections of the other resources.         *)
LongStreakReported ==
    \A m \in Meters : seen[m].told /\ seen[m].last - seen[m].since >= SUSTAINED =>
        open[m] = seen[m].high

(* A host whose load swings round the threshold sends no storm of alerts:   *)
(* two alerts of one meter have a recovery between them and are at least    *)
(* two windows apart, two alerts of the disk one window.                    *)
AlertsSpaced ==
    [][\A r \in Resources : raised[r] # NoTime /\ raised'[r] # raised[r] =>
         raised'[r] - raised[r] >= IF r \in Meters THEN 2 * SUSTAINED ELSE SUSTAINED]_vars

(* While the disk stays short of space, no window passes without an alert.  *)
DiskReminded ==
    LET s == seen["disk"] IN
    s.high /\ s.told /\ s.last - s.since >= SUSTAINED =>
        raised["disk"] # NoTime /\ s.last - raised["disk"] < SUSTAINED
=============================================================================
