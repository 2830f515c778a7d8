--------------------------- MODULE WatchdogProofs ---------------------------
(* What the watchdog reports, for any window and any time between rounds.   *)
EXTENDS Watchdog, TLAPS

(* A timer runs from the start of its streak on, exactly while it lasts.     *)
TimerOK(high, since, last, start, alert, t) ==
    /\ since <= last /\ last <= t /\ alert <= t
    /\ high <=> start # NoTime
    /\ high => since <= start /\ start <= t

(* A meter at time t: while an alert is open the recovery timer tells the   *)
(* length of a streak of low readings, while none is open the other timer   *)
(* that of a streak of high ones, and the latest alert lies before either.  *)
MeterOK(high, since, last, told, start, back, alert, isOpen, t) ==
    /\ TimerOK(high, since, last, start, alert, t)
    /\ back # NoTime => ~high /\ since <= back /\ back <= t
    /\ isOpen => alert # NoTime
    /\ isOpen /\ ~high => back = since /\ alert <= since
    /\ ~isOpen /\ high => start = since
    /\ ~isOpen /\ alert # NoTime =>
         /\ alert + SUSTAINED <= t
         /\ high => alert + SUSTAINED <= since
    /\ told /\ last - since >= SUSTAINED => isOpen = high

MeterInv(m) ==
    MeterOK(seen[m].high, seen[m].since, seen[m].last, seen[m].told,
            over[m], recover[m], raised[m], open[m], now)

(* The timer of the disk started with the streak or with the latest alert.  *)
DiskOK(high, since, last, told, start, alert, t) ==
    /\ TimerOK(high, since, last, start, alert, t)
    /\ high => start \in {since, alert} /\ alert <= start
    /\ high /\ told => last - start < SUSTAINED

DiskInv ==
    DiskOK(seen["disk"].high, seen["disk"].since, seen["disk"].last, seen["disk"].told,
           over["disk"], raised["disk"], now)

WatchInv == TypeOK /\ (\A m \in Meters : MeterInv(m)) /\ DiskInv

LEMMA SectionsType == First \in Resources \cup {"sleep"} /\ \A r : Following(r) \in Resources \cup {"sleep"}
BY DEF First, Following, Resources, Meters

LEMMA InitWatchInv == Init => WatchInv
<1> SUFFICES ASSUME Init PROVE WatchInv
  OBVIOUS
<1>1. SUSTAINED \in Nat /\ SUSTAINED > 0 /\ Meters \subseteq Resources /\ "disk" \in Resources
  BY WatchAssumption DEF Meters, Resources
<1>2. TypeOK
  <2>1. seen \in [Resources -> Streak]
    BY DEF Init, Streak
  <2>2. at \in Resources \cup {"sleep", "stopped"} /\ now \in Nat
    BY SectionsType DEF Init
  <2> QED BY <2>1, <2>2 DEF Init, TypeOK, Time
<1>3. ASSUME NEW m \in Meters PROVE MeterInv(m)
  <2>1. /\ ~seen[m].high /\ seen[m].since = 0 /\ seen[m].last = 0 /\ now = 0
        /\ over[m] = NoTime /\ recover[m] = NoTime /\ raised[m] = NoTime /\ ~open[m]
    BY <1>1 DEF Init
  <2> QED BY <1>1, <2>1 DEF MeterInv, MeterOK, TimerOK, NoTime
<1>4. DiskInv
  BY <1>1 DEF Init, DiskInv, DiskOK, TimerOK, NoTime
<1> QED BY <1>2, <1>3, <1>4 DEF WatchInv

(* The timers and streaks that a reading leaves behind. *)
LEMMA StartedType ==
    ASSUME TypeOK, NEW start \in Time, NEW condition \in BOOLEAN
    PROVE  Started(start, condition) \in Time
BY DEF Started, TypeOK, Time

SinceOf(r, high) == IF seen[r].high = high THEN seen[r].since ELSE now

LEMMA SawType ==
    ASSUME TypeOK, NEW r \in Resources, NEW high \in BOOLEAN, NEW told \in BOOLEAN,
           Saw(r, high, told)
    PROVE  /\ seen' \in [Resources -> Streak]
           /\ \A q \in Resources : q # r => seen'[q] = seen[q]
           /\ seen'[r].high = high /\ seen'[r].told = told /\ seen'[r].last = now
           /\ seen'[r].since = SinceOf(r, high)
<1> DEFINE s == [high |-> high, since |-> SinceOf(r, high),
                 last |-> now, told |-> told]
<1>1. seen \in [Resources -> Streak] /\ now \in Nat
  BY DEF TypeOK
<1>2. seen[r].since \in Nat
  BY <1>1 DEF Streak
<1>3. /\ s \in Streak /\ s.high = high /\ s.told = told /\ s.last = now
      /\ s.since = SinceOf(r, high)
  BY <1>1, <1>2 DEF Streak, SinceOf
<1>4. seen' = [seen EXCEPT ![r] = s]
  BY DEF Saw, SinceOf
<1> HIDE DEF s
<1> QED BY <1>1, <1>3, <1>4

(* A step of a meter leaves what belongs to the others alone. *)
LEMMA MeterMoves ==
    ASSUME WatchInv, NEW m \in Meters, NEW high \in BOOLEAN, NEW told \in BOOLEAN,
           Saw(m, high, told),
           NEW o \in Time, NEW c \in Time, NEW a \in Time, NEW b \in BOOLEAN,
           over' = [over EXCEPT ![m] = o], recover' = [recover EXCEPT ![m] = c],
           raised' = [raised EXCEPT ![m] = a], open' = [open EXCEPT ![m] = b],
           now' = now, at' \in Resources \cup {"sleep"},
           MeterOK(high, SinceOf(m, high), now, told, o, c, a, b, now)
    PROVE  WatchInv'
<1>1. /\ TypeOK /\ DiskInv /\ m \in Resources /\ m # "disk" /\ "disk" \in Resources
      /\ Meters \subseteq Resources
  BY DEF WatchInv, Meters, Resources
<1>2. /\ seen' \in [Resources -> Streak] /\ \A q \in Resources : q # m => seen'[q] = seen[q]
      /\ seen'[m].high = high /\ seen'[m].told = told /\ seen'[m].last = now
      /\ seen'[m].since = SinceOf(m, high)
  BY <1>1, SawType
<1>3. TypeOK'
  BY <1>1, <1>2 DEF TypeOK
<1>4. ASSUME NEW q \in Resources, q # m
      PROVE  /\ seen'[q] = seen[q] /\ over'[q] = over[q] /\ raised'[q] = raised[q]
             /\ q \in Meters => recover'[q] = recover[q] /\ open'[q] = open[q]
  BY <1>1, <1>2, <1>4 DEF TypeOK
<1>5. ASSUME NEW q \in Meters, q # m PROVE MeterInv(q)'
  <2>1. MeterInv(q) /\ q \in Resources
    BY <1>1 DEF WatchInv
  <2> QED BY <1>4, <1>5, <2>1 DEF MeterInv
<1>6. MeterInv(m)'
  <2>1. over'[m] = o /\ recover'[m] = c /\ raised'[m] = a /\ open'[m] = b
    BY <1>1 DEF TypeOK
  <2> QED BY <1>2, <2>1 DEF MeterInv
<1>7. DiskInv'
  BY <1>1, <1>4 DEF DiskInv
<1> QED BY <1>3, <1>5, <1>6, <1>7 DEF WatchInv

LEMMA MeterStep ==
    ASSUME WatchInv, NEW m \in Meters,
           \/ \E high \in BOOLEAN : Quiet(m, high)
           \/ Raise(m) \/ RaiseFails(m) \/ Recover(m) \/ RecoverFails(m)
    PROVE  WatchInv'
<1>1. /\ TypeOK /\ MeterInv(m) /\ m \in Resources
      /\ SUSTAINED \in Nat /\ SUSTAINED > 0
  BY WatchAssumption DEF WatchInv, Meters, Resources
<1>2. /\ over[m] \in Time /\ recover[m] \in Time /\ raised[m] \in Time /\ now \in Nat
      /\ now \in Time /\ NoTime \in Time /\ open[m] \in BOOLEAN
      /\ seen[m].high \in BOOLEAN /\ seen[m].since \in Nat /\ seen[m].last \in Nat
  BY <1>1 DEF TypeOK, Streak, Time
<1>3. Following(m) \in Resources \cup {"sleep"} /\ "sleep" \in Resources \cup {"sleep"}
  BY SectionsType
<1>4. [raised EXCEPT ![m] = raised[m]] = raised /\ [open EXCEPT ![m] = open[m]] = open
      /\ [recover EXCEPT ![m] = recover[m]] = recover
  BY <1>1 DEF TypeOK
<1>5. ASSUME NEW high \in BOOLEAN, Quiet(m, high) PROVE WatchInv'
  <2> DEFINE o == Started(over[m], high)
             c == Started(recover[m], ~high)
  <2>1. o \in Time /\ c \in Time
    BY <1>1, <1>2, StartedType
  <2>2. MeterOK(high, SinceOf(m, high), now, TRUE, o, c, raised[m], open[m], now)
    BY <1>1, <1>2, <1>5
    DEF Quiet, MeterInv, MeterOK, TimerOK, SinceOf, Started, Fires, Time, NoTime
  <2> HIDE DEF o, c
  <2>3. /\ over' = [over EXCEPT ![m] = o] /\ recover' = [recover EXCEPT ![m] = c]
        /\ raised' = [raised EXCEPT ![m] = raised[m]] /\ open' = [open EXCEPT ![m] = open[m]]
        /\ now' = now /\ at' = Following(m) /\ Saw(m, high, TRUE)
    BY <1>4, <1>5, ZenonT(40) DEF Quiet, o, c
  <2> QED BY <1>2, <1>3, <2>1, <2>2, <2>3, MeterMoves
<1>6. ASSUME Raise(m) PROVE WatchInv'
  <2>1. MeterOK(TRUE, SinceOf(m, TRUE), now, TRUE, now, NoTime, now, TRUE, now)
    BY <1>1, <1>2, <1>6
    DEF Raise, MeterInv, MeterOK, TimerOK, SinceOf, Started, Fires, Time, NoTime
  <2>2. /\ over' = [over EXCEPT ![m] = now] /\ recover' = [recover EXCEPT ![m] = NoTime]
        /\ raised' = [raised EXCEPT ![m] = now] /\ open' = [open EXCEPT ![m] = TRUE]
        /\ now' = now /\ at' = Following(m) /\ Saw(m, TRUE, TRUE)
    BY <1>6 DEF Raise
  <2> QED BY <1>2, <1>3, <2>1, <2>2, MeterMoves
<1>7. ASSUME RaiseFails(m) PROVE WatchInv'
  <2> DEFINE o == Started(over[m], TRUE)
  <2>1. o \in Time
    BY <1>1, <1>2, StartedType
  <2>2. MeterOK(TRUE, SinceOf(m, TRUE), now, FALSE, o, recover[m], raised[m], open[m], now)
    BY <1>1, <1>2, <1>7
    DEF RaiseFails, MeterInv, MeterOK, TimerOK, SinceOf, Started, Fires, Time, NoTime
  <2> HIDE DEF o
  <2>3. /\ over' = [over EXCEPT ![m] = o] /\ recover' = [recover EXCEPT ![m] = recover[m]]
        /\ raised' = [raised EXCEPT ![m] = raised[m]] /\ open' = [open EXCEPT ![m] = open[m]]
        /\ now' = now /\ at' = "sleep" /\ Saw(m, TRUE, FALSE)
    BY <1>4, <1>7 DEF RaiseFails, o
  <2> QED BY <1>2, <1>3, <2>1, <2>2, <2>3, MeterMoves
<1>8. ASSUME Recover(m) PROVE WatchInv'
  <2>1. MeterOK(FALSE, SinceOf(m, FALSE), now, TRUE, NoTime, NoTime, raised[m], FALSE, now)
    BY <1>1, <1>2, <1>8
    DEF Recover, MeterInv, MeterOK, TimerOK, SinceOf, Started, Fires, Time, NoTime
  <2>2. /\ over' = [over EXCEPT ![m] = NoTime] /\ recover' = [recover EXCEPT ![m] = NoTime]
        /\ raised' = [raised EXCEPT ![m] = raised[m]] /\ open' = [open EXCEPT ![m] = FALSE]
        /\ now' = now /\ at' = Following(m) /\ Saw(m, FALSE, TRUE)
    BY <1>4, <1>8 DEF Recover
  <2> QED BY <1>2, <1>3, <2>1, <2>2, MeterMoves
<1>9. ASSUME RecoverFails(m) PROVE WatchInv'
  <2> DEFINE c == Started(recover[m], TRUE)
  <2>1. c \in Time
    BY <1>1, <1>2, StartedType
  <2>2. MeterOK(FALSE, SinceOf(m, FALSE), now, FALSE, NoTime, c, raised[m], open[m], now)
    BY <1>1, <1>2, <1>9
    DEF RecoverFails, MeterInv, MeterOK, TimerOK, SinceOf, Started, Fires, Time, NoTime
  <2> HIDE DEF c
  <2>3. /\ over' = [over EXCEPT ![m] = NoTime] /\ recover' = [recover EXCEPT ![m] = c]
        /\ raised' = [raised EXCEPT ![m] = raised[m]] /\ open' = [open EXCEPT ![m] = open[m]]
        /\ now' = now /\ at' = "sleep" /\ Saw(m, FALSE, FALSE)
    BY <1>4, <1>9 DEF RecoverFails, c
  <2> QED BY <1>2, <1>3, <2>1, <2>2, <2>3, MeterMoves
<1> QED BY <1>5, <1>6, <1>7, <1>8, <1>9

LEMMA DiskStep ==
    ASSUME WatchInv,
           \/ \E high \in BOOLEAN : DiskQuiet(high)
           \/ DiskUnseen \/ DiskAlert \/ DiskAlertFails
    PROVE  WatchInv'
<1>1. /\ TypeOK /\ DiskInv /\ "disk" \in Resources /\ Meters \subseteq Resources
      /\ "disk" \notin Meters /\ SUSTAINED \in Nat /\ SUSTAINED > 0
  BY WatchAssumption DEF WatchInv, Meters, Resources
<1>2. /\ over["disk"] \in Time /\ raised["disk"] \in Time /\ now \in Nat /\ now \in Time
      /\ NoTime \in Time /\ seen["disk"].high \in BOOLEAN
      /\ seen["disk"].since \in Nat /\ seen["disk"].last \in Nat
  BY <1>1 DEF TypeOK, Streak, Time
<1>3. ASSUME NEW high \in BOOLEAN, NEW told \in BOOLEAN, Saw("disk", high, told),
             NEW o \in Time, NEW a \in Time,
             over' = [over EXCEPT !["disk"] = o], raised' = [raised EXCEPT !["disk"] = a],
             UNCHANGED <<now, recover, open>>, at' = "sleep",
             DiskOK(high, SinceOf("disk", high), now, told, o, a, now)
      PROVE  WatchInv'
  <2>1. /\ seen' \in [Resources -> Streak] /\ \A q \in Resources : q # "disk" => seen'[q] = seen[q]
        /\ seen'["disk"].high = high /\ seen'["disk"].told = told /\ seen'["disk"].last = now
        /\ seen'["disk"].since = SinceOf("disk", high)
    BY <1>1, <1>3, SawType
  <2>2. TypeOK'
    BY <1>1, <1>3, <2>1 DEF TypeOK
  <2>3. ASSUME NEW m \in Meters PROVE MeterInv(m)'
    <3>1. MeterInv(m) /\ m \in Resources /\ m # "disk"
      BY <1>1 DEF WatchInv
    <3>2. seen'[m] = seen[m] /\ over'[m] = over[m] /\ raised'[m] = raised[m]
      BY <1>1, <1>3, <2>1, <3>1 DEF TypeOK
    <3> QED BY <1>3, <3>1, <3>2 DEF MeterInv
  <2>4. over'["disk"] = o /\ raised'["disk"] = a
    BY <1>1, <1>3 DEF TypeOK
  <2>5. DiskInv'
    BY <1>3, <2>1, <2>4 DEF DiskInv
  <2> QED BY <2>2, <2>3, <2>5 DEF WatchInv
<1>4. [raised EXCEPT !["disk"] = raised["disk"]] = raised
  BY <1>1 DEF TypeOK
<1>5. ASSUME NEW high \in BOOLEAN, DiskQuiet(high) PROVE WatchInv'
  <2> DEFINE o == Started(over["disk"], high)
  <2>1. o \in Time
    BY <1>1, <1>2, StartedType
  <2>2. DiskOK(high, SinceOf("disk", high), now, TRUE, o, raised["disk"], now)
    BY <1>1, <1>2, <1>5 DEF DiskQuiet, DiskInv, DiskOK, TimerOK, SinceOf, Started, Fires, Time, NoTime
  <2> HIDE DEF o
  <2>3. /\ over' = [over EXCEPT !["disk"] = o] /\ raised' = [raised EXCEPT !["disk"] = raised["disk"]]
        /\ UNCHANGED <<now, recover, open>> /\ at' = "sleep" /\ Saw("disk", high, TRUE)
    BY <1>4, <1>5 DEF DiskQuiet, o
  <2> QED BY <1>2, <1>3, <2>1, <2>2, <2>3
<1>6. ASSUME DiskUnseen PROVE WatchInv'
  <2>1. DiskOK(FALSE, SinceOf("disk", FALSE), now, TRUE, NoTime, raised["disk"], now)
    BY <1>1, <1>2 DEF DiskInv, DiskOK, TimerOK, SinceOf, Time, NoTime
  <2>2. /\ over' = [over EXCEPT !["disk"] = NoTime] /\ raised' = [raised EXCEPT !["disk"] = raised["disk"]]
        /\ UNCHANGED <<now, recover, open>> /\ at' = "sleep" /\ Saw("disk", FALSE, TRUE)
    BY <1>4, <1>6 DEF DiskUnseen
  <2> QED BY <1>2, <1>3, <2>1, <2>2
<1>7. ASSUME DiskAlert PROVE WatchInv'
  <2>1. DiskOK(TRUE, SinceOf("disk", TRUE), now, TRUE, now, now, now)
    BY <1>1, <1>2 DEF DiskInv, DiskOK, TimerOK, SinceOf, Time, NoTime
  <2>2. /\ over' = [over EXCEPT !["disk"] = now] /\ raised' = [raised EXCEPT !["disk"] = now]
        /\ UNCHANGED <<now, recover, open>> /\ at' = "sleep" /\ Saw("disk", TRUE, TRUE)
    BY <1>7 DEF DiskAlert, DiskAlertTo
  <2> QED BY <1>2, <1>3, <2>1, <2>2
<1>8. ASSUME DiskAlertFails PROVE WatchInv'
  <2> DEFINE o == Started(over["disk"], TRUE)
  <2>1. o \in Time
    BY <1>1, <1>2, StartedType
  <2>2. DiskOK(TRUE, SinceOf("disk", TRUE), now, FALSE, o, raised["disk"], now)
    BY <1>1, <1>2 DEF DiskInv, DiskOK, TimerOK, SinceOf, Started, Time, NoTime
  <2> HIDE DEF o
  <2>3. /\ over' = [over EXCEPT !["disk"] = o] /\ raised' = [raised EXCEPT !["disk"] = raised["disk"]]
        /\ UNCHANGED <<now, recover, open>> /\ at' = "sleep" /\ Saw("disk", TRUE, FALSE)
    BY <1>4, <1>8 DEF DiskAlertFails, o
  <2> QED BY <1>2, <1>3, <2>1, <2>2, <2>3
<1> QED BY <1>5, <1>6, <1>7, <1>8

LEMMA StepWatchInv == WatchInv /\ [Next]_vars => WatchInv'
<1> SUFFICES ASSUME WatchInv, [Next]_vars PROVE WatchInv'
  OBVIOUS
<1>1. TypeOK /\ Meters \subseteq Resources /\ "disk" \in Resources
  BY DEF WatchInv, Meters, Resources
<1>2. CASE UNCHANGED vars \/ ReadFails \/ Stop
  <2>1. UNCHANGED <<now, over, recover, open, seen, raised>> /\ TypeOK'
    BY <1>1, <1>2 DEF vars, ReadFails, Stop, TypeOK
  <2> QED BY <1>1, <2>1 DEF WatchInv, MeterInv, DiskInv
<1>3. CASE Wake
  <2>1. /\ UNCHANGED <<over, recover, open, seen, raised>> /\ now' \in Nat /\ now' >= now /\ now \in Nat
        /\ SUSTAINED \in Nat
    BY <1>1, <1>3, WatchAssumption DEF Wake, TypeOK
  <2>2. TypeOK'
    BY <1>1, <1>3, <2>1, SectionsType DEF Wake, TypeOK
  <2>3. \A r \in Resources : /\ seen[r].since \in Nat /\ seen[r].last \in Nat
                             /\ over[r] \in Time /\ raised[r] \in Time
    BY <1>1 DEF TypeOK, Streak
  <2>4. ASSUME NEW m \in Meters PROVE MeterInv(m)'
    <3>1. MeterInv(m) /\ m \in Resources /\ recover[m] \in Time
      BY <1>1 DEF WatchInv, TypeOK
    <3> QED BY <2>1, <2>3, <3>1 DEF MeterInv, MeterOK, TimerOK, Time, NoTime
  <2>5. DiskInv'
    BY <1>1, <2>1, <2>3 DEF WatchInv, DiskInv, DiskOK, TimerOK, Time, NoTime
  <2> QED BY <2>2, <2>4, <2>5 DEF WatchInv
<1> QED BY <1>2, <1>3, MeterStep, DiskStep DEF Next

-----------------------------------------------------------------------------
(* Whatever fails and however late a round comes, CPU and RAM are reported  *)
(* high or recovered as soon as their readings agreed for a whole window,   *)
(* and a disk that stays short of space is reported in every window.        *)
THEOREM NothingGoesUnreported == Spec => [](LongStreakReported /\ DiskReminded)
<1>1. WatchInv => LongStreakReported /\ DiskReminded
  <2> SUFFICES ASSUME WatchInv PROVE LongStreakReported /\ DiskReminded
    OBVIOUS
  <2>1. TypeOK /\ DiskInv /\ "disk" \in Resources /\ SUSTAINED \in Nat
    BY WatchAssumption DEF WatchInv, Resources
  <2>2. /\ over["disk"] \in Time /\ raised["disk"] \in Time
        /\ seen["disk"].since \in Nat /\ seen["disk"].last \in Nat
    BY <2>1 DEF TypeOK, Streak
  <2>3. DiskReminded
    BY <2>1, <2>2 DEF DiskReminded, DiskInv, DiskOK, TimerOK, Time, NoTime
  <2>4. LongStreakReported
    BY DEF LongStreakReported, WatchInv, MeterInv, MeterOK
  <2> QED BY <2>3, <2>4
<1> QED BY <1>1, InitWatchInv, StepWatchInv, PTL DEF Spec

(* No storm of alerts, whatever the load does: the latest alert of a meter  *)
(* is two windows old when the next one is sent, that of the disk one.      *)
THEOREM AlertsAreSpaced == Spec => AlertsSpaced
<1> DEFINE Spaced == \A r \in Resources : raised[r] # NoTime /\ raised'[r] # raised[r] =>
                       raised'[r] - raised[r] >= IF r \in Meters THEN 2 * SUSTAINED ELSE SUSTAINED
<1>1. WatchInv /\ [Next]_vars => Spaced
  <2> SUFFICES ASSUME WatchInv, [Next]_vars, NEW r \in Resources,
                      raised[r] # NoTime, raised'[r] # raised[r]
               PROVE  raised'[r] - raised[r] >= IF r \in Meters THEN 2 * SUSTAINED ELSE SUSTAINED
    OBVIOUS
  <2>1. /\ TypeOK /\ SUSTAINED \in Nat /\ "disk" \notin Meters /\ Meters \subseteq Resources
    BY WatchAssumption DEF WatchInv, Meters, Resources
  <2>2. /\ now \in Nat /\ over[r] \in Time /\ raised[r] \in Time
        /\ seen[r].since \in Nat /\ seen[r].high \in BOOLEAN
    BY <2>1 DEF TypeOK, Streak
  <2>3. (\E m \in Meters : Raise(m)) \/ DiskAlert
    BY DEF Next, vars, Quiet, Recover, RaiseFails, RecoverFails, DiskQuiet, DiskUnseen,
           DiskAlertFails, ReadFails, Wake, Stop
  <2>4. CASE \E m \in Meters : Raise(m)
    <3>1. r \in Meters /\ Raise(r) /\ raised'[r] = now
      BY <2>1, <2>4 DEF Raise, TypeOK
    <3>2. MeterInv(r) /\ ~open[r] /\ Fires(over[r], TRUE)
      BY <3>1 DEF WatchInv, Raise
    <3> QED BY <2>1, <2>2, <3>1, <3>2 DEF MeterInv, MeterOK, TimerOK, Fires, Started, Time, NoTime
  <2>5. CASE DiskAlert
    <3>1. r = "disk" /\ raised'[r] = now /\ Fires(over[r], TRUE)
      BY <2>1, <2>5 DEF DiskAlert, DiskAlertTo, TypeOK
    <3> QED BY <2>1, <2>2, <3>1 DEF WatchInv, DiskInv, DiskOK, TimerOK, Fires, Started, Time, NoTime
  <2> QED BY <2>3, <2>4, <2>5
<1> QED BY <1>1, InitWatchInv, StepWatchInv, PTL DEF Spec, AlertsSpaced

(* Every report stands on a whole window of readings that agree: a reading  *)
(* on the other side, even in a round that failed later, restarts it.       *)
THEOREM ReportsAreSustained == Spec => ReportsSustained
<1> DEFINE Alerts == \A r \in Resources : raised'[r] # raised[r] =>
                       seen'[r].high /\ seen'[r].last - seen'[r].since >= SUSTAINED
           Recoveries == \A m \in Meters : open[m] /\ ~open'[m] =>
                           ~seen'[m].high /\ seen'[m].last - seen'[m].since >= SUSTAINED
<1>1. WatchInv /\ [Next]_vars => Alerts /\ Recoveries
  <2> SUFFICES ASSUME WatchInv, [Next]_vars PROVE Alerts /\ Recoveries
    OBVIOUS
  <2>1. /\ TypeOK /\ SUSTAINED \in Nat /\ SUSTAINED > 0 /\ Meters \subseteq Resources
        /\ "disk" \in Resources
    BY WatchAssumption DEF WatchInv, Meters, Resources
  <2>2. ASSUME NEW r \in Resources
        PROVE  /\ now \in Nat /\ over[r] \in Time /\ raised[r] \in Time
               /\ seen[r].since \in Nat /\ seen[r].high \in BOOLEAN
    BY <2>1 DEF TypeOK, Streak
  <2>3. ASSUME NEW r \in Resources, raised'[r] # raised[r]
        PROVE  seen'[r].high /\ seen'[r].last - seen'[r].since >= SUSTAINED
    <3>1. Fires(over[r], TRUE) /\ Saw(r, TRUE, TRUE)
      <4>1. (\E m \in Meters : Raise(m)) \/ DiskAlert
        BY <2>3 DEF Next, vars, Quiet, Recover, RaiseFails, RecoverFails, DiskQuiet, DiskUnseen,
                    DiskAlertFails, ReadFails, Wake, Stop
      <4>2. CASE \E m \in Meters : Raise(m)
        BY <2>1, <2>3, <4>2 DEF Raise, TypeOK
      <4>3. CASE DiskAlert
        BY <2>1, <2>3, <4>3 DEF DiskAlert, DiskAlertTo, TypeOK
      <4> QED BY <4>1, <4>2, <4>3
    <3>2. seen'[r].high = TRUE /\ seen'[r].last = now /\ seen'[r].since = SinceOf(r, TRUE)
      BY <2>1, <2>3, <3>1, SawType
    <3>3. seen[r].high => seen[r].since <= over[r] /\ over[r] # NoTime
      BY <2>3 DEF WatchInv, MeterInv, MeterOK, DiskInv, DiskOK, TimerOK, Resources
    <3>4. over[r] # NoTime => seen[r].high
      BY <2>3 DEF WatchInv, MeterInv, MeterOK, DiskInv, DiskOK, TimerOK, Resources
    <3> QED BY <2>1, <2>2, <2>3, <3>1, <3>2, <3>3, <3>4 DEF SinceOf, Fires, Started, Time, NoTime
  <2>4. ASSUME NEW m \in Meters, open[m], ~open'[m]
        PROVE  ~seen'[m].high /\ seen'[m].last - seen'[m].since >= SUSTAINED
    <3>1. Fires(recover[m], TRUE) /\ Saw(m, FALSE, TRUE) /\ m \in Resources /\ recover[m] \in Time
      <4>1. \E q \in Meters : Recover(q)
        BY <2>1, <2>4 DEF Next, vars, Quiet, Raise, RaiseFails, RecoverFails, DiskQuiet, DiskUnseen,
                    DiskAlert, DiskAlertTo, DiskAlertFails, ReadFails, Wake, Stop, TypeOK
      <4>2. Recover(m)
        BY <2>1, <2>4, <4>1 DEF Recover, TypeOK
      <4> QED BY <2>1, <2>4, <4>2 DEF Recover, TypeOK
    <3>2. seen'[m].high = FALSE /\ seen'[m].last = now /\ seen'[m].since = SinceOf(m, FALSE)
      BY <2>1, <3>1, SawType
    <3>3. recover[m] # NoTime => ~seen[m].high /\ seen[m].since <= recover[m]
      BY <2>4 DEF WatchInv, MeterInv, MeterOK
    <3> QED BY <2>1, <2>2, <2>4, <3>1, <3>2, <3>3 DEF SinceOf, Fires, Started, Time, NoTime
  <2> QED BY <2>3, <2>4
<1> QED BY <1>1, InitWatchInv, StepWatchInv, PTL DEF Spec, ReportsSustained
=============================================================================
