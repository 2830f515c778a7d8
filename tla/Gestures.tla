------------------------------ MODULE Gestures ------------------------------
(***************************************************************************)
(* GestureHandler of novnc-ui/core/input/gesturehandler.js: touches of a   *)
(* screen come in, gestures (tap, drag, long press, pinch) go out.         *)
(* The bit mask of gestures that are still possible is a set, empty for    *)
(* GH_NOGESTURE and full for GH_INITSTATE.  Coordinates are abstracted to  *)
(* whether a touch is further from its start than GH_MOVE_THRESHOLD; what  *)
(* angles and distances decide is left open.  The time since the first     *)
(* touch and since the first release is counted in ticks.                  *)
(***************************************************************************)
EXTENDS Integers, Sequences, FiniteSets

CONSTANTS Touches,             \* identifiers of the fingers
          MULTITOUCH_TIMEOUT,  \* GH_MULTITOUCH_TIMEOUT in ticks
          TAP_TIMEOUT          \* GH_TAP_TIMEOUT, and GH_LONGPRESS_TIMEOUT, in ticks

ASSUME TimeoutsAssumption ==
    /\ MULTITOUCH_TIMEOUT \in Nat
    /\ TAP_TIMEOUT \in Nat
    /\ MULTITOUCH_TIMEOUT < TAP_TIMEOUT

VARIABLES
    state,           \* _state: the gestures that are still possible
    tracked,         \* _tracked: touches of the gesture, in the order they came
    ignored,         \* _ignored: touches that belong to no gesture
    waitingRelease,  \* _waitingRelease: a touch of a tap was lifted
    age,             \* ticks since _tracked[0].started
    released,        \* ticks since _releaseStart
    longpress,       \* the timer behind _longpressTimeoutId is pending
    twoTouch,        \* _twoTouchTimeoutId: "null", "armed", or "fired" and still set
    attached,        \* _target is set
    down,            \* the fingers on the screen
    emitted,         \* the events the last handler dispatched, in order
    open             \* the gesture whose start was dispatched last and not its end

gvars == <<state, tracked, ignored, waitingRelease, age, released, longpress,
           twoTouch, attached, down, emitted, open>>

Taps     == {"onetap", "twotap", "threetap"}
TwoMoves == {"twodrag", "pinch"}
Moves    == {"drag"} \cup TwoMoves
Gesture  == Taps \cup Moves \cup {"longpress"}

Ids    == {tracked[i].id : i \in DOMAIN tracked}
Active == {tracked[i].id : i \in {j \in DOMAIN tracked : tracked[j].active}}

\* _hasDetectedGesture: one gesture is left, and a tap has no finger down.
HasDetected(s, touches) ==
    /\ Cardinality(s) = 1
    /\ s \subseteq Taps => \A i \in DOMAIN touches : ~touches[i].active

Detected == HasDetected(state, tracked)

\* The event a gesture's start, move and end are dispatched as; s has one member.
Push(s, types) == [i \in DOMAIN types |-> [type |-> types[i], gesture |-> CHOOSE g \in s : TRUE]]

\* What is open after events es.
OpenAfter(es) ==
    IF es = <<>> THEN open
    ELSE IF es[Len(es)].type = "gestureend" THEN "none" ELSE es[Len(es)].gesture

Dispatch(es) == emitted' = es /\ open' = OpenAfter(es)

GInit ==
    /\ state = Gesture /\ tracked = <<>> /\ ignored = {}
    /\ waitingRelease = FALSE /\ age = 0 /\ released = 0
    /\ longpress = FALSE /\ twoTouch = "null" /\ attached = TRUE
    /\ down = {} /\ emitted = <<>> /\ open = "none"

(***************************************************************************)
(* touchstart                                                              *)
(***************************************************************************)

\* Faulty variant: the finger ends the gesture that is active.
TouchIgnoredClears(t) ==
    /\ \/ Detected \/ state = {}
       \/ tracked # <<>> /\ age > MULTITOUCH_TIMEOUT
       \/ waitingRelease
    /\ ignored' = ignored \cup {t} /\ state' = {}
    /\ UNCHANGED <<tracked, age, longpress>>

\* A gesture is active, none is possible, the finger comes too late, or others lift already.
TouchIgnored(t) ==
    /\ \/ Detected \/ state = {}
       \/ tracked # <<>> /\ age > MULTITOUCH_TIMEOUT
       \/ waitingRelease
    /\ ignored' = ignored \cup {t}
    /\ state' = IF Detected THEN state ELSE {}
    /\ UNCHANGED <<tracked, age, longpress>>

TouchTracked(t) ==
    /\ ~Detected /\ state # {} /\ ~waitingRelease
    /\ tracked # <<>> => age <= MULTITOUCH_TIMEOUT
    /\ tracked' = Append(tracked, [id |-> t, active |-> TRUE, far |-> FALSE])
    /\ LET n == Len(tracked') IN
        /\ state' = CASE n = 1 -> state
                      [] n = 2 -> state \ {"onetap", "drag", "longpress"}
                      [] n = 3 -> state \ ({"twotap"} \cup TwoMoves)
                      [] OTHER -> {}
        /\ longpress' = IF n = 1 THEN TRUE ELSE IF n = 2 THEN FALSE ELSE longpress
        /\ age' = IF n = 1 THEN 0 ELSE age
    /\ UNCHANGED ignored

TouchStart(t) ==
    /\ attached /\ t \notin down
    /\ down' = down \cup {t}
    /\ TouchIgnored(t) \/ TouchTracked(t)
    /\ Dispatch(<<>>)
    /\ UNCHANGED <<waitingRelease, released, twoTouch, attached>>

(***************************************************************************)
(* touchmove                                                               *)
(***************************************************************************)

\* What a move beyond the threshold leaves possible with n touches.
StillPossible(s, n) ==
    ((s \ (Taps \cup {"longpress"})) \ (IF n # 1 THEN {"drag"} ELSE {}))
        \ (IF n # 2 THEN TwoMoves ELSE {})

\* Two touches: when both are far the angle decides, else a timer will.
DecideTwo(s, i, decided) ==
    LET other == 3 - i IN
    IF Len(tracked) # 2 THEN decided = s /\ UNCHANGED twoTouch
    ELSE IF tracked[other].far
         THEN (\E g \in TwoMoves : decided = s \ {g}) /\ twoTouch' = "null"
         ELSE decided = s /\ twoTouch' = IF twoTouch = "null" THEN "armed" ELSE twoTouch

TouchMove(t, far) ==
    /\ attached /\ t \in Ids \cap down
    /\ LET i == CHOOSE j \in DOMAIN tracked : tracked[j].id = t IN
        /\ tracked' = [tracked EXCEPT ![i].far = far]
        /\ \/ /\ Detected
              /\ Dispatch(Push(state, <<"gesturemove">>))
              /\ UNCHANGED <<state, longpress, twoTouch>>
           \/ /\ ~Detected /\ ~far
              /\ Dispatch(<<>>)
              /\ UNCHANGED <<state, longpress, twoTouch>>
           \/ /\ ~Detected /\ far
              /\ longpress' = FALSE
              /\ \E s \in SUBSET state :
                    /\ DecideTwo(StillPossible(state, Len(tracked)), i, s)
                    /\ state' = s
                    /\ Dispatch(IF HasDetected(s, tracked)
                                THEN Push(s, <<"gesturestart", "gesturemove">>) ELSE <<>>)
    /\ UNCHANGED <<ignored, waitingRelease, age, released, attached, down>>

(***************************************************************************)
(* touchend and touchcancel                                                *)
(***************************************************************************)

\* The finger belongs to no gesture; the last one of these resets the state.
IgnoredEnd(t) ==
    /\ t \in ignored
    /\ ignored' = ignored \ {t}
    /\ IF ignored' = {} /\ tracked = <<>>
       THEN state' = Gesture /\ waitingRelease' = FALSE
       ELSE UNCHANGED <<state, waitingRelease>>
    /\ Dispatch(<<>>)
    /\ UNCHANGED <<tracked, released, longpress, twoTouch>>

\* Faulty variant: the number of fingers is not looked at.
AfterReleaseAnyNumber(s, n) == s \ (Moves \cup {"longpress"})

\* What a first release leaves possible when nothing was detected before it.
AfterRelease(s, n) ==
    (s \ (Moves \cup {"longpress"}))
        \ (IF waitingRelease THEN {}
           ELSE CASE n = 1 -> {"twotap", "threetap"}
                  [] n = 2 -> {"onetap", "threetap"}
                  [] OTHER -> {})

\* Too slow between the releases, or between the first touch and now.
TooSlow == (waitingRelease /\ released > MULTITOUCH_TIMEOUT) \/ age > TAP_TIMEOUT

\* Other fingers of the gesture become ignored; without any ignored the state is reset.
Cleanup(others, waiting) ==
    /\ tracked' = <<>>
    /\ ignored' = ignored \cup others
    /\ state' = IF ignored' = {} THEN Gesture ELSE {}
    /\ waitingRelease' = (ignored' # {} /\ waiting)

TrackedEnd(t) ==
    /\ t \notin ignored
    /\ LET i     == CHOOSE j \in DOMAIN tracked : tracked[j].id = t
           stale == ~Detected /\ twoTouch # "null"
           s0    == IF stale THEN {} ELSE state
           early == HasDetected(s0, tracked)
           s1    == IF early THEN s0 ELSE AfterRelease(s0, Len(tracked))
           tap   == ~early \/ waitingRelease
           s2    == IF tap /\ TooSlow THEN {} ELSE s1
           left  == [tracked EXCEPT ![i].active = FALSE]
           over  == HasDetected(s2, IF tap THEN left ELSE tracked)
       IN /\ twoTouch' = IF stale THEN "null" ELSE twoTouch
          /\ longpress' = IF early THEN longpress ELSE FALSE
          /\ released' = IF ~early /\ ~waitingRelease THEN 0 ELSE released
          /\ IF tap /\ ~over /\ s2 # {}
             THEN /\ tracked' = left /\ state' = s2 /\ waitingRelease' = TRUE
                  /\ Dispatch(<<>>) /\ UNCHANGED ignored
             ELSE /\ Dispatch(IF ~over THEN <<>>
                              ELSE Push(s2, IF tap THEN <<"gesturestart", "gestureend">>
                                                   ELSE <<"gestureend">>))
                  /\ Cleanup(Active \ {t}, waitingRelease \/ ~early)

TouchEnd(t) ==
    /\ attached /\ t \in down
    /\ down' = down \ {t}
    /\ IgnoredEnd(t) \/ TrackedEnd(t)
    /\ UNCHANGED <<age, attached>>

(***************************************************************************)
(* Timers, the clock and detach                                            *)
(***************************************************************************)

\* A timer may come late; when it finds a gesture detected already, it throws.
LongpressTimeout ==
    /\ longpress /\ age >= TAP_TIMEOUT /\ ~Detected
    /\ longpress' = FALSE
    /\ state' = {"longpress"}
    /\ Dispatch(Push(state', <<"gesturestart">>))
    /\ UNCHANGED <<tracked, ignored, waitingRelease, age, released, twoTouch, attached, down>>

\* The identifier of the timer stays set.
TwoTouchTimeout ==
    /\ twoTouch = "armed" /\ tracked # <<>>
    /\ twoTouch' = "fired"
    /\ \E g \in TwoMoves : state' = {g}
    /\ Dispatch(Push(state', <<"gesturestart", "gesturemove">>))
    /\ UNCHANGED <<tracked, ignored, waitingRelease, age, released, longpress, attached, down>>

Older(n) == IF n > TAP_TIMEOUT THEN n ELSE n + 1

Tick ==
    /\ attached /\ tracked # <<>>
    /\ age' = Older(age)
    /\ released' = IF waitingRelease THEN Older(released) ELSE 0
    /\ Dispatch(<<>>)
    /\ UNCHANGED <<state, tracked, ignored, waitingRelease, longpress, twoTouch, attached, down>>

\* detach, called when the connection ends.
Detach ==
    /\ attached /\ attached' = FALSE
    /\ longpress' = FALSE /\ twoTouch' = "null"
    /\ Dispatch(<<>>)
    /\ UNCHANGED <<state, tracked, ignored, waitingRelease, age, released, down>>

\* A step of something else dispatches no gesture event.
NoTouch ==
    /\ emitted' = <<>>
    /\ UNCHANGED <<state, tracked, ignored, waitingRelease, age, released, longpress,
                   twoTouch, attached, down, open>>

\* _eventHandler calls the handler once for each touch that changed.
Touch ==
    \E t \in Touches :
        \/ TouchStart(t)
        \/ \E far \in BOOLEAN : TouchMove(t, far)
        \/ TouchEnd(t)
=============================================================================
