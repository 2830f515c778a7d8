------------------------------ MODULE Pointer ------------------------------
(***************************************************************************)
(* Mouse, wheel and gestures of novnc-ui/core/rfb.js: what the server is   *)
(* told about the pointer.  Gestures dispatches its events synchronously,  *)
(* so a step of GestureHandler includes what RFB makes of its events.      *)
(* A button mask is the set of its bits.  Distances and delays are open:   *)
(* whether a viewport drag has passed dragThreshold, whether the last move *)
(* is less than MOUSE_MOVE_DELAY ago, which way a pinch scrolls.           *)
(***************************************************************************)
EXTENDS Gestures

CONSTANTS Points,       \* positions on the canvas
          Buttons,      \* buttons of the mouse, as bits of MouseEvent.buttons
          WheelDeltas,  \* pairs of deltas of a wheel event; WHEEL_STEP is 2
          Devices       \* what a behaviour may use: subsets of {"mouse", "touch"}

ASSUME PointerAssumption ==
    /\ Points # {}
    /\ Buttons \subseteq 0..4
    /\ WheelDeltas \subseteq Int \X Int
    /\ Devices \subseteq (SUBSET {"mouse", "touch"}) \ {{}}

VARIABLES
    rfb,       \* the fields of RFB and what it sent last, see RfbInit
    buttons,   \* the mouse buttons that are held
    inside,    \* the mouse is over the canvas
    captured,  \* document.captureElement is set
    chord,     \* two buttons have been held at once
    mode       \* dragViewport, extended pointer events, and the devices: fixed

pvars == <<rfb, buttons, inside, captured, chord, mode>>
vars  == <<gvars, pvars>>

\* _convertButtonMask: left, right, middle, back, forward.
MaskBit == [b \in 0..4 |-> CASE b = 0 -> 0 [] b = 1 -> 2 [] b = 2 -> 1 [] b = 3 -> 7 [] OTHER -> 8]

Mask(bs) == {MaskBit[b] : b \in bs}

RfbInit == [mask |-> {}, timer |-> FALSE, pos |-> CHOOSE q \in Points : TRUE,
            dragging |-> FALSE, hasMoved |-> FALSE, accX |-> 0, accY |-> 0,
            sent |-> [mask |-> {}, pos |-> CHOOSE q \in Points : TRUE],
            want |-> CHOOSE q \in Points : TRUE]

(***************************************************************************)
(* Sending: operators from the fields of RFB to the fields of RFB          *)
(***************************************************************************)

\* pointerEvent cuts the mask to seven bits; extendedPointerEvent sends two more.
SendMouse(p, q, m) ==
    [p EXCEPT !.sent = [mask |-> IF mode.extended THEN m ELSE m \ {7, 8}, pos |-> q], !.want = q]

FlushTimer(p, q) == IF p.timer THEN SendMouse([p EXCEPT !.timer = FALSE], q, p.mask) ELSE p

MouseButton(p, q, m) == SendMouse([FlushTimer(p, q) EXCEPT !.mask = m], q, m)

Click(p, q, m, rest) == MouseButton(MouseButton(p, q, m), q, rest)

\* Faulty variant: a move that finds the timer running is dropped.
MouseMoveDropped(p, q, soon) ==
    IF p.timer THEN [p EXCEPT !.want = q]
    ELSE IF soon THEN [p EXCEPT !.pos = q, !.want = q, !.timer = TRUE]
    ELSE SendMouse([p EXCEPT !.pos = q], q, p.mask)

\* _handleMouseMove; soon: the last move was sent less than MOUSE_MOVE_DELAY ago.
MouseMove(p, q, soon) ==
    IF p.timer THEN [p EXCEPT !.pos = q, !.want = q]
    ELSE IF soon THEN [p EXCEPT !.pos = q, !.want = q, !.timer = TRUE]
    ELSE SendMouse([p EXCEPT !.pos = q], q, p.mask)

(***************************************************************************)
(* Gestures                                                                *)
(***************************************************************************)

\* A tap moves the pointer, presses and releases; a pinch scrolls with Control held.
TapMask == [onetap |-> {0}, twotap |-> {2}, threetap |-> {1}]

GestureStart(p, g, q, soon) ==
    IF g \in {"drag", "longpress"} /\ mode.dragViewport
    THEN [p EXCEPT !.hasMoved = FALSE, !.dragging = (g = "drag") \/ @]
    ELSE LET moved == MouseMove(p, q, soon) IN
         CASE g \in Taps      -> Click(moved, q, TapMask[g], {})
           [] g = "drag"      -> MouseButton(moved, q, {0})
           [] g = "longpress" -> MouseButton(moved, q, {2})
           [] OTHER           -> moved

\* bit is the wheel button of a scroll, or -1 when the fingers moved too little.
GestureMove(p, g, q, soon, beyond, bit) ==
    IF g \in {"drag", "longpress"}
    THEN IF mode.dragViewport THEN [p EXCEPT !.dragging = TRUE, !.hasMoved = @ \/ beyond]
                              ELSE MouseMove(p, q, soon)
    ELSE LET moved == MouseMove(p, q, soon) IN
         IF bit = -1 THEN moved ELSE Click(moved, q, {bit}, {})

GestureEnd(p, g, q, soon) ==
    LET moved == MouseMove(p, q, soon) IN
    CASE g = "drag" /\ mode.dragViewport      -> [p EXCEPT !.dragging = FALSE]
      [] g = "drag" /\ ~mode.dragViewport     -> MouseButton(moved, q, {})
      [] g = "longpress" /\ p.hasMoved        -> p
      [] g = "longpress" /\ ~p.hasMoved       ->
            IF mode.dragViewport THEN [Click(moved, q, {2}, {}) EXCEPT !.dragging = FALSE]
                                 ELSE MouseButton(moved, q, {})
      [] OTHER                                -> p

HandleGesture(p, e, q, soon, beyond, bit) ==
    CASE e.type = "gesturestart" -> GestureStart(p, e.gesture, q, soon)
      [] e.type = "gesturemove"  -> GestureMove(p, e.gesture, q, soon, beyond, bit)
      [] OTHER                   -> GestureEnd(p, e.gesture, q, soon)

\* A step of the gesture handler with what RFB does for each event it dispatches.
WithGestures(A) ==
    /\ mode.device # {"mouse"} /\ A
    /\ \E q      \in IF emitted' = <<>> THEN {rfb.pos} ELSE Points,
          soon   \in IF emitted' = <<>> \/ rfb.timer THEN {FALSE} ELSE BOOLEAN,
          beyond \in IF mode.dragViewport /\ open' \in {"drag", "longpress"} THEN BOOLEAN ELSE {FALSE},
          bit    \in CASE open' = "twodrag" -> {-1} \cup 3..6 [] open' = "pinch" -> {-1, 3, 4} [] OTHER -> {-1} :
        /\ LET one(p, i) == HandleGesture(p, emitted'[i], q, soon, beyond, bit) IN
           rfb' = CASE Len(emitted') = 0 -> rfb
                    [] Len(emitted') = 1 -> one(rfb, 1)
                    [] OTHER             -> one(one(rfb, 1), 2)
    /\ UNCHANGED <<buttons, inside, captured, chord, mode>>

(***************************************************************************)
(* Mouse                                                                   *)
(***************************************************************************)

\* Faulty variant: capture is not taken.
PressUncaptured(b, q) ==
    /\ rfb' = MouseButton(rfb, q, Mask(buttons \cup {b}))
    /\ UNCHANGED captured

\* mousedown: with dragViewport the first press only starts a drag of the viewport.
Press(b, q) ==
    LET m == Mask(buttons \cup {b}) IN
    IF mode.dragViewport /\ ~rfb.dragging
    THEN /\ rfb' = [FlushTimer(rfb, q) EXCEPT !.dragging = TRUE, !.hasMoved = FALSE, !.mask = m]
         /\ UNCHANGED captured
    ELSE IF mode.dragViewport /\ rfb.hasMoved
    THEN rfb' = [rfb EXCEPT !.dragging = FALSE, !.mask = m] /\ UNCHANGED captured
    ELSE LET before == IF mode.dragViewport THEN SendMouse([rfb EXCEPT !.dragging = FALSE], q, rfb.mask)
                                            ELSE rfb
         IN rfb' = MouseButton(before, q, m) /\ captured' = TRUE

MouseDown(b, q) ==
    /\ inside /\ b \notin buttons
    /\ Press(b, q)
    /\ buttons' = buttons \cup {b}
    /\ chord' = (chord \/ buttons # {})
    /\ UNCHANGED inside

\* mouseup reaches the canvas, or not: then RFB keeps believing the button is down.
Release(b, q) ==
    LET m == Mask(buttons \ {b}) IN
    IF mode.dragViewport /\ rfb.hasMoved
    THEN rfb' = [rfb EXCEPT !.dragging = FALSE, !.mask = m]
    ELSE rfb' = MouseButton(IF mode.dragViewport
                            THEN SendMouse([rfb EXCEPT !.dragging = FALSE], q, rfb.mask)
                            ELSE rfb, q, m)

\* Every mouseup ends the capture, whatever else is held.
MouseUp(b, q) ==
    /\ b \in buttons
    /\ buttons' = buttons \ {b}
    /\ captured' = FALSE
    /\ IF inside \/ captured THEN Release(b, q) ELSE UNCHANGED rfb
    /\ UNCHANGED <<inside, chord>>

\* mousemove over the canvas, or anywhere with the capture.
MouseMoves(q, to, soon, beyond) ==
    /\ inside' = to
    /\ rfb' = CASE ~(to \/ captured) -> rfb
                [] (to \/ captured) /\ rfb.dragging  -> [rfb EXCEPT !.hasMoved = @ \/ beyond]
                [] (to \/ captured) /\ ~rfb.dragging -> MouseMove(rfb, q, soon)
    /\ UNCHANGED <<buttons, captured, chord>>

WheelStep(p, q, acc, up, down_) ==
    IF acc \in -1..1 THEN p ELSE Click(p, q, Mask(buttons) \cup {IF acc < 0 THEN up ELSE down_}, Mask(buttons))

Rest(acc) == IF acc \in -1..1 THEN acc ELSE 0

\* _handleWheel: small deltas are summed up until they make a step.
Wheel(q, d) ==
    /\ inside
    /\ LET x == rfb.accX + d[1]
           y == rfb.accY + d[2]
       IN rfb' = [WheelStep(WheelStep(rfb, q, x, 5, 6), q, y, 3, 4)
                    EXCEPT !.accX = Rest(x), !.accY = Rest(y)]
    /\ UNCHANGED <<buttons, inside, captured, chord>>

Mouse ==
    /\ attached /\ mode.device # {"touch"}
    /\ \E q \in Points :
        \/ \E b \in Buttons : MouseDown(b, q) \/ MouseUp(b, q)
        \/ \E to, soon, beyond \in BOOLEAN : MouseMoves(q, to, soon, beyond)
        \/ \E d \in WheelDeltas : Wheel(q, d)
    /\ NoTouch /\ UNCHANGED mode

\* _handleDelayedMouseMove
DelayedMove ==
    /\ rfb.timer /\ attached
    /\ rfb' = [SendMouse([rfb EXCEPT !.timer = FALSE], rfb.pos, rfb.mask) EXCEPT !.want = rfb.want]
    /\ NoTouch /\ UNCHANGED <<buttons, inside, captured, chord, mode>>

\* The part of _disconnect that is about input.
Leave ==
    /\ Detach
    /\ rfb' = [rfb EXCEPT !.timer = FALSE]
    /\ UNCHANGED <<buttons, inside, captured, chord, mode>>

Init ==
    /\ GInit
    /\ rfb = RfbInit /\ buttons = {} /\ inside = TRUE /\ captured = FALSE /\ chord = FALSE
    /\ mode \in [dragViewport : BOOLEAN, extended : BOOLEAN, device : Devices]
    /\ mode.extended => "mouse" \in mode.device
    /\ mode.dragViewport => mode.device # {"mouse", "touch"}

Next ==
    \/ WithGestures(Touch)
    \/ WithGestures(LongpressTimeout)
    \/ WithGestures(TwoTouchTimeout)
    \/ WithGestures(Tick)
    \/ Mouse
    \/ DelayedMove
    \/ Leave

Spec == Init /\ [][Next]_vars

(***************************************************************************)
(* Properties                                                              *)
(***************************************************************************)

\* No timer meets a state it throws in, every finger on the screen is either
\* part of the gesture or ignored, and lifting the last one resets the handler.
GestureBookkeeping ==
    attached =>
        /\ longpress => ~Detected
        /\ twoTouch = "armed" => tracked # <<>>
        /\ down = Active \cup ignored /\ Active \cap ignored = {}
        /\ down = {} => /\ state = Gesture /\ tracked = <<>> /\ ~waitingRelease
                       /\ ~longpress /\ twoTouch # "armed"

Holding == {"drag", "longpress"}

OwnEventsOnly ==
    open \in Holding =>
        \A i \in DOMAIN emitted' : emitted'[i].gesture = open /\ emitted'[i].type # "gesturestart"

\* A gesture that holds a button, once begun, is not begun again, taken over by
\* another, or left without its end, whatever fingers and timers do.
HeldGestureEnds == [][OwnEventsOnly]_vars

\* The server holds no button that the user does not: none after the last finger
\* is lifted, and with one button at a time the ones of the mouse, wherever it is
\* released.  (Two buttons at once end the capture with the first release; the
\* wheel, turned while a button drags the viewport, presses that button.)
ServerButtonsReal ==
    attached /\ ~chord =>
        /\ open \notin Holding /\ ~(mode.dragViewport /\ "mouse" \in mode.device) =>
              rfb.sent.mask \subseteq Mask(buttons)
        /\ ~mode.dragViewport /\ mode.device = {"mouse"} =>
              rfb.sent.mask = Mask(buttons) \ (IF mode.extended THEN {} ELSE {7, 8})
        /\ open \in Holding /\ ~mode.dragViewport /\ mode.device = {"touch"} => rfb.sent.mask # {}

\* Once no delayed move is pending, the server has the position of the last move
\* or click, although moves are thinned out and buttons overtake them.
PointerCatchesUp == attached => rfb.timer \/ rfb.sent.pos = rfb.want
=============================================================================
