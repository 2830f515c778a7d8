----------------------------- MODULE RfbResize ------------------------------
(***************************************************************************)
(* The size of a session of rfb.js: the element noVNC draws in, the        *)
(* viewport of display.js, and the remote desktop that is asked to follow  *)
(* the window.  It runs beside RfbSession: the ResizeObserver, animation   *)
(* frames, a rate-limiting timer and ExtendedDesktopSize messages change   *)
(* r, and the end of the session takes its observer and timer away.        *)
(* Sizes are widths; heights are treated alike.  A size message is a unit  *)
(* "size" of the channel, and what it says is the head of r.news.          *)
(***************************************************************************)
EXTENDS RfbSession

CONSTANTS Sizes,       \* widths of the window and of the remote desktop
          MaxChanges   \* bound: changes of the window, of the page's settings and of the desktop by others

ASSUME SizesAssumption == Sizes \subseteq Nat \ {0} /\ MaxChanges \in Nat

VARIABLE r

wvars == <<c, h, loop, wire, ui, msgs, r>>

\* vnc.html sets scaleViewport and resizeSession, and leaves clipViewport.
RInit(win, remote) ==
    [win     |-> win,       \* width of _screen
     seen    |-> 0,         \* _expectedClientWidth; 0 is null
     obs     |-> TRUE,      \* the ResizeObserver has something to deliver
     frame   |-> FALSE,     \* a requestAnimationFrame is pending
     fb      |-> 0,         \* _fbWidth, of RFB and of Display
     x       |-> 0,         \* _viewportLoc.x
     w       |-> 0,         \* _viewportLoc.w
     dclip   |-> FALSE,     \* Display's _clipViewport
     scale   |-> <<1, 1>>,  \* Display's _scale, as a fraction
     clip    |-> FALSE,     \* _clipViewport
     scaling |-> TRUE,      \* _scaleViewport
     knows   |-> FALSE,     \* _supportsSetDesktopSize
     pending |-> FALSE,     \* _pendingRemoteResize
     hot     |-> FALSE,     \* _lastResize is less than 100 ms ago
     timer   |-> FALSE,     \* _resizeTimeout
     asked   |-> <<>>,      \* SetDesktopSize messages on their way to the server
     news    |-> <<>>,      \* contents of the size messages on their way back
     remote  |-> remote,    \* width of the server's desktop
     changes |-> 0,
     excused |-> FALSE]     \* history: a reason why the sizes may differ

-----------------------------------------------------------------------------
(* display.js *)

Lesser(a, b) == IF a < b THEN a ELSE b

\* Faulty variant: the position is clamped, the far edge is not.
ViewportChangePosLoose(y, delta) == [y EXCEPT !.x = IF y.dclip THEN Lesser(@ + delta, y.fb - 1) ELSE 0]

ViewportChangePos(y, delta) ==
    LET d0 == IF y.dclip THEN delta ELSE -y.w
        d1 == IF d0 < 0 /\ y.x + d0 < 0 THEN -y.x ELSE d0
        d2 == IF y.x + y.w - 1 + d1 >= y.fb THEN y.fb - y.x - y.w ELSE d1
    IN [y EXCEPT !.x = @ + d2]

ViewportChangeSize(y, width) ==
    LET new == IF y.dclip THEN Lesser(width, y.fb) ELSE y.fb
    IN IF new = y.w THEN y ELSE ViewportChangePos([y EXCEPT !.w = new], 0)

\* The setter of Display's clipViewport.
DisplayClip(y, on) == ViewportChangePos(ViewportChangeSize([y EXCEPT !.dclip = on], y.w), 0)

DisplayResize(y, width) == ViewportChangePos(ViewportChangeSize([y EXCEPT !.fb = width], y.w), 0)

-----------------------------------------------------------------------------
(* rfb.js *)

SaveExpectedClientSize(y) == [y EXCEPT !.seen = y.win]

UpdateClip(y) ==
    LET on == y.clip /\ ~y.scaling
        y1 == IF on = y.dclip THEN y ELSE DisplayClip(y, on)
        y2 == IF on THEN ViewportChangeSize(y1, y.win) ELSE y1
    IN IF on = y.dclip THEN y2 ELSE SaveExpectedClientSize(y2)

UpdateScale(y) == [y EXCEPT !.scale = IF y.scaling THEN <<y.win, y.w>> ELSE <<1, 1>>]

\* One request at a time, and one in 100 ms; the timer asks again.
RequestRemoteResize(y) ==
    IF ~y.knows \/ y.pending THEN y
    ELSE IF y.hot THEN [y EXCEPT !.timer = TRUE]
    ELSE IF y.win = y.fb THEN [y EXCEPT !.timer = FALSE, !.excused = FALSE]
    ELSE [y EXCEPT !.timer = FALSE, !.pending = TRUE, !.hot = TRUE, !.excused = FALSE,
                   !.asked = Append(@, y.win)]

\* A change to the size that was saved last, perhaps after the change itself, is not noticed.
HandleResize(y) ==
    IF y.seen = y.win THEN [y EXCEPT !.excused = @ \/ y.win # y.fb]
    ELSE RequestRemoteResize([y EXCEPT !.frame = TRUE])

\* _resize: a new frame buffer.
Resize(y, width) == SaveExpectedClientSize(UpdateScale(UpdateClip(DisplayResize(y, width))))

\* Faulty variant: nobody looks again after the answer to an own request.
AnswerTakenOnce(y, n) == IF ~y.knows THEN RequestRemoteResize([y EXCEPT !.knows = TRUE]) ELSE y
\* The request at the end of _handleExtendedDesktopSize: the first message, or our own success.
AnswerTaken(y, n) ==
    IF ~y.knows \/ (n.reason = 1 /\ n.status = 0)
    THEN RequestRemoteResize([y EXCEPT !.knows = TRUE]) ELSE y

HandleExtendedDesktopSize(y) ==
    LET n  == y.news[1]
        y1 == [y EXCEPT !.news = Tail(@), !.pending = @ /\ n.reason # 1]
        refused == n.reason = 1 /\ n.status # 0
        y2 == IF refused THEN y1 ELSE Resize(y1, n.width)
    IN AnswerTaken([y2 EXCEPT !.excused = @ \/ refused \/ n.reason # 1], n)

-----------------------------------------------------------------------------
(* Steps of the session that touch the size. *)

\* _disconnect: no more observations, no timer.
Detached(y) == [y EXCEPT !.obs = FALSE, !.timer = FALSE]
Ends     == c.conn \in {"connecting", "connected"} /\ c'.conn \in {"disconnecting", "disconnected"}
Connects == c.conn = "connecting" /\ c'.conn = "connected"
SizeMsg  == loop = "normal" /\ Whole /\ HeadMsg = "size"

\* _negotiateServerInit has the desktop's size, before updateConnectionState.
SessionStep ==
    /\ Next /\ ~SizeMsg
    /\ r' = IF Ends THEN Detached(r) ELSE IF Connects THEN Resize(r, r.remote) ELSE r

ExtendedDesktopSize == SizeMsg /\ NormalMsg /\ r' = HandleExtendedDesktopSize(r)

\* The server announces its size: at the start (0), when it or another client changed it (0, 2).
News(reason, status, width) == [reason |-> reason, status |-> status, width |-> width]
ServerResizes ==
    /\ Speaks("size") /\ UNCHANGED msgs /\ r.changes < MaxChanges
    /\ \E reason \in {0, 2} : \E width \in Sizes :
         r' = [r EXCEPT !.news = Append(@, News(reason, 0, width)), !.remote = width, !.changes = @ + 1]

\* It does what it was asked to, or refuses (1 to 3, or another code).
ServerAnswers ==
    /\ r.asked # <<>> /\ Speaks("size") /\ UNCHANGED msgs
    /\ \E status \in {0, 1} :
         LET width == IF status = 0 THEN r.asked[1] ELSE r.remote
         IN r' = [r EXCEPT !.asked = Tail(@), !.remote = width, !.news = Append(@, News(1, status, width))]

(* The browser and the page. *)

Alone == Idle /\ UNCHANGED vars
Live  == c.conn \in {"connecting", "connected"}

\* MaxChanges is spent on a connected session.
Changes(y) ==
    /\ Alone /\ c.conn = "connected" /\ r.changes < MaxChanges
    /\ r' = [y EXCEPT !.changes = @ + 1]
WindowResized == \E n \in Sizes \ {r.win} : Changes([r EXCEPT !.win = n, !.obs = TRUE])

Observed ==
    /\ Alone /\ Live /\ r.obs
    /\ r' = HandleResize([r EXCEPT !.obs = FALSE])

\* The animation frame runs whether or not the session still does.
Frame ==
    /\ Alone /\ r.frame
    /\ r' = SaveExpectedClientSize(UpdateScale(UpdateClip([r EXCEPT !.frame = FALSE])))

ResizeTimer ==
    /\ Alone /\ r.timer /\ ~r.hot
    /\ r' = RequestRemoteResize(r)

Cools == Alone /\ r.hot /\ r' = [r EXCEPT !.hot = FALSE]

SetClipViewport == Changes(UpdateClip([r EXCEPT !.clip = ~@]))

SetScaleViewport ==
    LET y  == [r EXCEPT !.scaling = ~@]
        y1 == IF y.scaling /\ y.clip THEN UpdateClip(y) ELSE y
        y2 == UpdateScale(y1)
    IN Changes(IF ~y.scaling /\ y.clip THEN UpdateClip(y2) ELSE y2)

\* The viewport is dragged with the pointer.
Drag ==
    /\ Alone /\ c.conn = "connected" /\ r.dclip
    /\ \E delta \in {-2, 1} : r' = ViewportChangePos(r, delta)

WInit ==
    /\ Init
    /\ \E win, remote \in Sizes : r = RInit(win, remote)

WNext ==
    \/ SessionStep \/ ExtendedDesktopSize \/ ServerResizes \/ ServerAnswers
    \/ WindowResized \/ Observed \/ Frame \/ ResizeTimer \/ Cools
    \/ SetClipViewport \/ SetScaleViewport \/ Drag

WSpec == WInit /\ [][WNext]_wvars /\ Fairness
-----------------------------------------------------------------------------
\* The part of the remote desktop that is shown lies inside it, and is all of it unless clipping is on,
\* through every order of new frame buffers, windows, modes and drags (display.js viewportChangePos).
ViewportInside ==
    /\ r.x >= 0 /\ r.w >= 0 /\ r.x + r.w <= r.fb
    /\ ~r.dclip => r.x = 0 /\ r.w = r.fb

\* Once the server is known to resize and nothing is under way, the remote desktop has the size of the
\* window ("check if we are in sync", rfb.js), unless the server refused, or changed the size itself, or
\* _handleResize found the window at the size it had saved (_clientHasExpectedSize) and asked nothing.
InSync ==
    /\ c.conn = "connected" /\ r.knows /\ ~r.excused
    /\ ~r.obs /\ ~r.pending /\ ~r.timer
    => r.fb = r.win
=============================================================================
