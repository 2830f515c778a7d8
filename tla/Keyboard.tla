------------------------------ MODULE Keyboard ------------------------------
(***************************************************************************)
(* Keyboard of novnc-ui/core/input/keyboard.js with the part of RFB that   *)
(* passes its events on (_handleKeyEvent, sendKey, viewOnly), between the  *)
(* keys under the user's fingers and the keys the server believes to be    *)
(* down.  Keysyms and codes are names; CapsLock stands for NumLock too,    *)
(* whose state is kept and corrected by the same code.                     *)
(***************************************************************************)
EXTENDS Integers, Sequences, FiniteSets

CONSTANTS Platforms,   \* subset of {"windows", "mac", "other"}
          KeysOf(_),   \* the codes of the keys of a platform's keyboard
          MaxLeds      \* bound: LED updates on their way to the client

ASSUME PlatformAssumption ==
    /\ Platforms \subseteq {"windows", "mac", "other"}
    /\ \A p \in Platforms : "Unidentified" \notin KeysOf(p)

VARIABLES
    k,         \* what the handlers read and write, see KInit
    env,       \* fixed: the platform, and whether the server knows QEMU key events
    conn,      \* _rfbConnectionState, with "gone" for all that follows "connected"
    viewOnly,  \* _viewOnly
    focus,     \* "canvas", "elsewhere" in the page, or "away" from the window
    phys,      \* the keys the user holds
    fake,      \* Windows: AltGr is held and came with a ControlLeft
    due,       \* ... and its AltRight event is still to come
    caps,      \* the CapsLock of the user's keyboard: "on" or "off"
    apart,     \* keys of which the client cannot know whether they are held
    muted      \* viewOnly was set while keys were down

vars == <<k, env, conn, viewOnly, focus, phys, fake, due, caps, apart, muted>>

Shifts == {"ShiftLeft", "ShiftRight"}
Codes  == (UNION {KeysOf(p) : p \in Platforms}) \cup Shifts
            \cup {"Unidentified", "ControlLeft", "CapsLock", "AltLeft", "Delete"}
Onoff  == {"on", "off"}

\* getKeysym: what a key may give; "null" is no keysym.
Keysyms(c) ==
    CASE c = "ControlLeft"  -> {"Control_L"}
      [] c = "ShiftLeft"    -> {"Shift_L"}
      [] c = "ShiftRight"   -> {"Shift_R"}
      [] c = "AltRight"     -> {"Alt_R"}
      [] c = "MetaLeft"     -> {"Super_L"}
      [] c = "CapsLock"     -> {"Caps_Lock"}
      [] c = "Lang"         -> {"Romaji"}
      [] c = "KeyA"         -> {"a", "A"}
      [] OTHER              -> {"a", "null"}

\* Alt and Meta of a Mac are shuffled.
MacKeysym(sym) ==
    CASE sym = "Super_L" -> "Alt_L"
      [] sym = "Alt_R"   -> "ISO_Level3_Shift"
      [] OTHER           -> sym

Keysym == (UNION {Keysyms(c) : c \in Codes}) \cup {"Alt_L", "ISO_Level3_Shift", "Delete", "null", "Control_L", "Caps_Lock"}

KInit == [list   |-> [c \in Codes |-> "up"],  \* _keyDownList
          armed  |-> FALSE,                   \* _altGrArmed, with its timer
          held   |-> {},                      \* keys the server believes to be down
          remote |-> "null",                  \* _remoteCapsLock
          server |-> "off",                   \* the CapsLock of the server
          leds   |-> <<>>]                    \* its LED updates under way

Flip(v) == IF v = "on" THEN "off" ELSE "on"

(***************************************************************************)
(* RFB: from the fields of k to the fields of k                            *)
(***************************************************************************)

\* What identifies a key to the server: its scancode, or else its keysym.
Wire(sym, c) == IF env.qemu /\ c # "Unidentified" THEN c ELSE sym

Sends == conn = "connected" /\ ~viewOnly

\* The server's side: keys go down and up, CapsLock toggles and is reported.
Hold(r, w) == [r EXCEPT !.held = @ \cup {w}]
Lift(r, w) == [r EXCEPT !.held = @ \ {w}]
Toggle(r)  == [r EXCEPT !.server = Flip(@), !.leds = Append(@, Flip(r.server))]

\* sendKey
SendKey(r, sym, c, down) ==
    LET w == Wire(sym, c) IN
    IF ~Sends \/ w = "null" THEN r
    ELSE IF ~down THEN Lift(r, w)
    ELSE IF sym = "Caps_Lock" /\ w \notin r.held THEN Toggle(Hold(r, w))
    ELSE Hold(r, w)

Forget(r) == [r EXCEPT !.remote = "null"]

\* Bring the server's CapsLock in line; what it will report makes the old report void.
FixLock(r, cl) ==
    Forget(SendKey(SendKey(r, "Caps_Lock", "CapsLock", TRUE), "Caps_Lock", "CapsLock", FALSE))

\* Faulty variant: the lock state is corrected whether it differs or not.
HandleKeyEventUnchecked(r, sym, c, down, cl) ==
    SendKey(IF down /\ r.remote # "null" /\ cl # "null" THEN FixLock(r, cl) ELSE r, sym, c, down)

\* _handleKeyEvent: before a press is sent, a lock state that is known is compared.
HandleKeyEvent(r, sym, c, down, cl) ==
    LET known == IF c = "CapsLock" /\ down THEN Forget(r) ELSE r
        fixed == IF down /\ known.remote # "null" /\ cl # "null" /\ known.remote # cl
                 THEN FixLock(known, cl) ELSE known
    IN SendKey(fixed, sym, c, down)

(***************************************************************************)
(* Keyboard                                                                *)
(***************************************************************************)

Enlist(r, c, sym) == [r EXCEPT !.list[c] = sym]
Arm(r, on)        == [r EXCEPT !.armed = on]

\* _sendKeyEvent: presses are listed, releases of keys that are not listed are dropped.
SendKeyEvent(r, sym, c, down, cl) ==
    IF down THEN HandleKeyEvent(Enlist(r, c, sym), sym, c, TRUE, cl)
    ELSE IF r.list[c] = "up" THEN r
    ELSE HandleKeyEvent(Enlist(r, c, "up"), sym, c, FALSE, cl)

PressRelease(r, sym, c, cl) == SendKeyEvent(SendKeyEvent(r, sym, c, TRUE, cl), sym, c, FALSE, cl)

\* _interruptAltGrSequence: it was a Control after all.
InterruptAltGr(r) ==
    IF r.armed THEN SendKeyEvent(Arm(r, FALSE), "Control_L", "ControlLeft", TRUE, "null") ELSE r

\* A key that a platform sends no release for is pressed and released at once.
Instant(c, sym) ==
    \/ c = "Unidentified"
    \/ env.platform = "mac" /\ (c = "CapsLock" \/ ("MetaLeft" \in phys /\ c # "MetaLeft"))
    \/ env.platform = "windows" /\ sym = "Romaji"

\* Faulty variant: a repeated key is sent as the keysym it would have now.
KeyDownRemaps(r, c, sym, cl, quick) ==
    IF Instant(c, sym) THEN PressRelease(r, sym, c, cl) ELSE SendKeyEvent(r, sym, c, TRUE, cl)

\* _handleKeyDown; cl: CapsLock as the event has it; quick: less than 50 ms after
\* the Control that armed the detection.
KeyDown(r, c, sym, cl, quick) ==
    LET altGr  == r.armed /\ c = "AltRight" /\ quick
        r0     == Arm(r, FALSE)
        r1     == IF r.armed /\ ~altGr
                  THEN SendKeyEvent(r0, "Control_L", "ControlLeft", TRUE, cl) ELSE r0
        raw    == IF altGr THEN "ISO_Level3_Shift" ELSE sym
        mapped == IF env.platform = "mac" THEN MacKeysym(raw) ELSE raw
        final  == IF r1.list[c] # "up" THEN r1.list[c] ELSE mapped
    IN IF c = "Unidentified" /\ sym = "null" THEN r1
       ELSE IF Instant(c, sym) THEN PressRelease(r1, final, c, cl)
       ELSE IF c = "ControlLeft" /\ env.platform = "windows" /\ r1.list[c] = "up"
            THEN Arm(r1, TRUE)
       ELSE SendKeyEvent(r1, final, c, TRUE, cl)

\* Faulty variant: the other Shift is left to a release that Windows never sends.
KeyUpOneShift(r, c) ==
    LET r0 == InterruptAltGr(r) IN SendKeyEvent(r0, r0.list[c], c, FALSE, "null")

\* _handleKeyUp
KeyUp(r, c) ==
    LET r0 == InterruptAltGr(r)
        r1 == SendKeyEvent(r0, r0.list[c], c, FALSE, "null")
        up(x, s) == SendKeyEvent(x, x.list[s], s, FALSE, "null")
    IN IF env.platform = "mac" /\ c = "CapsLock" THEN PressRelease(r0, "Caps_Lock", c, "null")
       ELSE IF env.platform = "windows" /\ c \in Shifts THEN up(up(r1, "ShiftRight"), "ShiftLeft")
       ELSE r1

\* Every listed key is released; sent: sendKey still sends.
ReleaseListed(r, sent) ==
    [r EXCEPT !.list = [c \in Codes |-> "up"],
              !.held = IF sent THEN @ \ {Wire(r.list[c], c) : c \in {d \in Codes : r.list[d] # "up"}} ELSE @]

\* Faulty variant: a Control that may be an AltGr is left armed.
AllKeysUpArmed(r) == ReleaseListed(r, Sends)

\* _allKeysUp, at a blur of the window.
AllKeysUp(r) == ReleaseListed(InterruptAltGr(r), Sends)

\* ungrab: RFB has left "connected", or set viewOnly, before it calls this.
Ungrab(r) == ReleaseListed(Arm(r, FALSE), FALSE)

(***************************************************************************)
(* The user, the browser and the server                                    *)
(***************************************************************************)

\* The listeners are there, and events of keys reach the canvas.
Grabbed   == conn # "gone" /\ ~viewOnly
Delivered == Grabbed /\ focus = "canvas"

Press(c, sym) ==
    /\ ~due /\ c \notin phys /\ ~(fake /\ c = "ControlLeft")
    /\ phys' = phys \cup {c}
    /\ caps' = IF c = "CapsLock" THEN Flip(caps) ELSE caps
    /\ IF Delivered
       THEN /\ k' = KeyDown(k, c, sym, caps', FALSE)
            /\ apart' = IF Instant(c, sym) THEN apart \cup {c} ELSE apart \ {c}
       ELSE apart' = apart \cup {c} /\ UNCHANGED k
    /\ UNCHANGED <<env, conn, viewOnly, focus, fake, due, muted>>

\* The browser repeats keydown while a key is held.
Repeat(c, sym) ==
    /\ ~due /\ c \in phys /\ Delivered
    /\ k' = KeyDown(k, c, sym, caps, FALSE)
    /\ apart' = IF Instant(c, sym) THEN apart \cup {c} ELSE apart \ {c}
    /\ UNCHANGED <<env, conn, viewOnly, focus, phys, fake, due, caps, muted>>

\* AltGr of Windows: a ControlLeft that nobody pressed, then AltRight.
PressAltGr ==
    /\ env.platform = "windows" /\ Delivered /\ ~due
    /\ "AltRight" \in KeysOf("windows") \ phys /\ "ControlLeft" \notin phys
    /\ k' = KeyDown(k, "ControlLeft", "Control_L", caps, FALSE)
    /\ phys' = phys \cup {"AltRight"} /\ fake' = TRUE /\ due' = TRUE
    /\ apart' = apart \ {"AltRight", "ControlLeft"}
    /\ UNCHANGED <<env, conn, viewOnly, focus, caps, muted>>

AltRightFollows(quick) ==
    /\ due /\ due' = FALSE
    /\ IF Delivered THEN k' = KeyDown(k, "AltRight", "Alt_R", caps, quick) /\ UNCHANGED apart
                    ELSE apart' = apart \cup {"AltRight"} /\ UNCHANGED k
    /\ UNCHANGED <<env, conn, viewOnly, focus, phys, fake, caps, muted>>

\* Windows sends no keyup for a Shift while the other one is held.
Silent(c) == env.platform = "windows" /\ c \in Shifts /\ Shifts \ {c} \subseteq phys

Release(c) ==
    LET gone == {c} \cup (IF c = "AltRight" /\ fake THEN {"ControlLeft"} ELSE {})
                   \cup (IF env.platform = "windows" /\ c \in Shifts THEN Shifts ELSE {})
    IN
    /\ ~due /\ c \in phys
    /\ phys' = phys \ {c}
    /\ fake' = (fake /\ c # "AltRight")
    /\ IF ~Delivered THEN apart' = apart \cup gone /\ UNCHANGED k
       ELSE IF Silent(c) THEN UNCHANGED <<k, apart>>
       ELSE /\ k' = IF c = "AltRight" /\ fake THEN KeyUp(KeyUp(k, "ControlLeft"), c) ELSE KeyUp(k, c)
            /\ apart' = apart \ gone
    /\ UNCHANGED <<env, conn, viewOnly, focus, due, caps, muted>>

\* A virtual keyboard gives a character and no code.
Virtual(sym) ==
    /\ ~due /\ Delivered
    /\ k' = KeyDown(k, "Unidentified", sym, caps, FALSE)
    /\ UNCHANGED <<env, conn, viewOnly, focus, phys, fake, due, caps, apart, muted>>

\* The 100 ms after a Control are over.
AltGrTimeout ==
    /\ k.armed
    /\ k' = InterruptAltGr(k)
    /\ UNCHANGED <<env, conn, viewOnly, focus, phys, fake, due, caps, apart, muted>>

\* The window loses the focus.
Blur ==
    /\ focus # "away" /\ focus' = "away"
    /\ k' = IF Grabbed THEN AllKeysUp(k) ELSE k
    /\ apart' = apart \cup phys
    /\ UNCHANGED <<env, conn, viewOnly, phys, fake, due, caps, muted>>

\* The focus moves within the page, or comes back; RFB is not told.
Focus(to) ==
    /\ focus # to /\ focus' = to
    /\ UNCHANGED <<k, env, conn, viewOnly, phys, fake, due, caps, apart, muted>>

\* ServerInit: the server reports its lock state soon after.
Connect ==
    /\ conn = "connecting" /\ conn' = "connected"
    /\ k' = [k EXCEPT !.leds = Append(@, k.server)]
    /\ UNCHANGED <<env, viewOnly, focus, phys, fake, due, caps, apart, muted>>

Disconnect ==
    /\ conn # "gone" /\ conn' = "gone"
    /\ k' = Ungrab(k)
    /\ UNCHANGED <<env, viewOnly, focus, phys, fake, due, caps, apart, muted>>

\* The setter of viewOnly.
SetViewOnly(on) ==
    /\ conn # "gone" /\ viewOnly' = on /\ viewOnly # on
    /\ k' = IF on THEN Ungrab(k) ELSE k
    /\ muted' = (muted \/ (on /\ k.held # {}))
    /\ apart' = apart \cup phys
    /\ UNCHANGED <<env, conn, focus, phys, fake, due, caps>>

\* sendCtrlAltDel presses and releases past the list of Keyboard.
SendCtrlAltDel ==
    LET press(r, s, c) == SendKey(r, s, c, TRUE)
        lift(r, s, c)  == SendKey(r, s, c, FALSE)
        three == press(press(press(k, "Control_L", "ControlLeft"), "Alt_L", "AltLeft"), "Delete", "Delete")
    IN /\ Sends
       /\ k' = lift(lift(lift(three, "Delete", "Delete"), "Alt_L", "AltLeft"), "Control_L", "ControlLeft")
       /\ UNCHANGED <<env, conn, viewOnly, focus, phys, fake, due, caps, apart, muted>>

\* _handleLedEvent
LedState ==
    /\ conn = "connected" /\ k.leds # <<>>
    /\ k' = [k EXCEPT !.remote = Head(k.leds), !.leds = Tail(@)]
    /\ UNCHANGED <<env, conn, viewOnly, focus, phys, fake, due, caps, apart, muted>>

\* Something else toggles the CapsLock of the server.
GuestToggles ==
    /\ conn = "connected"
    /\ k' = Toggle(k)
    /\ UNCHANGED <<env, conn, viewOnly, focus, phys, fake, due, caps, apart, muted>>

Init ==
    /\ k = KInit
    /\ env \in [platform : Platforms, qemu : BOOLEAN]
    /\ conn = "connecting" /\ viewOnly = FALSE /\ focus = "canvas"
    /\ phys = {} /\ fake = FALSE /\ due = FALSE /\ caps = "off" /\ apart = {} /\ muted = FALSE

\* LED updates do not pile up beyond MaxLeds.
Bounded == Len(k'.leds) <= MaxLeds

Next ==
    /\ \/ \E c \in KeysOf(env.platform) :
            \/ \E sym \in Keysyms(c) : Press(c, sym) \/ Repeat(c, sym)
            \/ Release(c)
       \/ PressAltGr
       \/ \E quick \in BOOLEAN : AltRightFollows(quick)
       \/ \E sym \in Keysyms("Unidentified") : Virtual(sym)
       \/ AltGrTimeout
       \/ Blur
       \/ \E to \in {"canvas", "elsewhere"} : Focus(to)
       \/ Connect
       \/ Disconnect
       \/ \E on \in BOOLEAN : SetViewOnly(on)
       \/ SendCtrlAltDel
       \/ LedState
       \/ GuestToggles
    /\ Bounded

Spec == Init /\ [][Next]_vars

(***************************************************************************)
(* Properties                                                              *)
(***************************************************************************)

Listed == {c \in Codes : k.list[c] # "up"}

\* The fields keep to their types, and an armed Control is one that is not listed.
TypeOK ==
    /\ k \in [list : [Codes -> Keysym \cup {"up"}], armed : BOOLEAN, held : SUBSET (Keysym \cup Codes),
              remote : Onoff \cup {"null"}, server : Onoff, leds : Seq(Onoff)]
    /\ conn \in {"connecting", "connected", "gone"}
    /\ focus \in {"canvas", "elsewhere", "away"}
    /\ k.armed => k.list["ControlLeft"] = "up"

\* Whatever the server believes to be down, the client knows and will release:
\* on any platform, with AltGr, locks being corrected, and keys sent past the list.
HeldKnown == ~muted /\ conn = "connected" => k.held \subseteq {Wire(k.list[c], c) : c \in Listed}

\* The list follows the fingers: a key is listed exactly while it is held, except
\* where an event was lost or is not to be expected, or a Control may be an AltGr.
TracksFingers ==
    Grabbed => \A c \in Codes \ apart :
        /\ c \in Listed => \/ c \in phys
                           \/ c = "ControlLeft" /\ fake
                           \/ env.platform = "windows" /\ c \in Shifts /\ phys \cap Shifts # {}
        /\ c \in phys   => \/ c \in Listed
                           \/ c = "ControlLeft" /\ k.armed
                           \/ c = "AltRight" /\ due

\* A window without the focus holds nothing down, and no timer will change that.
AwayHoldsNothing ==
    focus = "away" => Listed = {} /\ ~k.armed /\ (~muted /\ conn = "connected" => k.held = {})

\* A letter that is typed meets the CapsLock of the user's keyboard at the server,
\* when the client knows the server's state, no update is under way, and CapsLock
\* itself is not held (pressing it again would be no press).
TypesLetter ==
    /\ Delivered /\ conn = "connected" /\ "KeyA" \in phys' \ phys
    /\ Wire("Caps_Lock", "CapsLock") \notin k.held
LockSynced ==
    [][TypesLetter /\ k.remote # "null" /\ k.leds = <<>> => k'.server = caps]_vars
=============================================================================
