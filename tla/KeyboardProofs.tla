---------------------------- MODULE KeyboardProofs ----------------------------
(* Theorems about Keyboard, for any platforms and any keys of their keyboards. *)
EXTENDS Keyboard, TLAPS

-----------------------------------------------------------------------------
(* The fields of k.                                                          *)

Lists == [Codes -> Keysym \cup {"up"}]
Wires == (Keysym \cup Codes) \ {"null"}

K == [list : Lists, armed : BOOLEAN, held : SUBSET Wires,
      remote : Onoff \cup {"null"}, server : Onoff, leds : Seq(Onoff)]

EnvOK == env \in [platform : Platforms, qemu : BOOLEAN]
Sent(list) == {Wire(list[c], c) : c \in {d \in Codes : list[d] # "up"}}

(* What the server holds is listed; while nothing is sent it holds nothing.  *)
Known(r) ==
    ~muted => IF Sends THEN r.held \subseteq Sent(r.list) ELSE conn # "gone" => r.held = {}

(* The client's idea of the server's lock, and the updates under way.        *)
Lamp(r) ==
    conn = "connected" =>
        IF r.leds = <<>> THEN r.remote \in {"null", r.server}
        ELSE r.leds[Len(r.leds)] = r.server

(* A toggle of the server's lock is the last of the updates under way.       *)
Lights(r, x) ==
    \/ x.leds = r.leds /\ x.server = r.server
    \/ x.leds # <<>> /\ x.leds[Len(x.leds)] = x.server

(* CapsLock is listed as nothing else, and nothing else as CapsLock.         *)
OwnSym(r) == \A c \in Codes : r.list[c] # "up" => (r.list[c] = "Caps_Lock" <=> c = "CapsLock")

Fine(r) == r \in K /\ Known(r) /\ Lamp(r) /\ OwnSym(r)

LEMMA KeysymsOf ==
    ASSUME NEW c
    PROVE  /\ Keysyms(c) \subseteq {"Control_L", "Shift_L", "Shift_R", "Alt_R", "Super_L", "Caps_Lock",
                                    "Romaji", "a", "A", "null"}
           /\ \A s \in Keysyms(c) : s = "Caps_Lock" <=> c = "CapsLock"
<1>1. Keysyms(c) \subseteq {"Control_L", "Shift_L", "Shift_R", "Alt_R", "Super_L", "Caps_Lock",
                            "Romaji", "a", "A", "null"}
  BY DEF Keysyms
<1>2. CASE c = "CapsLock"
  BY <1>1, <1>2 DEF Keysyms
<1>3. CASE c # "CapsLock"
  <2>1. Keysyms(c) \subseteq {"Control_L", "Shift_L", "Shift_R", "Alt_R", "Super_L",
                              "Romaji", "a", "A", "null"}
    BY <1>3 DEF Keysyms
  <2> QED BY <1>1, <1>3, <2>1
<1> QED BY <1>2, <1>3, <1>1

LEMMA KeysymsIs ==
    /\ "up" \notin Keysym
    /\ \A c \in Codes : Keysyms(c) \subseteq Keysym
    /\ {"Control_L", "Caps_Lock", "Alt_L", "ISO_Level3_Shift", "Delete"} \subseteq Keysym
    /\ {"Unidentified", "ControlLeft", "CapsLock", "AltLeft", "Delete", "ShiftLeft", "ShiftRight"} \subseteq Codes
<1>1. "up" \notin Keysym
  <2>1. \A c \in Codes : "up" \notin Keysyms(c)
    BY KeysymsOf
  <2>2. PICK U : U = UNION {Keysyms(c) : c \in Codes}
    OBVIOUS
  <2>3. "up" \notin U
    BY <2>1, <2>2
  <2>4. Keysym = U \cup {"Alt_L", "ISO_Level3_Shift", "Delete", "null", "Control_L", "Caps_Lock"}
    BY <2>2, Zenon DEF Keysym
  <2> QED BY <2>3, <2>4
<1>2. \A c \in Codes : Keysyms(c) \subseteq Keysym
  BY DEF Keysym
<1>3. {"Unidentified", "ControlLeft", "CapsLock", "AltLeft", "Delete", "ShiftLeft", "ShiftRight"} \subseteq Codes
  <2>1. PICK U : U = UNION {KeysOf(p) : p \in Platforms}
    OBVIOUS
  <2>2. Codes = U \cup {"ShiftLeft", "ShiftRight"}
                  \cup {"Unidentified", "ControlLeft", "CapsLock", "AltLeft", "Delete"}
    BY <2>1, Zenon DEF Codes, Shifts
  <2> QED BY <2>2
<1>4. {"Control_L", "Caps_Lock", "Alt_L", "ISO_Level3_Shift", "Delete"} \subseteq Keysym
  <2>1. PICK U : U = UNION {Keysyms(c) : c \in Codes}
    OBVIOUS
  <2>2. Keysym = U \cup {"Alt_L", "ISO_Level3_Shift", "Delete", "null", "Control_L", "Caps_Lock"}
    BY <2>1, Zenon DEF Keysym
  <2> QED BY <2>2
<1> QED BY <1>1, <1>2, <1>3, <1>4

LEMMA MacKeysymIs ==
    ASSUME NEW sym \in Keysym
    PROVE  MacKeysym(sym) \in Keysym /\ (MacKeysym(sym) = "Caps_Lock" <=> sym = "Caps_Lock")
BY KeysymsIs DEF MacKeysym

-----------------------------------------------------------------------------
(* RFB *)

LEMMA FlipIs == \A v \in Onoff : Flip(v) \in Onoff /\ (\A w \in Onoff : v # w => Flip(v) = w)
BY DEF Flip, Onoff

LEMMA LastIs ==
    ASSUME NEW s \in Seq(Onoff), NEW v \in Onoff
    PROVE  /\ Append(s, v) \in Seq(Onoff) /\ Append(s, v) # <<>>
           /\ Append(s, v)[Len(Append(s, v))] = v
OBVIOUS

LEMMA HoldIs ==
    ASSUME NEW r \in K, NEW w \in Wires
    PROVE  LET x == Hold(r, w) IN
           /\ x \in K /\ x.list = r.list /\ x.armed = r.armed /\ x.remote = r.remote
           /\ x.held = r.held \cup {w} /\ x.server = r.server /\ x.leds = r.leds
BY DEF Hold, K

LEMMA LiftIs ==
    ASSUME NEW r \in K, NEW w
    PROVE  LET x == Lift(r, w) IN
           /\ x \in K /\ x.list = r.list /\ x.armed = r.armed /\ x.remote = r.remote
           /\ x.held = r.held \ {w} /\ x.server = r.server /\ x.leds = r.leds
BY DEF Lift, K

LEMMA ToggleIs ==
    ASSUME NEW r \in K
    PROVE  LET x == Toggle(r) IN
           /\ x \in K /\ x.list = r.list /\ x.armed = r.armed /\ x.remote = r.remote
           /\ x.held = r.held /\ x.server = Flip(r.server)
           /\ x.leds # <<>> /\ x.leds[Len(x.leds)] = x.server
<1>1. r.server \in Onoff /\ r.leds \in Seq(Onoff)
  BY DEF K
<1>2. PICK v \in Onoff : v = Flip(r.server)
  BY <1>1, FlipIs
<1>3. PICK l \in Seq(Onoff) : l = Append(r.leds, v) /\ l # <<>> /\ l[Len(l)] = v
  BY <1>1, LastIs
<1>4. Toggle(r) = [r EXCEPT !.server = v, !.leds = l]
  BY <1>2, <1>3 DEF Toggle, K
<1> QED BY <1>2, <1>3, <1>4 DEF K

LEMMA ForgetIs ==
    ASSUME NEW r \in K
    PROVE  LET x == Forget(r) IN
           /\ x \in K /\ x.list = r.list /\ x.armed = r.armed /\ x.remote = "null"
           /\ x.held = r.held /\ x.server = r.server /\ x.leds = r.leds
BY DEF Forget, K

Armed(r, x, on) ==
    /\ x \in K /\ x.list = r.list /\ x.armed = on /\ x.remote = r.remote
    /\ x.held = r.held /\ x.server = r.server /\ x.leds = r.leds

LEMMA ArmIs ==
    ASSUME NEW r \in K, NEW on \in BOOLEAN
    PROVE  Armed(r, Arm(r, on), on)
BY DEF Arm, K, Armed

Enlisted(r, x, c, sym) ==
    /\ x \in K /\ x.list = [r.list EXCEPT ![c] = sym] /\ x.armed = r.armed /\ x.remote = r.remote
    /\ x.held = r.held /\ x.server = r.server /\ x.leds = r.leds

LEMMA EnlistIs ==
    ASSUME NEW r \in K, NEW c \in Codes, NEW sym \in Keysym \cup {"up"}
    PROVE  Enlisted(r, Enlist(r, c, sym), c, sym)
<1>1. PICK l \in Lists : l = [r.list EXCEPT ![c] = sym]
  BY DEF K, Lists
<1>2. Enlist(r, c, sym) = [r EXCEPT !.list = l]
  BY <1>1 DEF Enlist
<1> QED BY <1>1, <1>2 DEF K, Enlisted

LEMMA SendKeyIs ==
    ASSUME NEW r \in K, NEW sym \in Keysym, NEW c \in Codes, NEW down \in BOOLEAN
    PROVE  LET x == SendKey(r, sym, c, down) IN
           /\ x \in K /\ x.list = r.list /\ x.armed = r.armed /\ x.remote = r.remote
           /\ ~Sends => x = r
           /\ down => x.held \subseteq r.held \cup {Wire(sym, c)}
           /\ ~down /\ Sends => x.held = r.held \ {Wire(sym, c)}
           /\ ~down => x.server = r.server /\ x.leds = r.leds
           /\ sym # "Caps_Lock" => x.server = r.server /\ x.leds = r.leds
           /\ Lights(r, x)
<1>1. PICK x : x = SendKey(r, sym, c, down)
  OBVIOUS
<1>2. PICK w : w = Wire(sym, c)
  OBVIOUS
<1>3. w \in Keysym \cup Codes
  BY <1>2 DEF Wire
<1>4. CASE ~Sends \/ w = "null"
  <2>1. x = r
    BY <1>1, <1>2, <1>4 DEF SendKey
  <2>2. w = "null" => r.held \ {w} = r.held
    BY DEF K, Wires
  <2> QED BY <1>1, <1>2, <1>4, <2>1, <2>2 DEF Lights
<1>5. CASE Sends /\ w # "null" /\ ~down
  <2>1. x = Lift(r, w)
    BY <1>1, <1>2, <1>5 DEF SendKey
  <2> QED BY <1>1, <1>2, <1>5, <2>1, LiftIs DEF Lights
<1>6. CASE Sends /\ w # "null" /\ down
  <2>1. w \in Wires
    BY <1>3, <1>6 DEF Wires
  <2>2. CASE sym = "Caps_Lock" /\ w \notin r.held
    <3>1. PICK h : h = Hold(r, w)
      OBVIOUS
    <3>2. x = Toggle(h)
      BY <1>1, <1>2, <1>6, <2>2, <3>1 DEF SendKey
    <3>3. /\ h \in K /\ h.list = r.list /\ h.armed = r.armed /\ h.remote = r.remote
          /\ h.held = r.held \cup {w}
      BY <2>1, <3>1, HoldIs
    <3>4. /\ x \in K /\ x.list = h.list /\ x.armed = h.armed /\ x.remote = h.remote /\ x.held = h.held
          /\ x.leds # <<>> /\ x.leds[Len(x.leds)] = x.server
      BY <3>2, <3>3, ToggleIs
    <3> QED BY <1>1, <1>2, <1>6, <2>2, <3>3, <3>4 DEF Lights
  <2>3. CASE ~(sym = "Caps_Lock" /\ w \notin r.held)
    <3>1. x = Hold(r, w)
      BY <1>1, <1>2, <1>6, <2>3 DEF SendKey
    <3>2. /\ x \in K /\ x.list = r.list /\ x.armed = r.armed /\ x.remote = r.remote
          /\ x.held = r.held \cup {w} /\ x.server = r.server /\ x.leds = r.leds
      BY <2>1, <3>1, HoldIs
    <3> QED BY <1>1, <1>2, <1>6, <3>2 DEF Lights
  <2> QED BY <2>2, <2>3
<1> QED BY <1>4, <1>5, <1>6

LEMMA SendDownIs ==
    ASSUME NEW r \in K, NEW sym \in Keysym, NEW c \in Codes
    PROVE  \E x : /\ x = SendKey(r, sym, c, TRUE)
                  /\ x \in K /\ x.list = r.list /\ x.armed = r.armed /\ x.remote = r.remote
                  /\ ~Sends => x = r
                  /\ x.held \subseteq r.held \cup {Wire(sym, c)}
                  /\ sym # "Caps_Lock" => x.server = r.server /\ x.leds = r.leds
                  /\ Lights(r, x)
<1>1. PICK down \in BOOLEAN : down = TRUE
  OBVIOUS
<1>2. PICK x : x = SendKey(r, sym, c, down)
  OBVIOUS
<1>3. /\ x \in K /\ x.list = r.list /\ x.armed = r.armed /\ x.remote = r.remote
      /\ ~Sends => x = r
      /\ down => x.held \subseteq r.held \cup {Wire(sym, c)}
      /\ sym # "Caps_Lock" => x.server = r.server /\ x.leds = r.leds
      /\ Lights(r, x)
  BY <1>2, SendKeyIs
<1> QED BY <1>1, <1>2, <1>3

LEMMA SendUpIs ==
    ASSUME NEW r \in K, NEW sym \in Keysym, NEW c \in Codes
    PROVE  \E x : /\ x = SendKey(r, sym, c, FALSE)
                  /\ x \in K /\ x.list = r.list /\ x.armed = r.armed /\ x.remote = r.remote
                  /\ ~Sends => x = r
                  /\ Sends => x.held = r.held \ {Wire(sym, c)}
                  /\ x.server = r.server /\ x.leds = r.leds
<1>1. PICK down \in BOOLEAN : down = FALSE
  OBVIOUS
<1>2. PICK x : x = SendKey(r, sym, c, down)
  OBVIOUS
<1>3. /\ x \in K /\ x.list = r.list /\ x.armed = r.armed /\ x.remote = r.remote
      /\ ~Sends => x = r
      /\ ~down /\ Sends => x.held = r.held \ {Wire(sym, c)}
      /\ ~down => x.server = r.server /\ x.leds = r.leds
  BY <1>2, SendKeyIs
<1> QED BY <1>1, <1>2, <1>3

LEMMA FixLockIs ==
    ASSUME NEW r \in K, NEW cl
    PROVE  \E x : /\ x = FixLock(r, cl)
                  /\ x \in K /\ x.list = r.list /\ x.armed = r.armed /\ x.remote = "null"
                  /\ x.held \subseteq r.held /\ Lights(r, x)
<1>0. "Caps_Lock" \in Keysym /\ "CapsLock" \in Codes
  BY KeysymsIs
<1>1. PICK y : /\ y = SendKey(r, "Caps_Lock", "CapsLock", TRUE)
               /\ y \in K /\ y.list = r.list /\ y.armed = r.armed
               /\ y.held \subseteq r.held \cup {Wire("Caps_Lock", "CapsLock")}
               /\ ~Sends => y = r
               /\ Lights(r, y)
  BY <1>0, SendDownIs
<1>a. y \in K
  BY <1>1
<1>2. PICK z : /\ z = SendKey(y, "Caps_Lock", "CapsLock", FALSE)
               /\ z \in K /\ z.list = y.list /\ z.armed = y.armed /\ z.remote = y.remote
               /\ ~Sends => z = y
               /\ Sends => z.held = y.held \ {Wire("Caps_Lock", "CapsLock")}
               /\ z.server = y.server /\ z.leds = y.leds
  BY <1>0, <1>a, SendUpIs
<1>3. z.held \subseteq r.held
  BY <1>1, <1>2
<1>4. PICK x : x = Forget(z)
  OBVIOUS
<1>5. x = FixLock(r, cl)
  BY <1>1, <1>2, <1>4 DEF FixLock
<1>6. /\ x \in K /\ x.list = z.list /\ x.armed = z.armed /\ x.remote = "null"
      /\ x.held = z.held /\ x.server = z.server /\ x.leds = z.leds
  BY <1>2, <1>4, ForgetIs
<1>7. Lights(r, x)
  BY <1>1, <1>2, <1>6 DEF Lights
<1> QED BY <1>1, <1>2, <1>3, <1>5, <1>6, <1>7

-----------------------------------------------------------------------------
(* Presses and releases of Keyboard.                                         *)

LEMMA LampKept ==
    ASSUME NEW r, NEW x, Lamp(r), x.remote = "null" \/ x.remote = r.remote, Lights(r, x)
    PROVE  Lamp(x)
BY DEF Lamp, Lights

(* _handleKeyEvent of a press: nothing else is held but the key.             *)
HandledDown(r, x, w) ==
    /\ x \in K /\ Lamp(x) /\ x.list = r.list /\ x.armed = r.armed
    /\ x.held \subseteq r.held \cup {w}
    /\ ~Sends => x.held \subseteq r.held

HandledUp(r, x, w) ==
    /\ x \in K /\ Lamp(x) /\ x.list = r.list /\ x.armed = r.armed
    /\ Sends => x.held = r.held \ {w}
    /\ ~Sends => x.held = r.held

LEMMA HandleDownIs ==
    ASSUME NEW r \in K, Lamp(r), NEW sym \in Keysym, NEW c \in Codes, NEW cl
    PROVE  HandledDown(r, HandleKeyEvent(r, sym, c, TRUE, cl), Wire(sym, c))
<1>1. PICK a : a = IF c = "CapsLock" THEN Forget(r) ELSE r
  OBVIOUS
<1>2. /\ a \in K /\ a.list = r.list /\ a.armed = r.armed /\ a.held = r.held
      /\ (a.remote = "null" \/ a.remote = r.remote)
      /\ a.leds = r.leds /\ a.server = r.server
  BY <1>1, ForgetIs
<1>3. Lamp(a)
  BY <1>2, LampKept DEF Lights
<1>4. PICK b : b = IF a.remote # "null" /\ cl # "null" /\ a.remote # cl THEN FixLock(a, cl) ELSE a
  OBVIOUS
<1>5. /\ b \in K /\ b.list = a.list /\ b.armed = a.armed /\ b.held \subseteq a.held
      /\ (b.remote = "null" \/ b.remote = a.remote)
      /\ Lights(a, b)
  <2>1. CASE b = a
    BY <2>1, <1>2 DEF Lights
  <2>2. CASE b = FixLock(a, cl)
    BY <2>2, <1>2, FixLockIs
  <2> QED BY <1>4, <2>1, <2>2
<1>6. Lamp(b)
  BY <1>3, <1>5, LampKept
<1>7. PICK x : /\ x = SendKey(b, sym, c, TRUE)
               /\ x \in K /\ x.list = b.list /\ x.armed = b.armed /\ x.remote = b.remote
               /\ ~Sends => x = b
               /\ x.held \subseteq b.held \cup {Wire(sym, c)}
               /\ Lights(b, x)
  BY <1>5, SendDownIs
<1>8. x = HandleKeyEvent(r, sym, c, TRUE, cl)
  BY <1>1, <1>4, <1>7 DEF HandleKeyEvent
<1>9. Lamp(x)
  BY <1>6, <1>7, LampKept
<1> QED BY <1>2, <1>5, <1>7, <1>8, <1>9 DEF HandledDown

LEMMA HandleUpIs ==
    ASSUME NEW r \in K, Lamp(r), NEW sym \in Keysym, NEW c \in Codes, NEW cl
    PROVE  HandledUp(r, HandleKeyEvent(r, sym, c, FALSE, cl), Wire(sym, c))
<1>1. HandleKeyEvent(r, sym, c, FALSE, cl) = SendKey(r, sym, c, FALSE)
  BY DEF HandleKeyEvent
<1>2. PICK x : /\ x = SendKey(r, sym, c, FALSE)
               /\ x \in K /\ x.list = r.list /\ x.armed = r.armed /\ x.remote = r.remote
               /\ ~Sends => x = r
               /\ Sends => x.held = r.held \ {Wire(sym, c)}
               /\ x.server = r.server /\ x.leds = r.leds
  BY SendUpIs
<1>3. Lamp(x)
  BY <1>2, LampKept DEF Lights
<1> QED BY <1>1, <1>2, <1>3 DEF HandledUp

(* What is listed of a list in which one key changed.                        *)
Resent(l, m, c, sym) ==
    /\ m \in Lists /\ m[c] = sym /\ (\A d \in Codes : d # c => m[d] = l[d])
    /\ sym # "up" /\ l[c] \in {"up", sym} => Sent(l) \cup {Wire(sym, c)} \subseteq Sent(m)
    /\ sym = "up" /\ l[c] # "up" => Sent(l) \ {Wire(l[c], c)} \subseteq Sent(m)

LEMMA SentIs ==
    ASSUME NEW l \in Lists, NEW c \in Codes, NEW sym \in Keysym \cup {"up"}
    PROVE  Resent(l, [l EXCEPT ![c] = sym], c, sym)
<1>0. PICK m : m = [l EXCEPT ![c] = sym]
  OBVIOUS
<1>1. m \in Lists /\ m[c] = sym /\ (\A d \in Codes : d # c => m[d] = l[d])
  BY <1>0 DEF Lists
<1>2. ASSUME sym # "up", l[c] \in {"up", sym}, NEW w \in Sent(l) \cup {Wire(sym, c)}
      PROVE  w \in Sent(m)
  <2>1. PICK d \in Codes : m[d] # "up" /\ w = Wire(m[d], d)
    <3>1. CASE w = Wire(sym, c)
      BY <3>1, <1>1, <1>2
    <3>2. CASE w \in Sent(l)
      <4>1. PICK d \in Codes : l[d] # "up" /\ w = Wire(l[d], d)
        BY <3>2 DEF Sent
      <4> QED BY <4>1, <1>1, <1>2
    <3> QED BY <3>1, <3>2, <1>2
  <2> QED BY <2>1 DEF Sent
<1>3. ASSUME sym = "up", l[c] # "up", NEW w \in Sent(l) \ {Wire(l[c], c)}
      PROVE  w \in Sent(m)
  <2>1. PICK d \in Codes : l[d] # "up" /\ w = Wire(l[d], d)
    BY <1>3 DEF Sent
  <2>2. d # c
    BY <1>3, <2>1
  <2>3. m[d] = l[d]
    BY <1>1, <2>2
  <2> QED BY <2>1, <2>3 DEF Sent
<1>4. sym # "up" /\ l[c] \in {"up", sym} => Sent(l) \cup {Wire(sym, c)} \subseteq Sent(m)
  BY <1>2
<1>5. sym = "up" /\ l[c] # "up" => Sent(l) \ {Wire(l[c], c)} \subseteq Sent(m)
  BY <1>3
<1> QED BY <1>0, <1>1, <1>4, <1>5 DEF Resent

(* _sendKeyEvent keeps r fine; only the key's entry of the list changes.     *)
Put(r, x, c, sym) ==
    /\ Fine(x) /\ x.armed = r.armed
    /\ x.list[c] = sym /\ (\A d \in Codes : d # c => x.list[d] = r.list[d])

(* The keysym that a key is listed as, or may be listed as.                  *)
Fits(r, c, sym) ==
    /\ c \in Codes /\ sym \in Keysym /\ r.list[c] \in {"up", sym}
    /\ sym = "Caps_Lock" <=> c = "CapsLock"

LEMMA PressedIs ==
    ASSUME NEW r, Fine(r), NEW c, NEW sym, Fits(r, c, sym), NEW cl
    PROVE  Put(r, SendKeyEvent(r, sym, c, TRUE, cl), c, sym)
<1>0. /\ c \in Codes /\ sym \in Keysym /\ r.list[c] \in {"up", sym}
      /\ sym = "Caps_Lock" <=> c = "CapsLock"
  BY DEF Fits
<1>1. PICK e : e = Enlist(r, c, sym)
  OBVIOUS
<1>2. r \in K /\ r.list \in Lists /\ sym # "up" /\ sym \in Keysym \cup {"up"}
  BY <1>0, KeysymsIs DEF Fine, K
<1>3. /\ e \in K /\ e.list = [r.list EXCEPT ![c] = sym] /\ e.armed = r.armed /\ e.remote = r.remote
      /\ e.held = r.held /\ e.server = r.server /\ e.leds = r.leds
  BY <1>0, <1>1, <1>2, EnlistIs DEF Enlisted
<1>4. Lamp(e)
  BY <1>3, LampKept DEF Fine, Lights
<1>a. PICK x : x = HandleKeyEvent(e, sym, c, TRUE, cl)
  OBVIOUS
<1>5. /\ x \in K /\ Lamp(x) /\ x.list = e.list /\ x.armed = e.armed
      /\ x.held \subseteq e.held \cup {Wire(sym, c)}
      /\ ~Sends => x.held \subseteq e.held
  <2>1. HandledDown(e, x, Wire(sym, c))
    BY <1>0, <1>3, <1>4, <1>a, HandleDownIs
  <2> QED BY <2>1 DEF HandledDown
<1>6. x = SendKeyEvent(r, sym, c, TRUE, cl)
  BY <1>1, <1>a DEF SendKeyEvent
<1>7. /\ x.list[c] = sym /\ (\A d \in Codes : d # c => x.list[d] = r.list[d])
      /\ Sent(r.list) \cup {Wire(sym, c)} \subseteq Sent(x.list)
  <2>1. PICK m : m = [r.list EXCEPT ![c] = sym]
    OBVIOUS
  <2>2. Resent(r.list, m, c, sym)
    BY <1>0, <1>2, <2>1, SentIs
  <2> QED BY <1>0, <1>2, <1>3, <1>5, <2>1, <2>2 DEF Resent
<1>8. Known(x)
  BY <1>3, <1>5, <1>7 DEF Fine, Known
<1>9. OwnSym(x)
  BY <1>0, <1>7 DEF Fine, OwnSym
<1>10. Fine(x) /\ x.armed = r.armed
  BY <1>3, <1>5, <1>8, <1>9 DEF Fine
<1> QED BY <1>6, <1>7, <1>10 DEF Put

Listable(r, c, sym) == c \in Codes /\ r.list[c] \in {"up", sym}

LEMMA LiftedIs ==
    ASSUME NEW r, Fine(r), NEW c, NEW sym, Listable(r, c, sym), NEW cl
    PROVE  Put(r, SendKeyEvent(r, sym, c, FALSE, cl), c, "up")
<1>0. c \in Codes /\ r.list[c] \in {"up", sym}
  BY DEF Listable
<1>2. r \in K /\ r.list \in Lists
  BY DEF Fine, K
<1>a. CASE r.list[c] = "up"
  <2>1. r = SendKeyEvent(r, sym, c, FALSE, cl)
    BY <1>a DEF SendKeyEvent
  <2> QED BY <2>1, <1>a, <1>2 DEF Put
<1>b. CASE r.list[c] # "up"
  <2>0. sym = r.list[c] /\ sym \in Keysym /\ "up" \in Keysym \cup {"up"}
    BY <1>0, <1>2, <1>b DEF Lists
  <2>1. PICK e : e = Enlist(r, c, "up")
    OBVIOUS
  <2>3. /\ e \in K /\ e.list = [r.list EXCEPT ![c] = "up"] /\ e.armed = r.armed /\ e.remote = r.remote
        /\ e.held = r.held /\ e.server = r.server /\ e.leds = r.leds
    BY <1>0, <2>0, <2>1, <1>2, EnlistIs DEF Enlisted
  <2>4. Lamp(e)
    BY <2>3, LampKept DEF Fine, Lights
  <2>a. PICK x : x = HandleKeyEvent(e, sym, c, FALSE, cl)
    OBVIOUS
  <2>5. /\ x \in K /\ Lamp(x) /\ x.list = e.list /\ x.armed = e.armed
        /\ Sends => x.held = e.held \ {Wire(sym, c)}
        /\ ~Sends => x.held = e.held
    <3>1. HandledUp(e, x, Wire(sym, c))
      BY <1>0, <2>0, <2>3, <2>4, <2>a, HandleUpIs
    <3> QED BY <3>1 DEF HandledUp
  <2>6. x = SendKeyEvent(r, sym, c, FALSE, cl)
    BY <1>b, <2>1, <2>a DEF SendKeyEvent
  <2>7. /\ x.list[c] = "up" /\ (\A d \in Codes : d # c => x.list[d] = r.list[d])
        /\ Sent(r.list) \ {Wire(sym, c)} \subseteq Sent(x.list)
    <3>1. PICK m : m = [r.list EXCEPT ![c] = "up"]
      OBVIOUS
    <3>2. Resent(r.list, m, c, "up")
      BY <1>0, <1>2, <2>0, <3>1, SentIs
    <3> QED BY <1>0, <1>b, <2>0, <2>3, <2>5, <3>1, <3>2 DEF Resent
  <2>8. Known(x)
    BY <2>3, <2>5, <2>7 DEF Fine, Known
  <2>9. OwnSym(x)
    BY <1>0, <2>7 DEF Fine, OwnSym
  <2>10. Fine(x) /\ x.armed = r.armed
    BY <2>3, <2>5, <2>8, <2>9 DEF Fine
  <2> QED BY <2>6, <2>7, <2>10 DEF Put
<1> QED BY <1>a, <1>b

(* PressRelease, and _altGrArmed set or reset.                               *)
LEMMA PressReleaseIs ==
    ASSUME NEW r, Fine(r), NEW c, NEW sym, Fits(r, c, sym), NEW cl
    PROVE  Put(r, PressRelease(r, sym, c, cl), c, "up")
<1>1. PICK y : y = SendKeyEvent(r, sym, c, TRUE, cl)
  OBVIOUS
<1>2. Put(r, y, c, sym)
  BY <1>1, PressedIs
<1>3. Fine(y) /\ Listable(y, c, sym)
  BY <1>2 DEF Put, Listable, Fits
<1>4. PICK x : x = SendKeyEvent(y, sym, c, FALSE, cl)
  OBVIOUS
<1>5. Put(y, x, c, "up")
  BY <1>3, <1>4, LiftedIs
<1>6. x = PressRelease(r, sym, c, cl)
  BY <1>1, <1>4 DEF PressRelease
<1> QED BY <1>2, <1>5, <1>6 DEF Put

ArmedFine(r, x, on) == Fine(x) /\ x.armed = on /\ x.list = r.list

LEMMA ArmedIs ==
    ASSUME NEW r, Fine(r), NEW on \in BOOLEAN
    PROVE  ArmedFine(r, Arm(r, on), on)
<1>1. PICK x : x = Arm(r, on)
  OBVIOUS
<1>2. r \in K
  BY DEF Fine
<1>3. Armed(r, x, on)
  BY <1>1, <1>2, ArmIs
<1>4. Lamp(x)
  BY <1>3, LampKept DEF Fine, Lights, Armed
<1>5. Known(x) /\ OwnSym(x)
  BY <1>3 DEF Armed, Fine, Known, OwnSym
<1>6. Fine(x)
  BY <1>3, <1>4, <1>5 DEF Armed, Fine
<1> QED BY <1>1, <1>3, <1>6 DEF Armed, ArmedFine

(* A Control that may be an AltGr is not listed.                             *)
Armable(r) == Fine(r) /\ (r.armed => r.list["ControlLeft"] = "up")

LEMMA ControlIs ==
    ASSUME NEW r, Armable(r), NEW cl
    PROVE  Put(Arm(r, FALSE), SendKeyEvent(Arm(r, FALSE), "Control_L", "ControlLeft", TRUE, cl),
               "ControlLeft", "Control_L") \/ ~r.armed
<1>1. PICK y : y = Arm(r, FALSE)
  OBVIOUS
<1>2. Fine(y) /\ y.list = r.list
  BY <1>1, ArmedIs DEF Armable, ArmedFine
<1>3. SUFFICES ASSUME r.armed
               PROVE  Put(y, SendKeyEvent(y, "Control_L", "ControlLeft", TRUE, cl), "ControlLeft", "Control_L")
  BY <1>1
<1>4. Fits(y, "ControlLeft", "Control_L")
  BY <1>2, <1>3, KeysymsIs DEF Armable, Fits
<1> QED BY <1>2, <1>4, PressedIs

Interrupted(r, x) ==
    /\ Fine(x) /\ ~x.armed
    /\ x.list["ControlLeft"] = IF r.armed THEN "Control_L" ELSE r.list["ControlLeft"]
    /\ \A d \in Codes : d # "ControlLeft" => x.list[d] = r.list[d]

LEMMA InterruptIs ==
    ASSUME NEW r, Armable(r)
    PROVE  Interrupted(r, InterruptAltGr(r))
<1>1. CASE ~r.armed
  BY <1>1 DEF InterruptAltGr, Interrupted, Armable
<1>2. CASE r.armed
  <2>1. PICK y : y = Arm(r, FALSE)
    OBVIOUS
  <2>2. PICK x : x = SendKeyEvent(y, "Control_L", "ControlLeft", TRUE, "null")
    OBVIOUS
  <2>3. Put(y, x, "ControlLeft", "Control_L")
    BY <1>2, <2>1, <2>2, ControlIs
  <2>4. ~y.armed /\ y.list = r.list
    BY <2>1, ArmedIs DEF Armable, ArmedFine
  <2>5. x = InterruptAltGr(r)
    BY <1>2, <2>1, <2>2 DEF InterruptAltGr
  <2>6. Interrupted(r, x)
    BY <1>2, <2>3, <2>4 DEF Put, Interrupted
  <2> QED BY <2>5, <2>6
<1> QED BY <1>1, <1>2

-----------------------------------------------------------------------------
(* _handleKeyDown and _handleKeyUp.                                          *)

(* The Control that was armed is a Control after all, or the half of an AltGr.*)
Begun(r, c, cl, altGr) ==
    IF r.armed /\ ~altGr THEN SendKeyEvent(Arm(r, FALSE), "Control_L", "ControlLeft", TRUE, cl)
    ELSE Arm(r, FALSE)

HasBegun(r, x, altGr) ==
    /\ Fine(x) /\ ~x.armed
    /\ x.list["ControlLeft"] = IF r.armed /\ ~altGr THEN "Control_L" ELSE r.list["ControlLeft"]
    /\ \A d \in Codes : d # "ControlLeft" => x.list[d] = r.list[d]

LEMMA BegunIs ==
    ASSUME NEW r, Armable(r), NEW c, NEW cl, NEW altGr
    PROVE  HasBegun(r, Begun(r, c, cl, altGr), altGr)
<1>1. PICK y : y = Arm(r, FALSE)
  OBVIOUS
<1>2. Fine(y) /\ ~y.armed /\ y.list = r.list
  BY <1>1, ArmedIs DEF Armable, ArmedFine
<1>3. CASE r.armed /\ ~altGr
  <2>1. PICK x : x = SendKeyEvent(y, "Control_L", "ControlLeft", TRUE, cl)
    OBVIOUS
  <2>2. Put(y, x, "ControlLeft", "Control_L")
    BY <1>1, <1>3, <2>1, ControlIs
  <2>3. HasBegun(r, x, altGr)
    BY <1>2, <1>3, <2>2 DEF Put, HasBegun
  <2>4. x = Begun(r, c, cl, altGr)
    BY <1>1, <1>3, <2>1 DEF Begun
  <2> QED BY <2>3, <2>4
<1>4. CASE ~(r.armed /\ ~altGr)
  <2>1. HasBegun(r, y, altGr)
    BY <1>2, <1>4 DEF HasBegun
  <2>2. y = Begun(r, c, cl, altGr)
    BY <1>1, <1>4 DEF Begun
  <2> QED BY <2>1, <2>2
<1> QED BY <1>3, <1>4

(* What _handleKeyDown sends the key as.                                     *)
Final(r1, c, sym, altGr) ==
    LET raw    == IF altGr THEN "ISO_Level3_Shift" ELSE sym
        mapped == IF env.platform = "mac" THEN MacKeysym(raw) ELSE raw
    IN IF r1.list[c] # "up" THEN r1.list[c] ELSE mapped

LEMMA FinalFits ==
    ASSUME NEW r1, Fine(r1), NEW c \in Codes, NEW sym \in Keysyms(c), NEW altGr \in BOOLEAN, altGr => c = "AltRight"
    PROVE  Fits(r1, c, Final(r1, c, sym, altGr))
<1>1. r1.list \in Lists /\ OwnSym(r1)
  BY DEF Fine, K
<1>2. CASE r1.list[c] # "up"
  <2>1. Final(r1, c, sym, altGr) = r1.list[c]
    BY <1>2 DEF Final
  <2> QED BY <1>1, <1>2, <2>1 DEF Fits, OwnSym, Lists
<1>3. CASE r1.list[c] = "up"
  <2>1. PICK raw : raw = IF altGr THEN "ISO_Level3_Shift" ELSE sym
    OBVIOUS
  <2>2. sym \in Keysym /\ (sym = "Caps_Lock" <=> c = "CapsLock")
    BY KeysymsIs, KeysymsOf
  <2>3. raw \in Keysym /\ (raw = "Caps_Lock" <=> c = "CapsLock")
    BY <2>1, <2>2, KeysymsIs
  <2>4. Final(r1, c, sym, altGr) = IF env.platform = "mac" THEN MacKeysym(raw) ELSE raw
    BY <1>3, <2>1 DEF Final
  <2>5. PICK f : f = Final(r1, c, sym, altGr)
    OBVIOUS
  <2>6. f \in Keysym /\ (f = "Caps_Lock" <=> c = "CapsLock")
    BY <2>3, <2>4, <2>5, MacKeysymIs
  <2> QED BY <1>3, <2>5, <2>6 DEF Fits
<1> QED BY <1>2, <1>3

(* What becomes of the list: the key is listed, armed, or pressed for an instant. *)
Downed(r, x, c, sym, altGr) ==
    /\ Armable(x)
    /\ \A d \in Codes : d # "ControlLeft" /\ d # c => x.list[d] = r.list[d]
    /\ c # "ControlLeft" =>
          /\ ~x.armed
          /\ x.list["ControlLeft"] = IF r.armed /\ ~altGr THEN "Control_L" ELSE r.list["ControlLeft"]
    /\ ~Instant(c, sym) => x.list[c] # "up" \/ x.armed
    /\ c = "Unidentified" => x.list[c] \in {"up", r.list[c]}

LEMMA KeyDownIs ==
    ASSUME NEW r, Armable(r), NEW c \in Codes, NEW sym \in Keysyms(c), NEW cl, NEW quick \in BOOLEAN,
           NEW altGr \in BOOLEAN, altGr = (r.armed /\ c = "AltRight" /\ quick)
    PROVE  Downed(r, KeyDown(r, c, sym, cl, quick), c, sym, altGr)
<1>1. PICK r1 : r1 = Begun(r, c, cl, altGr)
  OBVIOUS
<1>2. HasBegun(r, r1, altGr)
  BY <1>1, BegunIs
<1>3. PICK f : f = Final(r1, c, sym, altGr)
  OBVIOUS
<1>4. Fine(r1) /\ ~r1.armed
  BY <1>2 DEF HasBegun
<1>5. Fits(r1, c, f)
  BY <1>3, <1>4, FinalFits
<1>6. PICK x : x = KeyDown(r, c, sym, cl, quick)
  OBVIOUS
<1>7. x = IF c = "Unidentified" /\ sym = "null" THEN r1
          ELSE IF Instant(c, sym) THEN PressRelease(r1, f, c, cl)
          ELSE IF c = "ControlLeft" /\ env.platform = "windows" /\ r1.list[c] = "up" THEN Arm(r1, TRUE)
          ELSE SendKeyEvent(r1, f, c, TRUE, cl)
  BY <1>1, <1>3, <1>6 DEF KeyDown, Begun, Final
<1>8. c \in Codes /\ f \in Keysym /\ "up" \notin Keysym
  BY <1>5, KeysymsIs DEF Fits
<1>9. "ControlLeft" \in Codes
  BY KeysymsIs
<1>a. CASE c = "Unidentified" /\ sym = "null"
  <2>1. x = r1
    BY <1>7, <1>a
  <2>2. Instant(c, sym)
    BY <1>a DEF Instant
  <2>3. Downed(r, x, c, sym, altGr)
    BY <1>2, <1>a, <2>1, <2>2 DEF HasBegun, Downed, Armable
  <2> QED BY <1>6, <2>3
<1>b. CASE ~(c = "Unidentified" /\ sym = "null") /\ Instant(c, sym)
  <2>1. x = PressRelease(r1, f, c, cl)
    BY <1>7, <1>b
  <2>2. Put(r1, x, c, "up")
    BY <1>4, <1>5, <2>1, PressReleaseIs
  <2>3. Downed(r, x, c, sym, altGr)
    BY <1>2, <1>9, <1>b, <2>2 DEF HasBegun, Downed, Armable, Put
  <2> QED BY <1>6, <2>3
<1>c. CASE ~Instant(c, sym) /\ c = "ControlLeft" /\ env.platform = "windows" /\ r1.list[c] = "up"
  <2>0. c # "Unidentified"
    BY <1>c
  <2>1. x = Arm(r1, TRUE)
    BY <1>7, <1>c, <2>0
  <2>2. ArmedFine(r1, x, TRUE)
    BY <1>4, <2>1, ArmedIs
  <2>3. Fine(x) /\ x.armed /\ x.list = r1.list
    BY <2>2 DEF ArmedFine
  <2>4. Downed(r, x, c, sym, altGr)
    BY <1>2, <1>c, <2>0, <2>3 DEF HasBegun, Downed, Armable
  <2> QED BY <1>6, <2>4
<1>d. CASE ~Instant(c, sym) /\ ~(c = "ControlLeft" /\ env.platform = "windows" /\ r1.list[c] = "up")
  <2>0. c # "Unidentified"
    BY <1>d DEF Instant
  <2>1. x = SendKeyEvent(r1, f, c, TRUE, cl)
    BY <1>7, <1>d, <2>0
  <2>2. Put(r1, x, c, f)
    BY <1>4, <1>5, <2>1, PressedIs
  <2>3. Downed(r, x, c, sym, altGr)
    BY <1>2, <1>8, <1>9, <1>d, <2>0, <2>2 DEF HasBegun, Downed, Armable, Put
  <2> QED BY <1>6, <2>3
<1> QED BY <1>a, <1>b, <1>c, <1>d

BothShifts(c) == env.platform = "windows" /\ c \in Shifts

Upped(r, x, c) ==
    /\ Fine(x) /\ ~x.armed /\ x.list[c] = "up"
    /\ BothShifts(c) => \A d \in Shifts : x.list[d] = "up"
    /\ \A d \in Codes : d # c /\ d # "ControlLeft" /\ ~(BothShifts(c) /\ d \in Shifts) => x.list[d] = r.list[d]
    /\ c # "ControlLeft" => x.list["ControlLeft"] = IF r.armed THEN "Control_L" ELSE r.list["ControlLeft"]

LEMMA KeyUpIs ==
    ASSUME NEW r, Armable(r), NEW c \in Codes
    PROVE  Upped(r, KeyUp(r, c), c)
<1>1. PICK r0 : r0 = InterruptAltGr(r)
  OBVIOUS
<1>2. Interrupted(r, r0)
  BY <1>1, InterruptIs
<1>3. PICK r1 : r1 = SendKeyEvent(r0, r0.list[c], c, FALSE, "null")
  OBVIOUS
<1>4. Fine(r0) /\ Listable(r0, c, r0.list[c])
  BY <1>2 DEF Interrupted, Listable
<1>5. Put(r0, r1, c, "up")
  BY <1>3, <1>4, LiftedIs
<1>6. PICK x : x = KeyUp(r, c)
  OBVIOUS
<1>7. {"ControlLeft", "ShiftLeft", "ShiftRight", "CapsLock"} \subseteq Codes
  BY KeysymsIs
<1>a. CASE env.platform = "mac" /\ c = "CapsLock"
  <2>1. x = PressRelease(r0, "Caps_Lock", c, "null")
    BY <1>1, <1>6, <1>a DEF KeyUp
  <2>2. Fits(r0, c, "Caps_Lock")
    BY <1>4, <1>7, <1>a, KeysymsIs DEF Fits, Fine, OwnSym
  <2>3. Put(r0, x, c, "up")
    BY <1>4, <2>1, <2>2, PressReleaseIs
  <2>4. ~BothShifts(c)
    BY <1>a DEF BothShifts
  <2>5. Upped(r, x, c)
    BY <1>2, <1>7, <2>3, <2>4 DEF Put, Interrupted, Upped
  <2> QED BY <1>6, <2>5
<1>b. CASE ~(env.platform = "mac" /\ c = "CapsLock") /\ BothShifts(c)
  <2>1. PICK r2 : r2 = SendKeyEvent(r1, r1.list["ShiftRight"], "ShiftRight", FALSE, "null")
    OBVIOUS
  <2>2. PICK r3 : r3 = SendKeyEvent(r2, r2.list["ShiftLeft"], "ShiftLeft", FALSE, "null")
    OBVIOUS
  <2>3. x = r3
    BY <1>1, <1>3, <1>6, <1>b, <2>1, <2>2 DEF KeyUp, BothShifts
  <2>4. Fine(r1) /\ Listable(r1, "ShiftRight", r1.list["ShiftRight"])
    BY <1>5, <1>7 DEF Put, Listable
  <2>5. Put(r1, r2, "ShiftRight", "up")
    BY <2>1, <2>4, LiftedIs
  <2>6. Fine(r2) /\ Listable(r2, "ShiftLeft", r2.list["ShiftLeft"])
    BY <2>5, <1>7 DEF Put, Listable
  <2>7. Put(r2, x, "ShiftLeft", "up")
    BY <2>2, <2>3, <2>6, LiftedIs
  <2>8. c \in {"ShiftLeft", "ShiftRight"}
    BY <1>b DEF BothShifts, Shifts
  <2>9. Upped(r, x, c)
    BY <1>2, <1>5, <1>7, <1>b, <2>5, <2>7, <2>8 DEF Put, Interrupted, Upped, Shifts
  <2> QED BY <1>6, <2>9
<1>c. CASE ~(env.platform = "mac" /\ c = "CapsLock") /\ ~BothShifts(c)
  <2>1. x = r1
    BY <1>1, <1>3, <1>6, <1>c DEF KeyUp, BothShifts
  <2>2. Upped(r, x, c)
    BY <1>2, <1>5, <1>7, <1>c, <2>1 DEF Put, Interrupted, Upped
  <2> QED BY <1>6, <2>2
<1> QED BY <1>a, <1>b, <1>c

(* Every key is released.                                                    *)
Released(r, x, sent) ==
    /\ x \in K /\ (\A d \in Codes : x.list[d] = "up") /\ x.armed = r.armed
    /\ x.held = IF sent THEN r.held \ Sent(r.list) ELSE r.held
    /\ x.remote = r.remote /\ x.server = r.server /\ x.leds = r.leds

LEMMA ReleaseListedIs ==
    ASSUME NEW r \in K, NEW sent \in BOOLEAN
    PROVE  Released(r, ReleaseListed(r, sent), sent)
<1>1. PICK l : l = [c \in Codes |-> "up"]
  OBVIOUS
<1>2. l \in Lists /\ \A d \in Codes : l[d] = "up"
  BY <1>1 DEF Lists
<1>3. PICK h : h = IF sent THEN r.held \ Sent(r.list) ELSE r.held
  OBVIOUS
<1>4. h \in SUBSET Wires
  BY <1>3 DEF K
<1>5. ReleaseListed(r, sent) = [r EXCEPT !.list = l, !.held = h]
  BY <1>1, <1>3 DEF ReleaseListed, Sent, K
<1>6. PICK x : x = [r EXCEPT !.list = l, !.held = h]
  OBVIOUS
<1>7. /\ x \in K /\ x.list = l /\ x.armed = r.armed /\ x.held = h
      /\ x.remote = r.remote /\ x.server = r.server /\ x.leds = r.leds
  BY <1>2, <1>4, <1>6 DEF K
<1> QED BY <1>2, <1>3, <1>5, <1>6, <1>7 DEF Released

-----------------------------------------------------------------------------
(* The inductive invariant.                                                  *)

Quiet(r) == (\A d \in Codes : r.list[d] = "up") /\ ~r.armed

UserOK ==
    /\ EnvOK
    /\ conn \in {"connecting", "connected", "gone"} /\ focus \in {"canvas", "elsewhere", "away"}
    /\ {viewOnly, fake, due, muted} \subseteq BOOLEAN /\ caps \in Onoff
    /\ phys \subseteq KeysOf(env.platform)

(* A key of which the client thinks rightly.                                 *)
Tracked(c) ==
    /\ k.list[c] # "up" => \/ c \in phys
                           \/ c = "ControlLeft" /\ fake
                           \/ env.platform = "windows" /\ c \in Shifts /\ phys \cap Shifts # {}
    /\ c \in phys       => \/ k.list[c] # "up"
                           \/ c = "ControlLeft" /\ k.armed
                           \/ c = "AltRight" /\ due

Fingers ==
    /\ due => env.platform = "windows" /\ fake /\ "AltRight" \in phys
    /\ fake => "ControlLeft" \notin phys
    /\ Grabbed /\ k.armed /\ "ControlLeft" \notin apart => "ControlLeft" \in phys \/ fake
    /\ Grabbed => \A c \in Codes \ apart : Tracked(c)

KInv ==
    /\ UserOK
    /\ Armable(k)
    /\ (Grabbed /\ focus # "away") \/ Quiet(k)
    /\ Fingers

LEMMA InitKInv == ASSUME Init PROVE KInv
<1>1. PICK l : l = [c \in Codes |-> "up"]
  OBVIOUS
<1>2. l \in Lists /\ \A d \in Codes : l[d] = "up"
  BY <1>1 DEF Lists
<1>3. k = [list |-> l, armed |-> FALSE, held |-> {}, remote |-> "null", server |-> "off", leds |-> <<>>]
  BY <1>1 DEF Init, KInit
<1>4. /\ k.list = l /\ k.armed = FALSE /\ k.held = {} /\ k.remote = "null" /\ k.server = "off" /\ k.leds = <<>>
      /\ k \in K
  BY <1>2, <1>3 DEF K, Onoff
<1>5. Fine(k)
  BY <1>2, <1>4 DEF Fine, Known, Lamp, OwnSym, Init
<1>6. Armable(k) /\ Quiet(k)
  BY <1>2, <1>4, <1>5, KeysymsIs DEF Armable, Quiet
<1>7. UserOK
  BY DEF Init, UserOK, EnvOK, Onoff
<1>8. Fingers
  BY <1>4, <1>6 DEF Init, Fingers, Tracked, Quiet
<1> QED BY <1>6, <1>7, <1>8 DEF KInv

(* While RFB and the user's side of it stay as they are, k may become any that is fine. *)
LEMMA ArmablePrime ==
    ASSUME NEW x, Armable(x), k' = x, UNCHANGED <<env, conn, viewOnly, muted>>
    PROVE  Armable(k)' /\ k'.list = x.list /\ k'.armed = x.armed
<1>1. x \in K /\ k'.list = x.list /\ k'.armed = x.armed /\ k'.held = x.held
  BY DEF Armable, Fine
<1>2. Lamp(k)'
  BY DEF Armable, Fine, Lamp
<1>3. OwnSym(k)'
  BY DEF Armable, Fine, OwnSym
<1>4. \A s, c : Wire(s, c)' = Wire(s, c)
  BY DEF Wire
<1>5. Sent(k.list)' = Sent(x.list)
  BY <1>4 DEF Sent, Wire
<1>6. Sends' = Sends
  BY DEF Sends
<1>7. Known(k)'
  BY <1>1, <1>5, <1>6 DEF Armable, Fine, Known
<1> QED BY <1>1, <1>2, <1>3, <1>7 DEF Armable, Fine

LEMMA KeyIs ==
    ASSUME UserOK, NEW c \in KeysOf(env.platform)
    PROVE  c \in Codes /\ c # "Unidentified"
<1>1. env.platform \in Platforms
  BY DEF UserOK, EnvOK
<1> QED BY <1>1, PlatformAssumption DEF Codes

LEMMA PressStep ==
    ASSUME KInv, NEW c \in KeysOf(env.platform), NEW sym \in Keysyms(c), Press(c, sym)
    PROVE  KInv'
<1>1. UserOK'
  BY DEF Press, KInv, UserOK, EnvOK, Flip, Onoff
<1>2. c \in Codes /\ c # "Unidentified" /\ "ControlLeft" \in Codes
  BY KeyIs, KeysymsIs DEF KInv
<1>3. CASE ~Delivered
  <2>1. k' = k /\ apart' = apart \cup {c}
    BY <1>3 DEF Press
  <2>2. Armable(k)' /\ Quiet(k)' = Quiet(k)
    BY <2>1, ArmablePrime DEF Press, KInv, Quiet
  <2>3. Fingers'
    BY <2>1 DEF Press, KInv, Fingers, Tracked, Grabbed
  <2> QED BY <1>1, <2>2, <2>3 DEF KInv, Press, Grabbed
<1>4. CASE Delivered
  <2>0. PICK cl : cl = caps'
    OBVIOUS
  <2>1. PICK x : x = KeyDown(k, c, sym, cl, FALSE)
    OBVIOUS
  <2>2. k' = x /\ apart' = IF Instant(c, sym) THEN apart \cup {c} ELSE apart \ {c}
    BY <1>4, <2>0, <2>1 DEF Press
  <2>3. PICK altGr \in BOOLEAN, quick \in BOOLEAN : altGr = FALSE /\ quick = FALSE
    OBVIOUS
  <2>4. Downed(k, x, c, sym, altGr)
    BY <1>2, <2>1, <2>3, KeyDownIs DEF KInv
  <2>5. Armable(k)' /\ k'.list = x.list /\ k'.armed = x.armed
    BY <2>2, <2>4, ArmablePrime DEF Downed, Press
  <2>6. Grabbed /\ focus # "away"
    BY <1>4 DEF Delivered
  <2>7. Fingers'
    BY <1>2, <2>2, <2>3, <2>4, <2>5, <2>6 DEF Press, KInv, Fingers, Tracked, Grabbed, Downed, Armable
  <2> QED BY <1>1, <2>5, <2>6, <2>7 DEF KInv, Press, Grabbed
<1> QED BY <1>3, <1>4

LEMMA RepeatStep ==
    ASSUME KInv, NEW c \in KeysOf(env.platform), NEW sym \in Keysyms(c), Repeat(c, sym)
    PROVE  KInv'
<1>1. UserOK'
  BY DEF Repeat, KInv, UserOK, EnvOK
<1>2. c \in Codes /\ c # "Unidentified" /\ "ControlLeft" \in Codes
  BY KeyIs, KeysymsIs DEF KInv
<1>3. PICK x : x = KeyDown(k, c, sym, caps, FALSE)
  OBVIOUS
<1>4. k' = x /\ apart' = IF Instant(c, sym) THEN apart \cup {c} ELSE apart \ {c}
  BY <1>3 DEF Repeat
<1>5. PICK altGr \in BOOLEAN, quick \in BOOLEAN : altGr = FALSE /\ quick = FALSE
  OBVIOUS
<1>6. Downed(k, x, c, sym, altGr)
  BY <1>2, <1>3, <1>5, KeyDownIs DEF KInv
<1>7. Armable(k)' /\ k'.list = x.list /\ k'.armed = x.armed
  BY <1>4, <1>6, ArmablePrime DEF Downed, Repeat
<1>8. Grabbed /\ focus # "away"
  BY DEF Delivered, Repeat
<1>9. Fingers'
  BY <1>2, <1>4, <1>5, <1>6, <1>7, <1>8 DEF Repeat, KInv, Fingers, Tracked, Grabbed, Downed, Armable
<1> QED BY <1>1, <1>7, <1>8, <1>9 DEF KInv, Repeat, Grabbed

LEMMA ReleaseStep ==
    ASSUME KInv, NEW c \in KeysOf(env.platform), Release(c)
    PROVE  KInv'
<1>1. UserOK'
  BY DEF Release, KInv, UserOK, EnvOK
<1>2. c \in Codes /\ c # "Unidentified" /\ "ControlLeft" \in Codes /\ Shifts \subseteq Codes
  BY KeyIs, KeysymsIs DEF KInv, Shifts
<1>3. PICK gone : gone = {c} \cup (IF c = "AltRight" /\ fake THEN {"ControlLeft"} ELSE {})
                         \cup (IF env.platform = "windows" /\ c \in Shifts THEN Shifts ELSE {})
  OBVIOUS
<1>4. /\ c \in gone
      /\ (c = "AltRight" /\ fake) => "ControlLeft" \in gone
      /\ BothShifts(c) => Shifts \subseteq gone
      /\ \A d \in gone : d = c \/ (c = "AltRight" /\ fake /\ d = "ControlLeft") \/ (BothShifts(c) /\ d \in Shifts)
  BY <1>3 DEF BothShifts
<1>5. /\ ~due /\ c \in phys /\ phys' = phys \ {c} /\ (fake' <=> fake /\ c # "AltRight")
      /\ UNCHANGED <<env, conn, viewOnly, focus, due, caps, muted>>
  BY DEF Release
<1>6. CASE ~Delivered
  <2>1. k' = k /\ apart' = apart \cup gone
    BY <1>3, <1>6 DEF Release
  <2>2. Armable(k)' /\ Quiet(k)' = Quiet(k)
    BY <1>5, <2>1, ArmablePrime DEF KInv, Quiet
  <2>3. Fingers'
    BY <1>2, <1>4, <1>5, <2>1 DEF KInv, Fingers, Tracked, Grabbed, BothShifts
  <2> QED BY <1>1, <1>5, <2>2, <2>3 DEF KInv, Grabbed
<1>7. CASE Delivered /\ Silent(c)
  <2>1. k' = k /\ apart' = apart
    BY <1>7 DEF Release
  <2>2. Armable(k)' /\ Quiet(k)' = Quiet(k)
    BY <1>5, <2>1, ArmablePrime DEF KInv, Quiet
  <2>3. phys' \cap Shifts # {} /\ c # "AltRight" /\ c # "ControlLeft"
    <3>1. PICK d \in Shifts : d # c /\ d \in phys
      BY <1>7 DEF Silent, Shifts
    <3> QED BY <1>5, <1>7, <3>1 DEF Silent, Shifts
  <2>4. Fingers'
    BY <1>2, <1>5, <1>7, <2>1, <2>3 DEF KInv, Fingers, Tracked, Grabbed, Silent
  <2> QED BY <1>1, <1>5, <2>2, <2>4 DEF KInv, Grabbed
<1>8. CASE Delivered /\ ~Silent(c) /\ c = "AltRight" /\ fake
  <2>1. PICK y : y = KeyUp(k, "ControlLeft")
    OBVIOUS
  <2>2. PICK x : x = KeyUp(y, c)
    OBVIOUS
  <2>3. k' = x /\ apart' = apart \ gone
    BY <1>3, <1>8, <2>1, <2>2 DEF Release
  <2>4. Upped(k, y, "ControlLeft")
    BY <1>2, <2>1, KeyUpIs DEF KInv
  <2>5. Armable(y)
    BY <2>4 DEF Upped, Armable
  <2>6. Upped(y, x, c)
    BY <1>2, <2>2, <2>5, KeyUpIs
  <2>7. Armable(x)
    BY <2>6 DEF Upped, Armable
  <2>8. Armable(k)' /\ k'.list = x.list /\ k'.armed = x.armed
    BY <1>5, <2>3, <2>7, ArmablePrime
  <2>9. ~BothShifts(c) /\ ~BothShifts("ControlLeft")
    BY <1>8 DEF BothShifts, Shifts
  <2>10. Grabbed /\ focus # "away"
    BY <1>8 DEF Delivered
  <2>11. ~k'.armed /\ k'.list[c] = "up" /\ k'.list["ControlLeft"] = "up"
         /\ \A d \in Codes : d # c /\ d # "ControlLeft" => k'.list[d] = k.list[d]
    BY <1>8, <2>4, <2>6, <2>8, <2>9 DEF Upped
  <2>12. Fingers'
    <3>1. ASSUME NEW d \in Codes \ apart'
          PROVE  Tracked(d)'
      <4>1. CASE d \in gone
        <5>1. k'.list[d] = "up" /\ d \notin phys'
          BY <1>4, <1>5, <1>8, <2>9, <2>11, <4>1 DEF KInv, Fingers
        <5> QED BY <5>1 DEF Tracked
      <4>2. CASE d \notin gone
        <5>1. Tracked(d)
          BY <2>3, <2>10, <3>1, <4>2 DEF KInv, Fingers
        <5>2. d # c /\ d # "ControlLeft" /\ k'.list[d] = k.list[d]
          BY <1>4, <1>8, <2>11, <3>1, <4>2
        <5>3. (d \in phys <=> d \in phys') /\ phys' \cap Shifts = phys \cap Shifts
          BY <1>5, <1>8, <5>2 DEF Shifts
        <5> QED BY <1>5, <1>8, <5>1, <5>2, <5>3 DEF Tracked
      <4> QED BY <4>1, <4>2
    <3> QED BY <1>5, <2>11, <3>1 DEF KInv, Fingers
  <2> QED BY <1>1, <1>5, <2>8, <2>10, <2>12 DEF KInv, Grabbed
<1>9. CASE Delivered /\ ~Silent(c) /\ ~(c = "AltRight" /\ fake)
  <2>1. PICK x : x = KeyUp(k, c)
    OBVIOUS
  <2>2. k' = x /\ apart' = apart \ gone
    BY <1>3, <1>9, <2>1 DEF Release
  <2>3. Upped(k, x, c)
    BY <1>2, <2>1, KeyUpIs DEF KInv
  <2>4. Armable(x)
    BY <2>3 DEF Upped, Armable
  <2>5. Armable(k)' /\ k'.list = x.list /\ k'.armed = x.armed
    BY <1>5, <2>2, <2>4, ArmablePrime
  <2>6. Grabbed /\ focus # "away"
    BY <1>9 DEF Delivered
  <2>7. BothShifts(c) => phys' \cap Shifts = {}
    BY <1>5, <1>9 DEF BothShifts, Silent, Shifts
  <2>8. Fingers'
    <3>1. ASSUME NEW d \in Codes \ apart'
          PROVE  Tracked(d)'
      <4>1. CASE d \in gone
        <5>1. k'.list[d] = "up" /\ d \notin phys'
          BY <1>2, <1>4, <1>5, <1>9, <2>3, <2>5, <2>7, <4>1 DEF Upped
        <5> QED BY <5>1 DEF Tracked
      <4>2. CASE d \notin gone
        <5>1. Tracked(d)
          BY <2>2, <2>6, <3>1, <4>2 DEF KInv, Fingers
        <5>2. d # c /\ ~(BothShifts(c) /\ d \in Shifts) /\ d \notin apart
          BY <1>4, <2>2, <3>1, <4>2
        <5>3. CASE d = "ControlLeft"
          <6>1. k'.list[d] = IF k.armed THEN "Control_L" ELSE k.list[d]
            BY <2>3, <2>5, <5>2, <5>3 DEF Upped
          <6>2. k.armed => d \in phys \/ fake
            BY <2>6, <5>2, <5>3 DEF KInv, Fingers
          <6>3. d \notin Shifts /\ d # "AltRight" /\ (fake => fake') /\ (d \in phys <=> d \in phys')
            BY <1>5, <1>9, <5>2, <5>3 DEF Shifts
          <6>4. k'.list[d] # "up" => d \in phys' \/ fake'
            BY <5>1, <6>1, <6>2, <6>3 DEF Tracked
          <6>5. d \in phys' => k'.list[d] # "up"
            BY <5>1, <6>1, <6>3 DEF Tracked
          <6> QED BY <5>3, <6>4, <6>5 DEF Tracked
        <5>4. CASE d # "ControlLeft"
          <6>1. k'.list[d] = k.list[d]
            BY <2>3, <2>5, <3>1, <5>2, <5>4 DEF Upped
          <6>2. d \in Shifts /\ env.platform = "windows" => phys' \cap Shifts = phys \cap Shifts
            BY <1>5, <5>2 DEF BothShifts
          <6> QED BY <1>5, <5>1, <5>2, <5>4, <6>1, <6>2 DEF Tracked
        <5> QED BY <5>3, <5>4
      <4> QED BY <4>1, <4>2
    <3>2. ~k'.armed
      BY <2>3, <2>5 DEF Upped
    <3> QED BY <1>5, <3>1, <3>2 DEF KInv, Fingers
  <2> QED BY <1>1, <1>5, <2>5, <2>6, <2>8 DEF KInv, Grabbed
<1> QED BY <1>6, <1>7, <1>8, <1>9

LEMMA VirtualStep ==
    ASSUME KInv, NEW sym \in Keysyms("Unidentified"), Virtual(sym)
    PROVE  KInv'
<1>1. UserOK'
  BY DEF Virtual, KInv, UserOK, EnvOK
<1>2. PICK c \in Codes : c = "Unidentified"
  BY KeysymsIs
<1>3. PICK x : x = KeyDown(k, c, sym, caps, FALSE)
  OBVIOUS
<1>4. k' = x /\ UNCHANGED <<env, conn, viewOnly, focus, phys, fake, due, caps, apart, muted>>
  BY <1>2, <1>3 DEF Virtual
<1>5. PICK altGr \in BOOLEAN, quick \in BOOLEAN : altGr = FALSE /\ quick = FALSE
  OBVIOUS
<1>6. Downed(k, x, c, sym, altGr)
  BY <1>2, <1>3, <1>5, KeyDownIs DEF KInv
<1>7. Armable(k)' /\ k'.list = x.list /\ k'.armed = x.armed
  BY <1>4, <1>6, ArmablePrime DEF Downed
<1>8. Grabbed /\ focus # "away" /\ "ControlLeft" \in Codes
  BY KeysymsIs DEF Delivered, Virtual
<1>9. ~k'.armed /\ k'.list["ControlLeft"] = IF k.armed THEN "Control_L" ELSE k.list["ControlLeft"]
  BY <1>2, <1>5, <1>6, <1>7 DEF Downed
<1>10. ASSUME NEW d \in Codes \ apart'
       PROVE  Tracked(d)'
  <2>1. Tracked(d)
    BY <1>4, <1>8, <1>10 DEF KInv, Fingers
  <2>2. CASE d = "ControlLeft"
    <3>1. k.armed => d \in phys \/ fake
      BY <1>4, <1>8, <1>10, <2>2 DEF KInv, Fingers
    <3>2. k'.list[d] # "up" => d \in phys' \/ fake'
      BY <1>4, <1>9, <2>1, <2>2, <3>1 DEF Tracked, Shifts
    <3>3. d \in phys' => k'.list[d] # "up"
      BY <1>4, <1>9, <2>1, <2>2 DEF Tracked
    <3> QED BY <2>2, <3>2, <3>3 DEF Tracked
  <2>3. CASE d # "ControlLeft" /\ d # c
    <3>1. k'.list[d] = k.list[d]
      BY <1>6, <1>7, <1>10, <2>3 DEF Downed
    <3> QED BY <1>4, <2>1, <2>3, <3>1 DEF Tracked
  <2>4. CASE d = c
    <3>1. k'.list[d] \in {"up", k.list[d]}
      BY <1>2, <1>6, <1>7, <2>4 DEF Downed
    <3>2. d \notin phys'
      <4>1. phys \subseteq KeysOf(env.platform)
        BY DEF KInv, UserOK
      <4>2. d \in phys => d # "Unidentified"
        BY <4>1, KeyIs DEF KInv
      <4> QED BY <1>2, <1>4, <2>4, <4>2
    <3> QED BY <1>4, <2>1, <2>4, <3>1, <3>2 DEF Tracked
  <2> QED BY <2>2, <2>3, <2>4
<1>11. Fingers'
  BY <1>4, <1>9, <1>10 DEF KInv, Fingers
<1> QED BY <1>1, <1>4, <1>7, <1>8, <1>11 DEF KInv, Grabbed

LEMMA PressAltGrStep ==
    ASSUME KInv, PressAltGr
    PROVE  KInv'
<1>1. UserOK'
  BY DEF PressAltGr, KInv, UserOK, EnvOK
<1>a. PICK c \in Codes : c = "ControlLeft"
  BY KeysymsIs
<1>b. PICK sym \in Keysyms(c) : sym = "Control_L"
  BY <1>a DEF Keysyms
<1>2. c = "ControlLeft" /\ sym = "Control_L"
  BY <1>a, <1>b
<1>3. PICK x : x = KeyDown(k, c, sym, caps, FALSE)
  OBVIOUS
<1>4. /\ k' = x /\ phys' = phys \cup {"AltRight"} /\ fake' /\ due'
      /\ apart' = apart \ {"AltRight", "ControlLeft"} /\ "ControlLeft" \notin phys
      /\ env.platform = "windows" /\ UNCHANGED <<env, conn, viewOnly, focus, caps, muted>>
  BY <1>2, <1>3 DEF PressAltGr
<1>5. PICK altGr \in BOOLEAN, quick \in BOOLEAN : altGr = FALSE /\ quick = FALSE
  OBVIOUS
<1>6. Downed(k, x, c, sym, altGr)
  BY <1>2, <1>3, <1>5, KeyDownIs DEF KInv
<1>7. Armable(k)' /\ k'.list = x.list /\ k'.armed = x.armed
  BY <1>4, <1>6, ArmablePrime DEF Downed
<1>8. Grabbed /\ focus # "away"
  BY DEF Delivered, PressAltGr
<1>9. ASSUME NEW d \in Codes \ apart'
      PROVE  Tracked(d)'
  <2>1. CASE d \in {"AltRight", "ControlLeft"}
    BY <1>4, <2>1 DEF Tracked
  <2>2. CASE d \notin {"AltRight", "ControlLeft"}
    <3>1. Tracked(d)
      BY <1>4, <1>8, <1>9, <2>2 DEF KInv, Fingers
    <3>2. k'.list[d] = k.list[d]
      BY <1>2, <1>6, <1>7, <1>9, <2>2 DEF Downed
    <3>3. (d \in phys <=> d \in phys') /\ phys' \cap Shifts = phys \cap Shifts
      BY <1>4, <2>2 DEF Shifts
    <3> QED BY <1>4, <2>2, <3>1, <3>2, <3>3 DEF Tracked
  <2> QED BY <2>1, <2>2
<1>10. Fingers'
  BY <1>4, <1>9 DEF KInv, Fingers
<1> QED BY <1>1, <1>4, <1>7, <1>8, <1>10 DEF KInv, Grabbed

LEMMA AltRightFollowsStep ==
    ASSUME KInv, NEW quick \in BOOLEAN, AltRightFollows(quick)
    PROVE  KInv'
<1>1. UserOK'
  BY DEF AltRightFollows, KInv, UserOK, EnvOK
<1>2. /\ due /\ ~due' /\ UNCHANGED <<env, conn, viewOnly, focus, phys, fake, caps, muted>>
      /\ env.platform = "windows" /\ fake /\ "AltRight" \in phys /\ "ControlLeft" \notin phys
  BY DEF AltRightFollows, KInv, Fingers
<1>3. CASE ~Delivered
  <2>1. k' = k /\ apart' = apart \cup {"AltRight"}
    BY <1>3 DEF AltRightFollows
  <2>2. Armable(k)' /\ Quiet(k)' = Quiet(k)
    BY <1>2, <2>1, ArmablePrime DEF KInv, Quiet
  <2>3. Fingers'
    BY <1>2, <2>1 DEF KInv, Fingers, Tracked, Grabbed
  <2> QED BY <1>1, <1>2, <2>2, <2>3 DEF KInv, Grabbed
<1>4. CASE Delivered
  <2>a. PICK c \in Codes : c = "AltRight"
    BY <1>2, KeyIs DEF KInv, UserOK
  <2>b. PICK sym \in Keysyms(c) : sym = "Alt_R"
    BY <2>a DEF Keysyms
  <2>1. c = "AltRight" /\ sym = "Alt_R"
    BY <2>a, <2>b
  <2>2. PICK x : x = KeyDown(k, c, sym, caps, quick)
    OBVIOUS
  <2>3. k' = x /\ apart' = apart
    BY <1>4, <2>1, <2>2 DEF AltRightFollows
  <2>4. PICK altGr \in BOOLEAN : altGr = (k.armed /\ c = "AltRight" /\ quick)
    OBVIOUS
  <2>5. Downed(k, x, c, sym, altGr)
    BY <2>1, <2>2, <2>4, KeyDownIs DEF KInv
  <2>6. Armable(k)' /\ k'.list = x.list /\ k'.armed = x.armed
    BY <1>2, <2>3, <2>5, ArmablePrime DEF Downed
  <2>7. Grabbed /\ focus # "away"
    BY <1>4 DEF Delivered
  <2>8. ~Instant(c, sym)
    BY <1>2, <2>1 DEF Instant
  <2>9. ~k'.armed /\ k'.list[c] # "up"
    BY <2>1, <2>5, <2>6, <2>8 DEF Downed
  <2>10. ASSUME NEW d \in Codes \ apart'
         PROVE  Tracked(d)'
    <3>1. CASE d \in {"AltRight", "ControlLeft"}
      BY <1>2, <2>1, <2>9, <3>1 DEF Tracked
    <3>2. CASE d \notin {"AltRight", "ControlLeft"}
      <4>1. Tracked(d)
        BY <2>3, <2>7, <2>10 DEF KInv, Fingers
      <4>2. k'.list[d] = k.list[d]
        BY <2>1, <2>5, <2>6, <2>10, <3>2 DEF Downed
      <4> QED BY <1>2, <3>2, <4>1, <4>2 DEF Tracked
    <3> QED BY <3>1, <3>2
  <2>11. Fingers'
    BY <1>2, <2>9, <2>10 DEF KInv, Fingers
  <2> QED BY <1>1, <1>2, <2>6, <2>7, <2>11 DEF KInv, Grabbed
<1> QED BY <1>3, <1>4

LEMMA AltGrTimeoutStep ==
    ASSUME KInv, AltGrTimeout
    PROVE  KInv'
<1>1. UserOK'
  BY DEF AltGrTimeout, KInv, UserOK, EnvOK
<1>2. PICK x : x = InterruptAltGr(k)
  OBVIOUS
<1>3. k.armed /\ k' = x /\ UNCHANGED <<env, conn, viewOnly, focus, phys, fake, due, caps, apart, muted>>
  BY <1>2 DEF AltGrTimeout
<1>4. Interrupted(k, x)
  BY <1>2, InterruptIs DEF KInv
<1>5. Armable(x)
  BY <1>4 DEF Interrupted, Armable
<1>6. Armable(k)' /\ k'.list = x.list /\ k'.armed = x.armed
  BY <1>3, <1>5, ArmablePrime
<1>7. Grabbed /\ focus # "away"
  BY <1>3 DEF KInv, Quiet
<1>8. ASSUME NEW d \in Codes \ apart'
      PROVE  Tracked(d)'
  <2>1. Tracked(d)
    BY <1>3, <1>7, <1>8 DEF KInv, Fingers
  <2>2. CASE d = "ControlLeft"
    <3>1. d \in phys \/ fake
      BY <1>3, <1>7, <1>8, <2>2 DEF KInv, Fingers
    <3>2. k'.list[d] # "up"
      BY <1>3, <1>4, <1>6, <2>2 DEF Interrupted
    <3> QED BY <1>3, <2>2, <3>1, <3>2 DEF Tracked
  <2>3. CASE d # "ControlLeft"
    <3>1. k'.list[d] = k.list[d]
      BY <1>4, <1>6, <1>8, <2>3 DEF Interrupted
    <3> QED BY <1>3, <2>1, <2>3, <3>1 DEF Tracked
  <2> QED BY <2>2, <2>3
<1>9. ~k'.armed
  BY <1>4, <1>6 DEF Interrupted
<1>10. Fingers'
  BY <1>3, <1>8, <1>9 DEF KInv, Fingers
<1> QED BY <1>1, <1>3, <1>6, <1>7, <1>10 DEF KInv, Grabbed

(* After a release of every key nothing is listed, and no Control is armed.  *)
LEMMA AllUpIs ==
    ASSUME NEW r, Fine(r), ~r.armed, NEW sent \in BOOLEAN,
           NEW x, Released(r, x, sent)
    PROVE  x \in K /\ Lamp(x) /\ OwnSym(x) /\ Quiet(x) /\ (~muted => IF sent /\ Sends THEN x.held = {} ELSE x.held \subseteq r.held)
<1>1. Lamp(x)
  BY DEF Fine, Lamp, Released
<1>2. OwnSym(x)
  BY DEF OwnSym, Released
<1>3. ~muted => IF sent /\ Sends THEN x.held = {} ELSE x.held \subseteq r.held
  BY DEF Fine, Known, Released
<1> QED BY <1>1, <1>2, <1>3 DEF Released, Quiet

LEMMA QuietFingers ==
    ASSUME KInv, Quiet(k)', UNCHANGED <<phys, fake, due>>, env' = env, phys \subseteq apart' \/ ~Grabbed'
    PROVE  Fingers'
BY DEF KInv, Fingers, Quiet, Tracked

LEMMA BlurStep ==
    ASSUME KInv, Blur
    PROVE  KInv'
<1>1. UserOK'
  BY DEF Blur, KInv, UserOK, EnvOK
<1>2. UNCHANGED <<env, conn, viewOnly, phys, fake, due, caps, muted>> /\ phys \subseteq apart'
  BY DEF Blur
<1>3. Armable(k)' /\ Quiet(k)'
  <2>1. CASE ~Grabbed
    <3>1. k' = k
      BY <2>1 DEF Blur
    <3> QED BY <1>2, <2>1, <3>1, ArmablePrime DEF KInv, Quiet
  <2>2. CASE Grabbed
    <3>1. PICK r : r = InterruptAltGr(k)
      OBVIOUS
    <3>2. PICK sent \in BOOLEAN : sent = Sends
      BY DEF Sends
    <3>3. PICK x : x = ReleaseListed(r, sent)
      OBVIOUS
    <3>4. k' = x
      BY <2>2, <3>1, <3>2, <3>3 DEF Blur, AllKeysUp
    <3>5. Interrupted(k, r)
      BY <3>1, InterruptIs DEF KInv
    <3>6. Fine(r) /\ ~r.armed /\ r \in K
      BY <3>5 DEF Interrupted, Fine
    <3>7. Released(r, x, sent)
      BY <3>3, <3>6, ReleaseListedIs
    <3>8. x \in K /\ Lamp(x) /\ OwnSym(x) /\ Quiet(x) /\ (~muted => IF sent /\ Sends THEN x.held = {} ELSE x.held \subseteq r.held)
      BY <3>6, <3>7, AllUpIs
    <3>9. Known(x)
      BY <3>2, <3>6, <3>8 DEF Fine, Known
    <3>10. Armable(x)
      BY <3>8, <3>9 DEF Fine, Armable, Quiet
    <3> QED BY <1>2, <3>4, <3>8, <3>10, ArmablePrime DEF Quiet
  <2> QED BY <2>1, <2>2
<1>4. Fingers'
  BY <1>2, <1>3, QuietFingers
<1> QED BY <1>1, <1>3, <1>4 DEF KInv

LEMMA FocusStep ==
    ASSUME KInv, NEW to \in {"canvas", "elsewhere"}, Focus(to)
    PROVE  KInv'
<1>1. UserOK'
  BY DEF Focus, KInv, UserOK, EnvOK
<1>2. Armable(k)'
  BY ArmablePrime DEF Focus, KInv
<1>3. Fingers' /\ Grabbed' = Grabbed /\ focus' # "away" /\ Quiet(k)' = Quiet(k)
  BY DEF Focus, KInv, Fingers, Tracked, Grabbed, Quiet
<1> QED BY <1>1, <1>2, <1>3 DEF KInv

LEMMA UngrabIs ==
    ASSUME NEW r, Fine(r), NEW x, x = Ungrab(r)
    PROVE  /\ x \in K /\ OwnSym(x) /\ Quiet(x)
           /\ x.held = r.held /\ x.remote = r.remote /\ x.server = r.server /\ x.leds = r.leds
<1>1. PICK y : y = Arm(r, FALSE)
  OBVIOUS
<1>2. PICK sent \in BOOLEAN : sent = FALSE
  OBVIOUS
<1>3. x = ReleaseListed(y, sent)
  BY <1>1, <1>2 DEF Ungrab
<1>4. r \in K
  BY DEF Fine
<1>5. Armed(r, y, FALSE)
  BY <1>1, <1>4, ArmIs
<1>6. Released(y, x, sent)
  BY <1>3, <1>5, ReleaseListedIs DEF Armed
<1> QED BY <1>2, <1>5, <1>6 DEF Armed, Released, Quiet, OwnSym

LEMMA DisconnectStep ==
    ASSUME KInv, Disconnect
    PROVE  KInv'
<1>1. UserOK'
  BY DEF Disconnect, KInv, UserOK, EnvOK
<1>2. PICK x : x = Ungrab(k)
  OBVIOUS
<1>3. k' = x /\ conn' = "gone" /\ UNCHANGED <<env, viewOnly, focus, phys, fake, due, caps, apart, muted>>
  BY <1>2 DEF Disconnect
<1>4. x \in K /\ OwnSym(x) /\ Quiet(x)
  BY <1>2, UngrabIs DEF KInv, Armable
<1>5. Quiet(k)' /\ OwnSym(k)'
  BY <1>3, <1>4 DEF Quiet, OwnSym
<1>6. Known(k)' /\ Lamp(k)'
  BY <1>3 DEF Known, Lamp, Sends
<1>7. Armable(k)'
  BY <1>3, <1>4, <1>5, <1>6 DEF Armable, Fine, Quiet
<1>8. Fingers'
  BY <1>3, <1>5, QuietFingers DEF Grabbed
<1> QED BY <1>1, <1>5, <1>7, <1>8 DEF KInv

LEMMA SetViewOnlyStep ==
    ASSUME KInv, NEW on \in BOOLEAN, SetViewOnly(on)
    PROVE  KInv'
<1>1. UserOK'
  <2>1. muted' \in BOOLEAN
    BY DEF SetViewOnly, KInv, UserOK
  <2> QED BY <2>1 DEF SetViewOnly, KInv, UserOK, EnvOK
<1>2. /\ conn # "gone" /\ viewOnly' = on /\ viewOnly # on /\ phys \subseteq apart'
      /\ UNCHANGED <<env, conn, focus, phys, fake, due, caps>>
  BY DEF SetViewOnly
<1>3. Armable(k)' /\ Quiet(k)'
  <2>1. CASE on
    <3>1. PICK x : x = Ungrab(k)
      OBVIOUS
    <3>2. k' = x /\ ~Sends' /\ (~muted' => ~muted /\ k.held = {})
      BY <1>2, <2>1, <3>1 DEF SetViewOnly, Sends
    <3>3. x \in K /\ OwnSym(x) /\ Quiet(x) /\ x.held = k.held /\ x.remote = k.remote /\ x.server = k.server /\ x.leds = k.leds
      BY <3>1, UngrabIs DEF KInv, Armable
    <3>4. Quiet(k)' /\ OwnSym(k)'
      BY <3>2, <3>3 DEF Quiet, OwnSym
    <3>5. Known(k)'
      BY <3>2, <3>3 DEF Known
    <3>6. Lamp(k)'
      <4>1. Lamp(x)
        BY <3>3, LampKept DEF KInv, Armable, Fine, Lights
      <4> QED BY <1>2, <3>2, <4>1 DEF Lamp
    <3> QED BY <3>2, <3>3, <3>4, <3>5, <3>6 DEF Armable, Fine, Quiet
  <2>2. CASE ~on
    <3>1. k' = k /\ muted' = muted
      BY <2>2 DEF SetViewOnly, KInv, UserOK
    <3>2. ~Sends /\ ~Grabbed
      <4>1. viewOnly \in BOOLEAN
        BY DEF KInv, UserOK
      <4>2. viewOnly
        BY <1>2, <2>2, <4>1
      <4> QED BY <4>2 DEF Sends, Grabbed
    <3>3. Quiet(k) /\ Fine(k)
      BY <3>2 DEF KInv, Armable
    <3>4. Quiet(k)' /\ OwnSym(k)' /\ Lamp(k)'
      BY <1>2, <3>1, <3>3 DEF Quiet, OwnSym, Lamp, Fine
    <3>5. Known(k)'
      BY <1>2, <3>1, <3>2, <3>3 DEF Fine, Known
    <3>6. k' \in K
      BY <3>1, <3>3 DEF Fine
    <3> QED BY <3>4, <3>5, <3>6 DEF Armable, Fine, Quiet
  <2> QED BY <2>1, <2>2
<1>4. Fingers'
  BY <1>2, <1>3, QuietFingers
<1> QED BY <1>1, <1>3, <1>4 DEF KInv

(* The list, the Control and the user's side stay as they are.               *)
LEMMA SameFingers ==
    ASSUME KInv, k'.list = k.list, k'.armed = k.armed, UNCHANGED <<env, viewOnly, focus, phys, fake, due, apart>>,
           conn' # "gone" /\ conn # "gone"
    PROVE  Fingers' /\ ((Grabbed /\ focus # "away") \/ Quiet(k))'
BY DEF KInv, Fingers, Tracked, Grabbed, Quiet

LEMMA ConnectStep ==
    ASSUME KInv, Connect
    PROVE  KInv'
<1>1. UserOK'
  BY DEF Connect, KInv, UserOK, EnvOK
<1>2. k \in K /\ k.leds \in Seq(Onoff) /\ k.server \in Onoff
  BY DEF KInv, Armable, Fine, K
<1>3. PICK l \in Seq(Onoff) : l = Append(k.leds, k.server) /\ l # <<>> /\ l[Len(l)] = k.server
  BY <1>2, LastIs
<1>4. k' = [k EXCEPT !.leds = l]
  BY <1>2, <1>3 DEF Connect, K
<1>5. /\ k' \in K /\ k'.list = k.list /\ k'.armed = k.armed /\ k'.held = k.held
      /\ k'.server = k.server /\ k'.leds = l
  BY <1>2, <1>4 DEF K
<1>6. conn = "connecting" /\ conn' = "connected" /\ UNCHANGED <<env, viewOnly, focus, phys, fake, due, caps, apart, muted>>
  BY DEF Connect
<1>7. Lamp(k)' /\ OwnSym(k)'
  BY <1>3, <1>5 DEF KInv, Armable, Fine, Lamp, OwnSym
<1>8. Known(k)'
  <2>1. ~muted => k.held = {}
    BY <1>6 DEF KInv, Armable, Fine, Known, Sends
  <2> QED BY <1>5, <1>6, <2>1 DEF Known
<1>9. Armable(k)'
  BY <1>5, <1>7, <1>8 DEF KInv, Armable, Fine
<1> QED BY <1>1, <1>5, <1>6, <1>9, SameFingers DEF KInv

LEMMA LedsAre ==
    ASSUME NEW s \in Seq(Onoff), s # <<>>
    PROVE  /\ Head(s) \in Onoff /\ Tail(s) \in Seq(Onoff)
           /\ Tail(s) = <<>> => Head(s) = s[Len(s)]
           /\ Tail(s) # <<>> => Tail(s)[Len(Tail(s))] = s[Len(s)]
<1>1. Len(s) \in Nat \ {0} /\ Head(s) = s[1] /\ s[1] \in Onoff /\ Tail(s) \in Seq(Onoff)
  OBVIOUS
<1>2. PICK t \in Seq(Onoff) : t = Tail(s)
  BY <1>1
<1>3. Len(t) = Len(s) - 1 /\ \A i \in 1..Len(t) : t[i] = s[i + 1]
  BY <1>2
<1>4. ASSUME t = <<>> PROVE Head(s) = s[Len(s)]
  BY <1>1, <1>3, <1>4
<1>5. ASSUME t # <<>> PROVE t[Len(t)] = s[Len(s)]
  <2>1. Len(t) \in 1..Len(t) /\ Len(t) + 1 = Len(s)
    BY <1>1, <1>3, <1>5
  <2> QED BY <1>3, <2>1
<1> QED BY <1>1, <1>2, <1>4, <1>5

LEMMA LedStateStep ==
    ASSUME KInv, LedState
    PROVE  KInv'
<1>1. UserOK'
  BY DEF LedState, KInv, UserOK, EnvOK
<1>2. k \in K /\ k.leds \in Seq(Onoff) /\ k.leds # <<>>
  BY DEF KInv, Armable, Fine, K, LedState
<1>3. PICK v \in Onoff : v = Head(k.leds)
  BY <1>2, LedsAre
<1>4. PICK l \in Seq(Onoff) : l = Tail(k.leds)
  BY <1>2, LedsAre
<1>5. k' = [k EXCEPT !.remote = v, !.leds = l]
  BY <1>2, <1>3, <1>4 DEF LedState, K
<1>6. PICK x : x = [k EXCEPT !.remote = v, !.leds = l]
  OBVIOUS
<1>7. /\ x \in K /\ x.list = k.list /\ x.armed = k.armed /\ x.held = k.held
      /\ x.server = k.server /\ x.leds = l /\ x.remote = v
  BY <1>2, <1>6 DEF K
<1>8. conn = "connected" /\ UNCHANGED <<env, conn, viewOnly, focus, phys, fake, due, caps, apart, muted>>
  BY DEF LedState
<1>9. Lamp(x)
  <2>1. k.leds[Len(k.leds)] = k.server
    BY <1>2, <1>8 DEF KInv, Armable, Fine, Lamp
  <2>2. l = <<>> => v = k.server
    BY <1>2, <1>3, <1>4, <2>1, LedsAre
  <2>3. l # <<>> => l[Len(l)] = k.server
    BY <1>2, <1>4, <2>1, LedsAre
  <2> QED BY <1>7, <2>2, <2>3 DEF Lamp
<1>10. Armable(x)
  BY <1>7, <1>9 DEF KInv, Armable, Fine, OwnSym, Known
<1>11. Armable(k)'
  BY <1>5, <1>6, <1>8, <1>10, ArmablePrime
<1> QED BY <1>1, <1>5, <1>6, <1>7, <1>8, <1>11, SameFingers DEF KInv

LEMMA GuestTogglesStep ==
    ASSUME KInv, GuestToggles
    PROVE  KInv'
<1>1. UserOK'
  BY DEF GuestToggles, KInv, UserOK, EnvOK
<1>2. PICK x : x = Toggle(k)
  OBVIOUS
<1>3. k' = x /\ conn = "connected" /\ UNCHANGED <<env, conn, viewOnly, focus, phys, fake, due, caps, apart, muted>>
  BY <1>2 DEF GuestToggles
<1>4. k \in K
  BY DEF KInv, Armable, Fine
<1>5. /\ x \in K /\ x.list = k.list /\ x.armed = k.armed /\ x.remote = k.remote
      /\ x.held = k.held /\ x.leds # <<>> /\ x.leds[Len(x.leds)] = x.server
  BY <1>2, <1>4, ToggleIs
<1>6. Armable(x)
  BY <1>5 DEF KInv, Armable, Fine, OwnSym, Known, Lamp
<1>7. Armable(k)'
  BY <1>3, <1>6, ArmablePrime
<1> QED BY <1>1, <1>3, <1>5, <1>7, SameFingers DEF KInv

SentDown(r, x, w) ==
    /\ x \in K /\ x.list = r.list /\ x.armed = r.armed /\ x.remote = r.remote
    /\ x.held \subseteq r.held \cup {w} /\ x.server = r.server /\ x.leds = r.leds

SentUp(r, x, w) ==
    /\ x \in K /\ x.list = r.list /\ x.armed = r.armed /\ x.remote = r.remote
    /\ Sends => x.held = r.held \ {w}
    /\ x.server = r.server /\ x.leds = r.leds

LEMMA PlainDownIs ==
    ASSUME NEW r \in K, NEW sym \in Keysym, sym # "Caps_Lock", NEW c \in Codes
    PROVE  SentDown(r, SendKey(r, sym, c, TRUE), Wire(sym, c))
<1>1. PICK x : /\ x = SendKey(r, sym, c, TRUE)
               /\ x \in K /\ x.list = r.list /\ x.armed = r.armed /\ x.remote = r.remote
               /\ ~Sends => x = r
               /\ x.held \subseteq r.held \cup {Wire(sym, c)}
               /\ sym # "Caps_Lock" => x.server = r.server /\ x.leds = r.leds
               /\ Lights(r, x)
  BY SendDownIs
<1>2. SentDown(r, x, Wire(sym, c))
  BY <1>1 DEF SentDown
<1> QED BY <1>1, <1>2

LEMMA PlainUpIs ==
    ASSUME NEW r \in K, NEW sym \in Keysym, NEW c \in Codes
    PROVE  SentUp(r, SendKey(r, sym, c, FALSE), Wire(sym, c))
<1>1. PICK x : /\ x = SendKey(r, sym, c, FALSE)
               /\ x \in K /\ x.list = r.list /\ x.armed = r.armed /\ x.remote = r.remote
               /\ ~Sends => x = r
               /\ Sends => x.held = r.held \ {Wire(sym, c)}
               /\ x.server = r.server /\ x.leds = r.leds
  BY SendUpIs
<1>2. SentUp(r, x, Wire(sym, c))
  BY <1>1 DEF SentUp
<1> QED BY <1>1, <1>2

(* sendCtrlAltDel lifts what it pressed, and what was held of it before.     *)
LEMMA SendCtrlAltDelStep ==
    ASSUME KInv, SendCtrlAltDel
    PROVE  KInv'
<1>1. UserOK'
  BY DEF SendCtrlAltDel, KInv, UserOK, EnvOK
<1>0. /\ {"Control_L", "Alt_L", "Delete"} \subseteq Keysym
      /\ {"ControlLeft", "AltLeft", "Delete"} \subseteq Codes
  BY KeysymsIs
<1>2. k \in K /\ Sends
  BY DEF KInv, Armable, Fine, SendCtrlAltDel
<1>3. PICK a : a = SendKey(k, "Control_L", "ControlLeft", TRUE)
  OBVIOUS
<1>4. PICK b : b = SendKey(a, "Alt_L", "AltLeft", TRUE)
  OBVIOUS
<1>5. PICK d : d = SendKey(b, "Delete", "Delete", TRUE)
  OBVIOUS
<1>6. PICK e : e = SendKey(d, "Delete", "Delete", FALSE)
  OBVIOUS
<1>7. PICK f : f = SendKey(e, "Alt_L", "AltLeft", FALSE)
  OBVIOUS
<1>8. PICK x : x = SendKey(f, "Control_L", "ControlLeft", FALSE)
  OBVIOUS
<1>3b. SentDown(k, a, Wire("Control_L", "ControlLeft"))
  BY <1>0, <1>2, <1>3, PlainDownIs
<1>4b. SentDown(a, b, Wire("Alt_L", "AltLeft"))
  <2>1. a \in K
    BY <1>3b DEF SentDown, SentUp
  <2> QED BY <1>0, <1>4, <2>1, PlainDownIs
<1>5b. SentDown(b, d, Wire("Delete", "Delete"))
  <2>1. b \in K
    BY <1>4b DEF SentDown, SentUp
  <2> QED BY <1>0, <1>5, <2>1, PlainDownIs
<1>6b. SentUp(d, e, Wire("Delete", "Delete"))
  <2>1. d \in K
    BY <1>5b DEF SentDown, SentUp
  <2> QED BY <1>0, <1>6, <2>1, PlainUpIs
<1>7b. SentUp(e, f, Wire("Alt_L", "AltLeft"))
  <2>1. e \in K
    BY <1>6b DEF SentDown, SentUp
  <2> QED BY <1>0, <1>7, <2>1, PlainUpIs
<1>8b. SentUp(f, x, Wire("Control_L", "ControlLeft"))
  <2>1. f \in K
    BY <1>7b DEF SentDown, SentUp
  <2> QED BY <1>0, <1>8, <2>1, PlainUpIs
<1>9. k' = x /\ UNCHANGED <<env, conn, viewOnly, focus, phys, fake, due, caps, apart, muted>>
  BY <1>3, <1>4, <1>5, <1>6, <1>7, <1>8 DEF SendCtrlAltDel
<1>10. x.held \subseteq k.held
  BY <1>2, <1>3b, <1>4b, <1>5b, <1>6b, <1>7b, <1>8b DEF SentDown, SentUp
<1>11. /\ x \in K /\ x.list = k.list /\ x.armed = k.armed /\ x.remote = k.remote
       /\ x.server = k.server /\ x.leds = k.leds
  BY <1>3b, <1>4b, <1>5b, <1>6b, <1>7b, <1>8b DEF SentDown, SentUp
<1>12. Lamp(x)
  BY <1>11, LampKept DEF KInv, Armable, Fine, Lights
<1>13. Known(x) /\ OwnSym(x)
  BY <1>2, <1>10, <1>11 DEF KInv, Armable, Fine, Known, OwnSym
<1>14. Armable(x)
  BY <1>11, <1>12, <1>13 DEF KInv, Armable, Fine
<1>15. Armable(k)'
  BY <1>9, <1>14, ArmablePrime
<1>16. conn # "gone" /\ conn' # "gone"
  BY <1>2, <1>9 DEF Sends
<1> QED BY <1>1, <1>9, <1>11, <1>15, <1>16, SameFingers DEF KInv

LEMMA StutterStep ==
    ASSUME KInv, UNCHANGED vars
    PROVE  KInv'
<1>1. UserOK'
  BY DEF vars, KInv, UserOK, EnvOK
<1>2. Armable(k)'
  BY ArmablePrime DEF vars, KInv
<1>3. Fingers' /\ Grabbed' = Grabbed /\ focus' = focus /\ Quiet(k)' = Quiet(k)
  BY DEF vars, KInv, Fingers, Tracked, Grabbed, Quiet
<1> QED BY <1>1, <1>2, <1>3 DEF KInv

LEMMA KInvInductive == KInv /\ [Next]_vars => KInv'
<1> SUFFICES ASSUME KInv, [Next]_vars PROVE KInv'
  OBVIOUS
<1>1. CASE UNCHANGED vars
  BY <1>1, StutterStep
<1>2. ASSUME NEW c \in KeysOf(env.platform), NEW sym \in Keysyms(c), Press(c, sym) \/ Repeat(c, sym)
      PROVE  KInv'
  BY <1>2, PressStep, RepeatStep
<1>3. ASSUME NEW c \in KeysOf(env.platform), Release(c)
      PROVE  KInv'
  BY <1>3, ReleaseStep
<1>4. CASE \/ PressAltGr \/ AltGrTimeout \/ Blur \/ Connect \/ Disconnect
           \/ SendCtrlAltDel \/ LedState \/ GuestToggles
  BY <1>4, PressAltGrStep, AltGrTimeoutStep, BlurStep, ConnectStep, DisconnectStep, SendCtrlAltDelStep,
     LedStateStep, GuestTogglesStep
<1>5. ASSUME NEW quick \in BOOLEAN, AltRightFollows(quick)
      PROVE  KInv'
  BY <1>5, AltRightFollowsStep
<1>6. ASSUME NEW sym \in Keysyms("Unidentified"), Virtual(sym)
      PROVE  KInv'
  BY <1>6, VirtualStep
<1>7. ASSUME NEW to \in {"canvas", "elsewhere"}, Focus(to)
      PROVE  KInv'
  BY <1>7, FocusStep
<1>8. ASSUME NEW on \in BOOLEAN, SetViewOnly(on)
      PROVE  KInv'
  BY <1>8, SetViewOnlyStep
<1> QED BY <1>1, <1>2, <1>3, <1>4, <1>5, <1>6, <1>7, <1>8 DEF Next

LEMMA KInvHolds == Spec => []KInv
BY InitKInv, KInvInductive, PTL DEF Spec

-----------------------------------------------------------------------------
(* The theorems.                                                             *)

LEMMA KInvImplies == KInv => TypeOK /\ HeldKnown /\ TracksFingers /\ AwayHoldsNothing
<1> SUFFICES ASSUME KInv PROVE TypeOK /\ HeldKnown /\ TracksFingers /\ AwayHoldsNothing
  OBVIOUS
<1>1. k \in K /\ Armable(k) /\ Known(k)
  BY DEF KInv, Armable, Fine
<1>2. TypeOK
  BY <1>1 DEF KInv, UserOK, TypeOK, K, Lists, Wires, Armable
<1>3. Listed = {d \in Codes : k.list[d] # "up"}
  BY DEF Listed
<1>4. HeldKnown
  <2>1. ASSUME ~muted, conn = "connected" PROVE k.held \subseteq Sent(k.list)
    BY <1>1, <2>1 DEF Known
  <2> QED BY <1>3, <2>1 DEF HeldKnown, Sent
<1>5. TracksFingers
  BY <1>3 DEF KInv, Fingers, Tracked, TracksFingers
<1>6. AwayHoldsNothing
  <2>1. ASSUME focus = "away" PROVE Quiet(k)
    BY <2>1 DEF KInv
  <2>2. ASSUME Quiet(k) PROVE Sent(k.list) = {} /\ Listed = {} /\ ~k.armed
    BY <2>2 DEF Quiet, Sent, Listed
  <2>3. ASSUME ~muted, conn = "connected", Sent(k.list) = {} PROVE k.held = {}
    BY <1>1, <2>3 DEF Known
  <2> QED BY <2>1, <2>2, <2>3 DEF AwayHoldsNothing
<1> QED BY <1>2, <1>4, <1>5, <1>6

(* Whatever the server believes to be down, the client knows and will release: the      *)
(* keys that RFB has sent as pressed are all in _keyDownList, by the code they went with. *)
THEOREM KeysAreKnown == Spec => []HeldKnown
BY KInvHolds, KInvImplies, PTL

(* _keyDownList follows the fingers, but for keys whose events the browser or a Control *)
(* that may be an AltGr keep from it.                                                   *)
THEOREM ListFollowsFingers == Spec => []TracksFingers
BY KInvHolds, KInvImplies, PTL

(* A window that lost the focus holds nothing down, and no AltGr timer is armed in it.  *)
THEOREM AwayIsQuiet == Spec => []AwayHoldsNothing
BY KInvHolds, KInvImplies, PTL

(* The fields of Keyboard and of RFB keep to their types; an armed Control is unlisted. *)
THEOREM KeyboardTypes == Spec => []TypeOK
BY KInvHolds, KInvImplies, PTL

-----------------------------------------------------------------------------
(* The lock state of the server.                                             *)

(* The client knows it, and a press of CapsLock would toggle it.             *)
Ready(r) == Wire("Caps_Lock", "CapsLock") \notin r.held /\ r.remote = r.server

(* It is as the user's, and the client does not believe otherwise.           *)
Agrees(r, cl) == r \in K /\ r.server = cl /\ r.remote \in {"null", cl}

LEMMA FixLockAgrees ==
    ASSUME NEW r \in K, Ready(r), Sends, NEW cl \in Onoff, r.remote # cl
    PROVE  Agrees(FixLock(r, cl), cl)
<1>1. PICK w : w = Wire("Caps_Lock", "CapsLock")
  OBVIOUS
<1>2. w \in Wires /\ w # "null"
  BY <1>1, KeysymsIs DEF Wire, Wires
<1>3. "Caps_Lock" \in Keysym /\ "CapsLock" \in Codes
  BY KeysymsIs
<1>4. PICK h : h = Hold(r, w)
  OBVIOUS
<1>5. h \in K /\ h.server = r.server
  BY <1>2, <1>4, HoldIs
<1>6. PICK y : y = Toggle(h)
  OBVIOUS
<1>7. y \in K /\ y.server = Flip(r.server)
  BY <1>5, <1>6, ToggleIs
<1>8. y.server = cl
  <2>1. r.server \in Onoff /\ r.server # cl
    BY DEF K, Ready
  <2> QED BY <1>7, <2>1, FlipIs
<1>9. y = SendKey(r, "Caps_Lock", "CapsLock", TRUE)
  BY <1>1, <1>2, <1>4, <1>6 DEF SendKey, Ready
<1>10. PICK z : z = SendKey(y, "Caps_Lock", "CapsLock", FALSE)
  OBVIOUS
<1>11. SentUp(y, z, w)
  BY <1>1, <1>3, <1>7, <1>10, PlainUpIs
<1>12. PICK x : x = Forget(z)
  OBVIOUS
<1>13. x \in K /\ x.server = z.server /\ x.remote = "null"
  BY <1>11, <1>12, ForgetIs DEF SentUp
<1>14. x = FixLock(r, cl)
  BY <1>9, <1>10, <1>12 DEF FixLock
<1>15. Agrees(x, cl)
  BY <1>8, <1>11, <1>13 DEF Agrees, SentUp
<1> QED BY <1>14, <1>15

(* A key other than CapsLock that is pressed, sent and, in between, compared.  *)
Plain(c, sym) == c \in Codes /\ c # "CapsLock" /\ sym \in Keysym /\ sym # "Caps_Lock"

LEMMA SendAgrees ==
    ASSUME NEW r, NEW cl, Agrees(r, cl), NEW c, NEW sym, Plain(c, sym), NEW down \in BOOLEAN
    PROVE  Agrees(SendKey(r, sym, c, down), cl)
<1>1. r \in K /\ c \in Codes /\ sym \in Keysym /\ sym # "Caps_Lock"
  BY DEF Agrees, Plain
<1>2. PICK x : x = SendKey(r, sym, c, down)
  OBVIOUS
<1>3. CASE down = TRUE
  <2>1. SentDown(r, x, Wire(sym, c))
    BY <1>1, <1>2, <1>3, PlainDownIs
  <2> QED BY <1>2, <2>1 DEF SentDown, Agrees
<1>4. CASE down = FALSE
  <2>1. SentUp(r, x, Wire(sym, c))
    BY <1>1, <1>2, <1>4, PlainUpIs
  <2> QED BY <1>2, <2>1 DEF SentUp, Agrees
<1> QED BY <1>3, <1>4

LEMMA EventAgrees ==
    ASSUME NEW r, NEW cl \in Onoff, Agrees(r, cl) \/ (r \in K /\ Ready(r) /\ Sends),
           NEW c, NEW sym, Plain(c, sym)
    PROVE  Agrees(SendKeyEvent(r, sym, c, TRUE, cl), cl)
<1>1. c \in Codes /\ sym \in Keysym \cup {"up"} /\ c # "CapsLock" /\ r \in K
  BY DEF Plain, Agrees
<1>2. PICK e : e = Enlist(r, c, sym)
  OBVIOUS
<1>3. Enlisted(r, e, c, sym)
  BY <1>1, <1>2, EnlistIs
<1>4. Agrees(e, cl) \/ (e \in K /\ Ready(e) /\ Sends)
  BY <1>3 DEF Enlisted, Agrees, Ready
<1>5. PICK b : b = IF e.remote # "null" /\ cl # "null" /\ e.remote # cl THEN FixLock(e, cl) ELSE e
  OBVIOUS
<1>6. Agrees(b, cl)
  <2>1. CASE Agrees(e, cl)
    BY <1>5, <2>1 DEF Agrees
  <2>2. CASE e \in K /\ Ready(e) /\ Sends
    <3>1. CASE e.remote = cl
      BY <1>5, <2>2, <3>1 DEF Agrees, Ready
    <3>2. CASE e.remote # cl
      <4>1. e.remote # "null" /\ cl # "null"
        BY <2>2 DEF K, Ready, Onoff
      <4>2. b = FixLock(e, cl)
        BY <1>5, <3>2, <4>1
      <4> QED BY <2>2, <3>2, <4>2, FixLockAgrees
    <3> QED BY <3>1, <3>2
  <2> QED BY <1>4, <2>1, <2>2
<1>7. PICK down \in BOOLEAN : down = TRUE
  OBVIOUS
<1>8. SendKeyEvent(r, sym, c, TRUE, cl) = SendKey(b, sym, c, down)
  BY <1>1, <1>2, <1>5, <1>7 DEF SendKeyEvent, HandleKeyEvent
<1> QED BY <1>6, <1>7, <1>8, SendAgrees

LEMMA PressReleaseAgrees ==
    ASSUME NEW r, NEW cl \in Onoff, Agrees(r, cl) \/ (r \in K /\ Ready(r) /\ Sends),
           NEW c, NEW sym, Plain(c, sym)
    PROVE  Agrees(PressRelease(r, sym, c, cl), cl)
<1>1. PICK y : y = SendKeyEvent(r, sym, c, TRUE, cl)
  OBVIOUS
<1>2. Agrees(y, cl)
  BY <1>1, EventAgrees
<1>3. PICK x : x = SendKeyEvent(y, sym, c, FALSE, cl)
  OBVIOUS
<1>4. Agrees(x, cl)
  <2>1. CASE y.list[c] = "up"
    BY <1>2, <1>3, <2>1 DEF SendKeyEvent
  <2>2. CASE y.list[c] # "up"
    <3>0. "up" \in Keysym \cup {"up"} /\ c \in Codes /\ y \in K
      BY <1>2 DEF Plain, Agrees
    <3>1. PICK e : e = Enlist(y, c, "up")
      OBVIOUS
    <3>2. Enlisted(y, e, c, "up")
      BY <3>0, <3>1, EnlistIs
    <3>3. Agrees(e, cl)
      BY <1>2, <3>2 DEF Enlisted, Agrees
    <3>4. PICK down \in BOOLEAN : down = FALSE
      OBVIOUS
    <3>5. x = SendKey(e, sym, c, down)
      BY <1>3, <2>2, <3>1, <3>4 DEF SendKeyEvent, HandleKeyEvent
    <3> QED BY <3>3, <3>5, SendAgrees
  <2> QED BY <2>1, <2>2
<1> QED BY <1>1, <1>3, <1>4 DEF PressRelease

LEMMA LetterSynced ==
    ASSUME KInv, NEW c \in KeysOf(env.platform), NEW sym \in Keysyms(c), c = "KeyA", Press(c, sym),
           Delivered, conn = "connected", Wire("Caps_Lock", "CapsLock") \notin k.held,
           k.remote # "null", k.leds = <<>>
    PROVE  k'.server = caps
<1>1. caps' = caps /\ caps \in Onoff
  BY DEF Press, KInv, UserOK
<1>2. PICK cl \in Onoff : cl = caps
  BY <1>1
<1>3. Armable(k) /\ Fine(k) /\ k \in K /\ c \in Codes
  BY KeyIs DEF KInv, Armable, Fine
<1>4. Ready(k) /\ Sends
  BY <1>3 DEF Fine, Lamp, Ready, Sends, Delivered, Grabbed
<1>5. PICK altGr \in BOOLEAN, quick \in BOOLEAN : altGr = FALSE /\ quick = FALSE
  OBVIOUS
<1>6. PICK r1 : r1 = Begun(k, c, cl, altGr)
  OBVIOUS
<1>7. HasBegun(k, r1, altGr)
  BY <1>3, <1>6, BegunIs
<1>8. PICK f : f = Final(r1, c, sym, altGr)
  OBVIOUS
<1>9. Fits(r1, c, f)
  BY <1>3, <1>5, <1>7, <1>8, FinalFits DEF HasBegun
<1>10. Plain(c, f)
  BY <1>9 DEF Fits, Plain
<1>11. Agrees(r1, cl) \/ (r1 \in K /\ Ready(r1) /\ Sends)
  <2>1. PICK y : y = Arm(k, FALSE)
    OBVIOUS
  <2>2. Armed(k, y, FALSE)
    BY <1>3, <2>1, ArmIs
  <2>3. y \in K /\ Ready(y)
    BY <1>4, <2>2 DEF Armed, Ready
  <2>4. CASE k.armed
    <3>1. r1 = SendKeyEvent(y, "Control_L", "ControlLeft", TRUE, cl)
      BY <1>5, <1>6, <2>1, <2>4 DEF Begun
    <3>2. Plain("ControlLeft", "Control_L")
      BY KeysymsIs DEF Plain
    <3> QED BY <1>4, <2>3, <3>1, <3>2, EventAgrees
  <2>5. CASE ~k.armed
    <3>1. r1 = y
      BY <1>6, <2>1, <2>5 DEF Begun
    <3> QED BY <1>4, <2>3, <3>1
  <2> QED BY <2>4, <2>5
<1>12. PICK x : x = KeyDown(k, c, sym, cl, quick)
  OBVIOUS
<1>13. k' = x
  BY <1>1, <1>2, <1>5, <1>12 DEF Press
<1>14. x = IF Instant(c, sym) THEN PressRelease(r1, f, c, cl) ELSE SendKeyEvent(r1, f, c, TRUE, cl)
  <2>1. x = IF c = "Unidentified" /\ sym = "null" THEN r1
            ELSE IF Instant(c, sym) THEN PressRelease(r1, f, c, cl)
            ELSE IF c = "ControlLeft" /\ env.platform = "windows" /\ r1.list[c] = "up" THEN Arm(r1, TRUE)
            ELSE SendKeyEvent(r1, f, c, TRUE, cl)
    BY <1>5, <1>6, <1>8, <1>12 DEF KeyDown, Begun, Final
  <2> QED BY <2>1
<1>15. Agrees(x, cl)
  BY <1>10, <1>11, <1>14, EventAgrees, PressReleaseAgrees
<1> QED BY <1>2, <1>13, <1>15 DEF Agrees

LEMMA OnlyPressTypes ==
    ASSUME KInv, [Next]_vars, TypesLetter
    PROVE  \E sym \in Keysyms("KeyA") : "KeyA" \in KeysOf(env.platform) /\ Press("KeyA", sym)
<1>1. "KeyA" \in phys' /\ "KeyA" \notin phys
  BY DEF TypesLetter
<1>2. ~(UNCHANGED vars)
  BY <1>1 DEF vars
<1>3. ASSUME NEW c \in KeysOf(env.platform), NEW sym \in Keysyms(c), Repeat(c, sym) PROVE FALSE
  BY <1>1, <1>3 DEF Repeat
<1>4. ASSUME NEW c \in KeysOf(env.platform), Release(c) PROVE FALSE
  BY <1>1, <1>4 DEF Release
<1>5. ASSUME NEW quick \in BOOLEAN, AltRightFollows(quick) PROVE FALSE
  BY <1>1, <1>5 DEF AltRightFollows
<1>6. ASSUME NEW sym \in Keysyms("Unidentified"), Virtual(sym) PROVE FALSE
  BY <1>1, <1>6 DEF Virtual
<1>7. ASSUME NEW to \in {"canvas", "elsewhere"}, Focus(to) PROVE FALSE
  BY <1>1, <1>7 DEF Focus
<1>8. ASSUME NEW on \in BOOLEAN, SetViewOnly(on) PROVE FALSE
  BY <1>1, <1>8 DEF SetViewOnly
<1>9. ASSUME PressAltGr PROVE FALSE
  <2>1. phys' = phys \cup {"AltRight"}
    BY <1>9, Zenon DEF PressAltGr
  <2> QED BY <1>1, <2>1
<1>10. ~(AltGrTimeout \/ Blur \/ Connect \/ Disconnect \/ SendCtrlAltDel \/ LedState \/ GuestToggles)
  BY <1>1 DEF AltGrTimeout, Blur, Connect, Disconnect, SendCtrlAltDel, LedState, GuestToggles
<1>11. PICK c \in KeysOf(env.platform) : \E sym \in Keysyms(c) : Press(c, sym)
  BY <1>2, <1>3, <1>4, <1>5, <1>6, <1>7, <1>8, <1>9, <1>10 DEF Next
<1>12. c = "KeyA"
  BY <1>1, <1>11 DEF Press
<1> QED BY <1>11, <1>12

(* A letter that is typed meets the CapsLock of the user's keyboard at the server: what *)
(* _handleKeyEvent sends before the letter corrects it, and nothing it sends undoes it. *)
THEOREM LettersMeetTheLock == Spec => LockSynced
<1>1. ASSUME KInv, [Next]_vars
      PROVE  [TypesLetter /\ k.remote # "null" /\ k.leds = <<>> => k'.server = caps]_vars
  <2>1. SUFFICES ASSUME TypesLetter, k.remote # "null", k.leds = <<>> PROVE k'.server = caps
    OBVIOUS
  <2>2. PICK sym \in Keysyms("KeyA") : "KeyA" \in KeysOf(env.platform) /\ Press("KeyA", sym)
    BY <1>1, <2>1, OnlyPressTypes
  <2>3. Delivered /\ conn = "connected" /\ Wire("Caps_Lock", "CapsLock") \notin k.held
    BY <2>1 DEF TypesLetter
  <2>4. PICK c : c = "KeyA"
    OBVIOUS
  <2> QED BY <1>1, <2>1, <2>2, <2>3, <2>4, LetterSynced
<1> QED BY <1>1, KInvHolds, PTL DEF Spec, LockSynced
=============================================================================
