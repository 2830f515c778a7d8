--------------------------- MODULE PointerProofs ----------------------------
(* Theorems about Gestures and Pointer, for any set of fingers, timeouts,    *)
(* buttons, points and wheels.                                               *)
EXTENDS Pointer, FiniteSetTheorems, TLAPS

-----------------------------------------------------------------------------
(* The gesture handler.  Which gestures are possible depends on how many     *)
(* fingers came and whether one has left: the invariant says how.            *)

TouchRecord == [id : Touches, active : BOOLEAN, far : BOOLEAN]

GType ==
    /\ state \in SUBSET Gesture
    /\ tracked \in Seq(TouchRecord)
    /\ ignored \in SUBSET Touches
    /\ waitingRelease \in BOOLEAN /\ longpress \in BOOLEAN /\ attached \in BOOLEAN
    /\ twoTouch \in {"null", "armed", "fired"}

Single(s)    == \E g \in Gesture : s = {g}
Undecided(s) == s = {} \/ s = TwoMoves

(* The fingers: each is tracked once or ignored, and only a tap waits for    *)
(* the others after one has left.                                            *)
Fingers ==
    /\ \A i, j \in DOMAIN tracked : tracked[i].id = tracked[j].id => i = j
    /\ down = Active \cup ignored /\ Active \cap ignored = {}
    /\ \A i \in DOMAIN tracked : tracked[i].active \/ waitingRelease
    /\ tracked # <<>> => \E i \in DOMAIN tracked : tracked[i].active
    /\ tracked = <<>> => IF ignored = {} THEN state = Gesture /\ ~waitingRelease ELSE state = {}

(* A timer runs only while nothing is detected.                              *)
Timers ==
    /\ longpress => Len(tracked) = 1 /\ ~waitingRelease /\ ~Single(state)
    /\ twoTouch = "armed" => tracked # <<>> /\ ~longpress /\ Undecided(state)

(* What is possible still.  The two gestures of two fingers fall together,   *)
(* unless one of them was decided.                                           *)
Possible ==
    /\ Single(state) \/ TwoMoves \subseteq state \/ TwoMoves \cap state = {}
    /\ Len(tracked) >= 2 => state \cap {"onetap", "drag", "longpress"} = {}
    /\ Len(tracked) >= 3 => state \subseteq {"threetap"} \/ \E g \in TwoMoves : state = {g}
    /\ waitingRelease => state = {} \/ \E g \in Taps \cup TwoMoves : state = {g}

(* A gesture that holds a button is open exactly while it is the only one.   *)
OpenIsState == \A g \in Holding : open = g <=> state = {g}

GInv ==
    /\ GType
    /\ attached => Fingers /\ Timers /\ Possible /\ OpenIsState
    /\ ~attached => ~longpress /\ twoTouch # "armed"

(* The events of one step, and what they make of the gesture that is open.   *)
Event(type, g) == [type |-> type, gesture |-> g]

EventsFit ==
    \/ emitted' = <<>> /\ open' = open
    \/ \E g \in Gesture :
          \/ /\ emitted' = <<Event("gesturestart", g)>>
             /\ g = "longpress" /\ open' = g /\ open \notin Holding
          \/ /\ emitted' = <<Event("gesturemove", g)>>
             /\ open' = g /\ (g \in Holding \/ open \in Holding => g = open)
          \/ /\ emitted' = <<Event("gesturestart", g), Event("gesturemove", g)>>
             /\ g \in Moves /\ open' = g /\ open \notin Holding
          \/ /\ emitted' = <<Event("gesturestart", g), Event("gestureend", g)>>
             /\ open' = "none" /\ g \notin Holding /\ open \notin Holding
          \/ /\ emitted' = <<Event("gestureend", g)>>
             /\ open' = "none" /\ (g \in Holding \/ open \in Holding => g = open)

LEMMA GestureFinite == IsFiniteSet(Gesture)
<1>1. Gesture = {"onetap"} \cup ({"twotap"} \cup ({"threetap"} \cup ({"drag"} \cup
                 ({"twodrag"} \cup ({"pinch"} \cup {"longpress"})))))
  BY DEF Gesture, Taps, Moves, TwoMoves
<1> QED BY <1>1, FS_Singleton, FS_Union

(* What _hasDetectedGesture finds.                                           *)
LEMMA DetectedIs ==
    ASSUME NEW s \in SUBSET Gesture, NEW touches
    PROVE  HasDetected(s, touches) <=>
              \E g \in Gesture : s = {g} /\ (g \in Taps => \A i \in DOMAIN touches : ~touches[i].active)
<1>1. IsFiniteSet(s)
  BY GestureFinite, FS_Subset
<1>2. Cardinality(s) = 1 <=> \E g : s = {g}
  BY <1>1, FS_Singleton
<1> QED BY <1>2 DEF HasDetected

(* Events of a gesture, as sequences.                                        *)
LEMMA PushOne ==
    ASSUME NEW g, NEW a
    PROVE  Push({g}, <<a>>) = <<Event(a, g)>>
<1>1. (CHOOSE x \in {g} : TRUE) = g
  OBVIOUS
<1> QED BY <1>1 DEF Push, Event

LEMMA PushTwo ==
    ASSUME NEW g, NEW a, NEW b
    PROVE  Push({g}, <<a, b>>) = <<Event(a, g), Event(b, g)>>
<1>1. (CHOOSE x \in {g} : TRUE) = g
  OBVIOUS
<1> QED BY <1>1 DEF Push, Event

LEMMA OpenAfterIs ==
    /\ OpenAfter(<<>>) = open
    /\ \A g, a : OpenAfter(<<Event(a, g)>>) = IF a = "gestureend" THEN "none" ELSE g
    /\ \A g, a, b : OpenAfter(<<Event(a, g), Event(b, g)>>) = IF b = "gestureend" THEN "none" ELSE g
<1>1. OpenAfter(<<>>) = open
  BY DEF OpenAfter
<1>2. ASSUME NEW g, NEW a PROVE OpenAfter(<<Event(a, g)>>) = IF a = "gestureend" THEN "none" ELSE g
  <2>1. <<Event(a, g)>> # <<>> /\ Len(<<Event(a, g)>>) = 1 /\ <<Event(a, g)>>[1] = Event(a, g)
    OBVIOUS
  <2>2. Event(a, g).type = a /\ Event(a, g).gesture = g
    BY DEF Event
  <2> QED BY <2>1, <2>2 DEF OpenAfter
<1>3. ASSUME NEW g, NEW a, NEW b
      PROVE  OpenAfter(<<Event(a, g), Event(b, g)>>) = IF b = "gestureend" THEN "none" ELSE g
  <2> DEFINE es == <<Event(a, g), Event(b, g)>>
  <2>1. es # <<>> /\ Len(es) = 2 /\ es[2] = Event(b, g)
    OBVIOUS
  <2>2. Event(b, g).type = b /\ Event(b, g).gesture = g
    BY DEF Event
  <2> QED BY <2>1, <2>2 DEF OpenAfter
<1> QED BY <1>1, <1>2, <1>3

LEMMA DetectedHere ==
    ASSUME GType
    PROVE  Detected <=> \E g \in Gesture : state = {g} /\ (g \in Taps => \A i \in DOMAIN tracked : ~tracked[i].active)
BY DetectedIs DEF GType, Detected

-----------------------------------------------------------------------------
(* touchstart *)

LEMMA TouchIgnoredStep ==
    ASSUME GInv, NEW t \in Touches, TouchStart(t), TouchIgnored(t)
    PROVE  GInv' /\ EventsFit
<1>1. /\ attached /\ t \notin down /\ down' = down \cup {t}
      /\ ignored' = ignored \cup {t} /\ state' = IF Detected THEN state ELSE {}
      /\ UNCHANGED <<tracked, longpress, waitingRelease, twoTouch, attached>>
      /\ Detected \/ state = {} \/ tracked # <<>> \/ waitingRelease
  BY DEF TouchStart, TouchIgnored
<1>2. emitted' = <<>> /\ open' = open
  BY OpenAfterIs DEF TouchStart, Dispatch
<1>3. GType /\ Fingers /\ Timers /\ Possible /\ OpenIsState
  BY <1>1 DEF GInv
<1>4. GType'
  BY <1>1, <1>3 DEF GType
<1>5. Fingers'
  <2>1. Active' = Active
    BY <1>1 DEF Active
  <2>2. tracked = <<>> => state' = {}
    BY <1>1, <1>3, DetectedHere DEF Fingers, Gesture, Taps
  <2> QED BY <1>1, <1>3, <2>1, <2>2 DEF Fingers
<1>6. Single(state') => Single(state) /\ state' = state
  BY <1>1 DEF Single
<1>7. Timers' /\ Possible'
  BY <1>1, <1>3, <1>6 DEF Timers, Possible, Single, Undecided
<1>8. OpenIsState'
  <2>1. ASSUME NEW g \in Holding, state = {g} PROVE Detected
    BY <2>1, <1>3, DetectedHere DEF Holding, Gesture, Taps, Moves, TwoMoves
  <2> QED BY <1>1, <1>2, <1>3, <2>1 DEF OpenIsState
<1> QED BY <1>1, <1>2, <1>4, <1>5, <1>7, <1>8 DEF GInv, EventsFit

LEMMA TouchTrackedStep ==
    ASSUME GInv, NEW t \in Touches, TouchStart(t), TouchTracked(t)
    PROVE  GInv' /\ EventsFit
<1> DEFINE new == [id |-> t, active |-> TRUE, far |-> FALSE]
           n   == Len(tracked')
<1>1. /\ attached /\ t \notin down /\ down' = down \cup {t}
      /\ ~Detected /\ state # {} /\ ~waitingRelease
      /\ tracked' = Append(tracked, new)
      /\ state' = CASE n = 1 -> state
                    [] n = 2 -> state \ {"onetap", "drag", "longpress"}
                    [] n = 3 -> state \ ({"twotap"} \cup TwoMoves)
                    [] OTHER -> {}
      /\ longpress' \in BOOLEAN /\ (longpress' => n = 1 \/ (n # 2 /\ longpress))
      /\ UNCHANGED <<ignored, waitingRelease, twoTouch, attached>>
  <2>1. longpress' = IF n = 1 THEN TRUE ELSE IF n = 2 THEN FALSE ELSE longpress
    BY DEF TouchTracked
  <2>2. longpress \in BOOLEAN
    BY DEF GInv, GType
  <2>3. longpress' \in BOOLEAN /\ (longpress' => n = 1 \/ (n # 2 /\ longpress))
    BY <2>1, <2>2
  <2>4. state' = CASE n = 1 -> state
                   [] n = 2 -> state \ {"onetap", "drag", "longpress"}
                   [] n = 3 -> state \ ({"twotap"} \cup TwoMoves)
                   [] OTHER -> {}
    BY DEF TouchTracked
  <2>5. /\ attached /\ t \notin down /\ down' = down \cup {t}
        /\ ~Detected /\ state # {} /\ ~waitingRelease
        /\ tracked' = Append(tracked, new)
        /\ UNCHANGED <<ignored, waitingRelease, twoTouch, attached>>
    BY DEF TouchStart, TouchTracked
  <2> QED BY <2>3, <2>4, <2>5, Zenon
<1>2. emitted' = <<>> /\ open' = open
  BY OpenAfterIs DEF TouchStart, Dispatch
<1>3. GType /\ Fingers /\ Timers /\ Possible /\ OpenIsState
  BY <1>1 DEF GInv
<1>4. new \in TouchRecord
  BY DEF TouchRecord
<1>5. /\ tracked' \in Seq(TouchRecord) /\ n = Len(tracked) + 1 /\ n \in Nat \ {0}
      /\ DOMAIN tracked' = 1..n /\ DOMAIN tracked = 1..(n - 1)
      /\ \A i \in 1..(n - 1) : tracked'[i] = tracked[i]
      /\ tracked'[n] = new
  BY <1>1, <1>3, <1>4 DEF GType
<1>6. /\ n = 1 => state' = state
      /\ n = 2 => state' = state \ {"onetap", "drag", "longpress"}
      /\ n = 3 => state' = state \ ({"twotap"} \cup TwoMoves)
      /\ n > 3 => state' = {}
  BY <1>1, <1>5
<1>7. GType'
  BY <1>1, <1>3, <1>5, <1>6 DEF GType
<1>8. \A i \in DOMAIN tracked : tracked[i].active
  BY <1>1, <1>3 DEF Fingers
<1>9. Active' = Active \cup {t}
  BY <1>5, <1>8 DEF Active
<1>10. \A i \in DOMAIN tracked : tracked[i].id # t
  BY <1>1, <1>3, <1>8 DEF Fingers, Active
<1>11. Fingers'
  <2>1. tracked' # <<>>
    BY <1>5
  <2>2. \A i, j \in DOMAIN tracked' : tracked'[i].id = tracked'[j].id => i = j
    BY <1>3, <1>5, <1>10 DEF Fingers
  <2>3. \A i \in DOMAIN tracked' : tracked'[i].active
    BY <1>5, <1>8
  <2>4. down' = Active' \cup ignored' /\ Active' \cap ignored' = {}
    BY <1>1, <1>3, <1>9 DEF Fingers
  <2> QED BY <1>1, <1>5, <2>1, <2>2, <2>3, <2>4 DEF Fingers
<1>12. ~Single(state) \/ \E i \in DOMAIN tracked : tracked[i].active
  BY <1>1, <1>3, DetectedHere DEF Single
<1>13. n = 1 => ~Single(state)
  <2>1. \A i \in DOMAIN tracked : n > 1
    BY <1>5
  <2> QED BY <2>1, <1>12
<1>14. ASSUME NEW g \in Holding PROVE state # {g}
  BY <1>1, <1>3, DetectedHere DEF Holding, Gesture, Taps, Moves, TwoMoves
<1>15. Timers'
  <2>1. longpress' => n = 1
    BY <1>1, <1>3, <1>5 DEF Timers
  <2>2. twoTouch = "armed" => n > 1
    BY <1>3, <1>5 DEF Timers
  <2>3. twoTouch = "armed" => Undecided(state')
    BY <2>2, <1>3, <1>5, <1>6 DEF Timers, TwoMoves, Undecided
  <2> QED BY <1>1, <1>5, <1>6, <1>13, <2>1, <2>2, <2>3, <1>3 DEF Timers
<1>16. Possible'
  <2>1. ~Single(state) \/ \E g \in Taps : state = {g}
    BY <1>1, <1>3, DetectedHere DEF Single
  <2>2. TwoMoves \subseteq state \/ TwoMoves \cap state = {}
    BY <1>3, <2>1 DEF Possible, Taps, TwoMoves
  <2>3. n >= 3 => state \cap {"onetap", "drag", "longpress"} = {}
    BY <1>3, <1>5 DEF Possible
  <2>4. n >= 3 => state' \subseteq {"threetap"}
    <3>1. state \subseteq {"onetap", "twotap", "threetap", "drag", "twodrag", "pinch", "longpress"}
      BY <1>3 DEF GType, Gesture, Taps, Moves, TwoMoves
    <3>2. ASSUME n = 3, NEW x \in state' PROVE x = "threetap"
      <4>1. x \in state /\ x # "twotap" /\ x \notin TwoMoves
        BY <3>2, <1>6
      <4>2. x \notin {"onetap", "drag", "longpress"}
        BY <3>2, <4>1, <2>3
      <4> QED BY <4>1, <4>2, <3>1 DEF TwoMoves
    <3> QED BY <3>2, <1>5, <1>6
  <2>5. n >= 2 => state' \cap {"onetap", "drag", "longpress"} = {}
    BY <1>5, <1>6, <2>4
  <2>6. TwoMoves \subseteq state' \/ TwoMoves \cap state' = {}
    BY <1>5, <1>6, <2>2, <2>4 DEF TwoMoves
  <2> QED BY <1>1, <2>4, <2>5, <2>6 DEF Possible
<1>17. OpenIsState'
  <2> SUFFICES ASSUME NEW g \in Holding PROVE state' # {g} /\ open # g
    BY <1>2 DEF OpenIsState
  <2>1. open # g
    BY <1>3, <1>14 DEF OpenIsState
  <2>2. CASE n = 1
    BY <2>1, <2>2, <1>6, <1>14
  <2>3. CASE n >= 2
    BY <2>1, <2>3, <1>16 DEF Possible, Holding
  <2> QED BY <2>2, <2>3, <1>5
<1> QED BY <1>1, <1>2, <1>7, <1>11, <1>15, <1>16, <1>17 DEF GInv, EventsFit

-----------------------------------------------------------------------------
(* touchmove *)

LEMMA FarKeeps ==
    ASSUME GType, NEW i \in DOMAIN tracked, NEW far \in BOOLEAN,
           tracked' = [tracked EXCEPT ![i].far = far]
    PROVE  /\ tracked' \in Seq(TouchRecord)
           /\ Len(tracked') = Len(tracked) /\ DOMAIN tracked' = DOMAIN tracked
           /\ \A j \in DOMAIN tracked : /\ tracked'[j].id = tracked[j].id
                                        /\ tracked'[j].active = tracked[j].active
           /\ Active' = Active /\ (tracked' = <<>> <=> tracked = <<>>)
<1>1. tracked \in Seq(TouchRecord) /\ DOMAIN tracked = 1..Len(tracked) /\ Len(tracked) \in Nat
  BY DEF GType
<1>2. tracked[i] \in TouchRecord
  BY <1>1
<1>3. [tracked[i] EXCEPT !.far = far] \in TouchRecord
  BY <1>2 DEF TouchRecord
<1>4. tracked' = [tracked EXCEPT ![i] = [tracked[i] EXCEPT !.far = far]]
  OBVIOUS
<1>5. tracked' \in Seq(TouchRecord) /\ Len(tracked') = Len(tracked) /\ DOMAIN tracked' = DOMAIN tracked
  BY <1>1, <1>3, <1>4
<1>6. \A j \in DOMAIN tracked : tracked'[j].id = tracked[j].id /\ tracked'[j].active = tracked[j].active
  <2> SUFFICES ASSUME NEW j \in DOMAIN tracked
               PROVE  tracked'[j].id = tracked[j].id /\ tracked'[j].active = tracked[j].active
    OBVIOUS
  <2>1. CASE j = i
    BY <2>1, <1>1, <1>2, <1>4 DEF TouchRecord
  <2>2. CASE j # i
    BY <2>2, <1>1, <1>4
  <2> QED BY <2>1, <2>2
<1>7. Active' = Active
  BY <1>5, <1>6 DEF Active
<1> QED BY <1>1, <1>5, <1>6, <1>7

LEMMA StillPossibleIs ==
    ASSUME NEW s \in SUBSET Gesture, NEW n \in Nat \ {0}
    PROVE  StillPossible(s, n) = IF n = 1 THEN s \cap {"drag"} ELSE IF n = 2 THEN s \cap TwoMoves ELSE {}
<1> DEFINE r == IF n = 1 THEN s \cap {"drag"} ELSE IF n = 2 THEN s \cap TwoMoves ELSE {}
<1> SUFFICES ASSUME NEW x PROVE x \in StillPossible(s, n) <=> x \in r
  OBVIOUS
<1>1. x \in s => x \in Taps \cup {"longpress", "drag"} \cup TwoMoves
  BY DEF Gesture, Moves
<1>2. "drag" \notin Taps \cup {"longpress"} \cup TwoMoves /\ TwoMoves \cap (Taps \cup {"longpress", "drag"}) = {}
  BY DEF Taps, TwoMoves
<1>3. CASE n = 1
  BY <1>1, <1>2, <1>3 DEF StillPossible
<1>4. CASE n = 2
  BY <1>1, <1>2, <1>4 DEF StillPossible
<1>5. CASE n # 1 /\ n # 2
  BY <1>1, <1>2, <1>5 DEF StillPossible
<1> QED BY <1>3, <1>4, <1>5

LEMMA TouchMoveStep ==
    ASSUME GInv, NEW t \in Touches, NEW far \in BOOLEAN, TouchMove(t, far)
    PROVE  GInv' /\ EventsFit
<1> DEFINE i == CHOOSE j \in DOMAIN tracked : tracked[j].id = t
<1>1. /\ attached /\ i \in DOMAIN tracked
      /\ tracked' = [tracked EXCEPT ![i].far = far]
      /\ UNCHANGED <<ignored, waitingRelease, attached, down>>
  BY DEF TouchMove, Ids
<1>2. GType /\ Fingers /\ Timers /\ Possible /\ OpenIsState
  BY <1>1 DEF GInv
<1>3. /\ tracked' \in Seq(TouchRecord)
      /\ Len(tracked') = Len(tracked) /\ DOMAIN tracked' = DOMAIN tracked
      /\ \A j \in DOMAIN tracked : /\ tracked'[j].id = tracked[j].id
                                   /\ tracked'[j].active = tracked[j].active
      /\ Active' = Active /\ (tracked' = <<>> <=> tracked = <<>>)
  BY <1>1, <1>2, FarKeeps
<1>4. tracked # <<>>
  BY <1>1, <1>2 DEF GType
<1>5. Fingers'
  BY <1>1, <1>2, <1>3, <1>4 DEF Fingers
<1>6. CASE UNCHANGED <<state, longpress, twoTouch>>
  <2>1. GType'
    BY <1>1, <1>2, <1>3, <1>6 DEF GType
  <2>2. Timers' /\ Possible'
    BY <1>1, <1>2, <1>3, <1>4, <1>6 DEF Timers, Possible, Single
  <2>3. CASE Detected /\ Dispatch(Push(state, <<"gesturemove">>))
    <3>1. PICK g \in Gesture : state = {g}
      BY <2>3, <1>2, DetectedHere
    <3>2. emitted' = <<Event("gesturemove", g)>> /\ open' = g
      BY <2>3, <3>1, PushOne, OpenAfterIs DEF Dispatch
    <3>3. OpenIsState'
      BY <1>6, <1>2, <3>1, <3>2 DEF OpenIsState
    <3>4. g \in Holding \/ open \in Holding => g = open
      BY <1>2, <3>1 DEF OpenIsState
    <3> QED BY <1>1, <1>5, <2>1, <2>2, <3>2, <3>3, <3>4 DEF GInv, EventsFit
  <2>4. CASE Dispatch(<<>>)
    <3>1. emitted' = <<>> /\ open' = open
      BY <2>4, OpenAfterIs DEF Dispatch
    <3>2. OpenIsState'
      BY <1>6, <1>2, <3>1 DEF OpenIsState
    <3> QED BY <1>1, <1>5, <2>1, <2>2, <3>1, <3>2 DEF GInv, EventsFit
  <2>5. CASE /\ ~Detected /\ far /\ longpress' = FALSE
             /\ \E s \in SUBSET state :
                   /\ DecideTwo(StillPossible(state, Len(tracked)), i, s)
                   /\ state' = s
                   /\ Dispatch(IF HasDetected(s, tracked)
                               THEN Push(s, <<"gesturestart", "gesturemove">>) ELSE <<>>)
    <3>1. ~HasDetected(state, tracked)
      BY <2>5 DEF Detected
    <3>2. Dispatch(<<>>)
      BY <2>5, <1>6, <3>1
    <3> QED BY <3>2, <2>4
  <2> QED BY <2>3, <2>4, <2>5 DEF TouchMove
<1>7. CASE /\ ~Detected /\ far /\ longpress' = FALSE
           /\ \E s \in SUBSET state :
                 /\ DecideTwo(StillPossible(state, Len(tracked)), i, s)
                 /\ state' = s
                 /\ Dispatch(IF HasDetected(s, tracked)
                             THEN Push(s, <<"gesturestart", "gesturemove">>) ELSE <<>>)
  <2> DEFINE n == Len(tracked)
  <2>1. /\ DecideTwo(StillPossible(state, n), i, state')
        /\ state' \in SUBSET state
        /\ Dispatch(IF HasDetected(state', tracked)
                    THEN Push(state', <<"gesturestart", "gesturemove">>) ELSE <<>>)
    BY <1>7
  <2>2. n \in Nat \ {0}
    BY <1>2, <1>4 DEF GType
  <2>3. state \subseteq Gesture /\ state' \subseteq Gesture
    BY <1>2, <2>1 DEF GType
  <2>4. state \subseteq {"onetap", "twotap", "threetap", "drag", "twodrag", "pinch", "longpress"}
    BY <2>3 DEF Gesture, Taps, Moves, TwoMoves
  <2>5. n # 2 => /\ state' \subseteq StillPossible(state, n) /\ twoTouch' = twoTouch
                 /\ state' = StillPossible(state, n)
    BY <2>1 DEF DecideTwo
  <2>6. n = 1 => state' \subseteq {"drag"}
    BY <2>2, <2>3, <2>5, StillPossibleIs
  <2>7. n # 1 /\ n # 2 => state' = {}
    BY <2>2, <2>3, <2>5, StillPossibleIs
  <2>8. ~Single(state) \/ \E g \in Taps : state = {g}
    BY <1>2, <1>7, DetectedHere DEF Single
  <2>9. ASSUME n = 2
        PROVE  /\ Undecided(state') \/ \E g \in TwoMoves : state' = {g}
               /\ twoTouch' = "null" \/ Undecided(state')
               /\ twoTouch' \in {"null", "armed", "fired"}
    <3>1. Undecided(StillPossible(state, n))
      <4>1. StillPossible(state, n) = state \cap TwoMoves
        BY <2>2, <2>3, <2>9, StillPossibleIs
      <4>2. TwoMoves \subseteq state \/ TwoMoves \cap state = {}
        BY <1>2, <2>8 DEF Possible, Taps, TwoMoves
      <4> QED BY <4>1, <4>2 DEF Undecided
    <3>2. \/ /\ twoTouch' = "null"
             /\ \E g \in TwoMoves : state' = StillPossible(state, n) \ {g}
          \/ /\ state' = StillPossible(state, n)
             /\ twoTouch' = IF twoTouch = "null" THEN "armed" ELSE twoTouch
      BY <2>1, <2>9 DEF DecideTwo
    <3>3. \A g \in TwoMoves : \E h \in TwoMoves : TwoMoves \ {g} = {h}
      BY DEF TwoMoves
    <3> QED BY <3>1, <3>2, <3>3, <1>2 DEF GType, Undecided
  <2>a. twoTouch \in {"null", "armed", "fired"}
    BY <1>2 DEF GType
  <2>10. /\ Undecided(state') \/ \E g \in Moves : state' = {g} /\ (g = "drag" <=> n = 1)
         /\ twoTouch' \in {"null", "armed", "fired"}
         /\ twoTouch' = "armed" => Undecided(state')
    <3>1. CASE n = 2
      BY <3>1, <2>9 DEF Moves, TwoMoves
    <3>2. CASE n # 1 /\ n # 2
      BY <3>2, <2>5, <2>7, <2>a DEF Undecided
    <3>3. CASE n = 1
      <4>1. state' = {} \/ state' = {"drag"}
        BY <3>3, <2>6
      <4>2. twoTouch # "armed" \/ Undecided(state)
        BY <1>2 DEF Timers
      <4>3. twoTouch = "armed" => state' = {}
        BY <4>1, <4>2, <2>1 DEF TwoMoves, Undecided
      <4> QED BY <4>1, <4>3, <3>3, <2>5, <2>a DEF Moves, TwoMoves, Undecided
    <3> QED BY <3>1, <3>2, <3>3, <2>2
  <2>11. GType'
    BY <1>1, <1>2, <1>3, <1>7, <2>3, <2>10 DEF GType
  <2>12. Timers'
    BY <1>3, <1>4, <1>7, <2>10 DEF Timers
  <2>13. Possible'
    <3>1. Single(state') \/ TwoMoves \subseteq state' \/ TwoMoves \cap state' = {}
      BY <2>10 DEF Single, Gesture, Undecided
    <3>2. n # 1 => state' \cap {"onetap", "drag", "longpress"} = {}
      BY <2>10 DEF Moves, TwoMoves, Undecided
    <3>3. n # 1 /\ n # 2 => state' = {}
      BY <2>7
    <3>5. (n >= 2 => n # 1) /\ (n >= 3 => n # 1 /\ n # 2)
      <4>1. \A k \in Nat : (k >= 2 => k # 1) /\ (k >= 3 => k # 1 /\ k # 2)
        OBVIOUS
      <4> HIDE DEF n
      <4> QED BY <2>2, <4>1
    <3>4. waitingRelease => state' = {} \/ \E g \in Taps \cup TwoMoves : state' = {g}
      BY <1>2, <2>1 DEF Possible
    <3>6. Len(tracked') >= 2 => state' \cap {"onetap", "drag", "longpress"} = {}
      BY <1>3, <3>2, <3>5
    <3>7. Len(tracked') >= 3 => state' \subseteq {"threetap"}
      BY <1>3, <3>3, <3>5
    <3> QED BY <1>1, <3>1, <3>4, <3>6, <3>7 DEF Possible, Single
  <2>14. open \notin Holding
    <3>1. ASSUME NEW g \in Holding PROVE state # {g}
      BY <2>8, <2>3 DEF Single, Holding, Taps, Gesture, Moves, TwoMoves
    <3> QED BY <3>1, <1>2 DEF OpenIsState
  <2>15. CASE \E g \in Moves : state' = {g}
    <3>1. PICK g \in Moves : state' = {g}
      BY <2>15
    <3>2. HasDetected(state', tracked)
      BY <3>1, <2>3, DetectedIs DEF Taps, Moves, TwoMoves
    <3>3. /\ emitted' = <<Event("gesturestart", g), Event("gesturemove", g)>>
          /\ open' = g /\ g \in Gesture
      BY <2>1, <3>1, <3>2, PushTwo, OpenAfterIs DEF Dispatch, Gesture
    <3>4. OpenIsState'
      BY <3>1, <3>3 DEF OpenIsState, Holding
    <3>5. EventsFit
      BY <2>14, <3>1, <3>3, SMTT(20) DEF EventsFit
    <3> QED BY <1>1, <1>5, <2>11, <2>12, <2>13, <2>14, <3>4, <3>5 DEF GInv
  <2>16. CASE Undecided(state')
    <3>1. ~HasDetected(state', tracked)
      BY <2>16, <2>3, DetectedIs DEF TwoMoves, Undecided
    <3>2. emitted' = <<>> /\ open' = open
      BY <2>1, <3>1, OpenAfterIs DEF Dispatch
    <3>3. OpenIsState'
      BY <2>16, <2>14, <3>2 DEF OpenIsState, Holding, TwoMoves, Undecided
    <3> QED BY <1>1, <1>5, <2>11, <2>12, <2>13, <3>2, <3>3 DEF GInv, EventsFit
  <2> QED BY <2>10, <2>15, <2>16
<1> QED BY <1>6, <1>7 DEF TouchMove

-----------------------------------------------------------------------------
(* touchend and touchcancel *)

LEMMA IgnoredEndStep ==
    ASSUME GInv, NEW t \in Touches, TouchEnd(t), IgnoredEnd(t)
    PROVE  GInv' /\ EventsFit
<1>1. /\ attached /\ t \in down /\ down' = down \ {t}
      /\ t \in ignored /\ ignored' = ignored \ {t}
      /\ UNCHANGED <<tracked, longpress, twoTouch, attached>>
      /\ \/ ignored' = {} /\ tracked = <<>> /\ state' = Gesture /\ waitingRelease' = FALSE
         \/ ~(ignored' = {} /\ tracked = <<>>) /\ UNCHANGED <<state, waitingRelease>>
  BY DEF TouchEnd, IgnoredEnd
<1>2. emitted' = <<>> /\ open' = open
  BY OpenAfterIs DEF IgnoredEnd, Dispatch
<1>3. GType /\ Fingers /\ Timers /\ Possible /\ OpenIsState
  BY <1>1 DEF GInv
<1>4. Active' = Active
  BY <1>1 DEF Active
<1>5. Fingers'
  BY <1>1, <1>3, <1>4 DEF Fingers
<1>6. GType'
  BY <1>1, <1>3 DEF GType
<1>7. CASE ignored' = {} /\ tracked = <<>> /\ state' = Gesture /\ waitingRelease' = FALSE
  <2>1. Len(tracked) = 0
    BY <1>7
  <2>2. ~longpress /\ twoTouch # "armed"
    BY <1>3, <1>7, <2>1 DEF Timers
  <2>3. state = {}
    BY <1>1, <1>3, <1>7 DEF Fingers
  <2>4. Timers'
    BY <1>1, <2>2 DEF Timers
  <2>5. Possible'
    BY <1>1, <1>7, <2>1 DEF Possible, Gesture, Moves, TwoMoves
  <2>6. OpenIsState'
    BY <1>2, <1>3, <1>7, <2>3 DEF OpenIsState, Gesture, Taps
  <2> QED BY <1>1, <1>2, <1>5, <1>6, <2>4, <2>5, <2>6 DEF GInv, EventsFit
<1>8. CASE UNCHANGED <<state, waitingRelease>>
  <2>1. Timers' /\ Possible' /\ OpenIsState'
    BY <1>1, <1>2, <1>3, <1>8 DEF Timers, Possible, OpenIsState, Single, Undecided
  <2> QED BY <1>1, <1>2, <1>5, <1>6, <2>1 DEF GInv, EventsFit
<1> QED BY <1>1, <1>7, <1>8

(* A finger leaves the tracked ones: the record of it, and what stays.       *)
ActiveIn(s) == {s[j].id : j \in {k \in DOMAIN s : s[k].active}}

LEMMA LeftIs ==
    ASSUME GType, Fingers, NEW i \in DOMAIN tracked, NEW left,
           left = [tracked EXCEPT ![i].active = FALSE]
    PROVE  /\ left \in Seq(TouchRecord) /\ Len(left) = Len(tracked) /\ DOMAIN left = DOMAIN tracked
           /\ \A j \in DOMAIN tracked : left[j].id = tracked[j].id
           /\ ActiveIn(left) = Active \ {tracked[i].id}
<1>1. tracked \in Seq(TouchRecord) /\ DOMAIN tracked = 1..Len(tracked) /\ Len(tracked) \in Nat
  BY DEF GType
<1>2. tracked[i] \in TouchRecord
  BY <1>1
<1>3. [tracked[i] EXCEPT !.active = FALSE] \in TouchRecord
  BY <1>2 DEF TouchRecord
<1>4. left = [tracked EXCEPT ![i] = [tracked[i] EXCEPT !.active = FALSE]]
  OBVIOUS
<1>5. left \in Seq(TouchRecord) /\ Len(left) = Len(tracked) /\ DOMAIN left = DOMAIN tracked
  BY <1>1, <1>3, <1>4
<1>6. left[i].id = tracked[i].id /\ left[i].active = FALSE
  BY <1>1, <1>2, <1>4 DEF TouchRecord
<1>7. \A j \in DOMAIN tracked : j # i => left[j] = tracked[j]
  BY <1>1, <1>4
<1>8. \A j \in DOMAIN tracked : left[j].id = tracked[j].id
  BY <1>6, <1>7
<1>9. {left[j].id : j \in {k \in DOMAIN left : left[k].active}} = Active \ {tracked[i].id}
  <2> DEFINE L == {left[j].id : j \in {k \in DOMAIN left : left[k].active}}
  <2>1. ASSUME NEW x \in L PROVE x \in Active \ {tracked[i].id}
    <3>1. PICK j \in DOMAIN tracked : left[j].active /\ x = left[j].id
      BY <2>1, <1>5
    <3>2. j # i /\ tracked[j].active /\ x = tracked[j].id
      BY <3>1, <1>6, <1>7
    <3> QED BY <3>2 DEF Fingers, Active
  <2>2. ASSUME NEW x \in Active, x # tracked[i].id PROVE x \in L
    <3>1. PICK j \in DOMAIN tracked : tracked[j].active /\ x = tracked[j].id
      BY <2>2 DEF Active
    <3>2. j # i /\ left[j].active /\ x = left[j].id
      BY <2>2, <3>1, <1>7
    <3> QED BY <3>2, <1>5
  <2> QED BY <2>1, <2>2
<1> QED BY <1>5, <1>8, <1>9 DEF ActiveIn

(* What a first release leaves: at most one gesture, and a tap.              *)
LEMMA AfterReleaseIs ==
    ASSUME GType, Fingers, Possible, tracked # <<>>
    PROVE  LET s == AfterRelease(state, Len(tracked)) IN
           s = {} \/ \E g \in Taps : s = {g} /\ g \in state
<1> DEFINE n == Len(tracked)
           s == AfterRelease(state, n)
<1>1. n \in Nat \ {0}
  BY DEF GType
<1>2. s \subseteq state /\ state \subseteq Gesture
  BY DEF AfterRelease, GType
<1>3. s \cap (Moves \cup {"longpress"}) = {}
  BY DEF AfterRelease
<1>4. s \subseteq Taps
  BY <1>2, <1>3 DEF Gesture
<1> SUFFICES \E g \in Taps : s \subseteq {g}
  BY <1>2
<1>5. CASE waitingRelease
  BY <1>2, <1>4, <1>5 DEF Possible, Taps
<1>6. CASE ~waitingRelease /\ n = 1
  <2>1. s \cap {"twotap", "threetap"} = {}
    BY <1>6 DEF AfterRelease
  <2> QED BY <2>1, <1>4 DEF Taps
<1>7. CASE ~waitingRelease /\ n = 2
  <2>1. s \cap {"onetap", "threetap"} = {}
    BY <1>7 DEF AfterRelease
  <2> QED BY <2>1, <1>4 DEF Taps
<1>8. CASE n # 1 /\ n # 2
  <2>1. n >= 3
    <3>1. \A k \in Nat \ {0} : k # 1 /\ k # 2 => k >= 3
      OBVIOUS
    <3> HIDE DEF n
    <3> QED BY <1>1, <1>8, <3>1
  <2>2. state \subseteq {"threetap"} \/ \E g \in TwoMoves : state = {g}
    BY <2>1 DEF Possible
  <2> QED BY <2>2, <1>2, <1>3 DEF Taps, Moves
<1> QED BY <1>5, <1>6, <1>7, <1>8

LEMMA TrackedEndStep ==
    ASSUME GInv, NEW t \in Touches, TouchEnd(t), TrackedEnd(t)
    PROVE  GInv' /\ EventsFit
<1> DEFINE i     == CHOOSE j \in DOMAIN tracked : tracked[j].id = t
           stale == ~Detected /\ twoTouch # "null"
           s0    == IF stale THEN {} ELSE state
           early == HasDetected(s0, tracked)
           s1    == IF early THEN s0 ELSE AfterRelease(s0, Len(tracked))
           tap   == ~early \/ waitingRelease
           s2    == IF tap /\ TooSlow THEN {} ELSE s1
           left  == [tracked EXCEPT ![i].active = FALSE]
           over  == HasDetected(s2, IF tap THEN left ELSE tracked)
           types == IF tap THEN <<"gesturestart", "gestureend">> ELSE <<"gestureend">>
<1>1. /\ attached /\ t \in down /\ down' = down \ {t} /\ t \notin ignored
      /\ UNCHANGED attached
      /\ twoTouch' = IF stale THEN "null" ELSE twoTouch
      /\ longpress' = IF early THEN longpress ELSE FALSE
  BY DEF TouchEnd, TrackedEnd
<1>2. \/ /\ tap /\ ~over /\ s2 # {}
         /\ tracked' = left /\ state' = s2 /\ waitingRelease' = TRUE
         /\ Dispatch(<<>>) /\ UNCHANGED ignored
      \/ /\ ~(tap /\ ~over /\ s2 # {})
         /\ Dispatch(IF ~over THEN <<>> ELSE Push(s2, types))
         /\ Cleanup(Active \ {t}, waitingRelease \/ ~early)
  BY DEF TrackedEnd
<1>3. GType /\ Fingers /\ Timers /\ Possible /\ OpenIsState
  BY <1>1 DEF GInv
<1>4. t \in Active
  BY <1>1, <1>3 DEF Fingers
<1>5. i \in DOMAIN tracked /\ tracked[i].id = t /\ tracked[i].active
  <2>1. PICK j \in DOMAIN tracked : tracked[j].active /\ tracked[j].id = t
    BY <1>4 DEF Active
  <2>2. i \in DOMAIN tracked /\ tracked[i].id = t
    BY <2>1
  <2>3. i = j
    BY <2>1, <2>2, <1>3 DEF Fingers
  <2> QED BY <2>1, <2>2, <2>3
<1>6. tracked # <<>> /\ state \subseteq Gesture
  BY <1>3, <1>5 DEF GType
<1>7. Detected <=> \E g \in Gesture \ Taps : state = {g}
  BY <1>3, <1>5, DetectedHere
<1>8. early <=> ~stale /\ Detected
  <2>1. CASE stale
    BY <2>1, DetectedIs
  <2>2. CASE ~stale
    BY <2>2 DEF Detected
  <2> QED BY <2>1, <2>2
<1> HIDE DEF i
<1>9. ~early => s1 = {} \/ (~stale /\ \E g \in Taps : s1 = {g} /\ g \in state)
  <2>1. CASE stale /\ ~early
    BY <2>1 DEF AfterRelease
  <2>2. CASE ~stale /\ ~early
    BY <2>2, <1>3, <1>6, AfterReleaseIs
  <2> QED BY <2>1, <2>2
<1>10. early => s1 = state /\ \E g \in Gesture \ Taps : state = {g}
  BY <1>7, <1>8
<1>11. longpress' = FALSE
  <2>1. early => ~longpress
    BY <1>3, <1>10 DEF Timers, Single
  <2> QED BY <1>1, <2>1, <1>3 DEF GType
<1>12. twoTouch' # "armed" /\ twoTouch' \in {"null", "armed", "fired"}
  <2>1. \A g : ~Undecided({g})
    BY DEF Undecided, TwoMoves
  <2>2. twoTouch = "armed" => ~Detected
    BY <2>1, <1>3, <1>7 DEF Timers
  <2> QED BY <1>1, <2>2, <1>3 DEF GType
<1>13. Timers'
  BY <1>11, <1>12 DEF Timers
<1>14. ASSUME open \in Holding PROVE early /\ ~tap /\ state = {open}
  <2>1. state = {open}
    BY <1>3, <1>14 DEF OpenIsState
  <2>2. open \in Gesture \ Taps
    BY <1>14 DEF Holding, Gesture, Taps, Moves
  <2>3. Detected
    BY <2>1, <2>2, <1>7
  <2>4. ~waitingRelease
    BY <2>1, <1>3, <1>14 DEF Possible, Holding, Taps, TwoMoves
  <2> QED BY <2>1, <2>3, <2>4, <1>8
<1>15. CASE /\ tap /\ ~over /\ s2 # {}
            /\ tracked' = left /\ state' = s2 /\ waitingRelease' = TRUE
            /\ Dispatch(<<>>) /\ UNCHANGED ignored
  <2>1. s2 = s1 /\ s1 # {} /\ ~early
    <3>1. early => s2 = {} \/ over
      <4>1. ASSUME early PROVE HasDetected(state, left)
        BY <4>1, <1>6, <1>10, DetectedIs
      <4> QED BY <4>1, <1>10, <1>15
    <3> QED BY <3>1, <1>15
  <2>2. PICK g \in Taps : s2 = {g} /\ g \in state
    BY <2>1, <1>9
  <2> HIDE DEF s0, s1, s2, stale, early, tap, over
  <2>3. /\ left \in Seq(TouchRecord) /\ Len(left) = Len(tracked) /\ DOMAIN left = DOMAIN tracked
        /\ \A j \in DOMAIN tracked : left[j].id = tracked[j].id
        /\ ActiveIn(left) = Active \ {tracked[i].id}
    <3> HIDE DEF left
    <3>1. PICK l : l = left
      OBVIOUS
    <3>2. /\ l \in Seq(TouchRecord) /\ Len(l) = Len(tracked) /\ DOMAIN l = DOMAIN tracked
          /\ \A j \in DOMAIN tracked : l[j].id = tracked[j].id
          /\ ActiveIn(l) = Active \ {tracked[i].id}
      BY <3>1, <1>3, <1>5, LeftIs DEF left
    <3> QED BY <3>1, <3>2
  <2> HIDE DEF left
  <2>4. tracked' = left /\ state' = {g} /\ waitingRelease' = TRUE /\ ignored' = ignored
    BY <1>15, <2>2
  <2>5. g \in Gesture /\ g \notin Holding /\ g \notin TwoMoves
    BY DEF Gesture, Taps, Holding, TwoMoves
  <2>6. GType'
    BY <1>1, <1>3, <1>11, <1>12, <2>3, <2>4, <2>5 DEF GType
  <2>7. Active' = Active \ {t}
    BY <1>5, <2>3, <2>4 DEF Active, ActiveIn
  <2>8. left # <<>>
    BY <1>6, <2>3
  <2>9. \E j \in DOMAIN left : left[j].active
    <3>1. ~HasDetected({g}, left)
      BY <1>15, <2>2 DEF over
    <3>2. {g} \in SUBSET Gesture
      BY <2>5
    <3> QED BY <3>1, <3>2, <2>5, DetectedIs
  <2>10. Fingers'
    <3>1. \A j, k \in DOMAIN tracked' : tracked'[j].id = tracked'[k].id => j = k
      BY <1>3, <2>3, <2>4 DEF Fingers
    <3>2. down' = Active' \cup ignored' /\ Active' \cap ignored' = {}
      BY <1>1, <1>3, <2>4, <2>7 DEF Fingers
    <3> QED BY <2>4, <2>8, <2>9, <3>1, <3>2 DEF Fingers
  <2>11. Possible'
    <3>1. Len(tracked) >= 2 => g \notin {"onetap", "drag", "longpress"}
      BY <1>3, <2>2 DEF Possible
    <3>2. Len(tracked) >= 3 => g = "threetap"
      BY <1>3, <2>2, <2>5 DEF Possible
    <3> QED BY <2>3, <2>4, <2>5, <3>1, <3>2 DEF Possible, Single, TwoMoves
  <2>12. emitted' = <<>> /\ open' = open
    BY <1>15, OpenAfterIs DEF Dispatch
  <2>13. open \notin Holding
    BY <1>14, <2>1
  <2>14. OpenIsState'
    BY <2>4, <2>5, <2>12, <2>13 DEF OpenIsState
  <2> QED BY <1>1, <1>13, <2>6, <2>10, <2>11, <2>12, <2>14 DEF GInv, EventsFit
<1>16. CASE /\ ~(tap /\ ~over /\ s2 # {})
            /\ Dispatch(IF ~over THEN <<>> ELSE Push(s2, types))
            /\ Cleanup(Active \ {t}, waitingRelease \/ ~early)
  <2>1. /\ tracked' = <<>> /\ ignored' = ignored \cup (Active \ {t})
        /\ state' = IF ignored' = {} THEN Gesture ELSE {}
        /\ waitingRelease' \in BOOLEAN /\ (waitingRelease' => ignored' # {})
    BY <1>16 DEF Cleanup
  <2>2. Active \subseteq Touches
    <3>1. \A j \in DOMAIN tracked : tracked[j] \in TouchRecord
      BY <1>3 DEF GType
    <3> QED BY <3>1 DEF Active, TouchRecord
  <2>3. GType'
    <3>1. state' \in SUBSET Gesture /\ tracked' \in Seq(TouchRecord) /\ ignored' \in SUBSET Touches
      BY <1>3, <2>1, <2>2 DEF GType
    <3> QED BY <1>1, <1>3, <1>11, <1>12, <2>1, <3>1 DEF GType
  <2>4. Active' = {}
    BY <2>1 DEF Active
  <2>5. Fingers'
    BY <1>1, <1>3, <2>1, <2>4 DEF Fingers
  <2>6. Possible'
    <3>1. Len(tracked') = 0
      BY <2>1
    <3> QED BY <3>1, <2>1 DEF Possible, Gesture, Moves, TwoMoves
  <2>7. \A g \in Holding : state' # {g}
    BY <2>1 DEF Gesture, Taps
  <2>8. CASE ~over
    <3>1. emitted' = <<>> /\ open' = open
      BY <1>16, <2>8, OpenAfterIs DEF Dispatch
    <3>2. open \notin Holding
      <4>1. early /\ ~tap => over
        BY <1>8 DEF Detected
      <4> QED BY <4>1, <2>8, <1>14
    <3>3. OpenIsState'
      BY <3>1, <3>2, <2>7 DEF OpenIsState
    <3> QED BY <1>1, <1>13, <2>3, <2>5, <2>6, <3>1, <3>3 DEF GInv, EventsFit
  <2>9. CASE over
    <3>1. s2 \subseteq Gesture
      BY <1>6, <1>9, <1>10 DEF Gesture
    <3>2. PICK g \in Gesture : s2 = {g}
      <4> HIDE DEF s2, tap, left
      <4> QED BY <3>1, <2>9, DetectedIs
    <3>3. open' = "none" /\ emitted' = IF tap THEN <<Event("gesturestart", g), Event("gestureend", g)>>
                                              ELSE <<Event("gestureend", g)>>
      <4>1. Dispatch(Push({g}, types))
        BY <1>16, <2>9, <3>2
      <4>2. CASE tap
        BY <4>1, <4>2, PushTwo, OpenAfterIs DEF Dispatch
      <4>3. CASE ~tap
        BY <4>1, <4>3, PushOne, OpenAfterIs DEF Dispatch
      <4> QED BY <4>2, <4>3
    <3>4. OpenIsState'
      BY <3>3, <2>7 DEF OpenIsState, Holding
    <3>5. GInv'
      BY <1>1, <1>13, <2>3, <2>5, <2>6, <3>4 DEF GInv
    <3>6. CASE tap
      <4>1. open \notin Holding
        BY <1>14, <3>6
      <4>2. g \notin Holding
        <5>1. CASE ~early
          BY <5>1, <1>9, <3>2 DEF Taps, Holding
        <5>2. CASE early
          <6>1. waitingRelease /\ s1 = state /\ s2 = state
            BY <5>2, <3>6, <3>2, <1>10
          <6> QED BY <6>1, <3>2, <1>3 DEF Possible, Taps, TwoMoves, Holding
        <5> QED BY <5>1, <5>2
      <4> QED BY <3>3, <3>5, <3>6, <4>1, <4>2 DEF EventsFit
    <3>7. CASE ~tap
      <4>1. state = {g}
        BY <3>7, <3>2, <1>10
      <4>2. g \in Holding \/ open \in Holding => g = open
        BY <4>1, <1>3 DEF OpenIsState
      <4> QED BY <3>3, <3>5, <3>7, <4>2 DEF EventsFit
    <3> QED BY <3>6, <3>7
  <2> QED BY <2>8, <2>9
<1> QED BY <1>2, <1>15, <1>16

LEMMA TouchStep ==
    ASSUME GInv, Touch
    PROVE  GInv' /\ EventsFit
<1>1. PICK t \in Touches : TouchStart(t) \/ (\E far \in BOOLEAN : TouchMove(t, far)) \/ TouchEnd(t)
  BY DEF Touch
<1>2. CASE TouchStart(t)
  BY <1>2, TouchIgnoredStep, TouchTrackedStep DEF TouchStart
<1>3. CASE \E far \in BOOLEAN : TouchMove(t, far)
  BY <1>3, TouchMoveStep
<1>4. CASE TouchEnd(t)
  BY <1>4, IgnoredEndStep, TrackedEndStep DEF TouchEnd
<1> QED BY <1>1, <1>2, <1>3, <1>4

-----------------------------------------------------------------------------
(* The timers, the clock, detach, and what other steps leave alone.          *)

LEMMA LongpressTimeoutStep ==
    ASSUME GInv, LongpressTimeout
    PROVE  GInv' /\ EventsFit
<1>1. /\ longpress /\ longpress' = FALSE /\ state' = {"longpress"}
      /\ Dispatch(Push({"longpress"}, <<"gesturestart">>))
      /\ UNCHANGED <<tracked, ignored, waitingRelease, twoTouch, attached, down>>
  BY DEF LongpressTimeout
<1>2. attached /\ GType /\ Fingers /\ Timers /\ Possible /\ OpenIsState
  BY <1>1 DEF GInv
<1>3. emitted' = <<Event("gesturestart", "longpress")>> /\ open' = "longpress"
  BY <1>1, PushOne, OpenAfterIs DEF Dispatch
<1>4. "longpress" \in Gesture
  BY DEF Gesture
<1>5. Len(tracked) = 1 /\ ~waitingRelease /\ ~Single(state) /\ twoTouch # "armed"
  BY <1>1, <1>2 DEF Timers
<1>6. GType'
  BY <1>1, <1>2, <1>4 DEF GType
<1>7. Fingers'
  <2>1. tracked # <<>> /\ Active' = Active
    BY <1>1, <1>5 DEF Active
  <2> QED BY <1>1, <1>2, <2>1 DEF Fingers
<1>8. Timers'
  BY <1>1, <1>5 DEF Timers
<1>9. Possible'
  BY <1>1, <1>4, <1>5 DEF Possible, Single
<1>10. OpenIsState'
  BY <1>1, <1>3 DEF OpenIsState
<1>11. open \notin Holding
  BY <1>2, <1>5 DEF OpenIsState, Single, Holding, Gesture, Moves
<1> QED BY <1>1, <1>2, <1>3, <1>4, <1>6, <1>7, <1>8, <1>9, <1>10, <1>11 DEF GInv, EventsFit

LEMMA TwoTouchTimeoutStep ==
    ASSUME GInv, TwoTouchTimeout
    PROVE  GInv' /\ EventsFit
<1>1. PICK g \in TwoMoves : state' = {g}
  BY DEF TwoTouchTimeout
<1>2. /\ twoTouch = "armed" /\ twoTouch' = "fired" /\ tracked # <<>>
      /\ Dispatch(Push({g}, <<"gesturestart", "gesturemove">>))
      /\ UNCHANGED <<tracked, ignored, waitingRelease, longpress, attached, down>>
  BY <1>1 DEF TwoTouchTimeout
<1>3. attached /\ GType /\ Fingers /\ Timers /\ Possible /\ OpenIsState
  BY <1>2 DEF GInv
<1>4. /\ emitted' = <<Event("gesturestart", g), Event("gesturemove", g)>>
      /\ open' = g
  BY <1>2, PushTwo, OpenAfterIs DEF Dispatch
<1>5. g \in Gesture /\ g \in Moves /\ g \notin Holding /\ g \notin {"onetap", "drag", "longpress"}
  BY DEF TwoMoves, Moves, Gesture, Holding
<1>6. ~longpress /\ Undecided(state)
  BY <1>2, <1>3 DEF Timers
<1>7. GType'
  BY <1>1, <1>2, <1>3, <1>5 DEF GType
<1>8. Fingers'
  <2>1. Active' = Active
    BY <1>2 DEF Active
  <2> QED BY <1>2, <1>3, <2>1 DEF Fingers
<1>9. Timers'
  BY <1>2, <1>6 DEF Timers
<1>10. Possible'
  <2>1. Single(state)'
    BY <1>1, <1>5 DEF Single
  <2> QED BY <1>1, <1>2, <1>5, <2>1 DEF Possible
<1>11. OpenIsState'
  BY <1>1, <1>4, <1>5 DEF OpenIsState
<1>12. open \notin Holding
  <2>1. \A h \in Holding : state # {h}
    BY <1>6 DEF Undecided, TwoMoves
  <2> QED BY <1>3, <2>1 DEF OpenIsState
<1> QED BY <1>2, <1>3, <1>4, <1>5, <1>7, <1>8, <1>9, <1>10, <1>11, <1>12 DEF GInv, EventsFit

LEMMA SameGestures ==
    ASSUME GInv, UNCHANGED <<state, tracked, ignored, waitingRelease, longpress, twoTouch,
                             attached, down, open>>
    PROVE  GInv'
<1>1. GType'
  BY DEF GInv, GType
<1>2. Fingers' = Fingers
  <2>1. Active' = Active
    BY DEF Active
  <2> QED BY <2>1 DEF Fingers
<1>3. (Timers /\ Possible /\ OpenIsState)' = (Timers /\ Possible /\ OpenIsState)
  BY DEF Timers, Possible, OpenIsState, Single, Undecided
<1> QED BY <1>1, <1>2, <1>3 DEF GInv

LEMMA TickStep ==
    ASSUME GInv, Tick
    PROVE  GInv' /\ EventsFit
<1>1. emitted' = <<>> /\ open' = open
  BY OpenAfterIs DEF Tick, Dispatch
<1>2. UNCHANGED <<state, tracked, ignored, waitingRelease, longpress, twoTouch, attached, down>>
  BY DEF Tick
<1> QED BY <1>1, <1>2, SameGestures DEF EventsFit

LEMMA DetachStep ==
    ASSUME GInv, Detach
    PROVE  GInv' /\ EventsFit
<1>1. emitted' = <<>> /\ open' = open
  BY OpenAfterIs DEF Detach, Dispatch
<1> QED BY <1>1 DEF Detach, GInv, GType, EventsFit

LEMMA NoTouchStep ==
    ASSUME GInv, NoTouch
    PROVE  GInv' /\ EventsFit
BY SameGestures DEF NoTouch, EventsFit

LEMMA GInvInit ==
    ASSUME GInit
    PROVE  GInv
<1>1. Active = {} /\ Len(tracked) = 0 /\ tracked \in Seq(TouchRecord)
  BY DEF GInit, Active
<1>2. GType
  BY <1>1 DEF GInit, GType
<1>3. Fingers /\ Timers
  BY <1>1 DEF GInit, Fingers, Timers
<1>4. Possible /\ OpenIsState
  BY <1>1 DEF GInit, Possible, OpenIsState, Holding, Gesture, Moves, TwoMoves, Taps
<1> QED BY <1>2, <1>3, <1>4 DEF GInit, GInv

-----------------------------------------------------------------------------
(* What RFB sends.  A record of its fields, and what each operator on it     *)
(* makes of the mask, of what was sent, and of the timer.                    *)

Bits == 0..8

Rfb == [mask : SUBSET Bits, timer : BOOLEAN, pos : Points, dragging : BOOLEAN, hasMoved : BOOLEAN,
        accX : Int, accY : Int, sent : [mask : SUBSET Bits, pos : Points], want : Points]

Cut(m) == IF mode.extended THEN m ELSE m \ {7, 8}

(* The pending move is the last one; without one, the last one was sent.     *)
Caught(p) == (p.timer => p.pos = p.want) /\ (~p.timer => p.sent.pos = p.want)

LEMMA MaskIs ==
    ASSUME NEW bs \in SUBSET Buttons
    PROVE  Mask(bs) \in SUBSET Bits
<1>1. \A b \in 0..4 : MaskBit[b] \in Bits
  BY DEF MaskBit, Bits
<1> QED BY <1>1, PointerAssumption DEF Mask

LEMMA SendMouseIs ==
    ASSUME NEW p \in Rfb, NEW q \in Points, NEW m \in SUBSET Bits
    PROVE  LET r == SendMouse(p, q, m) IN
           /\ r \in Rfb /\ r.sent.mask = Cut(m) /\ r.sent.pos = q /\ r.want = q
           /\ r.mask = p.mask /\ r.timer = p.timer /\ r.pos = p.pos
           /\ r.dragging = p.dragging /\ r.hasMoved = p.hasMoved
<1> DEFINE s == [mask |-> Cut(m), pos |-> q]
<1>1. s \in [mask : SUBSET Bits, pos : Points] /\ s.mask = Cut(m) /\ s.pos = q
  BY DEF Cut
<1>2. SendMouse(p, q, m) = [p EXCEPT !.sent = s, !.want = q]
  BY DEF SendMouse, Cut
<1> HIDE DEF s
<1> QED BY <1>1, <1>2 DEF Rfb

LEMMA FlushTimerIs ==
    ASSUME NEW p \in Rfb, NEW q \in Points
    PROVE  LET r == FlushTimer(p, q) IN
           /\ r \in Rfb /\ r.timer = FALSE /\ r.mask = p.mask
           /\ r.dragging = p.dragging /\ r.hasMoved = p.hasMoved
           /\ r.sent.mask \in {p.sent.mask, Cut(p.mask)}
           /\ Caught(p) => Caught(r)
<1> DEFINE p0 == [p EXCEPT !.timer = FALSE]
<1>1. /\ p0 \in Rfb /\ p0.timer = FALSE /\ p0.mask = p.mask /\ p.mask \in SUBSET Bits
      /\ p0.dragging = p.dragging /\ p0.hasMoved = p.hasMoved /\ p.timer \in BOOLEAN
  BY DEF Rfb
<1> HIDE DEF p0
<1>2. CASE p.timer
  <2>1. FlushTimer(p, q) = SendMouse(p0, q, p.mask)
    BY <1>2 DEF FlushTimer, p0
  <2> QED BY <1>1, <2>1, SendMouseIs DEF Caught
<1>3. CASE ~p.timer
  BY <1>1, <1>3 DEF FlushTimer
<1> QED BY <1>2, <1>3

LEMMA MouseButtonIs ==
    ASSUME NEW p \in Rfb, NEW q \in Points, NEW m \in SUBSET Bits
    PROVE  LET r == MouseButton(p, q, m) IN
           /\ r \in Rfb /\ r.mask = m /\ r.sent.mask = Cut(m) /\ Caught(r)
           /\ r.dragging = p.dragging /\ r.hasMoved = p.hasMoved
<1>1. PICK f : f = FlushTimer(p, q)
  OBVIOUS
<1>2. f \in Rfb /\ f.timer = FALSE /\ f.dragging = p.dragging /\ f.hasMoved = p.hasMoved
  BY <1>1, FlushTimerIs
<1>3. PICK g : g = [f EXCEPT !.mask = m]
  OBVIOUS
<1>4. g \in Rfb /\ g.mask = m /\ g.timer = FALSE /\ g.dragging = p.dragging /\ g.hasMoved = p.hasMoved
  BY <1>2, <1>3 DEF Rfb
<1>5. MouseButton(p, q, m) = SendMouse(g, q, m)
  BY <1>1, <1>3 DEF MouseButton
<1> QED BY <1>4, <1>5, SendMouseIs DEF Caught

LEMMA ClickIs ==
    ASSUME NEW p \in Rfb, NEW q \in Points, NEW m \in SUBSET Bits, NEW rest \in SUBSET Bits
    PROVE  LET r == Click(p, q, m, rest) IN
           /\ r \in Rfb /\ r.mask = rest /\ r.sent.mask = Cut(rest) /\ Caught(r)
           /\ r.dragging = p.dragging /\ r.hasMoved = p.hasMoved
<1>1. PICK f : f = MouseButton(p, q, m)
  OBVIOUS
<1>2. f \in Rfb /\ f.dragging = p.dragging /\ f.hasMoved = p.hasMoved
  BY <1>1, MouseButtonIs
<1>3. Click(p, q, m, rest) = MouseButton(f, q, rest)
  BY <1>1 DEF Click
<1> QED BY <1>2, <1>3, MouseButtonIs

LEMMA MouseMoveIs ==
    ASSUME NEW p \in Rfb, NEW q \in Points, NEW soon
    PROVE  LET r == MouseMove(p, q, soon) IN
           /\ r \in Rfb /\ r.mask = p.mask /\ Caught(r)
           /\ r.sent.mask \in {p.sent.mask, Cut(p.mask)}
           /\ r.dragging = p.dragging /\ r.hasMoved = p.hasMoved
<1>1. CASE p.timer
  BY <1>1 DEF MouseMove, Rfb, Caught
<1>2. CASE ~p.timer /\ soon
  BY <1>2 DEF MouseMove, Rfb, Caught
<1>3. CASE ~p.timer /\ ~soon
  <2>1. PICK f : f = [p EXCEPT !.pos = q]
    OBVIOUS
  <2>2. /\ f \in Rfb /\ f.mask = p.mask /\ f.dragging = p.dragging /\ f.hasMoved = p.hasMoved
        /\ f.timer = p.timer /\ p.mask \in SUBSET Bits
    BY <2>1 DEF Rfb
  <2>3. MouseMove(p, q, soon) = SendMouse(f, q, p.mask)
    BY <1>3, <2>1 DEF MouseMove
  <2> QED BY <1>3, <2>2, <2>3, SendMouseIs DEF Caught
<1> QED BY <1>1, <1>2, <1>3

-----------------------------------------------------------------------------
(* The masks.  Between steps, RFB and the server hold no more than the       *)
(* buttons of the mouse, or the one button of the gesture that is open.      *)

Mode ==
    /\ mode \in [dragViewport : BOOLEAN, extended : BOOLEAN, device : Devices]
    /\ mode.dragViewport => mode.device # {"mouse", "touch"}

(* What a dragged viewport leaves of the promises: fingers only.             *)
Promised == ~chord /\ ~(mode.dragViewport /\ "mouse" \in mode.device)

MasksFit(p, o, bs) ==
    /\ o \notin Holding \/ mode.dragViewport =>
          p.mask \subseteq Mask(bs) /\ p.sent.mask \subseteq Mask(bs)
    /\ mode.device = {"mouse"} => p.mask = Mask(bs) /\ p.sent.mask = Cut(Mask(bs))
    /\ mode.device = {"touch"} /\ ~mode.dragViewport /\ o \in Holding =>
          p.mask \in {{0}, {2}} /\ p.sent.mask = p.mask

Good(p, o) ==
    /\ p \in Rfb /\ Caught(p)
    /\ ~mode.dragViewport => ~p.dragging /\ ~p.hasMoved
    /\ Promised => MasksFit(p, o, buttons)

LEMMA CutIs ==
    /\ \A m : Cut(m) \subseteq m
    /\ \A m \in {{0}, {2}} : Cut(m) = m
    /\ \A m : Cut(Cut(m)) = Cut(m)
    /\ Cut({}) = {}
BY DEF Cut

(* A move keeps the masks fit; so does a click of a gesture, which releases. *)
LEMMA MoveIsGood ==
    ASSUME Mode, NEW o, NEW p, Good(p, o), NEW q \in Points, NEW soon
    PROVE  Good(MouseMove(p, q, soon), o)
<1>1. PICK r : r = MouseMove(p, q, soon)
  OBVIOUS
<1>2. /\ r \in Rfb /\ r.mask = p.mask /\ Caught(r)
      /\ r.sent.mask = p.sent.mask \/ r.sent.mask = Cut(p.mask)
      /\ r.dragging = p.dragging /\ r.hasMoved = p.hasMoved
  BY <1>1, MouseMoveIs DEF Good
<1>3. ASSUME Promised PROVE MasksFit(r, o, buttons)
  BY <1>2, <1>3, CutIs DEF Good, MasksFit
<1> QED BY <1>1, <1>2, <1>3 DEF Good

LEMMA ReleasedIsGood ==
    ASSUME Mode, mode.device # {"mouse"}, NEW o \in {"none"} \cup Gesture, o \notin Holding,
           NEW r \in Rfb, Caught(r), r.mask = {}, r.sent.mask = {},
           ~mode.dragViewport => ~r.dragging /\ ~r.hasMoved
    PROVE  Good(r, o)
BY DEF Good, MasksFit

LEMMA StartIsGood ==
    ASSUME Mode, mode.device # {"mouse"}, NEW o, NEW p, Good(p, o), o \notin Holding,
           NEW g \in Gesture, NEW q \in Points, NEW soon \in BOOLEAN
    PROVE  Good(GestureStart(p, g, q, soon), g)
<1>0. p \in Rfb
  BY DEF Good
<1>1. CASE g \in Holding /\ mode.dragViewport
  <2>1. PICK r : r = [p EXCEPT !.hasMoved = FALSE, !.dragging = (g = "drag") \/ @]
    OBVIOUS
  <2>2. /\ r \in Rfb /\ r.mask = p.mask /\ r.sent = p.sent /\ r.timer = p.timer
        /\ r.pos = p.pos /\ r.want = p.want
    BY <1>0, <2>1 DEF Rfb
  <2>3. GestureStart(p, g, q, soon) = r
    BY <1>1, <2>1 DEF GestureStart, Holding
  <2>4. Caught(r) /\ (Promised => MasksFit(r, g, buttons))
    BY <1>1, <2>2 DEF Good, Caught, MasksFit
  <2> QED BY <1>1, <2>2, <2>3, <2>4 DEF Good
<1>2. CASE ~(g \in Holding /\ mode.dragViewport)
  <2>1. PICK moved : moved = MouseMove(p, q, soon)
    OBVIOUS
  <2>2. Good(moved, o) /\ moved \in Rfb
    BY <2>1, MoveIsGood DEF Good
  <2>3. GestureStart(p, g, q, soon) =
            CASE g \in Taps      -> Click(moved, q, TapMask[g], {})
              [] g = "drag"      -> MouseButton(moved, q, {0})
              [] g = "longpress" -> MouseButton(moved, q, {2})
              [] OTHER           -> moved
    BY <1>2, <2>1 DEF GestureStart, Holding
  <2>4. CASE g \in Taps
    <3>1. PICK m \in SUBSET Bits : m = TapMask[g]
      BY <2>4 DEF TapMask, Taps, Bits
    <3>2. PICK r : r = Click(moved, q, m, {})
      OBVIOUS
    <3>3. GestureStart(p, g, q, soon) = r
      BY <2>3, <2>4, <3>1, <3>2 DEF Taps
    <3>4. /\ r \in Rfb /\ r.mask = {} /\ r.sent.mask = {} /\ Caught(r)
          /\ r.dragging = moved.dragging /\ r.hasMoved = moved.hasMoved
      BY <2>2, <3>2, ClickIs, CutIs
    <3>5. g \notin Holding
      BY <2>4 DEF Taps, Holding
    <3> QED BY <2>2, <3>3, <3>4, <3>5, ReleasedIsGood DEF Good
  <2>5. CASE g \in Holding
    <3>1. PICK m \in {{0}, {2}} : m = IF g = "drag" THEN {0} ELSE {2}
      BY <2>5
    <3>2. PICK r : r = MouseButton(moved, q, m)
      OBVIOUS
    <3>3. GestureStart(p, g, q, soon) = r
      BY <2>3, <2>5, <3>1, <3>2 DEF Taps, Holding
    <3>4. m \in SUBSET Bits
      BY DEF Bits
    <3>5. /\ r \in Rfb /\ r.mask = m /\ r.sent.mask = Cut(m) /\ Caught(r)
          /\ r.dragging = moved.dragging /\ r.hasMoved = moved.hasMoved
      BY <2>2, <3>2, <3>4, MouseButtonIs
    <3>6. r.sent.mask = m
      BY <3>5, CutIs
    <3> QED BY <1>2, <2>2, <2>5, <3>3, <3>5, <3>6 DEF Good, MasksFit
  <2>6. CASE g \notin Taps /\ g \notin Holding
    <3>1. GestureStart(p, g, q, soon) = moved
      BY <2>3, <2>6 DEF Holding
    <3> QED BY <2>2, <2>6, <3>1 DEF Good, MasksFit
  <2> QED BY <2>4, <2>5, <2>6
<1> QED BY <1>1, <1>2

LEMMA MoveGestureIsGood ==
    ASSUME Mode, mode.device # {"mouse"}, NEW o, NEW p, Good(p, o),
           NEW g \in Gesture, g \in Holding \/ o \in Holding => g = o, NEW q \in Points,
           NEW soon \in BOOLEAN, NEW beyond \in BOOLEAN, NEW bit \in {-1} \cup 3..6
    PROVE  Good(GestureMove(p, g, q, soon, beyond, bit), g)
<1>0. p \in Rfb /\ Good(p, g)
  BY DEF Good, MasksFit
<1>1. CASE g \in Holding /\ mode.dragViewport
  <2>1. PICK r : r = [p EXCEPT !.dragging = TRUE, !.hasMoved = @ \/ beyond]
    OBVIOUS
  <2>2. /\ r \in Rfb /\ r.mask = p.mask /\ r.sent = p.sent /\ r.timer = p.timer
        /\ r.pos = p.pos /\ r.want = p.want
    BY <1>0, <2>1 DEF Rfb
  <2>3. GestureMove(p, g, q, soon, beyond, bit) = r
    BY <1>1, <2>1 DEF GestureMove, Holding
  <2>4. Caught(r) /\ (Promised => MasksFit(r, g, buttons))
    BY <1>0, <1>1, <2>2 DEF Good, Caught, MasksFit
  <2> QED BY <1>1, <2>2, <2>3, <2>4 DEF Good
<1>2. CASE ~(g \in Holding /\ mode.dragViewport)
  <2>1. PICK moved : moved = MouseMove(p, q, soon)
    OBVIOUS
  <2>2. Good(moved, g) /\ moved \in Rfb
    BY <1>0, <2>1, MoveIsGood DEF Good
  <2>3. CASE g \in Holding \/ bit = -1
    <3>1. GestureMove(p, g, q, soon, beyond, bit) = moved
      BY <1>2, <2>1, <2>3 DEF GestureMove, Holding
    <3> QED BY <2>2, <3>1
  <2>4. CASE g \notin Holding /\ bit # -1
    <3>1. PICK r : r = Click(moved, q, {bit}, {})
      OBVIOUS
    <3>2. GestureMove(p, g, q, soon, beyond, bit) = r
      BY <1>2, <2>1, <2>4, <3>1 DEF GestureMove, Holding
    <3>3. {bit} \in SUBSET Bits
      BY <2>4 DEF Bits
    <3>4. /\ r \in Rfb /\ r.mask = {} /\ r.sent.mask = {} /\ Caught(r)
          /\ r.dragging = moved.dragging /\ r.hasMoved = moved.hasMoved
      BY <2>2, <3>1, <3>3, ClickIs, CutIs
    <3> QED BY <2>2, <2>4, <3>2, <3>4, ReleasedIsGood DEF Good
  <2> QED BY <2>3, <2>4
<1> QED BY <1>1, <1>2

LEMMA EndIsGood ==
    ASSUME Mode, mode.device # {"mouse"}, NEW o, NEW p, Good(p, o),
           NEW g \in Gesture, g \in Holding \/ o \in Holding => g = o, NEW q \in Points,
           NEW soon \in BOOLEAN
    PROVE  Good(GestureEnd(p, g, q, soon), "none")
<1>0. p \in Rfb /\ "none" \notin Holding
  BY DEF Good, Holding
<1>1. PICK moved : moved = MouseMove(p, q, soon)
  OBVIOUS
<1>2. Good(moved, o) /\ moved \in Rfb
  BY <1>0, <1>1, MoveIsGood DEF Good
<1>3. CASE g = "drag" /\ mode.dragViewport
  <2>1. PICK r : r = [p EXCEPT !.dragging = FALSE]
    OBVIOUS
  <2>2. /\ r \in Rfb /\ r.mask = p.mask /\ r.sent = p.sent /\ r.timer = p.timer
        /\ r.pos = p.pos /\ r.want = p.want
    BY <1>0, <2>1 DEF Rfb
  <2>3. GestureEnd(p, g, q, soon) = r
    BY <1>3, <2>1 DEF GestureEnd
  <2>4. Caught(r) /\ (Promised => MasksFit(r, "none", buttons))
    BY <1>0, <1>3, <2>2 DEF Good, Caught, MasksFit
  <2> QED BY <1>3, <2>2, <2>3, <2>4 DEF Good
<1>4. CASE g \in Holding /\ ~mode.dragViewport
  <2>1. ~p.hasMoved
    BY <1>4 DEF Good
  <2>2. PICK r : r = MouseButton(moved, q, {})
    OBVIOUS
  <2>3. GestureEnd(p, g, q, soon) = r
    BY <1>1, <1>4, <2>1, <2>2 DEF GestureEnd, Holding
  <2>4. /\ r \in Rfb /\ r.mask = {} /\ r.sent.mask = {} /\ Caught(r)
        /\ r.dragging = moved.dragging /\ r.hasMoved = moved.hasMoved
    BY <1>2, <2>2, MouseButtonIs, CutIs DEF Bits
  <2> QED BY <1>0, <1>2, <1>4, <2>3, <2>4, ReleasedIsGood DEF Good
<1>5. CASE g = "longpress" /\ mode.dragViewport /\ ~p.hasMoved
  <2>1. PICK c : c = Click(moved, q, {2}, {})
    OBVIOUS
  <2>2. c \in Rfb /\ c.mask = {} /\ c.sent.mask = {} /\ Caught(c)
    BY <1>2, <2>1, ClickIs, CutIs DEF Bits
  <2>3. PICK r : r = [c EXCEPT !.dragging = FALSE]
    OBVIOUS
  <2>4. r \in Rfb /\ r.mask = {} /\ r.sent.mask = {} /\ Caught(r)
    BY <2>2, <2>3 DEF Rfb, Caught
  <2>5. GestureEnd(p, g, q, soon) = r
    BY <1>1, <1>5, <2>1, <2>3 DEF GestureEnd
  <2> QED BY <1>0, <1>5, <2>4, <2>5, ReleasedIsGood
<1>6. CASE g \notin Holding \/ (g = "longpress" /\ mode.dragViewport /\ p.hasMoved)
  <2>1. GestureEnd(p, g, q, soon) = p
    BY <1>6 DEF GestureEnd, Holding
  <2> QED BY <1>0, <1>6, <2>1 DEF Good, MasksFit
<1> QED BY <1>3, <1>4, <1>5, <1>6 DEF Holding

(* What RFB makes of the events of one step.                                 *)
LEMMA EventsAreGood ==
    ASSUME Mode, mode.device # {"mouse"}, Good(rfb, open), EventsFit,
           NEW q \in Points, NEW soon \in BOOLEAN, NEW beyond \in BOOLEAN, NEW bit \in {-1} \cup 3..6,
           LET one(p, i) == HandleGesture(p, emitted'[i], q, soon, beyond, bit) IN
           rfb' = CASE Len(emitted') = 0 -> rfb
                    [] Len(emitted') = 1 -> one(rfb, 1)
                    [] OTHER             -> one(one(rfb, 1), 2)
    PROVE  Good(rfb', open')
<1> DEFINE H(p, type, g) == HandleGesture(p, Event(type, g), q, soon, beyond, bit)
<1>1. ASSUME NEW p, NEW g
      PROVE  /\ H(p, "gesturestart", g) = GestureStart(p, g, q, soon)
             /\ H(p, "gesturemove", g)  = GestureMove(p, g, q, soon, beyond, bit)
             /\ H(p, "gestureend", g)   = GestureEnd(p, g, q, soon)
  BY DEF HandleGesture, Event
<1>2. ASSUME NEW a, NEW g, emitted' = <<Event(a, g)>>
      PROVE  rfb' = H(rfb, a, g)
  <2>1. Len(emitted') = 1 /\ emitted'[1] = Event(a, g)
    BY <1>2
  <2> QED BY <2>1
<1>3. ASSUME NEW a, NEW b, NEW g, emitted' = <<Event(a, g), Event(b, g)>>
      PROVE  rfb' = H(H(rfb, a, g), b, g)
  <2>1. Len(emitted') = 2 /\ emitted'[1] = Event(a, g) /\ emitted'[2] = Event(b, g)
    BY <1>3
  <2> QED BY <2>1
<1> HIDE DEF H
<1>4. CASE emitted' = <<>> /\ open' = open
  <2>1. Len(emitted') = 0
    BY <1>4
  <2> QED BY <1>4, <2>1
<1>5. ASSUME NEW g \in Gesture, emitted' = <<Event("gesturestart", g)>>, open' = g, open \notin Holding
      PROVE  Good(rfb', open')
  BY <1>1, <1>2, <1>5, StartIsGood
<1>6. ASSUME NEW g \in Gesture, emitted' = <<Event("gesturemove", g)>>, open' = g,
             g \in Holding \/ open \in Holding => g = open
      PROVE  Good(rfb', open')
  BY <1>1, <1>2, <1>6, MoveGestureIsGood
<1>7. ASSUME NEW g \in Gesture, open' = g, open \notin Holding,
             emitted' = <<Event("gesturestart", g), Event("gesturemove", g)>>
      PROVE  Good(rfb', open')
  <2>1. PICK p : p = H(rfb, "gesturestart", g)
    OBVIOUS
  <2>2. Good(p, g)
    BY <2>1, <1>1, <1>7, StartIsGood
  <2>3. rfb' = GestureMove(p, g, q, soon, beyond, bit)
    BY <1>1, <1>3, <1>7, <2>1
  <2> QED BY <1>7, <2>2, <2>3, MoveGestureIsGood
<1>8. ASSUME NEW g \in Gesture, open' = "none", g \notin Holding, open \notin Holding,
             emitted' = <<Event("gesturestart", g), Event("gestureend", g)>>
      PROVE  Good(rfb', open')
  <2>1. PICK p : p = H(rfb, "gesturestart", g)
    OBVIOUS
  <2>2. Good(p, g)
    BY <2>1, <1>1, <1>8, StartIsGood
  <2>3. rfb' = GestureEnd(p, g, q, soon)
    BY <1>1, <1>3, <1>8, <2>1
  <2> QED BY <1>8, <2>2, <2>3, EndIsGood
<1>9. ASSUME NEW g \in Gesture, emitted' = <<Event("gestureend", g)>>, open' = "none",
             g \in Holding \/ open \in Holding => g = open
      PROVE  Good(rfb', open')
  BY <1>1, <1>2, <1>9, EndIsGood
<1> QED BY <1>4, <1>5, <1>6, <1>7, <1>8, <1>9 DEF EventsFit

-----------------------------------------------------------------------------
(* The inductive invariant of the pointer.                                   *)

(* One button at a time is held under capture; only fingers hold otherwise.  *)
Hands ==
    /\ "mouse" \notin mode.device => buttons = {}
    /\ mode.device = {"mouse"} => open \notin Holding
    /\ ~chord => \A a, b \in buttons : a = b
    /\ ~chord /\ ~mode.dragViewport /\ buttons # {} => captured

PointerTypeOK ==
    /\ GType
    /\ rfb \in Rfb /\ buttons \in SUBSET Buttons
    /\ inside \in BOOLEAN /\ captured \in BOOLEAN /\ chord \in BOOLEAN

PInv ==
    /\ GInv /\ Mode /\ PointerTypeOK
    /\ attached => Good(rfb, open) /\ Hands

LEMMA GoodHere ==
    ASSUME Good(rfb', open'), UNCHANGED <<mode, chord, buttons>>
    PROVE  Good(rfb, open)'
BY DEF Good, Caught, Promised, MasksFit, Mask, Cut, Rfb

LEMMA AttachedSteps ==
    ASSUME GInv
    PROVE  Touch \/ LongpressTimeout \/ TwoTouchTimeout \/ Tick => attached /\ attached' = attached
BY DEF GInv, Touch, TouchStart, TouchMove, TouchEnd, LongpressTimeout, TwoTouchTimeout, Tick

LEMMA GestureStep ==
    ASSUME PInv, NEW ACTION A, A => GInv' /\ EventsFit /\ attached /\ attached' = attached,
           WithGestures(A)
    PROVE  PInv'
<1>1. /\ GInv' /\ EventsFit /\ attached /\ attached' = attached
      /\ mode.device # {"mouse"}
      /\ UNCHANGED <<buttons, inside, captured, chord, mode>>
  BY DEF WithGestures
<1>2. Mode /\ Good(rfb, open) /\ Hands /\ PointerTypeOK
  BY <1>1 DEF PInv
<1> DEFINE Qs == IF emitted' = <<>> THEN {rfb.pos} ELSE Points
           Ss == IF emitted' = <<>> \/ rfb.timer THEN {FALSE} ELSE BOOLEAN
           Bs == IF mode.dragViewport /\ open' \in {"drag", "longpress"} THEN BOOLEAN ELSE {FALSE}
           Ws == CASE open' = "twodrag" -> {-1} \cup 3..6 [] open' = "pinch" -> {-1, 3, 4} [] OTHER -> {-1}
<1>3. PICK q \in Qs, soon \in Ss, beyond \in Bs, bit \in Ws :
         LET one(p, i) == HandleGesture(p, emitted'[i], q, soon, beyond, bit) IN
         rfb' = CASE Len(emitted') = 0 -> rfb
                  [] Len(emitted') = 1 -> one(rfb, 1)
                  [] OTHER             -> one(one(rfb, 1), 2)
  BY Zenon DEF WithGestures
<1>a. q \in Points /\ soon \in BOOLEAN /\ beyond \in BOOLEAN /\ bit \in {-1} \cup 3..6
  <2>1. rfb.pos \in Points
    BY <1>2 DEF Good, Rfb
  <2>2. Ws \subseteq {-1} \cup 3..6
    <3>1. {-1} \subseteq {-1} \cup 3..6 /\ {-1, 3, 4} \subseteq {-1} \cup 3..6
      OBVIOUS
    <3>2. CASE open' = "twodrag"
      BY <3>2
    <3>3. CASE open' = "pinch"
      BY <3>1, <3>3
    <3>4. CASE open' \notin {"twodrag", "pinch"}
      BY <3>1, <3>4
    <3> QED BY <3>2, <3>3, <3>4
  <2>3. Qs \subseteq Points /\ Ss \subseteq BOOLEAN /\ Bs \subseteq BOOLEAN
    BY <2>1
  <2> QED BY <2>2, <2>3
<1>4. Good(rfb', open')
  BY <1>1, <1>2, <1>3, <1>a, EventsAreGood
<1>5. Good(rfb, open)' /\ Mode'
  BY <1>1, <1>2, <1>4, GoodHere DEF Mode
<1>6. PointerTypeOK'
  BY <1>1, <1>2, <1>4 DEF PointerTypeOK, GInv, Good
<1>7. Hands'
  BY <1>1, <1>2 DEF Hands
<1> QED BY <1>1, <1>5, <1>6, <1>7 DEF PInv

(* With a mouse, each way of sending leaves the masks of its buttons.        *)
LEMMA MaskedIsGood ==
    ASSUME Mode, mode.device # {"touch"}, NEW r \in Rfb, NEW o, NEW bs,
           r.mask = Mask(bs), r.sent.mask = Cut(Mask(bs))
    PROVE  MasksFit(r, o, bs)
BY CutIs DEF MasksFit

LEMMA DragIsMouse ==
    ASSUME Mode, mode.device # {"touch"}
    PROVE  "mouse" \in mode.device /\ (mode.dragViewport => ~Promised)
<1>1. mode.device \in (SUBSET {"mouse", "touch"}) \ {{}}
  BY PointerAssumption DEF Mode
<1>2. "mouse" \in mode.device
  BY <1>1
<1> QED BY <1>2 DEF Promised

-----------------------------------------------------------------------------
(* The mouse *)

LEMMA GoodThen ==
    ASSUME mode' = mode, rfb' \in Rfb, Caught(rfb'),
           ~mode.dragViewport => ~rfb'.dragging /\ ~rfb'.hasMoved,
           Promised' => MasksFit(rfb', open', buttons')
    PROVE  Good(rfb, open)'
BY DEF Good, Caught, MasksFit, Mask, Cut, Rfb

LEMMA PressIs ==
    ASSUME Mode, mode.device # {"touch"}, Good(rfb, open), NEW b \in Buttons, NEW q \in Points,
           buttons \in SUBSET Buttons, Press(b, q)
    PROVE  LET m == Mask(buttons \cup {b}) IN
           /\ rfb' \in Rfb /\ Caught(rfb')
           /\ ~mode.dragViewport => /\ rfb'.mask = m /\ rfb'.sent.mask = Cut(m) /\ captured'
                                    /\ ~rfb'.dragging /\ ~rfb'.hasMoved
<1>1. PICK m \in SUBSET Bits : m = Mask(buttons \cup {b})
  BY MaskIs
<1>2. rfb \in Rfb /\ Caught(rfb)
  BY DEF Good
<1>3. CASE mode.dragViewport /\ ~rfb.dragging
  <2>1. PICK f : f = FlushTimer(rfb, q)
    OBVIOUS
  <2>2. f \in Rfb /\ Caught(f)
    BY <1>2, <2>1, FlushTimerIs
  <2>3. rfb' = [f EXCEPT !.dragging = TRUE, !.hasMoved = FALSE, !.mask = m]
    BY <1>1, <1>3, <2>1 DEF Press
  <2> QED BY <1>3, <2>2, <2>3 DEF Rfb, Caught
<1>4. CASE mode.dragViewport /\ rfb.dragging /\ rfb.hasMoved
  <2>1. rfb' = [rfb EXCEPT !.dragging = FALSE, !.mask = m]
    BY <1>1, <1>4 DEF Press
  <2> QED BY <1>2, <1>4, <2>1 DEF Rfb, Caught
<1>5. CASE mode.dragViewport /\ rfb.dragging /\ ~rfb.hasMoved
  <2>1. PICK f : f = [rfb EXCEPT !.dragging = FALSE]
    OBVIOUS
  <2>2. f \in Rfb /\ rfb.mask \in SUBSET Bits
    BY <1>2, <2>1 DEF Rfb
  <2>3. PICK s : s = SendMouse(f, q, rfb.mask)
    OBVIOUS
  <2>4. s \in Rfb
    BY <2>2, <2>3, SendMouseIs
  <2>5. rfb' = MouseButton(s, q, m)
    BY <1>1, <1>5, <2>1, <2>3 DEF Press
  <2> QED BY <1>5, <2>4, <2>5, MouseButtonIs
<1>6. CASE ~mode.dragViewport
  <2>1. rfb' = MouseButton(rfb, q, m) /\ captured' = TRUE
    BY <1>1, <1>6 DEF Press
  <2>2. /\ rfb' \in Rfb /\ rfb'.mask = m /\ rfb'.sent.mask = Cut(m) /\ Caught(rfb')
        /\ rfb'.dragging = rfb.dragging /\ rfb'.hasMoved = rfb.hasMoved
    BY <1>2, <2>1, MouseButtonIs
  <2> QED BY <1>1, <1>6, <2>1, <2>2 DEF Good
<1> QED BY <1>3, <1>4, <1>5, <1>6

LEMMA ReleaseIs ==
    ASSUME Mode, mode.device # {"touch"}, Good(rfb, open), NEW b \in Buttons, NEW q \in Points,
           buttons \in SUBSET Buttons, Release(b, q)
    PROVE  LET m == Mask(buttons \ {b}) IN
           /\ rfb' \in Rfb /\ Caught(rfb')
           /\ ~mode.dragViewport => /\ rfb'.mask = m /\ rfb'.sent.mask = Cut(m)
                                    /\ ~rfb'.dragging /\ ~rfb'.hasMoved
<1>1. PICK m \in SUBSET Bits : m = Mask(buttons \ {b})
  BY MaskIs
<1>2. rfb \in Rfb /\ Caught(rfb)
  BY DEF Good
<1>3. CASE mode.dragViewport /\ rfb.hasMoved
  <2>1. rfb' = [rfb EXCEPT !.dragging = FALSE, !.mask = m]
    BY <1>1, <1>3 DEF Release
  <2> QED BY <1>2, <1>3, <2>1 DEF Rfb, Caught
<1>4. CASE mode.dragViewport /\ ~rfb.hasMoved
  <2>1. PICK f : f = [rfb EXCEPT !.dragging = FALSE]
    OBVIOUS
  <2>2. f \in Rfb /\ rfb.mask \in SUBSET Bits
    BY <1>2, <2>1 DEF Rfb
  <2>3. PICK s : s = SendMouse(f, q, rfb.mask)
    OBVIOUS
  <2>4. s \in Rfb
    BY <2>2, <2>3, SendMouseIs
  <2>5. rfb' = MouseButton(s, q, m)
    BY <1>1, <1>4, <2>1, <2>3 DEF Release
  <2> QED BY <1>4, <2>4, <2>5, MouseButtonIs
<1>5. CASE ~mode.dragViewport
  <2>1. rfb' = MouseButton(rfb, q, m)
    BY <1>1, <1>5 DEF Release
  <2>2. /\ rfb' \in Rfb /\ rfb'.mask = m /\ rfb'.sent.mask = Cut(m) /\ Caught(rfb')
        /\ rfb'.dragging = rfb.dragging /\ rfb'.hasMoved = rfb.hasMoved
    BY <1>2, <2>1, MouseButtonIs
  <2> QED BY <1>1, <1>5, <2>2 DEF Good
<1> QED BY <1>3, <1>4, <1>5

LEMMA WheelStepIs ==
    ASSUME Mode, mode.device # {"touch"}, buttons \in SUBSET Buttons, NEW p, Good(p, open),
           NEW q \in Points, NEW acc \in Int, NEW up \in 3..6, NEW dn \in 3..6
    PROVE  Good(WheelStep(p, q, acc, up, dn), open)
<1>1. PICK m \in SUBSET Bits : m = Mask(buttons)
  BY MaskIs
<1>2. CASE acc \in -1..1
  BY <1>2 DEF WheelStep
<1>3. CASE acc \notin -1..1
  <2>1. PICK w \in 3..6 : w = IF acc < 0 THEN up ELSE dn
    OBVIOUS
  <2>2. m \cup {w} \in SUBSET Bits
    BY DEF Bits
  <2>3. PICK r : r = Click(p, q, m \cup {w}, m)
    OBVIOUS
  <2>4. WheelStep(p, q, acc, up, dn) = r
    BY <1>1, <1>3, <2>1, <2>3 DEF WheelStep
  <2>5. p \in Rfb
    BY DEF Good
  <2>6. /\ r \in Rfb /\ r.mask = m /\ r.sent.mask = Cut(m) /\ Caught(r)
        /\ r.dragging = p.dragging /\ r.hasMoved = p.hasMoved
    BY <2>2, <2>3, <2>5, ClickIs
  <2>7. MasksFit(r, open, buttons)
    BY <1>1, <2>6, MaskedIsGood
  <2> QED BY <2>4, <2>6, <2>7 DEF Good
<1> QED BY <1>2, <1>3

LEMMA MouseStep ==
    ASSUME PInv, Mouse
    PROVE  PInv'
<1>1. attached /\ mode.device # {"touch"} /\ NoTouch /\ UNCHANGED mode
  BY DEF Mouse
<1>2. GInv' /\ EventsFit /\ attached' /\ open' = open
  BY <1>1, NoTouchStep DEF PInv, NoTouch
<1>3. Mode /\ Good(rfb, open) /\ Hands /\ PointerTypeOK /\ Mode'
  BY <1>1 DEF PInv, Mode
<1>4. buttons \in SUBSET Buttons /\ rfb \in Rfb /\ "mouse" \in mode.device
  BY <1>1, <1>3, DragIsMouse DEF PointerTypeOK
<1> USE DEF PointerTypeOK
<1>5. ASSUME NEW q \in Points, NEW b \in Buttons, MouseDown(b, q)
      PROVE  PInv'
  <2>1. /\ buttons' = buttons \cup {b} /\ inside' = inside
        /\ chord' \in BOOLEAN /\ (~chord' => ~chord /\ buttons = {})
        /\ Press(b, q)
    <3>1. chord' = (chord \/ buttons # {})
      BY <1>5 DEF MouseDown
    <3>2. chord' \in BOOLEAN /\ (~chord' => ~chord /\ buttons = {})
      BY <3>1, <1>3
    <3> QED BY <1>5, <3>2 DEF MouseDown
  <2>2. LET m == Mask(buttons') IN
        /\ rfb' \in Rfb /\ Caught(rfb')
        /\ ~mode.dragViewport => /\ rfb'.mask = m /\ rfb'.sent.mask = Cut(m) /\ captured'
                                 /\ ~rfb'.dragging /\ ~rfb'.hasMoved
    BY <2>1, <1>1, <1>3, <1>4, PressIs
  <2>3. captured' \in BOOLEAN
    BY <2>1, <1>3 DEF Press
  <2>4. Good(rfb, open)'
    <3>1. Promised' => ~mode.dragViewport
      BY <1>1, <1>4 DEF Promised
    <3>2. Promised' => MasksFit(rfb', open', buttons')
      BY <1>1, <1>3, <2>2, <3>1, MaskedIsGood
    <3> QED BY <1>1, <2>2, <3>2, GoodThen
  <2>5. Hands'
    BY <2>1, <2>2, <1>1, <1>2, <1>3, <1>4 DEF Hands
  <2>6. PointerTypeOK'
    BY <1>2, <1>3, <2>1, <2>2, <2>3 DEF GInv
  <2> QED BY <1>2, <1>3, <2>4, <2>5, <2>6 DEF PInv
<1>6. ASSUME NEW q \in Points, NEW b \in Buttons, MouseUp(b, q)
      PROVE  PInv'
  <2>1. /\ b \in buttons /\ buttons' = buttons \ {b} /\ captured' = FALSE
        /\ UNCHANGED <<inside, chord>>
        /\ IF inside \/ captured THEN Release(b, q) ELSE UNCHANGED rfb
    BY <1>6 DEF MouseUp
  <2>2. /\ rfb' \in Rfb /\ Caught(rfb')
        /\ ~mode.dragViewport => ~rfb'.dragging /\ ~rfb'.hasMoved
        /\ Promised' => MasksFit(rfb', open', buttons')
    <3>0. Promised' => ~chord /\ ~mode.dragViewport
      BY <1>1, <1>4, <2>1 DEF Promised
    <3>1. CASE inside \/ captured
      <4>1. LET m == Mask(buttons') IN
            /\ rfb' \in Rfb /\ Caught(rfb')
            /\ ~mode.dragViewport => /\ rfb'.mask = m /\ rfb'.sent.mask = Cut(m)
                                     /\ ~rfb'.dragging /\ ~rfb'.hasMoved
        BY <3>1, <2>1, <1>1, <1>3, <1>4, ReleaseIs
      <4>2. Promised' => MasksFit(rfb', open', buttons')
        BY <1>1, <1>3, <3>0, <4>1, MaskedIsGood
      <4> QED BY <4>1, <4>2
    <3>2. CASE ~(inside \/ captured)
      <4>1. ~Promised'
        BY <3>0, <3>2, <2>1, <1>3 DEF Hands
      <4> QED BY <3>2, <2>1, <1>3, <4>1 DEF Good
    <3> QED BY <3>1, <3>2
  <2>3. Good(rfb, open)'
    BY <1>1, <2>2, GoodThen
  <2>4. Hands'
    BY <2>1, <1>1, <1>2, <1>3, <1>4 DEF Hands
  <2>5. PointerTypeOK'
    BY <1>2, <1>3, <2>1, <2>2 DEF GInv
  <2> QED BY <1>2, <1>3, <2>3, <2>4, <2>5 DEF PInv
<1>7. ASSUME NEW q \in Points, NEW to \in BOOLEAN, NEW soon \in BOOLEAN, NEW beyond \in BOOLEAN,
             MouseMoves(q, to, soon, beyond)
      PROVE  PInv'
  <2>1. /\ inside' = to /\ UNCHANGED <<buttons, captured, chord>>
        /\ \/ rfb' = rfb
           \/ rfb.dragging /\ rfb' = [rfb EXCEPT !.hasMoved = @ \/ beyond]
           \/ rfb' = MouseMove(rfb, q, soon)
    BY <1>7 DEF MouseMoves
  <2>2. Good(rfb', open')
    <3>1. CASE rfb' = rfb
      BY <3>1, <1>2, <1>3
    <3>2. CASE rfb' = MouseMove(rfb, q, soon)
      BY <3>2, <1>2, <1>3, MoveIsGood
    <3>3. CASE rfb.dragging /\ rfb' = [rfb EXCEPT !.hasMoved = @ \/ beyond]
      <4>1. mode.dragViewport /\ ~Promised
        BY <3>3, <1>1, <1>3, DragIsMouse DEF Good
      <4>2. rfb' \in Rfb /\ rfb'.sent = rfb.sent /\ rfb'.timer = rfb.timer /\ rfb'.pos = rfb.pos /\ rfb'.want = rfb.want
        BY <3>3, <1>4 DEF Rfb
      <4> QED BY <4>1, <4>2, <1>3 DEF Good, Caught
    <3> QED BY <2>1, <3>1, <3>2, <3>3
  <2>3. Good(rfb, open)'
    BY <1>1, <2>1, <2>2, GoodHere
  <2>4. Hands'
    BY <2>1, <1>1, <1>2, <1>3, <1>4 DEF Hands
  <2>5. PointerTypeOK'
    BY <1>2, <1>3, <2>1, <2>2 DEF GInv, Good
  <2> QED BY <1>2, <1>3, <2>3, <2>4, <2>5 DEF PInv
<1>8. ASSUME NEW q \in Points, NEW d \in WheelDeltas, Wheel(q, d)
      PROVE  PInv'
  <2> DEFINE x == rfb.accX + d[1]
             y == rfb.accY + d[2]
  <2>1. x \in Int /\ y \in Int
    BY <1>4, PointerAssumption DEF Rfb
  <2>2. PICK r : r = WheelStep(WheelStep(rfb, q, x, 5, 6), q, y, 3, 4)
    OBVIOUS
  <2>3. /\ rfb' = [r EXCEPT !.accX = Rest(x), !.accY = Rest(y)]
        /\ UNCHANGED <<buttons, inside, captured, chord>>
    BY <1>8, <2>2 DEF Wheel
  <2> HIDE DEF x, y
  <2>4. Good(r, open)
    <3>1. Good(WheelStep(rfb, q, x, 5, 6), open)
      BY <1>1, <1>3, <1>4, <2>1, WheelStepIs
    <3> QED BY <3>1, <1>1, <1>3, <1>4, <2>1, <2>2, WheelStepIs
  <2>5. Rest(x) \in Int /\ Rest(y) \in Int
    BY <2>1 DEF Rest
  <2>6. /\ rfb' \in Rfb /\ rfb'.sent = r.sent /\ rfb'.timer = r.timer /\ rfb'.pos = r.pos /\ rfb'.want = r.want
        /\ rfb'.mask = r.mask /\ rfb'.dragging = r.dragging /\ rfb'.hasMoved = r.hasMoved
    BY <2>3, <2>4, <2>5 DEF Rfb, Good
  <2>7. Good(rfb', open')
    BY <1>2, <2>4, <2>6 DEF Good, Caught, MasksFit
  <2>8. Good(rfb, open)'
    BY <1>1, <2>3, <2>7, GoodHere
  <2>9. Hands'
    BY <2>3, <1>1, <1>2, <1>3, <1>4 DEF Hands
  <2>10. PointerTypeOK'
    BY <1>2, <1>3, <2>3, <2>6 DEF GInv
  <2> QED BY <1>2, <1>3, <2>8, <2>9, <2>10 DEF PInv
<1> QED BY <1>5, <1>6, <1>7, <1>8 DEF Mouse

LEMMA DelayedMoveStep ==
    ASSUME PInv, DelayedMove
    PROVE  PInv'
<1>1. /\ rfb.timer /\ attached /\ NoTouch
      /\ UNCHANGED <<buttons, inside, captured, chord, mode>>
      /\ rfb' = [SendMouse([rfb EXCEPT !.timer = FALSE], rfb.pos, rfb.mask) EXCEPT !.want = rfb.want]
  BY DEF DelayedMove
<1>2. GInv' /\ EventsFit /\ attached' /\ open' = open
  BY <1>1, NoTouchStep DEF PInv, NoTouch
<1>3. Mode /\ Good(rfb, open) /\ Hands /\ PointerTypeOK /\ Mode'
  BY <1>1 DEF PInv, Mode
<1>4. rfb \in Rfb /\ rfb.pos \in Points /\ rfb.mask \in SUBSET Bits /\ rfb.want = rfb.pos
  BY <1>1, <1>3 DEF Good, Caught, Rfb
<1>5. PICK f : f = [rfb EXCEPT !.timer = FALSE]
  OBVIOUS
<1>6. /\ f \in Rfb /\ f.timer = FALSE /\ f.mask = rfb.mask
      /\ f.dragging = rfb.dragging /\ f.hasMoved = rfb.hasMoved
  BY <1>4, <1>5 DEF Rfb
<1>7. PICK s : s = SendMouse(f, rfb.pos, rfb.mask)
  OBVIOUS
<1>8. /\ s \in Rfb /\ s.timer = FALSE /\ s.mask = rfb.mask /\ s.sent.mask = Cut(rfb.mask) /\ s.sent.pos = rfb.pos
      /\ s.dragging = rfb.dragging /\ s.hasMoved = rfb.hasMoved
  BY <1>4, <1>6, <1>7, SendMouseIs
<1>9. /\ rfb' \in Rfb /\ rfb'.timer = FALSE /\ rfb'.mask = rfb.mask
      /\ rfb'.sent.mask = Cut(rfb.mask) /\ rfb'.sent.pos = rfb'.want
      /\ rfb'.dragging = rfb.dragging /\ rfb'.hasMoved = rfb.hasMoved
  BY <1>1, <1>4, <1>5, <1>7, <1>8 DEF Rfb
<1>10. Good(rfb', open')
  BY <1>2, <1>3, <1>9, CutIs DEF Good, Caught, MasksFit
<1>11. Good(rfb, open)'
  BY <1>1, <1>10, GoodHere
<1>12. Hands'
  BY <1>1, <1>2, <1>3 DEF Hands
<1>13. PointerTypeOK'
  BY <1>1, <1>2, <1>3, <1>9 DEF GInv, PointerTypeOK
<1> QED BY <1>2, <1>3, <1>11, <1>12, <1>13 DEF PInv

LEMMA LeaveStep ==
    ASSUME PInv, Leave
    PROVE  PInv'
<1>1. /\ Detach /\ attached' = FALSE /\ rfb' = [rfb EXCEPT !.timer = FALSE]
      /\ UNCHANGED <<buttons, inside, captured, chord, mode>>
  BY DEF Leave, Detach
<1>2. GInv'
  BY <1>1, DetachStep DEF PInv
<1>3. rfb' \in Rfb
  BY <1>1 DEF PInv, PointerTypeOK, Rfb
<1> QED BY <1>1, <1>2, <1>3 DEF PInv, PointerTypeOK, GInv, Mode

LEMMA PInvInit == Init => PInv
<1> SUFFICES ASSUME Init PROVE PInv
  OBVIOUS
<1>1. GInv /\ Mode
  BY GInvInit DEF Init, Mode
<1>2. PICK q \in Points : q = CHOOSE x \in Points : TRUE
  BY PointerAssumption
<1>3. rfb \in Rfb /\ rfb.mask = {} /\ rfb.sent.mask = {} /\ Caught(rfb) /\ ~rfb.dragging /\ ~rfb.hasMoved
  BY <1>2 DEF Init, RfbInit, Rfb, Caught
<1>4. buttons = {} /\ Mask(buttons) = {} /\ open = "none"
  BY DEF Init, GInit, Mask
<1>5. Good(rfb, open) /\ Hands
  BY <1>3, <1>4, CutIs DEF Good, Hands, MasksFit, Holding
<1>6. PointerTypeOK
  BY <1>1, <1>3, <1>4 DEF PointerTypeOK, GInv, Init
<1> QED BY <1>1, <1>5, <1>6 DEF PInv

(* An event of a gesture that holds a button belongs to it, and is no start. *)
LEMMA EventsAreOwn == EventsFit => OwnEventsOnly
<1> SUFFICES ASSUME EventsFit, open \in Holding, NEW i \in DOMAIN emitted'
             PROVE  emitted'[i].gesture = open /\ emitted'[i].type # "gesturestart"
  BY DEF OwnEventsOnly
<1>1. CASE emitted' = <<>>
  BY <1>1
<1>2. CASE emitted' # <<>>
  <2>1. PICK type \in {"gesturemove", "gestureend"} : emitted' = <<Event(type, open)>>
    BY <1>2 DEF EventsFit
  <2>2. emitted'[i] = Event(type, open)
    BY <2>1
  <2> QED BY <2>2 DEF Event
<1> QED BY <1>1, <1>2

LEMMA PInvNext ==
    ASSUME PInv, [Next]_vars
    PROVE  PInv' /\ [OwnEventsOnly]_vars
<1>0. GInv
  BY DEF PInv
<1>1. CASE WithGestures(Touch)
  <2>1. Touch => GInv' /\ EventsFit /\ attached /\ attached' = attached
    BY <1>0, TouchStep, AttachedSteps
  <2> QED BY <1>1, <2>1, GestureStep, EventsAreOwn DEF WithGestures
<1>2. CASE WithGestures(LongpressTimeout)
  <2>1. LongpressTimeout => GInv' /\ EventsFit /\ attached /\ attached' = attached
    BY <1>0, LongpressTimeoutStep, AttachedSteps
  <2> QED BY <1>2, <2>1, GestureStep, EventsAreOwn DEF WithGestures
<1>3. CASE WithGestures(TwoTouchTimeout)
  <2>1. TwoTouchTimeout => GInv' /\ EventsFit /\ attached /\ attached' = attached
    BY <1>0, TwoTouchTimeoutStep, AttachedSteps
  <2> QED BY <1>3, <2>1, GestureStep, EventsAreOwn DEF WithGestures
<1>4. CASE WithGestures(Tick)
  <2>1. Tick => GInv' /\ EventsFit /\ attached /\ attached' = attached
    BY <1>0, TickStep, AttachedSteps
  <2> QED BY <1>4, <2>1, GestureStep, EventsAreOwn DEF WithGestures
<1>5. CASE Mouse
  BY <1>0, <1>5, MouseStep, NoTouchStep, EventsAreOwn DEF Mouse
<1>6. CASE DelayedMove
  BY <1>0, <1>6, DelayedMoveStep, NoTouchStep, EventsAreOwn DEF DelayedMove
<1>7. CASE Leave
  BY <1>0, <1>7, LeaveStep, DetachStep, EventsAreOwn DEF Leave
<1>8. CASE UNCHANGED vars
  <2>1. UNCHANGED <<gvars, pvars>>
    BY <1>8 DEF vars
  <2>2. GInv'
    BY <1>0, <2>1, SameGestures DEF gvars
  <2>3. UNCHANGED <<rfb, buttons, inside, captured, chord, mode, open, attached>>
    BY <2>1 DEF gvars, pvars
  <2>4. attached' => Good(rfb, open)'
    BY <2>3, GoodHere DEF PInv
  <2>5. attached' => Hands'
    BY <2>3 DEF PInv, Hands
  <2>6. Mode' /\ PointerTypeOK'
    BY <2>2, <2>3 DEF PInv, Mode, PointerTypeOK, GInv
  <2> QED BY <1>8, <2>2, <2>4, <2>5, <2>6 DEF PInv
<1> QED BY <1>1, <1>2, <1>3, <1>4, <1>5, <1>6, <1>7, <1>8 DEF Next

-----------------------------------------------------------------------------
(* What always holds.                                                        *)

LEMMA PInvIsInvariant == Spec => []PInv
<1>1. Init => PInv
  BY PInvInit
<1>2. PInv /\ [Next]_vars => PInv'
  BY PInvNext
<1> QED BY <1>1, <1>2, PTL DEF Spec

LEMMA BookkeepingHolds == PInv => GestureBookkeeping
<1> SUFFICES ASSUME PInv, attached
             PROVE  /\ longpress => ~Detected
                    /\ twoTouch = "armed" => tracked # <<>>
                    /\ down = Active \cup ignored /\ Active \cap ignored = {}
                    /\ down = {} => /\ state = Gesture /\ tracked = <<>> /\ ~waitingRelease
                                   /\ ~longpress /\ twoTouch # "armed"
  BY DEF GestureBookkeeping
<1>1. GType /\ Fingers /\ Timers
  BY DEF PInv, GInv
<1>2. longpress => ~Detected
  BY <1>1, DetectedHere DEF Timers, Single
<1>3. ASSUME down = {}
      PROVE  /\ state = Gesture /\ tracked = <<>> /\ ~waitingRelease
             /\ ~longpress /\ twoTouch # "armed"
  <2>1. Active = {} /\ ignored = {}
    BY <1>1, <1>3 DEF Fingers
  <2>2. tracked = <<>>
    <3>1. ASSUME NEW i \in DOMAIN tracked, tracked[i].active PROVE FALSE
      <4>1. tracked[i].id \in Active
        BY <3>1 DEF Active
      <4> QED BY <2>1, <4>1
    <3> QED BY <1>1, <3>1 DEF Fingers
  <2>3. Len(tracked) # 1
    BY <2>2
  <2> QED BY <1>1, <2>1, <2>2, <2>3 DEF Fingers, Timers
<1> QED BY <1>1, <1>2, <1>3 DEF Fingers, Timers

LEMMA ButtonsAreReal == PInv => ServerButtonsReal
<1> SUFFICES ASSUME PInv, attached, ~chord
             PROVE  /\ open \notin Holding /\ ~(mode.dragViewport /\ "mouse" \in mode.device) =>
                          rfb.sent.mask \subseteq Mask(buttons)
                    /\ ~mode.dragViewport /\ mode.device = {"mouse"} =>
                          rfb.sent.mask = Mask(buttons) \ (IF mode.extended THEN {} ELSE {7, 8})
                    /\ open \in Holding /\ ~mode.dragViewport /\ mode.device = {"touch"} => rfb.sent.mask # {}
  BY DEF ServerButtonsReal
<1>1. Promised => MasksFit(rfb, open, buttons)
  BY DEF PInv, Good
<1>2. Cut(Mask(buttons)) = Mask(buttons) \ (IF mode.extended THEN {} ELSE {7, 8})
  BY DEF Cut
<1> QED BY <1>1, <1>2 DEF Promised, MasksFit

(* GestureHandler: no timer of it finds a state that it throws in, every     *)
(* finger on the screen is tracked or ignored, and when the last is lifted   *)
(* the handler is as it was at first.                                        *)
THEOREM GesturesKeptInOrder == Spec => []GestureBookkeeping
BY PInvIsInvariant, BookkeepingHolds, PTL

(* GestureHandler and _handleGesture: a drag or a long press that was begun  *)
(* gets its own moves and its own end, and no second start, before anything  *)
(* else is dispatched.                                                       *)
THEOREM HeldGesturesEnd == Spec => HeldGestureEnds
<1>1. PInv /\ [Next]_vars => [OwnEventsOnly]_vars
  BY PInvNext
<1> QED BY <1>1, PInvIsInvariant, PTL DEF Spec, HeldGestureEnds

(* rfb.js: the server holds no button that the user does not, for any set of *)
(* devices; with both a mouse and fingers too, which no run enumerates.      *)
THEOREM NoStuckButtons == Spec => []ServerButtonsReal
BY PInvIsInvariant, ButtonsAreReal, PTL

(* rfb.js: without a delayed move that is pending, the server has the last   *)
(* position of the pointer.                                                  *)
THEOREM LastPositionSent == Spec => []PointerCatchesUp
<1>1. PInv => PointerCatchesUp
  BY DEF PInv, Good, Caught, PointerCatchesUp
<1> QED BY <1>1, PInvIsInvariant, PTL
=============================================================================
