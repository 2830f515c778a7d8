----------------------------- MODULE LandingPage -----------------------------
(***************************************************************************)
(* static/scripts/script.js: the carousel of systems, and the clicks that  *)
(* launch one.  A resize clones slides with their buttons and makes clones *)
(* the real slides; handlers are delegated, and serve clones as well.      *)
(***************************************************************************)
EXTENDS Integers, Sequences

CONSTANTS Total,     \* slides in index.html
          Custom,    \* ... and which of them launches an image of the user's own
          PerViews,  \* values of getSlidesPerView, by the width of the window
          Clicks,    \* bound: launches that are in progress at a time
          MaxActs    \* bound: clicks, choices of a file and changes of perView in one visit

ASSUME LandingAssumption ==
    /\ Total \in Nat /\ Custom \in 1..Total /\ PerViews \subseteq 1..Total /\ MaxActs \in Nat

VARIABLES
    car,    \* the carousel, see CarInit; its track holds slides, see NewSlide
    flows,  \* the click handlers that have not returned, see Free
    dest,   \* the location that was set, or "none"
    acts    \* what counts for MaxActs

lvars == <<car, flows, dest, acts>>

Act == acts < MaxActs /\ acts' = acts + 1

Lesser(a, b) == IF a < b THEN a ELSE b
LastOf(s, n) == SubSeq(s, Len(s) - n + 1, Len(s))

(***************************************************************************)
(* Carousel; indices into track.children count from 0                      *)
(***************************************************************************)

\* A slide of index.html: its number, whether its input has a file, its button, and what
\* of the button may not be what it says (only in this model; see ButtonFollowsFile).
NewSlide(n) == [n |-> n, file |-> FALSE, disabled |-> n = Custom, text |-> "launch", wrong |-> {}]

\* cloneNode copies the file, the attribute and the text as they are, during an upload too.
CloneOf(e, busy) == [e EXCEPT !.wrong = @ \cup IF busy THEN {"state", "text"} ELSE {}]

\* The block of real slides that a rebuild with p slides per view keeps.
Kept(x, p) == p + 1 .. Lesser(p + Total, Len(x.track))

\* From the second call on, that block is cut out with the new perView, although the
\* clones around it, and originalSlides (after the first from), were made with the old one.
SetupClones(x, from, busy) ==
    LET p      == x.per
        clones == [k \in 1..Total |-> CloneOf(x.track[from + k], from + k \in busy)]
        real   == IF Len(x.track) > Total THEN SubSeq(x.track, p + 1, Lesser(p + Total, Len(x.track)))
                  ELSE x.track
    IN [x EXCEPT !.track = LastOf(clones, p) \o real \o SubSeq(clones, 1, p)]

Slide(x) == x.current + 1 \in DOMAIN x.track

JumpTo(x) == IF Slide(x) THEN [x EXCEPT !.pos = x.current] ELSE x
GoTo(x)   == IF Slide(x) /\ ~x.moving THEN [x EXCEPT !.pos = x.current, !.moving = TRUE] ELSE x

CarInit(p) ==
    JumpTo(SetupClones([per |-> p, track |-> [n \in 1..Total |-> NewSlide(n)],
                        current |-> p, pos |-> 0, moving |-> FALSE], 0, {}))

\* Faulty variant: the position is not set back from the clones to the slides.
CheckLoopNever(x) == x

CheckLoop(x) ==
    LET end == Len(x.track) - x.per IN
    CASE x.current >= end  -> JumpTo([x EXCEPT !.current = x.per])
      [] x.current < x.per -> JumpTo([x EXCEPT !.current = end - 1])
      [] OTHER             -> x

\* The arrow buttons.
Arrow(step) ==
    /\ ~car.moving
    /\ car' = GoTo([car EXCEPT !.current = @ + step])
    /\ UNCHANGED <<flows, dest, acts>>

\* transitionend, or transitioncancel after a resize meanwhile.
OnTransitionDone ==
    /\ car.moving
    /\ car' = JumpTo(CheckLoop([car EXCEPT !.moving = FALSE]))
    /\ UNCHANGED <<flows, dest, acts>>

Past(f) == flows[f].kind = "custom" /\ flows[f].stage \in {"upload", "iso"}

\* The slides on which an upload or a launch of an own image is in progress.
Busy == {flows[f].at : f \in {g \in Clicks : Past(g)}}

\* What the input of a handler holds, also when its slide is not in the document any more.
HasFile(f) == IF flows[f].at = 0 THEN flows[f].file ELSE car.track[flows[f].at].file

\* The slides that are kept stay at their index; the handlers of the others go on with
\* elements that nobody sees.
Resize(p) ==
    /\ p # car.per /\ Act
    /\ LET seen    == car.current - car.per
           rebuilt == SetupClones([car EXCEPT !.per = p], car.per, Busy)
           nearest == IF seen < 0 THEN 0 ELSE Lesser(Total - 1, seen)
       IN car' = JumpTo([rebuilt EXCEPT !.current = p + nearest])
    /\ flows' = [f \in Clicks |-> IF flows[f].at \in Kept(car, p) THEN flows[f]
                                  ELSE [flows[f] EXCEPT !.at = 0, !.file = HasFile(f)]]
    /\ UNCHANGED dest

(***************************************************************************)
(* Launches                                                                *)
(***************************************************************************)

\* at: the slide whose button was clicked, by its index from 1; 0 for a system, whose handler
\* leaves the button alone, and for a slide that was removed (then file is what its input holds).
Free == [stage |-> "none", kind |-> "os", text |-> "launch", at |-> 0, file |-> FALSE]

OwnSlides == {i \in DOMAIN car.track : car.track[i].n = Custom}

Update(i, e) == car' = [car EXCEPT !.track[i] = e]

\* A change of a file input.
Change(i, chosen) ==
    /\ Act
    /\ Update(i, [car.track[i] EXCEPT !.file = chosen, !.disabled = ~chosen, !.wrong = @ \ {"state"}])
    /\ UNCHANGED <<flows, dest>>

\* A click; a disabled button dispatches none, those of the systems are never disabled.
Click(f, kind, i) ==
    /\ flows[f].stage = "none" /\ Act
    /\ kind = "os" => i = 0
    /\ kind = "custom" => i \in OwnSlides /\ ~car.track[i].disabled
    /\ flows' = [flows EXCEPT ![f] = [Free EXCEPT !.stage = "auth", !.kind = kind, !.at = i]]
    /\ UNCHANGED <<car, dest>>

Return(f) == flows' = [flows EXCEPT ![f] = Free]

\* The handler's slide, if it is still there, becomes e.
SetSlide(f, e) == IF flows[f].at = 0 THEN UNCHANGED car ELSE Update(flows[f].at, e)

\* ensureAuthOrRedirect has its answer; what the button and the input are by then counts.
AuthAnswered(f, authed) ==
    /\ flows[f].stage = "auth"
    /\ \/ ~authed /\ dest' = "signup" /\ Return(f) /\ UNCHANGED car
       \/ /\ authed /\ flows[f].kind = "os"
          /\ flows' = [flows EXCEPT ![f].stage = "script"] /\ UNCHANGED <<car, dest>>
       \/ /\ authed /\ flows[f].kind = "custom" /\ ~HasFile(f)
          /\ Return(f) /\ UNCHANGED <<car, dest>>
       \/ /\ authed /\ flows[f].kind = "custom" /\ HasFile(f)
          /\ LET e == car.track[flows[f].at] IN
             /\ flows' = [flows EXCEPT ![f] = [@ EXCEPT !.stage = "upload",
                               !.text = IF flows[f].at = 0 THEN "launch" ELSE e.text]]
             /\ SetSlide(f, [e EXCEPT !.disabled = TRUE, !.text = "uploading",
                                      !.wrong = @ \cup IF flows[f].at \in Busy THEN {"text"} ELSE {}])
          /\ UNCHANGED dest
    /\ UNCHANGED acts

\* Faulty variant: only the text is set back.
FinallyTextOnly(f) ==
    /\ Return(f)
    /\ SetSlide(f, [car.track[flows[f].at] EXCEPT !.text = flows[f].text])

\* What the handler of the own image does in the end, however it ends.
Finally(f) ==
    /\ Return(f)
    /\ SetSlide(f, [car.track[flows[f].at] EXCEPT !.disabled = ~HasFile(f), !.text = flows[f].text,
                                                  !.wrong = @ \ {"state"}])

\* The upload succeeds, or fails, runs into its timeout, or is refused with 401.
Uploaded(f, result) ==
    /\ flows[f].stage = "upload"
    /\ \/ /\ result = "ok"
          /\ flows' = [flows EXCEPT ![f].stage = "iso"]
          /\ SetSlide(f, [car.track[flows[f].at] EXCEPT !.text = "launching"]) /\ UNCHANGED dest
       \/ result = "401"   /\ Finally(f) /\ dest' = "signup"
       \/ result = "error" /\ Finally(f) /\ UNCHANGED dest
    /\ UNCHANGED acts

\* runVM for a system: the server may say that it is for run-iso.
ScriptAnswered(f, result) ==
    /\ flows[f].stage = "script"
    /\ \/ result = "iso-only" /\ flows' = [flows EXCEPT ![f].stage = "iso"] /\ UNCHANGED dest
       \/ result = "ok"    /\ Return(f) /\ dest' = "console"
       \/ result = "401"   /\ Return(f) /\ dest' = "signup"
       \/ result = "error" /\ Return(f) /\ UNCHANGED dest
    /\ UNCHANGED <<car, acts>>

\* runVM("custom")
IsoAnswered(f, result) ==
    /\ flows[f].stage = "iso"
    /\ Finally(f)
    /\ dest' = CASE result = "ok" -> "console" [] result = "401" -> "signup" [] OTHER -> dest
    /\ UNCHANGED acts

\* The link of the user menu.
ToProfile == dest' = "profile" /\ UNCHANGED <<car, flows, acts>>

LInit(p) ==
    /\ car = CarInit(p)
    /\ flows = [f \in Clicks |-> Free]
    /\ dest = "none" /\ acts = 0

CarouselNext ==
    \/ \E step \in {-1, 1} : Arrow(step)
    \/ OnTransitionDone
    \/ \E p \in PerViews : Resize(p)

LaunchNext ==
    \/ \E i \in OwnSlides, chosen \in BOOLEAN : Change(i, chosen)
    \/ \E f \in Clicks :
         \/ \E kind \in {"os", "custom"}, i \in {0} \cup OwnSlides : Click(f, kind, i)
         \/ \E authed \in BOOLEAN : AuthAnswered(f, authed)
         \/ \E result \in {"ok", "401", "error"} : Uploaded(f, result) \/ IsoAnswered(f, result)
         \/ \E result \in {"ok", "401", "error", "iso-only"} : ScriptAnswered(f, result)
    \/ ToProfile
-----------------------------------------------------------------------------
\* The carousel always stands at a slide that exists, and it fills the view as long
\* as no slide was lost, whatever arrows, transitions and resizes come in between
\* (setupClones; script.js "start at first *real* slide").
SlidesFill ==
    /\ car.pos = car.current /\ Slide(car)
    /\ Len(car.track) = 2 * car.per + Total => car.current + car.per <= Len(car.track)

Right(e) ==
    /\ "state" \notin e.wrong => e.disabled = ~e.file
    /\ "text" \notin e.wrong => e.text = "launch"

\* On every copy of the own image's slide that no upload or launch has in progress, the
\* button can be clicked exactly when that copy has a file, and it says so, whatever was
\* clicked, chosen and rebuilt meanwhile.  Excepted are copies made of a slide during an
\* upload, until a file is chosen there (their text for good), and the text where a second
\* upload began during the first: it took "Uploading..." for the text to set back
\* (script.js originalText).
ButtonFollowsFile == \A i \in OwnSlides \ Busy : Right(car.track[i])

\* ... and what the comment of script.js says without exception, "EVENT DELEGATION (works
\* for clones)": once nothing is in progress every copy can be used.  The code breaks it.
ClonesWork ==
    Busy = {} => \A i \in OwnSlides : /\ car.track[i].disabled = ~car.track[i].file
                                     /\ car.track[i].text = "launch"
=============================================================================
