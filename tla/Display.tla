------------------------------ MODULE Display -------------------------------
(***************************************************************************)
(* The render queue of novnc-ui/core/display.js: drawings wait behind an   *)
(* image or a video frame that is not decoded yet, and flip copies the     *)
(* hidden canvas to the visible one.  A drawing is its number in the order *)
(* of the calls, and the frame buffer update it belongs to.                *)
(***************************************************************************)
EXTENDS Integers, Sequences, SequencesExt

VARIABLE d

\* q: _renderQ; back, front: what the hidden and the visible canvas show; flush: _flushPromise;
\* issued, flips: the drawings called for so far, and how many there were at each call of flip.
DInit == [q |-> <<>>, back |-> <<>>, front |-> 0, flush |-> "none", issued |-> 0, flips |-> {0}]

\* What _scanRenderQ does with one action, and the calls that need not wait do at once.
Perform(x, op) ==
    IF op.type = "flip" THEN [x EXCEPT !.front = Len(x.back)]
                        ELSE [x EXCEPT !.back = Append(@, op.id)]

\* The longest run of actions that are ready, in order; then the flush is over if nothing is left.
ScanRenderQ(x) ==
    LET waiting == {i \in DOMAIN x.q : ~x.q[i].ready}
        n == IF waiting = {} THEN Len(x.q) ELSE Min(waiting) - 1
        y == FoldLeft(Perform, x, SubSeq(x.q, 1, n))
    IN [y EXCEPT !.q = SubSeq(@, n + 1, Len(@)),
                 !.flush = IF n = Len(x.q) /\ @ = "waiting" THEN "resolved" ELSE @]

RenderQPush(x, op) ==
    LET y == [x EXCEPT !.q = Append(@, op)]
    IN IF Len(y.q) = 1 THEN ScanRenderQ(y) ELSE y

\* Faulty variant: drawings never wait.
DrawDirect(x, f) == Perform([x EXCEPT !.issued = @ + 1], [type |-> "draw", id |-> x.issued + 1])

\* fillRect, copyImage and blitImage: f is the update that draws.
Draw(x, f) ==
    LET op == [type |-> "draw", id |-> x.issued + 1, of |-> f, ready |-> TRUE]
        y  == [x EXCEPT !.issued = @ + 1]
    IN IF x.q # <<>> THEN RenderQPush(y, op) ELSE Perform(y, op)

\* imageRect and videoFrame: always queued.
Image(x, f) ==
    RenderQPush([x EXCEPT !.issued = @ + 1],
                [type |-> "img", id |-> x.issued + 1, of |-> f, ready |-> FALSE])

Flip(x) ==
    LET op == [type |-> "flip", id |-> 0, of |-> 0, ready |-> TRUE]
        y  == [x EXCEPT !.flips = @ \cup {x.issued}]
    IN IF x.q # <<>> THEN RenderQPush(y, op) ELSE Perform(y, op)

Pending(x) == x.q # <<>>
Flush(x)   == [x EXCEPT !.flush = "waiting"]

\* Faulty variant: the queue is not looked at again.
LoadedUnscanned(x, i) == [x EXCEPT !.q[i].ready = TRUE]

\* The load event of an image, or the promise of a video frame; only the head's is listened to.
Loaded(x, i) ==
    LET y == [x EXCEPT !.q[i].ready = TRUE] IN IF i = 1 THEN ScanRenderQ(y) ELSE y

-----------------------------------------------------------------------------
\* Drawings reach the hidden canvas in the order of the calls, whichever images are decoded first,
\* and a flip shows exactly what had been drawn when it was called: no later drawing, no earlier
\* state (display.js "queue drawing actions for in-oder rendering").
InOrder ==
    /\ \A i \in DOMAIN d.back : d.back[i] = i
    /\ d.front \in d.flips
=============================================================================
