----------------------------- MODULE RfbStream ------------------------------
(***************************************************************************)
(* The messages of a connected session: the receive queue of websock.js,   *)
(* _normalMsg and _framebufferUpdate of rfb.js with every rectangle type,  *)
(* the decoders of core/decoders, and the Display they draw on.  A unit of *)
(* the stream is a field the code reads in one go; the channel may cut     *)
(* between any two.  The server is a legal one (external), and answers one *)
(* update request with one update until continuous updates are on.         *)
(* A handler runs to its end: `at` is "msg" while it does.                 *)
(***************************************************************************)
EXTENDS Display, FiniteSets

CONSTANTS Encodings,   \* rectangle types the server uses
          Messages,    \* other messages the server sends
          MaxRects,    \* bound: rectangles of all updates together
          MaxMsgs      \* bound: messages

\* The rectangle types and the messages the client knows, but for updates and the mark of the last rectangle.
ASSUME StreamAssumption ==
    /\ Encodings \subseteq {"raw", "copy", "rre", "hextile", "zlib", "zrle", "tight", "jpeg", "h264", "cursor",
                            "vmcursor", "name", "screens", "led", "size", "keys", "buttons"}
    /\ Messages \subseteq {"bell", "xvp", "fence", "cuttext", "endofcontinuous"}

VARIABLES
    p,      \* parser: _FBU, _flushing, and what the decoders keep between calls
    q,      \* receive queue of the Websock, from _rQi to _rQlen
    wire,   \* units on their way
    at,     \* "idle", or "msg" in the loop of _handleMessage
    srv     \* the server: requests to answer, messages and rectangles sent, JPEG tables sent;
            \* lost: updates of the server that the client will never follow with a request (history)

vars == <<d, p, q, wire, at, srv>>

\* A unit: what it is, the choice it carries, and the number it carries.
U(t, v)    == [t |-> t, v |-> v, n |-> 0]
N(t, n)    == [t |-> t, v |-> "", n |-> n]
Many(n, t) == [i \in 1..n |-> N(t, 0)]

PInit == [rects    |-> 0,      \* _FBU.rects
          rect     |-> <<>>,   \* _FBU.encoding with the size of the rectangle; <<>> is null
          frame    |-> 0,      \* updates begun
          flushing |-> FALSE,  \* _flushing
          cont     |-> FALSE,  \* _enabledContinuousUpdates
          left     |-> 0,      \* _lines, _subrects or _tiles
          rawtile  |-> FALSE,  \* _lastsubencoding of Hextile was Raw
          length   |-> FALSE,  \* _length (Zlib, ZRLE) or _len (Tight) is known
          ctl      |-> "",     \* Tight: _ctl
          filter   |-> "",     \* Tight: _filter
          colors   |-> 0,      \* Tight: _numColors
          segs     |-> {},     \* JPEG: kinds of segments read
          tables   |-> FALSE,  \* JPEG: tables cached
          h264     |-> FALSE]  \* H.264: a configured decoder for the rectangle

-----------------------------------------------------------------------------
(* What a server sends (external).  A rectangle's size is 0 (empty), 1 or 2. *)

Rect(enc, size, body) == <<[t |-> "rect", v |-> enc, n |-> size]>> \o body
Tiles == { <<U("tile", "blank")>>, <<U("tile", "raw"), N("pixels", 0)>>, <<U("tile", "colour"), N("pixels", 0)>>,
           <<U("tile", "subrects"), N("count", 1), N("subrect", 0)>> }
Block(size) == IF size = 1 THEN <<N("pixels", 0)>> ELSE <<N("length", 0), N("data", 0)>>
Segment(s) == <<U("segment", s), N("seglen", 0), N("segdata", 0)>>
Jpeg(tables) == <<U("segment", "start")>> \o (IF tables THEN Segment("tables") ELSE <<>>) \o Segment("frame")
                  \o Segment("scan") \o <<N("entropy", 0), U("segment", "end")>>

Rects(enc) ==
    CASE enc = "raw"     -> {Rect(enc, n, Many(n, "line")) : n \in 0..2}
      [] enc = "copy"    -> {Rect(enc, n, <<N("source", 0)>>) : n \in 0..1}
      [] enc = "rre"     -> {Rect(enc, 1, <<N("count", n)>> \o Many(n, "subrect")) : n \in 0..2}
      [] enc = "hextile" -> {Rect(enc, 1, s) : s \in Tiles} \cup {Rect(enc, 2, s \o s) : s \in Tiles}
      [] enc = "zlib"    -> {Rect(enc, 0, <<>>), Rect(enc, 2, Block(2))}
      [] enc = "zrle"    -> {Rect(enc, n, Block(2)) : n \in {0, 2}}
      [] enc = "tight"   -> {Rect(enc, 1, <<U("ctl", "fill"), N("pixels", 0)>>),
                             Rect(enc, 2, <<U("ctl", "jpeg")>> \o Block(2)),
                             Rect(enc, 0, <<U("ctl", "basic")>>)}
                             \cup {Rect(enc, n, <<U("ctl", "basic")>> \o Block(n)) : n \in 1..2}
                             \cup {Rect(enc, n, <<U("ctl", "filter"), U("filter", "copy")>> \o Block(n)) : n \in 1..2}
                             \cup {Rect(enc, n, <<U("ctl", "filter"), U("filter", "palette"), N("colors", 0),
                                                  N("palette", 0)>> \o Block(n)) : n \in 1..2}
      [] enc = "jpeg"    -> {Rect(enc, 1, Jpeg(tables)) : tables \in {TRUE} \cup {~srv.tables}}
      [] enc = "h264"    -> {Rect(enc, 1, <<U("h264", f)>> \o (IF f = "empty" THEN <<>> ELSE <<N("data", 0)>>)) :
                                f \in {"key", "delta", "reset", "empty"}}
      [] enc = "cursor"  -> {Rect(enc, 1, <<N("data", 0)>>)}
      [] enc = "vmcursor" -> {Rect(enc, 1, <<N("cursor", 0), N("data", 0)>>)}
      [] enc = "name"    -> {Rect(enc, 1, <<N("length", 0), N("data", 0)>>)}
      [] enc = "screens" -> {Rect(enc, n, <<N("screens", n)>> \o Many(n, "screen")) : n \in 1..2}
      [] enc = "led"     -> {Rect(enc, 1, <<N("leds", 0)>>)}
      [] OTHER           -> {Rect(enc, 1, <<>>)}      \* "size", "keys", "buttons"

Message(m) ==
    CASE m = "cuttext" -> {<<U("type", m), U("header", "text"), N("text", 0)>>}
                            \cup {<<U("type", m), U("header", "extended"), U("flags", f)>>
                                    \o (IF f = "request" THEN <<>> ELSE <<N("text", 0)>>) : f \in {"caps", "request", "provide"}}
      [] m = "fence"   -> {<<U("type", m), U("header", "fence"), N("payload", 0)>>}
      [] m = "xvp"     -> {<<U("type", m), N("version", 0)>>}
      [] OTHER         -> {<<U("type", m)>>}          \* "bell", "endofcontinuous"

Send(units) == /\ wire' = wire \o units
               /\ UNCHANGED <<d, p, q, at>>
HasTables(units) == \E i \in DOMAIN units : units[i] = U("segment", "tables")

\* One rectangle, two, or a marked last one in an update of unknown length.
ServerUpdates ==
    /\ srv.asked > 0 \/ p.cont
    /\ srv.msgs < MaxMsgs /\ Len(wire) < 3
    /\ \E n \in 1..2 : \E e1 \in Encodings, e2 \in (IF n = 1 THEN {"last"} ELSE Encodings) :
         \E r1 \in Rects(e1), r2 \in (IF n = 1 THEN {<<>>, Rect("last", 1, <<>>)} ELSE Rects(e2)) :
           /\ srv.rects + n <= MaxRects
           /\ srv' = [srv EXCEPT !.msgs = @ + 1, !.rects = @ + n, !.asked = IF p.cont THEN @ ELSE @ - 1,
                                 !.tables = @ \/ HasTables(r1 \o r2)]
           /\ Send(<<U("type", "update"), N("rects", IF r2 # <<>> /\ n = 1 THEN 3 ELSE n)>> \o r1 \o r2)

\* Nothing has changed: an update of no rectangles, or of the mark alone.
ServerEmptyUpdate ==
    /\ srv.asked > 0 \/ p.cont
    /\ srv.msgs < MaxMsgs /\ Len(wire) < 3
    /\ srv' = [srv EXCEPT !.msgs = @ + 1, !.asked = IF p.cont THEN @ ELSE @ - 1]
    /\ \E mark \in {<<>>, Rect("last", 1, <<>>)} :
         Send(<<U("type", "update"), N("rects", IF mark = <<>> THEN 0 ELSE 3)>> \o mark)

ServerMessage ==
    /\ srv.msgs < MaxMsgs /\ Len(wire) < 3
    /\ \E m \in Messages : \E units \in Message(m) :
         /\ m = "endofcontinuous" => ~srv.ends
         /\ srv' = [srv EXCEPT !.msgs = @ + 1, !.ends = @ \/ m = "endofcontinuous"]
         /\ Send(units)

-----------------------------------------------------------------------------
(* Reading.  Has(n) is ~rQwait; Back(n, g) is a wait that puts g fields back. *)

Has(n) == Len(q) >= n
Wait   == at' = "idle" /\ UNCHANGED <<d, p, q, wire, srv>>
Read(n, x, y) ==
    /\ q' = SubSeq(q, n + 1, Len(q)) /\ p' = x /\ d' = y
    /\ UNCHANGED <<at, wire, srv>>
\* Faulty variant: the wait for a body forgets to put the header back.
BackLess(read, goback) ==
    /\ at' = "idle" /\ q' = SubSeq(q, read + 1, Len(q)) /\ UNCHANGED <<d, p, wire, srv>>
Back(read, goback) ==
    /\ at' = "idle"
    /\ q' = SubSeq(q, read - goback + 1, Len(q))
    /\ UNCHANGED <<d, p, wire, srv>>

\* A header of h fields and a body of b, put back together when the body has not come.
WaitsFor(h, b) == \/ ~Has(h) /\ Wait
                  \/ Has(h) /\ ~Has(h + b) /\ Back(h, h)

NextMessage == IF q' = <<>> THEN "idle" ELSE "msg"

\* _normalMsg asks for the next update, unless they come by themselves.
Asking(x) == IF x.cont THEN srv ELSE [srv EXCEPT !.asked = @ + 1]

\* decodeRect returned true: the next rectangle, or flip and the request for the next update.
Done(n, x, y) ==
    LET last == x.rects = 1 IN
    /\ q' = SubSeq(q, n + 1, Len(q))
    /\ p' = [x EXCEPT !.rects = @ - 1, !.rect = <<>>]
    /\ d' = IF last THEN Flip(y) ELSE y
    /\ srv' = IF last THEN Asking(x) ELSE srv
    /\ at' = IF last THEN NextMessage ELSE "msg"
    /\ UNCHANGED wire

In(enc) == at = "msg" /\ p.rect # <<>> /\ p.rect[1] = enc
Size    == p.rect[2]
Drawn   == Draw(d, p.frame)
Queued  == Image(d, p.frame)

-----------------------------------------------------------------------------
(* Messages. *)

Handles(m) == at = "msg" /\ p.rects = 0 /\ ~p.flushing /\ q # <<>> /\ q[1].v = m

\* The header of an update; while the display has something queued, the rest waits for its flush.  Of no
\* rectangles nothing is left to resume: the next message is read, without a flip and without a request.
UpdateBegins ==
    /\ q' = SubSeq(q, 3, Len(q))
    /\ p' = [p EXCEPT !.rects = q[2].n, !.frame = @ + 1, !.flushing = Pending(d)]
    /\ \/ /\ Pending(d)
          /\ d' = Flush(d) /\ at' = "idle"
          /\ srv' = IF q[2].n = 0 /\ ~p.cont THEN [srv EXCEPT !.lost = @ + 1] ELSE srv
       \/ ~Pending(d) /\ q[2].n > 0 /\ at' = "msg" /\ UNCHANGED <<d, srv>>
       \/ ~Pending(d) /\ q[2].n = 0 /\ d' = Flip(d) /\ srv' = Asking(p) /\ at' = NextMessage
    /\ UNCHANGED wire
UpdateHeader ==
    /\ Handles("update")
    /\ \/ ~Has(2) /\ Wait
       \/ Has(2) /\ UpdateBegins

\* Faulty variant: what has come meanwhile waits for the next chunk.
FlushedStays ==
    /\ at = "idle" /\ d.flush = "resolved"
    /\ d' = [d EXCEPT !.flush = "none"]
    /\ p' = [p EXCEPT !.flushing = FALSE]
    /\ UNCHANGED <<q, wire, at, srv>>

\* flush().then(): the loop goes on with what has come meanwhile.
Flushed ==
    /\ at = "idle" /\ d.flush = "resolved"
    /\ d' = [d EXCEPT !.flush = "none"]
    /\ p' = [p EXCEPT !.flushing = FALSE]
    /\ at' = IF q = <<>> THEN "idle" ELSE "msg"
    /\ UNCHANGED <<q, wire, srv>>

\* A message that is whole, with the header fields it puts back otherwise.
Message1(m, n) ==
    /\ Handles(m)
    /\ \/ ~Has(n) /\ Wait
       \/ /\ Has(n)
          /\ q' = SubSeq(q, n + 1, Len(q))
          /\ at' = NextMessage
          /\ UNCHANGED <<d, p, wire, srv>>

Bell == Message1("bell", 1)
Xvp  == Message1("xvp", 2)

ServerFence ==
    /\ Handles("fence")
    /\ WaitsFor(2, 1) \/ (Has(3) /\ Message1("fence", 3))

\* Text, and the extended messages: caps and provide read on after the flags, request does not.
ServerCutText ==
    /\ Handles("cuttext")
    /\ \/ WaitsFor(2, IF Has(2) /\ Has(3) /\ q[2].v = "extended" /\ q[3].v # "request" THEN 2 ELSE 1)
       \/ /\ Has(3) /\ (q[2].v = "text" \/ q[3].v = "request")
          /\ Message1("cuttext", 3)
       \/ /\ Has(4) /\ q[2].v = "extended" /\ q[3].v # "request"
          /\ Message1("cuttext", 4)

\* The server's first EndOfContinuousUpdates says that it knows them: they are turned on.
EndOfContinuousUpdates ==
    /\ Handles("endofcontinuous")
    /\ q' = Tail(q)
    /\ p' = [p EXCEPT !.cont = TRUE]
    /\ at' = NextMessage
    /\ UNCHANGED <<d, wire, srv>>

RectHeader ==
    /\ at = "msg" /\ p.rects > 0 /\ p.rect = <<>>
    /\ \/ ~Has(1) /\ Wait
       \/ Has(1) /\ Read(1, [p EXCEPT !.rect = <<q[1].v, q[1].n>>], d)

-----------------------------------------------------------------------------
(* Rectangles that are not pictures, and those of one field. *)

\* Faulty variant: an update that ends with a mark asks for no other one.
LastRectOne == In("last") /\ Read(0, [p EXCEPT !.rects = 0, !.rect = <<>>], d)
\* The number of rectangles was not known: this was the last one.
LastRect == In("last") /\ Done(0, [p EXCEPT !.rects = 1], d)
Flags    == (In("size") \/ In("keys") \/ In("buttons")) /\ Done(0, p, IF In("size") THEN Flip(d) ELSE d)
OneField ==
    /\ In("cursor") \/ In("led") \/ In("copy")
    /\ \/ ~Has(1) /\ Wait
       \/ Has(1) /\ Done(1, p, IF In("copy") /\ Size > 0 THEN Drawn ELSE d)

\* A length, or a type, that is put back when what it announces has not come.
TwoFields ==
    /\ In("name") \/ In("vmcursor")
    /\ WaitsFor(1, 1) \/ (Has(2) /\ Done(2, p, d))

\* The screens are counted without being read; the resize flips.
ExtendedDesktopSize ==
    /\ In("screens")
    /\ \/ ~(Has(1) /\ Has(1 + q[1].n)) /\ Wait
       \/ Has(1) /\ Has(1 + q[1].n) /\ Done(1 + q[1].n, p, Flip(d))

(* Decoders that count what is left: a step reads one line, subrectangle or tile. *)

Raw ==
    /\ In("raw")
    /\ \/ Size = 0 /\ Done(0, p, d)
       \/ /\ Size > 0
          /\ LET left == IF p.left = 0 THEN Size ELSE p.left
                 x    == [p EXCEPT !.left = left - 1]
             IN \/ /\ ~Has(1)
                   /\ p' = [p EXCEPT !.left = left]
                   /\ at' = "idle" /\ UNCHANGED <<d, q, wire, srv>>
                \/ Has(1) /\ left > 1 /\ Read(1, x, Drawn)
                \/ Has(1) /\ left = 1 /\ Done(1, x, Drawn)

RRE ==
    /\ In("rre")
    /\ \/ ~Has(1) /\ Wait
       \/ /\ Has(1) /\ p.left = 0
          /\ IF q[1].n = 0 THEN Done(1, p, Drawn) ELSE Read(1, [p EXCEPT !.left = q[1].n], Drawn)
       \/ Has(1) /\ p.left > 1 /\ Read(1, [p EXCEPT !.left = @ - 1], Drawn)
       \/ Has(1) /\ p.left = 1 /\ Done(1, [p EXCEPT !.left = 0], Drawn)

TileLength ==
    CASE q[1].v = "blank"    -> 1
      [] q[1].v = "subrects" -> IF Has(2) THEN 2 + q[2].n ELSE 2
      [] OTHER               -> 2
\* The subencoding, and the number of subrectangles, are peeked at; a tile is read whole.
\* A blank tile after a raw one draws nothing.
Hextile ==
    /\ In("hextile")
    /\ LET left == IF p.left = 0 THEN Size ELSE p.left
           x    == [p EXCEPT !.left = left - 1, !.rawtile = q[1].v = "raw"]
           y    == IF q[1].v = "blank" /\ p.rawtile THEN d ELSE Drawn
       IN \/ /\ ~(Has(1) /\ Has(TileLength))
             /\ p' = [p EXCEPT !.left = left]
             /\ at' = "idle" /\ UNCHANGED <<d, q, wire, srv>>
          \/ Has(1) /\ Has(TileLength) /\ left > 1 /\ Read(TileLength, x, y)
          \/ Has(1) /\ Has(TileLength) /\ left = 1 /\ Done(TileLength, x, y)

(* Decoders that remember the length of the data. *)

Inflates(x, y) ==
    \/ ~p.length /\ ~Has(1) /\ Wait
    \/ ~p.length /\ Has(1) /\ Read(1, [p EXCEPT !.length = TRUE], d)
    \/ p.length /\ ~Has(1) /\ Wait
    \/ p.length /\ Has(1) /\ Done(1, [x EXCEPT !.length = FALSE], y)

Zlib == In("zlib") /\ ((Size = 0 /\ Done(0, p, d)) \/ (Size > 0 /\ Inflates(p, Drawn)))
ZRLE == In("zrle") /\ Inflates(p, IF Size = 0 THEN d ELSE Drawn)

(* Tight: control byte, filter, palette, data. *)

Tight(ctl) == In("tight") /\ p.ctl = ctl
TightCtl ==
    /\ Tight("")
    /\ \/ ~Has(1) /\ Wait
       \/ Has(1) /\ Read(1, [p EXCEPT !.ctl = q[1].v], d)

TightDone(x) == [x EXCEPT !.ctl = "", !.filter = "", !.colors = 0]

TightFill ==
    /\ Tight("fill")
    /\ (~Has(1) /\ Wait) \/ (Has(1) /\ Done(1, TightDone(p), Drawn))
TightJpeg == Tight("jpeg") /\ Inflates(TightDone(p), Queued)

\* The filter of the rectangle: sent, or implied by the control byte.
TightFilter ==
    /\ p.filter = ""
    /\ \/ Tight("basic") /\ Read(0, [p EXCEPT !.filter = "copy"], d)
       \/ Tight("filter") /\ ~Has(1) /\ Wait
       \/ Tight("filter") /\ Has(1) /\ Read(1, [p EXCEPT !.filter = q[1].v], d)

TightPalette ==
    /\ Tight("filter") /\ p.filter = "palette" /\ p.colors = 0
    /\ \/ ~Has(2) /\ Wait
       \/ Has(2) /\ Read(2, [p EXCEPT !.colors = 2], d)

\* Pixels of fewer than 12 bytes come as they are, others deflated.
TightPixels ==
    /\ Tight("basic") \/ Tight("filter")
    /\ p.filter = "copy" \/ (p.filter = "palette" /\ p.colors > 0)
    /\ \/ Size = 0 /\ Done(0, TightDone(p), d)
       \/ Size = 1 /\ ~Has(1) /\ Wait
       \/ Size = 1 /\ Has(1) /\ Done(1, TightDone(p), Drawn)
       \/ Size = 2 /\ Inflates(TightDone(p), Drawn)

(* JPEG: segments up to the end of the image; a scan ends where the next marker is seen. *)

SegmentLength == CASE q[1].v \in {"start", "end"} -> 1
                   [] q[1].v = "scan"             -> 4
                   [] OTHER                       -> 3
Jpegs ==
    /\ In("jpeg")
    /\ \/ ~(Has(1) /\ Has(SegmentLength + IF q[1].v = "scan" THEN 1 ELSE 0)) /\ Wait
       \/ /\ Has(1) /\ Has(SegmentLength + IF q[1].v = "scan" THEN 1 ELSE 0) /\ q[1].v # "end"
          /\ Read(SegmentLength, [p EXCEPT !.segs = @ \cup {q[1].v}], d)
       \/ /\ Has(1) /\ q[1].v = "end"
          /\ Done(1, [p EXCEPT !.segs = {}, !.tables = @ \/ "tables" \in p.segs],
                  IF p.tables \/ "tables" \in p.segs THEN Queued ELSE d)

\* H.264: without a key frame there is nothing to decode; a reset forgets the decoder.
H264 ==
    /\ In("h264")
    /\ \/ ~Has(1) /\ Wait
       \/ Has(1) /\ q[1].v = "empty" /\ Done(1, p, d)
       \/ Has(1) /\ q[1].v # "empty" /\ ~Has(2) /\ Back(1, 1)
       \/ /\ Has(2) /\ q[1].v # "empty"
          /\ LET known == q[1].v = "key" \/ (p.h264 /\ q[1].v # "reset")
             IN Done(2, [p EXCEPT !.h264 = known], IF known THEN Queued ELSE d)

-----------------------------------------------------------------------------
\* _recvMessage with a chunk of any length, then _handleMessage.
Receive ==
    /\ at = "idle"
    /\ \E n \in 1..Len(wire) :
         /\ q' = q \o SubSeq(wire, 1, n)
         /\ wire' = SubSeq(wire, n + 1, Len(wire))
    /\ at' = IF p.flushing THEN "idle" ELSE "msg"
    /\ UNCHANGED <<d, p, srv>>

\* An image or a video frame is decoded, in any order.
ImageLoads ==
    /\ at = "idle"
    /\ \E i \in DOMAIN d.q : ~d.q[i].ready /\ d' = Loaded(d, i)
    /\ UNCHANGED <<p, q, wire, at, srv>>

HandleRect ==
    \/ LastRect \/ Flags \/ OneField \/ TwoFields \/ ExtendedDesktopSize \/ Raw \/ RRE \/ Hextile \/ Zlib
    \/ ZRLE \/ TightCtl \/ TightFill \/ TightJpeg \/ TightFilter \/ TightPalette \/ TightPixels \/ Jpegs \/ H264

HandleMessage ==
    \/ UpdateHeader \/ Bell \/ Xvp \/ ServerFence \/ ServerCutText \/ EndOfContinuousUpdates
    \/ RectHeader \/ HandleRect

\* The session has just sent its first update request.
Init ==
    /\ d = DInit /\ p = PInit /\ q = <<>> /\ wire = <<>> /\ at = "idle"
    /\ srv = [asked |-> 1, msgs |-> 0, rects |-> 0, tables |-> FALSE, ends |-> FALSE, lost |-> 0]

Next == HandleMessage \/ Receive \/ Flushed \/ ImageLoads \/ ServerUpdates \/ ServerEmptyUpdate \/ ServerMessage

Fairness == WF_vars(HandleMessage) /\ WF_vars(Receive) /\ WF_vars(Flushed) /\ WF_vars(ImageLoads)
Spec == Init /\ [][Next]_vars /\ Fairness
-----------------------------------------------------------------------------
\* What the parser is about to read, from what it has kept.
TightField ==
    IF p.ctl = "" THEN {"ctl"}
    ELSE IF p.length THEN {"data"}
    ELSE IF p.ctl = "filter" /\ p.filter = "" THEN {"filter"}
    ELSE IF p.filter = "palette" /\ p.colors = 0 THEN {"colors"} ELSE {"pixels", "length"}
RectField ==
    LET enc == p.rect[1] IN
    CASE enc = "raw"      -> {"line"}
      [] enc = "rre"      -> IF p.left = 0 THEN {"count"} ELSE {"subrect"}
      [] enc = "hextile"  -> {"tile"}
      [] enc = "jpeg"     -> {"segment"}
      [] enc \in {"zlib", "zrle"} -> IF p.length THEN {"data"} ELSE {"length"}
      [] enc = "tight"    -> TightField
      [] enc = "cursor"   -> {"data"}
      [] enc = "vmcursor" -> {"cursor"}
      [] enc = "led"      -> {"leds"}
      [] enc = "copy"     -> {"source"}
      [] enc = "name"     -> {"length"}
      [] OTHER            -> {enc}                   \* "screens", "h264"
Expected == IF p.rects = 0 THEN {"type"} ELSE IF p.rect = <<>> THEN {"rect"} ELSE RectField
Bodyless == p.rect # <<>> /\ (p.rect[1] \in {"last", "size", "keys", "buttons"} \/ (p.rect[2] = 0 /\ p.rect[1] \in {"raw", "zlib", "tight"}))

\* However the channel cuts the stream and however often a decoder starts over, the parser stands where
\* the server began a field of the kind it is about to read.
Aligned == q # <<>> /\ ~Bodyless => q[1].t \in Expected

\* When the handlers are done and nothing is on the way, all that came has been used: no complete message
\* waits in the queue for the next one to push it.
ArrivedIsHandled == at = "idle" /\ wire = <<>> /\ ~p.flushing => q = <<>> /\ p.rects = 0

Updates(s) == Cardinality({i \in DOMAIN s : s[i] = U("type", "update")})

Outstanding == srv.asked + Updates(wire) + Updates(q) + (IF p.rects > 0 THEN 1 ELSE 0)

\* Without continuous updates, the client never has two requests under way, and it has none at all only
\* after an update of no rectangles that found the display busy: otherwise exactly one waits for the
\* answer, or its answer is on its way or is being read.
OneUpdateAsked == ~p.cont /\ ~srv.ends => Outstanding + srv.lost = 1

\* An update that waited for the display is processed when the flush resumes the parser (rfb.js:2630
\* "Resume processing"), the request for the next one included: the client always has one under way.
UpdatesGoOn == ~p.cont /\ ~srv.ends => Outstanding = 1

\* An update that waits for the display goes on: every image is drawn and the flush resumes the parser.
FlushEnds == p.flushing ~> ~p.flushing
=============================================================================
