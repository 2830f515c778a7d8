---------------------------- MODULE StreamProofs ----------------------------
EXTENDS RfbStream, FiniteSetTheorems, SequenceTheorems, TLAPS

(***************************************************************************)
(* What has been sent and not read yet, field by field.                     *)
(***************************************************************************)
Word   == {"", "type", "rects", "rect", "line", "source", "count", "subrect", "tile", "pixels", "length", "data",
            "ctl", "filter", "colors", "palette", "segment", "seglen", "segdata", "entropy", "screens", "screen",
            "leds", "header", "text", "flags", "payload", "version",
            "raw", "copy", "rre", "hextile", "zlib", "zrle", "tight", "jpeg", "h264", "cursor", "vmcursor", "name",
            "led", "size", "keys", "buttons", "last",
            "update", "bell", "xvp", "fence", "cuttext", "endofcontinuous",
            "blank", "colour", "subrects", "fill", "basic", "start", "tables", "frame", "scan", "end",
            "key", "delta", "reset", "empty", "extended", "caps", "request", "provide"}
Unit   == [t : Word, v : Word, n : Nat]
Stream == q \o wire

(* Fields i to j - 1 of s are of kind t; exactly one field; exactly two.     *)
All(s, i, j, t)    == \A k \in i .. j - 1 : s[k].t = t
One(s, i, j, t)    == j = i + 1 /\ s[i].t = t
Two(s, i, j, t, u) == j = i + 2 /\ s[i].t = t /\ s[i + 1].t = u
Counted(s, i, j, t, u) ==
    i < j /\ s[i].t = t /\ s[i].n \in Nat /\ j = i + 1 + s[i].n /\ All(s, i + 1, j, u)

TileAt(s, i, j) ==
    /\ i < j /\ s[i].t = "tile"
    /\ \/ s[i].v = "blank" /\ j = i + 1
       \/ s[i].v \in {"raw", "colour"} /\ j = i + 2 /\ s[i + 1].t = "pixels"
       \/ s[i].v = "subrects" /\ j = i + 3 /\ s[i + 1].t = "count" /\ s[i + 1].n = 1 /\ s[i + 2].t = "subrect"
TilesAt(s, i, j, m) ==
    \/ m = 1 /\ TileAt(s, i, j)
    \/ m = 2 /\ \E h \in i .. j : TileAt(s, i, h) /\ TileAt(s, h, j)

(* The pixels of a Tight rectangle of size n, after control byte and filter. *)
PixelsAt(s, i, j, n) ==
    \/ n = 0 /\ j = i
    \/ n = 1 /\ One(s, i, j, "pixels")
    \/ n = 2 /\ Two(s, i, j, "length", "data")
DataAt(s, i, j, n, length) ==
    IF length THEN n = 2 /\ One(s, i, j, "data") ELSE PixelsAt(s, i, j, n)
DeflatedAt(s, i, j, length) ==
    IF length THEN One(s, i, j, "data") ELSE Two(s, i, j, "length", "data")
PaletteAt(s, i, j, n) ==
    i + 2 <= j /\ s[i].t = "colors" /\ s[i + 1].t = "palette" /\ PixelsAt(s, i + 2, j, n)
FilterAt(s, i, j, n) ==
    /\ i < j /\ s[i].t = "filter"
    /\ \/ s[i].v = "copy" /\ PixelsAt(s, i + 1, j, n)
       \/ s[i].v = "palette" /\ PaletteAt(s, i + 1, j, n)
CtlAt(s, i, j, n) ==
    /\ i < j /\ s[i].t = "ctl"
    /\ \/ s[i].v = "fill" /\ One(s, i + 1, j, "pixels")
       \/ s[i].v = "jpeg" /\ Two(s, i + 1, j, "length", "data")
       \/ s[i].v = "basic" /\ PixelsAt(s, i + 1, j, n)
       \/ s[i].v = "filter" /\ FilterAt(s, i + 1, j, n)
TightAt(s, i, j, x) ==
    LET n == x.rect[2] IN
    \/ x.ctl = "" /\ x.filter = "" /\ ~x.length /\ CtlAt(s, i, j, n)
    \/ x.ctl = "fill" /\ x.filter = "" /\ ~x.length /\ One(s, i, j, "pixels")
    \/ x.ctl = "jpeg" /\ x.filter = "" /\ DeflatedAt(s, i, j, x.length)
    \/ x.ctl = "basic" /\ x.filter = "" /\ ~x.length /\ PixelsAt(s, i, j, n)
    \/ x.ctl = "basic" /\ x.filter = "copy" /\ DataAt(s, i, j, n, x.length)
    \/ x.ctl = "filter" /\ x.filter = "" /\ ~x.length /\ FilterAt(s, i, j, n)
    \/ x.ctl = "filter" /\ x.filter = "copy" /\ DataAt(s, i, j, n, x.length)
    \/ x.ctl = "filter" /\ x.filter = "palette" /\ x.colors = 0 /\ ~x.length /\ PaletteAt(s, i, j, n)
    \/ x.ctl = "filter" /\ x.filter = "palette" /\ x.colors > 0 /\ DataAt(s, i, j, n, x.length)

SegmentAt(s, i, v) == s[i].t = "segment" /\ s[i].v = v
BlockAt(s, i, v)   == SegmentAt(s, i, v) /\ s[i + 1].t = "seglen" /\ s[i + 2].t = "segdata"
EndAt(s, i, j)     == j = i + 1 /\ SegmentAt(s, i, "end")
ScanAt(s, i, j)    == i + 4 <= j /\ BlockAt(s, i, "scan") /\ s[i + 3].t = "entropy" /\ EndAt(s, i + 4, j)
FrameAt(s, i, j)   == i + 3 <= j /\ BlockAt(s, i, "frame") /\ ScanAt(s, i + 3, j)
TablesAt(s, i, j)  == i + 3 <= j /\ BlockAt(s, i, "tables") /\ FrameAt(s, i + 3, j)
JpegAt(s, i, j, segs) ==
    IF segs = {} THEN i < j /\ SegmentAt(s, i, "start") /\ (TablesAt(s, i + 1, j) \/ FrameAt(s, i + 1, j))
    ELSE IF "scan" \in segs THEN EndAt(s, i, j)
    ELSE IF "frame" \in segs THEN ScanAt(s, i, j)
    ELSE IF "tables" \in segs THEN FrameAt(s, i, j)
    ELSE TablesAt(s, i, j) \/ FrameAt(s, i, j)

(* Fields i to j - 1 of s are what is left of the rectangle of parser x.      *)
BodyAt(s, i, j, x) ==
    LET enc == x.rect[1]
        n   == x.rect[2]
        m   == IF x.left = 0 THEN n ELSE x.left
    IN /\ i <= j /\ j <= Len(s) + 1 /\ n \in Nat
       /\ \/ enc = "raw" /\ (n = 0 => x.left = 0) /\ j = i + m /\ All(s, i, j, "line")
          \/ enc = "copy" /\ One(s, i, j, "source")
          \/ enc = "rre" /\ x.left = 0 /\ Counted(s, i, j, "count", "subrect")
          \/ enc = "rre" /\ x.left > 0 /\ j = i + x.left /\ All(s, i, j, "subrect")
          \/ enc = "hextile" /\ TilesAt(s, i, j, m)
          \/ enc = "zlib" /\ n = 0 /\ ~x.length /\ j = i
          \/ enc = "zlib" /\ n > 0 /\ DeflatedAt(s, i, j, x.length)
          \/ enc = "zrle" /\ DeflatedAt(s, i, j, x.length)
          \/ enc = "tight" /\ TightAt(s, i, j, x)
          \/ enc = "jpeg" /\ JpegAt(s, i, j, x.segs)
          \/ enc = "h264" /\ (   (s[i].v = "empty" /\ One(s, i, j, "h264"))
                              \/ (s[i].v # "empty" /\ Two(s, i, j, "h264", "data")))
          \/ enc = "cursor" /\ One(s, i, j, "data")
          \/ enc = "vmcursor" /\ Two(s, i, j, "cursor", "data")
          \/ enc = "name" /\ Two(s, i, j, "length", "data")
          \/ enc = "screens" /\ Counted(s, i, j, "screens", "screen")
          \/ enc = "led" /\ One(s, i, j, "leds")
          \/ enc \in {"size", "keys", "buttons"} /\ j = i

(* A message ends before position i.                                        *)
Ends(s, i) == i = Len(s) + 1 \/ (i \in 1 .. Len(s) /\ s[i].t = "type")

(* A rectangle with its header; the mark of the last one.                    *)
Fresh(e, n) == [PInit EXCEPT !.rect = <<e, n>>]
RectAt(s, i, j) ==
    i <= Len(s) /\ s[i].t = "rect" /\ BodyAt(s, i + 1, j, Fresh(s[i].v, s[i].n))
LastAt(s, i) == i <= Len(s) /\ s[i].t = "rect" /\ s[i].v = "last" /\ Ends(s, i + 1)

(* From position i on, an update has r rectangles to come.  Three stand for a *)
(* number that is not known.                                                *)
Rest0(s, i) == Ends(s, i)
Rest1(s, i) == \E j \in 1 .. Len(s) + 1 : RectAt(s, i, j) /\ Ends(s, j)
Rest2(s, i) == \/ \E j \in 1 .. Len(s) + 1 : RectAt(s, i, j) /\ Rest1(s, j)
               \/ LastAt(s, i)
Rest3(s, i) == \/ \E j \in 1 .. Len(s) + 1 : RectAt(s, i, j) /\ LastAt(s, j)
               \/ LastAt(s, i)
RestAt(s, i, r) ==
    \/ r = 0 /\ Rest0(s, i)
    \/ r = 1 /\ Rest1(s, i)
    \/ r = 2 /\ Rest2(s, i)
    \/ r = 3 /\ Rest3(s, i)

MessageAt(s, i) ==
    /\ i + 1 <= Len(s) + 1 /\ s[i] = U("type", s[i].v)
    /\ \/ /\ s[i].v = "update" /\ i < Len(s) /\ s[i + 1].t = "rects" /\ s[i + 1].n \in 0 .. 3
          /\ RestAt(s, i + 2, s[i + 1].n)
       \/ /\ s[i].v = "cuttext" /\ i + 2 <= Len(s) /\ s[i + 1].t = "header"
          /\ \/ s[i + 1].v = "text" /\ s[i + 2].t = "text" /\ s[i + 2].v # "request" /\ Ends(s, i + 3)
             \/ s[i + 1].v = "extended" /\ s[i + 2].t = "flags" /\ s[i + 2].v = "request" /\ Ends(s, i + 3)
             \/ /\ s[i + 1].v = "extended" /\ s[i + 2].t = "flags" /\ s[i + 2].v # "request"
                /\ i + 3 <= Len(s) /\ s[i + 3].t = "text" /\ Ends(s, i + 4)
       \/ /\ s[i].v = "fence" /\ i + 2 <= Len(s) /\ s[i + 1].t = "header" /\ s[i + 2].t = "payload"
          /\ Ends(s, i + 3)
       \/ s[i].v = "xvp" /\ i + 1 <= Len(s) /\ s[i + 1].t = "version" /\ Ends(s, i + 2)
       \/ s[i].v \in {"bell", "endofcontinuous"} /\ Ends(s, i + 1)

(***************************************************************************)
(* The invariant.                                                           *)
(***************************************************************************)
Parser == [rects : 0 .. 3, rect : {<<>>} \cup (Word \X Nat), frame : Nat, flushing : BOOLEAN, cont : BOOLEAN,
           left : Nat, rawtile : BOOLEAN, length : BOOLEAN, ctl : Word, filter : Word, colors : Nat,
           segs : SUBSET Word, tables : BOOLEAN, h264 : BOOLEAN]
Server == [asked : Nat, msgs : Nat, rects : Nat, tables : BOOLEAN, ends : BOOLEAN, lost : Nat]

Typed == /\ p \in Parser /\ srv \in Server /\ at \in {"idle", "msg"}
         /\ q \in Seq(Unit) /\ wire \in Seq(Unit)

(* What a decoder keeps belongs to the rectangle being read.                 *)
Clean(x) == x.left = 0 /\ ~x.length /\ x.ctl = "" /\ x.filter = "" /\ x.colors = 0 /\ x.segs = {}
Memory(x) ==
    IF x.rect = <<>> THEN Clean(x)
    ELSE /\ x.left # 0 => x.rect[1] \in {"raw", "rre", "hextile"}
         /\ x.length => x.rect[1] \in {"zlib", "zrle", "tight"}
         /\ x.ctl # "" \/ x.filter # "" \/ x.colors # 0 => x.rect[1] = "tight"
         /\ x.colors # 0 => x.filter = "palette"
         /\ x.segs # {} => x.rect[1] = "jpeg"

(* The parser stands where the stream goes on.                              *)
Reading(x, s) ==
    IF x.rect = <<>> THEN RestAt(s, 1, x.rects)
    ELSE IF x.rect[1] = "last" THEN x.rects > 0 /\ Ends(s, 1) /\ Clean(x)
    ELSE x.rects > 0 /\ \E j \in 1 .. Len(s) + 1 : BodyAt(s, 1, j, x) /\ RestAt(s, j, x.rects - 1)

Whole(s) == \A i \in 1 .. Len(s) : s[i].t = "type" => MessageAt(s, i)

(* One update was asked for, or its answer lost, until the server says that   *)
(* it can do without.                                                       *)
Ups(s) == {i \in 1 .. Len(s) : s[i] = U("type", "update")}
AskedOnce(x, s) ==
    \/ srv.ends
    \/ srv.asked = 1 /\ srv.lost = 0 /\ x.rects = 0 /\ Ups(s) = {}
    \/ srv.asked = 0 /\ srv.lost = 0 /\ x.rects > 0 /\ Ups(s) = {}
    \/ srv.asked = 0 /\ srv.lost = 0 /\ x.rects = 0 /\ \E i \in 1 .. Len(s) : Ups(s) = {i}
    \/ srv.asked = 0 /\ srv.lost = 1 /\ x.rects = 0 /\ Ups(s) = {}
Announced(x, s) ==
    /\ x.cont => srv.ends
    /\ \A i \in 1 .. Len(s) : s[i] = U("type", "endofcontinuous") => srv.ends

(* Nothing that has come whole is left lying.                               *)
Pushed   == at = "idle" /\ ~p.flushing => wire # <<>> \/ (q = <<>> /\ p.rects = 0)
Resting  == p.flushing => at = "idle" /\ p.rect = <<>>

StreamInv ==
    /\ Typed /\ Memory(p) /\ Reading(p, Stream) /\ Whole(Stream)
    /\ AskedOnce(p, Stream) /\ Announced(p, Stream) /\ Pushed /\ Resting

(***************************************************************************)
(* The same fields at other positions.                                      *)
(***************************************************************************)
Same(s, u, i, j, m) == \A k \in i .. j - 1 : u[k + m] = s[k]

LEMMA AllMoves ==
    ASSUME NEW s, NEW u, NEW i \in Nat, NEW j \in Nat, NEW m \in Int, Same(s, u, i, j, m), NEW t
    PROVE  All(s, i, j, t) => All(u, i + m, j + m, t)
<1> SUFFICES ASSUME All(s, i, j, t), NEW k \in i + m .. (j + m) - 1 PROVE u[k].t = t
  BY DEF All
<1>1. k - m \in i .. j - 1 /\ (k - m) + m = k
  OBVIOUS
<1> QED BY <1>1 DEF Same, All

LEMMA FieldMoves ==
    ASSUME NEW s, NEW u, NEW i \in Nat, NEW j \in Nat, NEW m \in Int, Same(s, u, i, j, m), NEW h \in Nat, i + h < j
    PROVE  u[i + m + h] = s[i + h]
<1>1. i + h \in i .. j - 1 /\ (i + h) + m = i + m + h
  OBVIOUS
<1> QED BY <1>1 DEF Same

LEMMA CountedMoves ==
    ASSUME NEW s, NEW u, NEW i \in Nat, NEW j \in Nat, NEW m \in Int, Same(s, u, i, j, m), NEW t, NEW v
    PROVE  Counted(s, i, j, t, v) => Counted(u, i + m, j + m, t, v)
<1> SUFFICES ASSUME Counted(s, i, j, t, v) PROVE Counted(u, i + m, j + m, t, v)
  OBVIOUS
<1>1. i < j /\ s[i].t = t /\ s[i].n \in Nat /\ j = i + 1 + s[i].n /\ All(s, i + 1, j, v)
  BY DEF Counted
<1>2. u[i + m] = s[i]
  BY <1>1 DEF Same
<1>3. Same(s, u, i + 1, j, m)
  BY DEF Same
<1>4. All(u, (i + 1) + m, j + m, v)
  <2>1. i + 1 \in Nat
    OBVIOUS
  <2> QED BY <1>1, <1>3, <2>1, AllMoves
<1>5. (i + 1) + m = (i + m) + 1
  OBVIOUS
<1> QED BY <1>1, <1>2, <1>4, <1>5 DEF Counted

LEMMA PixelsMoves ==
    ASSUME NEW s, NEW u, NEW i \in Nat, NEW j \in Nat, NEW m \in Int, Same(s, u, i, j, m), NEW n
    PROVE  /\ PixelsAt(s, i, j, n) => PixelsAt(u, i + m, j + m, n)
           /\ \A t : One(s, i, j, t) => One(u, i + m, j + m, t)
           /\ \A t, v : Two(s, i, j, t, v) => Two(u, i + m, j + m, t, v)
           /\ \A b \in BOOLEAN : /\ DataAt(s, i, j, n, b) => DataAt(u, i + m, j + m, n, b)
                                 /\ DeflatedAt(s, i, j, b) => DeflatedAt(u, i + m, j + m, b)
<1>1. i < j => u[i + m] = s[i]
  BY DEF Same
<1>2. i + 1 < j => u[(i + m) + 1] = s[i + 1]
  BY FieldMoves
<1>3. \A t : One(s, i, j, t) => One(u, i + m, j + m, t)
  BY <1>1 DEF One
<1>4. \A t, v : Two(s, i, j, t, v) => Two(u, i + m, j + m, t, v)
  BY <1>1, <1>2 DEF Two
<1>5. PixelsAt(s, i, j, n) => PixelsAt(u, i + m, j + m, n)
  BY <1>3, <1>4 DEF PixelsAt
<1>6. ASSUME NEW b \in BOOLEAN
      PROVE  /\ DataAt(s, i, j, n, b) => DataAt(u, i + m, j + m, n, b)
             /\ DeflatedAt(s, i, j, b) => DeflatedAt(u, i + m, j + m, b)
  BY <1>3, <1>4, <1>5, Zenon DEF DataAt, DeflatedAt
<1> QED BY <1>3, <1>4, <1>5, <1>6, Zenon

LEMMA TileMoves ==
    ASSUME NEW s, NEW u, NEW i \in Nat, NEW j \in Nat, NEW m \in Int, Same(s, u, i, j, m)
    PROVE  TileAt(s, i, j) => TileAt(u, i + m, j + m)
<1>1. i < j => u[i + m] = s[i]
  BY DEF Same
<1>2. i + 1 < j => u[(i + m) + 1] = s[i + 1]
  BY FieldMoves
<1>3. i + 2 < j => u[(i + m) + 2] = s[i + 2]
  BY FieldMoves
<1> QED BY <1>1, <1>2, <1>3 DEF TileAt

LEMMA TilesMove ==
    ASSUME NEW s, NEW u, NEW i \in Nat, NEW j \in Nat, NEW m \in Int, Same(s, u, i, j, m), NEW n, i + m \in Nat
    PROVE  TilesAt(s, i, j, n) => TilesAt(u, i + m, j + m, n)
<1>1. CASE n = 1 /\ TileAt(s, i, j)
  BY <1>1, TileMoves DEF TilesAt
<1>2. ASSUME n = 2, NEW h \in i .. j, TileAt(s, i, h), TileAt(s, h, j)
      PROVE  TilesAt(u, i + m, j + m, n)
  <2>1. Same(s, u, i, h, m) /\ Same(s, u, h, j, m) /\ h \in Nat
    BY DEF Same
  <2>2. TileAt(u, i + m, h + m) /\ TileAt(u, h + m, j + m)
    BY <1>2, <2>1, TileMoves
  <2>3. h + m \in i + m .. j + m
    BY <2>1
  <2> QED BY <1>2, <2>2, <2>3 DEF TilesAt
<1> QED BY <1>1, <1>2 DEF TilesAt

LEMMA TightMoves ==
    ASSUME NEW s, NEW u, NEW i \in Nat, NEW j \in Nat, NEW m \in Int, Same(s, u, i, j, m), NEW x, i + m \in Nat,
           x.length \in BOOLEAN
    PROVE  TightAt(s, i, j, x) => TightAt(u, i + m, j + m, x)
<1> DEFINE n == x.rect[2]
<1>1. i < j => u[i + m] = s[i]
  BY DEF Same
<1>2. ASSUME NEW h \in {0, 1, 2, 3}
      PROVE  /\ PixelsAt(s, i + h, j, n) => PixelsAt(u, (i + m) + h, j + m, n)
             /\ \A t : One(s, i + h, j, t) => One(u, (i + m) + h, j + m, t)
             /\ \A t, v : Two(s, i + h, j, t, v) => Two(u, (i + m) + h, j + m, t, v)
             /\ i + h < j => u[(i + m) + h] = s[i + h]
  <2>1. Same(s, u, i + h, j, m) /\ i + h \in Nat /\ (i + h) + m = (i + m) + h
    BY DEF Same
  <2>2. i + h < j => u[(i + m) + h] = s[i + h]
    BY FieldMoves
  <2> HIDE DEF n
  <2>3. /\ PixelsAt(s, i + h, j, n) => PixelsAt(u, (i + h) + m, j + m, n)
        /\ \A t : One(s, i + h, j, t) => One(u, (i + h) + m, j + m, t)
        /\ \A t, v : Two(s, i + h, j, t, v) => Two(u, (i + h) + m, j + m, t, v)
    BY <2>1, PixelsMoves
  <2> QED BY <2>1, <2>2, <2>3
<1>3. ASSUME NEW h \in {0, 1, 2}
      PROVE  PaletteAt(s, i + h, j, n) => PaletteAt(u, (i + m) + h, j + m, n)
  <2>1. SUFFICES ASSUME PaletteAt(s, i + h, j, n) PROVE PaletteAt(u, (i + m) + h, j + m, n)
    OBVIOUS
  <2>2. Same(s, u, i + h, j, m) /\ i + h \in Nat /\ (i + h) + m = (i + m) + h
    BY DEF Same
  <2>3. i + h + 2 <= j /\ s[i + h].t = "colors" /\ s[i + h + 1].t = "palette" /\ PixelsAt(s, i + h + 2, j, n)
    BY <2>1 DEF PaletteAt
  <2>4. u[i + m + h] = s[i + h] /\ u[i + m + (h + 1)] = s[i + (h + 1)]
    <3>1. h \in Nat /\ h + 1 \in Nat /\ i + h < j /\ i + (h + 1) < j
      BY <2>3
    <3>2. ASSUME NEW g \in Nat, i + g < j PROVE u[i + m + g] = s[i + g]
      <4>1. i + g \in i .. j - 1 /\ (i + g) + m = i + m + g
        BY ONLY <3>2, i \in Nat, j \in Nat, m \in Int
      <4> QED BY <4>1, Zenon DEF Same
    <3> QED BY <3>1, <3>2
  <2>5. Same(s, u, i + h + 2, j, m) /\ i + h + 2 \in Nat /\ (i + h + 2) + m = (i + m) + h + 2
    BY DEF Same
  <2> HIDE DEF n
  <2>6. PixelsAt(u, (i + h + 2) + m, j + m, n)
    BY <2>3, <2>5, PixelsMoves
  <2>7. u[(i + m) + h] = s[i + h] /\ u[(i + m) + h + 1] = s[i + h + 1]
    BY <2>4
  <2> QED BY <2>2, <2>3, <2>5, <2>6, <2>7 DEF PaletteAt
<1>4. ASSUME NEW h \in {0, 1}
      PROVE  FilterAt(s, i + h, j, n) => FilterAt(u, (i + m) + h, j + m, n)
  <2> HIDE DEF n
  <2>1. (i + h) + 1 = i + (h + 1) /\ ((i + m) + h) + 1 = (i + m) + (h + 1) /\ h + 1 \in {0, 1, 2}
    OBVIOUS
  <2>2. PixelsAt(s, (i + h) + 1, j, n) => PixelsAt(u, ((i + m) + h) + 1, j + m, n)
    BY <1>2, <2>1
  <2>3. PaletteAt(s, (i + h) + 1, j, n) => PaletteAt(u, ((i + m) + h) + 1, j + m, n)
    BY <1>3, <2>1
  <2>4. i + h < j => u[(i + m) + h] = s[i + h]
    BY <1>2
  <2> QED BY <2>2, <2>3, <2>4 DEF FilterAt
<1> HIDE DEF n
<1>5. CtlAt(s, i, j, n) => CtlAt(u, i + m, j + m, n)
  BY <1>1, <1>2, <1>4 DEF CtlAt
<1>6. FilterAt(s, i, j, n) => FilterAt(u, i + m, j + m, n)
  <2>1. i + 0 = i /\ (i + m) + 0 = i + m
    OBVIOUS
  <2> QED BY <1>4, <2>1
<1>7. PaletteAt(s, i, j, n) => PaletteAt(u, i + m, j + m, n)
  <2>1. i + 0 = i /\ (i + m) + 0 = i + m
    OBVIOUS
  <2> QED BY <1>3, <2>1
<1>8. /\ PixelsAt(s, i, j, n) => PixelsAt(u, i + m, j + m, n)
      /\ One(s, i, j, "pixels") => One(u, i + m, j + m, "pixels")
      /\ DataAt(s, i, j, n, x.length) => DataAt(u, i + m, j + m, n, x.length)
      /\ DeflatedAt(s, i, j, x.length) => DeflatedAt(u, i + m, j + m, x.length)
  BY PixelsMoves
<1> QED BY <1>5, <1>6, <1>7, <1>8 DEF TightAt, n

LEMMA JpegMoves ==
    ASSUME NEW s, NEW u, NEW i \in Nat, NEW j \in Nat, NEW m \in Int, Same(s, u, i, j, m), NEW segs
    PROVE  JpegAt(s, i, j, segs) => JpegAt(u, i + m, j + m, segs)
<1>1. ASSUME NEW h \in Nat, i + h < j PROVE u[(i + m) + h] = s[i + h]
  <2>1. i + h \in i .. j - 1 /\ (i + h) + m = (i + m) + h
    BY ONLY <1>1, i \in Nat, j \in Nat, m \in Int
  <2> QED BY <2>1, Zenon DEF Same
<1>2. ASSUME NEW h \in Nat
      PROVE  EndAt(s, i + h, j) => EndAt(u, (i + m) + h, j + m)
  BY <1>1 DEF EndAt, SegmentAt
<1>3. ASSUME NEW h \in Nat, NEW v, i + h + 2 < j
      PROVE  BlockAt(s, i + h, v) => BlockAt(u, (i + m) + h, v)
  <2>1. u[(i + m) + h] = s[i + h] /\ u[(i + m) + (h + 1)] = s[i + (h + 1)] /\ u[(i + m) + (h + 2)] = s[i + (h + 2)]
    BY <1>1, <1>3
  <2>2. /\ (i + m) + (h + 1) = ((i + m) + h) + 1 /\ (i + m) + (h + 2) = ((i + m) + h) + 2
        /\ i + (h + 1) = (i + h) + 1 /\ i + (h + 2) = (i + h) + 2
    OBVIOUS
  <2> QED BY <2>1, <2>2 DEF BlockAt, SegmentAt
<1>4. ASSUME NEW h \in Nat
      PROVE  ScanAt(s, i + h, j) => ScanAt(u, (i + m) + h, j + m)
  <2> SUFFICES ASSUME ScanAt(s, i + h, j) PROVE ScanAt(u, (i + m) + h, j + m)
    OBVIOUS
  <2>1. /\ (i + m) + (h + 3) = ((i + m) + h) + 3 /\ i + (h + 3) = (i + h) + 3
        /\ (i + m) + (h + 4) = ((i + m) + h) + 4 /\ i + (h + 4) = (i + h) + 4
        /\ h + 3 \in Nat /\ h + 4 \in Nat
    OBVIOUS
  <2>2. i + h + 4 <= j /\ BlockAt(s, i + h, "scan") /\ s[(i + h) + 3].t = "entropy" /\ EndAt(s, (i + h) + 4, j)
    BY DEF ScanAt
  <2>3. BlockAt(u, (i + m) + h, "scan")
    BY <1>3, <2>2
  <2>4. u[((i + m) + h) + 3] = s[(i + h) + 3]
    BY <1>1, <2>1, <2>2
  <2>5. EndAt(u, ((i + m) + h) + 4, j + m)
    BY <1>2, <2>1, <2>2
  <2> QED BY <2>2, <2>3, <2>4, <2>5 DEF ScanAt
<1>5. ASSUME NEW h \in Nat
      PROVE  FrameAt(s, i + h, j) => FrameAt(u, (i + m) + h, j + m)
  <2> SUFFICES ASSUME FrameAt(s, i + h, j) PROVE FrameAt(u, (i + m) + h, j + m)
    OBVIOUS
  <2>1. (i + m) + (h + 3) = ((i + m) + h) + 3 /\ i + (h + 3) = (i + h) + 3 /\ h + 3 \in Nat
    OBVIOUS
  <2>2. i + h + 3 <= j /\ BlockAt(s, i + h, "frame") /\ ScanAt(s, (i + h) + 3, j)
    BY DEF FrameAt
  <2>3. i + h + 7 <= j
    BY <2>2 DEF ScanAt
  <2>4. BlockAt(u, (i + m) + h, "frame")
    BY <1>3, <2>2, <2>3
  <2>5. ScanAt(u, ((i + m) + h) + 3, j + m)
    BY <1>4, <2>1, <2>2
  <2> QED BY <2>2, <2>4, <2>5 DEF FrameAt
<1>6. ASSUME NEW h \in Nat
      PROVE  TablesAt(s, i + h, j) => TablesAt(u, (i + m) + h, j + m)
  <2> SUFFICES ASSUME TablesAt(s, i + h, j) PROVE TablesAt(u, (i + m) + h, j + m)
    OBVIOUS
  <2>1. (i + m) + (h + 3) = ((i + m) + h) + 3 /\ i + (h + 3) = (i + h) + 3 /\ h + 3 \in Nat
    OBVIOUS
  <2>2. i + h + 3 <= j /\ BlockAt(s, i + h, "tables") /\ FrameAt(s, (i + h) + 3, j)
    BY DEF TablesAt
  <2>3. i + h + 6 <= j
    BY <2>2 DEF FrameAt
  <2>4. BlockAt(u, (i + m) + h, "tables")
    BY <1>3, <2>2, <2>3
  <2>5. FrameAt(u, ((i + m) + h) + 3, j + m)
    BY <1>5, <2>1, <2>2
  <2> QED BY <2>2, <2>4, <2>5 DEF TablesAt
<1>7. i + 0 = i /\ (i + m) + 0 = i + m /\ 0 \in Nat /\ 1 \in Nat
  OBVIOUS
<1>8. /\ EndAt(s, i, j) => EndAt(u, i + m, j + m)
      /\ ScanAt(s, i, j) => ScanAt(u, i + m, j + m)
      /\ FrameAt(s, i, j) => FrameAt(u, i + m, j + m)
      /\ TablesAt(s, i, j) => TablesAt(u, i + m, j + m)
  BY <1>2, <1>4, <1>5, <1>6, <1>7
<1>9. /\ FrameAt(s, i + 1, j) => FrameAt(u, (i + m) + 1, j + m)
      /\ TablesAt(s, i + 1, j) => TablesAt(u, (i + m) + 1, j + m)
  BY <1>5, <1>6
<1>10. i < j => (SegmentAt(s, i, "start") => SegmentAt(u, i + m, "start"))
  BY <1>1, <1>7 DEF SegmentAt
<1>11. i < j => i + m < j + m
  OBVIOUS
<1> QED BY <1>8, <1>9, <1>10, <1>11, Zenon DEF JpegAt

LEMMA BodyMoves ==
    ASSUME NEW s, NEW u, NEW i \in Nat, NEW j \in Nat, NEW m \in Int, Same(s, u, i, j, m), i + m \in Nat,
           NEW x, x.left \in Nat, x.length \in BOOLEAN, Len(s) \in Nat, Len(u) \in Nat, j + m <= Len(u) + 1,
           BodyAt(s, i, j, x)
    PROVE  BodyAt(u, i + m, j + m, x)
<1> DEFINE enc == x.rect[1]
           n   == x.rect[2]
           k   == IF x.left = 0 THEN n ELSE x.left
<1>1. i <= j /\ n \in Nat /\ k \in Nat
  BY DEF BodyAt
<1>2. \A t : All(s, i, j, t) => All(u, i + m, j + m, t)
  BY AllMoves
<1>3. \A t, v : Counted(s, i, j, t, v) => Counted(u, i + m, j + m, t, v)
  BY CountedMoves
<1>4. /\ \A t : One(s, i, j, t) => One(u, i + m, j + m, t)
      /\ \A t, v : Two(s, i, j, t, v) => Two(u, i + m, j + m, t, v)
      /\ DeflatedAt(s, i, j, x.length) => DeflatedAt(u, i + m, j + m, x.length)
  BY PixelsMoves
<1>5. TilesAt(s, i, j, k) => TilesAt(u, i + m, j + m, k)
  BY TilesMove
<1>6. TightAt(s, i, j, x) => TightAt(u, i + m, j + m, x)
  BY TightMoves
<1>7. JpegAt(s, i, j, x.segs) => JpegAt(u, i + m, j + m, x.segs)
  BY JpegMoves
<1>8. i < j => u[i + m] = s[i]
  BY DEF Same
<1>9. i + m <= j + m /\ (j = i => j + m = i + m) /\ (\A z \in Nat : j = i + z => j + m = (i + m) + z)
  BY <1>1
<1>10. One(s, i, j, "h264") \/ Two(s, i, j, "h264", "data") => i < j
  BY DEF One, Two
<1> HIDE DEF enc, n, k
<1>11. \/ enc = "raw" /\ (n = 0 => x.left = 0) /\ j = i + k /\ All(s, i, j, "line")
       \/ enc = "copy" /\ One(s, i, j, "source")
       \/ enc = "rre" /\ x.left = 0 /\ Counted(s, i, j, "count", "subrect")
       \/ enc = "rre" /\ x.left > 0 /\ j = i + x.left /\ All(s, i, j, "subrect")
       \/ enc = "hextile" /\ TilesAt(s, i, j, k)
       \/ enc = "zlib" /\ n = 0 /\ ~x.length /\ j = i
       \/ enc = "zlib" /\ n > 0 /\ DeflatedAt(s, i, j, x.length)
       \/ enc = "zrle" /\ DeflatedAt(s, i, j, x.length)
       \/ enc = "tight" /\ TightAt(s, i, j, x)
       \/ enc = "jpeg" /\ JpegAt(s, i, j, x.segs)
       \/ enc = "h264" /\ (   (s[i].v = "empty" /\ One(s, i, j, "h264"))
                           \/ (s[i].v # "empty" /\ Two(s, i, j, "h264", "data")))
       \/ enc = "cursor" /\ One(s, i, j, "data")
       \/ enc = "vmcursor" /\ Two(s, i, j, "cursor", "data")
       \/ enc = "name" /\ Two(s, i, j, "length", "data")
       \/ enc = "screens" /\ Counted(s, i, j, "screens", "screen")
       \/ enc = "led" /\ One(s, i, j, "leds")
       \/ enc \in {"size", "keys", "buttons"} /\ j = i
  BY Zenon DEF BodyAt, enc, n, k
<1>12. \/ enc = "raw" /\ (n = 0 => x.left = 0) /\ j + m = (i + m) + k /\ All(u, i + m, j + m, "line")
       \/ enc = "copy" /\ One(u, i + m, j + m, "source")
       \/ enc = "rre" /\ x.left = 0 /\ Counted(u, i + m, j + m, "count", "subrect")
       \/ enc = "rre" /\ x.left > 0 /\ j + m = (i + m) + x.left /\ All(u, i + m, j + m, "subrect")
       \/ enc = "hextile" /\ TilesAt(u, i + m, j + m, k)
       \/ enc = "zlib" /\ n = 0 /\ ~x.length /\ j + m = i + m
       \/ enc = "zlib" /\ n > 0 /\ DeflatedAt(u, i + m, j + m, x.length)
       \/ enc = "zrle" /\ DeflatedAt(u, i + m, j + m, x.length)
       \/ enc = "tight" /\ TightAt(u, i + m, j + m, x)
       \/ enc = "jpeg" /\ JpegAt(u, i + m, j + m, x.segs)
       \/ enc = "h264" /\ (   (u[i + m].v = "empty" /\ One(u, i + m, j + m, "h264"))
                           \/ (u[i + m].v # "empty" /\ Two(u, i + m, j + m, "h264", "data")))
       \/ enc = "cursor" /\ One(u, i + m, j + m, "data")
       \/ enc = "vmcursor" /\ Two(u, i + m, j + m, "cursor", "data")
       \/ enc = "name" /\ Two(u, i + m, j + m, "length", "data")
       \/ enc = "screens" /\ Counted(u, i + m, j + m, "screens", "screen")
       \/ enc = "led" /\ One(u, i + m, j + m, "leds")
       \/ enc \in {"size", "keys", "buttons"} /\ j + m = i + m
  <2>1. CASE enc = "raw" /\ (n = 0 => x.left = 0) /\ j = i + k /\ All(s, i, j, "line")
    BY <1>1, <1>2, <1>9, <2>1, Zenon
  <2>2. CASE enc = "rre" /\ x.left > 0 /\ j = i + x.left /\ All(s, i, j, "subrect")
    BY <1>2, <1>9, <2>2, Zenon
  <2>3. CASE enc = "h264" /\ (   (s[i].v = "empty" /\ One(s, i, j, "h264"))
                              \/ (s[i].v # "empty" /\ Two(s, i, j, "h264", "data")))
    BY <1>4, <1>8, <1>10, <2>3, Zenon
  <2>4. CASE enc = "copy" /\ One(s, i, j, "source")
    BY <1>4, <2>4, Zenon
  <2>5. CASE enc = "rre" /\ x.left = 0 /\ Counted(s, i, j, "count", "subrect")
    BY <1>3, <2>5, Zenon
  <2>6. CASE enc = "hextile" /\ TilesAt(s, i, j, k)
    BY <1>5, <2>6, Zenon
  <2>7. CASE enc = "zlib" /\ n = 0 /\ ~x.length /\ j = i
    BY <1>9, <2>7, Zenon
  <2>8. CASE enc = "zlib" /\ n > 0 /\ DeflatedAt(s, i, j, x.length)
    BY <1>4, <2>8, Zenon
  <2>9. CASE enc = "zrle" /\ DeflatedAt(s, i, j, x.length)
    BY <1>4, <2>9, Zenon
  <2>10. CASE enc = "tight" /\ TightAt(s, i, j, x)
    BY <1>6, <2>10, Zenon
  <2>11. CASE enc = "jpeg" /\ JpegAt(s, i, j, x.segs)
    BY <1>7, <2>11, Zenon
  <2>12. CASE enc = "cursor" /\ One(s, i, j, "data")
    BY <1>4, <2>12, Zenon
  <2>13. CASE enc = "vmcursor" /\ Two(s, i, j, "cursor", "data")
    BY <1>4, <2>13, Zenon
  <2>14. CASE enc = "name" /\ Two(s, i, j, "length", "data")
    BY <1>4, <2>14, Zenon
  <2>15. CASE enc = "screens" /\ Counted(s, i, j, "screens", "screen")
    BY <1>3, <2>15, Zenon
  <2>16. CASE enc = "led" /\ One(s, i, j, "leds")
    BY <1>4, <2>16, Zenon
  <2>17. CASE enc \in {"size", "keys", "buttons"} /\ j = i
    BY <1>9, <2>17, Zenon
  <2> QED BY <1>11, <2>1, <2>2, <2>3, <2>4, <2>5, <2>6, <2>7, <2>8, <2>9, <2>10, <2>11, <2>12, <2>13, <2>14,
             <2>15, <2>16, <2>17, Zenon
<1>13. j + m <= Len(u) + 1
  OBVIOUS
<1> QED BY <1>1, <1>9, <1>12, <1>13, Zenon DEF BodyAt, enc, n, k

(***************************************************************************)
(* A rectangle has no field that begins a message.                          *)
(***************************************************************************)
NoTypes(s, i, j) == \A k \in i .. j - 1 : s[k].t # "type"

LEMMA NoTypesJoin ==
    ASSUME NEW s, NEW i \in Nat, NEW h \in Nat, NEW j \in Nat, NoTypes(s, i, h), NoTypes(s, h, j)
    PROVE  NoTypes(s, i, j)
BY DEF NoTypes

LEMMA FieldTypes ==
    ASSUME NEW s, NEW i \in Nat, NEW j \in Nat
    PROVE  /\ j = i => NoTypes(s, i, j)
           /\ \A t : t # "type" /\ All(s, i, j, t) => NoTypes(s, i, j)
           /\ \A t : t # "type" /\ One(s, i, j, t) => NoTypes(s, i, j)
           /\ \A t, v : t # "type" /\ v # "type" /\ Two(s, i, j, t, v) => NoTypes(s, i, j)
           /\ \A t, v : t # "type" /\ v # "type" /\ Counted(s, i, j, t, v) => NoTypes(s, i, j)
<1>1. j = i => NoTypes(s, i, j)
  BY DEF NoTypes
<1>2. \A t : t # "type" /\ All(s, i, j, t) => NoTypes(s, i, j)
  BY DEF NoTypes, All
<1>3. \A t : t # "type" /\ One(s, i, j, t) => NoTypes(s, i, j)
  BY DEF NoTypes, One
<1>4. \A t, v : t # "type" /\ v # "type" /\ Two(s, i, j, t, v) => NoTypes(s, i, j)
  BY DEF NoTypes, Two
<1>5. ASSUME NEW t, NEW v, t # "type", v # "type", Counted(s, i, j, t, v) PROVE NoTypes(s, i, j)
  BY <1>5 DEF NoTypes, Counted, All
<1> QED BY <1>1, <1>2, <1>3, <1>4, <1>5

LEMMA PixelTypes ==
    ASSUME NEW s, NEW i \in Nat, NEW j \in Nat, NEW n
    PROVE  /\ PixelsAt(s, i, j, n) => NoTypes(s, i, j)
           /\ \A b \in BOOLEAN : DataAt(s, i, j, n, b) \/ DeflatedAt(s, i, j, b) => NoTypes(s, i, j)
<1>1. PixelsAt(s, i, j, n) => NoTypes(s, i, j)
  BY FieldTypes DEF PixelsAt
<1>2. ASSUME NEW b \in BOOLEAN, DataAt(s, i, j, n, b) \/ DeflatedAt(s, i, j, b) PROVE NoTypes(s, i, j)
  <2>1. PixelsAt(s, i, j, n) \/ One(s, i, j, "data") \/ Two(s, i, j, "length", "data")
    BY <1>2, Zenon DEF DataAt, DeflatedAt
  <2> QED BY <1>1, <2>1, FieldTypes
<1> QED BY <1>1, <1>2

LEMMA TileTypes ==
    ASSUME NEW s, NEW i \in Nat, NEW j \in Nat, NEW n
    PROVE  TilesAt(s, i, j, n) => NoTypes(s, i, j)
<1>1. ASSUME NEW a \in Nat, NEW b \in Nat, TileAt(s, a, b) PROVE NoTypes(s, a, b)
  <2>1. \/ b = a + 1 /\ s[a].t = "tile"
        \/ b = a + 2 /\ s[a].t = "tile" /\ s[a + 1].t = "pixels"
        \/ b = a + 3 /\ s[a].t = "tile" /\ s[a + 1].t = "count" /\ s[a + 2].t = "subrect"
    BY <1>1 DEF TileAt
  <2> QED BY <2>1 DEF NoTypes
<1>2. ASSUME NEW h \in i .. j, TileAt(s, i, h), TileAt(s, h, j) PROVE NoTypes(s, i, j)
  <2>1. h \in Nat /\ NoTypes(s, i, h) /\ NoTypes(s, h, j)
    BY <1>1, <1>2
  <2> QED BY <2>1, NoTypesJoin
<1> QED BY <1>1, <1>2 DEF TilesAt

LEMMA TightTypes ==
    ASSUME NEW s, NEW i \in Nat, NEW j \in Nat, NEW x, x.length \in BOOLEAN
    PROVE  TightAt(s, i, j, x) => NoTypes(s, i, j)
<1> DEFINE n == x.rect[2]
<1> HIDE DEF n
<1>1. ASSUME NEW a \in Nat, a + 1 <= j, s[a].t # "type", NoTypes(s, a + 1, j) PROVE NoTypes(s, a, j)
  BY <1>1 DEF NoTypes
<1>2. ASSUME NEW a \in Nat, PaletteAt(s, a, j, n) PROVE NoTypes(s, a, j)
  <2>1. a + 2 <= j /\ s[a].t = "colors" /\ s[a + 1].t = "palette" /\ NoTypes(s, a + 2, j)
    <3>1. a + 2 <= j /\ s[a].t = "colors" /\ s[a + 1].t = "palette" /\ PixelsAt(s, a + 2, j, n)
      BY <1>2 DEF PaletteAt
    <3>2. a + 2 \in Nat
      OBVIOUS
    <3> QED BY <3>1, <3>2, PixelTypes
  <2> QED BY <2>1 DEF NoTypes
<1>3. ASSUME NEW a \in Nat, FilterAt(s, a, j, n) PROVE NoTypes(s, a, j)
  <2>1. a + 1 <= j /\ s[a].t = "filter" /\ (PixelsAt(s, a + 1, j, n) \/ PaletteAt(s, a + 1, j, n))
    BY <1>3 DEF FilterAt
  <2>2. a + 1 \in Nat
    OBVIOUS
  <2>3. NoTypes(s, a + 1, j)
    BY <2>1, <2>2, <1>2, PixelTypes
  <2> QED BY <2>1, <2>3, <1>1
<1>4. ASSUME CtlAt(s, i, j, n) PROVE NoTypes(s, i, j)
  <2>1. i + 1 <= j /\ s[i].t = "ctl" /\ (\/ One(s, i + 1, j, "pixels") \/ Two(s, i + 1, j, "length", "data")
                                         \/ PixelsAt(s, i + 1, j, n) \/ FilterAt(s, i + 1, j, n))
    BY <1>4 DEF CtlAt
  <2>2. i + 1 \in Nat
    OBVIOUS
  <2>3. One(s, i + 1, j, "pixels") => NoTypes(s, i + 1, j)
    BY <2>2, FieldTypes
  <2>4. Two(s, i + 1, j, "length", "data") => NoTypes(s, i + 1, j)
    BY <2>2, FieldTypes
  <2>5. PixelsAt(s, i + 1, j, n) \/ FilterAt(s, i + 1, j, n) => NoTypes(s, i + 1, j)
    BY <2>2, <1>3, PixelTypes
  <2>6. NoTypes(s, i + 1, j)
    BY <2>1, <2>3, <2>4, <2>5
  <2> QED BY <2>1, <2>6, <1>1
<1>5. ASSUME TightAt(s, i, j, x)
      PROVE  \/ CtlAt(s, i, j, n) \/ One(s, i, j, "pixels") \/ DeflatedAt(s, i, j, x.length) \/ PixelsAt(s, i, j, n)
             \/ DataAt(s, i, j, n, x.length) \/ FilterAt(s, i, j, n) \/ PaletteAt(s, i, j, n)
  BY <1>5, Zenon DEF TightAt, n
<1>6. One(s, i, j, "pixels") => NoTypes(s, i, j)
  BY FieldTypes
<1>7. DeflatedAt(s, i, j, x.length) \/ PixelsAt(s, i, j, n) \/ DataAt(s, i, j, n, x.length) => NoTypes(s, i, j)
  BY PixelTypes
<1> QED BY <1>2, <1>3, <1>4, <1>5, <1>6, <1>7, Zenon

LEMMA JpegTypes ==
    ASSUME NEW s, NEW i \in Nat, NEW j \in Nat, NEW segs
    PROVE  JpegAt(s, i, j, segs) => NoTypes(s, i, j)
<1>1. ASSUME NEW a \in Nat, EndAt(s, a, j) PROVE NoTypes(s, a, j)
  BY <1>1 DEF EndAt, SegmentAt, NoTypes
<1>2. ASSUME NEW a \in Nat, NEW v, BlockAt(s, a, v) PROVE NoTypes(s, a, a + 3)
  BY <1>2 DEF BlockAt, SegmentAt, NoTypes
<1>3. ASSUME NEW a \in Nat, ScanAt(s, a, j) PROVE NoTypes(s, a, j)
  <2>1. NoTypes(s, a, a + 3) /\ NoTypes(s, a + 4, j) /\ s[a + 3].t = "entropy"
    BY <1>1, <1>2, <1>3 DEF ScanAt
  <2> QED BY <2>1 DEF NoTypes
<1>4. ASSUME NEW a \in Nat, FrameAt(s, a, j) PROVE NoTypes(s, a, j)
  <2>1. NoTypes(s, a, a + 3) /\ NoTypes(s, a + 3, j)
    BY <1>2, <1>3, <1>4 DEF FrameAt
  <2> QED BY <2>1, NoTypesJoin
<1>5. ASSUME NEW a \in Nat, TablesAt(s, a, j) PROVE NoTypes(s, a, j)
  <2>1. NoTypes(s, a, a + 3) /\ NoTypes(s, a + 3, j)
    BY <1>2, <1>4, <1>5 DEF TablesAt
  <2> QED BY <2>1, NoTypesJoin
<1>6. ASSUME SegmentAt(s, i, "start"), TablesAt(s, i + 1, j) \/ FrameAt(s, i + 1, j) PROVE NoTypes(s, i, j)
  <2>1. NoTypes(s, i + 1, j)
    BY <1>4, <1>5, <1>6
  <2> QED BY <1>6, <2>1 DEF NoTypes, SegmentAt
<1> QED BY <1>1, <1>3, <1>4, <1>5, <1>6, Zenon DEF JpegAt

LEMMA BodyTypes ==
    ASSUME NEW s, NEW i \in Nat, NEW j \in Nat, NEW x, x.length \in BOOLEAN, x.left \in Nat, BodyAt(s, i, j, x)
    PROVE  NoTypes(s, i, j)
<1> DEFINE m == IF x.left = 0 THEN x.rect[2] ELSE x.left
<1>1. \/ \E t \in {"line", "subrect"} : All(s, i, j, t)
      \/ \E t \in {"source", "h264", "data", "leds"} : One(s, i, j, t)
      \/ Two(s, i, j, "h264", "data") \/ Two(s, i, j, "cursor", "data") \/ Two(s, i, j, "length", "data")
      \/ Counted(s, i, j, "count", "subrect") \/ Counted(s, i, j, "screens", "screen")
      \/ TilesAt(s, i, j, m) \/ DeflatedAt(s, i, j, x.length) \/ TightAt(s, i, j, x) \/ JpegAt(s, i, j, x.segs)
      \/ j = i
  BY ZenonT(40) DEF BodyAt
<1> HIDE DEF m
<1>2. (\E t \in {"line", "subrect"} : All(s, i, j, t)) => NoTypes(s, i, j)
  BY FieldTypes
<1>3. (\E t \in {"source", "h264", "data", "leds"} : One(s, i, j, t)) => NoTypes(s, i, j)
  BY FieldTypes
<1>4. Two(s, i, j, "h264", "data") \/ Two(s, i, j, "cursor", "data") \/ Two(s, i, j, "length", "data") => NoTypes(s, i, j)
  BY FieldTypes
<1>5. Counted(s, i, j, "count", "subrect") \/ Counted(s, i, j, "screens", "screen") => NoTypes(s, i, j)
  BY FieldTypes
<1>6. TilesAt(s, i, j, m) \/ TightAt(s, i, j, x) \/ JpegAt(s, i, j, x.segs) => NoTypes(s, i, j)
  BY TileTypes, TightTypes, JpegTypes
<1>7. DeflatedAt(s, i, j, x.length) => NoTypes(s, i, j)
  BY PixelTypes
<1>8. j = i => NoTypes(s, i, j)
  BY FieldTypes
<1> QED BY <1>1, <1>2, <1>3, <1>4, <1>5, <1>6, <1>7, <1>8, Zenon

(***************************************************************************)
(* The stream goes on: fields are read from its front, messages are added at *)
(* its end.                                                                 *)
(***************************************************************************)
GoesOn(s, u, i, m) ==
    /\ Len(s) \in Nat /\ Len(u) \in Nat /\ i \in Nat \ {0} /\ i + m \in Nat \ {0} /\ m \in Int
    /\ \A k \in i .. Len(s) : u[k + m] = s[k]
    /\ Len(u) = Len(s) + m \/ (Len(u) > Len(s) + m /\ u[Len(s) + m + 1].t = "type")

LEMMA EndsMove ==
    ASSUME NEW s, NEW u, NEW i, NEW m, GoesOn(s, u, i, m), NEW a \in Nat, i <= a, Ends(s, a)
    PROVE  Ends(u, a + m)
BY DEF GoesOn, Ends

LEMMA RectMoves ==
    ASSUME NEW s, NEW u, NEW i, NEW m, GoesOn(s, u, i, m), NEW a \in Nat, i <= a, NEW j \in Nat, RectAt(s, a, j)
    PROVE  RectAt(u, a + m, j + m) /\ a < j /\ j <= Len(s) + 1
<1>1. /\ a <= Len(s) /\ s[a].t = "rect" /\ BodyAt(s, a + 1, j, Fresh(s[a].v, s[a].n))
      /\ a + 1 <= j /\ j <= Len(s) + 1
  <2>1. a <= Len(s) /\ s[a].t = "rect" /\ BodyAt(s, a + 1, j, Fresh(s[a].v, s[a].n))
    BY DEF RectAt
  <2>2. a + 1 <= j /\ j <= Len(s) + 1
    BY <2>1 DEF BodyAt
  <2> QED BY <2>1, <2>2
<1>2. /\ u[a + m] = s[a] /\ Same(s, u, a + 1, j, m) /\ a + m <= Len(u) /\ j + m <= Len(u) + 1
      /\ m \in Int /\ a + 1 \in Nat /\ (a + 1) + m \in Nat /\ Len(s) \in Nat /\ Len(u) \in Nat
  <2>1. /\ Len(s) \in Nat /\ Len(u) \in Nat /\ m \in Int /\ Len(u) >= Len(s) + m /\ i \in Nat /\ i + m >= 1
        /\ \A k \in i .. Len(s) : u[k + m] = s[k]
    BY DEF GoesOn
  <2>2. \A k \in a + 1 .. j - 1 : k \in i .. Len(s)
    BY <1>1, <2>1
  <2>3. Same(s, u, a + 1, j, m)
    BY <2>1, <2>2 DEF Same
  <2>4. u[a + m] = s[a]
    BY <1>1, <2>1
  <2>5. /\ a + m <= Len(u) /\ j + m <= Len(u) + 1 /\ a + 1 \in Nat /\ (a + 1) + m \in Nat
    <3>1. a + m <= Len(u)
      BY <1>1, <2>1
    <3>2. j + m <= Len(u) + 1
      BY <1>1, <2>1
    <3>3. a + 1 \in Nat /\ (a + 1) + m \in Nat
      BY <2>1
    <3> QED BY <3>1, <3>2, <3>3
  <2> QED BY <2>1, <2>3, <2>4, <2>5
<1> DEFINE x == Fresh(s[a].v, s[a].n)
<1>3. x.left \in Nat /\ x.length \in BOOLEAN
  BY DEF Fresh, PInit
<1> HIDE DEF x
<1>4. BodyAt(s, a + 1, j, x)
  BY <1>1 DEF x
<1>5. BodyAt(u, (a + 1) + m, j + m, x)
  BY <1>2, <1>3, <1>4, BodyMoves
<1>6. (a + 1) + m = (a + m) + 1
  BY <1>2
<1> QED BY <1>1, <1>2, <1>5, <1>6 DEF RectAt, x

LEMMA RestMoves ==
    ASSUME NEW s, NEW u, NEW i, NEW m, GoesOn(s, u, i, m), NEW a \in Nat, i <= a, NEW r, RestAt(s, a, r)
    PROVE  RestAt(u, a + m, r)
<1>1. Len(s) \in Nat /\ Len(u) \in Nat /\ m \in Int /\ Len(u) >= Len(s) + m /\ i \in Nat /\ i + m >= 1
  BY DEF GoesOn
<1>2. ASSUME NEW b \in Nat, i <= b, Rest1(s, b) PROVE Rest1(u, b + m)
  <2>1. PICK j \in 1 .. Len(s) + 1 : RectAt(s, b, j) /\ Ends(s, j)
    BY <1>2 DEF Rest1
  <2>2. j \in Nat /\ b < j
    <3>1. j \in Nat
      BY <1>1, <2>1
    <3> QED BY <1>2, <2>1, <3>1, RectMoves
  <2>5. RectAt(u, b + m, j + m)
    BY <1>2, <2>1, <2>2, RectMoves
  <2>6. i <= j
    BY <1>1, <1>2, <2>2
  <2>7. Ends(u, j + m)
    BY <2>1, <2>2, <2>6, EndsMove
  <2>4. j + m \in 1 .. Len(u) + 1
    BY <1>1, <1>2, <2>1, <2>2
  <2> QED BY <2>4, <2>5, <2>7 DEF Rest1
<1>3. ASSUME NEW b \in Nat, i <= b, LastAt(s, b) PROVE LastAt(u, b + m)
  <2>1. b <= Len(s) /\ s[b].t = "rect" /\ s[b].v = "last" /\ Ends(s, b + 1) /\ u[b + m] = s[b] /\ b + m <= Len(u)
    BY <1>3, <1>1 DEF LastAt, GoesOn
  <2>2. Ends(u, (b + 1) + m)
    <3>1. b + 1 \in Nat /\ i <= b + 1
      BY <1>1, <1>3
    <3> QED BY <2>1, <3>1, EndsMove
  <2>3. (b + 1) + m = (b + m) + 1
    BY <1>1
  <2> QED BY <2>1, <2>2, <2>3 DEF LastAt
<1>4. CASE r = 0 /\ Rest0(s, a)
  BY <1>4, EndsMove DEF RestAt, Rest0
<1>5. CASE r = 1 /\ Rest1(s, a)
  BY <1>5, <1>2 DEF RestAt
<1>6. CASE r = 2 /\ Rest2(s, a)
  <2>1. CASE LastAt(s, a)
    BY <1>3, <1>6, <2>1 DEF RestAt, Rest2
  <2>2. ASSUME NEW j \in 1 .. Len(s) + 1, RectAt(s, a, j), Rest1(s, j) PROVE RestAt(u, a + m, r)
    <3>1. j \in Nat /\ i <= j /\ RectAt(u, a + m, j + m) /\ j + m \in 1 .. Len(u) + 1
      BY <1>1, <2>2, RectMoves
    <3>2. Rest1(u, j + m)
      BY <1>2, <2>2, <3>1
    <3> QED BY <1>6, <3>1, <3>2 DEF RestAt, Rest2
  <2> QED BY <1>6, <2>1, <2>2 DEF Rest2
<1>7. CASE r = 3 /\ Rest3(s, a)
  <2>1. CASE LastAt(s, a)
    BY <1>3, <1>7, <2>1 DEF RestAt, Rest3
  <2>2. ASSUME NEW j \in 1 .. Len(s) + 1, RectAt(s, a, j), LastAt(s, j) PROVE RestAt(u, a + m, r)
    <3>1. j \in Nat /\ i <= j /\ RectAt(u, a + m, j + m) /\ j + m \in 1 .. Len(u) + 1
      BY <1>1, <2>2, RectMoves
    <3>2. LastAt(u, j + m)
      BY <1>3, <2>2, <3>1
    <3> QED BY <1>7, <3>1, <3>2 DEF RestAt, Rest3
  <2> QED BY <1>7, <2>1, <2>2 DEF Rest3
<1> QED BY <1>4, <1>5, <1>6, <1>7 DEF RestAt

LEMMA MessageMoves ==
    ASSUME NEW s, NEW u, NEW i, NEW m, GoesOn(s, u, i, m), NEW a \in Nat, i <= a, MessageAt(s, a)
    PROVE  MessageAt(u, a + m)
<1>1. /\ Len(s) \in Nat /\ Len(u) \in Nat /\ m \in Int /\ Len(u) >= Len(s) + m /\ i \in Nat /\ i + m >= 1
      /\ a <= Len(s) /\ s[a] = U("type", s[a].v)
  BY DEF GoesOn, MessageAt
<1>2. ASSUME NEW h \in {0, 1, 2, 3, 4}
      PROVE  /\ a + h <= Len(s) => u[(a + m) + h] = s[a + h] /\ (a + m) + h <= Len(u)
             /\ Ends(s, a + h) => Ends(u, (a + m) + h)
  <2>1. a + h \in Nat /\ i <= a + h /\ (a + h) + m = (a + m) + h
    BY <1>1
  <2>2. a + h <= Len(s) => u[(a + h) + m] = s[a + h]
    BY <2>1 DEF GoesOn
  <2>3. Ends(s, a + h) => Ends(u, (a + h) + m)
    BY <2>1, EndsMove
  <2>4. a + h <= Len(s) => (a + m) + h <= Len(u)
    BY <1>1
  <2> QED BY <2>1, <2>2, <2>3, <2>4
<1>3. u[a + m] = s[a] /\ a + m <= Len(u)
  BY <1>1 DEF GoesOn
<1>4. CASE s[a].v = "update"
  <2>1. a < Len(s) /\ s[a + 1].t = "rects" /\ s[a + 1].n \in 0 .. 3 /\ RestAt(s, a + 2, s[a + 1].n)
    BY <1>4 DEF MessageAt
  <2>2. RestAt(u, (a + 2) + m, s[a + 1].n)
    <3>1. a + 2 \in Nat /\ i <= a + 2
      BY <1>1
    <3> QED BY <2>1, <3>1, RestMoves
  <2>3. (a + 2) + m = (a + m) + 2 /\ u[(a + m) + 1] = s[a + 1] /\ a + m < Len(u)
    BY <1>1, <1>2, <2>1
  <2> QED BY <1>1, <1>3, <1>4, <2>1, <2>2, <2>3 DEF MessageAt
<1>10. /\ a + 1 <= Len(s) => u[(a + m) + 1] = s[a + 1] /\ (a + m) + 1 <= Len(u)
       /\ a + 2 <= Len(s) => u[(a + m) + 2] = s[a + 2] /\ (a + m) + 2 <= Len(u)
       /\ a + 3 <= Len(s) => u[(a + m) + 3] = s[a + 3] /\ (a + m) + 3 <= Len(u)
       /\ Ends(s, a + 1) => Ends(u, (a + m) + 1)
       /\ Ends(s, a + 2) => Ends(u, (a + m) + 2)
       /\ Ends(s, a + 3) => Ends(u, (a + m) + 3)
       /\ Ends(s, a + 4) => Ends(u, (a + m) + 4)
  BY <1>2
<1>11. /\ (a + m) + 1 <= Len(u) + 1
       /\ a + 2 <= Len(s) => a + 1 <= Len(s)
       /\ a + 3 <= Len(s) => a + 2 <= Len(s)
  BY <1>1, <1>3
<1>5. CASE s[a].v = "cuttext"
  BY <1>1, <1>3, <1>5, <1>10, <1>11 DEF MessageAt
<1>6. CASE s[a].v = "fence"
  BY <1>1, <1>3, <1>6, <1>10, <1>11 DEF MessageAt
<1>7. CASE s[a].v = "xvp"
  BY <1>1, <1>3, <1>7, <1>10, <1>11 DEF MessageAt
<1>8. CASE s[a].v \in {"bell", "endofcontinuous"}
  BY <1>1, <1>3, <1>8, <1>10, <1>11 DEF MessageAt
<1>9. s[a].v \in {"update", "cuttext", "fence", "xvp", "bell", "endofcontinuous"}
  BY DEF MessageAt
<1> QED BY <1>4, <1>5, <1>6, <1>7, <1>8, <1>9

Dropped(s, u, n) ==
    /\ Len(s) \in Nat /\ Len(u) \in Nat /\ n \in Nat /\ n <= Len(s) /\ Len(u) = Len(s) - n
    /\ \A k \in 1 .. Len(u) : u[k] = s[k + n]
Added(s, u) ==
    /\ Len(s) \in Nat /\ Len(u) \in Nat /\ Len(u) > Len(s) /\ u[Len(s) + 1].t = "type"
    /\ \A k \in 1 .. Len(s) : u[k] = s[k]

LEMMA DroppedGoesOn ==
    ASSUME NEW s, NEW u, NEW n, Dropped(s, u, n)
    PROVE  GoesOn(s, u, n + 1, -n)
<1>1. ASSUME NEW k \in n + 1 .. Len(s) PROVE u[k + (-n)] = s[k]
  <2>1. k - n \in 1 .. Len(u) /\ (k - n) + n = k /\ k + (-n) = k - n
    BY DEF Dropped
  <2> QED BY <2>1 DEF Dropped
<1>2. /\ Len(s) \in Nat /\ Len(u) \in Nat /\ n + 1 \in Nat \ {0} /\ (n + 1) + (-n) \in Nat \ {0} /\ -n \in Int
      /\ Len(u) = Len(s) + (-n)
  BY DEF Dropped
<1> QED BY <1>1, <1>2 DEF GoesOn

LEMMA AddedGoesOn ==
    ASSUME NEW s, NEW u, Added(s, u)
    PROVE  GoesOn(s, u, 1, 0)
<1>1. \A k \in 1 .. Len(s) : u[k + 0] = s[k]
  BY DEF Added
<1>2. Len(s) + 0 = Len(s) /\ Len(s) + 0 + 1 = Len(s) + 1
  BY DEF Added
<1> QED BY <1>1, <1>2 DEF Added, GoesOn

LEMMA WholeStays ==
    ASSUME NEW s, NEW u, Whole(s)
    PROVE  /\ \A n : Dropped(s, u, n) => Whole(u)
           /\ Added(s, u) /\ MessageAt(u, Len(s) + 1) /\ NoTypes(u, Len(s) + 2, Len(u) + 1) => Whole(u)
<1>1. ASSUME NEW n, Dropped(s, u, n) PROVE Whole(u)
  <2>1. SUFFICES ASSUME NEW i \in 1 .. Len(u), u[i].t = "type" PROVE MessageAt(u, i)
    BY DEF Whole
  <2>2. i + n \in 1 .. Len(s) /\ s[i + n].t = "type" /\ n \in Nat /\ i + n \in Nat /\ n + 1 <= i + n
    BY <1>1, <2>1 DEF Dropped
  <2>3. MessageAt(s, i + n)
    BY <2>2 DEF Whole
  <2>4. GoesOn(s, u, n + 1, -n)
    BY <1>1, DroppedGoesOn
  <2>5. MessageAt(u, (i + n) + (-n))
    BY <2>2, <2>3, <2>4, MessageMoves
  <2>6. (i + n) + (-n) = i
    BY <2>2
  <2> QED BY <2>5, <2>6
<1>2. ASSUME Added(s, u), MessageAt(u, Len(s) + 1), NoTypes(u, Len(s) + 2, Len(u) + 1) PROVE Whole(u)
  <2>1. SUFFICES ASSUME NEW i \in 1 .. Len(u), u[i].t = "type" PROVE MessageAt(u, i)
    BY DEF Whole
  <2>2. Len(s) \in Nat /\ Len(u) \in Nat /\ \A k \in 1 .. Len(s) : u[k] = s[k]
    BY <1>2 DEF Added
  <2>3. ~(i \in Len(s) + 2 .. (Len(u) + 1) - 1)
    BY <1>2, <2>1 DEF NoTypes
  <2>4. i \in 1 .. Len(s) \/ i = Len(s) + 1
    BY <2>2, <2>3
  <2>5. CASE i \in 1 .. Len(s)
    <3>1. MessageAt(s, i)
      BY <2>1, <2>2, <2>5 DEF Whole
    <3>2. MessageAt(u, i + 0)
      BY <1>2, <2>5, <3>1, AddedGoesOn, MessageMoves
    <3> QED BY <3>2
  <2> QED BY <1>2, <2>4, <2>5
<1> QED BY <1>1, <1>2

UpsKept(s, u) ==
    /\ Ups(s) = {} => Ups(u) = {}
    /\ (\E i \in 1 .. Len(s) : Ups(s) = {i}) => \E i \in 1 .. Len(u) : Ups(u) = {i}
    /\ \A v : (\E i \in 1 .. Len(u) : u[i] = U("type", v)) => \E i \in 1 .. Len(s) : s[i] = U("type", v)

LEMMA UpsStay ==
    ASSUME NEW s, NEW u, NEW n, Dropped(s, u, n), \A k \in 1 .. n : s[k] # U("type", "update")
    PROVE  /\ UpsKept(s, u)
           /\ Ups(s) = {} => Ups(u) = {}
           /\ (\E i \in 1 .. Len(s) : Ups(s) = {i}) => \E i \in 1 .. Len(u) : Ups(u) = {i}
           /\ \A v : (\E i \in 1 .. Len(u) : u[i] = U("type", v)) => \E i \in 1 .. Len(s) : s[i] = U("type", v)
<1>2. /\ Len(s) \in Nat /\ Len(u) \in Nat /\ n \in Nat /\ n <= Len(s) /\ Len(u) = Len(s) - n
      /\ \A k \in 1 .. Len(u) : u[k] = s[k + n] /\ k + n \in 1 .. Len(s)
  BY DEF Dropped
<1>3. Ups(s) = {} => Ups(u) = {}
  BY <1>2 DEF Ups
<1>4. ASSUME NEW i \in 1 .. Len(s), Ups(s) = {i} PROVE \E h \in 1 .. Len(u) : Ups(u) = {h}
  <2>1. s[i] = U("type", "update")
    BY <1>4 DEF Ups
  <2>2. i > n
    BY <1>2, <2>1
  <2>3. i - n \in 1 .. Len(u) /\ (i - n) + n = i
    BY <1>2, <2>2
  <2>4. i - n \in Ups(u)
    BY <1>2, <1>4, <2>3 DEF Ups
  <2>5. ASSUME NEW k \in Ups(u) PROVE k = i - n
    <3>1. k \in 1 .. Len(u) /\ k + n \in Ups(s)
      BY <1>2, <2>5 DEF Ups
    <3> QED BY <1>2, <1>4, <3>1
  <2> QED BY <2>3, <2>4, <2>5
<1>5. \A v : (\E i \in 1 .. Len(u) : u[i] = U("type", v)) => \E i \in 1 .. Len(s) : s[i] = U("type", v)
  BY <1>2
<1> QED BY <1>3, <1>4, <1>5, Zenon DEF UpsKept

LEMMA StreamFields ==
    ASSUME Typed
    PROVE  /\ Len(q) \in Nat /\ Len(wire) \in Nat /\ Len(Stream) = Len(q) + Len(wire) /\ Stream \in Seq(Unit)
           /\ \A k \in 1 .. Len(q) : q[k] = Stream[k]
           /\ \A k \in 1 .. Len(Stream) : Stream[k] \in Unit
           /\ wire = <<>> <=> Len(wire) = 0
           /\ q = <<>> <=> Len(q) = 0
BY DEF Typed, Stream

LEMMA Consumes ==
    ASSUME Typed, NEW n \in Nat, n <= Len(q), q' = SubSeq(q, n + 1, Len(q)), wire' = wire
    PROVE  Dropped(Stream, Stream', n) /\ q' \in Seq(Unit) /\ wire' \in Seq(Unit) /\ Len(q') = Len(q) - n
<1>1. q \in Seq(Unit) /\ wire \in Seq(Unit)
  BY DEF Typed
<1>2. PICK r \in Seq(Unit) : r = q' /\ Len(r) = Len(q) - n /\ \A k \in 1 .. Len(r) : r[k] = q[k + n]
  <2>1. Len(q) \in Nat /\ \A i \in n + 1 .. Len(q) : q[i] \in Unit
    BY <1>1
  <2>2. n + 1 \in Int /\ Len(q) \in Int
    BY <2>1
  <2>3. /\ SubSeq(q, n + 1, Len(q)) \in Seq(Unit)
        /\ Len(SubSeq(q, n + 1, Len(q))) = (IF n + 1 <= Len(q) THEN Len(q) - (n + 1) + 1 ELSE 0)
        /\ \A i \in 1 .. Len(q) - (n + 1) + 1 : SubSeq(q, n + 1, Len(q))[i] = q[(n + 1) + i - 1]
    BY <2>1, <2>2, SubSeqProperties
  <2>4. Len(SubSeq(q, n + 1, Len(q))) = Len(q) - n
    BY <2>1, <2>3
  <2>5. \A k \in 1 .. Len(q) - n : SubSeq(q, n + 1, Len(q))[k] = q[k + n]
    BY <2>1, <2>3
  <2> QED BY <2>3, <2>4, <2>5
<1>3. Len(r) = Len(q) - n /\ \A k \in 1 .. Len(r) : r[k] = q[k + n]
  BY <1>2
<1>4. /\ Len(q \o wire) = Len(q) + Len(wire) /\ Len(r \o wire) = Len(r) + Len(wire)
      /\ Len(q) \in Nat /\ Len(r) \in Nat /\ Len(wire) \in Nat
      /\ \A k \in 1 .. Len(r) + Len(wire) : (r \o wire)[k] = IF k <= Len(r) THEN r[k] ELSE wire[k - Len(r)]
      /\ \A k \in 1 .. Len(q) + Len(wire) : (q \o wire)[k] = IF k <= Len(q) THEN q[k] ELSE wire[k - Len(q)]
  BY <1>1
<1>5. ASSUME NEW k \in 1 .. Len(r) + Len(wire) PROVE (r \o wire)[k] = (q \o wire)[k + n]
  <2>1. k + n \in 1 .. Len(q) + Len(wire) /\ (k <= Len(r) <=> k + n <= Len(q)) /\ (k + n) - Len(q) = k - Len(r)
    BY <1>3, <1>4
  <2>2. k + n \in Nat
    BY <2>1
  <2>3. (q \o wire)[k + n] = IF k + n <= Len(q) THEN q[k + n] ELSE wire[(k + n) - Len(q)]
    BY <1>4, <2>1, Zenon
  <2>4. (r \o wire)[k] = IF k <= Len(r) THEN r[k] ELSE wire[k - Len(r)]
    BY <1>4, Zenon
  <2>5. CASE k <= Len(r)
    <3>1. k \in 1 .. Len(r)
      BY <1>4, <2>5
    <3>2. r[k] = q[k + n]
      BY <1>3, <3>1, Zenon
    <3> QED BY <2>1, <2>3, <2>4, <2>5, <3>2, Zenon
  <2>6. CASE ~(k <= Len(r))
    BY <2>1, <2>3, <2>4, <2>6, Zenon
  <2> QED BY ONLY <2>5, <2>6
<1>6. Dropped(q \o wire, r \o wire, n)
  <2>1. PICK a, b : a = q \o wire /\ b = r \o wire
    OBVIOUS
  <2>2. Len(a) = Len(q) + Len(wire) /\ Len(b) = Len(r) + Len(wire)
    BY <1>4, <2>1, Zenon
  <2>3. \A k \in 1 .. Len(b) : b[k] = a[k + n]
    BY <1>5, <2>1, <2>2, Zenon
  <2>4. Len(a) \in Nat /\ Len(b) \in Nat /\ n <= Len(a) /\ Len(b) = Len(a) - n
    BY <1>3, <1>4, <2>2
  <2>5. Dropped(a, b, n)
    BY <2>3, <2>4, Zenon DEF Dropped
  <2> QED BY <2>1, <2>5, Zenon
<1> QED BY <1>1, <1>2, <1>3, <1>6 DEF Stream

(***************************************************************************)
(* The three ways a handler goes on: it reads and stays in the rectangle, it *)
(* ends the rectangle, it waits for more.                                    *)
(***************************************************************************)
LEMMA NoUpdates ==
    ASSUME NEW s, NEW n \in Nat, NoTypes(s, 1, n + 1)
    PROVE  \A k \in 1 .. n : s[k] # U("type", "update")
BY DEF NoTypes, U

LEMMA PassStep ==
    ASSUME StreamInv, at = "msg", p.rects > 0,
           NEW n \in Nat, n <= Len(q), NEW x \in Parser, NEW y, Read(n, x, y),
           x.rects = p.rects, x.cont = p.cont, x.flushing = p.flushing, Memory(x),
           NoTypes(Stream, 1, n + 1), Dropped(Stream, Stream', n) => Reading(x, Stream')
    PROVE  StreamInv'
<1>1. /\ Typed /\ Reading(p, Stream) /\ Whole(Stream) /\ AskedOnce(p, Stream) /\ Announced(p, Stream) /\ Resting
  BY DEF StreamInv
<1>2. q' = SubSeq(q, n + 1, Len(q)) /\ p' = x /\ at' = at /\ wire' = wire /\ srv' = srv
  BY DEF Read
<1>3. Dropped(Stream, Stream', n) /\ q' \in Seq(Unit) /\ wire' \in Seq(Unit)
  BY <1>1, <1>2, Consumes
<1>4. p.flushing = FALSE
  BY <1>1 DEF Resting, Typed, Parser
<1>5. Typed'
  BY <1>1, <1>2, <1>3 DEF Typed
<1>6. Reading(p', Stream') /\ Memory(p')
  BY <1>2, <1>3
<1>7. Whole(Stream')
  BY <1>1, <1>3, WholeStays
<1>8. AskedOnce(p, Stream)' /\ Announced(p, Stream)'
  <2>1. /\ Ups(Stream) = {} => Ups(Stream') = {}
        /\ (\E i \in 1 .. Len(Stream) : Ups(Stream) = {i}) => \E i \in 1 .. Len(Stream') : Ups(Stream') = {i}
        /\ \A v : (\E i \in 1 .. Len(Stream') : Stream'[i] = U("type", v)) =>
                    \E i \in 1 .. Len(Stream) : Stream[i] = U("type", v)
    <3>1. \A k \in 1 .. n : Stream[k] # U("type", "update")
      BY NoUpdates
    <3>2. UpsKept(Stream, Stream')
      BY <1>3, <3>1, UpsStay
    <3> QED BY <3>2, Zenon DEF UpsKept
  <2> QED BY <1>1, <1>2, <2>1 DEF AskedOnce, Announced
<1>9. Pushed' /\ Resting'
  BY <1>2, <1>4 DEF Pushed, Resting
<1> QED BY <1>5, <1>6, <1>7, <1>8, <1>9 DEF StreamInv

LEMMA BodyStays ==
    ASSUME NEW s, NEW u, NEW n, Dropped(s, u, n), NEW x \in Parser, x.rect # <<>>, x.rect[1] # "last", x.rects > 0,
           NEW j \in Nat, n + 1 <= j, j <= Len(s) + 1, BodyAt(s, n + 1, j, x), RestAt(s, j, x.rects - 1)
    PROVE  Reading(x, u)
<1>1. GoesOn(s, u, n + 1, -n)
  BY DroppedGoesOn
<1>2. Len(u) = Len(s) - n /\ Len(u) \in Nat /\ Len(s) \in Nat /\ n \in Nat
  BY DEF Dropped
<1>3. /\ x.left \in Nat /\ x.length \in BOOLEAN
  BY DEF Parser
<1>4. /\ (n + 1) + (-n) = 1 /\ j + (-n) = j - n /\ n + 1 \in Nat /\ -n \in Int /\ (n + 1) + (-n) \in Nat
      /\ j + (-n) <= Len(u) + 1 /\ j - n \in 1 .. Len(u) + 1
  BY <1>2
<1>5. BodyAt(u, (n + 1) + (-n), j + (-n), x)
  <2>1. Same(s, u, n + 1, j, -n)
    <3>1. \A k \in n + 1 .. j - 1 : k \in n + 1 .. Len(s)
      BY <1>2
    <3> QED BY <1>1, <3>1 DEF GoesOn, Same
  <2> QED BY <1>2, <1>3, <1>4, <2>1, BodyMoves
<1>6. RestAt(u, j + (-n), x.rects - 1)
  BY <1>1, RestMoves
<1>7. BodyAt(u, 1, j - n, x) /\ RestAt(u, j - n, x.rects - 1)
  BY <1>4, <1>5, <1>6
<1> QED BY <1>4, <1>7, Zenon DEF Reading

LEMMA ReadStep ==
    ASSUME StreamInv, at = "msg", p.rect # <<>>, p.rect[1] # "last",
           NEW n \in Nat, n <= Len(q), NEW x \in Parser, NEW y, Read(n, x, y),
           x.rects = p.rects, x.rect = p.rect, x.cont = p.cont, x.flushing = p.flushing, Memory(x),
           NEW j \in 1 .. Len(Stream) + 1, n + 1 <= j,
           BodyAt(Stream, 1, j, p), RestAt(Stream, j, p.rects - 1), BodyAt(Stream, n + 1, j, x)
    PROVE  StreamInv'
<1>1. Typed /\ Reading(p, Stream)
  BY DEF StreamInv
<1>2. p.rects > 0
  BY <1>1 DEF Reading
<1>3. Len(Stream) \in Nat /\ j \in Nat /\ j <= Len(Stream) + 1
  <2>1. Len(Stream) \in Nat
    BY <1>1, StreamFields
  <2> QED BY <2>1
<1>4. NoTypes(Stream, 1, n + 1)
  <2>1. p.left \in Nat /\ p.length \in BOOLEAN
    BY <1>1 DEF Typed, Parser
  <2>2. NoTypes(Stream, 1, j)
    BY <1>3, <2>1, BodyTypes
  <2> QED BY <1>3, <2>2 DEF NoTypes
<1>5. ASSUME Dropped(Stream, Stream', n) PROVE Reading(x, Stream')
  <2>1. PICK s, u : s = Stream /\ u = Stream'
    OBVIOUS
  <2>2. Dropped(s, u, n) /\ j <= Len(s) + 1 /\ BodyAt(s, n + 1, j, x) /\ RestAt(s, j, x.rects - 1)
    BY <1>3, <1>5, <2>1
  <2>3. x.rect # <<>> /\ x.rect[1] # "last" /\ x.rects > 0
    BY <1>2
  <2>4. Reading(x, u)
    BY <1>3, <2>2, <2>3, BodyStays
  <2> QED BY <2>1, <2>4, Zenon
<1> QED BY <1>2, <1>4, <1>5, PassStep

LEMMA DoneStep ==
    ASSUME StreamInv, at = "msg", p.rects > 0,
           NEW n \in Nat, n <= Len(q), NEW x \in Parser, NEW y, Done(n, x, y),
           x.rects > 0, x.cont = p.cont, x.flushing = p.flushing, Clean(x),
           NoTypes(Stream, 1, n + 1), RestAt(Stream, n + 1, x.rects - 1)
    PROVE  StreamInv'
<1>1. /\ Typed /\ Reading(p, Stream) /\ Whole(Stream) /\ AskedOnce(p, Stream) /\ Announced(p, Stream) /\ Resting
  BY DEF StreamInv
<1>2. /\ q' = SubSeq(q, n + 1, Len(q)) /\ wire' = wire
      /\ p' = [x EXCEPT !.rects = x.rects - 1, !.rect = <<>>]
      /\ srv' = IF x.rects = 1 /\ ~x.cont THEN [srv EXCEPT !.asked = srv.asked + 1] ELSE srv
      /\ at' = IF x.rects = 1 THEN NextMessage ELSE "msg"
  BY DEF Done, Asking
<1>3. Dropped(Stream, Stream', n) /\ q' \in Seq(Unit) /\ wire' \in Seq(Unit)
  BY <1>1, <1>2, Consumes
<1>4. p.flushing = FALSE /\ x.rects \in 1 .. 3 /\ srv \in Server
  BY <1>1 DEF Resting, Typed, Parser
<1>5. /\ p' \in Parser /\ p'.rects = x.rects - 1 /\ p'.rect = <<>> /\ p'.cont = p.cont /\ p'.flushing = FALSE
      /\ Clean(p')
  <2>1. x.rects - 1 \in 0 .. 3 /\ <<>> \in {<<>>} \cup (Word \X Nat)
    BY <1>4
  <2>2. p' \in Parser
    BY <1>2, <2>1 DEF Parser
  <2>3. p'.rects = x.rects - 1 /\ p'.rect = <<>> /\ p'.cont = x.cont /\ p'.flushing = x.flushing
    BY <1>2 DEF Parser
  <2>4. /\ p'.left = x.left /\ p'.length = x.length /\ p'.ctl = x.ctl /\ p'.filter = x.filter
        /\ p'.colors = x.colors /\ p'.segs = x.segs
    BY <1>2 DEF Parser
  <2> QED BY <1>4, <2>2, <2>3, <2>4 DEF Clean
<1>6. /\ srv' \in Server /\ srv'.ends = srv.ends /\ srv'.lost = srv.lost
      /\ srv'.asked = IF x.rects = 1 /\ ~x.cont THEN srv.asked + 1 ELSE srv.asked
  <2>1. PICK k \in Nat : k = srv.asked + 1
    BY <1>4 DEF Server
  <2>2. CASE x.rects = 1 /\ ~x.cont
    <3>1. srv' = [srv EXCEPT !.asked = k]
      BY <1>2, <2>1, <2>2, Zenon
    <3>2. srv' \in Server /\ srv'.ends = srv.ends /\ srv'.lost = srv.lost /\ srv'.asked = k
      BY ONLY <1>4, <2>1, <3>1 DEF Server
    <3> QED BY <2>1, <2>2, <3>2, Zenon
  <2>3. CASE ~(x.rects = 1 /\ ~x.cont)
    <3>1. srv' = srv
      BY <1>2, <2>3, Zenon
    <3> QED BY <1>4, <2>3, <3>1, Zenon
  <2> QED BY <2>2, <2>3
<1>7. Typed'
  BY <1>1, <1>2, <1>3, <1>5, <1>6 DEF Typed, NextMessage
<1>8. Reading(p', Stream')
  <2>1. GoesOn(Stream, Stream', n + 1, -n)
    BY <1>3, DroppedGoesOn
  <2>2. n + 1 \in Nat /\ (n + 1) + (-n) = 1
    OBVIOUS
  <2>3. RestAt(Stream', (n + 1) + (-n), x.rects - 1)
    BY <2>1, <2>2, RestMoves
  <2> QED BY <1>5, <2>2, <2>3 DEF Reading
<1>9. Whole(Stream')
  BY <1>1, <1>3, WholeStays
<1>10. AskedOnce(p, Stream)' /\ Announced(p, Stream)'
  <2>1. /\ Ups(Stream) = {} => Ups(Stream') = {}
        /\ \A v : (\E i \in 1 .. Len(Stream') : Stream'[i] = U("type", v)) =>
                    \E i \in 1 .. Len(Stream) : Stream[i] = U("type", v)
    <3>1. \A k \in 1 .. n : Stream[k] # U("type", "update")
      BY NoUpdates
    <3>2. UpsKept(Stream, Stream')
      BY <1>3, <3>1, UpsStay
    <3> QED BY <3>2, Zenon DEF UpsKept
  <2>2. Announced(p, Stream)'
    BY <1>1, <1>5, <1>6, <2>1 DEF Announced
  <2>3. CASE srv.ends
    BY <1>6, <2>2, <2>3 DEF AskedOnce
  <2>4. CASE ~srv.ends
    <3>1. srv.asked = 0 /\ srv.lost = 0 /\ Ups(Stream) = {} /\ p.cont = FALSE
      BY <1>1, <2>4 DEF AskedOnce, Announced, Typed, Parser
    <3>2. Ups(Stream') = {} /\ srv'.lost = 0 /\ srv'.asked = IF x.rects = 1 THEN 1 ELSE 0
      BY <1>6, <2>1, <3>1
    <3>3. p'.rects = 0 <=> x.rects = 1
      BY <1>4, <1>5
    <3>4. p'.rects > 0 <=> x.rects # 1
      BY <1>4, <1>5
    <3> QED BY <2>2, <3>2, <3>3, <3>4 DEF AskedOnce
  <2> QED BY <2>3, <2>4
<1>11. Pushed' /\ Resting'
  BY <1>2, <1>5 DEF Pushed, Resting, NextMessage
<1>12. Memory(p')
  BY <1>5 DEF Memory
<1> QED BY <1>7, <1>8, <1>9, <1>10, <1>11, <1>12 DEF StreamInv

LEMMA WaitStep ==
    ASSUME StreamInv, Len(Stream) > Len(q), at' = "idle", q' = q, wire' = wire, srv' = srv,
           p' \in Parser, p'.rects = p.rects, p'.cont = p.cont, p'.flushing = p.flushing, p'.rect = p.rect,
           Memory(p'), Reading(p', Stream)
    PROVE  StreamInv'
<1>1. Typed /\ wire # <<>>
  BY StreamFields DEF StreamInv
<1>2. Stream' = Stream
  BY DEF Stream
<1>3. Typed'
  BY <1>1 DEF Typed
<1>4. AskedOnce(p, Stream)' /\ Announced(p, Stream)'
  BY <1>2 DEF StreamInv, AskedOnce, Announced, Ups
<1>5. Pushed' /\ Resting'
  BY <1>1 DEF StreamInv, Pushed, Resting
<1>6. Whole(Stream)' /\ Reading(p, Stream)'
  BY <1>2 DEF StreamInv
<1> QED BY <1>3, <1>4, <1>5, <1>6 DEF StreamInv

LEMMA WaitsStep ==
    ASSUME StreamInv, Len(Stream) > Len(q), Wait
    PROVE  StreamInv'
<1>1. p' = p /\ at' = "idle" /\ q' = q /\ wire' = wire /\ srv' = srv
  BY DEF Wait
<1>2. p \in Parser /\ Memory(p) /\ Reading(p, Stream)
  BY DEF StreamInv, Typed
<1> QED BY <1>1, <1>2, WaitStep

(***************************************************************************)
(* The rectangles.                                                          *)
(***************************************************************************)
Alike(x)  == x \in Parser /\ x.rects = p.rects /\ x.rect = p.rect /\ x.cont = p.cont /\ x.flushing = p.flushing
Ahead(j)  == j \in 1 .. Len(Stream) + 1 /\ BodyAt(Stream, 1, j, p) /\ RestAt(Stream, j, p.rects - 1)

(* What holds while a rectangle of encoding enc is read.                    *)
Here(enc) == p.rect[1] = enc /\ Alike(p) /\ p.rects > 0 /\ at = "msg" /\ p.flushing = FALSE
Queue     == /\ Len(q) \in Nat /\ Len(Stream) \in Nat /\ Len(Stream) >= Len(q)
             /\ \A k \in 1 .. Len(q) : q[k] = Stream[k]
Kept(enc) ==
    /\ p.left \in Nat /\ p.length \in BOOLEAN /\ p.colors \in Nat
    /\ p.left # 0 => enc \in {"raw", "rre", "hextile"}
    /\ p.length => enc \in {"zlib", "zrle", "tight"}
    /\ p.ctl # "" \/ p.filter # "" \/ p.colors # 0 => enc = "tight"
    /\ p.colors # 0 => p.filter = "palette"
    /\ p.segs # {} => enc = "jpeg"
Open      == p.rect # <<>>
Inside(enc) == Here(enc) /\ Queue /\ Kept(enc) /\ p \in Parser /\ Typed /\ Open

LEMMA InRect ==
    ASSUME StreamInv, NEW enc, enc # "last", In(enc)
    PROVE  Inside(enc) /\ \E j \in Nat \ {0} : Ahead(j)
<1>1. Typed /\ p.rect # <<>> /\ p.rect[1] = enc /\ at = "msg"
  BY DEF In, StreamInv
<1>2. p.rects > 0 /\ \E j \in 1 .. Len(Stream) + 1 : BodyAt(Stream, 1, j, p) /\ RestAt(Stream, j, p.rects - 1)
  BY <1>1 DEF StreamInv, Reading
<1>3. /\ Len(q) \in Nat /\ Len(Stream) \in Nat /\ Len(Stream) >= Len(q)
      /\ \A k \in 1 .. Len(q) : q[k] = Stream[k]
  BY <1>1, StreamFields
<1>4. \E j \in Nat \ {0} : Ahead(j)
  BY <1>2, <1>3 DEF Ahead
<1>5. p \in Parser /\ p.flushing = FALSE
  BY <1>1 DEF StreamInv, Typed, Resting, Parser
<1>6. Alike(p) /\ p.left \in Nat /\ p.length \in BOOLEAN /\ p.colors \in Nat
  BY <1>5 DEF Parser, Alike
<1>7. /\ p.left # 0 => enc \in {"raw", "rre", "hextile"}
      /\ p.length => enc \in {"zlib", "zrle", "tight"}
      /\ p.ctl # "" \/ p.filter # "" \/ p.colors # 0 => enc = "tight"
      /\ p.colors # 0 => p.filter = "palette"
      /\ p.segs # {} => enc = "jpeg"
  BY <1>1 DEF StreamInv, Memory
<1> QED BY <1>1, <1>2, <1>3, <1>4, <1>5, <1>6, <1>7 DEF Inside, Here, Queue, Kept, Open

(* A rectangle that is read to its end.                                     *)
LEMMA DoneHere ==
    ASSUME StreamInv, at = "msg", p.rects > 0, NEW n \in Nat, n <= Len(q), Ahead(n + 1),
           NEW x, Alike(x), Clean(x), NEW y, Done(n, x, y)
    PROVE  StreamInv'
<1>1. x \in Parser /\ x.rects = p.rects /\ x.cont = p.cont /\ x.flushing = p.flushing
  BY DEF Alike
<1>2. p.left \in Nat /\ p.length \in BOOLEAN
  BY DEF StreamInv, Typed, Parser
<1>3. NoTypes(Stream, 1, n + 1) /\ RestAt(Stream, n + 1, x.rects - 1)
  BY <1>1, <1>2, BodyTypes DEF Ahead
<1> QED BY <1>1, <1>3, DoneStep

LEMMA ReadHere ==
    ASSUME StreamInv, NEW enc, enc # "last", In(enc), NEW n \in Nat, n <= Len(q), NEW j \in Nat \ {0}, Ahead(j), n + 1 <= j,
           NEW x, Alike(x), Memory(x), BodyAt(Stream, n + 1, j, x), NEW y, Read(n, x, y)
    PROVE  StreamInv'
<1>1. at = "msg" /\ p.rect # <<>> /\ p.rect[1] # "last"
  BY DEF In
<1>2. x \in Parser /\ x.rects = p.rects /\ x.rect = p.rect /\ x.cont = p.cont /\ x.flushing = p.flushing
  BY DEF Alike
<1>3. j \in 1 .. Len(Stream) + 1 /\ BodyAt(Stream, 1, j, p) /\ RestAt(Stream, j, p.rects - 1)
  BY DEF Ahead
<1> QED BY <1>1, <1>2, <1>3, ReadStep

(* The wait of a rectangle that has not come whole.                         *)
LEMMA WaitHere ==
    ASSUME StreamInv, NEW j \in Nat, Ahead(j), Len(q) + 1 < j, Wait
    PROVE  StreamInv'
<1>1. Len(Stream) > Len(q)
  BY StreamFields DEF Ahead, StreamInv
<1> QED BY <1>1, WaitsStep

LEMMA BackIsWait ==
    ASSUME Typed, NEW n \in Nat, Back(n, n)
    PROVE  Wait
<1>1. q \in Seq(Unit) /\ Len(q) \in Nat /\ n - n + 1 = 1
  BY DEF Typed
<1>2. SubSeq(q, 1, Len(q)) = q
  BY <1>1
<1> QED BY <1>1, <1>2 DEF Back, Wait

LEMMA LastRectKeeps ==
    ASSUME StreamInv, LastRect
    PROVE  StreamInv'
<1> DEFINE x == [p EXCEPT !.rects = 1]
<1>1. at = "msg" /\ p.rect # <<>> /\ p.rect[1] = "last" /\ Done(0, x, d)
  BY DEF LastRect, In
<1>2. p.rects > 0 /\ Ends(Stream, 1) /\ Clean(p) /\ p \in Parser
  BY <1>1 DEF StreamInv, Reading, Typed
<1>3. x \in Parser /\ x.rects = 1 /\ x.cont = p.cont /\ x.flushing = p.flushing /\ Clean(x)
  <2>1. x \in Parser
    BY <1>2 DEF Parser
  <2>2. x.rects = 1 /\ x.cont = p.cont /\ x.flushing = p.flushing
    BY <1>2 DEF Parser
  <2>3. /\ x.left = p.left /\ x.length = p.length /\ x.ctl = p.ctl /\ x.filter = p.filter
        /\ x.colors = p.colors /\ x.segs = p.segs
    BY <1>2 DEF Parser
  <2> QED BY <1>2, <2>1, <2>2, <2>3 DEF Clean
<1>4. NoTypes(Stream, 1, 0 + 1) /\ RestAt(Stream, 0 + 1, 1 - 1)
  BY <1>2 DEF NoTypes, RestAt, Rest0
<1>5. Len(q) \in Nat
  BY StreamFields DEF StreamInv
<1> HIDE DEF x
<1> QED BY <1>1, <1>2, <1>3, <1>4, <1>5, DoneStep

LEMMA FlagsKeep ==
    ASSUME StreamInv, Flags
    PROVE  StreamInv'
<1>1. PICK enc \in {"size", "keys", "buttons"} : In(enc)
  BY DEF Flags
<1>2. PICK y : Done(0, p, y)
  BY DEF Flags
<1>3. Inside(enc) /\ \E j \in Nat \ {0} : Ahead(j)
  BY <1>1, InRect
<1>4. PICK j \in Nat : Ahead(j)
  BY <1>3
<1>5. j = 1
  BY <1>1, <1>3, <1>4 DEF Ahead, BodyAt, Inside, Here
<1>6. Clean(p) /\ Alike(p) /\ at = "msg" /\ p.rects > 0 /\ 0 <= Len(q)
  <2>1. Alike(p) /\ at = "msg" /\ p.rects > 0 /\ 0 <= Len(q)
    BY <1>3 DEF Inside, Here, Queue
  <2>2. Clean(p)
    BY <1>1, <1>3 DEF Clean, Inside, Kept
  <2> QED BY <2>1, <2>2
<1> QED BY <1>2, <1>4, <1>5, <1>6, DoneHere

LEMMA OneFieldKeeps ==
    ASSUME StreamInv, OneField
    PROVE  StreamInv'
<1>1. PICK enc \in {"cursor", "led", "copy"} : In(enc)
  BY DEF OneField
<1>2. Inside(enc) /\ \E j \in Nat \ {0} : Ahead(j)
  BY <1>1, InRect
<1>3. PICK j \in Nat : Ahead(j)
  BY <1>2
<1>4. j = 2
  BY <1>1, <1>2, <1>3 DEF Ahead, BodyAt, One, Inside, Here
<1>5. CASE ~Has(1) /\ Wait
  <2>1. Len(q) + 1 < j
    BY <1>2, <1>4, <1>5 DEF Has, Inside, Queue
  <2> QED BY <1>3, <1>5, <2>1, WaitHere
<1>6. CASE Has(1) /\ Done(1, p, IF In("copy") /\ Size > 0 THEN Drawn ELSE d)
  <2>1. Clean(p) /\ Alike(p) /\ at = "msg" /\ p.rects > 0 /\ 1 <= Len(q)
    BY <1>1, <1>2, <1>6 DEF Clean, Has, Inside, Here, Queue, Kept
  <2>2. PICK y : Done(1, p, y)
    BY <1>6
  <2> QED BY <1>3, <1>4, <2>1, <2>2, DoneHere
<1> QED BY <1>5, <1>6 DEF OneField

LEMMA TwoFieldsKeep ==
    ASSUME StreamInv, TwoFields
    PROVE  StreamInv'
<1>1. PICK enc \in {"name", "vmcursor"} : In(enc)
  BY DEF TwoFields
<1>2. Inside(enc) /\ \E j \in Nat \ {0} : Ahead(j)
  BY <1>1, InRect
<1>3. PICK j \in Nat : Ahead(j)
  BY <1>2
<1>4. j = 3
  BY <1>1, <1>2, <1>3 DEF Ahead, BodyAt, Two, Inside, Here
<1>5. CASE Has(2) /\ Done(2, p, d)
  <2>1. Clean(p) /\ Alike(p) /\ at = "msg" /\ p.rects > 0 /\ 2 <= Len(q)
    BY <1>1, <1>2, <1>5 DEF Clean, Has, Inside, Here, Queue, Kept
  <2> QED BY <1>3, <1>4, <1>5, <2>1, DoneHere
<1>6. CASE WaitsFor(1, 1)
  <2>1. Len(q) + 1 < j
    BY <1>2, <1>4, <1>6 DEF WaitsFor, Has, Inside, Queue
  <2>2. Wait
    BY <1>2, <1>6, BackIsWait DEF WaitsFor, Inside
  <2> QED BY <1>3, <2>1, <2>2, WaitHere
<1> QED BY <1>5, <1>6 DEF TwoFields

LEMMA ExtendedDesktopSizeKeeps ==
    ASSUME StreamInv, ExtendedDesktopSize
    PROVE  StreamInv'
<1>1. In("screens")
  BY DEF ExtendedDesktopSize
<1>2. Inside("screens") /\ \E j \in Nat \ {0} : Ahead(j)
  BY <1>1, InRect
<1>3. PICK j \in Nat : Ahead(j)
  BY <1>2
<1>4. j = 2 + Stream[1].n /\ Stream[1].n \in Nat
  <2>1. Counted(Stream, 1, j, "screens", "screen")
    BY <1>2, <1>3 DEF Ahead, BodyAt, Inside, Here
  <2> QED BY <2>1 DEF Counted
<1>5. CASE ~(Has(1) /\ Has(1 + q[1].n)) /\ Wait
  <2>1. Len(q) + 1 < j
    <3>1. Len(q) >= 1 => q[1] = Stream[1]
      BY <1>2 DEF Inside, Queue
    <3>2. Len(q) \in Nat
      BY <1>2 DEF Inside, Queue
    <3> QED BY <1>4, <1>5, <3>1, <3>2 DEF Has
  <2> QED BY <1>3, <1>5, <2>1, WaitHere
<1>6. CASE Has(1) /\ Has(1 + q[1].n) /\ Done(1 + q[1].n, p, Flip(d))
  <2>1. Clean(p) /\ Alike(p) /\ at = "msg" /\ p.rects > 0
    BY <1>2 DEF Clean, Inside, Here, Queue, Kept
  <2>2. q[1] = Stream[1]
    BY <1>2, <1>6 DEF Has, Inside, Queue
  <2>3. PICK n \in Nat : n = 1 + Stream[1].n /\ n <= Len(q) /\ j = n + 1 /\ Done(n, p, Flip(d))
    BY <1>4, <1>6, <2>2 DEF Has
  <2> QED BY <1>3, <2>1, <2>3, DoneHere
<1> QED BY <1>5, <1>6 DEF ExtendedDesktopSize

(* The fields of a parser that decoders change.                             *)
Holds(x, left, length, ctl, filter, colors, segs) ==
    /\ x.left = left /\ x.length = length /\ x.ctl = ctl /\ x.filter = filter /\ x.colors = colors /\ x.segs = segs

LEMMA ParserSets ==
    ASSUME p \in Parser, NEW l \in Nat, NEW b \in BOOLEAN
    PROVE  /\ Alike([p EXCEPT !.left = l])
           /\ Holds([p EXCEPT !.left = l], l, p.length, p.ctl, p.filter, p.colors, p.segs)
           /\ Alike([p EXCEPT !.left = l, !.rawtile = b])
           /\ Holds([p EXCEPT !.left = l, !.rawtile = b], l, p.length, p.ctl, p.filter, p.colors, p.segs)
           /\ Alike([p EXCEPT !.length = b])
           /\ Holds([p EXCEPT !.length = b], p.left, b, p.ctl, p.filter, p.colors, p.segs)
<1>1. [p EXCEPT !.left = l] \in Parser /\ [p EXCEPT !.left = l, !.rawtile = b] \in Parser
  BY DEF Parser
<1>2. [p EXCEPT !.length = b] \in Parser
  BY DEF Parser
<1>3. Alike([p EXCEPT !.left = l]) /\ Alike([p EXCEPT !.left = l, !.rawtile = b])
  BY <1>1 DEF Parser, Alike
<1>4. Alike([p EXCEPT !.length = b])
  BY <1>2 DEF Parser, Alike
<1>5. Holds([p EXCEPT !.left = l], l, p.length, p.ctl, p.filter, p.colors, p.segs)
  BY DEF Parser, Holds
<1>6. Holds([p EXCEPT !.left = l, !.rawtile = b], l, p.length, p.ctl, p.filter, p.colors, p.segs)
  BY DEF Parser, Holds
<1>7. Holds([p EXCEPT !.length = b], p.left, b, p.ctl, p.filter, p.colors, p.segs)
  BY DEF Parser, Holds
<1> QED BY <1>3, <1>4, <1>5, <1>6, <1>7

(* What a decoder remembers from one call to the next.                      *)
LEMMA LeftKept ==
    ASSUME NEW enc \in {"raw", "rre", "hextile"}, Inside(enc),
           NEW x, NEW l \in Nat, Alike(x), Holds(x, l, p.length, p.ctl, p.filter, p.colors, p.segs)
    PROVE  Memory(x) /\ (l = 0 => Clean(x))
<1>1. ~p.length /\ p.ctl = "" /\ p.filter = "" /\ p.colors = 0 /\ p.segs = {}
  BY DEF Inside, Kept
<1>2. x.left = l /\ ~x.length /\ x.ctl = "" /\ x.filter = "" /\ x.colors = 0 /\ x.segs = {}
  BY <1>1 DEF Holds
<1>3. x.rect = p.rect /\ p.rect[1] = enc /\ p.rect # <<>>
  BY Zenon DEF Alike, Inside, Here, Open
<1>4. l = 0 => Clean(x)
  BY <1>2 DEF Clean
<1>5. x.rect # <<>> /\ x.rect[1] = enc
  BY <1>3, Zenon
<1>6. /\ x.left # 0 => enc \in {"raw", "rre", "hextile"}
      /\ x.length => enc \in {"zlib", "zrle", "tight"}
      /\ x.ctl # "" \/ x.filter # "" \/ x.colors # 0 => enc = "tight"
      /\ x.colors # 0 => x.filter = "palette"
      /\ x.segs # {} => enc = "jpeg"
  BY <1>2
<1>7. Memory(x)
  BY <1>5, <1>6, Zenon DEF Memory
<1> QED BY <1>4, <1>7

LEMMA InsideClean ==
    ASSUME NEW enc, Inside(enc), enc # "tight",
           enc \in {"raw", "rre", "hextile"} => p.left = 0,
           enc \in {"zlib", "zrle"} => ~p.length,
           enc = "jpeg" => p.segs = {}
    PROVE  Clean(p)
BY DEF Inside, Kept, Clean

LEMMA WaitsWith ==
    ASSUME StreamInv, NEW enc, enc # "last", In(enc), NEW j \in Nat, Ahead(j), Len(q) + 1 < j,
           NEW x, Alike(x), Memory(x), BodyAt(Stream, 1, j, x),
           p' = x, at' = "idle", q' = q, wire' = wire, srv' = srv
    PROVE  StreamInv'
<1>1. x \in Parser /\ x.rects = p.rects /\ x.cont = p.cont /\ x.flushing = p.flushing /\ x.rect = p.rect
  BY DEF Alike
<1>2. j \in 1 .. Len(Stream) + 1 /\ RestAt(Stream, j, p.rects - 1)
  BY DEF Ahead
<1>3. Len(Stream) > Len(q)
  BY <1>2, StreamFields DEF StreamInv
<1>4. p.rects > 0 /\ p.rect # <<>> /\ p.rect[1] # "last"
  <2>1. Inside(enc)
    BY InRect
  <2> QED BY <2>1, Zenon DEF Inside, Here, Open
<1>5. Reading(x, Stream)
  BY <1>1, <1>2, <1>4 DEF Reading
<1> QED BY <1>1, <1>3, <1>5, WaitStep

LEMMA RawKeeps ==
    ASSUME StreamInv, Raw
    PROVE  StreamInv'
<1> DEFINE left == IF p.left = 0 THEN Size ELSE p.left
<1>1. In("raw")
  BY DEF Raw
<1>2. Inside("raw") /\ \E j \in Nat \ {0} : Ahead(j)
  BY <1>1, InRect
<1>3. PICK j \in Nat \ {0} : Ahead(j)
  BY <1>2
<1>4. /\ Size \in Nat /\ (Size = 0 => p.left = 0) /\ j = 1 + left /\ All(Stream, 1, j, "line")
      /\ j <= Len(Stream) + 1
  BY <1>2, <1>3 DEF Ahead, BodyAt, Inside, Here, Size
<1>5. Len(q) \in Nat /\ left \in Nat /\ Len(Stream) \in Nat
  BY <1>2, <1>4 DEF Inside, Queue, Kept
<1>11. (Size > 0 => left > 0) /\ (left = 1 => left - 1 = 0) /\ (left > 1 => left - 1 \in Nat /\ left - 1 > 0)
  BY <1>4, <1>5
<1>12. (Size > 0 \/ left = 0) /\ (Size = 0 => left = 0 /\ j = 1 /\ p.left = 0)
  BY <1>4
<1> HIDE DEF left
<1>6. ASSUME NEW x, NEW n \in Nat, NEW l \in Nat, Alike(x), x.left = l, l > 0, n + 1 <= j, j = (n + 1) + l
      PROVE  BodyAt(Stream, n + 1, j, x)
  <2>1. x.rect[1] = "raw" /\ x.rect[2] = Size
    BY <1>2, <1>6 DEF Alike, Inside, Here, Size
  <2>2. All(Stream, n + 1, j, "line")
    BY <1>4, <1>6 DEF All
  <2>3. n + 1 <= j /\ j <= Len(Stream) + 1 /\ Size \in Nat
    BY <1>4, <1>6
  <2>4. (Size = 0 => x.left = 0) /\ j = (n + 1) + (IF x.left = 0 THEN Size ELSE x.left)
    BY <1>4, <1>6, <1>12
  <2> QED BY <2>1, <2>2, <2>3, <2>4, Zenon DEF BodyAt
<1>7. CASE Size = 0 /\ Done(0, p, d)
  <2>1. Clean(p) /\ Alike(p) /\ at = "msg" /\ p.rects > 0 /\ 0 <= Len(q)
    <3>1. Clean(p)
      BY <1>2, <1>7, <1>12, InsideClean
    <3> QED BY <1>2, <1>5, <3>1 DEF Inside, Here
  <2>2. j = 1
    BY <1>7, <1>12
  <2> QED BY <1>3, <1>7, <2>1, <2>2, DoneHere
<1>8. CASE Size > 0 /\ ~Has(1) /\ p' = [p EXCEPT !.left = left] /\ at' = "idle" /\ UNCHANGED <<q, wire, srv>>
  <2>1. PICK x : x = [p EXCEPT !.left = left]
    OBVIOUS
  <2>2. Alike(x) /\ Holds(x, left, p.length, p.ctl, p.filter, p.colors, p.segs)
    BY <1>2, <1>5, <2>1, ParserSets DEF Inside
  <2>3. Memory(x)
    BY <1>2, <1>5, <2>2, LeftKept
  <2>4. BodyAt(Stream, 0 + 1, j, x)
    <3>1. x.left = left /\ left > 0 /\ 0 + 1 <= j /\ j = (0 + 1) + left /\ 0 \in Nat
      BY <1>4, <1>5, <1>8, <1>11, <2>2 DEF Holds
    <3> QED BY <1>5, <1>6, <2>2, <3>1
  <2>5. Len(q) + 1 < j
    BY <1>4, <1>5, <1>8, <1>11 DEF Has
  <2> QED BY <1>1, <1>3, <1>8, <2>1, <2>2, <2>3, <2>4, <2>5, WaitsWith
<1>9. CASE Size > 0 /\ Has(1) /\ left > 1 /\ Read(1, [p EXCEPT !.left = left - 1], Drawn)
  <2>1. PICK x : x = [p EXCEPT !.left = left - 1]
    OBVIOUS
  <2>2. Alike(x) /\ Holds(x, left - 1, p.length, p.ctl, p.filter, p.colors, p.segs)
    <3>1. left - 1 \in Nat /\ p \in Parser
      BY <1>2, <1>9, <1>11 DEF Inside
    <3> QED BY <2>1, <3>1, ParserSets
  <2>3. Memory(x)
    BY <1>2, <1>9, <1>11, <2>2, LeftKept
  <2>4. BodyAt(Stream, 1 + 1, j, x)
    <3>1. x.left = left - 1 /\ left - 1 > 0 /\ 1 + 1 <= j /\ j = (1 + 1) + (left - 1) /\ 1 \in Nat
      BY <1>4, <1>5, <1>9, <1>11, <2>2 DEF Holds
    <3> QED BY <1>9, <1>11, <1>6, <2>2, <3>1
  <2>5. 1 <= Len(q) /\ 1 + 1 <= j
    BY <1>4, <1>5, <1>9 DEF Has
  <2> QED BY <1>1, <1>3, <1>9, <2>1, <2>2, <2>3, <2>4, <2>5, ReadHere
<1>10. CASE Size > 0 /\ Has(1) /\ left = 1 /\ Done(1, [p EXCEPT !.left = left - 1], Drawn)
  <2>1. PICK x : x = [p EXCEPT !.left = left - 1]
    OBVIOUS
  <2>2. left - 1 = 0 /\ j = 1 + 1
    BY <1>4, <1>5, <1>10
  <2>3. Alike(x) /\ Holds(x, 0, p.length, p.ctl, p.filter, p.colors, p.segs)
    BY <1>2, <2>1, <2>2, ParserSets DEF Inside
  <2>4. Clean(x)
    BY <1>2, <2>3, LeftKept
  <2>5. at = "msg" /\ p.rects > 0 /\ 1 <= Len(q)
    BY <1>2, <1>5, <1>10 DEF Inside, Here, Has
  <2> QED BY <1>3, <1>10, <2>1, <2>2, <2>3, <2>4, <2>5, DoneHere
<1> QED BY <1>7, <1>8, <1>9, <1>10, Zenon DEF Raw, left

LEMMA RREKeeps ==
    ASSUME StreamInv, RRE
    PROVE  StreamInv'
<1>1. In("rre")
  BY DEF RRE
<1>2. Inside("rre") /\ \E j \in Nat \ {0} : Ahead(j)
  BY <1>1, InRect
<1>3. PICK j \in Nat \ {0} : Ahead(j)
  BY <1>2
<1>4. /\ \/ p.left = 0 /\ Counted(Stream, 1, j, "count", "subrect")
         \/ p.left > 0 /\ j = 1 + p.left /\ All(Stream, 1, j, "subrect")
      /\ j <= Len(Stream) + 1 /\ Size \in Nat
  BY <1>2, <1>3 DEF Ahead, BodyAt, Inside, Here, Size
<1>5. Len(q) \in Nat /\ Len(Stream) \in Nat /\ p.left \in Nat /\ (Len(q) >= 1 => q[1] = Stream[1])
  <2>1. Len(q) \in Nat /\ Len(Stream) \in Nat /\ (Len(q) >= 1 => q[1] = Stream[1])
    BY <1>2 DEF Inside, Queue
  <2>2. p.left \in Nat
    BY <1>2 DEF Inside, Kept
  <2> QED BY <2>1, <2>2
<1>6. p.left = 0 => /\ Stream[1].n \in Nat /\ j = 2 + Stream[1].n /\ All(Stream, 2, j, "subrect")
  BY <1>4 DEF Counted
<1>7. j > 1
  BY <1>4, <1>5, <1>6
<1>8. ASSUME NEW x, NEW n \in Nat, NEW l \in Nat, Alike(x), x.left = l, l > 0,
             n + 1 <= j, j = (n + 1) + l, All(Stream, n + 1, j, "subrect")
      PROVE  BodyAt(Stream, n + 1, j, x)
  <2>1. x.rect[1] = "rre" /\ x.rect[2] = Size
    BY <1>2, <1>8 DEF Alike, Inside, Here, Size
  <2> QED BY <1>4, <1>8, <2>1, Zenon DEF BodyAt
<1>9. at = "msg" /\ p.rects > 0 /\ Alike(p) /\ p \in Parser
  BY <1>2 DEF Inside, Here
<1>10. CASE ~Has(1) /\ Wait
  <2>1. Len(q) + 1 < j
    BY <1>5, <1>7, <1>10 DEF Has
  <2> QED BY <1>3, <1>10, <2>1, WaitHere
<1>11. CASE Has(1) /\ p.left = 0 /\ q[1].n = 0 /\ Done(1, p, Drawn)
  <2>1. 1 <= Len(q) /\ j = 1 + 1
    BY <1>5, <1>6, <1>11 DEF Has
  <2>2. Clean(p)
    BY <1>2, <1>11, InsideClean
  <2> QED BY <1>3, <1>9, <1>11, <2>1, <2>2, DoneHere
<1>12. CASE Has(1) /\ p.left = 0 /\ q[1].n # 0 /\ Read(1, [p EXCEPT !.left = q[1].n], Drawn)
  <2>1. PICK l \in Nat : l = q[1].n /\ l > 0 /\ j = (1 + 1) + l /\ 1 <= Len(q)
    BY <1>5, <1>6, <1>12 DEF Has
  <2>2. PICK x : x = [p EXCEPT !.left = l]
    OBVIOUS
  <2>3. Alike(x) /\ Holds(x, l, p.length, p.ctl, p.filter, p.colors, p.segs)
    BY <1>9, <2>2, ParserSets
  <2>4. Memory(x)
    BY <1>2, <2>3, LeftKept
  <2>5. BodyAt(Stream, 1 + 1, j, x)
    <3>1. x.left = l /\ 1 + 1 <= j /\ 1 \in Nat
      BY <2>1, <2>3 DEF Holds
    <3>2. 1 + 1 = 2
      OBVIOUS
    <3>3. All(Stream, 1 + 1, j, "subrect")
      BY <1>6, <1>12, <3>2, Zenon
    <3> QED BY <1>8, <2>1, <2>3, <3>1, <3>3
  <2> QED BY <1>1, <1>3, <1>12, <2>1, <2>2, <2>3, <2>4, <2>5, ReadHere
<1>13. CASE Has(1) /\ p.left > 1 /\ Read(1, [p EXCEPT !.left = p.left - 1], Drawn)
  <2>1. PICK l \in Nat : l = p.left - 1 /\ l > 0 /\ j = (1 + 1) + l /\ 1 <= Len(q)
    BY <1>4, <1>5, <1>13 DEF Has
  <2>2. PICK x : x = [p EXCEPT !.left = l]
    OBVIOUS
  <2>3. Alike(x) /\ Holds(x, l, p.length, p.ctl, p.filter, p.colors, p.segs)
    BY <1>9, <2>2, ParserSets
  <2>4. Memory(x)
    BY <1>2, <2>3, LeftKept
  <2>5. BodyAt(Stream, 1 + 1, j, x)
    <3>1. x.left = l /\ 1 + 1 <= j /\ 1 \in Nat
      BY <2>1, <2>3 DEF Holds
    <3>2. All(Stream, 1 + 1, j, "subrect")
      BY <1>4, <1>5, <1>13 DEF All
    <3> QED BY <1>8, <2>1, <2>3, <3>1, <3>2
  <2> QED BY <1>1, <1>3, <1>13, <2>1, <2>2, <2>3, <2>4, <2>5, ReadHere
<1>14. CASE Has(1) /\ p.left = 1 /\ Done(1, [p EXCEPT !.left = 0], Drawn)
  <2>1. j = 1 + 1 /\ 1 <= Len(q)
    BY <1>4, <1>5, <1>14 DEF Has
  <2>2. PICK x : x = [p EXCEPT !.left = 0]
    OBVIOUS
  <2>3. Alike(x) /\ Holds(x, 0, p.length, p.ctl, p.filter, p.colors, p.segs)
    BY <1>9, <2>2, ParserSets
  <2>4. Clean(x)
    BY <1>2, <2>3, LeftKept
  <2> QED BY <1>3, <1>9, <1>14, <2>1, <2>2, <2>3, <2>4, DoneHere
<1> QED BY <1>10, <1>11, <1>12, <1>13, <1>14, Zenon DEF RRE

(* A tile at the front of what is left of a Hextile rectangle.              *)
LEMMA TileAhead ==
    ASSUME Typed, NEW h \in Nat, TileAt(Stream, 1, h), h <= Len(Stream) + 1, Has(1)
    PROVE  /\ ~Has(TileLength) => Len(q) + 1 < h
           /\ Has(TileLength) => TileLength = h - 1 /\ TileLength \in Nat
<1>1. /\ Len(q) \in Nat /\ Len(Stream) \in Nat /\ Len(q) >= 1 /\ q[1] = Stream[1]
      /\ Len(q) >= 2 => q[2] = Stream[2]
  <2>1. /\ Len(q) \in Nat /\ Len(Stream) \in Nat /\ \A k \in 1 .. Len(q) : q[k] = Stream[k]
    BY StreamFields
  <2> QED BY <2>1 DEF Has
<1>2. CASE Stream[1].v = "blank"
  <2>1. TileLength = 1 /\ h = 2
    BY <1>1, <1>2 DEF TileLength, TileAt
  <2> QED BY <1>1, <2>1 DEF Has
<1>3. CASE Stream[1].v \in {"raw", "colour"}
  <2>1. TileLength = 2 /\ h = 3
    BY <1>1, <1>3 DEF TileLength, TileAt
  <2> QED BY <1>1, <2>1 DEF Has
<1>4. CASE Stream[1].v = "subrects"
  <2>1. h = 4 /\ Stream[2].n = 1
    BY <1>4 DEF TileAt
  <2>2. TileLength = IF Has(2) THEN 2 + q[2].n ELSE 2
    BY <1>1, <1>4 DEF TileLength
  <2> QED BY <1>1, <2>1, <2>2 DEF Has
<1> QED BY <1>2, <1>3, <1>4 DEF TileAt

LEMMA HextileKeeps ==
    ASSUME StreamInv, Hextile
    PROVE  StreamInv'
<1> DEFINE left == IF p.left = 0 THEN Size ELSE p.left
           b    == q[1].v = "raw"
           y    == IF q[1].v = "blank" /\ p.rawtile THEN d ELSE Drawn
<1>1. In("hextile")
  BY DEF Hextile
<1>2. Inside("hextile") /\ \E j \in Nat \ {0} : Ahead(j)
  BY <1>1, InRect
<1>3. PICK j \in Nat \ {0} : Ahead(j)
  BY <1>2
<1>4. TilesAt(Stream, 1, j, left) /\ j <= Len(Stream) + 1 /\ Size \in Nat /\ left \in Nat
  <2>1. p.left \in Nat
    BY <1>2 DEF Inside, Kept
  <2> QED BY <1>2, <1>3, <2>1 DEF Ahead, BodyAt, Inside, Here, Size
<1> HIDE DEF left
<1>5. Len(q) \in Nat /\ Len(Stream) \in Nat /\ Typed /\ at = "msg" /\ p.rects > 0 /\ Alike(p) /\ p \in Parser
  BY <1>2 DEF Inside, Queue, Here
<1>6. PICK h \in Nat : /\ TileAt(Stream, 1, h) /\ h <= j /\ 1 < h
                       /\ \/ left = 1 /\ h = j
                          \/ left = 2 /\ TileAt(Stream, h, j)
  <2>1. CASE left = 1 /\ TileAt(Stream, 1, j)
    BY <2>1 DEF TileAt
  <2>2. ASSUME left = 2, NEW h \in 1 .. j, TileAt(Stream, 1, h), TileAt(Stream, h, j)
        PROVE  h \in Nat /\ TileAt(Stream, 1, h) /\ h <= j /\ 1 < h /\ left = 2 /\ TileAt(Stream, h, j)
    BY <2>2 DEF TileAt
  <2> QED BY <1>4, <2>1, <2>2 DEF TilesAt
<1>7. ASSUME NEW x, NEW i \in Nat, NEW l \in Nat \ {0}, Alike(x), x.left = l, i <= j, TilesAt(Stream, i, j, l)
      PROVE  BodyAt(Stream, i, j, x)
  <2>1. x.rect[1] = "hextile" /\ x.rect[2] = Size
    BY <1>2, <1>7 DEF Alike, Inside, Here, Size
  <2>2. (IF x.left = 0 THEN Size ELSE x.left) = l
    BY <1>7
  <2> QED BY <1>4, <1>7, <2>1, <2>2, Zenon DEF BodyAt
<1>8. left \in {1, 2}
  BY <1>6
<1>9. CASE ~(Has(1) /\ Has(TileLength)) /\ p' = [p EXCEPT !.left = left] /\ at' = "idle" /\ UNCHANGED <<q, wire, srv>>
  <2>1. PICK x : x = [p EXCEPT !.left = left]
    OBVIOUS
  <2>2. Alike(x) /\ Holds(x, left, p.length, p.ctl, p.filter, p.colors, p.segs)
    BY <1>4, <1>5, <2>1, ParserSets
  <2>3. Memory(x)
    BY <1>2, <1>4, <2>2, LeftKept
  <2>4. BodyAt(Stream, 1, j, x)
    <3>1. x.left = left /\ left \in Nat \ {0} /\ 1 <= j /\ 1 \in Nat
      BY <1>8, <2>2 DEF Holds
    <3> QED BY <1>4, <1>7, <2>2, <3>1
  <2>5. Len(q) + 1 < j
    <3>1. CASE ~Has(1)
      BY <1>5, <1>6, <3>1 DEF Has
    <3>2. CASE Has(1) /\ ~Has(TileLength)
      <4>1. Len(q) + 1 < h
        BY <1>4, <1>5, <1>6, <3>2, TileAhead
      <4> QED BY <1>5, <1>6, <4>1
    <3> QED BY <1>9, <3>1, <3>2
  <2> QED BY <1>1, <1>3, <1>9, <2>1, <2>2, <2>3, <2>4, <2>5, WaitsWith
<1>10. ASSUME Has(1), Has(TileLength)
       PROVE  TileLength \in Nat /\ TileLength + 1 = h /\ TileLength <= Len(q)
  <2>1. TileLength = h - 1 /\ TileLength \in Nat
    BY <1>4, <1>5, <1>6, <1>10, TileAhead
  <2> QED BY <1>10, <2>1 DEF Has
<1>11. CASE Has(1) /\ Has(TileLength) /\ left > 1 /\ Read(TileLength, [p EXCEPT !.left = left - 1, !.rawtile = b], y)
  <2>1. PICK x : x = [p EXCEPT !.left = left - 1, !.rawtile = b]
    OBVIOUS
  <2>2. left - 1 = 1 /\ TileAt(Stream, h, j)
    BY <1>6, <1>11
  <2>3. Alike(x) /\ Holds(x, 1, p.length, p.ctl, p.filter, p.colors, p.segs)
    BY <1>5, <2>1, <2>2, ParserSets
  <2>4. Memory(x)
    BY <1>2, <2>3, LeftKept
  <2>5. PICK n \in Nat : n = TileLength /\ n + 1 = h /\ n <= Len(q)
    BY <1>10, <1>11
  <2>6. BodyAt(Stream, n + 1, j, x)
    <3>1. x.left = 1 /\ TilesAt(Stream, h, j, 1)
      BY <2>2, <2>3 DEF Holds, TilesAt
    <3> QED BY <1>6, <1>7, <2>3, <2>5, <3>1
  <2> QED BY <1>1, <1>3, <1>6, <1>11, <2>1, <2>3, <2>4, <2>5, <2>6, ReadHere
<1>12. CASE Has(1) /\ Has(TileLength) /\ left = 1 /\ Done(TileLength, [p EXCEPT !.left = left - 1, !.rawtile = b], y)
  <2>1. PICK x : x = [p EXCEPT !.left = left - 1, !.rawtile = b]
    OBVIOUS
  <2>2. left - 1 = 0 /\ h = j
    BY <1>6, <1>12
  <2>3. Alike(x) /\ Holds(x, 0, p.length, p.ctl, p.filter, p.colors, p.segs)
    BY <1>5, <2>1, <2>2, ParserSets
  <2>4. Clean(x)
    BY <1>2, <2>3, LeftKept
  <2>5. PICK n \in Nat : n = TileLength /\ n + 1 = j /\ n <= Len(q)
    BY <1>10, <1>12, <2>2
  <2> QED BY <1>3, <1>5, <1>12, <2>1, <2>3, <2>4, <2>5, DoneHere
<1> QED BY <1>9, <1>11, <1>12, Zenon DEF Hextile, left

(* The length of the data is read, and kept until the data has come.        *)
LEMMA LengthKept ==
    ASSUME NEW enc \in {"zlib", "zrle", "tight"}, Inside(enc),
           NEW u, Alike(u), Holds(u, p.left, TRUE, p.ctl, p.filter, p.colors, p.segs)
    PROVE  Memory(u)
<1>1. u.rect # <<>> /\ u.rect[1] = enc
  BY Zenon DEF Alike, Inside, Here, Open
<1>2. /\ u.left # 0 => enc \in {"raw", "rre", "hextile"}
      /\ u.length => enc \in {"zlib", "zrle", "tight"}
      /\ u.ctl # "" \/ u.filter # "" \/ u.colors # 0 => enc = "tight"
      /\ u.colors # 0 => u.filter = "palette"
      /\ u.segs # {} => enc = "jpeg"
  BY DEF Inside, Kept, Holds
<1> QED BY <1>1, <1>2, Zenon DEF Memory

LEMMA InflatesKeeps ==
    ASSUME StreamInv, NEW enc \in {"zlib", "zrle", "tight"}, In(enc), NEW j \in Nat \ {0}, Ahead(j),
           DeflatedAt(Stream, 1, j, p.length),
           ASSUME NEW u, Alike(u), Holds(u, p.left, TRUE, p.ctl, p.filter, p.colors, p.segs),
                  ~p.length, One(Stream, 2, j, "data")
           PROVE  BodyAt(Stream, 2, j, u),
           NEW x, Alike([x EXCEPT !.length = FALSE]), Clean([x EXCEPT !.length = FALSE]), NEW y, Inflates(x, y)
    PROVE  StreamInv'
<1>1. Inside(enc)
  BY InRect
<1>2. Len(q) \in Nat /\ p.length \in BOOLEAN /\ p \in Parser
  <2>1. Len(q) \in Nat
    BY <1>1 DEF Inside, Queue
  <2>2. p.length \in BOOLEAN /\ p \in Parser
    BY <1>1 DEF Inside, Kept
  <2> QED BY <2>1, <2>2
<1>3. j \in {2, 3} /\ (p.length => j = 2) /\ (~p.length => j = 3 /\ One(Stream, 2, j, "data"))
  BY <1>2 DEF DeflatedAt, One, Two
<1>4. CASE ~Has(1) /\ Wait
  <2>1. Len(q) + 1 < j
    BY <1>2, <1>3, <1>4 DEF Has
  <2> QED BY <1>4, <2>1, WaitHere
<1>5. CASE ~p.length /\ Has(1) /\ Read(1, [p EXCEPT !.length = TRUE], d)
  <2>1. PICK u : u = [p EXCEPT !.length = TRUE]
    OBVIOUS
  <2>2. Alike(u) /\ Holds(u, p.left, TRUE, p.ctl, p.filter, p.colors, p.segs)
    <3>1. p.left \in Nat
      BY <1>1 DEF Inside, Kept
    <3> QED BY <1>2, <2>1, <3>1, ParserSets
  <2>3. Memory(u)
    BY <1>1, <2>2, LengthKept
  <2>4. 1 + 1 <= j /\ 1 <= Len(q) /\ 1 \in Nat
    BY <1>2, <1>3, <1>5 DEF Has
  <2>5. BodyAt(Stream, 1 + 1, j, u)
    <3>1. BodyAt(Stream, 2, j, u)
      BY <1>3, <1>5, <2>2
    <3> QED BY <3>1
  <2> QED BY <1>5, <2>1, <2>2, <2>3, <2>4, <2>5, ReadHere
<1>6. CASE p.length /\ Has(1) /\ Done(1, [x EXCEPT !.length = FALSE], y)
  <2>1. PICK z : z = [x EXCEPT !.length = FALSE]
    OBVIOUS
  <2>2. j = 1 + 1 /\ 1 <= Len(q) /\ 1 \in Nat
    BY <1>2, <1>3, <1>6 DEF Has
  <2>3. at = "msg" /\ p.rects > 0
    BY <1>1 DEF Inside, Here
  <2> QED BY <1>6, <2>1, <2>2, <2>3, DoneHere
<1> QED BY <1>4, <1>5, <1>6, Zenon DEF Inflates

LEMMA ZlibKeeps ==
    ASSUME StreamInv, Zlib
    PROVE  StreamInv'
<1>1. In("zlib")
  BY DEF Zlib
<1>2. Inside("zlib") /\ \E j \in Nat \ {0} : Ahead(j)
  BY <1>1, InRect
<1>3. PICK j \in Nat \ {0} : Ahead(j)
  BY <1>2
<1>4. /\ \/ Size = 0 /\ ~p.length /\ j = 1
         \/ Size > 0 /\ DeflatedAt(Stream, 1, j, p.length)
      /\ j <= Len(Stream) + 1 /\ Size \in Nat
  BY <1>2, <1>3 DEF Ahead, BodyAt, Inside, Here, Size
<1>5. CASE Size = 0 /\ Done(0, p, d)
  <2>1. Clean(p) /\ Alike(p) /\ at = "msg" /\ p.rects > 0 /\ 0 <= Len(q)
    <3>1. Clean(p)
      BY <1>2, <1>4, <1>5, InsideClean
    <3>2. Alike(p) /\ at = "msg" /\ p.rects > 0 /\ 0 <= Len(q)
      BY <1>2 DEF Inside, Here, Queue
    <3> QED BY <3>1, <3>2
  <2>2. j = 0 + 1 /\ 0 \in Nat
    BY <1>4, <1>5
  <2> QED BY <1>3, <1>5, <2>1, <2>2, DoneHere
<1>6. CASE Size > 0 /\ Inflates(p, Drawn)
  <2>1. PICK z : z = [p EXCEPT !.length = FALSE]
    OBVIOUS
  <2>2. Alike(z) /\ Holds(z, p.left, FALSE, p.ctl, p.filter, p.colors, p.segs)
    <3>1. p.left \in Nat /\ p \in Parser
      BY <1>2 DEF Inside, Kept
    <3> QED BY <2>1, <3>1, ParserSets
  <2>3. Clean(z)
    BY <1>2, <2>2 DEF Clean, Holds, Inside, Kept
  <2>4. ASSUME NEW u, Alike(u), Holds(u, p.left, TRUE, p.ctl, p.filter, p.colors, p.segs), One(Stream, 2, j, "data")
        PROVE  BodyAt(Stream, 2, j, u)
    <3>1. u.rect[1] = "zlib" /\ u.rect[2] = Size /\ u.length = TRUE
      BY <1>2, <2>4 DEF Alike, Inside, Here, Size, Holds
    <3>2. 2 <= j
      BY <2>4 DEF One
    <3> QED BY <1>4, <1>6, <2>4, <3>1, <3>2, Zenon DEF BodyAt, DeflatedAt
  <2>5. DeflatedAt(Stream, 1, j, p.length)
    BY <1>4, <1>6
  <2> QED BY <1>1, <1>3, <1>6, <2>1, <2>2, <2>3, <2>4, <2>5, InflatesKeeps
<1> QED BY <1>5, <1>6, Zenon DEF Zlib

LEMMA ZRLEKeeps ==
    ASSUME StreamInv, ZRLE
    PROVE  StreamInv'
<1>1. In("zrle")
  BY DEF ZRLE
<1>2. Inside("zrle") /\ \E j \in Nat \ {0} : Ahead(j)
  BY <1>1, InRect
<1>3. PICK j \in Nat \ {0} : Ahead(j)
  BY <1>2
<1>4. DeflatedAt(Stream, 1, j, p.length) /\ j <= Len(Stream) + 1 /\ Size \in Nat
  BY <1>2, <1>3 DEF Ahead, BodyAt, Inside, Here, Size
<1>5. PICK z : z = [p EXCEPT !.length = FALSE]
  OBVIOUS
<1>6. Alike(z) /\ Holds(z, p.left, FALSE, p.ctl, p.filter, p.colors, p.segs)
  <2>1. p.left \in Nat /\ p \in Parser
    BY <1>2 DEF Inside, Kept
  <2> QED BY <1>5, <2>1, ParserSets
<1>7. Clean(z)
  BY <1>2, <1>6 DEF Clean, Holds, Inside, Kept
<1>8. ASSUME NEW u, Alike(u), Holds(u, p.left, TRUE, p.ctl, p.filter, p.colors, p.segs), One(Stream, 2, j, "data")
      PROVE  BodyAt(Stream, 2, j, u)
  <2>1. u.rect[1] = "zrle" /\ u.rect[2] = Size /\ u.length = TRUE
    BY <1>2, <1>8 DEF Alike, Inside, Here, Size, Holds
  <2>2. 2 <= j
    BY <1>8 DEF One
  <2> QED BY <1>4, <1>8, <2>1, <2>2, Zenon DEF BodyAt, DeflatedAt
<1>9. PICK y : Inflates(p, y)
  BY DEF ZRLE
<1> QED BY <1>1, <1>3, <1>4, <1>5, <1>6, <1>7, <1>8, <1>9, InflatesKeeps

(* Tight.                                                                   *)
LEMMA TightSets ==
    ASSUME p \in Parser, NEW c \in Word
    PROVE  /\ Alike([p EXCEPT !.ctl = c])
           /\ Holds([p EXCEPT !.ctl = c], p.left, p.length, c, p.filter, p.colors, p.segs)
           /\ Alike([p EXCEPT !.filter = c])
           /\ Holds([p EXCEPT !.filter = c], p.left, p.length, p.ctl, c, p.colors, p.segs)
           /\ Alike([p EXCEPT !.colors = 2])
           /\ Holds([p EXCEPT !.colors = 2], p.left, p.length, p.ctl, p.filter, 2, p.segs)
           /\ Alike(TightDone(p))
           /\ Holds(TightDone(p), p.left, p.length, "", "", 0, p.segs)
           /\ Alike([TightDone(p) EXCEPT !.length = FALSE])
           /\ Holds([TightDone(p) EXCEPT !.length = FALSE], p.left, FALSE, "", "", 0, p.segs)
<1>1. [p EXCEPT !.ctl = c] \in Parser /\ [p EXCEPT !.filter = c] \in Parser /\ [p EXCEPT !.colors = 2] \in Parser
  BY DEF Parser
<1>2. TightDone(p) \in Parser
  <2>1. "" \in Word /\ 0 \in Nat
    <3>1. "" \in Word
      BY DEF Word
    <3>2. 0 \in Nat
      OBVIOUS
    <3> QED BY <3>1, <3>2
  <2>2. [p EXCEPT !.ctl = "", !.filter = ""] \in Parser
    BY <2>1 DEF Parser
  <2>3. PICK x : x = [p EXCEPT !.ctl = "", !.filter = ""]
    OBVIOUS
  <2>4. TightDone(p) = [x EXCEPT !.colors = 0]
    BY <2>3 DEF Parser, TightDone
  <2>5. [x EXCEPT !.colors = 0] \in Parser
    BY <2>1, <2>2, <2>3 DEF Parser
  <2> QED BY <2>4, <2>5
<1>3. [TightDone(p) EXCEPT !.length = FALSE] \in Parser
  BY <1>2 DEF Parser
<1>4. Alike([p EXCEPT !.ctl = c]) /\ Alike([p EXCEPT !.filter = c]) /\ Alike([p EXCEPT !.colors = 2])
  BY <1>1 DEF Parser, Alike
<1>5. Alike(TightDone(p))
  BY <1>2 DEF Parser, Alike, TightDone
<1>6. Alike([TightDone(p) EXCEPT !.length = FALSE])
  BY <1>3 DEF Parser, Alike, TightDone
<1>7. /\ Holds([p EXCEPT !.ctl = c], p.left, p.length, c, p.filter, p.colors, p.segs)
      /\ Holds([p EXCEPT !.filter = c], p.left, p.length, p.ctl, c, p.colors, p.segs)
      /\ Holds([p EXCEPT !.colors = 2], p.left, p.length, p.ctl, p.filter, 2, p.segs)
  BY DEF Parser, Holds
<1>8. Holds(TightDone(p), p.left, p.length, "", "", 0, p.segs)
  BY DEF Parser, Holds, TightDone
<1>9. Holds([TightDone(p) EXCEPT !.length = FALSE], p.left, FALSE, "", "", 0, p.segs)
  BY DEF Parser, Holds, TightDone
<1> QED BY <1>4, <1>5, <1>6, <1>7, <1>8, <1>9

LEMMA TightAhead ==
    ASSUME Inside("tight"), NEW j \in Nat, Ahead(j)
    PROVE  /\ TightAt(Stream, 1, j, p) /\ Size \in Nat /\ 1 <= j /\ j <= Len(Stream) + 1
           /\ at = "msg" /\ p.rects > 0 /\ p \in Parser /\ Len(q) \in Nat
           /\ Len(q) >= 1 => q[1] = Stream[1] /\ q[1].v \in Word
<1>1. TightAt(Stream, 1, j, p) /\ Size \in Nat /\ 1 <= j /\ j <= Len(Stream) + 1
  BY DEF Ahead, BodyAt, Inside, Here, Size
<1>2. at = "msg" /\ p.rects > 0 /\ p \in Parser
  BY DEF Inside, Here
<1>3. Len(q) \in Nat /\ (Len(q) >= 1 => q[1] = Stream[1])
  BY DEF Inside, Queue
<1>4. Len(q) >= 1 => q[1].v \in Word
  <2>1. q \in Seq(Unit)
    BY DEF Inside, Typed
  <2>2. Len(q) >= 1 => q[1] \in Unit
    BY <1>3, <2>1
  <2> QED BY <2>2 DEF Unit
<1> QED BY <1>1, <1>2, <1>3, <1>4

LEMMA TightMemory ==
    ASSUME Inside("tight"), NEW x, Alike(x), NEW l, NEW c, NEW f, NEW n, Holds(x, p.left, l, c, f, n, p.segs)
    PROVE  /\ (n # 0 => f = "palette") => Memory(x)
           /\ n = 0 => Memory(x)
           /\ l = FALSE /\ c = "" /\ f = "" /\ n = 0 => Clean(x)
<1>1. x.rect # <<>> /\ x.rect[1] = "tight"
  BY Zenon DEF Alike, Inside, Here, Open
<1>2. p.left = 0 /\ p.segs = {}
  BY DEF Inside, Kept
<1>3. (n # 0 => f = "palette") => /\ x.left # 0 => "tight" \in {"raw", "rre", "hextile"}
                                  /\ x.colors # 0 => x.filter = "palette"
                                  /\ x.segs # {} => "tight" = "jpeg"
  BY <1>2 DEF Holds
<1>4. "tight" \in {"zlib", "zrle", "tight"} /\ "tight" = "tight"
  OBVIOUS
<1>5. (n # 0 => f = "palette") => Memory(x)
  BY <1>1, <1>3, <1>4, Zenon DEF Memory
<1>6. l = FALSE /\ c = "" /\ f = "" /\ n = 0 => Clean(x)
  BY <1>2 DEF Holds, Clean
<1> QED BY <1>5, <1>6

LEMMA TightBody ==
    ASSUME Inside("tight"), NEW j \in Nat, Ahead(j), NEW x, Alike(x), NEW i \in Nat, i <= j, TightAt(Stream, i, j, x)
    PROVE  BodyAt(Stream, i, j, x)
<1>1. x.rect[1] = "tight" /\ x.rect[2] = Size
  BY DEF Alike, Inside, Here, Size
<1>2. Size \in Nat /\ j <= Len(Stream) + 1
  BY TightAhead
<1> QED BY <1>1, <1>2, Zenon DEF BodyAt

LEMMA TightCtlKeeps ==
    ASSUME StreamInv, TightCtl
    PROVE  StreamInv'
<1>1. In("tight") /\ p.ctl = ""
  BY DEF TightCtl, Tight
<1>2. Inside("tight") /\ \E j \in Nat \ {0} : Ahead(j)
  BY <1>1, InRect
<1>3. PICK j \in Nat \ {0} : Ahead(j)
  BY <1>2
<1>4. /\ p \in Parser /\ Len(q) \in Nat /\ (Len(q) >= 1 => q[1] = Stream[1] /\ q[1].v \in Word)
      /\ TightAt(Stream, 1, j, p)
  BY <1>2, <1>3, TightAhead
<1>5. p.filter = "" /\ ~p.length /\ CtlAt(Stream, 1, j, Size)
  BY <1>1, <1>4 DEF TightAt, Size
<1>8. 1 < j /\ Len(q) \in Nat
  BY <1>4, <1>5 DEF CtlAt
<1>6. CASE ~Has(1) /\ Wait
  <2>1. Len(q) + 1 < j
    BY <1>6, <1>8 DEF Has
  <2> QED BY <1>3, <1>6, <2>1, WaitHere
<1>7. CASE Has(1) /\ Read(1, [p EXCEPT !.ctl = q[1].v], d)
  <2>1. 1 <= Len(q) /\ q[1] = Stream[1] /\ 1 + 1 <= j /\ 1 \in Nat
    <3>1. 1 <= Len(q) /\ 1 + 1 <= j /\ 1 \in Nat
      BY <1>7, <1>8 DEF Has
    <3> QED BY <1>4, <3>1
  <2>2. PICK x : x = [p EXCEPT !.ctl = q[1].v]
    OBVIOUS
  <2>3. Alike(x) /\ Holds(x, p.left, p.length, q[1].v, p.filter, p.colors, p.segs)
    BY <1>4, <2>1, <2>2, TightSets
  <2>4. p.colors = 0
    BY <1>2, <1>5 DEF Inside, Kept
  <2>5. Memory(x)
    BY <1>2, <2>3, <2>4, TightMemory
  <2>6. TightAt(Stream, 1 + 1, j, x)
    <3>1. x.ctl = Stream[1].v /\ x.filter = "" /\ ~x.length /\ x.rect[2] = Size
      BY <1>5, <2>1, <2>3 DEF Holds, Alike, Size
    <3>2. CASE Stream[1].v = "fill" /\ One(Stream, 1 + 1, j, "pixels")
      BY <3>1, <3>2, Zenon DEF TightAt
    <3>3. CASE Stream[1].v = "jpeg" /\ Two(Stream, 1 + 1, j, "length", "data")
      BY <3>1, <3>3, Zenon DEF TightAt, DeflatedAt
    <3>4. CASE Stream[1].v = "basic" /\ PixelsAt(Stream, 1 + 1, j, Size)
      BY <3>1, <3>4, Zenon DEF TightAt
    <3>5. CASE Stream[1].v = "filter" /\ FilterAt(Stream, 1 + 1, j, Size)
      BY <3>1, <3>5, Zenon DEF TightAt
    <3> QED BY <1>5, <3>2, <3>3, <3>4, <3>5, Zenon DEF CtlAt
  <2>7. BodyAt(Stream, 1 + 1, j, x)
    <3>1. 1 + 1 \in Nat
      OBVIOUS
    <3> QED BY <1>2, <1>3, <2>1, <2>3, <2>6, <3>1, TightBody
  <2> QED BY <1>1, <1>3, <1>7, <2>1, <2>2, <2>3, <2>5, <2>7, ReadHere
<1> QED BY <1>6, <1>7 DEF TightCtl

LEMMA TightFillKeeps ==
    ASSUME StreamInv, TightFill
    PROVE  StreamInv'
<1>1. In("tight") /\ p.ctl = "fill"
  BY DEF TightFill, Tight
<1>2. Inside("tight") /\ \E j \in Nat \ {0} : Ahead(j)
  BY <1>1, InRect
<1>3. PICK j \in Nat \ {0} : Ahead(j)
  BY <1>2
<1>4. p \in Parser /\ Len(q) \in Nat /\ TightAt(Stream, 1, j, p) /\ at = "msg" /\ p.rects > 0
  BY <1>2, <1>3, TightAhead
<1>5. ~p.length /\ One(Stream, 1, j, "pixels")
  BY <1>1, <1>4 DEF TightAt
<1>6. j = 1 + 1
  BY <1>5 DEF One
<1>7. CASE ~Has(1) /\ Wait
  <2>1. Len(q) + 1 < j
    BY <1>4, <1>6, <1>7 DEF Has
  <2> QED BY <1>3, <1>7, <2>1, WaitHere
<1>8. CASE Has(1) /\ Done(1, TightDone(p), Drawn)
  <2>1. PICK x : x = TightDone(p)
    OBVIOUS
  <2>2. Alike(x) /\ Holds(x, p.left, p.length, "", "", 0, p.segs)
    BY <1>4, <2>1, TightSets DEF Word
  <2>3. p.length = FALSE
    BY <1>4, <1>5 DEF Parser
  <2>4. Clean(x)
    BY <1>2, <2>2, <2>3, TightMemory
  <2>5. 1 <= Len(q)
    BY <1>8 DEF Has
  <2> QED BY <1>3, <1>4, <1>6, <1>8, <2>1, <2>2, <2>4, <2>5, DoneHere
<1> QED BY <1>7, <1>8 DEF TightFill

(* The deflated data of a Tight rectangle.                                  *)
LEMMA TightInflates ==
    ASSUME StreamInv, In("tight"), NEW j \in Nat \ {0}, Ahead(j), DeflatedAt(Stream, 1, j, p.length),
           \/ p.ctl = "jpeg"
           \/ Size = 2 /\ p.ctl \in {"basic", "filter"} /\ (p.filter = "copy" \/ (p.filter = "palette" /\ p.colors > 0)),
           NEW y, Inflates(TightDone(p), y)
    PROVE  StreamInv'
<1>1. Inside("tight")
  BY InRect
<1>2. TightAt(Stream, 1, j, p) /\ p \in Parser /\ 1 <= j
  BY <1>1, TightAhead
<1>3. PICK z : z = [TightDone(p) EXCEPT !.length = FALSE]
  OBVIOUS
<1>4. Alike(z) /\ Holds(z, p.left, FALSE, "", "", 0, p.segs)
  BY <1>2, <1>3, TightSets DEF Word
<1>5. Clean(z)
  BY <1>1, <1>4, TightMemory
<1>6. ASSUME NEW u, Alike(u), Holds(u, p.left, TRUE, p.ctl, p.filter, p.colors, p.segs),
             ~p.length, One(Stream, 2, j, "data")
      PROVE  BodyAt(Stream, 2, j, u)
  <2>1. u.length = TRUE /\ u.ctl = p.ctl /\ u.filter = p.filter /\ u.colors = p.colors /\ u.rect[2] = Size
    BY <1>6 DEF Holds, Alike, Size
  <2>2. DeflatedAt(Stream, 2, j, TRUE)
    BY <1>6 DEF DeflatedAt
  <2>3. TightAt(Stream, 2, j, u)
    <3>1. CASE p.ctl = "jpeg"
      <4>1. p.filter = ""
        BY <1>2, <3>1 DEF TightAt
      <4> QED BY <2>1, <2>2, <3>1, <4>1, Zenon DEF TightAt
    <3>2. CASE p.ctl # "jpeg"
      <4>1. DataAt(Stream, 2, j, Size, TRUE)
        BY <1>6, <3>2 DEF DataAt
      <4>2. p.ctl = "basic" => p.filter = "copy"
        BY <1>2, <3>2, Zenon DEF TightAt
      <4>3. CASE p.filter = "copy"
        BY <2>1, <3>2, <4>1, <4>3, Zenon DEF TightAt
      <4>4. CASE p.filter = "palette" /\ p.colors > 0 /\ p.ctl = "filter"
        BY <2>1, <4>1, <4>4, Zenon DEF TightAt
      <4> QED BY <3>2, <4>2, <4>3, <4>4
    <3> QED BY <3>1, <3>2
  <2>4. 2 <= j
    BY <1>6 DEF One
  <2> QED BY <1>1, <1>6, <2>3, <2>4, TightBody
<1> QED BY <1>3, <1>4, <1>5, <1>6, InflatesKeeps

LEMMA TightJpegKeeps ==
    ASSUME StreamInv, TightJpeg
    PROVE  StreamInv'
<1>1. In("tight") /\ p.ctl = "jpeg" /\ Inflates(TightDone(p), Queued)
  BY DEF TightJpeg, Tight
<1>2. Inside("tight") /\ \E j \in Nat \ {0} : Ahead(j)
  BY <1>1, InRect
<1>3. PICK j \in Nat \ {0} : Ahead(j)
  BY <1>2
<1>4. DeflatedAt(Stream, 1, j, p.length)
  <2>1. TightAt(Stream, 1, j, p)
    BY <1>2, <1>3, TightAhead
  <2> QED BY <1>1, <2>1 DEF TightAt
<1> QED BY <1>1, <1>3, <1>4, TightInflates

LEMMA TightFilterKeeps ==
    ASSUME StreamInv, TightFilter
    PROVE  StreamInv'
<1>1. In("tight") /\ p.filter = "" /\ p.ctl \in {"basic", "filter"}
  BY DEF TightFilter, Tight
<1>2. Inside("tight") /\ \E j \in Nat \ {0} : Ahead(j)
  BY <1>1, InRect
<1>3. PICK j \in Nat \ {0} : Ahead(j)
  BY <1>2
<1>4. TightAt(Stream, 1, j, p)
  BY <1>2, <1>3, TightAhead
<1>5. p \in Parser /\ Len(q) \in Nat /\ 1 <= j /\ (Len(q) >= 1 => q[1] = Stream[1] /\ q[1].v \in Word)
  BY <1>2, <1>3, TightAhead
<1>6. p.colors = 0 /\ ~p.length
  <2>1. p.colors = 0
    BY <1>1, <1>2 DEF Inside, Kept
  <2>2. ~p.length
    BY <1>1, <1>4, Zenon DEF TightAt
  <2> QED BY <2>1, <2>2
<1>7. CASE p.ctl = "basic" /\ Read(0, [p EXCEPT !.filter = "copy"], d)
  <2>1. PICK x : x = [p EXCEPT !.filter = "copy"]
    OBVIOUS
  <2>2. Alike(x) /\ Holds(x, p.left, p.length, p.ctl, "copy", p.colors, p.segs)
    <3>1. "copy" \in Word
      BY DEF Word
    <3> QED BY <1>5, <2>1, <3>1, TightSets, Zenon
  <2>3. Memory(x)
    BY <1>2, <1>6, <2>2, TightMemory
  <2>4. PixelsAt(Stream, 1, j, Size)
    BY <1>1, <1>4, <1>7 DEF TightAt, Size
  <2>5. TightAt(Stream, 1, j, x)
    <3>1. x.ctl = "basic" /\ x.filter = "copy" /\ ~x.length /\ x.rect[2] = Size
      BY <1>6, <1>7, <2>2 DEF Holds, Alike, Size
    <3> QED BY <2>4, <3>1, Zenon DEF TightAt, DataAt
  <2>6. BodyAt(Stream, 0 + 1, j, x)
    <3>1. BodyAt(Stream, 1, j, x)
      BY <1>2, <1>3, <1>5, <2>2, <2>5, TightBody
    <3> QED BY <3>1
  <2>7. 0 <= Len(q) /\ 0 + 1 <= j /\ 0 \in Nat
    BY <1>5
  <2> QED BY <1>1, <1>3, <1>7, <2>1, <2>2, <2>3, <2>6, <2>7, ReadHere
<1>8. CASE p.ctl = "filter"
  <2>1. FilterAt(Stream, 1, j, Size)
    BY <1>1, <1>4, <1>8 DEF TightAt, Size
  <2>2. 1 < j
    BY <2>1 DEF FilterAt
  <2>3. CASE ~Has(1) /\ Wait
    <3>1. Len(q) + 1 < j
      BY <1>5, <2>2, <2>3 DEF Has
    <3> QED BY <1>3, <2>3, <3>1, WaitHere
  <2>4. CASE Has(1) /\ Read(1, [p EXCEPT !.filter = q[1].v], d)
    <3>1. 1 <= Len(q) /\ q[1] = Stream[1] /\ 1 + 1 <= j /\ 1 \in Nat /\ q[1].v \in Word
      BY <1>5, <2>2, <2>4 DEF Has
    <3>2. PICK x : x = [p EXCEPT !.filter = q[1].v]
      OBVIOUS
    <3>3. Alike(x) /\ Holds(x, p.left, p.length, p.ctl, q[1].v, p.colors, p.segs)
      BY <1>5, <3>1, <3>2, TightSets
    <3>4. Memory(x)
      BY <1>2, <1>6, <3>3, TightMemory
    <3>5. TightAt(Stream, 1 + 1, j, x)
      <4>1. x.ctl = "filter" /\ x.filter = Stream[1].v /\ ~x.length /\ x.rect[2] = Size /\ x.colors = 0
        BY <1>6, <1>8, <3>1, <3>3 DEF Holds, Alike, Size
      <4>2. CASE Stream[1].v = "copy" /\ PixelsAt(Stream, 1 + 1, j, Size)
        BY <4>1, <4>2, Zenon DEF TightAt, DataAt
      <4>3. CASE Stream[1].v = "palette" /\ PaletteAt(Stream, 1 + 1, j, Size)
        BY <4>1, <4>3, Zenon DEF TightAt
      <4> QED BY <2>1, <4>2, <4>3, Zenon DEF FilterAt
    <3>6. BodyAt(Stream, 1 + 1, j, x)
      <4>1. 1 + 1 \in Nat
        OBVIOUS
      <4> QED BY <1>2, <1>3, <3>1, <3>3, <3>5, <4>1, TightBody
    <3> QED BY <1>1, <1>3, <2>4, <3>1, <3>2, <3>3, <3>4, <3>6, ReadHere
  <2> QED BY <1>8, <2>3, <2>4 DEF TightFilter, Tight
<1> QED BY <1>1, <1>7, <1>8 DEF TightFilter, Tight

LEMMA TightPaletteKeeps ==
    ASSUME StreamInv, TightPalette
    PROVE  StreamInv'
<1>1. In("tight") /\ p.ctl = "filter" /\ p.filter = "palette" /\ p.colors = 0
  BY DEF TightPalette, Tight
<1>2. Inside("tight") /\ \E j \in Nat \ {0} : Ahead(j)
  BY <1>1, InRect
<1>3. PICK j \in Nat \ {0} : Ahead(j)
  BY <1>2
<1>4. p \in Parser /\ Len(q) \in Nat /\ TightAt(Stream, 1, j, p)
  BY <1>2, <1>3, TightAhead
<1>5. PaletteAt(Stream, 1, j, Size) /\ ~p.length
  <2>1. ~(p.colors > 0)
    BY <1>1
  <2> QED BY <1>1, <1>4, <2>1, Zenon DEF TightAt, Size
<1>6. 1 + 2 <= j /\ PixelsAt(Stream, 1 + 2, j, Size) /\ Len(q) \in Nat
  BY <1>4, <1>5 DEF PaletteAt
<1>7. CASE ~Has(2) /\ Wait
  <2>1. Len(q) + 1 < j
    BY <1>6, <1>7 DEF Has
  <2> QED BY <1>3, <1>7, <2>1, WaitHere
<1>8. CASE Has(2) /\ Read(2, [p EXCEPT !.colors = 2], d)
  <2>1. PICK x : x = [p EXCEPT !.colors = 2]
    OBVIOUS
  <2>2. Alike(x) /\ Holds(x, p.left, p.length, p.ctl, p.filter, 2, p.segs)
    BY <1>4, <2>1, TightSets DEF Word
  <2>3. Memory(x)
    BY <1>1, <1>2, <2>2, TightMemory
  <2>4. TightAt(Stream, 2 + 1, j, x)
    <3>1. x.ctl = "filter" /\ x.filter = "palette" /\ ~x.length /\ x.rect[2] = Size /\ x.colors > 0
      BY <1>1, <1>5, <2>2 DEF Holds, Alike, Size
    <3>2. PixelsAt(Stream, 2 + 1, j, Size)
      BY <1>6
    <3> QED BY <3>1, <3>2, Zenon DEF TightAt, DataAt
  <2>5. 2 <= Len(q) /\ 2 + 1 <= j /\ 2 \in Nat /\ 2 + 1 \in Nat
    BY <1>6, <1>8 DEF Has
  <2>6. BodyAt(Stream, 2 + 1, j, x)
    BY <1>2, <1>3, <2>2, <2>4, <2>5, TightBody
  <2> QED BY <1>1, <1>3, <1>8, <2>1, <2>2, <2>3, <2>5, <2>6, ReadHere
<1> QED BY <1>7, <1>8 DEF TightPalette

LEMMA TightPixelsKeeps ==
    ASSUME StreamInv, TightPixels
    PROVE  StreamInv'
<1>1. /\ In("tight") /\ p.ctl \in {"basic", "filter"}
      /\ p.filter = "copy" \/ (p.filter = "palette" /\ p.colors > 0)
  BY DEF TightPixels, Tight
<1>2. Inside("tight") /\ \E j \in Nat \ {0} : Ahead(j)
  BY <1>1, InRect
<1>3. PICK j \in Nat \ {0} : Ahead(j)
  BY <1>2
<1>4. p \in Parser /\ Len(q) \in Nat /\ TightAt(Stream, 1, j, p) /\ at = "msg" /\ p.rects > 0
  BY <1>2, <1>3, TightAhead
<1>5. DataAt(Stream, 1, j, Size, p.length)
  <2>1. p.colors > 0 => p.colors # 0
    OBVIOUS
  <2> QED BY <1>1, <1>4, <2>1, Zenon DEF TightAt, Size
<1>6. PICK x : x = TightDone(p)
  OBVIOUS
<1>7. Alike(x) /\ Holds(x, p.left, p.length, "", "", 0, p.segs)
  BY <1>4, <1>6, TightSets DEF Word
<1>8. ~p.length => Clean(x)
  <2>1. p.length \in BOOLEAN
    BY <1>4 DEF Parser
  <2>2. ~p.length => p.length = FALSE
    BY <2>1
  <2> QED BY <1>2, <1>7, <2>2, TightMemory
<1>9. ~p.length => PixelsAt(Stream, 1, j, Size)
  BY <1>5 DEF DataAt
<1>10. p.length => Size = 2
  BY <1>5 DEF DataAt
<1>11. CASE Size = 0 /\ Done(0, x, d)
  <2>1. j = 0 + 1 /\ Clean(x)
    BY <1>8, <1>9, <1>10, <1>11 DEF PixelsAt
  <2>2. 0 <= Len(q) /\ 0 \in Nat
    BY <1>4
  <2> QED BY <1>3, <1>4, <1>7, <1>11, <2>1, <2>2, DoneHere
<1>12. CASE Size = 1
  <2>1. j = 1 + 1 /\ Clean(x)
    BY <1>8, <1>9, <1>10, <1>12 DEF PixelsAt, One
  <2>2. CASE ~Has(1) /\ Wait
    <3>1. Len(q) + 1 < j
      <4>1. Len(q) \in Nat
        BY <1>4
      <4> QED BY <4>1, <2>1, <2>2 DEF Has
    <3> QED BY <1>3, <2>2, <3>1, WaitHere
  <2>3. CASE Has(1) /\ Done(1, x, Drawn)
    <3>1. 1 <= Len(q)
      BY <2>3 DEF Has
    <3> QED BY <1>3, <1>4, <1>7, <2>1, <2>3, <3>1, DoneHere
  <2>4. Size # 0 /\ Size # 2
    BY <1>12
  <2> QED BY <1>6, <2>2, <2>3, <2>4, Zenon DEF TightPixels
<1>13. CASE Size = 2 /\ Inflates(x, Drawn)
  <2>1. DeflatedAt(Stream, 1, j, p.length)
    BY <1>5, <1>13 DEF DataAt, DeflatedAt, PixelsAt
  <2> QED BY <1>1, <1>3, <1>6, <1>13, <2>1, TightInflates
<1> QED BY <1>6, <1>11, <1>12, <1>13, Zenon DEF TightPixels

(* A segment at the front of what is left of a JPEG rectangle.              *)
LEMMA JpegAhead ==
    ASSUME Typed, NEW j \in Nat, NEW segs, JpegAt(Stream, 1, j, segs), j <= Len(Stream) + 1, Has(1)
    PROVE  /\ q[1].v = "end" => j = 2
           /\ q[1].v # "end" => /\ SegmentLength \in {1, 3, 4} /\ SegmentLength + 1 <= j
                                /\ JpegAt(Stream, SegmentLength + 1, j, segs \cup {q[1].v})
           /\ ~Has(SegmentLength + IF q[1].v = "scan" THEN 1 ELSE 0) => Len(q) + 1 < j
<1>1. Len(q) \in Nat /\ Len(Stream) \in Nat /\ Len(q) >= 1 /\ q[1] = Stream[1]
  <2>1. Len(q) \in Nat /\ Len(Stream) \in Nat /\ \A k \in 1 .. Len(q) : q[k] = Stream[k]
    BY StreamFields
  <2> QED BY <2>1 DEF Has
<1>2. PICK v : v = q[1].v
  OBVIOUS
<1>3. SegmentLength = CASE v \in {"start", "end"} -> 1 [] v = "scan" -> 4 [] OTHER -> 3
  BY <1>2 DEF SegmentLength
<1>4. ASSUME EndAt(Stream, 1, j) PROVE v = "end" /\ j = 2
  BY <1>1, <1>2, <1>4 DEF EndAt, SegmentAt
<1>5. ASSUME ScanAt(Stream, 1, j) PROVE v = "scan" /\ j = 6 /\ EndAt(Stream, 5, j)
  BY <1>1, <1>2, <1>5 DEF ScanAt, EndAt, BlockAt, SegmentAt
<1>6. ASSUME FrameAt(Stream, 1, j) PROVE v = "frame" /\ 8 <= j /\ ScanAt(Stream, 4, j)
  BY <1>1, <1>2, <1>6 DEF FrameAt, ScanAt, BlockAt, SegmentAt
<1>7. ASSUME TablesAt(Stream, 1, j) PROVE v = "tables" /\ 11 <= j /\ FrameAt(Stream, 4, j)
  BY <1>1, <1>2, <1>7 DEF TablesAt, FrameAt, ScanAt, BlockAt, SegmentAt
<1>8. CASE segs = {}
  <2>1. v = "start" /\ 1 < j /\ (TablesAt(Stream, 1 + 1, j) \/ FrameAt(Stream, 1 + 1, j))
    BY <1>1, <1>2, <1>8 DEF JpegAt, SegmentAt
  <2>2. segs \cup {v} = {"start"}
    BY <1>8, <2>1
  <2>3. JpegAt(Stream, 1 + 1, j, {"start"})
    BY <2>1 DEF JpegAt
  <2>4. SegmentLength = 1
    BY <1>3, <2>1
  <2>5. Has(1 + 0)
    BY <1>1 DEF Has
  <2>6. q[1].v = "start" /\ q[1].v # "end" /\ q[1].v # "scan"
    BY <1>2, <2>1
  <2>7. SegmentLength \in {1, 3, 4} /\ SegmentLength + 1 <= j /\ JpegAt(Stream, SegmentLength + 1, j, segs \cup {q[1].v})
    <3>1. SegmentLength \in {1, 3, 4} /\ SegmentLength + 1 <= j
      BY <2>1, <2>4
    <3>2. segs \cup {q[1].v} = {"start"}
      BY <1>2, <2>2
    <3> QED BY <2>3, <2>4, <3>1, <3>2
  <2>8. Has(SegmentLength + IF q[1].v = "scan" THEN 1 ELSE 0)
    BY <2>4, <2>5, <2>6
  <2> QED BY <2>6, <2>7, <2>8
<1>9. CASE segs # {} /\ "scan" \in segs
  <2>1. v = "end" /\ j = 2
    BY <1>4, <1>9 DEF JpegAt
  <2>2. SegmentLength = 1 /\ Has(1 + 0)
    BY <1>1, <1>3, <2>1 DEF Has
  <2> QED BY <1>2, <2>1, <2>2
<1>10. CASE segs # {} /\ "scan" \notin segs /\ "frame" \in segs
  <2>1. v = "scan" /\ j = 6 /\ EndAt(Stream, 4 + 1, j)
    BY <1>5, <1>10 DEF JpegAt
  <2>2. JpegAt(Stream, 4 + 1, j, segs \cup {"scan"})
    BY <2>1 DEF JpegAt
  <2>3. SegmentLength = 4
    BY <1>3, <2>1
  <2>4. ~Has(4 + 1) => Len(q) + 1 < j
    BY <1>1, <2>1 DEF Has
  <2> QED BY <1>2, <2>1, <2>2, <2>3, <2>4
<1>11. ASSUME v \in {"frame", "tables"}, 8 <= j, JpegAt(Stream, 3 + 1, j, segs \cup {v})
       PROVE  /\ q[1].v = "end" => j = 2
              /\ q[1].v # "end" => /\ SegmentLength \in {1, 3, 4} /\ SegmentLength + 1 <= j
                                   /\ JpegAt(Stream, SegmentLength + 1, j, segs \cup {q[1].v})
              /\ ~Has(SegmentLength + IF q[1].v = "scan" THEN 1 ELSE 0) => Len(q) + 1 < j
  <2>1. SegmentLength = 3 /\ v # "end" /\ v # "scan"
    BY <1>3, <1>11
  <2>2. ~Has(3 + 0) => Len(q) + 1 < j
    BY <1>1, <1>11 DEF Has
  <2>3. 3 + 1 <= j
    BY <1>11
  <2> QED BY <1>2, <1>11, <2>1, <2>2, <2>3
<1>12. CASE segs # {} /\ "scan" \notin segs /\ "frame" \notin segs /\ FrameAt(Stream, 1, j)
  <2>1. v = "frame" /\ 8 <= j /\ ScanAt(Stream, 3 + 1, j)
    BY <1>6, <1>12
  <2>2. JpegAt(Stream, 3 + 1, j, segs \cup {"frame"})
    BY <1>12, <2>1 DEF JpegAt
  <2> QED BY <1>11, <2>1, <2>2
<1>13. CASE segs # {} /\ "scan" \notin segs /\ "frame" \notin segs /\ "tables" \notin segs /\ TablesAt(Stream, 1, j)
  <2>1. v = "tables" /\ 11 <= j /\ FrameAt(Stream, 3 + 1, j)
    BY <1>7, <1>13
  <2>2. JpegAt(Stream, 3 + 1, j, segs \cup {"tables"})
    BY <1>13, <2>1 DEF JpegAt
  <2>3. 8 <= j
    BY <2>1
  <2> QED BY <1>11, <2>1, <2>2, <2>3
<1> QED BY <1>8, <1>9, <1>10, <1>12, <1>13, Zenon DEF JpegAt

LEMMA JpegsKeep ==
    ASSUME StreamInv, Jpegs
    PROVE  StreamInv'
<1>1. In("jpeg")
  BY DEF Jpegs
<1>2. Inside("jpeg") /\ \E j \in Nat \ {0} : Ahead(j)
  BY <1>1, InRect
<1>3. PICK j \in Nat \ {0} : Ahead(j)
  BY <1>2
<1>4. JpegAt(Stream, 1, j, p.segs) /\ j <= Len(Stream) + 1 /\ Size \in Nat /\ 1 <= j
  BY <1>2, <1>3 DEF Ahead, BodyAt, Inside, Here, Size
<1>5. Typed /\ p \in Parser /\ at = "msg" /\ p.rects > 0
  BY <1>2 DEF Inside, Here
<1>6. Len(q) \in Nat /\ (Len(q) >= 1 => q[1].v \in Word)
  <2>1. q \in Seq(Unit)
    BY <1>5 DEF Typed
  <2>2. Len(q) >= 1 => q[1] \in Unit
    BY <2>1
  <2> QED BY <2>1, <2>2 DEF Unit
<1>7. p.left = 0 /\ p.length = FALSE /\ p.ctl = "" /\ p.filter = "" /\ p.colors = 0
  BY <1>2 DEF Inside, Kept
<1>8. CASE ~(Has(1) /\ Has(SegmentLength + IF q[1].v = "scan" THEN 1 ELSE 0)) /\ Wait
  <2>1. CASE ~Has(1)
    <3>1. j # 1
      BY <1>4 DEF JpegAt, EndAt, ScanAt, FrameAt, TablesAt
    <3>2. Len(q) + 1 < j
      BY <1>4, <1>6, <2>1, <3>1 DEF Has
    <3> QED BY <1>3, <1>8, <3>2, WaitHere
  <2>2. CASE Has(1)
    <3>1. Len(q) + 1 < j
      BY <1>4, <1>5, <1>8, <2>2, JpegAhead
    <3> QED BY <1>3, <1>8, <3>1, WaitHere
  <2> QED BY <2>1, <2>2
<1>9. CASE /\ Has(1) /\ Has(SegmentLength + IF q[1].v = "scan" THEN 1 ELSE 0) /\ q[1].v # "end"
           /\ Read(SegmentLength, [p EXCEPT !.segs = @ \cup {q[1].v}], d)
  <2>1. PICK n : n = SegmentLength
    OBVIOUS
  <2>2. n \in {1, 3, 4} /\ n + 1 <= j /\ JpegAt(Stream, n + 1, j, p.segs \cup {q[1].v})
    BY <1>4, <1>5, <1>9, <2>1, JpegAhead
  <2>3. n \in Nat /\ n <= Len(q) /\ n + 1 \in Nat
    BY <1>6, <1>9, <2>1, <2>2 DEF Has
  <2>4. PICK x : x = [p EXCEPT !.segs = p.segs \cup {q[1].v}]
    OBVIOUS
  <2>5. x \in Parser
    <3>1. p.segs \cup {q[1].v} \in SUBSET Word
      BY <1>5, <1>6, <1>9 DEF Has, Parser
    <3> QED BY <1>5, <2>4, <3>1 DEF Parser
  <2>6. Alike(x) /\ Holds(x, p.left, p.length, p.ctl, p.filter, p.colors, p.segs \cup {q[1].v})
    BY <1>5, <2>4, <2>5 DEF Parser, Alike, Holds
  <2>7. x.rect # <<>> /\ x.rect[1] = "jpeg" /\ x.rect[2] = Size
    BY <1>2, <2>6, Zenon DEF Alike, Inside, Here, Open, Size
  <2>8. Memory(x)
    <3>1. /\ x.left # 0 => "jpeg" \in {"raw", "rre", "hextile"}
          /\ x.length => "jpeg" \in {"zlib", "zrle", "tight"}
          /\ x.ctl # "" \/ x.filter # "" \/ x.colors # 0 => "jpeg" = "tight"
          /\ x.colors # 0 => x.filter = "palette"
      BY <1>7, <2>6 DEF Holds
    <3>2. x.segs # {} => "jpeg" = "jpeg"
      OBVIOUS
    <3> QED BY <2>7, <3>1, <3>2, Zenon DEF Memory
  <2>9. BodyAt(Stream, n + 1, j, x)
    <3>1. JpegAt(Stream, n + 1, j, x.segs)
      BY <2>2, <2>6 DEF Holds
    <3> QED BY <1>4, <2>2, <2>7, <3>1, Zenon DEF BodyAt
  <2> QED BY <1>1, <1>3, <1>9, <2>1, <2>2, <2>3, <2>4, <2>6, <2>8, <2>9, ReadHere
<1>10. CASE /\ Has(1) /\ q[1].v = "end"
            /\ Done(1, [p EXCEPT !.segs = {}, !.tables = @ \/ "tables" \in p.segs],
                    IF p.tables \/ "tables" \in p.segs THEN Queued ELSE d)
  <2>1. j = 1 + 1 /\ 1 <= Len(q) /\ 1 \in Nat
    BY <1>4, <1>5, <1>6, <1>10, JpegAhead DEF Has
  <2>2. PICK b \in BOOLEAN : b = (p.tables \/ "tables" \in p.segs)
    OBVIOUS
  <2>3. PICK x : x = [p EXCEPT !.segs = {}, !.tables = b]
    OBVIOUS
  <2>4. x \in Parser
    <3>1. {} \in SUBSET Word
      OBVIOUS
    <3> QED BY <1>5, <2>3, <3>1 DEF Parser
  <2>5. Alike(x) /\ Holds(x, p.left, p.length, p.ctl, p.filter, p.colors, {})
    BY <1>5, <2>3, <2>4 DEF Parser, Alike, Holds
  <2>6. Clean(x)
    BY <1>7, <2>5 DEF Holds, Clean
  <2>7. Done(1, x, IF p.tables \/ "tables" \in p.segs THEN Queued ELSE d)
    BY <1>10, <2>2, <2>3
  <2> QED BY <1>3, <1>5, <2>1, <2>5, <2>6, <2>7, DoneHere
<1> QED BY <1>8, <1>9, <1>10, Zenon DEF Jpegs

LEMMA H264Keeps ==
    ASSUME StreamInv, H264
    PROVE  StreamInv'
<1>1. In("h264")
  BY DEF H264
<1>2. Inside("h264") /\ \E j \in Nat \ {0} : Ahead(j)
  BY <1>1, InRect
<1>3. PICK j \in Nat \ {0} : Ahead(j)
  BY <1>2
<1>4. \/ Stream[1].v = "empty" /\ One(Stream, 1, j, "h264")
      \/ Stream[1].v # "empty" /\ Two(Stream, 1, j, "h264", "data")
  BY <1>2, <1>3 DEF Ahead, BodyAt, Inside, Here
<1>5. (Stream[1].v = "empty" => j = 1 + 1) /\ (Stream[1].v # "empty" => j = 2 + 1)
  BY <1>4 DEF One, Two
<1>6. Len(q) \in Nat /\ (Len(q) >= 1 => q[1] = Stream[1])
  BY <1>2 DEF Inside, Queue
<1>7. Typed /\ p \in Parser /\ at = "msg" /\ p.rects > 0 /\ Alike(p)
  BY <1>2 DEF Inside, Here
<1>8. CASE ~Has(1) /\ Wait
  <2>1. Len(q) + 1 < j
    BY <1>5, <1>6, <1>8 DEF Has
  <2> QED BY <1>3, <1>8, <2>1, WaitHere
<1>9. CASE Has(1) /\ q[1].v = "empty" /\ Done(1, p, d)
  <2>1. 1 <= Len(q) /\ j = 1 + 1
    BY <1>5, <1>6, <1>9 DEF Has
  <2>2. Clean(p)
    BY <1>2, InsideClean
  <2> QED BY <1>3, <1>7, <1>9, <2>1, <2>2, DoneHere
<1>10. CASE Has(1) /\ q[1].v # "empty" /\ ~Has(2) /\ Back(1, 1)
  <2>1. Len(q) + 1 < j
    BY <1>5, <1>6, <1>10 DEF Has
  <2>2. Wait
    BY <1>7, <1>10, BackIsWait
  <2> QED BY <1>3, <2>1, <2>2, WaitHere
<1>11. ASSUME NEW b \in BOOLEAN, NEW y, Has(2), q[1].v # "empty", Done(2, [p EXCEPT !.h264 = b], y) PROVE StreamInv'
  <2>1. 2 <= Len(q) /\ j = 2 + 1
    BY <1>5, <1>6, <1>11 DEF Has
  <2>2. PICK x : x = [p EXCEPT !.h264 = b]
    OBVIOUS
  <2>3. x \in Parser
    BY <1>7, <2>2 DEF Parser
  <2>4. Alike(x) /\ Holds(x, p.left, p.length, p.ctl, p.filter, p.colors, p.segs)
    BY <1>7, <2>2, <2>3 DEF Parser, Alike, Holds
  <2>5. Clean(p)
    BY <1>2, InsideClean
  <2>6. Clean(x)
    BY <2>4, <2>5 DEF Holds, Clean
  <2> QED BY <1>3, <1>7, <1>11, <2>1, <2>2, <2>4, <2>6, DoneHere
<1>12. ASSUME Has(2), q[1].v # "empty",
              LET known == q[1].v = "key" \/ (p.h264 /\ q[1].v # "reset")
              IN Done(2, [p EXCEPT !.h264 = known], IF known THEN Queued ELSE d)
       PROVE  StreamInv'
  BY <1>11, <1>12
<1> QED BY <1>8, <1>9, <1>10, <1>12, Zenon DEF H264

(***************************************************************************)
(* The header of a rectangle.                                               *)
(***************************************************************************)
LEMMA BodyLike ==
    ASSUME NEW s, NEW i, NEW j, NEW x, NEW z, x.rect = z.rect, x.left = z.left, x.length = z.length,
           x.ctl = z.ctl, x.filter = z.filter, x.colors = z.colors, x.segs = z.segs, BodyAt(s, i, j, x)
    PROVE  BodyAt(s, i, j, z)
BY Zenon DEF BodyAt, TightAt

LEMMA BodyNames ==
    ASSUME NEW s, NEW i, NEW j, NEW x, BodyAt(s, i, j, x)
    PROVE  x.rect[1] # "last"
<1>1. x.rect[1] \in {"raw", "copy", "rre", "hextile", "zlib", "zrle", "tight", "jpeg", "h264", "cursor", "vmcursor",
                     "name", "screens", "led", "size", "keys", "buttons"}
  BY Zenon DEF BodyAt
<1> QED BY <1>1

LEMMA HeaderReads ==
    ASSUME NEW s, NEW u, Dropped(s, u, 1), NEW x \in Parser, Clean(x), 1 <= Len(s), x.rect = <<s[1].v, s[1].n>>,
           x.rects > 0, RestAt(s, 1, x.rects)
    PROVE  Reading(x, u)
<1>1. Len(s) \in Nat /\ x.rects \in 1 .. 3
  BY DEF Dropped, Parser
<1>2. x.rect # <<>> /\ x.rect[1] = s[1].v
  BY <1>1
<1>3. ASSUME NEW j \in 1 .. Len(s) + 1, RectAt(s, 1, j), RestAt(s, j, x.rects - 1) PROVE Reading(x, u)
  <2>1. PICK z : z = Fresh(s[1].v, s[1].n)
    OBVIOUS
  <2>2. BodyAt(s, 1 + 1, j, z)
    BY <1>3, <2>1 DEF RectAt
  <2>3. /\ z.rect = x.rect /\ z.left = x.left /\ z.ctl = x.ctl /\ z.filter = x.filter /\ z.colors = x.colors
        /\ z.segs = x.segs
    <3>1. /\ z.left = 0 /\ z.rect = <<s[1].v, s[1].n>> /\ z.ctl = "" /\ z.filter = "" /\ z.colors = 0 /\ z.segs = {}
      BY <2>1 DEF Fresh, PInit
    <3> QED BY <3>1, Zenon DEF Clean
  <2>4. z.length = x.length
    <3>1. x.length = FALSE
      BY DEF Clean, Parser
    <3>2. z.length = FALSE
      BY <2>1 DEF Fresh, PInit
    <3> QED BY <3>1, <3>2, Zenon
  <2>5. BodyAt(s, 1 + 1, j, x)
    BY <2>2, <2>3, <2>4, BodyLike
  <2>6. x.rect[1] # "last"
    BY <2>5, BodyNames
  <2>7. j \in Nat /\ j <= Len(s) + 1 /\ 1 + 1 <= j
    <3>1. j \in Nat /\ j <= Len(s) + 1
      BY <1>1
    <3>2. 1 + 1 <= j
      BY <2>5 DEF BodyAt
    <3> QED BY <3>1, <3>2
  <2>8. x.rects > 0
    BY <1>1
  <2> QED BY <1>2, <1>3, <2>5, <2>6, <2>7, <2>8, BodyStays
<1>4. ASSUME LastAt(s, 1) PROVE Reading(x, u)
  <2>1. s[1].v = "last" /\ Ends(s, 1 + 1)
    BY <1>4 DEF LastAt
  <2>2. GoesOn(s, u, 1 + 1, -1) /\ 1 + 1 \in Nat
    BY DroppedGoesOn
  <2>3. Ends(u, (1 + 1) + (-1))
    BY <2>1, <2>2, EndsMove
  <2>4. Ends(u, 1)
    BY <2>3
  <2> QED BY <1>2, <1>4, <2>1, <2>4, Zenon DEF Reading
<1>5. CASE x.rects = 1
  <2>1. PICK j \in 1 .. Len(s) + 1 : RectAt(s, 1, j) /\ Ends(s, j)
    BY <1>5 DEF RestAt, Rest1
  <2>2. RestAt(s, j, x.rects - 1)
    BY <1>5, <2>1 DEF RestAt, Rest0
  <2> QED BY <1>3, <2>1, <2>2
<1>6. CASE x.rects = 2
  <2>1. ASSUME NEW j \in 1 .. Len(s) + 1, RectAt(s, 1, j), Rest1(s, j) PROVE Reading(x, u)
    <3>1. RestAt(s, j, x.rects - 1)
      BY <1>6, <2>1 DEF RestAt
    <3> QED BY <1>3, <2>1, <3>1
  <2>2. Rest2(s, 1)
    BY <1>6 DEF RestAt
  <2> QED BY <1>4, <2>1, <2>2 DEF Rest2
<1>7. CASE x.rects = 3
  <2>1. ASSUME NEW j \in 1 .. Len(s) + 1, RectAt(s, 1, j), LastAt(s, j) PROVE Reading(x, u)
    <3>1. RestAt(s, j, x.rects - 1)
      BY <1>7, <2>1 DEF RestAt, Rest2
    <3> QED BY <1>3, <2>1, <3>1
  <2>2. Rest3(s, 1)
    BY <1>7 DEF RestAt
  <2> QED BY <1>4, <2>1, <2>2 DEF Rest3
<1> QED BY <1>1, <1>5, <1>6, <1>7

LEMMA RestBegins ==
    ASSUME NEW s, NEW r, r # 0, RestAt(s, 1, r)
    PROVE  1 <= Len(s) /\ s[1].t = "rect"
<1>1. (\E j : RectAt(s, 1, j)) \/ LastAt(s, 1)
  BY DEF RestAt, Rest1, Rest2, Rest3
<1> QED BY <1>1 DEF RectAt, LastAt

LEMMA RectHeaderKeeps ==
    ASSUME StreamInv, RectHeader
    PROVE  StreamInv'
<1>1. at = "msg" /\ p.rects > 0 /\ p.rect = <<>> /\ p \in Parser /\ Typed
  BY DEF RectHeader, StreamInv, Typed
<1>2. RestAt(Stream, 1, p.rects) /\ Clean(p)
  BY <1>1 DEF StreamInv, Reading, Memory
<1>3. Len(q) \in Nat /\ (Len(q) >= 1 => q[1] = Stream[1])
  <2>1. Len(q) \in Nat /\ \A k \in 1 .. Len(q) : q[k] = Stream[k]
    BY <1>1, StreamFields
  <2> QED BY <2>1
<1>4. 1 <= Len(Stream) /\ Stream[1].t = "rect"
  <2>1. p.rects # 0
    BY <1>1
  <2> QED BY <1>2, <2>1, RestBegins
<1>5. CASE ~Has(1) /\ Wait
  <2>1. Len(Stream) > Len(q)
    BY <1>3, <1>4, <1>5 DEF Has
  <2> QED BY <1>5, <2>1, WaitsStep
<1>6. CASE Has(1) /\ Read(1, [p EXCEPT !.rect = <<q[1].v, q[1].n>>], d)
  <2>1. 1 <= Len(q) /\ q[1] = Stream[1] /\ 1 \in Nat
    BY <1>3, <1>6 DEF Has
  <2>2. q[1] \in Unit
    <3>1. q \in Seq(Unit)
      BY <1>1 DEF Typed
    <3> QED BY <1>3, <2>1, <3>1
  <2>3. PICK x : x = [p EXCEPT !.rect = <<q[1].v, q[1].n>>]
    OBVIOUS
  <2>4. x \in Parser
    <3>1. <<q[1].v, q[1].n>> \in Word \X Nat
      BY <2>2 DEF Unit
    <3> QED BY <1>1, <2>3, <3>1 DEF Parser
  <2>5. x.rects = p.rects /\ x.cont = p.cont /\ x.flushing = p.flushing
    BY <1>1, <2>3 DEF Parser
  <2>6. x.rect = <<Stream[1].v, Stream[1].n>>
    BY <1>1, <2>1, <2>3 DEF Parser
  <2>7. Clean(x)
    <3>1. /\ x.left = p.left /\ x.length = p.length /\ x.ctl = p.ctl /\ x.filter = p.filter
          /\ x.colors = p.colors /\ x.segs = p.segs
      BY <1>1, <2>3 DEF Parser
    <3> QED BY <1>2, <3>1 DEF Clean
  <2>8. Memory(x)
    BY <2>6, <2>7 DEF Memory, Clean
  <2>9. NoTypes(Stream, 1, 1 + 1)
    BY <1>4 DEF NoTypes
  <2>10. ASSUME Dropped(Stream, Stream', 1) PROVE Reading(x, Stream')
    <3>1. PICK s, u : s = Stream /\ u = Stream'
      OBVIOUS
    <3>2. Dropped(s, u, 1) /\ 1 <= Len(s) /\ x.rect = <<s[1].v, s[1].n>> /\ RestAt(s, 1, x.rects)
      BY <1>2, <1>4, <2>5, <2>6, <2>10, <3>1
    <3>3. x.rects > 0
      BY <1>1, <2>5
    <3>4. Reading(x, u)
      BY <2>4, <2>7, <3>2, <3>3, HeaderReads
    <3> QED BY <3>1, <3>4, Zenon
  <2> QED BY <1>1, <1>6, <2>1, <2>3, <2>4, <2>5, <2>8, <2>9, <2>10, PassStep
<1> QED BY <1>5, <1>6 DEF RectHeader

(***************************************************************************)
(* The messages.                                                            *)
(***************************************************************************)
LEMMA MessageFirst ==
    ASSUME StreamInv, NEW m, Handles(m)
    PROVE  /\ at = "msg" /\ p.rects = 0 /\ p.rect = <<>> /\ Clean(p) /\ p.flushing = FALSE /\ Typed /\ p \in Parser
           /\ Len(q) \in Nat /\ Len(Stream) \in Nat /\ Len(Stream) >= Len(q) /\ 1 <= Len(q)
           /\ \A k \in 1 .. Len(q) : q[k] = Stream[k]
           /\ MessageAt(Stream, 1) /\ Stream[1] = U("type", m) /\ Stream[1].v = m
<1>1. at = "msg" /\ p.rects = 0 /\ q # <<>> /\ q[1].v = m /\ Typed /\ p \in Parser
  BY DEF Handles, StreamInv, Typed
<1>2. /\ Len(q) \in Nat /\ Len(Stream) \in Nat /\ Len(Stream) >= Len(q) /\ 1 <= Len(q)
      /\ \A k \in 1 .. Len(q) : q[k] = Stream[k]
  BY <1>1, StreamFields
<1>3. Reading(p, Stream) /\ Memory(p) /\ Resting /\ Whole(Stream)
  BY DEF StreamInv
<1>4. p.rect = <<>>
  BY <1>1, <1>3 DEF Reading
<1>5. Clean(p)
  BY <1>3, <1>4 DEF Memory
<1>6. p.flushing = FALSE
  BY <1>1, <1>3 DEF Resting, Parser
<1>7. Ends(Stream, 1)
  BY <1>1, <1>3, <1>4 DEF Reading, RestAt, Rest0
<1>8. MessageAt(Stream, 1)
  <2>1. 1 \in 1 .. Len(Stream) /\ Stream[1].t = "type"
    BY <1>2, <1>7 DEF Ends
  <2> QED BY <1>3, <2>1 DEF Whole
<1>9. Stream[1] = U("type", Stream[1].v) /\ Stream[1].v = m
  <2>1. q[1] = Stream[1]
    BY <1>2
  <2> QED BY <1>1, <1>8, <2>1 DEF MessageAt
<1> QED BY <1>1, <1>2, <1>4, <1>5, <1>6, <1>8, <1>9

(* A message that is read to its end.                                       *)
LEMMA MessageStep ==
    ASSUME StreamInv, NEW m, Handles(m), m # "update", NEW n \in Nat, 1 <= n, n <= Len(q),
           \A k \in 2 .. n : Stream[k].t # "type", Ends(Stream, n + 1),
           q' = SubSeq(q, n + 1, Len(q)), wire' = wire, srv' = srv, at' = NextMessage,
           p' \in Parser, p'.rects = 0, p'.rect = <<>>, p'.flushing = FALSE, Clean(p'), p'.cont => srv.ends
    PROVE  StreamInv'
<1>1. /\ at = "msg" /\ p.rects = 0 /\ Typed /\ Stream[1] = U("type", m) /\ Len(Stream) \in Nat
  BY MessageFirst
<1>2. Whole(Stream) /\ AskedOnce(p, Stream) /\ Announced(p, Stream)
  BY DEF StreamInv
<1>3. Dropped(Stream, Stream', n) /\ q' \in Seq(Unit) /\ wire' \in Seq(Unit)
  BY <1>1, Consumes
<1>4. Typed'
  BY <1>1, <1>3 DEF Typed, NextMessage
<1>5. Reading(p', Stream')
  <2>1. GoesOn(Stream, Stream', n + 1, -n)
    BY <1>3, DroppedGoesOn
  <2>2. n + 1 \in Nat /\ (n + 1) + (-n) = 1
    OBVIOUS
  <2>3. Ends(Stream', (n + 1) + (-n))
    BY <2>1, <2>2, EndsMove
  <2> QED BY <2>2, <2>3 DEF Reading, RestAt, Rest0
<1>6. Whole(Stream')
  BY <1>2, <1>3, WholeStays
<1>7. \A k \in 1 .. n : Stream[k] # U("type", "update")
  <2>1. ASSUME NEW k \in 2 .. n PROVE Stream[k] # U("type", "update")
    BY <2>1 DEF U
  <2>2. Stream[1] # U("type", "update")
    BY <1>1 DEF U
  <2> QED BY <2>1, <2>2
<1>8. AskedOnce(p, Stream)' /\ Announced(p, Stream)'
  <2>1. /\ Ups(Stream) = {} => Ups(Stream') = {}
        /\ (\E i \in 1 .. Len(Stream) : Ups(Stream) = {i}) => \E i \in 1 .. Len(Stream') : Ups(Stream') = {i}
        /\ \A v : (\E i \in 1 .. Len(Stream') : Stream'[i] = U("type", v)) =>
                    \E i \in 1 .. Len(Stream) : Stream[i] = U("type", v)
    BY <1>3, <1>7, UpsStay
  <2>2. Announced(p, Stream)'
    BY <1>2, <2>1 DEF Announced
  <2>3. AskedOnce(p, Stream)'
    BY <1>1, <1>2, <2>1 DEF AskedOnce
  <2> QED BY <2>2, <2>3
<1>9. Pushed' /\ Resting'
  BY DEF Pushed, Resting, NextMessage
<1>10. Memory(p')
  BY DEF Memory
<1> QED BY <1>4, <1>5, <1>6, <1>8, <1>9, <1>10 DEF StreamInv

LEMMA Message1Keeps ==
    ASSUME StreamInv, NEW m, m # "update", NEW n \in Nat, 1 <= n, Message1(m, n),
           \A k \in 2 .. n : Stream[k].t # "type", Ends(Stream, n + 1)
    PROVE  StreamInv'
<1>1. Handles(m)
  BY DEF Message1
<1>2. /\ at = "msg" /\ p.rects = 0 /\ p.rect = <<>> /\ Clean(p) /\ p.flushing = FALSE /\ Typed /\ p \in Parser
      /\ Len(q) \in Nat /\ Len(Stream) \in Nat
  BY <1>1, MessageFirst
<1>3. CASE ~Has(n) /\ Wait
  <2>1. Len(Stream) > Len(q)
    BY <1>2, <1>3 DEF Has, Ends
  <2> QED BY <1>3, <2>1, WaitsStep
<1>4. CASE Has(n) /\ q' = SubSeq(q, n + 1, Len(q)) /\ at' = NextMessage /\ UNCHANGED <<d, p, wire, srv>>
  <2>1. n <= Len(q)
    BY <1>2, <1>4 DEF Has
  <2>2. p.cont => srv.ends
    BY DEF StreamInv, Announced
  <2> QED BY <1>1, <1>2, <1>4, <2>1, <2>2, MessageStep
<1> QED BY <1>3, <1>4 DEF Message1

LEMMA BellKeeps ==
    ASSUME StreamInv, Bell
    PROVE  StreamInv'
<1>1. Handles("bell") /\ Message1("bell", 1)
  BY DEF Bell, Message1
<1>2. MessageAt(Stream, 1) /\ Stream[1].v = "bell"
  BY <1>1, MessageFirst
<1>3. Ends(Stream, 1 + 1) /\ \A k \in 2 .. 1 : Stream[k].t # "type"
  BY <1>2 DEF MessageAt
<1> QED BY <1>1, <1>3, Message1Keeps

LEMMA XvpKeeps ==
    ASSUME StreamInv, Xvp
    PROVE  StreamInv'
<1>1. Handles("xvp") /\ Message1("xvp", 2)
  BY DEF Xvp, Message1
<1>2. MessageAt(Stream, 1) /\ Stream[1].v = "xvp"
  BY <1>1, MessageFirst
<1>3. Ends(Stream, 1 + 2) /\ Stream[2].t = "version"
  BY <1>2 DEF MessageAt
<1>4. Ends(Stream, 2 + 1) /\ \A k \in 2 .. 2 : Stream[k].t # "type"
  BY <1>3
<1> QED BY <1>1, <1>4, Message1Keeps

LEMMA ServerFenceKeeps ==
    ASSUME StreamInv, ServerFence
    PROVE  StreamInv'
<1>1. Handles("fence")
  BY DEF ServerFence
<1>2. MessageAt(Stream, 1) /\ Stream[1].v = "fence" /\ Typed /\ Len(q) \in Nat /\ Len(Stream) \in Nat
  BY <1>1, MessageFirst
<1>3. Ends(Stream, 1 + 3) /\ Stream[2].t = "header" /\ Stream[3].t = "payload" /\ 3 <= Len(Stream)
  BY <1>2 DEF MessageAt
<1>4. CASE WaitsFor(2, 1)
  <2>1. Len(Stream) > Len(q)
    BY <1>2, <1>3, <1>4 DEF WaitsFor, Has
  <2>2. Wait
    BY <1>2, <1>4, BackIsWait DEF WaitsFor
  <2> QED BY <2>1, <2>2, WaitsStep
<1>5. CASE Message1("fence", 3)
  <2>1. Ends(Stream, 3 + 1) /\ \A k \in 2 .. 3 : Stream[k].t # "type"
    BY <1>3
  <2> QED BY <1>5, <2>1, Message1Keeps
<1> QED BY <1>4, <1>5 DEF ServerFence

LEMMA ServerCutTextKeeps ==
    ASSUME StreamInv, ServerCutText
    PROVE  StreamInv'
<1>1. Handles("cuttext")
  BY DEF ServerCutText
<1>2. MessageAt(Stream, 1) /\ Stream[1].v = "cuttext" /\ Typed /\ Len(q) \in Nat /\ Len(Stream) \in Nat
  BY <1>1, MessageFirst
<1>3. /\ 3 <= Len(Stream) /\ Stream[2].t = "header"
      /\ \/ Stream[2].v = "text" /\ Stream[3].t = "text" /\ Ends(Stream, 3 + 1)
         \/ Stream[2].v = "extended" /\ Stream[3].t = "flags" /\ Stream[3].v = "request" /\ Ends(Stream, 3 + 1)
         \/ /\ Stream[2].v = "extended" /\ Stream[3].t = "flags" /\ Stream[3].v # "request"
            /\ 4 <= Len(Stream) /\ Stream[4].t = "text" /\ Ends(Stream, 4 + 1)
  BY <1>2 DEF MessageAt
<1>4. (Len(q) >= 2 => q[2] = Stream[2]) /\ (Len(q) >= 3 => q[3] = Stream[3])
  <2>1. \A k \in 1 .. Len(q) : q[k] = Stream[k]
    BY <1>1, MessageFirst
  <2> QED BY <1>2, <2>1
<1>5. ASSUME NEW b \in {1, 2}, WaitsFor(2, b),
             b = IF Has(2) /\ Has(3) /\ q[2].v = "extended" /\ q[3].v # "request" THEN 2 ELSE 1
      PROVE  StreamInv'
  <2>1. Len(Stream) > Len(q)
    <3>1. CASE ~Has(3)
      BY <1>2, <1>3, <3>1 DEF Has
    <3>2. CASE Has(3)
      <4>1. ~Has(2 + b) /\ Has(2)
        BY <1>2, <1>5, <3>2 DEF WaitsFor, Has
      <4>2. b = 2
        BY <3>2, <4>1
      <4>3. q[2].v = "extended" /\ q[3].v # "request"
        BY <1>5, <4>2
      <4>4. q[2] = Stream[2] /\ q[3] = Stream[3]
        BY <1>2, <1>4, <3>2 DEF Has
      <4>5. 4 <= Len(Stream)
        BY <1>3, <4>3, <4>4
      <4> QED BY <1>2, <4>1, <4>2, <4>5 DEF Has
    <3> QED BY <3>1, <3>2
  <2>2. Wait
    BY <1>2, <1>5, BackIsWait DEF WaitsFor
  <2> QED BY <2>1, <2>2, WaitsStep
<1>6. CASE Has(3) /\ (q[2].v = "text" \/ q[3].v = "request") /\ Message1("cuttext", 3)
  <2>1. q[2] = Stream[2] /\ q[3] = Stream[3]
    BY <1>2, <1>4, <1>6 DEF Has
  <2>2. Ends(Stream, 3 + 1)
    BY <1>3, <1>6, <2>1
  <2>3. \A k \in 2 .. 3 : Stream[k].t # "type"
    BY <1>3
  <2> QED BY <1>6, <2>2, <2>3, Message1Keeps
<1>7. CASE Has(4) /\ q[2].v = "extended" /\ q[3].v # "request" /\ Message1("cuttext", 4)
  <2>1. q[2] = Stream[2] /\ q[3] = Stream[3]
    BY <1>2, <1>4, <1>7 DEF Has
  <2>2. Ends(Stream, 4 + 1) /\ Stream[4].t = "text"
    BY <1>3, <1>7, <2>1
  <2>3. \A k \in 2 .. 4 : Stream[k].t # "type"
    BY <1>3, <2>2
  <2> QED BY <1>7, <2>2, <2>3, Message1Keeps
<1>8. WaitsFor(2, IF Has(2) /\ Has(3) /\ q[2].v = "extended" /\ q[3].v # "request" THEN 2 ELSE 1) => StreamInv'
  BY <1>5
<1> QED BY <1>6, <1>7, <1>8, Zenon DEF ServerCutText

LEMMA EndOfContinuousUpdatesKeeps ==
    ASSUME StreamInv, EndOfContinuousUpdates
    PROVE  StreamInv'
<1>1. Handles("endofcontinuous") /\ q' = Tail(q) /\ at' = NextMessage /\ p' = [p EXCEPT !.cont = TRUE]
      /\ wire' = wire /\ srv' = srv
  BY DEF EndOfContinuousUpdates
<1>2. /\ MessageAt(Stream, 1) /\ Stream[1] = U("type", "endofcontinuous") /\ Stream[1].v = "endofcontinuous"
      /\ Typed /\ p \in Parser /\ p.rects = 0 /\ p.rect = <<>> /\ Clean(p) /\ p.flushing = FALSE
      /\ Len(q) \in Nat /\ 1 <= Len(q) /\ Len(Stream) \in Nat /\ Len(Stream) >= Len(q)
  BY <1>1, MessageFirst
<1>3. Ends(Stream, 1 + 1) /\ \A k \in 2 .. 1 : Stream[k].t # "type"
  BY <1>2 DEF MessageAt
<1>4. srv.ends
  <2>1. 1 \in 1 .. Len(Stream)
    BY <1>2
  <2> QED BY <1>2, <2>1 DEF StreamInv, Announced
<1>5. q' = SubSeq(q, 1 + 1, Len(q))
  <2>1. q \in Seq(Unit) /\ q # <<>>
    BY <1>1 DEF StreamInv, Typed, Handles
  <2>2. Tail(q) = SubSeq(q, 2, Len(q))
    BY <2>1, TailIsSubSeq
  <2> QED BY <1>1, <2>2
<1>6. p' \in Parser
  BY <1>1, <1>2 DEF Parser
<1>7. p'.rects = 0 /\ p'.rect = <<>> /\ p'.flushing = FALSE
  BY <1>1, <1>2 DEF Parser
<1>8. Clean(p')
  <2>1. /\ p'.left = p.left /\ p'.length = p.length /\ p'.ctl = p.ctl /\ p'.filter = p.filter
        /\ p'.colors = p.colors /\ p'.segs = p.segs
    BY <1>1, <1>2 DEF Parser
  <2> QED BY <1>2, <2>1 DEF Clean
<1>9. /\ Handles("endofcontinuous") /\ at' = NextMessage /\ wire' = wire /\ srv' = srv
      /\ "endofcontinuous" # "update" /\ 1 \in Nat /\ 1 <= 1 /\ 1 <= Len(q)
  BY <1>1, <1>2
<1> QED BY <1>3, <1>4, <1>5, <1>6, <1>7, <1>8, <1>9, MessageStep

(* An update begins.  While the display has something queued it waits, and of *)
(* no rectangles it is over at once.                                        *)
LEMMA UpdateAsks ==
    ASSUME Typed, p.rects = 0, UpdateBegins, q[2].n \in 0 .. 3
    PROVE  /\ srv' \in Server /\ srv'.ends = srv.ends
           /\ \/ q[2].n > 0 /\ srv'.asked = srv.asked /\ srv'.lost = srv.lost
              \/ q[2].n = 0 /\ p.cont
              \/ q[2].n = 0 /\ srv'.asked = srv.asked + 1 /\ srv'.lost = srv.lost
              \/ q[2].n = 0 /\ srv'.asked = srv.asked /\ srv'.lost = srv.lost + 1
           /\ \/ Pending(d) /\ at' = "idle"
              \/ ~Pending(d) /\ q[2].n > 0 /\ at' = "msg"
              \/ ~Pending(d) /\ q[2].n = 0 /\ at' = NextMessage
<1>1. PICK a, l : a = srv.asked + 1 /\ l = srv.lost + 1
  OBVIOUS
<1>2. srv \in Server /\ a \in Nat /\ l \in Nat
  BY <1>1 DEF Typed, Server
<1>3. PICK x, y : x = [srv EXCEPT !.asked = a] /\ y = [srv EXCEPT !.lost = l]
  OBVIOUS
<1>4. /\ x \in Server /\ x.ends = srv.ends /\ x.asked = a /\ x.lost = srv.lost
      /\ y \in Server /\ y.ends = srv.ends /\ y.asked = srv.asked /\ y.lost = l
  BY ONLY <1>2, <1>3 DEF Server
<1>5. PICK n \in 0 .. 3 : n = q[2].n
  OBVIOUS
<1>6. n > 0 \/ n = 0
  OBVIOUS
<1>7. (Asking(p) = IF p.cont THEN srv ELSE x) /\ y = [srv EXCEPT !.lost = srv.lost + 1]
  BY <1>1, <1>3, Zenon DEF Asking
<1>8. \/ Pending(d) /\ at' = "idle" /\ srv' = (IF n = 0 /\ ~p.cont THEN y ELSE srv)
      \/ ~Pending(d) /\ n > 0 /\ at' = "msg" /\ srv' = srv
      \/ ~Pending(d) /\ n = 0 /\ at' = NextMessage /\ srv' = (IF p.cont THEN srv ELSE x)
  BY <1>5, <1>7 DEF UpdateBegins
<1>9. srv' = srv \/ srv' = x \/ srv' = y
  BY <1>8, Zenon
<1>10. srv' \in Server /\ srv'.ends = srv.ends
  BY <1>2, <1>4, <1>9, Zenon
<1>11. \/ n > 0 /\ srv' = srv
       \/ n = 0 /\ p.cont
       \/ n = 0 /\ srv' = x
       \/ n = 0 /\ srv' = y
  BY <1>6, <1>8
<1>12. \/ n > 0 /\ srv'.asked = srv.asked /\ srv'.lost = srv.lost
       \/ n = 0 /\ p.cont
       \/ n = 0 /\ srv'.asked = srv.asked + 1 /\ srv'.lost = srv.lost
       \/ n = 0 /\ srv'.asked = srv.asked /\ srv'.lost = srv.lost + 1
  BY <1>1, <1>4, <1>11, Zenon
<1> QED BY <1>5, <1>8, <1>10, <1>12, Zenon

LEMMA UpdateHeaderKeeps ==
    ASSUME StreamInv, UpdateHeader
    PROVE  StreamInv'
<1>1. Handles("update")
  BY DEF UpdateHeader
<1>2. /\ MessageAt(Stream, 1) /\ Stream[1] = U("type", "update") /\ Stream[1].v = "update"
      /\ Typed /\ p \in Parser /\ p.rects = 0 /\ p.rect = <<>> /\ Clean(p) /\ p.flushing = FALSE /\ at = "msg"
      /\ Len(q) \in Nat /\ Len(Stream) \in Nat
  BY <1>1, MessageFirst
<1>3. 2 <= Len(Stream) /\ Stream[2].t = "rects" /\ Stream[2].n \in 0 .. 3 /\ RestAt(Stream, 2 + 1, Stream[2].n)
  <2>1. 1 < Len(Stream) /\ Stream[1 + 1].t = "rects" /\ Stream[1 + 1].n \in 0 .. 3 /\ RestAt(Stream, 1 + 2, Stream[1 + 1].n)
    BY <1>2 DEF MessageAt
  <2> QED BY <1>2, <2>1
<1>4. CASE ~Has(2) /\ Wait
  <2>1. Len(Stream) > Len(q)
    BY <1>2, <1>3, <1>4 DEF Has
  <2> QED BY <1>4, <2>1, WaitsStep
<1>5. CASE Has(2) /\ UpdateBegins
  <2>1. 2 <= Len(q) /\ q[2] = Stream[2]
    <3>1. 2 <= Len(q)
      BY <1>5 DEF Has
    <3>2. \A k \in 1 .. Len(q) : q[k] = Stream[k]
      BY <1>1, MessageFirst
    <3> QED BY <1>2, <3>1, <3>2
  <2>2. Dropped(Stream, Stream', 2) /\ q' \in Seq(Unit) /\ wire' \in Seq(Unit)
    <3>1. q' = SubSeq(q, 2 + 1, Len(q)) /\ wire' = wire
      BY <1>5 DEF UpdateBegins
    <3> QED BY <1>2, <2>1, <3>1, Consumes
  <2>3. PICK b \in BOOLEAN : b = Pending(d)
    BY DEF Pending
  <2>4. PICK r \in 0 .. 3 : r = Stream[2].n
    BY <1>3
  <2>5. PICK f \in Nat : f = p.frame + 1
    BY <1>2 DEF Parser
  <2>6. p' = [p EXCEPT !.rects = r, !.frame = f, !.flushing = b]
    BY <1>5, <2>1, <2>3, <2>4, <2>5 DEF UpdateBegins
  <2>7. p' \in Parser
    <3>1. PICK z : z = [p EXCEPT !.rects = r]
      OBVIOUS
    <3>2. z \in Parser
      BY ONLY <1>2, <2>4, <3>1 DEF Parser
    <3>3. PICK y : y = [z EXCEPT !.frame = f]
      OBVIOUS
    <3>4. y \in Parser
      BY ONLY <2>5, <3>2, <3>3 DEF Parser
    <3>5. p' = [y EXCEPT !.flushing = b]
      BY ONLY <1>2, <2>6, <3>1, <3>3 DEF Parser
    <3> QED BY ONLY <2>3, <3>4, <3>5 DEF Parser
  <2>8. p'.rects = r /\ p'.rect = <<>> /\ p'.flushing = b /\ p'.cont = p.cont
    BY <1>2, <2>6 DEF Parser
  <2>9. Clean(p')
    <3>1. /\ p'.left = p.left /\ p'.length = p.length /\ p'.ctl = p.ctl /\ p'.filter = p.filter
          /\ p'.colors = p.colors /\ p'.segs = p.segs
      BY <1>2, <2>6 DEF Parser
    <3> QED BY <1>2, <3>1 DEF Clean
  <2>10. /\ srv' \in Server /\ srv'.ends = srv.ends
         /\ \/ r > 0 /\ srv'.asked = srv.asked /\ srv'.lost = srv.lost
            \/ r = 0 /\ p.cont
            \/ r = 0 /\ srv'.asked = srv.asked + 1 /\ srv'.lost = srv.lost
            \/ r = 0 /\ srv'.asked = srv.asked /\ srv'.lost = srv.lost + 1
         /\ \/ b /\ at' = "idle"
            \/ ~b /\ r > 0 /\ at' = "msg"
            \/ ~b /\ r = 0 /\ at' = NextMessage
    <3>1. q[2].n \in 0 .. 3 /\ q[2].n = r
      BY <2>1, <2>4
    <3>2. UpdateBegins
      BY <1>5
    <3>3. /\ srv' \in Server /\ srv'.ends = srv.ends
          /\ \/ q[2].n > 0 /\ srv'.asked = srv.asked /\ srv'.lost = srv.lost
             \/ q[2].n = 0 /\ p.cont
             \/ q[2].n = 0 /\ srv'.asked = srv.asked + 1 /\ srv'.lost = srv.lost
             \/ q[2].n = 0 /\ srv'.asked = srv.asked /\ srv'.lost = srv.lost + 1
          /\ \/ Pending(d) /\ at' = "idle"
             \/ ~Pending(d) /\ q[2].n > 0 /\ at' = "msg"
             \/ ~Pending(d) /\ q[2].n = 0 /\ at' = NextMessage
      BY <1>2, <3>1, <3>2, UpdateAsks, Zenon
    <3> QED BY <2>3, <3>1, <3>3, Zenon
  <2>11. Typed'
    <3>1. at' \in {"idle", "msg"}
      BY <2>10 DEF NextMessage
    <3> QED BY <2>2, <2>7, <2>10, <3>1 DEF Typed
  <2>12. Reading(p', Stream')
    <3>1. GoesOn(Stream, Stream', 2 + 1, -2)
      BY <2>2, DroppedGoesOn
    <3>2. 2 + 1 \in Nat /\ (2 + 1) + (-2) = 1
      OBVIOUS
    <3>3. RestAt(Stream', (2 + 1) + (-2), Stream[2].n)
      BY <1>3, <3>1, <3>2, RestMoves
    <3>4. RestAt(Stream', 1, r)
      BY <2>4, <3>2, <3>3
    <3> QED BY <2>8, <3>4 DEF Reading
  <2>13. Whole(Stream')
    BY <2>2, WholeStays DEF StreamInv
  <2>14. Announced(p, Stream)'
    <3>1. ASSUME NEW i \in 1 .. Len(Stream'), Stream'[i] = U("type", "endofcontinuous") PROVE srv.ends
      <4>1. i + 2 \in 1 .. Len(Stream) /\ Stream[i + 2] = U("type", "endofcontinuous")
        BY <2>2, <3>1 DEF Dropped
      <4> QED BY <4>1 DEF StreamInv, Announced
    <3>2. p.cont => srv.ends
      BY DEF StreamInv, Announced
    <3> QED BY <2>8, <2>10, <3>1, <3>2 DEF Announced
  <2>15. AskedOnce(p, Stream)'
    <3>1. CASE srv.ends
      BY <2>10, <3>1 DEF AskedOnce
    <3>2. CASE ~srv.ends
      <4>1. 1 \in Ups(Stream)
        BY <1>2, <1>3 DEF Ups
      <4>2. PICK i \in 1 .. Len(Stream) : Ups(Stream) = {i} /\ srv.asked = 0 /\ srv.lost = 0
        BY <1>2, <3>2, <4>1 DEF StreamInv, AskedOnce
      <4>3. Ups(Stream) = {1}
        BY <4>1, <4>2
      <4>4. ASSUME NEW k \in Ups(Stream') PROVE FALSE
        <5>1. k \in Nat /\ k >= 1 /\ k + 2 \in Ups(Stream)
          BY <2>2, <4>4 DEF Ups, Dropped
        <5> QED BY <4>3, <5>1
      <4>5. Ups(Stream') = {}
        BY <4>4
      <4>6. ~p.cont
        BY <3>2 DEF StreamInv, Announced
      <4>7. \/ r > 0 /\ srv'.asked = 0 /\ srv'.lost = 0
            \/ r = 0 /\ srv'.asked = 1 /\ srv'.lost = 0
            \/ r = 0 /\ srv'.asked = 0 /\ srv'.lost = 1
        BY <2>10, <4>2, <4>6
      <4> QED BY <2>8, <4>5, <4>7 DEF AskedOnce
    <3> QED BY <3>1, <3>2
  <2>16. Pushed' /\ Resting'
    <3>1. CASE b
      BY <2>8, <2>10, <3>1 DEF Pushed, Resting
    <3>2. CASE ~b /\ r > 0
      <4>1. at' = "msg"
        BY <2>10, <3>2
      <4> QED BY <2>8, <3>2, <4>1 DEF Pushed, Resting
    <3>3. CASE ~b /\ r = 0
      <4>1. at' = NextMessage
        BY <2>10, <3>3
      <4> QED BY <2>8, <3>3, <4>1 DEF Pushed, Resting, NextMessage
    <3>4. r > 0 \/ r = 0
      BY <2>4
    <3> QED BY <3>1, <3>2, <3>3, <3>4
  <2>17. Memory(p')
    BY <2>8, <2>9 DEF Memory
  <2> QED BY <2>11, <2>12, <2>13, <2>14, <2>15, <2>16, <2>17 DEF StreamInv
<1> QED BY <1>4, <1>5 DEF UpdateHeader

LEMMA FlushedKeeps ==
    ASSUME StreamInv, Flushed
    PROVE  StreamInv'
<1>1. /\ at = "idle" /\ p' = [p EXCEPT !.flushing = FALSE] /\ at' = (IF q = <<>> THEN "idle" ELSE "msg")
      /\ q' = q /\ wire' = wire /\ srv' = srv
  BY DEF Flushed
<1>2. Typed /\ p \in Parser /\ Stream' = Stream
  BY <1>1 DEF StreamInv, Typed, Stream
<1>3. p' \in Parser
  BY <1>1, <1>2 DEF Parser
<1>4. /\ p'.rects = p.rects /\ p'.rect = p.rect /\ p'.cont = p.cont /\ p'.flushing = FALSE
      /\ p'.left = p.left /\ p'.length = p.length /\ p'.ctl = p.ctl /\ p'.filter = p.filter
      /\ p'.colors = p.colors /\ p'.segs = p.segs
  BY <1>1, <1>2 DEF Parser
<1>5. Typed'
  BY <1>1, <1>2, <1>3 DEF Typed
<1>6. Memory(p')
  BY <1>4, Zenon DEF StreamInv, Memory, Clean
<1>7. Reading(p', Stream')
  <2>1. PICK x : x = p'
    OBVIOUS
  <2>2. \A i, j : BodyAt(Stream, i, j, p) => BodyAt(Stream, i, j, x)
    BY <1>4, <2>1, BodyLike
  <2>3. Reading(p, Stream)
    BY DEF StreamInv
  <2>4. Clean(p) => Clean(x)
    BY <1>4, <2>1, Zenon DEF Clean
  <2>5. Reading(x, Stream)
    BY <1>4, <2>1, <2>2, <2>3, <2>4, Zenon DEF Reading
  <2> QED BY <1>2, <2>1, <2>5
<1>8. Whole(Stream')
  BY <1>2 DEF StreamInv
<1>9. AskedOnce(p, Stream)' /\ Announced(p, Stream)'
  BY <1>1, <1>2, <1>4 DEF StreamInv, AskedOnce, Announced, Ups
<1>10. Resting'
  BY <1>4 DEF Resting
<1>11. Pushed'
  <2>1. SUFFICES ASSUME q = <<>>, wire = <<>> PROVE p.rects = 0
    BY <1>1, <1>4 DEF Pushed
  <2>2. CASE ~p.flushing
    BY <1>1, <2>1, <2>2 DEF StreamInv, Pushed
  <2>3. CASE p.flushing
    <3>1. RestAt(Stream, 1, p.rects)
      BY <2>3 DEF StreamInv, Reading, Resting
    <3>2. Len(Stream) = 0
      BY <1>2, <2>1, StreamFields
    <3> QED BY <3>1, <3>2, RestBegins
  <2> QED BY <2>2, <2>3
<1> QED BY <1>5, <1>6, <1>7, <1>8, <1>9, <1>10, <1>11 DEF StreamInv

LEMMA Associates ==
    ASSUME NEW s \in Seq(Unit), NEW t \in Seq(Unit), NEW u \in Seq(Unit)
    PROVE  (s \o t) \o u = s \o (t \o u)
BY ConcatAssociative

LEMMA ReceiveKeeps ==
    ASSUME StreamInv, Receive
    PROVE  StreamInv'
<1>1. PICK n \in 1 .. Len(wire) : q' = q \o SubSeq(wire, 1, n) /\ wire' = SubSeq(wire, n + 1, Len(wire))
  BY DEF Receive
<1>2. p' = p /\ srv' = srv /\ at' = IF p.flushing THEN "idle" ELSE "msg"
  BY DEF Receive
<1>3. q \in Seq(Unit) /\ wire \in Seq(Unit) /\ Len(wire) \in Nat
  BY DEF StreamInv, Typed
<1>4. PICK a, b : a = SubSeq(wire, 1, n) /\ b = SubSeq(wire, n + 1, Len(wire))
  OBVIOUS
<1>5. a \in Seq(Unit) /\ b \in Seq(Unit)
  <2>1. \A k \in 1 .. Len(wire) : wire[k] \in Unit
    BY <1>3
  <2>2. \A k \in 1 .. n : wire[k] \in Unit
    BY <1>3, <2>1
  <2>3. \A k \in n + 1 .. Len(wire) : wire[k] \in Unit
    BY <1>3, <2>1
  <2>4. 1 \in Int /\ n \in Int /\ n + 1 \in Int /\ Len(wire) \in Int
    BY <1>3
  <2> QED BY <1>4, <2>2, <2>3, <2>4, SubSeqProperties
<1>6. a \o b = wire
  <2>1. 1 \in 1 .. Len(wire) + 1 /\ n \in 1 - 1 .. Len(wire) /\ Len(wire) \in n .. Len(wire)
    BY <1>3
  <2>2. a \o b = SubSeq(wire, 1, Len(wire))
    BY <1>3, <1>4, <2>1, ConcatAdjacentSubSeq
  <2> QED BY <1>3, <2>2, SubSeqFull
<1>7. Stream' = Stream
  <2>1. (q \o a) \o b = q \o (a \o b)
    BY <1>3, <1>5, Associates
  <2> QED BY <1>1, <1>4, <1>6, <2>1 DEF Stream
<1>8. Typed'
  <2>1. q \o a \in Seq(Unit)
    BY <1>3, <1>5, ConcatProperties
  <2>2. q' \in Seq(Unit) /\ wire' \in Seq(Unit)
    BY <1>1, <1>4, <1>5, <2>1
  <2> QED BY <1>2, <2>2 DEF StreamInv, Typed
<1>9. AskedOnce(p, Stream)' /\ Announced(p, Stream)'
  BY <1>2, <1>7 DEF StreamInv, AskedOnce, Announced, Ups
<1>10. Pushed' /\ Resting'
  BY <1>2 DEF StreamInv, Pushed, Resting
<1>11. Memory(p') /\ Reading(p', Stream') /\ Whole(Stream')
  BY <1>2, <1>7 DEF StreamInv
<1> QED BY <1>8, <1>9, <1>10, <1>11 DEF StreamInv

LEMMA StaysStill ==
    ASSUME StreamInv, UNCHANGED <<p, q, wire, at, srv>>
    PROVE  StreamInv'
<1>1. Stream' = Stream
  BY DEF Stream
<1>2. Typed' /\ Pushed' /\ Resting'
  BY DEF StreamInv, Typed, Pushed, Resting
<1>3. AskedOnce(p, Stream)' /\ Announced(p, Stream)'
  BY <1>1 DEF StreamInv, AskedOnce, Announced, Ups
<1>4. Memory(p') /\ Reading(p', Stream') /\ Whole(Stream')
  BY <1>1 DEF StreamInv
<1> QED BY <1>2, <1>3, <1>4 DEF StreamInv

(***************************************************************************)
(* What the server sends.                                                   *)
(***************************************************************************)
LEMMA Cat ==
    ASSUME NEW s \in Seq(Unit), NEW t \in Seq(Unit)
    PROVE  /\ s \o t \in Seq(Unit) /\ Len(s \o t) = Len(s) + Len(t) /\ Len(s) \in Nat /\ Len(t) \in Nat
           /\ \A k \in 1 .. Len(s) : (s \o t)[k] = s[k]
           /\ \A k \in 1 .. Len(t) : (s \o t)[k + Len(s)] = t[k]
           /\ Same(t, s \o t, 1, Len(t) + 1, Len(s))
           /\ Same(s, s \o t, 1, Len(s) + 1, 0)
<1>1. Len(s) \in Nat /\ Len(t) \in Nat
  OBVIOUS
<1>2. PICK u : u = s \o t
  OBVIOUS
<1>3. /\ u \in Seq(Unit) /\ Len(u) = Len(s) + Len(t)
      /\ \A i \in 1 .. Len(s) + Len(t) : u[i] = IF i <= Len(s) THEN s[i] ELSE t[i - Len(s)]
  BY <1>2, ConcatProperties
<1>4. \A k \in 1 .. Len(s) : u[k] = s[k]
  BY <1>1, <1>3
<1>5. ASSUME NEW k \in 1 .. Len(t) PROVE u[k + Len(s)] = t[k]
  <2>1. k + Len(s) \in 1 .. Len(s) + Len(t) /\ ~(k + Len(s) <= Len(s)) /\ (k + Len(s)) - Len(s) = k
    BY <1>1
  <2> QED BY <1>3, <2>1
<1>6. Same(t, u, 1, Len(t) + 1, Len(s))
  BY <1>1, <1>5 DEF Same
<1>7. Same(s, u, 1, Len(s) + 1, 0)
  <2>1. \A k \in 1 .. (Len(s) + 1) - 1 : k \in 1 .. Len(s) /\ k + 0 = k
    BY <1>1
  <2> QED BY <1>4, <2>1 DEF Same
<1> QED BY <1>1, <1>2, <1>3, <1>4, <1>5, <1>6, <1>7

LEMMA Joined ==
    ASSUME NEW s \in Seq(Unit), NEW t \in Seq(Unit), NEW u, u = s \o t
    PROVE  /\ u \in Seq(Unit) /\ Len(u) = Len(s) + Len(t) /\ Len(s) \in Nat /\ Len(t) \in Nat
           /\ \A k \in 1 .. Len(s) : u[k] = s[k]
           /\ \A k \in 1 .. Len(t) : u[k + Len(s)] = t[k]
           /\ Same(t, u, 1, Len(t) + 1, Len(s))
           /\ Same(s, u, 1, Len(s) + 1, 0)
BY Cat, Zenon

LEMMA Tuples ==
    ASSUME NEW a \in Unit, NEW b \in Unit, NEW c \in Unit, NEW e \in Unit
    PROVE  /\ <<>> \in Seq(Unit) /\ Len(<<>>) = 0
           /\ <<a>> \in Seq(Unit) /\ Len(<<a>>) = 1 /\ <<a>>[1] = a
           /\ <<a, b>> \in Seq(Unit) /\ Len(<<a, b>>) = 2 /\ <<a, b>>[1] = a /\ <<a, b>>[2] = b
           /\ <<a, b, c>> \in Seq(Unit) /\ Len(<<a, b, c>>) = 3
           /\ <<a, b, c>>[1] = a /\ <<a, b, c>>[2] = b /\ <<a, b, c>>[3] = c
           /\ <<a, b, c, e>> \in Seq(Unit) /\ Len(<<a, b, c, e>>) = 4
           /\ <<a, b, c, e>>[1] = a /\ <<a, b, c, e>>[2] = b /\ <<a, b, c, e>>[3] = c /\ <<a, b, c, e>>[4] = e
<1>1. <<>> \in Seq(Unit) /\ Len(<<>>) = 0
  OBVIOUS
<1>2. <<a>> \in Seq(Unit) /\ Len(<<a>>) = 1 /\ <<a>>[1] = a
  OBVIOUS
<1>3. <<a, b>> \in Seq(Unit) /\ Len(<<a, b>>) = 2 /\ <<a, b>>[1] = a /\ <<a, b>>[2] = b
  OBVIOUS
<1>4. /\ <<a, b, c>> \in Seq(Unit) /\ Len(<<a, b, c>>) = 3
      /\ <<a, b, c>>[1] = a /\ <<a, b, c>>[2] = b /\ <<a, b, c>>[3] = c
  OBVIOUS
<1>5. /\ <<a, b, c, e>> \in Seq(Unit) /\ Len(<<a, b, c, e>>) = 4
      /\ <<a, b, c, e>>[1] = a /\ <<a, b, c, e>>[2] = b /\ <<a, b, c, e>>[3] = c /\ <<a, b, c, e>>[4] = e
  OBVIOUS
<1> QED BY <1>1, <1>2, <1>3, <1>4, <1>5

LEMMA Units ==
    /\ \A t, v \in Word : U(t, v) \in Unit /\ U(t, v).t = t /\ U(t, v).v = v
    /\ \A t \in Word, n \in Nat : N(t, n) \in Unit /\ N(t, n).t = t /\ N(t, n).n = n /\ N(t, n).v = ""
<1>1. "" \in Word
  BY Zenon DEF Word
<1>2. \A t, v \in Word : U(t, v) \in Unit /\ U(t, v).t = t /\ U(t, v).v = v
  BY DEF U, Unit
<1>3. \A t \in Word, n \in Nat : N(t, n) \in Unit /\ N(t, n).t = t /\ N(t, n).n = n /\ N(t, n).v = ""
  BY <1>1 DEF N, Unit
<1> QED BY <1>2, <1>3

LEMMA UnitIs ==
    ASSUME NEW t \in Word, NEW v \in Word, NEW a, a = U(t, v)
    PROVE  a \in Unit /\ a.t = t /\ a.v = v
BY Units

LEMMA NumberIs ==
    ASSUME NEW t \in Word, NEW n \in Nat, NEW a, a = N(t, n)
    PROVE  a \in Unit /\ a.t = t /\ a.n = n /\ a.v = ""
BY Units

LEMMA UnitHas ==
    ASSUME NEW t \in Word, NEW v \in Word
    PROVE  \E a : a = U(t, v) /\ a \in Unit /\ a.t = t /\ a.v = v
<1>1. U(t, v) \in Unit /\ U(t, v).t = t /\ U(t, v).v = v
  BY Units
<1> QED BY <1>1, Zenon

LEMMA NumberHas ==
    ASSUME NEW t \in Word
    PROVE  \E a : a = N(t, 0) /\ a \in Unit /\ a.t = t
<1>1. 0 \in Nat
  OBVIOUS
<1> QED BY <1>1, Units, Zenon

Sent(e, n, b) == b \in Seq(Unit) /\ n \in Nat /\ BodyAt(b, 1, Len(b) + 1, Fresh(e, n))

LEMMA SentIs ==
    ASSUME NEW e, NEW n \in Nat, NEW b \in Seq(Unit), NEW j, j = Len(b) + 1
    PROVE  /\ e = "raw" /\ All(b, 1, j, "line") /\ Len(b) = n => Sent(e, n, b)
           /\ e = "copy" /\ One(b, 1, j, "source") => Sent(e, n, b)
           /\ e = "rre" /\ Counted(b, 1, j, "count", "subrect") => Sent(e, n, b)
           /\ e = "hextile" /\ TilesAt(b, 1, j, n) => Sent(e, n, b)
           /\ e = "zlib" /\ n = 0 /\ j = 1 => Sent(e, n, b)
           /\ e = "zlib" /\ n > 0 /\ Two(b, 1, j, "length", "data") => Sent(e, n, b)
           /\ e = "zrle" /\ Two(b, 1, j, "length", "data") => Sent(e, n, b)
           /\ e = "tight" /\ CtlAt(b, 1, j, n) => Sent(e, n, b)
           /\ e = "jpeg" /\ JpegAt(b, 1, j, {}) => Sent(e, n, b)
           /\ e = "h264" /\ b[1].v = "empty" /\ One(b, 1, j, "h264") => Sent(e, n, b)
           /\ e = "h264" /\ b[1].v # "empty" /\ Two(b, 1, j, "h264", "data") => Sent(e, n, b)
           /\ e = "cursor" /\ One(b, 1, j, "data") => Sent(e, n, b)
           /\ e = "vmcursor" /\ Two(b, 1, j, "cursor", "data") => Sent(e, n, b)
           /\ e = "name" /\ Two(b, 1, j, "length", "data") => Sent(e, n, b)
           /\ e = "screens" /\ Counted(b, 1, j, "screens", "screen") => Sent(e, n, b)
           /\ e = "led" /\ One(b, 1, j, "leds") => Sent(e, n, b)
           /\ e \in {"size", "keys", "buttons"} /\ j = 1 => Sent(e, n, b)
<1>1. PICK x : x = Fresh(e, n)
  OBVIOUS
<1>2. /\ x.left = 0 /\ x.length = FALSE /\ x.rect[1] = e /\ x.rect[2] = n /\ x.ctl = "" /\ x.filter = ""
      /\ x.segs = {}
  BY <1>1 DEF Fresh, PInit
<1>3. Len(b) \in Nat /\ 1 <= j /\ j <= Len(b) + 1 /\ (Len(b) = n => j = 1 + n)
  OBVIOUS
<1>4. BodyAt(b, 1, j, x) => Sent(e, n, b)
  BY <1>1 DEF Sent
<1>5. (IF x.left = 0 THEN n ELSE x.left) = n
  BY <1>2
<1>6. /\ e = "raw" /\ All(b, 1, j, "line") /\ j = 1 + n => BodyAt(b, 1, j, x)
      /\ e = "hextile" /\ TilesAt(b, 1, j, n) => BodyAt(b, 1, j, x)
  BY <1>2, <1>3, <1>5, Zenon DEF BodyAt
<1>7. /\ e = "copy" /\ One(b, 1, j, "source") => BodyAt(b, 1, j, x)
      /\ e = "rre" /\ Counted(b, 1, j, "count", "subrect") => BodyAt(b, 1, j, x)
      /\ e = "screens" /\ Counted(b, 1, j, "screens", "screen") => BodyAt(b, 1, j, x)
      /\ e = "cursor" /\ One(b, 1, j, "data") => BodyAt(b, 1, j, x)
  BY <1>2, <1>3, Zenon DEF BodyAt
<1>8. /\ e = "led" /\ One(b, 1, j, "leds") => BodyAt(b, 1, j, x)
      /\ e = "h264" /\ b[1].v = "empty" /\ One(b, 1, j, "h264") => BodyAt(b, 1, j, x)
      /\ e = "h264" /\ b[1].v # "empty" /\ Two(b, 1, j, "h264", "data") => BodyAt(b, 1, j, x)
      /\ e = "vmcursor" /\ Two(b, 1, j, "cursor", "data") => BodyAt(b, 1, j, x)
      /\ e = "name" /\ Two(b, 1, j, "length", "data") => BodyAt(b, 1, j, x)
  BY <1>2, <1>3, Zenon DEF BodyAt
<1>9. /\ e = "zlib" /\ n = 0 /\ j = 1 => BodyAt(b, 1, j, x)
      /\ e = "zlib" /\ n > 0 /\ Two(b, 1, j, "length", "data") => BodyAt(b, 1, j, x)
      /\ e = "zrle" /\ Two(b, 1, j, "length", "data") => BodyAt(b, 1, j, x)
      /\ e \in {"size", "keys", "buttons"} /\ j = 1 => BodyAt(b, 1, j, x)
  BY <1>2, <1>3, Zenon DEF BodyAt, DeflatedAt
<1>10. e = "tight" /\ CtlAt(b, 1, j, n) => BodyAt(b, 1, j, x)
  BY <1>2, <1>3, Zenon DEF BodyAt, TightAt
<1>11. e = "jpeg" /\ JpegAt(b, 1, j, {}) => BodyAt(b, 1, j, x)
  BY <1>2, <1>3, Zenon DEF BodyAt
<1>12. /\ e = "raw" /\ All(b, 1, j, "line") /\ Len(b) = n => Sent(e, n, b)
       /\ e = "hextile" /\ TilesAt(b, 1, j, n) => Sent(e, n, b)
  BY <1>3, <1>4, <1>6
<1>13. /\ e = "copy" /\ One(b, 1, j, "source") => Sent(e, n, b)
       /\ e = "rre" /\ Counted(b, 1, j, "count", "subrect") => Sent(e, n, b)
       /\ e = "screens" /\ Counted(b, 1, j, "screens", "screen") => Sent(e, n, b)
       /\ e = "cursor" /\ One(b, 1, j, "data") => Sent(e, n, b)
  BY <1>4, <1>7, Zenon
<1>14. /\ e = "led" /\ One(b, 1, j, "leds") => Sent(e, n, b)
       /\ e = "h264" /\ b[1].v = "empty" /\ One(b, 1, j, "h264") => Sent(e, n, b)
       /\ e = "h264" /\ b[1].v # "empty" /\ Two(b, 1, j, "h264", "data") => Sent(e, n, b)
       /\ e = "vmcursor" /\ Two(b, 1, j, "cursor", "data") => Sent(e, n, b)
       /\ e = "name" /\ Two(b, 1, j, "length", "data") => Sent(e, n, b)
  BY <1>4, <1>8, Zenon
<1>15. /\ e = "zlib" /\ n = 0 /\ j = 1 => Sent(e, n, b)
       /\ e = "zlib" /\ n > 0 /\ Two(b, 1, j, "length", "data") => Sent(e, n, b)
       /\ e = "zrle" /\ Two(b, 1, j, "length", "data") => Sent(e, n, b)
       /\ e \in {"size", "keys", "buttons"} /\ j = 1 => Sent(e, n, b)
  BY <1>4, <1>9, Zenon
<1>16. /\ e = "tight" /\ CtlAt(b, 1, j, n) => Sent(e, n, b)
       /\ e = "jpeg" /\ JpegAt(b, 1, j, {}) => Sent(e, n, b)
  BY <1>4, <1>10, <1>11, Zenon
<1> QED BY <1>12, <1>13, <1>14, <1>15, <1>16, Zenon

LEMMA OneSent ==
    ASSUME NEW a \in Unit
    PROVE  <<a>> \in Seq(Unit) /\ Len(<<a>>) = 1 /\ <<a>>[1] = a /\ One(<<a>>, 1, 2, a.t)
<1>1. <<a>> \in Seq(Unit) /\ Len(<<a>>) = 1 /\ <<a>>[1] = a
  OBVIOUS
<1> QED BY <1>1 DEF One

LEMMA TwoSent ==
    ASSUME NEW a \in Unit, NEW b \in Unit
    PROVE  /\ <<a, b>> \in Seq(Unit) /\ Len(<<a, b>>) = 2 /\ <<a, b>>[1] = a /\ <<a, b>>[2] = b
           /\ Two(<<a, b>>, 1, 3, a.t, b.t)
<1>1. <<a, b>> \in Seq(Unit) /\ Len(<<a, b>>) = 2 /\ <<a, b>>[1] = a /\ <<a, b>>[1 + 1] = b
  OBVIOUS
<1> QED BY <1>1 DEF Two

LEMMA PairIs ==
    ASSUME NEW a \in Unit, NEW b \in Unit, NEW s, s = <<a, b>>
    PROVE  <<a>> \o <<b>> = s
<1>1. PICK x, y : x = <<a>> /\ y = <<b>>
  OBVIOUS
<1>2. x \in Seq(Unit) /\ y \in Seq(Unit) /\ Len(x) = 1 /\ Len(y) = 1 /\ x[1] = a /\ y[1] = b
  BY <1>1, OneSent
<1>3. s \in Seq(Unit) /\ Len(s) = 2 /\ s[1] = a /\ s[2] = b
  BY TwoSent
<1>4. PICK z : z = x \o y
  OBVIOUS
<1>5. z \in Seq(Unit) /\ Len(z) = 2 /\ z[1] = a /\ z[2] = b
  <2>1. z \in Seq(Unit) /\ Len(z) = Len(x) + Len(y) /\ \A i \in 1 .. Len(x) + Len(y) : z[i] = IF i <= Len(x) THEN x[i] ELSE y[i - Len(x)]
    BY <1>2, <1>4, ConcatProperties
  <2> QED BY <1>2, <2>1
<1>6. z = s
  BY <1>3, <1>5, SeqEqual
<1> QED BY <1>1, <1>4, <1>6

LEMMA ManySent ==
    ASSUME NEW n \in Nat, NEW t \in Word
    PROVE  Many(n, t) \in Seq(Unit) /\ Len(Many(n, t)) = n /\ \A k \in 1 .. n : Many(n, t)[k].t = t
<1>1. PICK a : a = N(t, 0)
  OBVIOUS
<1>2. a \in Unit /\ a.t = t
  BY <1>1, Units
<1>3. Many(n, t) = [i \in 1 .. n |-> a]
  BY <1>1, Zenon DEF Many
<1> QED BY <1>2, <1>3

LEMMA CountedSent ==
    ASSUME NEW t \in Word, NEW u \in Word, NEW n \in Nat
    PROVE  \E s \in Seq(Unit) : s = <<N(t, n)>> \o Many(n, u) /\ Counted(s, 1, Len(s) + 1, t, u)
<1>1. PICK a : a = N(t, n)
  OBVIOUS
<1>2. a \in Unit /\ a.t = t /\ a.n = n
  BY <1>1, Units
<1>3. PICK m : m = Many(n, u)
  OBVIOUS
<1>4. m \in Seq(Unit) /\ Len(m) = n /\ \A k \in 1 .. n : m[k].t = u
  BY <1>3, ManySent
<1>5. <<a>> \in Seq(Unit) /\ Len(<<a>>) = 1 /\ <<a>>[1] = a
  BY <1>2, OneSent
<1>6. PICK h : h = <<a>>
  OBVIOUS
<1>7. h \in Seq(Unit) /\ Len(h) = 1 /\ h[1] = a
  BY <1>5, <1>6
<1>10. PICK s : s = h \o m
  OBVIOUS
<1>8. s \in Seq(Unit) /\ Len(s) = 1 + n /\ s[1] = a /\ \A k \in 1 .. n : s[k + 1].t = u
  <2>1. /\ s \in Seq(Unit) /\ Len(s) = Len(h) + Len(m)
        /\ \A k \in 1 .. Len(h) : s[k] = h[k]
        /\ \A k \in 1 .. Len(m) : s[k + Len(h)] = m[k]
    <3>1. h \in Seq(Unit) /\ m \in Seq(Unit)
      BY <1>4, <1>7
    <3>2. /\ h \o m \in Seq(Unit) /\ Len(h \o m) = Len(h) + Len(m)
          /\ \A k \in 1 .. Len(h) : (h \o m)[k] = h[k]
          /\ \A k \in 1 .. Len(m) : (h \o m)[k + Len(h)] = m[k]
      BY <3>1, Cat, Zenon
    <3> QED BY <1>10, <3>2, Zenon
  <2>2. 1 \in 1 .. Len(h)
    BY <1>7
  <2> QED BY <1>4, <1>7, <2>1, <2>2
<1>9. All(s, 2, Len(s) + 1, u)
  <2>1. ASSUME NEW k \in 2 .. (Len(s) + 1) - 1 PROVE s[k].t = u
    <3>1. k - 1 \in 1 .. n /\ (k - 1) + 1 = k
      BY <1>8
    <3> QED BY <1>8, <3>1
  <2> QED BY <2>1 DEF All
<1>11. Counted(s, 1, Len(s) + 1, t, u)
  BY <1>2, <1>8, <1>9 DEF Counted
<1>12. s = <<N(t, n)>> \o Many(n, u)
  BY <1>1, <1>3, <1>6, <1>10
<1> QED BY <1>8, <1>11, <1>12

LEMMA BlockSent ==
    ASSUME NEW n \in 1 .. 2
    PROVE  /\ Block(n) \in Seq(Unit) /\ Len(Block(n)) = n
           /\ PixelsAt(Block(n), 1, Len(Block(n)) + 1, n)
           /\ n = 2 => Two(Block(n), 1, Len(Block(n)) + 1, "length", "data")
<1>1. PICK a, b, c : a = N("pixels", 0) /\ b = N("length", 0) /\ c = N("data", 0)
  OBVIOUS
<1>2. "pixels" \in Word /\ "length" \in Word /\ "data" \in Word
  BY DEF Word
<1>3. a \in Unit /\ b \in Unit /\ c \in Unit /\ a.t = "pixels" /\ b.t = "length" /\ c.t = "data"
  BY <1>1, <1>2, Units
<1>4. CASE n = 1
  <2>0. Block(n) = <<a>>
    BY <1>1, <1>4 DEF Block
  <2>1. PICK s : s = <<a>>
    OBVIOUS
  <2>2. s \in Seq(Unit) /\ Len(s) = 1 /\ One(s, 1, 2, "pixels")
    BY <1>3, <2>1, OneSent
  <2>3. s = Block(n)
    BY <2>0, <2>1
  <2>4. /\ PixelsAt(s, 1, Len(s) + 1, n) /\ s \in Seq(Unit) /\ Len(s) = n
        /\ n = 2 => Two(s, 1, Len(s) + 1, "length", "data")
    BY <1>4, <2>2 DEF PixelsAt
  <2> QED BY <2>3, <2>4, Zenon
<1>5. CASE n = 2
  <2>0. Block(n) = <<b, c>>
    BY <1>1, <1>5 DEF Block
  <2>1. PICK s : s = <<b, c>>
    OBVIOUS
  <2>2. s \in Seq(Unit) /\ Len(s) = 2 /\ Two(s, 1, 3, "length", "data")
    BY <1>3, <2>1, TwoSent
  <2>3. s = Block(n)
    BY <2>0, <2>1
  <2>4. /\ PixelsAt(s, 1, Len(s) + 1, n) /\ s \in Seq(Unit) /\ Len(s) = n
        /\ n = 2 => Two(s, 1, Len(s) + 1, "length", "data")
    BY <1>5, <2>2 DEF PixelsAt
  <2> QED BY <2>3, <2>4, Zenon
<1> QED BY <1>4, <1>5

LEMMA TileSent ==
    ASSUME NEW s \in Tiles
    PROVE  s \in Seq(Unit) /\ TileAt(s, 1, Len(s) + 1)
<1>1. PICK a, b, c, f, g, h, i :
        /\ a = U("tile", "blank") /\ b = U("tile", "raw") /\ c = U("tile", "colour") /\ f = U("tile", "subrects")
        /\ g = N("pixels", 0) /\ h = N("count", 1) /\ i = N("subrect", 0)
  OBVIOUS
<1>2. /\ "tile" \in Word /\ "blank" \in Word /\ "raw" \in Word /\ "colour" \in Word /\ "subrects" \in Word
      /\ "pixels" \in Word /\ "count" \in Word /\ "subrect" \in Word /\ 0 \in Nat /\ 1 \in Nat
  BY DEF Word
<1>3. /\ a \in Unit /\ b \in Unit /\ c \in Unit /\ f \in Unit /\ g \in Unit /\ h \in Unit /\ i \in Unit
      /\ a.t = "tile" /\ b.t = "tile" /\ c.t = "tile" /\ f.t = "tile"
      /\ a.v = "blank" /\ b.v = "raw" /\ c.v = "colour" /\ f.v = "subrects"
      /\ g.t = "pixels" /\ h.t = "count" /\ h.n = 1 /\ i.t = "subrect"
  <2>1. a \in Unit /\ a.t = "tile" /\ a.v = "blank"
    BY <1>1, <1>2, UnitIs
  <2>2. b \in Unit /\ b.t = "tile" /\ b.v = "raw"
    BY <1>1, <1>2, UnitIs
  <2>3. c \in Unit /\ c.t = "tile" /\ c.v = "colour"
    BY <1>1, <1>2, UnitIs
  <2>4. f \in Unit /\ f.t = "tile" /\ f.v = "subrects"
    BY <1>1, <1>2, UnitIs
  <2>5. g \in Unit /\ g.t = "pixels" /\ g.n = 0
    <3>1. g = N("pixels", 0)
      BY <1>1
    <3>2. N("pixels", 0) \in Unit /\ N("pixels", 0).t = "pixels" /\ N("pixels", 0).n = 0
      <4>1. "pixels" \in Word /\ 0 \in Nat
        BY <1>2, Zenon
      <4> QED BY ONLY <4>1, Units, Zenon
    <3> QED BY <3>1, <3>2, Zenon
  <2>6. h \in Unit /\ h.t = "count" /\ h.n = 1
    <3>1. h = N("count", 1)
      BY <1>1
    <3>2. N("count", 1) \in Unit /\ N("count", 1).t = "count" /\ N("count", 1).n = 1
      <4>1. PICK k : k = 1 /\ k \in Nat /\ "count" \in Word
        BY <1>2
      <4>2. N("count", k) \in Unit /\ N("count", k).t = "count" /\ N("count", k).n = k
        <5>1. k \in Nat /\ "count" \in Word
          BY <4>1, Zenon
        <5> QED BY ONLY <5>1, Units
      <4> QED BY ONLY <4>1, <4>2
    <3> QED BY <3>1, <3>2, Zenon
  <2>7. i \in Unit /\ i.t = "subrect" /\ i.n = 0
    <3>1. i = N("subrect", 0)
      BY <1>1
    <3>2. N("subrect", 0) \in Unit /\ N("subrect", 0).t = "subrect" /\ N("subrect", 0).n = 0
      <4>1. "subrect" \in Word /\ 0 \in Nat
        BY <1>2, Zenon
      <4> QED BY ONLY <4>1, Units, Zenon
    <3> QED BY <3>1, <3>2, Zenon
  <2> QED BY <2>1, <2>2, <2>3, <2>4, <2>5, <2>6, <2>7, Zenon
<1>4. s \in {<<a>>, <<b, g>>, <<c, g>>, <<f, h, i>>}
  BY <1>1, Zenon DEF Tiles
<1>5. CASE s = <<a>>
  BY <1>3, <1>5 DEF TileAt
<1>6. CASE s = <<b, g>>
  BY <1>3, <1>6 DEF TileAt
<1>7. CASE s = <<c, g>>
  BY <1>3, <1>7 DEF TileAt
<1>8. CASE s = <<f, h, i>>
  BY <1>3, <1>8 DEF TileAt
<1> QED BY <1>4, <1>5, <1>6, <1>7, <1>8

LEMMA TilesSent ==
    ASSUME NEW s \in Tiles
    PROVE  /\ s \in Seq(Unit) /\ TilesAt(s, 1, Len(s) + 1, 1)
           /\ s \o s \in Seq(Unit) /\ TilesAt(s \o s, 1, Len(s \o s) + 1, 2)
<1>1. s \in Seq(Unit) /\ TileAt(s, 1, Len(s) + 1) /\ Len(s) \in Nat
  BY TileSent
<1>2. PICK u : u = s \o s
  OBVIOUS
<1>3. u \in Seq(Unit) /\ Len(u) = Len(s) + Len(s) /\ Same(s, u, 1, Len(s) + 1, 0) /\ Same(s, u, 1, Len(s) + 1, Len(s))
  BY <1>1, <1>2, Cat
<1>4. 1 \in Nat /\ Len(s) + 1 \in Nat /\ 0 \in Int /\ Len(s) \in Int
  BY <1>1
<1>5. TileAt(u, 1 + 0, (Len(s) + 1) + 0)
  BY <1>1, <1>3, <1>4, TileMoves
<1>6. TileAt(u, 1 + Len(s), (Len(s) + 1) + Len(s))
  BY <1>1, <1>3, <1>4, TileMoves
<1>7. PICK h : h = Len(s) + 1
  OBVIOUS
<1>8. h \in 1 .. Len(u) + 1 /\ TileAt(u, 1, h) /\ TileAt(u, h, Len(u) + 1)
  <2>1. 1 + 0 = 1 /\ (Len(s) + 1) + 0 = h /\ 1 + Len(s) = h /\ (Len(s) + 1) + Len(s) = Len(u) + 1 /\ h \in 1 .. Len(u) + 1
    BY <1>1, <1>3, <1>7
  <2> QED BY <1>5, <1>6, <2>1
<1> QED BY <1>1, <1>2, <1>3, <1>8, Zenon DEF TilesAt

Glued(h, m, s) ==
    /\ h \in Seq(Unit) /\ m \in Seq(Unit) /\ s \in Seq(Unit)
    /\ Len(s) = Len(h) + Len(m) /\ Len(h) \in Nat /\ Len(m) \in Nat
    /\ \A k \in 1 .. Len(h) : s[k] = h[k]
    /\ Same(m, s, 1, Len(m) + 1, Len(h)) /\ Same(h, s, 1, Len(h) + 1, 0)

LEMMA Glue ==
    ASSUME NEW h \in Seq(Unit), NEW m \in Seq(Unit)
    PROVE  \E s : s = h \o m /\ Glued(h, m, s)
<1>1. PICK s : s = h \o m
  OBVIOUS
<1>2. /\ h \o m \in Seq(Unit) /\ Len(h \o m) = Len(h) + Len(m) /\ Len(h) \in Nat /\ Len(m) \in Nat
      /\ \A k \in 1 .. Len(h) : (h \o m)[k] = h[k]
      /\ Same(m, h \o m, 1, Len(m) + 1, Len(h)) /\ Same(h, h \o m, 1, Len(h) + 1, 0)
  BY Cat, Zenon
<1> QED BY <1>1, <1>2, Zenon DEF Glued

(* Control byte and filter in front of the pixels of a Tight rectangle.      *)
LEMMA TightFront ==
    ASSUME NEW h, NEW n \in 1 .. 2, NEW s, Glued(h, Block(n), s), NEW v, h[1].t = "ctl", h[1].v = v
    PROVE  /\ Len(h) = 1 /\ v = "basic" => CtlAt(s, 1, Len(s) + 1, n)
           /\ Len(h) = 1 /\ v = "jpeg" /\ n = 2 => CtlAt(s, 1, Len(s) + 1, n)
           /\ Len(h) = 2 /\ v = "filter" /\ h[2].t = "filter" /\ h[2].v = "copy" => CtlAt(s, 1, Len(s) + 1, n)
           /\ Len(h) = 4 /\ v = "filter" /\ h[2].t = "filter" /\ h[2].v = "palette" /\ h[3].t = "colors"
                /\ h[4].t = "palette" => CtlAt(s, 1, Len(s) + 1, n)
<1>1. PICK m : m = Block(n)
  OBVIOUS
<1>2. /\ m \in Seq(Unit) /\ Len(m) = n /\ PixelsAt(m, 1, Len(m) + 1, n)
      /\ n = 2 => Two(m, 1, Len(m) + 1, "length", "data")
  BY <1>1, BlockSent, Zenon
<1>3. Glued(h, m, s)
  BY <1>1
<1>4. /\ Len(s) = Len(h) + n /\ Len(h) \in Nat /\ Len(s) \in Nat
      /\ \A k \in 1 .. Len(h) : s[k] = h[k]
      /\ Same(m, s, 1, n + 1, Len(h))
  BY <1>2, <1>3 DEF Glued
<1>5. n + 1 \in Nat /\ 1 \in Nat /\ Len(h) \in Int
  BY <1>4
<1>6. PixelsAt(s, 1 + Len(h), (n + 1) + Len(h), n)
  BY <1>2, <1>4, <1>5, PixelsMoves
<1>7. n = 2 => Two(s, 1 + Len(h), (n + 1) + Len(h), "length", "data")
  BY <1>2, <1>4, <1>5, PixelsMoves
<1>8. PICK l, j : l = 1 + Len(h) /\ j = Len(s) + 1
  OBVIOUS
<1>9. PixelsAt(s, l, j, n) /\ (n = 2 => Two(s, l, j, "length", "data"))
  <2>1. (n + 1) + Len(h) = j
    BY <1>4, <1>8
  <2> QED BY <1>6, <1>7, <1>8, <2>1
<1>10. CASE Len(h) = 1
  <2>1. l = 1 + 1 /\ s[1] = h[1] /\ 1 < j
    BY <1>4, <1>8, <1>10
  <2>2. (v = "basic" => CtlAt(s, 1, j, n)) /\ (v = "jpeg" /\ n = 2 => CtlAt(s, 1, j, n))
    BY <1>9, <2>1, Zenon DEF CtlAt
  <2> QED BY <1>8, <1>10, <2>2
<1>11. CASE Len(h) = 2
  <2>1. l = 2 + 1 /\ s[1] = h[1] /\ s[2] = h[2] /\ 1 < j /\ 2 < j /\ 1 + 1 = 2
    BY <1>4, <1>8, <1>11
  <2>2. h[2].t = "filter" /\ h[2].v = "copy" => FilterAt(s, 2, j, n)
    BY <1>9, <2>1, Zenon DEF FilterAt
  <2>3. v = "filter" /\ h[2].t = "filter" /\ h[2].v = "copy" => CtlAt(s, 1, j, n)
    BY <2>1, <2>2, Zenon DEF CtlAt
  <2> QED BY <1>8, <1>11, <2>3
<1>12. CASE Len(h) = 4
  <2>1. /\ l = 3 + 2 /\ s[1] = h[1] /\ s[2] = h[2] /\ s[3] = h[3] /\ s[3 + 1] = h[4]
        /\ 1 < j /\ 2 < j /\ 3 + 2 <= j /\ 1 + 1 = 2 /\ 2 + 1 = 3
    BY <1>4, <1>8, <1>12
  <2>2. h[3].t = "colors" /\ h[4].t = "palette" => PaletteAt(s, 3, j, n)
    BY <1>9, <2>1, Zenon DEF PaletteAt
  <2>3. h[2].t = "filter" /\ h[2].v = "palette" /\ h[3].t = "colors" /\ h[4].t = "palette" => FilterAt(s, 2, j, n)
    BY <2>1, <2>2, Zenon DEF FilterAt
  <2>4. v = "filter" /\ h[2].t = "filter" /\ h[2].v = "palette" /\ h[3].t = "colors" /\ h[4].t = "palette"
          => CtlAt(s, 1, j, n)
    BY <2>1, <2>3, Zenon DEF CtlAt
  <2> QED BY <1>8, <1>12, <2>4
<1> QED BY <1>10, <1>11, <1>12

LEMMA SegmentWords == "segment" \in Word /\ "seglen" \in Word /\ "segdata" \in Word
BY DEF Word

LEMMA SegmentSent ==
    ASSUME NEW v \in Word
    PROVE  \E s : s = Segment(v) /\ s \in Seq(Unit) /\ Len(s) = 3 /\ BlockAt(s, 1, v)
<1>1. PICK a, b, c : a = U("segment", v) /\ b = N("seglen", 0) /\ c = N("segdata", 0)
  OBVIOUS
<1>2. "segment" \in Word /\ "seglen" \in Word /\ "segdata" \in Word
  BY SegmentWords, Zenon
<1>3. a \in Unit /\ b \in Unit /\ c \in Unit /\ a.t = "segment" /\ a.v = v /\ b.t = "seglen" /\ c.t = "segdata"
  <2>1. a \in Unit /\ a.t = "segment" /\ a.v = v
    BY <1>1, <1>2, UnitIs
  <2>4. 0 \in Nat
    OBVIOUS
  <2>2. b \in Unit /\ b.t = "seglen"
    BY <1>1, <1>2, <2>4, NumberIs, Zenon
  <2>3. c \in Unit /\ c.t = "segdata"
    BY <1>1, <1>2, <2>4, NumberIs, Zenon
  <2> QED BY <2>1, <2>2, <2>3
<1>4. PICK s : s = <<a, b, c>>
  OBVIOUS
<1>5. s \in Seq(Unit) /\ Len(s) = 3 /\ s[1] = a /\ s[1 + 1] = b /\ s[1 + 2] = c
  BY <1>3, <1>4
<1>6. BlockAt(s, 1, v)
  BY <1>3, <1>5 DEF BlockAt, SegmentAt
<1>7. s = Segment(v)
  BY <1>1, <1>4 DEF Segment
<1> QED BY <1>5, <1>6, <1>7, Zenon

LEMMA BlockGlued ==
    ASSUME NEW h, NEW m, NEW s, Glued(h, m, s), NEW v
    PROVE  /\ \A i \in Nat \ {0} : i + 2 <= Len(h) /\ BlockAt(h, i, v) => BlockAt(s, i, v)
           /\ Len(m) = 3 /\ BlockAt(m, 1, v) => BlockAt(s, Len(h) + 1, v)
<1>1. /\ Len(h) \in Nat /\ Len(m) \in Nat
      /\ \A k \in 1 .. Len(h) : s[k] = h[k]
      /\ \A k \in 1 .. Len(m) : s[k + Len(h)] = m[k]
  BY DEF Glued, Same
<1>2. ASSUME NEW i \in Nat \ {0}, i + 2 <= Len(h), BlockAt(h, i, v) PROVE BlockAt(s, i, v)
  <2>1. s[i] = h[i] /\ s[i + 1] = h[i + 1] /\ s[i + 2] = h[i + 2]
    BY <1>1, <1>2
  <2> QED BY <1>2, <2>1, Zenon DEF BlockAt, SegmentAt
<1>3. ASSUME Len(m) = 3, BlockAt(m, 1, v) PROVE BlockAt(s, Len(h) + 1, v)
  <2>1. s[1 + Len(h)] = m[1] /\ s[2 + Len(h)] = m[2] /\ s[3 + Len(h)] = m[3]
    BY <1>1, <1>3
  <2>2. /\ 1 + Len(h) = Len(h) + 1 /\ 2 + Len(h) = (Len(h) + 1) + 1 /\ 3 + Len(h) = (Len(h) + 1) + 2
        /\ 1 + 1 = 2 /\ 1 + 2 = 3
    BY <1>1
  <2>3. m[1].t = "segment" /\ m[1].v = v /\ m[2].t = "seglen" /\ m[3].t = "segdata"
    BY <1>3, <2>2 DEF BlockAt, SegmentAt
  <2>4. /\ s[Len(h) + 1] = m[1] /\ s[(Len(h) + 1) + 1] = m[2] /\ s[(Len(h) + 1) + 2] = m[3]
    BY <2>1, <2>2
  <2> QED BY <2>3, <2>4, Zenon DEF BlockAt, SegmentAt
<1> QED BY <1>2, <1>3, Zenon

LEMMA GluedLen ==
    ASSUME NEW h, NEW m, NEW s, Glued(h, m, s)
    PROVE  Len(h) \in Nat /\ Len(m) \in Nat /\ Len(s) \in Nat /\ Len(s) = Len(h) + Len(m)
BY DEF Glued

LEMMA BlockKept ==
    ASSUME NEW h, NEW m, NEW s, Glued(h, m, s), NEW v, NEW i \in Nat \ {0}, i + 2 <= Len(h), BlockAt(h, i, v)
    PROVE  BlockAt(s, i, v)
BY BlockGlued, Zenon

LEMMA BlockNext ==
    ASSUME NEW h, NEW m, NEW s, Glued(h, m, s), NEW v, Len(m) = 3, BlockAt(m, 1, v)
    PROVE  BlockAt(s, Len(h) + 1, v)
BY BlockGlued, Zenon

(* A JPEG image: segments, each with its length and data, then the scan.     *)
LEMMA JpegSent ==
    ASSUME NEW tables \in BOOLEAN
    PROVE  \E s : s = Jpeg(tables) /\ s \in Seq(Unit) /\ JpegAt(s, 1, Len(s) + 1, {})
<1>1. PICK a, c, z : a = U("segment", "start") /\ c = N("entropy", 0) /\ z = U("segment", "end")
  OBVIOUS
<1>2. /\ "segment" \in Word /\ "start" \in Word /\ "entropy" \in Word /\ "end" \in Word
      /\ "tables" \in Word /\ "frame" \in Word /\ "scan" \in Word
  BY DEF Word
<1>3. a \in Unit /\ a.t = "segment" /\ a.v = "start"
  BY <1>1, <1>2, UnitIs
<1>4. z \in Unit /\ z.t = "segment" /\ z.v = "end"
  BY <1>1, <1>2, UnitIs
<1>5. c \in Unit /\ c.t = "entropy"
  <2>2. 0 \in Nat
    OBVIOUS
  <2>1. "entropy" \in Word /\ 0 \in Nat /\ c = N("entropy", 0)
    BY <1>1, <1>2, <2>2, Zenon
  <2> QED BY <2>1, NumberIs, Zenon
<1>6. PICK g : g = <<a>> /\ g \in Seq(Unit) /\ Len(g) = 1 /\ g[1] = a
  BY <1>3, OneSent
<1>7. PICK w : w = <<c, z>> /\ w \in Seq(Unit) /\ Len(w) = 2 /\ w[1] = c /\ w[2] = z
  <2>1. c \in Unit /\ z \in Unit
    BY <1>4, <1>5, Zenon
  <2>2. <<c, z>> \in Seq(Unit) /\ Len(<<c, z>>) = 2 /\ <<c, z>>[1] = c /\ <<c, z>>[2] = z
    BY ONLY <2>1, TwoSent
  <2> QED BY <2>2, Zenon
<1>8. PICK x : x = Segment("tables") /\ x \in Seq(Unit) /\ Len(x) = 3 /\ BlockAt(x, 1, "tables")
  BY <1>2, SegmentSent
<1>9. PICK y : y = Segment("frame") /\ y \in Seq(Unit) /\ Len(y) = 3 /\ BlockAt(y, 1, "frame")
  BY <1>2, SegmentSent
<1>10. PICK r : r = Segment("scan") /\ r \in Seq(Unit) /\ Len(r) = 3 /\ BlockAt(r, 1, "scan")
  BY <1>2, SegmentSent
<1>11. PICK e : e = IF tables THEN x ELSE <<>>
  OBVIOUS
<1>12. e \in Seq(Unit) /\ (tables => e = x) /\ (~tables => e = <<>> /\ Len(e) = 0)
  BY <1>8, <1>11
<1>13. PICK s1 : s1 = g \o e /\ Glued(g, e, s1)
  BY <1>6, <1>12, Glue
<1>14. PICK s2 : s2 = s1 \o y /\ Glued(s1, y, s2)
  <2>1. s1 \in Seq(Unit) /\ y \in Seq(Unit)
    BY <1>9, <1>13 DEF Glued
  <2> QED BY <2>1, Glue
<1>15. PICK s3 : s3 = s2 \o r /\ Glued(s2, r, s3)
  <2>1. s2 \in Seq(Unit) /\ r \in Seq(Unit)
    BY <1>10, <1>14 DEF Glued
  <2> QED BY <2>1, Glue
<1>16. PICK s : s = s3 \o w /\ Glued(s3, w, s)
  <2>1. s3 \in Seq(Unit) /\ w \in Seq(Unit)
    BY <1>7, <1>15 DEF Glued
  <2> QED BY <2>1, Glue
<1>17. s = Jpeg(tables)
  <2>1. Jpeg(tables) = <<a>> \o (IF tables THEN x ELSE <<>>) \o y \o r \o <<c, z>>
    BY <1>1, <1>8, <1>9, <1>10, Zenon DEF Jpeg
  <2> QED BY <1>6, <1>7, <1>11, <1>13, <1>14, <1>15, <1>16, <2>1, Zenon
<1>18. Glued(g, e, s1) /\ Glued(s1, y, s2) /\ Glued(s2, r, s3) /\ Glued(s3, w, s)
  BY <1>13, <1>14, <1>15, <1>16
<1>19. /\ Len(g) = 1 /\ g[1] = a /\ Len(y) = 3 /\ Len(r) = 3 /\ Len(w) = 2 /\ w[1] = c /\ w[2] = z
       /\ BlockAt(y, 1, "frame") /\ BlockAt(r, 1, "scan")
       /\ (tables => Len(e) = 3 /\ BlockAt(e, 1, "tables"))
       /\ (~tables => Len(e) = 0)
  BY <1>6, <1>7, <1>8, <1>9, <1>10, <1>12, Zenon
<1>20. PICK l : l = Len(s1)
  OBVIOUS
<1>21. /\ l \in Nat /\ l >= 1 /\ (tables => l = 4) /\ (~tables => l = 1)
       /\ Len(s2) = l + 3 /\ Len(s3) = l + 6 /\ Len(s) = l + 8
  <2>1. Len(s1) = Len(g) + Len(e)
    BY <1>18, GluedLen
  <2>2. Len(s2) = Len(s1) + Len(y)
    BY <1>18, GluedLen
  <2>3. Len(s3) = Len(s2) + Len(r)
    BY <1>18, GluedLen
  <2>4. Len(s) = Len(s3) + Len(w)
    BY <1>18, GluedLen
  <2>5. (tables => Len(e) = 3) /\ (~tables => Len(e) = 0)
    BY <1>19, Zenon
  <2>6. Len(g) = 1 /\ Len(y) = 3 /\ Len(r) = 3 /\ Len(w) = 2
    BY <1>19, Zenon
  <2>7. Len(e) = 3 \/ Len(e) = 0
    BY <2>5, Zenon
  <2>8. /\ l \in Nat /\ l >= 1 /\ (Len(e) = 3 => l = 4) /\ (Len(e) = 0 => l = 1)
        /\ Len(s2) = l + 3 /\ Len(s3) = l + 6 /\ Len(s) = l + 8
    <3>1. Len(s1) = 1 + Len(e) /\ Len(s2) = Len(s1) + 3 /\ Len(s3) = Len(s2) + 3 /\ Len(s) = Len(s3) + 2
      BY <2>1, <2>2, <2>3, <2>4, <2>6, Zenon
    <3>2. /\ l = 1 + Len(e) /\ Len(s2) = l + 3 /\ Len(s3) = Len(s2) + 3 /\ Len(s) = Len(s3) + 2
      BY <1>20, <3>1, Zenon
    <3>3. CASE Len(e) = 3
      BY ONLY <3>2, <3>3
    <3>4. CASE Len(e) = 0
      BY ONLY <3>2, <3>4
    <3> QED BY <2>7, <3>3, <3>4
  <2> QED BY <2>5, <2>8, Zenon
<1>22. BlockAt(s, l + 1, "frame")
  <2>1. BlockAt(s2, l + 1, "frame")
    BY <1>18, <1>19, <1>20, BlockNext, Zenon
  <2>2. l + 1 \in Nat \ {0} /\ (l + 1) + 2 <= Len(s2) /\ (l + 1) + 2 <= Len(s3)
    BY <1>21
  <2>3. BlockAt(s3, l + 1, "frame")
    BY <1>18, <2>1, <2>2, BlockKept, Zenon
  <2> QED BY <1>18, <2>2, <2>3, BlockKept, Zenon
<1>23. BlockAt(s, l + 4, "scan")
  <2>1. BlockAt(s3, Len(s2) + 1, "scan")
    BY <1>18, <1>19, BlockNext, Zenon
  <2>2. Len(s2) + 1 = l + 4 /\ l + 4 \in Nat \ {0} /\ (l + 4) + 2 <= Len(s3)
    BY <1>21
  <2>3. BlockAt(s3, l + 4, "scan")
    BY <2>1, <2>2, Zenon
  <2> QED BY <1>18, <2>2, <2>3, BlockKept, Zenon
<1>24. tables => BlockAt(s, 2, "tables")
  <2>1. SUFFICES ASSUME tables PROVE BlockAt(s, 2, "tables")
    OBVIOUS
  <2>2. Len(g) + 1 = 2 /\ 2 \in Nat \ {0} /\ 2 + 2 <= Len(s1) /\ 2 + 2 <= Len(s2) /\ 2 + 2 <= Len(s3)
    <3>1. Len(g) = 1 /\ Len(s1) = 4
      BY <1>19, <1>20, <1>21, <2>1, Zenon
    <3>2. Len(s2) = l + 3 /\ Len(s3) = l + 6 /\ l \in Nat
      BY <1>21, Zenon
    <3> QED BY <1>20, <3>1, <3>2
  <2>3. BlockAt(s1, Len(g) + 1, "tables")
    BY <1>18, <1>19, <2>1, BlockNext, Zenon
  <2>4. BlockAt(s1, 2, "tables")
    BY <2>2, <2>3, Zenon
  <2>5. BlockAt(s2, 2, "tables")
    BY <1>18, <2>2, <2>4, BlockKept, Zenon
  <2>6. BlockAt(s3, 2, "tables")
    BY <1>18, <2>2, <2>5, BlockKept, Zenon
  <2> QED BY <1>18, <2>2, <2>6, BlockKept, Zenon
<1>25. s[l + 7].t = "entropy" /\ SegmentAt(s, l + 8, "end") /\ SegmentAt(s, 1, "start")
  <2>1. s[1 + Len(s3)] = w[1] /\ s[2 + Len(s3)] = w[2]
    <3>1. Len(w) = 2 /\ Glued(s3, w, s)
      BY <1>18, <1>19, Zenon
    <3>2. \A k \in 1 .. (Len(w) + 1) - 1 : s[k + Len(s3)] = w[k]
      BY <3>1, Zenon DEF Glued, Same
    <3> QED BY <3>1, <3>2
  <2>2. 1 + Len(s3) = l + 7 /\ 2 + Len(s3) = l + 8
    BY <1>21
  <2>3. s[1] = s3[1] /\ s3[1] = s2[1] /\ s2[1] = s1[1] /\ s1[1] = g[1]
    <3>1. 1 \in 1 .. Len(s3) /\ 1 \in 1 .. Len(s2) /\ 1 \in 1 .. Len(s1)
      BY <1>20, <1>21
    <3>2. 1 \in 1 .. Len(g)
      BY <1>19
    <3> QED BY <1>18, <3>1, <3>2, Zenon DEF Glued
  <2> QED BY <1>3, <1>4, <1>5, <1>19, <2>1, <2>2, <2>3, Zenon DEF SegmentAt
<1>26. PICK j : j = Len(s) + 1
  OBVIOUS
<1>27. FrameAt(s, l + 1, j)
  <2>1. EndAt(s, (l + 4) + 4, j)
    BY <1>21, <1>25, <1>26 DEF EndAt
  <2>2. (l + 4) + 3 = l + 7 /\ (l + 4) + 4 <= j /\ (l + 1) + 3 = l + 4 /\ (l + 1) + 3 <= j
    BY <1>21, <1>26
  <2>3. ScanAt(s, l + 4, j)
    BY <1>23, <1>25, <2>1, <2>2, Zenon DEF ScanAt
  <2> QED BY <1>22, <2>2, <2>3, Zenon DEF FrameAt
<1>28. TablesAt(s, 1 + 1, j) \/ FrameAt(s, 1 + 1, j)
  <2>1. CASE tables
    <3>1. 1 + 1 = 2 /\ 2 + 3 = l + 1 /\ 2 + 3 <= j
      BY <1>21, <1>26, <2>1
    <3> QED BY <1>24, <1>27, <2>1, <3>1, Zenon DEF TablesAt
  <2>2. CASE ~tables
    <3>1. 1 + 1 = l + 1
      BY <1>21, <2>2
    <3> QED BY <1>27, <3>1
  <2> QED BY <2>1, <2>2
<1>29. 1 < j
  BY <1>21, <1>26
<1>30. JpegAt(s, 1, j, {})
  BY <1>25, <1>28, <1>29, Zenon DEF JpegAt
<1>31. s \in Seq(Unit)
  BY <1>18 DEF Glued
<1> QED BY <1>17, <1>26, <1>30, <1>31

LEMMA RectsAre ==
    ASSUME NEW e, NEW r \in Rects(e)
    PROVE  /\ e = "raw" => \E n \in 0 .. 2 : r = Rect(e, n, Many(n, "line"))
           /\ e = "copy" => \E n \in 0 .. 1 : r = Rect(e, n, <<N("source", 0)>>)
           /\ e = "rre" => \E n \in 0 .. 2 : r = Rect(e, 1, <<N("count", n)>> \o Many(n, "subrect"))
           /\ e = "hextile" => \E s \in Tiles : r = Rect(e, 1, s) \/ r = Rect(e, 2, s \o s)
           /\ e = "zlib" => r = Rect(e, 0, <<>>) \/ r = Rect(e, 2, Block(2))
           /\ e = "zrle" => \E n \in {0, 2} : r = Rect(e, n, Block(2))
           /\ e = "tight" =>
                \/ r = Rect(e, 1, <<U("ctl", "fill"), N("pixels", 0)>>)
                \/ r = Rect(e, 2, <<U("ctl", "jpeg")>> \o Block(2))
                \/ r = Rect(e, 0, <<U("ctl", "basic")>>)
                \/ \E n \in 1 .. 2 : \/ r = Rect(e, n, <<U("ctl", "basic")>> \o Block(n))
                                     \/ r = Rect(e, n, <<U("ctl", "filter"), U("filter", "copy")>> \o Block(n))
                                     \/ r = Rect(e, n, <<U("ctl", "filter"), U("filter", "palette"), N("colors", 0),
                                                         N("palette", 0)>> \o Block(n))
           /\ e = "jpeg" => \E tables \in BOOLEAN : r = Rect(e, 1, Jpeg(tables))
           /\ e = "h264" => \E f \in {"key", "delta", "reset", "empty"} :
                r = Rect(e, 1, <<U("h264", f)>> \o (IF f = "empty" THEN <<>> ELSE <<N("data", 0)>>))
           /\ e = "cursor" => r = Rect(e, 1, <<N("data", 0)>>)
           /\ e = "vmcursor" => r = Rect(e, 1, <<N("cursor", 0), N("data", 0)>>)
           /\ e = "name" => r = Rect(e, 1, <<N("length", 0), N("data", 0)>>)
           /\ e = "screens" => \E n \in 1 .. 2 : r = Rect(e, n, <<N("screens", n)>> \o Many(n, "screen"))
           /\ e = "led" => r = Rect(e, 1, <<N("leds", 0)>>)
           /\ e \in {"size", "keys", "buttons"} => r = Rect(e, 1, <<>>)
<1>1. e = "raw" => \E n \in 0 .. 2 : r = Rect(e, n, Many(n, "line"))
  BY DEF Rects
<1>2. e = "copy" => \E n \in 0 .. 1 : r = Rect(e, n, <<N("source", 0)>>)
  BY DEF Rects
<1>3. e = "rre" => \E n \in 0 .. 2 : r = Rect(e, 1, <<N("count", n)>> \o Many(n, "subrect"))
  BY DEF Rects
<1>4. e = "hextile" => \E s \in Tiles : r = Rect(e, 1, s) \/ r = Rect(e, 2, s \o s)
  BY DEF Rects
<1>5. e = "zlib" => r = Rect(e, 0, <<>>) \/ r = Rect(e, 2, Block(2))
  BY DEF Rects
<1>6. e = "zrle" => \E n \in {0, 2} : r = Rect(e, n, Block(2))
  BY DEF Rects
<1>7. e = "tight" =>
        \/ r = Rect(e, 1, <<U("ctl", "fill"), N("pixels", 0)>>)
        \/ r = Rect(e, 2, <<U("ctl", "jpeg")>> \o Block(2))
        \/ r = Rect(e, 0, <<U("ctl", "basic")>>)
        \/ \E n \in 1 .. 2 : \/ r = Rect(e, n, <<U("ctl", "basic")>> \o Block(n))
                             \/ r = Rect(e, n, <<U("ctl", "filter"), U("filter", "copy")>> \o Block(n))
                             \/ r = Rect(e, n, <<U("ctl", "filter"), U("filter", "palette"), N("colors", 0),
                                                 N("palette", 0)>> \o Block(n))
  BY DEF Rects
<1>8. e = "jpeg" => \E tables \in BOOLEAN : r = Rect(e, 1, Jpeg(tables))
  BY DEF Rects
<1>9. e = "h264" => \E f \in {"key", "delta", "reset", "empty"} :
        r = Rect(e, 1, <<U("h264", f)>> \o (IF f = "empty" THEN <<>> ELSE <<N("data", 0)>>))
  BY DEF Rects
<1>10. e = "cursor" => r = Rect(e, 1, <<N("data", 0)>>)
  BY DEF Rects
<1>11. e = "vmcursor" => r = Rect(e, 1, <<N("cursor", 0), N("data", 0)>>)
  BY DEF Rects
<1>12. e = "name" => r = Rect(e, 1, <<N("length", 0), N("data", 0)>>)
  BY DEF Rects
<1>13. e = "screens" => \E n \in 1 .. 2 : r = Rect(e, n, <<N("screens", n)>> \o Many(n, "screen"))
  BY DEF Rects
<1>14. e = "led" => r = Rect(e, 1, <<N("leds", 0)>>)
  BY DEF Rects
<1>15. e \in {"size", "keys", "buttons"} => r = Rect(e, 1, <<>>)
  BY DEF Rects
<1> QED BY <1>1, <1>2, <1>3, <1>4, <1>5, <1>6, <1>7, <1>8, <1>9, <1>10, <1>11, <1>12, <1>13, <1>14, <1>15, Zenon

(* Every rectangle of an encoding that the client knows is one that it can read. *)
Bodied(e, r) == \E n, b : r = Rect(e, n, b) /\ Sent(e, n, b)

LEMMA SimpleSent ==
    ASSUME NEW e, NEW r \in Rects(e)
    PROVE  e \in {"raw", "copy", "rre", "cursor", "vmcursor", "name", "screens", "led", "size", "keys", "buttons"}
             => Bodied(e, r)
<1>1. /\ "line" \in Word /\ "source" \in Word /\ "count" \in Word /\ "subrect" \in Word /\ "data" \in Word
      /\ "cursor" \in Word /\ "length" \in Word /\ "screens" \in Word /\ "screen" \in Word /\ "leds" \in Word
  BY DEF Word
<1>2. ASSUME NEW t \in Word
      PROVE  \E b \in Seq(Unit) : b = <<N(t, 0)>> /\ Len(b) = 1 /\ One(b, 1, Len(b) + 1, t)
  <2>1. PICK a : a = N(t, 0) /\ a \in Unit /\ a.t = t
    BY Units
  <2>2. PICK b : b = <<a>> /\ b \in Seq(Unit) /\ Len(b) = 1 /\ One(b, 1, 2, t)
    BY <2>1, OneSent
  <2>3. Len(b) + 1 = 2
    BY <2>2
  <2> QED BY <2>1, <2>2, <2>3, Zenon
<1>3. ASSUME NEW t \in Word, NEW u \in Word
      PROVE  \E b \in Seq(Unit) : b = <<N(t, 0), N(u, 0)>> /\ Len(b) = 2 /\ Two(b, 1, Len(b) + 1, t, u)
  <2>1. PICK a : a = N(t, 0) /\ a \in Unit /\ a.t = t
    BY Units
  <2>2. PICK c : c = N(u, 0) /\ c \in Unit /\ c.t = u
    BY Units
  <2>3. PICK b : b = <<a, c>>
    OBVIOUS
  <2>4. b \in Seq(Unit) /\ Len(b) = 2 /\ Two(b, 1, 3, t, u)
    BY <2>1, <2>2, <2>3, TwoSent
  <2>5. Len(b) + 1 = 3
    BY <2>4
  <2> QED BY <2>1, <2>2, <2>3, <2>4, <2>5, Zenon
<1>4. CASE e = "raw"
  <2>1. PICK n \in 0 .. 2 : r = Rect(e, n, Many(n, "line"))
    BY <1>4, RectsAre
  <2>2. PICK b : b = Many(n, "line") /\ b \in Seq(Unit) /\ Len(b) = n /\ \A k \in 1 .. n : b[k].t = "line"
    BY <1>1, ManySent
  <2>3. All(b, 1, Len(b) + 1, "line") /\ n \in Nat
    BY <2>2 DEF All
  <2>5. b \in Seq(Unit) /\ Len(b) = n
    BY <2>2, Zenon
  <2>4. Sent(e, n, b)
    <3>1. e = "raw" /\ All(b, 1, Len(b) + 1, "line") /\ Len(b) = n => Sent(e, n, b)
      BY <2>3, <2>5, SentIs
    <3> QED BY <1>4, <2>3, <2>5, <3>1, Zenon
  <2>6. r = Rect(e, n, b)
    BY ONLY <2>1, <2>2
  <2> QED BY <2>4, <2>6, Zenon DEF Bodied
<1>5. CASE e = "copy"
  <2>1. PICK n \in 0 .. 1 : r = Rect(e, n, <<N("source", 0)>>)
    BY <1>5, RectsAre
  <2>2. PICK b \in Seq(Unit) : b = <<N("source", 0)>> /\ Len(b) = 1 /\ One(b, 1, Len(b) + 1, "source")
    BY <1>1, <1>2
  <2>3. n \in Nat
    OBVIOUS
  <2>4. Sent(e, n, b)
    BY <1>5, <2>2, <2>3, SentIs
  <2> QED BY <2>1, <2>2, <2>4, Zenon DEF Bodied
<1>6. CASE e = "cursor"
  <2>1. r = Rect(e, 1, <<N("data", 0)>>)
    BY <1>6, RectsAre, Zenon
  <2>2. PICK b \in Seq(Unit) : b = <<N("data", 0)>> /\ Len(b) = 1 /\ One(b, 1, Len(b) + 1, "data")
    BY <1>1, <1>2
  <2>4. Sent(e, 1, b)
    BY <1>6, <2>2, SentIs
  <2> QED BY <2>1, <2>2, <2>4, Zenon DEF Bodied
<1>7. CASE e = "led"
  <2>1. r = Rect(e, 1, <<N("leds", 0)>>)
    BY <1>7, RectsAre, Zenon
  <2>2. PICK b \in Seq(Unit) : b = <<N("leds", 0)>> /\ Len(b) = 1 /\ One(b, 1, Len(b) + 1, "leds")
    BY <1>1, <1>2
  <2>4. Sent(e, 1, b)
    BY <1>7, <2>2, SentIs
  <2> QED BY <2>1, <2>2, <2>4, Zenon DEF Bodied
<1>8. CASE e = "vmcursor"
  <2>1. r = Rect(e, 1, <<N("cursor", 0), N("data", 0)>>)
    BY <1>8, RectsAre, Zenon
  <2>2. PICK b \in Seq(Unit) :
          b = <<N("cursor", 0), N("data", 0)>> /\ Len(b) = 2 /\ Two(b, 1, Len(b) + 1, "cursor", "data")
    BY <1>1, <1>3
  <2>4. Sent(e, 1, b)
    BY <1>8, <2>2, SentIs
  <2> QED BY <2>1, <2>2, <2>4, Zenon DEF Bodied
<1>9. CASE e = "name"
  <2>1. r = Rect(e, 1, <<N("length", 0), N("data", 0)>>)
    BY <1>9, RectsAre, Zenon
  <2>2. PICK b \in Seq(Unit) :
          b = <<N("length", 0), N("data", 0)>> /\ Len(b) = 2 /\ Two(b, 1, Len(b) + 1, "length", "data")
    BY <1>1, <1>3
  <2>4. Sent(e, 1, b)
    BY <1>9, <2>2, SentIs
  <2> QED BY <2>1, <2>2, <2>4, Zenon DEF Bodied
<1>10. CASE e = "rre"
  <2>1. PICK n \in 0 .. 2 : r = Rect(e, 1, <<N("count", n)>> \o Many(n, "subrect"))
    BY <1>10, RectsAre
  <2>5. n \in Nat
    BY <2>1
  <2>2. PICK b \in Seq(Unit) :
          b = <<N("count", n)>> \o Many(n, "subrect") /\ Counted(b, 1, Len(b) + 1, "count", "subrect")
    BY <1>1, <2>5, CountedSent, Zenon
  <2>3. b \in Seq(Unit) /\ Counted(b, 1, Len(b) + 1, "count", "subrect")
    BY <2>2
  <2>4. Sent(e, 1, b)
    BY <1>10, <2>3, SentIs
  <2> QED BY <2>1, <2>2, <2>4, Zenon DEF Bodied
<1>11. CASE e = "screens"
  <2>1. PICK n \in 1 .. 2 : r = Rect(e, n, <<N("screens", n)>> \o Many(n, "screen"))
    BY <1>11, RectsAre
  <2>5. n \in Nat
    BY <2>1
  <2>2. PICK b \in Seq(Unit) :
          b = <<N("screens", n)>> \o Many(n, "screen") /\ Counted(b, 1, Len(b) + 1, "screens", "screen")
    BY <1>1, <2>5, CountedSent, Zenon
  <2>3. b \in Seq(Unit) /\ Counted(b, 1, Len(b) + 1, "screens", "screen") /\ n \in Nat
    BY <2>2
  <2>4. Sent(e, n, b)
    BY <1>11, <2>3, SentIs
  <2> QED BY <2>1, <2>2, <2>4, Zenon DEF Bodied
<1>12. CASE e \in {"size", "keys", "buttons"}
  <2>1. r = Rect(e, 1, <<>>)
    BY <1>12, RectsAre, Zenon
  <2>2. PICK b : b = <<>>
    OBVIOUS
  <2>3. Len(b) + 1 = 1 /\ b \in Seq(Unit)
    BY <2>2
  <2>4. Sent(e, 1, b)
    BY <1>12, <2>3, SentIs
  <2> QED BY <2>1, <2>2, <2>4, Zenon DEF Bodied
<1> QED BY <1>4, <1>5, <1>6, <1>7, <1>8, <1>9, <1>10, <1>11, <1>12

LEMMA TightSent ==
    ASSUME NEW e, e = "tight", NEW r \in Rects(e)
    PROVE  Bodied(e, r)
<1>1. /\ "ctl" \in Word /\ "filter" \in Word /\ "colors" \in Word /\ "palette" \in Word /\ "pixels" \in Word
      /\ "fill" \in Word /\ "jpeg" \in Word /\ "basic" \in Word /\ "copy" \in Word
  BY DEF Word
<1>2. PICK a : a = U("ctl", "basic") /\ a \in Unit /\ a.t = "ctl" /\ a.v = "basic"
  BY <1>1, UnitHas
<1>3. PICK b : b = U("ctl", "jpeg") /\ b \in Unit /\ b.t = "ctl" /\ b.v = "jpeg"
  BY <1>1, UnitHas
<1>4. PICK c : c = U("ctl", "fill") /\ c \in Unit /\ c.t = "ctl" /\ c.v = "fill"
  BY <1>1, UnitHas
<1>5. PICK f : f = U("ctl", "filter") /\ f \in Unit /\ f.t = "ctl" /\ f.v = "filter"
  BY <1>1, UnitHas
<1>6. PICK g : g = U("filter", "copy") /\ g \in Unit /\ g.t = "filter" /\ g.v = "copy"
  BY <1>1, UnitHas
<1>7. PICK h : h = U("filter", "palette") /\ h \in Unit /\ h.t = "filter" /\ h.v = "palette"
  BY <1>1, UnitHas
<1>8. PICK k : k = N("colors", 0) /\ k \in Unit /\ k.t = "colors"
  BY <1>1, NumberHas, Zenon
<1>9. PICK l : l = N("palette", 0) /\ l \in Unit /\ l.t = "palette"
  BY <1>1, NumberHas, Zenon
<1>10. PICK o : o = N("pixels", 0) /\ o \in Unit /\ o.t = "pixels"
  BY <1>1, NumberHas, Zenon
<1>11. \/ r = Rect(e, 1, <<c, o>>)
       \/ r = Rect(e, 2, <<b>> \o Block(2))
       \/ r = Rect(e, 0, <<a>>)
       \/ \E n \in 1 .. 2 : \/ r = Rect(e, n, <<a>> \o Block(n))
                            \/ r = Rect(e, n, <<f, g>> \o Block(n))
                            \/ r = Rect(e, n, <<f, h, k, l>> \o Block(n))
  <2>1. \/ r = Rect(e, 1, <<U("ctl", "fill"), N("pixels", 0)>>)
        \/ r = Rect(e, 2, <<U("ctl", "jpeg")>> \o Block(2))
        \/ r = Rect(e, 0, <<U("ctl", "basic")>>)
        \/ \E n \in 1 .. 2 : \/ r = Rect(e, n, <<U("ctl", "basic")>> \o Block(n))
                             \/ r = Rect(e, n, <<U("ctl", "filter"), U("filter", "copy")>> \o Block(n))
                             \/ r = Rect(e, n, <<U("ctl", "filter"), U("filter", "palette"), N("colors", 0),
                                                 N("palette", 0)>> \o Block(n))
    BY RectsAre
  <2> QED BY <1>2, <1>3, <1>4, <1>5, <1>6, <1>7, <1>8, <1>9, <1>10, <2>1, Zenon
<1>12. ASSUME NEW n \in 1 .. 2, NEW i, i \in Seq(Unit), i[1].t = "ctl",
              \/ Len(i) = 1 /\ i[1].v = "basic"
              \/ Len(i) = 1 /\ i[1].v = "jpeg" /\ n = 2
              \/ Len(i) = 2 /\ i[1].v = "filter" /\ i[2].t = "filter" /\ i[2].v = "copy"
              \/ /\ Len(i) = 4 /\ i[1].v = "filter" /\ i[2].t = "filter" /\ i[2].v = "palette"
                 /\ i[3].t = "colors" /\ i[4].t = "palette",
              r = Rect(e, n, i \o Block(n))
       PROVE  Bodied(e, r)
  <2>1. Block(n) \in Seq(Unit)
    BY BlockSent
  <2>2. PICK s : s = i \o Block(n) /\ Glued(i, Block(n), s)
    BY <1>12, <2>1, Glue
  <2>3. CtlAt(s, 1, Len(s) + 1, n)
    BY <1>12, <2>2, TightFront, Zenon
  <2>4. s \in Seq(Unit) /\ n \in Nat
    BY <2>2 DEF Glued
  <2>5. Sent(e, n, s)
    BY <2>3, <2>4, SentIs
  <2> QED BY <1>12, <2>2, <2>5, Zenon DEF Bodied
<1>13. CASE r = Rect(e, 1, <<c, o>>)
  <2>1. PICK s : s = <<c, o>>
    OBVIOUS
  <2>2. s \in Seq(Unit) /\ Len(s) = 2 /\ s[1] = c /\ s[2] = o
    BY <1>4, <1>10, <2>1, TwoSent
  <2>3. 1 < Len(s) + 1 /\ One(s, 1 + 1, Len(s) + 1, "pixels")
    BY <1>10, <2>2 DEF One
  <2>4. CtlAt(s, 1, Len(s) + 1, 1)
    BY <1>4, <2>2, <2>3, Zenon DEF CtlAt
  <2>5. Sent(e, 1, s)
    BY <2>2, <2>4, SentIs
  <2> QED BY <1>13, <2>1, <2>5, Zenon DEF Bodied
<1>14. CASE r = Rect(e, 0, <<a>>)
  <2>1. PICK s : s = <<a>>
    OBVIOUS
  <2>2. s \in Seq(Unit) /\ Len(s) = 1 /\ s[1] = a
    BY <1>2, <2>1, OneSent
  <2>3. 1 < Len(s) + 1 /\ PixelsAt(s, 1 + 1, Len(s) + 1, 0)
    BY <2>2 DEF PixelsAt
  <2>4. CtlAt(s, 1, Len(s) + 1, 0)
    BY <1>2, <2>2, <2>3, Zenon DEF CtlAt
  <2>5. Sent(e, 0, s)
    BY <2>2, <2>4, SentIs
  <2> QED BY <1>14, <2>1, <2>5, Zenon DEF Bodied
<1>15. CASE r = Rect(e, 2, <<b>> \o Block(2))
  <2>1. PICK i : i = <<b>>
    OBVIOUS
  <2>2. i \in Seq(Unit) /\ Len(i) = 1 /\ i[1] = b
    BY <1>3, <2>1, OneSent
  <2>3. r = Rect(e, 2, i \o Block(2)) /\ i[1].t = "ctl" /\ i[1].v = "jpeg"
    BY <1>3, <1>15, <2>1, <2>2, Zenon
  <2>4. 2 \in 1 .. 2
    OBVIOUS
  <2> QED BY <1>12, <2>2, <2>3, <2>4, Zenon
<1>16. ASSUME NEW n \in 1 .. 2, r = Rect(e, n, <<a>> \o Block(n)) PROVE Bodied(e, r)
  <2>1. PICK i : i = <<a>>
    OBVIOUS
  <2>2. i \in Seq(Unit) /\ Len(i) = 1 /\ i[1] = a
    BY <1>2, <2>1, OneSent
  <2>3. r = Rect(e, n, i \o Block(n)) /\ i[1].t = "ctl" /\ i[1].v = "basic"
    BY <1>2, <1>16, <2>1, <2>2, Zenon
  <2> QED BY <1>12, <2>2, <2>3, Zenon
<1>17. ASSUME NEW n \in 1 .. 2, r = Rect(e, n, <<f, g>> \o Block(n)) PROVE Bodied(e, r)
  <2>1. PICK i : i = <<f, g>>
    OBVIOUS
  <2>2. i \in Seq(Unit) /\ Len(i) = 2 /\ i[1] = f /\ i[2] = g
    BY <1>5, <1>6, <2>1, TwoSent
  <2>3. /\ r = Rect(e, n, i \o Block(n)) /\ i[1].t = "ctl" /\ i[1].v = "filter"
        /\ i[2].t = "filter" /\ i[2].v = "copy"
    BY <1>5, <1>6, <1>17, <2>1, <2>2, Zenon
  <2> QED BY <1>12, <2>2, <2>3, Zenon
<1>18. ASSUME NEW n \in 1 .. 2, r = Rect(e, n, <<f, h, k, l>> \o Block(n)) PROVE Bodied(e, r)
  <2>1. PICK i : i = <<f, h, k, l>>
    OBVIOUS
  <2>2. i \in Seq(Unit) /\ Len(i) = 4 /\ i[1] = f /\ i[2] = h /\ i[3] = k /\ i[4] = l
    BY <1>5, <1>7, <1>8, <1>9, <2>1
  <2>3. /\ r = Rect(e, n, i \o Block(n)) /\ i[1].t = "ctl" /\ i[1].v = "filter"
        /\ i[2].t = "filter" /\ i[2].v = "palette" /\ i[3].t = "colors" /\ i[4].t = "palette"
    BY <1>5, <1>7, <1>8, <1>9, <1>18, <2>1, <2>2, Zenon
  <2> QED BY <1>12, <2>2, <2>3, Zenon
<1> QED BY <1>11, <1>13, <1>14, <1>15, <1>16, <1>17, <1>18, Zenon

LEMMA PictureSent ==
    ASSUME NEW e, NEW r \in Rects(e)
    PROVE  e \in {"hextile", "zlib", "zrle", "jpeg", "h264"} => Bodied(e, r)
<1>1. PICK b : b = Block(2)
  OBVIOUS
<1>2. b \in Seq(Unit) /\ Two(b, 1, Len(b) + 1, "length", "data")
  <2>1. 2 \in 1 .. 2
    OBVIOUS
  <2> QED BY <1>1, <2>1, BlockSent
<1>3. CASE e = "zrle"
  <2>1. r = Rect(e, 0, b) \/ r = Rect(e, 2, b)
    BY <1>1, <1>3, RectsAre
  <2>2. Sent(e, 0, b) /\ Sent(e, 2, b)
    BY <1>2, <1>3, SentIs
  <2> QED BY <2>1, <2>2, Zenon DEF Bodied
<1>4. CASE e = "zlib"
  <2>1. r = Rect(e, 0, <<>>) \/ r = Rect(e, 2, b)
    BY <1>1, <1>4, RectsAre
  <2>2. PICK z : z = <<>>
    OBVIOUS
  <2>3. z \in Seq(Unit) /\ Len(z) + 1 = 1
    BY <2>2
  <2>4. Sent(e, 0, z)
    BY <1>4, <2>3, SentIs
  <2>5. Sent(e, 2, b)
    BY <1>2, <1>4, SentIs
  <2> QED BY <2>1, <2>2, <2>4, <2>5, Zenon DEF Bodied
<1>5. CASE e = "hextile"
  <2>1. PICK s \in Tiles : r = Rect(e, 1, s) \/ r = Rect(e, 2, s \o s)
    BY <1>5, RectsAre
  <2>2. PICK u : u = s \o s
    OBVIOUS
  <2>3. s \in Seq(Unit) /\ TilesAt(s, 1, Len(s) + 1, 1)
    BY TilesSent
  <2>4. u \in Seq(Unit) /\ TilesAt(u, 1, Len(u) + 1, 2)
    BY <2>2, TilesSent, Zenon
  <2>5. Sent(e, 1, s)
    BY <1>5, <2>3, SentIs
  <2>6. Sent(e, 2, u)
    BY <1>5, <2>4, SentIs
  <2> QED BY <2>1, <2>2, <2>5, <2>6, Zenon DEF Bodied
<1>6. CASE e = "jpeg"
  <2>1. PICK tables \in BOOLEAN : r = Rect(e, 1, Jpeg(tables))
    BY <1>6, RectsAre
  <2>2. PICK s : s = Jpeg(tables) /\ s \in Seq(Unit) /\ JpegAt(s, 1, Len(s) + 1, {})
    BY JpegSent, Zenon
  <2>3. s \in Seq(Unit) /\ JpegAt(s, 1, Len(s) + 1, {})
    BY <2>2
  <2>4. Sent(e, 1, s)
    BY <1>6, <2>3, SentIs
  <2> QED BY <2>1, <2>2, <2>4, Zenon DEF Bodied
<1>7. CASE e = "h264"
  <2>1. PICK f \in {"key", "delta", "reset", "empty"} :
          r = Rect(e, 1, <<U("h264", f)>> \o (IF f = "empty" THEN <<>> ELSE <<N("data", 0)>>))
    BY <1>7, RectsAre
  <2>2. "h264" \in Word /\ "data" \in Word /\ f \in Word
    <3>1. f = "key" \/ f = "delta" \/ f = "reset" \/ f = "empty"
      BY <2>1, Zenon
    <3>2. "key" \in Word /\ "delta" \in Word /\ "reset" \in Word /\ "empty" \in Word
      BY DEF Word
    <3>3. "h264" \in Word /\ "data" \in Word
      BY DEF Word
    <3> QED BY <3>1, <3>2, <3>3, Zenon
  <2>3. PICK a : a = U("h264", f) /\ a \in Unit /\ a.t = "h264" /\ a.v = f
    BY <2>2, UnitHas
  <2>4. PICK c : c = N("data", 0) /\ c \in Unit /\ c.t = "data"
    BY <2>2, NumberHas, Zenon
  <2>5. CASE f = "empty"
    <3>1. PICK s : s = <<a>>
      OBVIOUS
    <3>2. s \in Seq(Unit) /\ Len(s) = 1 /\ s[1] = a /\ One(s, 1, 2, "h264")
      BY <2>3, <3>1, OneSent
    <3>3. s \o <<>> = s
      BY <3>2, ConcatEmptySeq
    <3>4. r = Rect(e, 1, s)
      <4>1. (IF f = "empty" THEN <<>> ELSE <<N("data", 0)>>) = <<>>
        BY <2>5
      <4> QED BY <2>1, <2>3, <3>1, <3>3, <4>1, Zenon
    <3>5. Len(s) + 1 = 2 /\ s[1].v = "empty"
      BY <2>3, <2>5, <3>2
    <3>6. Sent(e, 1, s)
      BY <1>7, <3>2, <3>5, SentIs
    <3> QED BY <3>4, <3>6, Zenon DEF Bodied
  <2>6. CASE f # "empty"
    <3>1. PICK s : s = <<a, c>>
      OBVIOUS
    <3>2. s \in Seq(Unit) /\ Len(s) = 2 /\ s[1] = a /\ Two(s, 1, 3, "h264", "data")
      BY <2>3, <2>4, <3>1, TwoSent
    <3>3. <<a>> \o <<c>> = s
      BY <2>3, <2>4, <3>1, PairIs
    <3>4. r = Rect(e, 1, s)
      <4>1. (IF f = "empty" THEN <<>> ELSE <<N("data", 0)>>) = <<c>>
        BY <2>4, <2>6
      <4> QED BY <2>1, <2>3, <3>3, <4>1, Zenon
    <3>5. Len(s) + 1 = 3 /\ s[1].v # "empty"
      BY <2>3, <2>6, <3>2
    <3>6. Sent(e, 1, s)
      BY <1>7, <3>2, <3>5, SentIs
    <3> QED BY <3>4, <3>6, Zenon DEF Bodied
  <2> QED BY <2>5, <2>6
<1> QED BY <1>3, <1>4, <1>5, <1>6, <1>7

LEMMA AllSent ==
    ASSUME NEW e \in Encodings, NEW r \in Rects(e)
    PROVE  Bodied(e, r)
<1>1. e \in {"raw", "copy", "rre", "hextile", "zlib", "zrle", "tight", "jpeg", "h264", "cursor", "vmcursor", "name",
             "screens", "led", "size", "keys", "buttons"}
  BY StreamAssumption
<1>2. e \in {"raw", "copy", "rre", "cursor", "vmcursor", "name", "screens", "led", "size", "keys", "buttons"}
        => Bodied(e, r)
  BY SimpleSent
<1>3. e \in {"hextile", "zlib", "zrle", "jpeg", "h264"} => Bodied(e, r)
  BY PictureSent
<1>4. e = "tight" => Bodied(e, r)
  BY TightSent
<1> QED BY <1>1, <1>2, <1>3, <1>4

(***************************************************************************)
(* Messages, put together.                                                  *)
(***************************************************************************)
LEMMA RectPlaced ==
    ASSUME NEW s, NEW u, NEW a \in Nat, NEW j \in Nat, NEW m \in Nat, Same(s, u, a, j, m),
           Len(s) \in Nat, Len(u) \in Nat, j + m <= Len(u) + 1, RectAt(s, a, j)
    PROVE  RectAt(u, a + m, j + m) /\ a < j
<1>1. PICK x : x = Fresh(s[a].v, s[a].n)
  OBVIOUS
<1>2. a <= Len(s) /\ s[a].t = "rect" /\ BodyAt(s, a + 1, j, x)
  BY <1>1 DEF RectAt
<1>3. a + 1 <= j /\ x.left \in Nat /\ x.length \in BOOLEAN
  <2>1. a + 1 <= j
    BY <1>2 DEF BodyAt
  <2>2. x.left \in Nat /\ x.length \in BOOLEAN
    BY <1>1 DEF Fresh, PInit
  <2> QED BY <2>1, <2>2
<1>4. u[a + m] = s[a] /\ Same(s, u, a + 1, j, m) /\ a + 1 \in Nat /\ (a + 1) + m \in Nat /\ m \in Int
  <2>1. a \in a .. j - 1 /\ \A k \in a + 1 .. j - 1 : k \in a .. j - 1
    BY <1>3
  <2>2. u[a + m] = s[a] /\ Same(s, u, a + 1, j, m)
    BY <2>1 DEF Same
  <2> QED BY <2>2
<1>5. BodyAt(u, (a + 1) + m, j + m, x)
  BY <1>2, <1>3, <1>4, BodyMoves
<1>6. (a + 1) + m = (a + m) + 1 /\ a + m <= Len(u) /\ a < j
  BY <1>3
<1> QED BY <1>1, <1>2, <1>4, <1>5, <1>6 DEF RectAt

Rectangle(r) == r \in Seq(Unit) /\ Len(r) > 0 /\ RectAt(r, 1, Len(r) + 1) /\ NoTypes(r, 1, Len(r) + 1)

LEMMA RectSent ==
    ASSUME NEW e \in Encodings, NEW r \in Rects(e)
    PROVE  Rectangle(r)
<1>1. PICK n, b : r = Rect(e, n, b) /\ Sent(e, n, b)
  BY AllSent DEF Bodied
<1>2. PICK x : x = Fresh(e, n)
  OBVIOUS
<1>3. b \in Seq(Unit) /\ n \in Nat /\ BodyAt(b, 1, Len(b) + 1, x)
  BY <1>1, <1>2 DEF Sent
<1>4. e \in Word /\ "rect" \in Word
  <2>1. e \in {"raw", "copy", "rre", "hextile", "zlib", "zrle", "tight", "jpeg", "h264", "cursor",
                "vmcursor", "name", "screens", "led", "size", "keys", "buttons"}
    BY StreamAssumption, Zenon
  <2>2. "raw" \in Word /\ "copy" \in Word /\ "rre" \in Word /\ "hextile" \in Word /\ "zlib" \in Word /\ "zrle" \in Word
    BY DEF Word
  <2>3. "tight" \in Word /\ "jpeg" \in Word /\ "h264" \in Word /\ "cursor" \in Word /\ "vmcursor" \in Word /\ "name" \in Word
    BY DEF Word
  <2>4. "screens" \in Word /\ "led" \in Word /\ "size" \in Word /\ "keys" \in Word /\ "buttons" \in Word /\ "rect" \in Word
    BY DEF Word
  <2> QED BY <2>1, <2>2, <2>3, <2>4, Zenon
<1>5. PICK h : h = [t |-> "rect", v |-> e, n |-> n]
  OBVIOUS
<1>6. h \in Unit /\ h.t = "rect" /\ h.v = e /\ h.n = n
  BY <1>3, <1>4, <1>5 DEF Unit
<1>7. PICK g : g = <<h>>
  OBVIOUS
<1>8. g \in Seq(Unit) /\ Len(g) = 1 /\ g[1] = h
  BY <1>6, <1>7, OneSent
<1>9. PICK s : s = g \o b /\ Glued(g, b, s)
  BY <1>3, <1>8, Glue
<1>10. s = r
  BY <1>1, <1>5, <1>7, <1>9, Zenon DEF Rect
<1>11. /\ s \in Seq(Unit) /\ Len(s) = 1 + Len(b) /\ Len(b) \in Nat /\ s[1] = g[1]
       /\ Same(b, s, 1, Len(b) + 1, 1)
  BY <1>8, <1>9 DEF Glued
<1>12. x.left \in Nat /\ x.length \in BOOLEAN
  BY <1>2 DEF Fresh, PInit
<1>13. /\ 1 \in Nat /\ Len(b) + 1 \in Nat /\ 1 \in Int /\ 1 + 1 \in Nat /\ Len(b) \in Nat /\ Len(s) \in Nat
       /\ (Len(b) + 1) + 1 <= Len(s) + 1 /\ (Len(b) + 1) + 1 = Len(s) + 1 /\ Len(s) + 1 \in Nat
  BY <1>11
<1>14. BodyAt(s, 1 + 1, (Len(b) + 1) + 1, x)
  BY <1>3, <1>11, <1>12, <1>13, BodyMoves
<1>15. BodyAt(s, 1 + 1, Len(s) + 1, x)
  BY <1>13, <1>14
<1>16. RectAt(s, 1, Len(s) + 1)
  <2>1. s[1].t = "rect" /\ s[1].v = e /\ s[1].n = n /\ 1 <= Len(s)
    BY <1>6, <1>8, <1>11
  <2> QED BY <1>2, <1>15, <2>1 DEF RectAt
<1>17. NoTypes(s, 1 + 1, Len(s) + 1)
  BY <1>12, <1>13, <1>15, BodyTypes
<1>18. NoTypes(s, 1, Len(s) + 1)
  <2>1. s[1].t # "type"
    BY <1>6, <1>8, <1>11
  <2> QED BY <1>13, <1>17, <2>1 DEF NoTypes
<1> QED BY <1>10, <1>11, <1>16, <1>18 DEF Rectangle

LEMMA NoTypesGlued ==
    ASSUME NEW h, NEW m, NEW s, Glued(h, m, s), NEW i \in Nat, i >= 1, NoTypes(h, i, Len(h) + 1),
           NoTypes(m, 1, Len(m) + 1)
    PROVE  NoTypes(s, i, Len(s) + 1)
<1>1. /\ Len(h) \in Nat /\ Len(m) \in Nat /\ Len(s) = Len(h) + Len(m)
      /\ \A k \in 1 .. Len(h) : s[k] = h[k]
      /\ \A k \in 1 .. Len(m) : s[k + Len(h)] = m[k]
  BY DEF Glued, Same
<1>2. ASSUME NEW k \in i .. (Len(s) + 1) - 1 PROVE s[k].t # "type"
  <2>1. CASE k <= Len(h)
    <3>1. k \in 1 .. Len(h) /\ k \in i .. (Len(h) + 1) - 1
      BY <1>1, <2>1
    <3> QED BY <1>1, <3>1 DEF NoTypes
  <2>2. CASE ~(k <= Len(h))
    <3>1. k - Len(h) \in 1 .. Len(m) /\ (k - Len(h)) + Len(h) = k /\ k - Len(h) \in 1 .. (Len(m) + 1) - 1
      BY <1>1, <2>2
    <3> QED BY <1>1, <3>1 DEF NoTypes
  <2> QED BY <2>1, <2>2
<1> QED BY <1>2 DEF NoTypes

(* A message: its type comes first and nowhere else.                         *)
Whole1(u, v) ==
    /\ u \in Seq(Unit) /\ Len(u) > 0 /\ u[1] = U("type", v) /\ u[1].v = v
    /\ MessageAt(u, 1) /\ NoTypes(u, 2, Len(u) + 1)

LEMMA UpdateSent ==
    ASSUME NEW r1, Rectangle(r1), NEW r2, NEW k,
           \/ k = 1 /\ r2 = <<>>
           \/ k = 3 /\ r2 = Rect("last", 1, <<>>)
           \/ k = 2 /\ Rectangle(r2)
    PROVE  Whole1(<<U("type", "update"), N("rects", k)>> \o r1 \o r2, "update")
<1>1. "type" \in Word /\ "update" \in Word /\ "rects" \in Word /\ "rect" \in Word /\ "last" \in Word /\ k \in Nat
  BY DEF Word
<1>2. PICK a : a = U("type", "update") /\ a \in Unit /\ a.t = "type" /\ a.v = "update"
  BY <1>1, UnitHas
<1>3. PICK c : c = N("rects", k)
  OBVIOUS
<1>4. c \in Unit /\ c.t = "rects" /\ c.n = k
  <2>1. "rects" \in Word /\ k \in Nat
    BY <1>1, Zenon
  <2>2. N("rects", k) \in Unit /\ N("rects", k).t = "rects" /\ N("rects", k).n = k
    BY ONLY <2>1, Units
  <2> QED BY <1>3, <2>2, Zenon
<1>5. PICK h : h = <<a, c>>
  OBVIOUS
<1>6. h \in Seq(Unit) /\ Len(h) = 2 /\ h[1] = a /\ h[2] = c
  BY <1>2, <1>4, <1>5, TwoSent
<1>7. /\ r1 \in Seq(Unit) /\ Len(r1) > 0 /\ RectAt(r1, 1, Len(r1) + 1) /\ NoTypes(r1, 1, Len(r1) + 1)
  BY DEF Rectangle
<1>8. PICK z : z = [t |-> "rect", v |-> "last", n |-> 1]
  OBVIOUS
<1>9. z \in Unit /\ z.t = "rect" /\ z.v = "last"
  BY <1>1, <1>8 DEF Unit
<1>10. /\ r2 \in Seq(Unit) /\ NoTypes(r2, 1, Len(r2) + 1)
       /\ (k = 1 => Len(r2) = 0) /\ (k = 3 => Len(r2) = 1 /\ r2[1] = z)
       /\ (k = 2 => Len(r2) > 0 /\ RectAt(r2, 1, Len(r2) + 1)) /\ k \in 1 .. 3
  <2>1. CASE k = 1 /\ r2 = <<>>
    BY <2>1 DEF NoTypes
  <2>2. CASE k = 3 /\ r2 = Rect("last", 1, <<>>)
    <3>1. PICK g : g = <<z>>
      OBVIOUS
    <3>2. g \in Seq(Unit) /\ Len(g) = 1 /\ g[1] = z
      BY <1>9, <3>1, OneSent
    <3>3. g \o <<>> = g
      BY <3>2, ConcatEmptySeq
    <3>4. r2 = g
      BY <1>8, <2>2, <3>1, <3>3, Zenon DEF Rect
    <3>5. NoTypes(g, 1, Len(g) + 1)
      BY <1>9, <3>2 DEF NoTypes
    <3>6. k = 3 /\ k # 1 /\ k # 2 /\ k \in 1 .. 3
      BY <2>2
    <3> QED BY <3>2, <3>4, <3>5, <3>6, Zenon
  <2>3. CASE k = 2 /\ Rectangle(r2)
    BY <2>3 DEF Rectangle
  <2> QED BY <2>1, <2>2, <2>3
<1>11. PICK s : s = h \o r1 /\ Glued(h, r1, s)
  BY <1>6, <1>7, Glue
<1>12. s \in Seq(Unit) /\ Len(s) = 2 + Len(r1) /\ Len(r1) \in Nat /\ s[1] = a /\ s[2] = c /\ Same(r1, s, 1, Len(r1) + 1, 2)
  BY <1>6, <1>11 DEF Glued
<1>13. PICK u : u = s \o r2 /\ Glued(s, r2, u)
  BY <1>10, <1>12, Glue
<1>14. u = <<U("type", "update"), N("rects", k)>> \o r1 \o r2
  BY <1>2, <1>3, <1>5, <1>11, <1>13, Zenon
<1>15. /\ u \in Seq(Unit) /\ Len(u) = Len(s) + Len(r2) /\ Len(r2) \in Nat /\ Len(u) \in Nat
       /\ Same(s, u, 1, Len(s) + 1, 0) /\ Same(r2, u, 1, Len(r2) + 1, Len(s))
       /\ \A i \in 1 .. Len(s) : u[i] = s[i]
  BY <1>13 DEF Glued
<1>16. PICK j : j = Len(s) + 1
  OBVIOUS
<1>17. RectAt(u, 3, j)
  <2>1. RectAt(s, 1 + 2, (Len(r1) + 1) + 2)
    <3>1. /\ 1 \in Nat /\ 2 \in Nat /\ Len(r1) + 1 \in Nat /\ Len(r1) \in Nat /\ Len(s) \in Nat
          /\ (Len(r1) + 1) + 2 <= Len(s) + 1
      BY <1>12
    <3>2. Same(r1, s, 1, Len(r1) + 1, 2)
      BY <1>12, Zenon
    <3>3. RectAt(r1, 1, Len(r1) + 1)
      BY <1>7, Zenon
    <3> QED BY <3>1, <3>2, <3>3, RectPlaced
  <2>2. RectAt(s, 3, j) /\ j \in Nat /\ 3 \in Nat
    BY <1>12, <1>16, <2>1
  <2>3. Same(s, u, 3, j, 0)
    BY <1>15, <1>16 DEF Same
  <2>4. RectAt(u, 3 + 0, j + 0)
    <3>1. 3 \in Nat /\ 0 \in Nat /\ j \in Nat /\ Len(s) \in Nat /\ Len(u) \in Nat /\ j + 0 <= Len(u) + 1
      BY <1>12, <1>15, <1>16
    <3>2. RectAt(s, 3, j)
      BY <2>2, Zenon
    <3> QED BY <2>3, <3>1, <3>2, RectPlaced
  <2>5. 3 + 0 = 3 /\ j + 0 = j
    BY <2>2
  <2> QED BY <2>4, <2>5
<1>18. j \in 1 .. Len(u) + 1 /\ Ends(u, Len(u) + 1) /\ Len(u) + 1 \in 1 .. Len(u) + 1
  BY <1>12, <1>15, <1>16 DEF Ends
<1>19. RestAt(u, 3, k)
  <2>1. CASE k = 1
    <3>1. j = Len(u) + 1
      BY <1>10, <1>12, <1>15, <1>16, <2>1
    <3> QED BY <1>17, <1>18, <2>1, <3>1 DEF RestAt, Rest1
  <2>2. CASE k = 2
    <3>1. RectAt(u, 1 + Len(s), (Len(r2) + 1) + Len(s))
      <4>1. RectAt(r2, 1, Len(r2) + 1)
        BY <1>10, <2>2, Zenon
      <4>2. /\ 1 \in Nat /\ Len(r2) + 1 \in Nat /\ Len(s) \in Nat /\ Len(r2) \in Nat /\ Len(u) \in Nat
            /\ (Len(r2) + 1) + Len(s) <= Len(u) + 1
        BY <1>12, <1>15
      <4>3. Same(r2, u, 1, Len(r2) + 1, Len(s))
        BY <1>15
      <4> QED BY <4>1, <4>2, <4>3, RectPlaced
    <3>2. RectAt(u, j, Len(u) + 1)
      BY <1>12, <1>15, <1>16, <3>1
    <3>3. Rest1(u, j)
      BY <1>18, <3>2 DEF Rest1
    <3> QED BY <1>17, <1>18, <2>2, <3>3 DEF RestAt, Rest2
  <2>3. CASE k = 3
    <3>1. u[j] = z /\ j = Len(u)
      <4>1. 1 + Len(s) = j /\ 1 \in 1 .. (Len(r2) + 1) - 1 /\ j = Len(u)
        <5>1. Len(r2) = 1
          BY <1>10, <2>3, Zenon
        <5> QED BY <1>12, <1>15, <1>16, <5>1
      <4>2. u[1 + Len(s)] = r2[1]
        BY <1>15, <4>1 DEF Same
      <4> QED BY <1>10, <2>3, <4>1, <4>2
    <3>2. LastAt(u, j)
      BY <1>9, <1>18, <3>1 DEF LastAt
    <3> QED BY <1>17, <1>18, <2>3, <3>2 DEF RestAt, Rest3
  <2> QED BY <1>10, <2>1, <2>2, <2>3
<1>20. u[1] = a /\ u[2] = c /\ Len(u) > 1
  BY <1>12, <1>15
<1>21. MessageAt(u, 1)
  <2>1. 1 + 1 = 2 /\ 1 + 2 = 3 /\ 1 < Len(u) /\ 1 + 1 <= Len(u) + 1
    BY <1>15, <1>20
  <2>2. u[1] = U("type", u[1].v) /\ u[1].v = "update" /\ u[2].t = "rects" /\ u[2].n \in 0 .. 3 /\ RestAt(u, 3, u[2].n)
    BY <1>2, <1>4, <1>10, <1>19, <1>20
  <2> QED BY <2>1, <2>2, Zenon DEF MessageAt
<1>22. NoTypes(u, 2, Len(u) + 1)
  <2>3. 2 \in Nat /\ 2 >= 1
    OBVIOUS
  <2>1. NoTypes(h, 2, Len(h) + 1)
    BY <1>4, <1>6 DEF NoTypes
  <2>2. NoTypes(s, 2, Len(s) + 1)
    BY <1>7, <1>11, <2>1, <2>3, NoTypesGlued, Zenon
  <2> QED BY <1>10, <1>13, <2>2, <2>3, NoTypesGlued, Zenon
<1> QED BY <1>2, <1>14, <1>15, <1>20, <1>21, <1>22 DEF Whole1

LEMMA ThreeSent ==
    ASSUME NEW a \in Unit, NEW b \in Unit, NEW c \in Unit, NEW s, s = <<a, b, c>>
    PROVE  s \in Seq(Unit) /\ Len(s) = 3 /\ s[1] = a /\ s[2] = b /\ s[3] = c
OBVIOUS

LEMMA ShortEnds ==
    ASSUME NEW u \in Seq(Unit), Len(u) > 0, \A k \in 2 .. Len(u) : u[k].t # "type"
    PROVE  /\ NoTypes(u, 2, Len(u) + 1)
           /\ 1 + 1 <= Len(u) + 1 /\ 1 + 1 = 2 /\ 1 + 2 = 3 /\ 1 + 3 = 4
           /\ (Len(u) = 1 => Ends(u, 1 + 1))
           /\ (Len(u) = 2 => Ends(u, 1 + 2) /\ 1 + 1 <= Len(u))
           /\ (Len(u) = 3 => Ends(u, 1 + 3) /\ 1 + 2 <= Len(u))
           /\ (Len(u) = 4 => Ends(u, 1 + 4) /\ 1 + 2 <= Len(u) /\ 1 + 3 <= Len(u))
<1>1. NoTypes(u, 2, Len(u) + 1)
  BY DEF NoTypes
<1>2. /\ (Len(u) = 1 => Ends(u, 1 + 1))
      /\ (Len(u) = 2 => Ends(u, 1 + 2) /\ 1 + 1 <= Len(u))
      /\ (Len(u) = 3 => Ends(u, 1 + 3) /\ 1 + 2 <= Len(u))
      /\ (Len(u) = 4 => Ends(u, 1 + 4) /\ 1 + 2 <= Len(u) /\ 1 + 3 <= Len(u))
  <2>1. PICK l : l = Len(u)
    OBVIOUS
  <2>2. Ends(u, l + 1)
    BY <2>1 DEF Ends
  <2>3. (l = 1 => l + 1 = 1 + 1) /\ (l = 2 => l + 1 = 1 + 2) /\ (l = 3 => l + 1 = 1 + 3) /\ (l = 4 => l + 1 = 1 + 4)
    OBVIOUS
  <2>4. (l = 2 => 1 + 1 <= l) /\ (l = 3 => 1 + 2 <= l) /\ (l = 4 => 1 + 2 <= l /\ 1 + 3 <= l)
    OBVIOUS
  <2> QED BY <2>1, <2>2, <2>3, <2>4, Zenon
<1> QED BY <1>1, <1>2

LEMMA ShortSent ==
    ASSUME NEW v \in Word, NEW u \in Seq(Unit), Len(u) > 0, u[1] = U("type", v), u[1].v = v,
           \A k \in 2 .. Len(u) : u[k].t # "type",
           \/ v = "cuttext" /\ Len(u) = 3 /\ u[2].t = "header" /\ u[2].v = "text" /\ u[3].t = "text" /\ u[3].v = ""
           \/ v = "cuttext" /\ Len(u) = 3 /\ u[2].t = "header" /\ u[2].v = "extended" /\ u[3].t = "flags"
                /\ u[3].v = "request"
           \/ /\ v = "cuttext" /\ Len(u) = 4 /\ u[2].t = "header" /\ u[2].v = "extended" /\ u[3].t = "flags"
              /\ u[3].v # "request" /\ u[4].t = "text"
           \/ v = "fence" /\ Len(u) = 3 /\ u[2].t = "header" /\ u[3].t = "payload"
           \/ v = "xvp" /\ Len(u) = 2 /\ u[2].t = "version"
           \/ v \in {"bell", "endofcontinuous"} /\ Len(u) = 1
    PROVE  Whole1(u, v)
<1>1. /\ NoTypes(u, 2, Len(u) + 1)
      /\ 1 + 1 <= Len(u) + 1 /\ 1 + 1 = 2 /\ 1 + 2 = 3 /\ 1 + 3 = 4
      /\ (Len(u) = 1 => Ends(u, 1 + 1))
      /\ (Len(u) = 2 => Ends(u, 1 + 2) /\ 1 + 1 <= Len(u))
      /\ (Len(u) = 3 => Ends(u, 1 + 3) /\ 1 + 2 <= Len(u))
      /\ (Len(u) = 4 => Ends(u, 1 + 4) /\ 1 + 2 <= Len(u) /\ 1 + 3 <= Len(u))
  BY ShortEnds, Zenon
<1>3. MessageAt(u, 1)
  <2>1. u[1] = U("type", u[1].v) /\ 1 + 1 <= Len(u) + 1 /\ 1 + 1 = 2 /\ 1 + 2 = 3 /\ 1 + 3 = 4
    BY <1>1, Zenon
  <2>2. CASE v = "cuttext" /\ Len(u) = 3 /\ u[2].t = "header" /\ u[2].v = "text" /\ u[3].t = "text" /\ u[3].v = ""
    <3>1. Ends(u, 1 + 3) /\ 1 + 2 <= Len(u) /\ u[3].v # "request"
      BY <1>1, <2>2, Zenon
    <3> QED BY <2>1, <2>2, <3>1, Zenon DEF MessageAt
  <2>3. CASE v = "cuttext" /\ Len(u) = 3 /\ u[2].t = "header" /\ u[2].v = "extended" /\ u[3].t = "flags"
               /\ u[3].v = "request"
    <3>1. Ends(u, 1 + 3) /\ 1 + 2 <= Len(u)
      BY <1>1, <2>3, Zenon
    <3> QED BY <2>1, <2>3, <3>1, Zenon DEF MessageAt
  <2>4. CASE /\ v = "cuttext" /\ Len(u) = 4 /\ u[2].t = "header" /\ u[2].v = "extended" /\ u[3].t = "flags"
             /\ u[3].v # "request" /\ u[4].t = "text"
    <3>1. Ends(u, 1 + 4) /\ 1 + 2 <= Len(u) /\ 1 + 3 <= Len(u)
      BY <1>1, <2>4, Zenon
    <3> QED BY <2>1, <2>4, <3>1, Zenon DEF MessageAt
  <2>5. CASE v = "fence" /\ Len(u) = 3 /\ u[2].t = "header" /\ u[3].t = "payload"
    <3>1. Ends(u, 1 + 3) /\ 1 + 2 <= Len(u)
      BY <1>1, <2>5, Zenon
    <3> QED BY <2>1, <2>5, <3>1, Zenon DEF MessageAt
  <2>6. CASE v = "xvp" /\ Len(u) = 2 /\ u[2].t = "version"
    <3>1. Ends(u, 1 + 2) /\ 1 + 1 <= Len(u)
      BY <1>1, <2>6, Zenon
    <3> QED BY <2>1, <2>6, <3>1, Zenon DEF MessageAt
  <2>7. CASE v \in {"bell", "endofcontinuous"} /\ Len(u) = 1
    <3>1. Ends(u, 1 + 1)
      BY <1>1, <2>7, Zenon
    <3> QED BY <2>1, <2>7, <3>1, Zenon DEF MessageAt
  <2> QED BY <2>2, <2>3, <2>4, <2>5, <2>6, <2>7
<1> QED BY <1>1, <1>3, Zenon DEF Whole1

LEMMA MessageSent ==
    ASSUME NEW m \in Messages, NEW u \in Message(m)
    PROVE  Whole1(u, m)
<1>1. m = "bell" \/ m = "xvp" \/ m = "fence" \/ m = "cuttext" \/ m = "endofcontinuous"
  BY StreamAssumption
<1>2. /\ "type" \in Word /\ "header" \in Word /\ "text" \in Word /\ "flags" \in Word /\ "payload" \in Word
      /\ "version" \in Word /\ "extended" \in Word
  BY DEF Word
<1>3. m \in Word
  <2>1. "bell" \in Word /\ "xvp" \in Word /\ "fence" \in Word /\ "cuttext" \in Word /\ "endofcontinuous" \in Word
    BY DEF Word
  <2> QED BY <1>1, <2>1, Zenon
<1>4. PICK a : a = U("type", m) /\ a \in Unit /\ a.t = "type" /\ a.v = m
  BY <1>2, <1>3, UnitHas
<1>5. PICK b : b = N("text", 0) /\ b \in Unit /\ b.t = "text" /\ b.v = ""
  <2>1. 0 \in Nat
    OBVIOUS
  <2>2. N("text", 0) \in Unit /\ N("text", 0).t = "text" /\ N("text", 0).v = ""
    BY <1>2, <2>1, Units
  <2> QED BY <2>2, Zenon
<1>6. CASE m \in {"bell", "endofcontinuous"}
  <2>1. u = <<a>>
    BY <1>4, <1>6 DEF Message
  <2>2. u \in Seq(Unit) /\ Len(u) = 1 /\ u[1] = a
    BY <1>4, <2>1, OneSent
  <2>3. Len(u) > 0 /\ \A k \in 2 .. Len(u) : u[k].t # "type"
    BY <2>2
  <2> QED BY <1>3, <1>4, <1>6, <2>2, <2>3, ShortSent, Zenon
<1>7. CASE m = "xvp"
  <2>1. PICK c : c = N("version", 0) /\ c \in Unit /\ c.t = "version"
    BY <1>2, NumberHas
  <2>2. u = <<a, c>>
    BY <1>4, <1>7, <2>1 DEF Message
  <2>3. u \in Seq(Unit) /\ Len(u) = 2 /\ u[1] = a /\ u[2] = c
    BY <1>4, <2>1, <2>2, TwoSent
  <2>4. Len(u) > 0 /\ \A k \in 2 .. Len(u) : u[k].t # "type"
    BY <2>1, <2>3
  <2> QED BY <1>3, <1>4, <1>7, <2>1, <2>3, <2>4, ShortSent, Zenon
<1>8. CASE m = "fence"
  <2>1. "fence" \in Word
    BY DEF Word
  <2>2. PICK c : c = U("header", "fence") /\ c \in Unit /\ c.t = "header" /\ c.v = "fence"
    BY <1>2, <2>1, UnitHas
  <2>3. PICK e : e = N("payload", 0) /\ e \in Unit /\ e.t = "payload"
    BY <1>2, NumberHas
  <2>4. u = <<a, c, e>>
    BY <1>4, <1>8, <2>2, <2>3 DEF Message
  <2>5. u \in Seq(Unit) /\ Len(u) = 3 /\ u[1] = a /\ u[2] = c /\ u[3] = e
    BY <1>4, <2>2, <2>3, <2>4
  <2>6. Len(u) > 0 /\ \A k \in 2 .. Len(u) : u[k].t # "type"
    BY <2>2, <2>3, <2>5
  <2> QED BY <1>3, <1>4, <1>8, <2>2, <2>3, <2>5, <2>6, ShortSent, Zenon
<1>9. CASE m = "cuttext"
  <2>1. PICK c : c = U("header", "text") /\ c \in Unit /\ c.t = "header" /\ c.v = "text"
    BY <1>2, UnitHas
  <2>2. PICK e : e = U("header", "extended") /\ e \in Unit /\ e.t = "header" /\ e.v = "extended"
    BY <1>2, UnitHas
  <2>3. \/ u = <<a, c, b>>
        \/ \E f \in {"caps", "request", "provide"} :
             u = <<a, e, U("flags", f)>> \o (IF f = "request" THEN <<>> ELSE <<b>>)
    <3>1. \/ u = <<U("type", m), U("header", "text"), N("text", 0)>>
          \/ \E f \in {"caps", "request", "provide"} :
               u = <<U("type", m), U("header", "extended"), U("flags", f)>>
                     \o (IF f = "request" THEN <<>> ELSE <<N("text", 0)>>)
      BY <1>9 DEF Message
    <3> QED BY <1>4, <1>5, <2>1, <2>2, <3>1, Zenon
  <2>4. CASE u = <<a, c, b>>
    <3>0. c.t # "type" /\ b.t # "type"
      BY <1>5, <2>1
    <3>1. u \in Seq(Unit) /\ Len(u) = 3 /\ u[1] = a /\ u[2] = c /\ u[3] = b
      BY <1>4, <1>5, <2>1, <2>4, <3>0, ThreeSent, Zenon
    <3>2. Len(u) > 0 /\ \A k \in 2 .. Len(u) : u[k].t # "type"
      <4>1. 2 .. Len(u) = 2 .. 3 /\ Len(u) > 0
        BY <3>1
      <4>2. ASSUME NEW k \in 2 .. 3 PROVE u[k].t # "type"
        <5>1. k = 2 \/ k = 3
          BY <4>2
        <5> QED BY <3>0, <3>1, <5>1
      <4> QED BY <4>1, <4>2, Zenon
    <3> QED BY <1>3, <1>4, <1>5, <1>9, <2>1, <3>1, <3>2, ShortSent, Zenon
  <2>5. ASSUME NEW f \in {"caps", "request", "provide"},
               u = <<a, e, U("flags", f)>> \o (IF f = "request" THEN <<>> ELSE <<b>>)
        PROVE  Whole1(u, m)
    <3>1. f \in Word
      <4>1. "caps" \in Word /\ "request" \in Word /\ "provide" \in Word
        BY DEF Word
      <4> QED BY <2>5, <4>1, Zenon
    <3>2. PICK g : g = U("flags", f) /\ g \in Unit /\ g.t = "flags" /\ g.v = f
      BY <1>2, <3>1, UnitHas
    <3>3. PICK h : h = <<a, e, g>>
      OBVIOUS
    <3>4. h \in Seq(Unit) /\ Len(h) = 3 /\ h[1] = a /\ h[2] = e /\ h[3] = g
      BY <1>4, <2>2, <3>2, <3>3
    <3>5. CASE f = "request"
      <4>1. u = h
        <5>1. u = h \o <<>>
          BY <2>5, <3>2, <3>3, <3>5, Zenon
        <5> QED BY <3>4, <5>1, ConcatEmptySeq
      <4>2. Len(h) > 0 /\ \A k \in 2 .. Len(h) : h[k].t # "type"
        BY <2>2, <3>2, <3>4
      <4>3. Whole1(h, m)
        BY <1>3, <1>4, <1>9, <2>2, <3>2, <3>4, <3>5, <4>2, ShortSent, Zenon
      <4> QED BY <4>1, <4>3
    <3>6. CASE f # "request"
      <4>1. PICK k : k = <<b>>
        OBVIOUS
      <4>2. k \in Seq(Unit) /\ Len(k) = 1 /\ k[1] = b
        BY <1>5, <4>1, OneSent
      <4>3. PICK s : s = h \o k /\ Glued(h, k, s)
        BY <3>4, <4>2, Glue
      <4>4. s = u
        BY <2>5, <3>2, <3>3, <3>6, <4>1, <4>3, Zenon
      <4>5. s \in Seq(Unit) /\ Len(s) = 4 /\ s[1] = a /\ s[2] = e /\ s[3] = g /\ s[4] = b
        <5>1. /\ s \in Seq(Unit) /\ Len(s) = Len(h) + Len(k) /\ \A i \in 1 .. Len(h) : s[i] = h[i]
              /\ \A i \in 1 .. (Len(k) + 1) - 1 : s[i + Len(h)] = k[i]
          BY <4>3, Zenon DEF Glued, Same
        <5> QED BY <3>4, <4>2, <5>1
      <4>6. Len(s) > 0 /\ \A i \in 2 .. Len(s) : s[i].t # "type"
        <5>1. e.t # "type" /\ g.t # "type" /\ b.t # "type"
          BY <1>5, <2>2, <3>2
        <5>2. ASSUME NEW i \in 2 .. 4 PROVE s[i].t # "type"
          <6>1. i = 2 \/ i = 3 \/ i = 4
            BY <5>2
          <6> QED BY <4>5, <5>1, <6>1
        <5>3. 2 .. Len(s) = 2 .. 4 /\ Len(s) > 0
          BY <4>5
        <5> QED BY <5>2, <5>3, Zenon
      <4>7. Whole1(s, m)
        BY <1>3, <1>4, <1>5, <1>9, <2>2, <3>2, <3>6, <4>5, <4>6, ShortSent, Zenon
      <4> QED BY <4>4, <4>7
    <3> QED BY <3>5, <3>6
  <2> QED BY <2>3, <2>4, <2>5
<1> QED BY <1>1, <1>6, <1>7, <1>8, <1>9

(***************************************************************************)
(* A message is added at the end of the stream.                             *)
(***************************************************************************)
LEMMA SendStep ==
    ASSUME StreamInv, NEW u, NEW v, Whole1(u, v), Send(u), srv' \in Server,
           \/ /\ v = "update" /\ (srv.asked > 0 \/ p.cont) /\ srv'.ends = srv.ends
              /\ p.cont \/ srv'.asked = srv.asked - 1
              /\ srv'.lost = srv.lost
           \/ v # "update" /\ srv'.asked = srv.asked /\ srv'.lost = srv.lost /\ (srv'.ends <=> srv.ends \/ v = "endofcontinuous")
    PROVE  StreamInv'
<1>1. /\ Typed /\ Memory(p) /\ Reading(p, Stream) /\ Whole(Stream) /\ AskedOnce(p, Stream) /\ Announced(p, Stream)
      /\ Resting
  BY DEF StreamInv
<1>2. wire' = wire \o u /\ p' = p /\ q' = q /\ at' = at
  BY DEF Send
<1>3. q \in Seq(Unit) /\ wire \in Seq(Unit) /\ Stream \in Seq(Unit) /\ Len(Stream) \in Nat /\ p \in Parser
  BY <1>1, StreamFields DEF Typed
<1>4. /\ u \in Seq(Unit) /\ Len(u) > 0 /\ u[1] = U("type", v) /\ u[1].v = v
      /\ MessageAt(u, 1) /\ NoTypes(u, 2, Len(u) + 1)
  BY DEF Whole1
<1>5. PICK s, t : s = Stream /\ t = Stream'
  OBVIOUS
<1>6. t = s \o u
  <2>1. (q \o wire) \o u = q \o (wire \o u)
    <3>1. q \in Seq(Unit) /\ wire \in Seq(Unit) /\ u \in Seq(Unit)
      BY <1>3, <1>4, Zenon
    <3> QED BY ONLY <3>1, Associates
  <2>2. s = q \o wire
    BY <1>5, Zenon DEF Stream
  <2>3. t = q' \o wire'
    BY <1>5, Zenon DEF Stream
  <2>4. t = q \o (wire \o u)
    BY ONLY <1>2, <2>3
  <2> QED BY <2>1, <2>2, <2>4, Zenon
<1>7. Glued(s, u, t)
  <2>1. s \in Seq(Unit)
    BY <1>3, <1>5
  <2>2. PICK z : z = s \o u /\ Glued(s, u, z)
    BY <1>4, <2>1, Glue
  <2> QED BY <1>6, <2>2, Zenon
<1>8. PICK n : n = Len(s)
  OBVIOUS
<1>9. /\ n \in Nat /\ Len(t) = n + Len(u) /\ Len(u) \in Nat /\ Len(t) \in Nat
      /\ \A k \in 1 .. n : t[k] = s[k]
      /\ \A k \in 1 .. Len(u) : t[k + n] = u[k]
  BY <1>7, <1>8 DEF Glued, Same
<1>10. t[n + 1] = u[1] /\ u[1].t = "type" /\ n + 1 \in 1 .. Len(t) /\ Len(t) > n
  <2>1. 1 \in 1 .. Len(u) /\ 1 + n = n + 1
    BY <1>4, <1>9
  <2>2. t[n + 1] = u[1]
    BY <1>9, <2>1
  <2>3. u[1].t = "type"
    BY <1>4 DEF U
  <2> QED BY <1>4, <1>9, <2>2, <2>3
<1>11. Added(s, t)
  BY <1>8, <1>9, <1>10 DEF Added
<1>12. GoesOn(s, t, 1, 0)
  BY <1>11, AddedGoesOn
<1>13. \A i \in Nat : i >= 1 => \A r : RestAt(s, i, r) => RestAt(t, i, r)
  <2>1. SUFFICES ASSUME NEW i \in Nat, i >= 1, NEW r, RestAt(s, i, r) PROVE RestAt(t, i, r)
    OBVIOUS
  <2>2. RestAt(t, i + 0, r)
    BY <1>12, <2>1, RestMoves
  <2> QED BY <2>2
<1>14. Reading(p, t)
  <2>1. Reading(p, s)
    BY <1>1, <1>5
  <2>2. Ends(s, 1) => Ends(t, 1)
    <3>1. Ends(s, 1) => Ends(t, 1 + 0)
      BY <1>12, EndsMove
    <3> QED BY <3>1
  <2>3. RestAt(s, 1, p.rects) => RestAt(t, 1, p.rects)
    BY <1>13
  <2>4. ASSUME NEW j \in 1 .. n + 1, BodyAt(s, 1, j, p), RestAt(s, j, p.rects - 1)
        PROVE  j \in 1 .. Len(t) + 1 /\ BodyAt(t, 1, j, p) /\ RestAt(t, j, p.rects - 1)
    <3>1. j \in Nat /\ j >= 1 /\ j \in 1 .. Len(t) + 1 /\ j + 0 <= Len(t) + 1 /\ j + 0 = j /\ 1 + 0 = 1
      BY <1>9, <1>10
    <3>2. p.left \in Nat /\ p.length \in BOOLEAN
      BY <1>3 DEF Parser
    <3>3. Same(s, t, 1, j, 0)
      <4>1. \A k \in 1 .. j - 1 : k \in 1 .. n /\ k + 0 = k
        BY <1>9
      <4> QED BY <1>9, <4>1 DEF Same
    <3>4. BodyAt(t, 1 + 0, j + 0, p)
      <4>1. 1 \in Nat /\ 0 \in Int /\ 1 + 0 \in Nat /\ Len(s) \in Nat /\ Len(t) \in Nat
        BY <1>8, <1>9
      <4> QED BY <2>4, <3>1, <3>2, <3>3, <4>1, BodyMoves
    <3>5. BodyAt(t, 1, j, p)
      BY <3>1, <3>4
    <3> QED BY <1>13, <2>4, <3>1, <3>5
  <2> QED BY <1>8, <2>1, <2>2, <2>3, <2>4, Zenon DEF Reading
<1>15. Whole(t)
  <2>1. MessageAt(t, n + 1) /\ NoTypes(t, n + 2, Len(t) + 1)
    <3>1. GoesOn(u, t, 1, n)
      <4>1. \A k \in 1 .. Len(u) : t[k + n] = u[k]
        BY <1>9
      <4>2. Len(u) \in Nat /\ Len(t) \in Nat /\ 1 \in Nat \ {0} /\ 1 + n \in Nat \ {0} /\ n \in Int /\ Len(t) = Len(u) + n
        BY <1>9
      <4> QED BY <4>1, <4>2 DEF GoesOn
    <3>2. MessageAt(t, 1 + n)
      BY <1>4, <3>1, MessageMoves
    <3>3. 1 + n = n + 1
      BY <1>9
    <3>4. NoTypes(t, n + 2, Len(t) + 1)
      <4>1. ASSUME NEW k \in n + 2 .. (Len(t) + 1) - 1 PROVE t[k].t # "type"
        <5>1. /\ k - n \in 2 .. (Len(u) + 1) - 1 /\ k - n \in 1 .. Len(u) /\ (k - n) + n = k
          BY <1>9
        <5> QED BY <1>4, <1>9, <5>1 DEF NoTypes
      <4> QED BY <4>1 DEF NoTypes
    <3> QED BY <3>2, <3>3, <3>4
  <2>2. Whole(s)
    BY <1>1, <1>5
  <2> QED BY <1>8, <1>11, <2>1, <2>2, WholeStays
<1>16. \A k \in 1 .. Len(t) : k = n + 1 \/ (k \in 1 .. n /\ t[k] = s[k]) \/ (k # n + 1 /\ t[k].t # "type")
  <2>1. SUFFICES ASSUME NEW k \in 1 .. Len(t), k # n + 1, ~(k \in 1 .. n) PROVE t[k].t # "type"
    BY <1>9
  <2>2. k - n \in 2 .. (Len(u) + 1) - 1 /\ k - n \in 1 .. Len(u) /\ (k - n) + n = k
    BY <1>9, <2>1
  <2> QED BY <1>4, <1>9, <2>2 DEF NoTypes
<1>17. \A k \in 1 .. Len(t) : \A w : t[k] = U("type", w) => (k = n + 1 /\ w = v) \/ (k \in 1 .. n /\ s[k] = U("type", w))
  <2>1. \A w : U("type", w).t = "type" /\ U("type", w).v = w
    BY DEF U
  <2> QED BY <1>4, <1>10, <1>16, <2>1
<1>18. AskedOnce(p, t)'
  <2>1. AskedOnce(p, s)
    BY <1>1, <1>5
  <2>2. CASE srv.ends
    BY <2>2 DEF AskedOnce
  <2>3. CASE ~srv.ends /\ v # "update"
    <3>1. Ups(t) = Ups(s)
      <4>1. ASSUME NEW k \in Ups(t) PROVE k \in Ups(s)
        BY <1>8, <1>17, <2>3, <4>1 DEF Ups
      <4>2. ASSUME NEW k \in Ups(s) PROVE k \in Ups(t)
        BY <1>8, <1>9, <4>2 DEF Ups
      <4> QED BY <4>1, <4>2
    <3>2. srv'.asked = srv.asked /\ srv'.lost = srv.lost /\ 1 .. Len(s) \subseteq 1 .. Len(t)
      BY <1>8, <1>9, <2>3
    <3> QED BY <1>2, <2>1, <2>3, <3>1, <3>2 DEF AskedOnce
  <2>4. CASE ~srv.ends /\ v = "update"
    <3>1. p.cont = FALSE
      BY <1>1, <1>3, <2>4 DEF Announced, Parser
    <3>2. srv.asked > 0 /\ srv'.asked = srv.asked - 1
      BY <2>4, <3>1
    <3>3. srv.asked = 1 /\ srv.lost = 0 /\ p.rects = 0 /\ Ups(s) = {}
      BY <2>1, <2>4, <3>2 DEF AskedOnce
    <3>4. Ups(t) = {n + 1}
      <4>1. ASSUME NEW k \in Ups(t) PROVE k = n + 1
        BY <1>8, <1>17, <3>3, <4>1 DEF Ups
      <4>2. n + 1 \in Ups(t)
        BY <1>4, <1>10, <2>4 DEF Ups
      <4> QED BY <4>1, <4>2
    <3>5. srv'.asked = 0 /\ srv'.lost = 0
      BY <2>4, <3>2, <3>3
    <3> QED BY <1>2, <1>10, <3>3, <3>4, <3>5 DEF AskedOnce
  <2> QED BY <2>2, <2>3, <2>4
<1>19. Announced(p, t)'
  <2>1. Announced(p, s)
    BY <1>1, <1>5
  <2>2. srv.ends => srv'.ends
    OBVIOUS
  <2>3. ASSUME NEW k \in 1 .. Len(t), t[k] = U("type", "endofcontinuous") PROVE srv'.ends
    BY <1>8, <1>17, <2>1, <2>2, <2>3 DEF Announced
  <2> QED BY <1>2, <2>1, <2>2, <2>3 DEF Announced
<1>20. Typed'
  <2>1. wire' \in Seq(Unit)
    BY <1>2, <1>3, <1>4, ConcatProperties
  <2> QED BY <1>1, <1>2, <2>1 DEF Typed
<1>21. Pushed'
  <2>1. wire' # <<>>
    BY <1>2, <1>3, <1>4
  <2> QED BY <2>1 DEF Pushed
<1>22. Memory(p') /\ Resting'
  BY <1>1, <1>2 DEF Resting
<1>23. Reading(p', t) /\ Whole(t)
  BY <1>2, <1>14, <1>15
<1> QED BY <1>5, <1>18, <1>19, <1>20, <1>21, <1>22, <1>23 DEF StreamInv

LEMMA ServerUpdatesKeeps ==
    ASSUME StreamInv, ServerUpdates
    PROVE  StreamInv'
<1>20. PICK n \in 1 .. 2 : \E e1 \in Encodings, e2 \in (IF n = 1 THEN {"last"} ELSE Encodings) :
        \E r1 \in Rects(e1), r2 \in (IF n = 1 THEN {<<>>, Rect("last", 1, <<>>)} ELSE Rects(e2)) :
          /\ srv.rects + n <= MaxRects
          /\ srv' = [srv EXCEPT !.msgs = @ + 1, !.rects = @ + n, !.asked = IF p.cont THEN @ ELSE @ - 1,
                                !.tables = @ \/ HasTables(r1 \o r2)]
          /\ Send(<<U("type", "update"), N("rects", IF r2 # <<>> /\ n = 1 THEN 3 ELSE n)>> \o r1 \o r2)
  BY Zenon DEF ServerUpdates
<1>21. PICK e1 \in Encodings, e2 \in (IF n = 1 THEN {"last"} ELSE Encodings) :
        \E r1 \in Rects(e1), r2 \in (IF n = 1 THEN {<<>>, Rect("last", 1, <<>>)} ELSE Rects(e2)) :
          /\ srv.rects + n <= MaxRects
          /\ srv' = [srv EXCEPT !.msgs = @ + 1, !.rects = @ + n, !.asked = IF p.cont THEN @ ELSE @ - 1,
                                !.tables = @ \/ HasTables(r1 \o r2)]
          /\ Send(<<U("type", "update"), N("rects", IF r2 # <<>> /\ n = 1 THEN 3 ELSE n)>> \o r1 \o r2)
  BY <1>20, Zenon
<1>1. PICK r1 \in Rects(e1), r2 \in (IF n = 1 THEN {<<>>, Rect("last", 1, <<>>)} ELSE Rects(e2)) :
        /\ srv.rects + n <= MaxRects
        /\ srv' = [srv EXCEPT !.msgs = @ + 1, !.rects = @ + n, !.asked = IF p.cont THEN @ ELSE @ - 1,
                              !.tables = @ \/ HasTables(r1 \o r2)]
        /\ Send(<<U("type", "update"), N("rects", IF r2 # <<>> /\ n = 1 THEN 3 ELSE n)>> \o r1 \o r2)
  BY <1>21, Zenon
<1>2. srv.asked > 0 \/ p.cont
  BY DEF ServerUpdates
<1>3. PICK k : k = IF r2 # <<>> /\ n = 1 THEN 3 ELSE n
  OBVIOUS
<1>4. Rectangle(r1)
  BY <1>1, <1>21, RectSent
<1>5. \/ k = 1 /\ r2 = <<>>
      \/ k = 3 /\ r2 = Rect("last", 1, <<>>)
      \/ k = 2 /\ Rectangle(r2)
  <2>1. CASE n = 1
    <3>1. r2 = <<>> \/ r2 = Rect("last", 1, <<>>)
      BY <1>1, <2>1, Zenon
    <3>2. (r2 = <<>> => k = n) /\ (r2 # <<>> => k = 3)
      BY <1>3, <2>1, Zenon
    <3> QED BY <2>1, <3>1, <3>2, Zenon
  <2>2. CASE n = 2
    <3>1. n # 1
      BY <2>2
    <3>2. e2 \in Encodings /\ r2 \in Rects(e2)
      BY <1>1, <1>21, <3>1, Zenon
    <3>3. k = n
      BY <1>3, <3>1, Zenon
    <3> QED BY <2>2, <3>2, <3>3, RectSent, Zenon
  <2>3. n = 1 \/ n = 2
    BY <1>20
  <2> QED BY <2>1, <2>2, <2>3
<1>6. PICK u : u = <<U("type", "update"), N("rects", k)>> \o r1 \o r2
  OBVIOUS
<1>7. Whole1(u, "update")
  BY <1>4, <1>5, <1>6, UpdateSent, Zenon
<1>8. Send(u)
  BY <1>1, <1>3, <1>6, Zenon
<1>9. srv \in Server /\ p.cont \in BOOLEAN
  BY DEF StreamInv, Typed, Parser
<1>10. PICK t : t = (srv.tables \/ HasTables(r1 \o r2))
  OBVIOUS
<1>11. t \in BOOLEAN
  BY <1>10, Zenon
<1>12. PICK a : a = IF p.cont THEN srv.asked ELSE srv.asked - 1
  OBVIOUS
<1>13. a \in Nat /\ (p.cont \/ a = srv.asked - 1)
  <2>1. srv.asked \in Nat
    BY <1>9 DEF Server
  <2>2. CASE p.cont
    BY <1>12, <2>1, <2>2
  <2>3. CASE ~p.cont
    BY <1>2, <1>12, <2>1, <2>3
  <2> QED BY <2>2, <2>3
<1>14. srv' = [srv EXCEPT !.msgs = srv.msgs + 1, !.rects = srv.rects + n, !.asked = a, !.tables = t]
  BY <1>1, <1>10, <1>12, Zenon
<1>15. srv' \in Server /\ srv'.ends = srv.ends /\ srv'.asked = a /\ srv'.lost = srv.lost
  <2>1. PICK m, r : m = srv.msgs + 1 /\ r = srv.rects + n
    OBVIOUS
  <2>2. m \in Nat /\ r \in Nat
    BY <1>9, <1>20, <2>1 DEF Server
  <2>3. PICK s0 : s0 = [srv EXCEPT !.msgs = m]
    OBVIOUS
  <2>4. s0 \in Server /\ s0.ends = srv.ends /\ s0.lost = srv.lost
    BY ONLY <1>9, <2>2, <2>3 DEF Server
  <2>5. PICK s1 : s1 = [s0 EXCEPT !.rects = r]
    OBVIOUS
  <2>6. s1 \in Server /\ s1.ends = s0.ends /\ s1.lost = s0.lost
    BY ONLY <2>2, <2>4, <2>5 DEF Server
  <2>7. PICK s2 : s2 = [s1 EXCEPT !.asked = a]
    OBVIOUS
  <2>8. s2 \in Server /\ s2.ends = s1.ends /\ s2.asked = a /\ s2.lost = s1.lost
    BY ONLY <1>13, <2>6, <2>7 DEF Server
  <2>9. srv' = [s2 EXCEPT !.tables = t]
    BY ONLY <1>14, <2>1, <2>3, <2>5, <2>7, <1>9 DEF Server
  <2>10. srv' \in Server /\ srv'.ends = s2.ends /\ srv'.asked = s2.asked /\ srv'.lost = s2.lost
    BY ONLY <1>11, <2>8, <2>9 DEF Server
  <2> QED BY <2>4, <2>6, <2>8, <2>10, Zenon
<1> QED BY <1>2, <1>7, <1>8, <1>13, <1>15, SendStep, Zenon

LEMMA EmptySent ==
    ASSUME NEW k \in 0 .. 3, NEW r,
           \/ k = 0 /\ r = <<>>
           \/ k = 3 /\ r = Rect("last", 1, <<>>)
    PROVE  Whole1(<<U("type", "update"), N("rects", k)>> \o r, "update")
<1>1. "type" \in Word /\ "update" \in Word /\ "rects" \in Word /\ "rect" \in Word /\ "last" \in Word /\ k \in 0 .. 3
  BY DEF Word
<1>2. PICK a : a = U("type", "update") /\ a \in Unit /\ a.t = "type" /\ a.v = "update"
  BY <1>1, UnitHas
<1>3. PICK c : c = N("rects", k)
  OBVIOUS
<1>4. c \in Unit /\ c.t = "rects" /\ c.n = k
  <2>1. "rects" \in Word /\ k \in Nat
    BY <1>1
  <2>2. N("rects", k) \in Unit /\ N("rects", k).t = "rects" /\ N("rects", k).n = k
    BY ONLY <2>1, Units
  <2> QED BY <1>3, <2>2, Zenon
<1>5. PICK h : h = <<a, c>>
  OBVIOUS
<1>6. h \in Seq(Unit) /\ Len(h) = 2 /\ h[1] = a /\ h[2] = c
  BY <1>2, <1>4, <1>5, TwoSent
<1>7. PICK z : z = [t |-> "rect", v |-> "last", n |-> 1]
  OBVIOUS
<1>8. z \in Unit /\ z.t = "rect" /\ z.v = "last"
  BY <1>1, <1>7 DEF Unit
<1>9. r \in Seq(Unit) /\ (\/ k = 0 /\ Len(r) = 0
                          \/ k = 3 /\ Len(r) = 1 /\ r[1] = z)
  <2>1. CASE k = 0 /\ r = <<>>
    BY <2>1
  <2>2. CASE k = 3 /\ r = Rect("last", 1, <<>>)
    <3>1. PICK g : g = <<z>>
      OBVIOUS
    <3>2. g \in Seq(Unit) /\ Len(g) = 1 /\ g[1] = z
      BY <1>8, <3>1, OneSent
    <3>3. g \o <<>> = g
      BY <3>2, ConcatEmptySeq
    <3>4. r = g
      BY <1>7, <2>2, <3>1, <3>3, Zenon DEF Rect
    <3> QED BY <2>2, <3>2, <3>4, Zenon
  <2> QED BY <2>1, <2>2
<1>10. PICK u : u = h \o r
  OBVIOUS
<1>11. /\ u \in Seq(Unit) /\ Len(u) = Len(h) + Len(r)
       /\ \A i \in 1 .. Len(h) : u[i] = h[i]
       /\ \A i \in 1 .. Len(r) : u[i + Len(h)] = r[i]
  <2>1. h \in Seq(Unit) /\ r \in Seq(Unit)
    BY <1>6, <1>9
  <2> QED BY ONLY <1>10, <2>1, Joined
<1>12. /\ u \in Seq(Unit) /\ Len(u) = 2 + Len(r) /\ u[1] = a /\ u[2] = c
       /\ k = 3 => u[3] = z
  <2>1. /\ u \in Seq(Unit) /\ Len(u) = Len(h) + Len(r)
        /\ \A i \in 1 .. Len(h) : u[i] = h[i]
        /\ \A i \in 1 .. Len(r) : u[i + Len(h)] = r[i]
    BY <1>11
  <2>2. 1 \in 1 .. 2 /\ 2 \in 1 .. 2 /\ 1 \in 1 .. 1 /\ 1 + 2 = 3
    OBVIOUS
  <2>3. u[1] = a /\ u[2] = c
    BY <1>6, <2>1, <2>2
  <2>4. ASSUME k = 3 PROVE u[3] = z
    <3>1. Len(r) = 1 /\ r[1] = z
      BY <1>9, <2>4
    <3>2. u[1 + Len(h)] = r[1]
      BY <2>1, <2>2, <3>1
    <3> QED BY <1>6, <2>2, <3>1, <3>2
  <2>5. Len(u) = 2 + Len(r)
    BY <1>6, <2>1
  <2> QED BY <2>1, <2>3, <2>4, <2>5
<1>13. RestAt(u, 1 + 2, k)
  <2>1. CASE k = 0
    <3>1. 1 + 2 = Len(u) + 1
      BY <1>9, <1>12, <2>1
    <3>2. Ends(u, 1 + 2)
      BY <3>1, Zenon DEF Ends
    <3> QED BY <2>1, <3>2, Zenon DEF RestAt, Rest0
  <2>2. CASE k = 3
    <3>1. Len(u) = 3 /\ u[3] = z /\ 1 + 2 = 3 /\ 3 <= Len(u) /\ 3 + 1 = Len(u) + 1
      <4>1. Len(r) = 1
        BY <1>9, <2>2
      <4>2. Len(u) = 2 + 1 /\ u[3] = z
        BY <1>12, <2>2, <4>1
      <4> QED BY <4>2
    <3>2. Ends(u, 3 + 1)
      BY <3>1, Zenon DEF Ends
    <3>3. LastAt(u, 3)
      BY <1>8, <3>1, <3>2, Zenon DEF LastAt
    <3>4. Rest3(u, 1 + 2)
      BY <3>1, <3>3, Zenon DEF Rest3
    <3> QED BY <2>2, <3>4, Zenon DEF RestAt
  <2> QED BY <1>9, <2>1, <2>2
<1>14. MessageAt(u, 1)
  <2>1. 1 < Len(u) /\ 1 + 1 <= Len(u) + 1 /\ 1 + 1 = 2
    BY <1>9, <1>12
  <2>2. u[1] = U("type", u[1].v) /\ u[1].v = "update" /\ u[1 + 1].t = "rects" /\ u[1 + 1].n = k
    BY <1>2, <1>4, <1>12
  <2> QED BY <1>1, <1>13, <2>1, <2>2, Zenon DEF MessageAt
<1>15. NoTypes(u, 2, Len(u) + 1)
  <2>1. \A i \in 2 .. Len(u) : i = 2 \/ (i = 3 /\ k = 3)
    <3>1. PICK l : l = Len(u)
      OBVIOUS
    <3>2. PICK n : n = Len(r)
      OBVIOUS
    <3>3. ((k = 0 /\ n = 0) \/ (k = 3 /\ n = 1)) /\ l = 2 + n
      BY <1>9, <1>12, <3>1, <3>2, Zenon
    <3>4. \A i \in 2 .. l : i = 2 \/ (i = 3 /\ k = 3)
      BY ONLY <3>3
    <3> QED BY <3>1, <3>4
  <2>2. \A i \in 2 .. Len(u) : u[i].t # "type"
    BY <1>4, <1>8, <1>12, <2>1
  <2> QED BY <1>9, <1>12, <2>2 DEF NoTypes
<1>16. Len(u) > 0 /\ u[1] = U("type", "update") /\ u[1].v = "update"
  BY <1>2, <1>9, <1>12
<1>17. Whole1(u, "update")
  BY <1>12, <1>14, <1>15, <1>16, Zenon DEF Whole1
<1> QED BY <1>2, <1>3, <1>5, <1>10, <1>17, Zenon

LEMMA ServerEmptyUpdateKeeps ==
    ASSUME StreamInv, ServerEmptyUpdate
    PROVE  StreamInv'
<1>1. PICK r \in {<<>>, Rect("last", 1, <<>>)} :
        Send(<<U("type", "update"), N("rects", IF r = <<>> THEN 0 ELSE 3)>> \o r)
  BY DEF ServerEmptyUpdate
<1>2. PICK k, s : k = (IF r = <<>> THEN 0 ELSE 3) /\ s = <<U("type", "update"), N("rects", k)>> \o r
  OBVIOUS
<1>3. Whole1(s, "update") /\ Send(s)
  <2>1. (k = 0 /\ r = <<>>) \/ (k = 3 /\ r = Rect("last", 1, <<>>))
    BY <1>1, <1>2, Zenon
  <2>2. 0 \in 0 .. 3 /\ 3 \in 0 .. 3
    OBVIOUS
  <2>3. k \in 0 .. 3
    BY <2>1, <2>2, Zenon
  <2>4. Whole1(s, "update")
    BY <1>2, <2>1, <2>3, EmptySent, Zenon
  <2> QED BY <1>1, <1>2, <2>4, Zenon
<1>4. srv \in Server /\ p.cont \in BOOLEAN
  BY DEF StreamInv, Typed, Parser
<1>5. srv.asked > 0 \/ p.cont
  BY DEF ServerEmptyUpdate
<1>6. PICK m, a : m = srv.msgs + 1 /\ a = IF p.cont THEN srv.asked ELSE srv.asked - 1
  OBVIOUS
<1>7. m \in Nat /\ a \in Nat /\ (p.cont \/ a = srv.asked - 1)
  <2>1. srv.asked \in Nat /\ srv.msgs \in Nat
    BY <1>4 DEF Server
  <2> QED BY <1>5, <1>6, <2>1
<1>8. PICK x : x = [srv EXCEPT !.msgs = m]
  OBVIOUS
<1>9. x \in Server /\ x.ends = srv.ends /\ x.lost = srv.lost
  BY ONLY <1>4, <1>7, <1>8 DEF Server
<1>10. srv' = [srv EXCEPT !.msgs = m, !.asked = a]
  BY <1>6 DEF ServerEmptyUpdate
<1>11. srv' = [x EXCEPT !.asked = a]
  BY ONLY <1>4, <1>8, <1>10 DEF Server
<1>12. srv' \in Server /\ srv'.ends = x.ends /\ srv'.asked = a /\ srv'.lost = x.lost
  BY ONLY <1>7, <1>9, <1>11 DEF Server
<1> QED BY <1>3, <1>5, <1>7, <1>9, <1>12, SendStep, Zenon

LEMMA ServerMessageKeeps ==
    ASSUME StreamInv, ServerMessage
    PROVE  StreamInv'
<1>20. PICK m \in Messages : \E u \in Message(m) :
        srv' = [srv EXCEPT !.msgs = @ + 1, !.ends = @ \/ m = "endofcontinuous"] /\ Send(u)
  BY Zenon DEF ServerMessage
<1>1. PICK u \in Message(m) :
        srv' = [srv EXCEPT !.msgs = @ + 1, !.ends = @ \/ m = "endofcontinuous"] /\ Send(u)
  BY <1>20, Zenon
<1>2. Whole1(u, m)
  BY <1>1, <1>20, MessageSent
<1>3. m # "update"
  BY <1>20, StreamAssumption
<1>4. srv \in Server
  BY DEF StreamInv, Typed
<1>5. PICK b : b = (srv.ends \/ m = "endofcontinuous")
  OBVIOUS
<1>6. b \in BOOLEAN
  BY <1>5, Zenon
<1>7. srv' = [srv EXCEPT !.msgs = srv.msgs + 1, !.ends = b]
  BY <1>1, <1>5, Zenon
<1>8. srv' \in Server /\ srv'.ends = b /\ srv'.asked = srv.asked /\ srv'.lost = srv.lost
  <2>1. PICK n : n = srv.msgs + 1
    OBVIOUS
  <2>2. n \in Nat
    BY <1>4, <2>1 DEF Server
  <2>3. PICK s0 : s0 = [srv EXCEPT !.msgs = n]
    OBVIOUS
  <2>4. s0 \in Server /\ s0.asked = srv.asked /\ s0.lost = srv.lost
    BY ONLY <1>4, <2>2, <2>3 DEF Server
  <2>5. srv' = [s0 EXCEPT !.ends = b]
    BY ONLY <1>4, <1>7, <2>1, <2>3 DEF Server
  <2> QED BY ONLY <1>6, <2>4, <2>5 DEF Server
<1>9. srv'.ends <=> srv.ends \/ m = "endofcontinuous"
  BY <1>5, <1>8, Zenon
<1> QED BY <1>1, <1>2, <1>3, <1>8, <1>9, SendStep, Zenon

LEMMA InitStream == Init => StreamInv
<1> SUFFICES ASSUME Init PROVE StreamInv
  OBVIOUS
<1>1. p = PInit /\ q = <<>> /\ wire = <<>> /\ at = "idle"
  BY DEF Init
<1>2. srv = [asked |-> 1, msgs |-> 0, rects |-> 0, tables |-> FALSE, ends |-> FALSE, lost |-> 0]
  BY DEF Init
<1>3. p \in Parser
  <2>1. "" \in Word
    BY DEF Word
  <2>2. PICK r : r = <<>>
    OBVIOUS
  <2>3. PICK e : e = {}
    OBVIOUS
  <2>4. r \in {<<>>} \cup (Word \X Nat) /\ e \in SUBSET Word
    BY ONLY <2>2, <2>3, Zenon
  <2>5. 0 \in 0 .. 3 /\ 0 \in Nat
    OBVIOUS
  <2>6. p = [rects |-> 0, rect |-> r, frame |-> 0, flushing |-> FALSE, cont |-> FALSE, left |-> 0,
             rawtile |-> FALSE, length |-> FALSE, ctl |-> "", filter |-> "", colors |-> 0, segs |-> e,
             tables |-> FALSE, h264 |-> FALSE]
    BY <1>1, <2>2, <2>3, Zenon DEF PInit
  <2> QED BY ONLY <2>1, <2>4, <2>5, <2>6 DEF Parser
<1>4. /\ p.rects = 0 /\ p.rect = <<>> /\ p.flushing = FALSE /\ p.cont = FALSE /\ p.left = 0 /\ p.length = FALSE
      /\ p.ctl = "" /\ p.filter = "" /\ p.colors = 0 /\ p.segs = {}
  BY <1>1 DEF PInit
<1>5. srv \in Server /\ srv.asked = 1 /\ srv.ends = FALSE /\ srv.lost = 0
  BY <1>2 DEF Server
<1>6. Typed
  <2>1. <<>> \in Seq(Unit)
    OBVIOUS
  <2> QED BY <1>1, <1>3, <1>5, <2>1 DEF Typed
<1>7. Stream = <<>> /\ Len(Stream) = 0
  BY <1>1 DEF Stream
<1>8. Clean(p)
  BY <1>4 DEF Clean
<1>9. Memory(p)
  BY <1>4, <1>8, Zenon DEF Memory
<1>10. Ends(Stream, 1)
  BY <1>7 DEF Ends
<1>11. Reading(p, Stream)
  <2>1. RestAt(Stream, 1, 0)
    BY <1>10 DEF RestAt, Rest0
  <2> QED BY <1>4, <2>1, Zenon DEF Reading
<1>12. Whole(Stream)
  BY <1>7 DEF Whole
<1>13. AskedOnce(p, Stream) /\ Announced(p, Stream)
  <2>1. Ups(Stream) = {}
    BY <1>7 DEF Ups
  <2>2. AskedOnce(p, Stream)
    BY <1>4, <1>5, <2>1, Zenon DEF AskedOnce
  <2>3. PICK s : s = Stream
    OBVIOUS
  <2>4. 1 .. Len(s) = {}
    <3>1. Len(s) = 0
      BY <1>7, <2>3
    <3> QED BY ONLY <3>1
  <2>5. Announced(p, s)
    BY <1>4, <2>4, Zenon DEF Announced
  <2> QED BY <2>2, <2>3, <2>5, Zenon
<1>14. Pushed /\ Resting
  BY <1>1, <1>4 DEF Pushed, Resting
<1> QED BY <1>6, <1>9, <1>11, <1>12, <1>13, <1>14 DEF StreamInv

LEMMA HandleRectKeeps ==
    ASSUME StreamInv, HandleRect
    PROVE  StreamInv'
BY LastRectKeeps, FlagsKeep, OneFieldKeeps, TwoFieldsKeep, ExtendedDesktopSizeKeeps, RawKeeps, RREKeeps,
   HextileKeeps, ZlibKeeps, ZRLEKeeps, TightCtlKeeps, TightFillKeeps, TightJpegKeeps, TightFilterKeeps,
   TightPaletteKeeps, TightPixelsKeeps, JpegsKeep, H264Keeps, Zenon DEF HandleRect

LEMMA StreamStep == StreamInv /\ [Next]_vars => StreamInv'
<1> SUFFICES ASSUME StreamInv, [Next]_vars PROVE StreamInv'
  OBVIOUS
<1>1. CASE HandleMessage
  BY <1>1, UpdateHeaderKeeps, BellKeeps, XvpKeeps, ServerFenceKeeps, ServerCutTextKeeps,
     EndOfContinuousUpdatesKeeps, RectHeaderKeeps, HandleRectKeeps, Zenon DEF HandleMessage
<1>2. CASE Receive
  BY <1>2, ReceiveKeeps
<1>3. CASE Flushed
  BY <1>3, FlushedKeeps
<1>4. CASE ImageLoads
  <2>1. UNCHANGED <<p, q, wire, at, srv>>
    BY <1>4 DEF ImageLoads
  <2> QED BY <2>1, StaysStill
<1>5. CASE ServerUpdates
  BY <1>5, ServerUpdatesKeeps
<1>6. CASE ServerMessage
  BY <1>6, ServerMessageKeeps
<1>7. CASE UNCHANGED vars
  <2>1. UNCHANGED <<p, q, wire, at, srv>>
    BY <1>7 DEF vars
  <2> QED BY <2>1, StaysStill
<1>8. CASE ServerEmptyUpdate
  BY <1>8, ServerEmptyUpdateKeeps
<1> QED BY <1>1, <1>2, <1>3, <1>4, <1>5, <1>6, <1>7, <1>8, Zenon DEF Next

(***************************************************************************)
(* What the invariant says of the properties.                               *)
(***************************************************************************)

LEMMA OneBegins ==
    ASSUME NEW s, NEW j
    PROVE  /\ \A t : One(s, 1, j, t) => s[1].t = t
           /\ \A t, v : Two(s, 1, j, t, v) => s[1].t = t
BY DEF One, Two

LEMMA PixelsBegin ==
    ASSUME NEW s, NEW j, NEW n, n # 0, PixelsAt(s, 1, j, n)
    PROVE  s[1].t \in {"pixels", "length"}
BY DEF PixelsAt, One, Two

LEMMA DataBegins ==
    ASSUME NEW s, NEW j, NEW n, n # 0, NEW b \in BOOLEAN, DataAt(s, 1, j, n, b)
    PROVE  (b /\ s[1].t = "data") \/ (~b /\ s[1].t \in {"pixels", "length"})
<1>1. CASE b
  BY <1>1, OneBegins, Zenon DEF DataAt
<1>2. CASE ~b
  BY <1>2, PixelsBegin, Zenon DEF DataAt
<1> QED BY <1>1, <1>2

LEMMA DeflatedBegins ==
    ASSUME NEW s, NEW j, NEW b \in BOOLEAN, DeflatedAt(s, 1, j, b)
    PROVE  (b /\ s[1].t = "data") \/ (~b /\ s[1].t = "length")
BY OneBegins, Zenon DEF DeflatedAt

LEMMA TightBegins ==
    ASSUME NEW s, NEW j, TightAt(s, 1, j, p), p.rect[2] # 0, p.colors \in Nat, p.length \in BOOLEAN
    PROVE  s[1].t \in TightField
<1>1. PICK n : n = p.rect[2] /\ n # 0
  OBVIOUS
<1>2. \A v : One(s, 1, j, v) => s[1].t = v
  BY DEF One
<1>3. PICK b \in BOOLEAN : b = p.length
  OBVIOUS
<1>4. /\ PixelsAt(s, 1, j, n) => s[1].t \in {"pixels", "length"}
      /\ DataAt(s, 1, j, n, b) => (b /\ s[1].t = "data") \/ (~b /\ s[1].t \in {"pixels", "length"})
      /\ DeflatedAt(s, 1, j, b) => (b /\ s[1].t = "data") \/ (~b /\ s[1].t = "length")
  <2>1. n # 0 /\ b \in BOOLEAN
    BY <1>1, <1>3
  <2>2. PixelsAt(s, 1, j, n) => s[1].t \in {"pixels", "length"}
    BY <2>1, PixelsBegin, Zenon
  <2>3. DataAt(s, 1, j, n, b) => (b /\ s[1].t = "data") \/ (~b /\ s[1].t \in {"pixels", "length"})
    BY <2>1, DataBegins, Zenon
  <2>4. DeflatedAt(s, 1, j, b) => (b /\ s[1].t = "data") \/ (~b /\ s[1].t = "length")
    BY <2>1, DeflatedBegins, Zenon
  <2> QED BY <2>2, <2>3, <2>4, Zenon
<1>14. PICK t : t = s[1].t
  OBVIOUS
<1>15. p.colors > 0 => p.colors # 0
  OBVIOUS
<1>5. CASE p.ctl = "" /\ CtlAt(s, 1, j, n)
  <2>1. t = "ctl"
    BY <1>5, <1>14, Zenon DEF CtlAt
  <2> QED BY <1>5, <1>14, <2>1 DEF TightField
<1>6. CASE p.ctl = "fill" /\ p.filter = "" /\ ~p.length /\ One(s, 1, j, "pixels")
  BY <1>2, <1>6 DEF TightField
<1>7. CASE p.ctl = "jpeg" /\ p.filter = "" /\ DeflatedAt(s, 1, j, b)
  BY <1>3, <1>4, <1>7 DEF TightField
<1>8. CASE p.ctl = "basic" /\ p.filter = "" /\ ~p.length /\ PixelsAt(s, 1, j, n)
  BY <1>4, <1>8 DEF TightField
<1>9. CASE p.ctl \in {"basic", "filter"} /\ p.filter = "copy" /\ DataAt(s, 1, j, n, b)
  BY <1>3, <1>4, <1>9 DEF TightField
<1>10. CASE p.ctl = "filter" /\ p.filter = "" /\ ~p.length /\ FilterAt(s, 1, j, n)
  <2>1. t = "filter"
    BY <1>10, <1>14, Zenon DEF FilterAt
  <2> QED BY <1>10, <1>14, <2>1 DEF TightField
<1>11. CASE p.ctl = "filter" /\ p.filter = "palette" /\ p.colors = 0 /\ ~p.length /\ PaletteAt(s, 1, j, n)
  <2>1. t = "colors"
    BY <1>11, <1>14, Zenon DEF PaletteAt
  <2> QED BY <1>11, <1>14, <2>1 DEF TightField
<1>12. CASE p.ctl = "filter" /\ p.filter = "palette" /\ p.colors # 0 /\ DataAt(s, 1, j, n, b)
  BY <1>3, <1>4, <1>12 DEF TightField
<1>13. "basic" \in {"basic", "filter"} /\ "filter" \in {"basic", "filter"}
  OBVIOUS
<1> QED BY <1>1, <1>3, <1>5, <1>6, <1>7, <1>8, <1>9, <1>10, <1>11, <1>12, <1>13, <1>15, Zenon DEF TightAt

LEMMA TilesBegin ==
    ASSUME NEW s, NEW j, NEW m, TilesAt(s, 1, j, m)
    PROVE  s[1].t = "tile"
<1>1. \E h : TileAt(s, 1, h)
  BY DEF TilesAt
<1> QED BY <1>1 DEF TileAt

LEMMA JpegBegins ==
    ASSUME NEW s, NEW j, NEW g, JpegAt(s, 1, j, g)
    PROVE  s[1].t = "segment"
<1>1. EndAt(s, 1, j) => s[1].t = "segment"
  BY DEF EndAt, SegmentAt
<1>2. ScanAt(s, 1, j) => s[1].t = "segment"
  BY DEF ScanAt, BlockAt, SegmentAt
<1>3. FrameAt(s, 1, j) => s[1].t = "segment"
  BY DEF FrameAt, BlockAt, SegmentAt
<1>4. TablesAt(s, 1, j) => s[1].t = "segment"
  BY DEF TablesAt, BlockAt, SegmentAt
<1>5. SegmentAt(s, 1, "start") => s[1].t = "segment"
  BY DEF SegmentAt
<1> QED BY <1>1, <1>2, <1>3, <1>4, <1>5, Zenon DEF JpegAt

LEMMA BodyBegins ==
    ASSUME NEW s, NEW j, BodyAt(s, 1, j, p), p.left \in Nat, p.colors \in Nat, p.length \in BOOLEAN,
           p.rect[1] \notin {"size", "keys", "buttons"},
           p.rect[2] = 0 => p.rect[1] \notin {"raw", "zlib", "tight"}
    PROVE  s[1].t \in RectField
<1>1. PICK e, n, l : e = p.rect[1] /\ n = p.rect[2] /\ l = p.left
  OBVIOUS
<1>2. /\ n \in Nat /\ l \in Nat /\ e \notin {"size", "keys", "buttons"}
      /\ n = 0 => e \notin {"raw", "zlib", "tight"}
  BY <1>1 DEF BodyAt
<1>3. \A t : One(s, 1, j, t) => s[1].t = t
  BY DEF One
<1>4. \A t, v : Two(s, 1, j, t, v) => s[1].t = t
  BY DEF Two
<1>5. \A t, v : Counted(s, 1, j, t, v) => s[1].t = t
  BY DEF Counted
<1>6. \A t : \A m \in Nat \ {0} : j = 1 + m /\ All(s, 1, j, t) => s[1].t = t
  BY DEF All
<1>7. CASE e = "raw" /\ j = 1 + (IF l = 0 THEN n ELSE l) /\ All(s, 1, j, "line")
  <2>1. PICK m : m = IF l = 0 THEN n ELSE l
    OBVIOUS
  <2>2. (l = 0 => m = n) /\ (l # 0 => m = l)
    BY <2>1, Zenon
  <2>3. n # 0
    BY <1>2, <1>7
  <2>4. m \in Nat \ {0}
    BY ONLY <1>2, <2>2, <2>3
  <2>5. s[1].t = "line"
    BY <1>6, <1>7, <2>1, <2>4, Zenon
  <2> QED BY <1>1, <1>7, <2>5 DEF RectField
<1>8. CASE e = "rre" /\ l = 0 /\ Counted(s, 1, j, "count", "subrect")
  BY <1>1, <1>5, <1>8 DEF RectField
<1>9. CASE e = "rre" /\ l > 0 /\ j = 1 + l /\ All(s, 1, j, "subrect")
  <2>1. l \in Nat \ {0}
    BY ONLY <1>2, <1>9
  <2>2. l # 0
    BY ONLY <2>1
  <2>3. s[1].t = "subrect"
    BY <1>6, <1>9, <2>1, Zenon
  <2> QED BY <1>1, <1>9, <2>2, <2>3 DEF RectField
<1>10. CASE e = "hextile" /\ TilesAt(s, 1, j, IF l = 0 THEN n ELSE l)
  <2>1. s[1].t = "tile"
    BY <1>10, TilesBegin
  <2> QED BY <1>1, <1>10, <2>1 DEF RectField
<1>11. CASE e \in {"zlib", "zrle"} /\ DeflatedAt(s, 1, j, p.length)
  <2>1. (p.length /\ s[1].t = "data") \/ (~p.length /\ s[1].t = "length")
    BY <1>11, DeflatedBegins, Zenon
  <2> QED BY <1>1, <1>11, <2>1 DEF RectField
<1>12. CASE e = "tight" /\ TightAt(s, 1, j, p)
  <2>1. s[1].t \in TightField
    BY <1>1, <1>2, <1>12, TightBegins
  <2> QED BY <1>1, <1>12, <2>1 DEF RectField
<1>13. CASE e = "jpeg" /\ JpegAt(s, 1, j, p.segs)
  <2>1. s[1].t = "segment"
    BY <1>13, JpegBegins
  <2> QED BY <1>1, <1>13, <2>1 DEF RectField
<1>14. /\ e = "cursor" => RectField = {"data"}
       /\ e = "vmcursor" => RectField = {"cursor"}
       /\ e = "led" => RectField = {"leds"}
       /\ e = "copy" => RectField = {"source"}
       /\ e = "name" => RectField = {"length"}
       /\ e = "screens" => RectField = {"screens"}
       /\ e = "h264" => RectField = {"h264"}
  BY <1>1 DEF RectField
<1>15. n > 0 <=> n # 0
  BY <1>2
<1>16. CASE e = "copy" /\ One(s, 1, j, "source")
  BY <1>3, <1>14, <1>16
<1>17. CASE e = "h264" /\ (One(s, 1, j, "h264") \/ Two(s, 1, j, "h264", "data"))
  BY <1>3, <1>4, <1>14, <1>17
<1>18. CASE e = "cursor" /\ One(s, 1, j, "data")
  BY <1>3, <1>14, <1>18
<1>19. CASE e = "vmcursor" /\ Two(s, 1, j, "cursor", "data")
  BY <1>4, <1>14, <1>19
<1>20. CASE e = "name" /\ Two(s, 1, j, "length", "data")
  BY <1>4, <1>14, <1>20
<1>21. CASE e = "screens" /\ Counted(s, 1, j, "screens", "screen")
  BY <1>5, <1>14, <1>21
<1>22. CASE e = "led" /\ One(s, 1, j, "leds")
  BY <1>3, <1>14, <1>22
<1>23. "zlib" \in {"zlib", "zrle"} /\ "zrle" \in {"zlib", "zrle"} /\ (e = "zlib" => n # 0)
  BY <1>2
<1> QED BY <1>1, <1>2, <1>7, <1>8, <1>9, <1>10, <1>11, <1>12, <1>13, <1>15, <1>16, <1>17, <1>18, <1>19, <1>20, <1>21,
           <1>22, <1>23, Zenon DEF BodyAt

LEMMA InvAligned == StreamInv => Aligned
<1> SUFFICES ASSUME StreamInv, q # <<>>, ~Bodyless PROVE q[1].t \in Expected
  BY DEF Aligned
<1>1. Typed /\ Reading(p, Stream) /\ p.left \in Nat /\ p.colors \in Nat /\ p.length \in BOOLEAN /\ p.rects \in 0 .. 3
  BY DEF StreamInv, Typed, Parser
<1>2. 1 <= Len(q) /\ Len(q) \in Nat /\ Len(Stream) \in Nat /\ 1 <= Len(Stream) /\ q[1] = Stream[1]
  <2>1. /\ Len(q) \in Nat /\ Len(wire) \in Nat /\ Len(Stream) = Len(q) + Len(wire)
        /\ q = <<>> <=> Len(q) = 0
    BY <1>1, StreamFields
  <2>2. \A k \in 1 .. Len(q) : q[k] = Stream[k]
    BY <1>1, StreamFields
  <2> QED BY <2>1, <2>2
<1>3. PICK t : t = Stream[1].t /\ q[1].t = t
  BY <1>2
<1>4. CASE p.rect = <<>> /\ p.rects = 0
  <2>1. RestAt(Stream, 1, 0)
    BY <1>1, <1>4, Zenon DEF Reading
  <2>2. Ends(Stream, 1)
    BY <2>1 DEF RestAt, Rest0
  <2>3. PICK n : n = Len(Stream)
    OBVIOUS
  <2>4. 1 = n + 1 \/ t = "type"
    BY <1>3, <2>2, <2>3, Zenon DEF Ends
  <2>5. n \in Nat /\ 1 <= n
    BY <1>2, <2>3
  <2>6. t = "type"
    BY ONLY <2>4, <2>5
  <2> QED BY <1>3, <1>4, <2>6 DEF Expected
<1>5. CASE p.rect = <<>> /\ p.rects # 0
  <2>1. RestAt(Stream, 1, p.rects)
    BY <1>1, <1>5, Zenon DEF Reading
  <2>2. t = "rect"
    <3>1. \A r : r # 0 /\ RestAt(Stream, 1, r) => Stream[1].t = "rect"
      BY RestBegins
    <3> QED BY <1>3, <1>5, <2>1, <3>1, Zenon
  <2>3. Expected = {"rect"}
    BY <1>5, Zenon DEF Expected
  <2> QED BY <1>3, <2>2, <2>3
<1>6. CASE p.rect # <<>>
  <2>1. /\ p.rect[1] \notin {"last", "size", "keys", "buttons"}
        /\ p.rect[2] = 0 => p.rect[1] \notin {"raw", "zlib", "tight"}
    BY <1>6, Zenon DEF Bodyless
  <2>2. p.rect[1] # "last" /\ p.rect[1] \notin {"size", "keys", "buttons"}
    BY <2>1
  <2>3. p.rects > 0 /\ \E j : BodyAt(Stream, 1, j, p)
    BY <1>1, <1>6, <2>2, Zenon DEF Reading
  <2>4. p.rects # 0
    BY <1>1, <2>3
  <2>5. t \in RectField
    <3>1. PICK j : BodyAt(Stream, 1, j, p)
      BY <2>3
    <3>2. Stream[1].t \in RectField
      BY <1>1, <2>1, <2>2, <3>1, BodyBegins, Zenon
    <3> QED BY <1>3, <3>2
  <2>6. RectField = Expected
    BY <1>6, <2>4, Zenon DEF Expected
  <2> QED BY <1>3, <2>5, <2>6
<1> QED BY <1>4, <1>5, <1>6

LEMMA InvArrived == StreamInv => ArrivedIsHandled
BY Zenon DEF StreamInv, Pushed, ArrivedIsHandled

(* The updates of the stream lie in the queue or on the wire.                *)
LEMMA UpdatesApart ==
    ASSUME Typed
    PROVE  /\ \A i : i \in Ups(q) <=> i \in Ups(Stream) /\ i <= Len(q)
           /\ \A i \in Nat : i \in Ups(wire) <=> i \in 1 .. Len(wire) /\ i + Len(q) \in Ups(Stream)
<1>1. PICK s, u, h : s = q /\ u = wire /\ h = Stream
  OBVIOUS
<1>2. PICK m \in Nat, n \in Nat : m = Len(s) /\ n = Len(u)
  BY <1>1 DEF Typed
<1>3. Len(h) = m + n
  BY <1>1, <1>2, StreamFields
<1>4. \A k \in 1 .. m : s[k] = h[k]
  BY <1>1, <1>2, StreamFields
<1>5. \A k \in 1 .. n : u[k] = h[k + m]
  BY <1>1, <1>2 DEF Typed, Stream
<1>6. PICK c : c = U("type", "update")
  OBVIOUS
<1>7. \A i : i \in Ups(s) <=> i \in 1 .. m /\ s[i] = c
  BY <1>2, <1>6, Zenon DEF Ups
<1>8. \A i : i \in Ups(u) <=> i \in 1 .. n /\ u[i] = c
  BY <1>2, <1>6, Zenon DEF Ups
<1>9. \A i : i \in Ups(h) <=> i \in 1 .. m + n /\ h[i] = c
  BY <1>3, <1>6, Zenon DEF Ups
<1>10. \A i : i \in Ups(s) <=> i \in Ups(h) /\ i <= m
  <2>1. \A i : i \in 1 .. m <=> i \in 1 .. m + n /\ i <= m
    BY <1>2
  <2> QED BY <1>4, <1>7, <1>9, <2>1, Zenon
<1>11. \A i \in Nat : i \in Ups(u) <=> i \in 1 .. n /\ i + m \in Ups(h)
  <2>1. \A i \in Nat : i \in 1 .. n => i + m \in 1 .. m + n
    BY <1>2
  <2> QED BY <1>5, <1>8, <1>9, <2>1, Zenon
<1> QED BY <1>1, <1>2, <1>10, <1>11, Zenon

LEMMA UpdatesAre ==
    ASSUME NEW s \in Seq(Unit)
    PROVE  Updates(s) = Cardinality(Ups(s))
<1>1. DOMAIN s = 1 .. Len(s)
  OBVIOUS
<1> QED BY <1>1, Zenon DEF Updates, Ups

LEMMA UpdatesCounted ==
    ASSUME Typed
    PROVE  /\ Ups(Stream) = {} => Updates(wire) + Updates(q) = 0
           /\ \A i : Ups(Stream) = {i} => Updates(wire) + Updates(q) = 1
<1>1. Updates(wire) = Cardinality(Ups(wire)) /\ Updates(q) = Cardinality(Ups(q))
  BY UpdatesAre DEF Typed
<1>2. PICK a, b, h, m : a = Ups(q) /\ b = Ups(wire) /\ h = Ups(Stream) /\ m = Len(q)
  OBVIOUS
<1>3. PICK n : n = Len(wire)
  OBVIOUS
<1>4. m \in Nat /\ n \in Nat
  BY <1>2, <1>3, StreamFields
<1>5. \A i : i \in a <=> i \in h /\ i <= m
  BY <1>2, UpdatesApart
<1>6. \A i \in Nat : i \in b <=> i \in 1 .. n /\ i + m \in h
  BY <1>2, <1>3, UpdatesApart
<1>7. (\A i \in h : i \in 1 .. m + n) /\ (\A i \in b : i \in 1 .. n)
  <2>1. Len(Stream) = m + n
    BY <1>2, <1>3, StreamFields
  <2> QED BY <1>2, <1>3, <2>1, Zenon DEF Ups
<1>8. \A i \in b : i \in Nat
  BY <1>7
<1>9. Cardinality({}) = 0 /\ \A x : Cardinality({x}) = 1
  BY FS_EmptySet, FS_Singleton
<1>10. CASE h = {}
  <2>1. a = {}
    BY <1>5, <1>10, Zenon
  <2>2. b = {}
    BY <1>6, <1>8, <1>10, Zenon
  <2> QED BY <1>1, <1>2, <1>9, <1>10, <2>1, <2>2
<1>11. ASSUME NEW i, h = {i} PROVE Updates(wire) + Updates(q) = 1
  <2>1. i \in 1 .. m + n
    BY <1>7, <1>11
  <2>2. CASE i <= m
    <3>1. a = {i}
      BY <1>5, <1>11, <2>2, Zenon
    <3>2. ASSUME NEW k \in b PROVE FALSE
      <4>1. k \in 1 .. n /\ k \in Nat
        BY <1>7, <1>8
      <4>2. k + m = i
        BY <1>6, <1>11, <4>1, Zenon
      <4> QED BY ONLY <1>4, <2>2, <4>1, <4>2
    <3>3. b = {}
      BY <3>2, Zenon
    <3>4. Updates(q) = 1 /\ Updates(wire) = 0
      BY <1>1, <1>2, <1>9, <3>1, <3>3, Zenon
    <3> QED BY ONLY <3>4
  <2>3. CASE ~(i <= m)
    <3>1. a = {}
      BY <1>5, <1>11, <2>3, Zenon
    <3>2. PICK k \in 1 .. n : k + m = i
      <4>1. i - m \in 1 .. n /\ (i - m) + m = i
        BY ONLY <1>4, <2>1, <2>3
      <4> QED BY <4>1
    <3>3. k \in b
      <4>1. k \in Nat
        BY <1>4
      <4> QED BY <1>6, <1>11, <3>2, <4>1, Zenon
    <3>4. ASSUME NEW r \in b PROVE r = k
      <4>1. r \in 1 .. n /\ r \in Nat
        BY <1>7, <1>8
      <4>2. r + m = i
        BY <1>6, <1>11, <4>1, Zenon
      <4> QED BY ONLY <1>4, <3>2, <4>1, <4>2
    <3>5. b = {k}
      BY <3>3, <3>4, Zenon
    <3>6. Updates(q) = 0 /\ Updates(wire) = 1
      BY <1>1, <1>2, <1>9, <3>1, <3>5, Zenon
    <3> QED BY ONLY <3>6
  <2> QED BY <2>2, <2>3
<1> QED BY <1>2, <1>10, <1>11, Zenon

LEMMA InvAsked == StreamInv => OneUpdateAsked
<1> SUFFICES ASSUME StreamInv, ~srv.ends
             PROVE  srv.asked + Updates(wire) + Updates(q) + (IF p.rects > 0 THEN 1 ELSE 0) + srv.lost = 1
  BY DEF OneUpdateAsked, Outstanding
<1>1. Typed /\ AskedOnce(p, Stream)
  BY DEF StreamInv
<1>2. PICK u, w : u = Updates(wire) /\ w = Updates(q)
  OBVIOUS
<1>3. u \in Nat /\ w \in Nat
  <2>1. Updates(wire) = Cardinality(Ups(wire)) /\ Updates(q) = Cardinality(Ups(q))
    BY <1>1, UpdatesAre DEF Typed
  <2>2. /\ Len(q) \in Nat /\ Len(wire) \in Nat
        /\ Ups(q) \subseteq 1 .. Len(q) /\ Ups(wire) \subseteq 1 .. Len(wire)
    BY <1>1, StreamFields DEF Ups
  <2>3. IsFiniteSet(1 .. Len(q)) /\ IsFiniteSet(1 .. Len(wire))
    BY <2>2, FS_Interval
  <2>4. IsFiniteSet(Ups(q)) /\ IsFiniteSet(Ups(wire))
    BY <2>2, <2>3, FS_Subset
  <2> QED BY <1>2, <2>1, <2>4, FS_CardinalityType
<1>4. (Ups(Stream) = {} => u + w = 0) /\ \A i : Ups(Stream) = {i} => u + w = 1
  BY <1>1, <1>2, UpdatesCounted
<1>5. PICK a, r, l : a = srv.asked /\ r = p.rects /\ l = srv.lost
  OBVIOUS
<1>6. \/ a = 1 /\ l = 0 /\ r = 0 /\ u + w = 0
      \/ a = 0 /\ l = 0 /\ r > 0 /\ u + w = 0
      \/ a = 0 /\ l = 0 /\ r = 0 /\ u + w = 1
      \/ a = 0 /\ l = 1 /\ r = 0 /\ u + w = 0
  BY <1>1, <1>4, <1>5, Zenon DEF AskedOnce
<1>7. a + u + w + (IF r > 0 THEN 1 ELSE 0) + l = 1
  BY ONLY <1>3, <1>6
<1> QED BY <1>2, <1>5, <1>7

(***************************************************************************)
(* The render queue.  The fold over the ready actions performs them one     *)
(* after another; the library's induction theorems take an operator, and a  *)
(* set of numbers does the same.                                            *)
(***************************************************************************)
LEMMA CountsUp ==
    ASSUME NEW n \in Nat, NEW B, 0 \in B, \A k \in 0 .. n - 1 : k \in B => k + 1 \in B
    PROVE  \A k \in 0 .. n : k \in B
<1> DEFINE T == (0 .. n) \ B
<1>1. SUFFICES ASSUME T # {} PROVE FALSE
  OBVIOUS
<1>2. PICK k \in T : \A m \in T : <<m, k>> \notin OpToRel(<, Nat)
  <2>1. T \subseteq Nat
    OBVIOUS
  <2> QED BY <1>1, <2>1, NatLessThanWellFounded, WFMin
<1>3. k \in 0 .. n /\ k # 0 /\ k \notin B
  OBVIOUS
<1>4. PICK m \in 0 .. n - 1 : k = m + 1
  BY <1>3
<1>5. m \in T
  BY <1>3, <1>4
<1>6. <<m, k>> \in OpToRel(<, Nat)
  BY <1>3, <1>4 DEF OpToRel
<1> QED BY <1>2, <1>5, <1>6

LEMMA Greatest ==
    ASSUME NEW k \in Nat, NEW u \in SUBSET (1 .. k + 1), k + 1 \in u
    PROVE  Max(u) = k + 1
<1>1. \A x \in u : (\A y \in u : x >= y) <=> x = k + 1
  OBVIOUS
<1> QED BY <1>1 DEF Max

LEMMA Least ==
    ASSUME NEW n \in Nat, NEW u \in SUBSET (1 .. n), u # {}
    PROVE  Min(u) \in u
<1>1. PICK k \in u : \A m \in u : <<m, k>> \notin OpToRel(<, Nat)
  <2>1. u \subseteq Nat
    OBVIOUS
  <2> QED BY <2>1, NatLessThanWellFounded, WFMin
<1>2. ASSUME NEW m \in u PROVE k <= m
  <2>1. m \in Nat /\ k \in Nat
    OBVIOUS
  <2>2. m < k => <<m, k>> \in OpToRel(<, Nat)
    BY <2>1 DEF OpToRel
  <2>3. ~(m < k)
    BY <1>1, <2>2, Zenon
  <2> QED BY <2>1, <2>3
<1> QED BY <1>2 DEF Min

Op   == [type : {"draw", "img", "flip"}, id : Nat, of : Nat, ready : BOOLEAN]
Disp == [q : Seq(Op), back : Seq(Nat), front : Nat, flush : {"none", "waiting", "resolved"}, issued : Nat,
         flips : SUBSET Nat]
(* The states that performing some actions can make of x.                   *)
Seen(x) == [q : {x.q}, back : Seq(Nat), front : Nat, flush : {x.flush}, issued : {x.issued}, flips : {x.flips}]

LEMMA PerformSeen ==
    ASSUME NEW x, NEW v \in Seen(x), NEW op \in Op
    PROVE  Perform(v, op) \in Seen(x)
<1>1. v.back \in Seq(Nat) /\ op.id \in Nat
  BY DEF Seen, Op
<1>2. Len(v.back) \in Nat /\ Append(v.back, op.id) \in Seq(Nat)
  BY <1>1
<1>3. CASE op.type = "flip"
  <2>1. PICK n \in Nat : n = Len(v.back)
    BY <1>2
  <2>2. [v EXCEPT !.front = n] \in Seen(x)
    BY ONLY <2>1, v \in Seen(x) DEF Seen
  <2> QED BY <1>3, <2>1, <2>2 DEF Perform
<1>4. CASE op.type # "flip"
  <2>1. PICK b \in Seq(Nat) : b = Append(v.back, op.id)
    BY <1>2
  <2>2. [v EXCEPT !.back = b] \in Seen(x)
    BY ONLY <2>1, v \in Seen(x) DEF Seen
  <2> QED BY <1>4, <2>1, <2>2 DEF Perform
<1> QED BY <1>3, <1>4

(* F is the recursive function inside the fold.                             *)
Turn(F, x, s, u)  == IF u = {} THEN x ELSE Perform(F[u \ {Max(u)}], s[Max(u)])
Turns(F, x, s)    == F = [u \in SUBSET DOMAIN s |-> Turn(F, x, s, u)]

LEMMA TurnsExist ==
    ASSUME NEW x, x \in Seen(x), NEW s \in Seq(Op)
    PROVE  \E F : Turns(F, x, s)
<1> DEFINE Part(F, k) == \A u \in SUBSET (1 .. k) : F[u] = Turn(F, x, s, u)
           B == {k \in 0 .. Len(s) : \E F \in [SUBSET (1 .. k) -> Seen(x)] : Part(F, k)}
<1>1. Len(s) \in Nat /\ DOMAIN s = 1 .. Len(s) /\ \A i \in 1 .. Len(s) : s[i] \in Op
  OBVIOUS
<1>2. 0 \in B
  <2>1. \A u \in SUBSET (1 .. 0) : u = {}
    OBVIOUS
  <2>2. PICK F : F = [u \in SUBSET (1 .. 0) |-> x]
    OBVIOUS
  <2>3. F \in [SUBSET (1 .. 0) -> Seen(x)] /\ Part(F, 0)
    BY <2>1, <2>2 DEF Turn
  <2>4. 0 \in 0 .. Len(s)
    BY <1>1
  <2> HIDE DEF Part
  <2> QED BY <2>3, <2>4
<1>3. ASSUME NEW k \in 0 .. Len(s) - 1, k \in B PROVE k + 1 \in B
  <2>1. PICK F \in [SUBSET (1 .. k) -> Seen(x)] : Part(F, k)
    BY <1>3
  <2>2. k \in Nat /\ k + 1 \in 0 .. Len(s) /\ s[k + 1] \in Op
    BY <1>1
  <2> DEFINE R == 1 .. k + 1
  <2>3. PICK G : G = [u \in SUBSET R |-> IF k + 1 \in u THEN Perform(F[u \ {k + 1}], s[k + 1]) ELSE F[u]]
    OBVIOUS
  <2>4. ASSUME NEW u \in SUBSET R, k + 1 \in u PROVE u \ {k + 1} \in SUBSET (1 .. k) /\ u \ {k + 1} \in SUBSET R
    BY <2>2, <2>4
  <2>5. ASSUME NEW u \in SUBSET R, k + 1 \notin u PROVE u \in SUBSET (1 .. k)
    BY <2>2, <2>5
  <2>6. \A u \in SUBSET (1 .. k) : u \in SUBSET R /\ k + 1 \notin u
    BY <2>2
  <2> HIDE DEF R
  <2>7. \A u \in SUBSET (1 .. k) : G[u] = F[u]
    BY <2>3, <2>6
  <2>8. ASSUME NEW u \in SUBSET R PROVE G[u] \in Seen(x) /\ G[u] = Turn(G, x, s, u)
    <3>1. CASE k + 1 \in u
      <4>1. PICK w \in SUBSET (1 .. k) : w = u \ {k + 1}
        BY <2>4, <3>1
      <4>2. G[u] = Perform(F[w], s[k + 1]) /\ F[w] \in Seen(x) /\ G[w] = F[w]
        BY <2>1, <2>3, <2>7, <3>1, <4>1
      <4>3. Max(u) = k + 1
        BY <2>2, <3>1, Greatest DEF R
      <4>4. Turn(G, x, s, u) = Perform(G[w], s[k + 1])
        BY <3>1, <4>1, <4>3 DEF Turn
      <4> QED BY <2>2, <4>2, <4>4, PerformSeen
    <3>2. CASE k + 1 \notin u
      <4>1. u \in SUBSET (1 .. k) /\ u \ {Max(u)} \in SUBSET (1 .. k)
        BY <2>5, <3>2
      <4>2. G[u] = F[u] /\ G[u \ {Max(u)}] = F[u \ {Max(u)}] /\ F[u] \in Seen(x) /\ F[u] = Turn(F, x, s, u)
        BY <2>1, <2>7, <4>1
      <4> QED BY <4>2 DEF Turn
    <3> QED BY <3>1, <3>2
  <2>9. G \in [SUBSET R -> Seen(x)]
    BY <2>3, <2>8
  <2> QED BY <2>2, <2>8, <2>9 DEF R
<1> HIDE DEF B
<1>4. Len(s) \in B
  <2>1. \A k \in 0 .. Len(s) - 1 : k \in B => k + 1 \in B
    BY <1>3
  <2>2. \A k \in 0 .. Len(s) : k \in B
    BY <1>1, <1>2, <2>1, CountsUp, Zenon
  <2>3. Len(s) \in 0 .. Len(s)
    BY <1>1
  <2> QED BY <2>2, <2>3
<1>5. PICK F \in [SUBSET (1 .. Len(s)) -> Seen(x)] : Part(F, Len(s))
  BY <1>4 DEF B
<1>6. F = [u \in SUBSET (1 .. Len(s)) |-> F[u]]
  BY <1>5
<1>7. Turns(F, x, s)
  BY <1>1, <1>5, <1>6 DEF Turns
<1> QED BY <1>7

PerformAll(x, s) == FoldLeft(Perform, x, s)

LEMMA InTurn ==
    ASSUME NEW x, x \in Seen(x), NEW s \in Seq(Op)
    PROVE  \E F : /\ F[0] = x /\ PerformAll(x, s) = F[Len(s)]
                  /\ \A k \in 0 .. Len(s) - 1 : F[k + 1] = Perform(F[k], s[k + 1])
<1>1. Len(s) \in Nat /\ DOMAIN s = 1 .. Len(s)
  OBVIOUS
<1>2. PICK H : H = CHOOSE G : Turns(G, x, s)
  OBVIOUS
<1>3. Turns(H, x, s)
  BY <1>2, TurnsExist
<1>4. PerformAll(x, s) = H[DOMAIN s]
  BY <1>2 DEF PerformAll, FoldLeft, MapThenFoldSet, Turns, Turn
<1>5. \A u \in SUBSET (1 .. Len(s)) : H[u] = Turn(H, x, s, u)
  <2>1. \A u \in SUBSET (1 .. Len(s)) : [w \in SUBSET (1 .. Len(s)) |-> Turn(H, x, s, w)][u] = Turn(H, x, s, u)
    OBVIOUS
  <2> QED BY <1>1, <1>3, <2>1 DEF Turns
<1>6. PICK F : F = [k \in 0 .. Len(s) |-> H[1 .. k]]
  OBVIOUS
<1>7. F[0] = x
  <2>1. 1 .. 0 = {} /\ {} \in SUBSET (1 .. Len(s)) /\ 0 \in 0 .. Len(s)
    BY <1>1
  <2>2. H[{}] = x
    BY <1>5, <2>1 DEF Turn
  <2> QED BY <1>6, <2>1, <2>2
<1>8. ASSUME NEW k \in 0 .. Len(s) - 1 PROVE F[k + 1] = Perform(F[k], s[k + 1])
  <2>1. k \in Nat /\ k + 1 \in 1 .. k + 1 /\ 1 .. k + 1 \in SUBSET (1 .. Len(s)) /\ k + 1 \in 0 .. Len(s)
        /\ k \in 0 .. Len(s) /\ (1 .. k + 1) \ {k + 1} = 1 .. k
    BY <1>1
  <2>2. Max(1 .. k + 1) = k + 1
    BY <2>1, Greatest
  <2>3. H[1 .. k + 1] = Perform(H[1 .. k], s[k + 1])
    BY <1>5, <2>1, <2>2 DEF Turn
  <2> QED BY <1>6, <2>1, <2>3
<1>9. F[Len(s)] = H[DOMAIN s]
  BY <1>1, <1>6
<1> QED BY <1>4, <1>7, <1>8, <1>9

(* Drawings are counted along the queue: f[i] of them are done when i actions of it are performed.   *)
Counts(f, x, n) ==
    /\ f \in [0 .. n -> Nat] /\ f[0] = Len(x.back) /\ f[n] = x.issued
    /\ \A i \in 1 .. n : IF x.q[i].type = "flip" THEN f[i] = f[i - 1] /\ f[i] \in x.flips
                                                 ELSE f[i] = f[i - 1] + 1 /\ x.q[i].id = f[i]
Shown(x)    == (\A i \in 1 .. Len(x.back) : x.back[i] = i) /\ x.front \in x.flips
Drawings(x) == x \in Disp /\ Shown(x) /\ \E f : Counts(f, x, Len(x.q))

LEMMA DispFields ==
    ASSUME NEW x \in Disp
    PROVE  /\ x.q \in Seq(Op) /\ x.back \in Seq(Nat) /\ x.front \in Nat /\ x.flush \in {"none", "waiting", "resolved"}
           /\ x.issued \in Nat /\ x.flips \in SUBSET Nat /\ x \in Seen(x) /\ Len(x.q) \in Nat /\ Len(x.back) \in Nat
           /\ \A i \in 1 .. Len(x.q) : x.q[i] \in Op
BY DEF Disp, Seen

LEMMA SeenIs ==
    ASSUME NEW x \in Disp, NEW v \in Seen(x)
    PROVE  v \in Disp /\ v.q = x.q /\ v.issued = x.issued /\ v.flips = x.flips /\ v.flush = x.flush /\ Seen(v) = Seen(x)
BY DEF Disp, Seen

(* An action whose turn it is draws the next drawing, or shows what is drawn. *)
LEMMA Performed ==
    ASSUME NEW v \in Disp, Shown(v), NEW op \in Op, NEW m \in Nat,
           IF op.type = "flip" THEN m = Len(v.back) /\ m \in v.flips ELSE m = Len(v.back) + 1 /\ op.id = m
    PROVE  Perform(v, op) \in Seen(v) /\ Shown(Perform(v, op)) /\ Len(Perform(v, op).back) = m
<1>1. v \in Seen(v) /\ Perform(v, op) \in Seen(v) /\ v.back \in Seq(Nat) /\ Len(v.back) \in Nat /\ op.id \in Nat
  BY DispFields, PerformSeen DEF Op
<1>2. PICK b : b = v.back
  OBVIOUS
<1>3. \A i \in 1 .. Len(b) : b[i] = i
  BY <1>2 DEF Shown
<1>4. PICK w : w = Perform(v, op)
  OBVIOUS
<1>5. CASE op.type = "flip"
  <2>1. w.back = b /\ w.front = m /\ w.flips = v.flips
    BY <1>1, <1>2, <1>4, <1>5 DEF Perform, Disp
  <2>2. Shown(w) /\ Len(w.back) = m
    BY <1>2, <1>3, <1>5, <2>1 DEF Shown
  <2> QED BY <1>1, <1>4, <2>2
<1>6. CASE op.type # "flip"
  <2>1. PICK c : c = Append(b, m)
    OBVIOUS
  <2>2. w.back = c /\ w.front = v.front /\ w.flips = v.flips
    BY <1>1, <1>2, <1>4, <1>6, <2>1 DEF Perform, Disp
  <2>3. Len(c) = m /\ \A i \in 1 .. Len(c) : c[i] = i
    BY <1>1, <1>2, <1>3, <1>6, <2>1
  <2>4. v.front \in v.flips
    BY DEF Shown
  <2>5. Shown(w) /\ Len(w.back) = m
    BY <2>2, <2>3, <2>4 DEF Shown
  <2> QED BY <1>1, <1>4, <2>5
<1> QED BY <1>5, <1>6

(* _scanRenderQ: whichever actions are ready, those performed come in turn. *)
LEMMA Scanned ==
    ASSUME NEW x, Drawings(x)
    PROVE  Drawings(ScanRenderQ(x))
<1>1. x \in Disp /\ Shown(x) /\ x \in Seen(x) /\ x.q \in Seq(Op) /\ Len(x.q) \in Nat
      /\ \A i \in 1 .. Len(x.q) : x.q[i] \in Op
  BY DispFields DEF Drawings
<1>2. PICK f : Counts(f, x, Len(x.q))
  BY DEF Drawings
<1>3. PICK waiting : waiting = {i \in DOMAIN x.q : ~x.q[i].ready}
  OBVIOUS
<1>4. PICK n : n = IF waiting = {} THEN Len(x.q) ELSE Min(waiting) - 1
  OBVIOUS
<1>5. n \in 0 .. Len(x.q) /\ n \in Nat
  <2>1. waiting \in SUBSET (1 .. Len(x.q))
    BY <1>1, <1>3
  <2>2. waiting # {} => Min(waiting) \in 1 .. Len(x.q)
    BY <1>1, <2>1, Least
  <2> QED BY <1>1, <1>4, <2>2
<1>6. PICK s : s = SubSeq(x.q, 1, n)
  OBVIOUS
<1>7. s \in Seq(Op) /\ Len(s) = n /\ \A i \in 1 .. n : s[i] = x.q[i] /\ s[i] \in Op
  BY <1>1, <1>5, <1>6
<1>8. PICK F : /\ F[0] = x /\ PerformAll(x, s) = F[n]
               /\ \A k \in 0 .. n - 1 : F[k + 1] = Perform(F[k], s[k + 1])
  <2>1. PICK F : /\ F[0] = x /\ PerformAll(x, s) = F[Len(s)]
                 /\ \A k \in 0 .. Len(s) - 1 : F[k + 1] = Perform(F[k], s[k + 1])
    <3>1. x \in Seen(x) /\ s \in Seq(Op)
      BY <1>1, <1>7, Zenon
    <3> QED BY ONLY <3>1, InTurn
  <2>2. Len(s) = n
    BY <1>7, Zenon
  <2>3. PerformAll(x, s) = F[n]
    BY <2>1, <2>2, Zenon
  <2>4. \A k \in 0 .. n - 1 : F[k + 1] = Perform(F[k], s[k + 1])
    BY ONLY <2>1, <2>2
  <2> QED BY <2>1, <2>3, <2>4, Zenon
<1>9. /\ f \in [0 .. Len(x.q) -> Nat] /\ f[0] = Len(x.back) /\ f[Len(x.q)] = x.issued
      /\ \A i \in 1 .. Len(x.q) : IF x.q[i].type = "flip" THEN f[i] = f[i - 1] /\ f[i] \in x.flips
                                                       ELSE f[i] = f[i - 1] + 1 /\ x.q[i].id = f[i]
  BY <1>2 DEF Counts
<1> DEFINE B == {k \in 0 .. n : F[k] \in Seen(x) /\ Shown(F[k]) /\ Len(F[k].back) = f[k]}
<1>10. 0 \in B
  BY <1>1, <1>5, <1>8, <1>9
<1>11. ASSUME NEW k \in 0 .. n - 1, k \in B PROVE k + 1 \in B
  <2>1. PICK v : v = F[k]
    OBVIOUS
  <2>2. v \in Seen(x) /\ Shown(v) /\ Len(v.back) = f[k]
    BY <1>11, <2>1
  <2>3. v \in Disp /\ v.flips = x.flips /\ Seen(v) = Seen(x)
    BY <1>1, <2>2, SeenIs
  <2>4. k + 1 \in 1 .. n /\ k + 1 \in 1 .. Len(x.q) /\ k + 1 \in 0 .. Len(x.q) /\ (k + 1) - 1 = k
    BY <1>1, <1>5
  <2>5. PICK op \in Op : op = s[k + 1] /\ op = x.q[k + 1]
    BY <1>7, <2>4
  <2>6. PICK m \in Nat : m = f[k + 1]
    BY <1>9, <2>4
  <2>7. IF op.type = "flip" THEN m = Len(v.back) /\ m \in v.flips ELSE m = Len(v.back) + 1 /\ op.id = m
    BY <1>9, <2>2, <2>3, <2>4, <2>5, <2>6
  <2>8. Perform(v, op) \in Seen(v) /\ Shown(Perform(v, op)) /\ Len(Perform(v, op).back) = m
    BY <2>2, <2>3, <2>7, Performed
  <2>9. F[k + 1] = Perform(v, op)
    BY <1>8, <2>1, <2>5
  <2>10. k + 1 \in 0 .. n
    BY <2>4
  <2> QED BY <2>3, <2>6, <2>8, <2>9, <2>10
<1> HIDE DEF B
<1>12. n \in B
  <2>1. \A k \in 0 .. n - 1 : k \in B => k + 1 \in B
    BY <1>11
  <2>2. \A k \in 0 .. n : k \in B
    BY <1>5, <1>10, <2>1, CountsUp, Zenon
  <2>3. n \in 0 .. n
    BY <1>5
  <2> QED BY <2>2, <2>3
<1>13. PICK y : y = F[n]
  OBVIOUS
<1>14. y \in Seen(x) /\ Shown(y) /\ Len(y.back) = f[n]
  BY <1>12, <1>13 DEF B
<1>15. y \in Disp /\ y.q = x.q /\ y.issued = x.issued /\ y.flips = x.flips /\ y.flush = x.flush
  BY <1>1, <1>14, SeenIs
<1>16. PICK r : r = SubSeq(x.q, n + 1, Len(x.q))
  OBVIOUS
<1>17. /\ r \in Seq(Op) /\ Len(r) = Len(x.q) - n /\ Len(r) \in Nat
       /\ \A i \in 1 .. Len(r) : r[i] = x.q[n + i]
  BY <1>1, <1>5, <1>16
<1>18. PICK u \in {"none", "waiting", "resolved"} :
           u = IF n = Len(x.q) /\ x.flush = "waiting" THEN "resolved" ELSE x.flush
  BY <1>1, DispFields
<1>19. PICK z : z = [y EXCEPT !.q = r, !.flush = u]
  OBVIOUS
<1>20. z = ScanRenderQ(x)
  <2>1. ScanRenderQ(x) = [y EXCEPT !.q = SubSeq(@, n + 1, Len(@)),
                                   !.flush = IF n = Len(x.q) /\ @ = "waiting" THEN "resolved" ELSE @]
    BY <1>3, <1>4, <1>6, <1>8, <1>13 DEF ScanRenderQ, PerformAll
  <2>2. SubSeq(y.q, n + 1, Len(y.q)) = r /\ (IF n = Len(x.q) /\ y.flush = "waiting" THEN "resolved" ELSE y.flush) = u
    BY <1>15, <1>16, <1>18
  <2> QED BY <1>15, <1>19, <2>1, <2>2 DEF Disp
<1>21. z \in Disp /\ z.q = r /\ z.back = y.back /\ z.front = y.front /\ z.issued = x.issued /\ z.flips = x.flips
  BY ONLY <1>15, <1>17, <1>18, <1>19 DEF Disp
<1>22. Shown(z)
  BY <1>14, <1>15, <1>21 DEF Shown
<1>23. PICK g : g = [i \in 0 .. Len(r) |-> f[n + i]]
  OBVIOUS
<1>24. Counts(g, z, Len(z.q))
  <2>1. \A i \in 0 .. Len(r) : n + i \in 0 .. Len(x.q) /\ g[i] = f[n + i]
    BY <1>5, <1>17, <1>23
  <2>2. g \in [0 .. Len(r) -> Nat]
    BY <1>9, <1>23, <2>1
  <2>3. g[0] = Len(z.back) /\ g[Len(r)] = z.issued
    <3>1. 0 \in 0 .. Len(r) /\ Len(r) \in 0 .. Len(r) /\ n + 0 = n /\ n + Len(r) = Len(x.q)
      BY <1>1, <1>5, <1>17
    <3> QED BY <1>9, <1>14, <1>21, <2>1, <3>1
  <2>4. ASSUME NEW i \in 1 .. Len(r)
        PROVE  IF z.q[i].type = "flip" THEN g[i] = g[i - 1] /\ g[i] \in z.flips
                                       ELSE g[i] = g[i - 1] + 1 /\ z.q[i].id = g[i]
    <3>1. i \in 0 .. Len(r) /\ i - 1 \in 0 .. Len(r) /\ n + i \in 1 .. Len(x.q) /\ n + (i - 1) = (n + i) - 1
      BY <1>1, <1>5, <1>17
    <3>2. z.q[i] = x.q[n + i] /\ g[i] = f[n + i] /\ g[i - 1] = f[(n + i) - 1]
      BY <1>17, <1>21, <2>1, <3>1
    <3> QED BY <1>9, <1>21, <3>1, <3>2
  <2> QED BY <1>21, <2>2, <2>3, <2>4 DEF Counts
<1> QED BY <1>20, <1>21, <1>22, <1>24 DEF Drawings

(* A drawing or a flip, whether it waits in the queue or is done at once: y is x with the call counted. *)
LEMMA Called ==
    ASSUME NEW x, Drawings(x), NEW y \in Disp, y.q = x.q, y.back = x.back, y.front = x.front, NEW op \in Op,
           IF op.type = "flip" THEN y.issued = x.issued /\ y.flips = x.flips \cup {x.issued}
                               ELSE y.issued = x.issued + 1 /\ y.flips = x.flips /\ op.id = y.issued
    PROVE  Drawings(RenderQPush(y, op)) /\ (x.q = <<>> => Drawings(Perform(y, op)))
<1>1. x \in Disp /\ Shown(x) /\ x.q \in Seq(Op) /\ Len(x.q) \in Nat /\ x.issued \in Nat /\ y.issued \in Nat
      /\ y.flips \in SUBSET Nat /\ Len(y.back) \in Nat /\ x.flips \subseteq y.flips
  BY DispFields DEF Drawings
<1>2. PICK f : Counts(f, x, Len(x.q))
  BY DEF Drawings
<1>3. /\ f \in [0 .. Len(x.q) -> Nat] /\ f[0] = Len(x.back) /\ f[Len(x.q)] = x.issued
      /\ \A i \in 1 .. Len(x.q) : IF x.q[i].type = "flip" THEN f[i] = f[i - 1] /\ f[i] \in x.flips
                                                       ELSE f[i] = f[i - 1] + 1 /\ x.q[i].id = f[i]
  BY <1>2 DEF Counts
<1>4. Shown(y)
  BY <1>1 DEF Shown
<1>5. PICK r : r = Append(x.q, op)
  OBVIOUS
<1>6. PICK n \in Nat : n = Len(x.q) + 1
  BY <1>1
<1>7. r \in Seq(Op) /\ Len(r) = n /\ r[n] = op /\ \A i \in 1 .. Len(x.q) : r[i] = x.q[i]
  BY <1>1, <1>5, <1>6
<1>8. PICK z : z = [y EXCEPT !.q = r]
  OBVIOUS
<1>9. z \in Disp /\ z.q = r /\ z.back = y.back /\ z.front = y.front /\ z.issued = y.issued /\ z.flips = y.flips
  BY <1>7, <1>8 DEF Disp
<1>10. Drawings(z)
  <2>1. PICK g : g = [i \in 0 .. n |-> IF i = n THEN y.issued ELSE f[i]]
    OBVIOUS
  <2>2. g[n] = y.issued /\ \A i \in 0 .. Len(x.q) : g[i] = f[i]
    BY <1>1, <1>6, <2>1
  <2>3. g \in [0 .. n -> Nat]
    BY <1>1, <1>3, <1>6, <2>1
  <2>4. g[0] = Len(z.back)
    BY <1>1, <1>3, <1>9, <2>2
  <2>5. ASSUME NEW i \in 1 .. n
        PROVE  IF z.q[i].type = "flip" THEN g[i] = g[i - 1] /\ g[i] \in z.flips
                                       ELSE g[i] = g[i - 1] + 1 /\ z.q[i].id = g[i]
    <3>1. CASE i = n
      <4>1. g[i] = y.issued /\ g[i - 1] = x.issued /\ z.q[i] = op
        <5>1. i - 1 = Len(x.q) /\ Len(x.q) \in 0 .. Len(x.q)
          BY <1>1, <1>6, <3>1
        <5>2. g[i - 1] = f[Len(x.q)]
          BY <2>2, <5>1
        <5> QED BY <1>3, <1>7, <1>9, <2>2, <3>1, <5>2, Zenon
      <4>2. CASE op.type = "flip"
        <5>1. y.issued = x.issued /\ y.issued \in z.flips
          BY <1>9, <4>2
        <5> QED BY <4>1, <4>2, <5>1
      <4>3. CASE op.type # "flip"
        <5>1. y.issued = x.issued + 1 /\ op.id = y.issued
          BY <4>3
        <5> QED BY <4>1, <4>3, <5>1
      <4> QED BY <4>2, <4>3
    <3>2. CASE i # n
      <4>1. i \in 1 .. Len(x.q) /\ i \in 0 .. Len(x.q) /\ i - 1 \in 0 .. Len(x.q)
        BY <1>1, <1>6, <3>2
      <4>2. g[i] = f[i] /\ g[i - 1] = f[i - 1] /\ z.q[i] = x.q[i]
        BY <1>7, <1>9, <2>2, <4>1
      <4>3. IF x.q[i].type = "flip" THEN f[i] = f[i - 1] /\ f[i] \in x.flips
                                    ELSE f[i] = f[i - 1] + 1 /\ x.q[i].id = f[i]
        BY <1>3, <4>1
      <4>4. x.flips \subseteq z.flips
        BY <1>1, <1>9
      <4> QED BY <4>2, <4>3, <4>4
    <3> QED BY <3>1, <3>2
  <2>6. Counts(g, z, Len(z.q))
    BY <1>7, <1>9, <2>2, <2>3, <2>4, <2>5 DEF Counts
  <2>7. Shown(z)
    BY <1>4, <1>9 DEF Shown
  <2> QED BY <1>9, <2>6, <2>7 DEF Drawings
<1>11. RenderQPush(y, op) = IF Len(z.q) = 1 THEN ScanRenderQ(z) ELSE z
  BY <1>5, <1>8 DEF RenderQPush
<1>12. Drawings(RenderQPush(y, op))
  BY <1>10, <1>11, Scanned
<1>13. ASSUME x.q = <<>> PROVE Drawings(Perform(y, op))
  <2>1. Len(x.q) = 0 /\ Len(x.back) = x.issued
    BY <1>3, <1>13
  <2>2. IF op.type = "flip" THEN y.issued = Len(y.back) /\ y.issued \in y.flips
                            ELSE y.issued = Len(y.back) + 1 /\ op.id = y.issued
    BY <2>1
  <2>3. PICK w : w = Perform(y, op)
    OBVIOUS
  <2>4. w \in Seen(y) /\ Shown(w) /\ Len(w.back) = y.issued
    BY <1>1, <1>4, <2>2, <2>3, Performed
  <2>5. w \in Disp /\ w.q = x.q /\ w.issued = y.issued
    BY <2>4, SeenIs
  <2>6. PICK g : g = [i \in 0 .. 0 |-> y.issued]
    OBVIOUS
  <2>7. Counts(g, w, Len(w.q))
    BY <1>1, <2>1, <2>4, <2>5, <2>6 DEF Counts
  <2> QED BY <2>3, <2>4, <2>5, <2>7 DEF Drawings
<1> QED BY <1>12, <1>13

LEMMA DrawnInOrder ==
    ASSUME NEW x, Drawings(x), NEW of \in Nat
    PROVE  Drawings(Draw(x, of)) /\ Drawings(Image(x, of))
<1>1. x \in Disp /\ x.issued \in Nat
  BY DispFields DEF Drawings
<1>2. PICK y : y = [x EXCEPT !.issued = @ + 1]
  OBVIOUS
<1>3. y \in Disp /\ y.q = x.q /\ y.back = x.back /\ y.front = x.front /\ y.issued = x.issued + 1 /\ y.flips = x.flips
  <2>1. PICK k \in Nat : k = x.issued + 1
    BY <1>1
  <2>2. y = [x EXCEPT !.issued = k]
    BY <1>2, <2>1
  <2> QED BY ONLY <1>1, <2>1, <2>2 DEF Disp
<1>4. PICK a : a = [type |-> "draw", id |-> x.issued + 1, of |-> of, ready |-> TRUE]
  OBVIOUS
<1>5. a \in Op /\ a.type # "flip" /\ a.id = x.issued + 1
  BY <1>1, <1>4 DEF Op
<1>6. PICK b : b = [type |-> "img", id |-> x.issued + 1, of |-> of, ready |-> FALSE]
  OBVIOUS
<1>7. b \in Op /\ b.type # "flip" /\ b.id = x.issued + 1
  BY <1>1, <1>6 DEF Op
<1>8. Drawings(RenderQPush(y, a)) /\ (x.q = <<>> => Drawings(Perform(y, a)))
  BY <1>3, <1>5, Called
<1>9. Drawings(RenderQPush(y, b))
  BY <1>3, <1>7, Called
<1>10. Draw(x, of) = IF x.q # <<>> THEN RenderQPush(y, a) ELSE Perform(y, a)
  BY <1>2, <1>4 DEF Draw
<1>11. Image(x, of) = RenderQPush(y, b)
  BY <1>2, <1>6 DEF Image
<1> QED BY <1>8, <1>9, <1>10, <1>11

LEMMA FlippedInOrder ==
    ASSUME NEW x, Drawings(x)
    PROVE  Drawings(Flip(x))
<1>1. x \in Disp /\ x.issued \in Nat /\ x.flips \in SUBSET Nat
  BY DispFields DEF Drawings
<1>2. PICK y : y = [x EXCEPT !.flips = @ \cup {x.issued}]
  OBVIOUS
<1>3. /\ y \in Disp /\ y.q = x.q /\ y.back = x.back /\ y.front = x.front /\ y.issued = x.issued
      /\ y.flips = x.flips \cup {x.issued}
  BY <1>1, <1>2 DEF Disp
<1>4. PICK a : a = [type |-> "flip", id |-> 0, of |-> 0, ready |-> TRUE]
  OBVIOUS
<1>5. a \in Op /\ a.type = "flip"
  BY <1>4 DEF Op
<1>6. Drawings(RenderQPush(y, a)) /\ (x.q = <<>> => Drawings(Perform(y, a)))
  BY <1>3, <1>5, Called
<1>7. Flip(x) = IF x.q # <<>> THEN RenderQPush(y, a) ELSE Perform(y, a)
  BY <1>2, <1>4 DEF Flip
<1> QED BY <1>6, <1>7

(* Nothing else moves the drawings: the flush, and an image that is decoded. *)
LEMMA DrawingsKept ==
    ASSUME NEW x, Drawings(x), NEW y \in Disp, y.back = x.back, y.front = x.front, y.issued = x.issued,
           y.flips = x.flips, Len(y.q) = Len(x.q), \A i \in 1 .. Len(x.q) : y.q[i].type = x.q[i].type /\ y.q[i].id = x.q[i].id
    PROVE  Drawings(y)
<1>1. PICK f : Counts(f, x, Len(x.q))
  BY DEF Drawings
<1>2. Counts(f, y, Len(y.q))
  BY <1>1 DEF Counts
<1>3. Shown(y)
  BY DEF Drawings, Shown
<1> QED BY <1>2, <1>3 DEF Drawings

LEMMA FlushedInOrder ==
    ASSUME NEW x, Drawings(x), NEW u \in {"none", "waiting", "resolved"}
    PROVE  Drawings([x EXCEPT !.flush = u])
<1>1. PICK y : y = [x EXCEPT !.flush = u]
  OBVIOUS
<1>2. x \in Disp
  BY DEF Drawings
<1>3. y \in Disp /\ y.q = x.q /\ y.back = x.back /\ y.front = x.front /\ y.issued = x.issued /\ y.flips = x.flips
  BY <1>1, <1>2 DEF Disp
<1> QED BY <1>1, <1>3, DrawingsKept

LEMMA LoadedInOrder ==
    ASSUME NEW x, Drawings(x), NEW i \in DOMAIN x.q
    PROVE  Drawings(Loaded(x, i))
<1>1. x \in Disp /\ x.q \in Seq(Op) /\ i \in 1 .. Len(x.q) /\ Len(x.q) \in Nat /\ x.q[i] \in Op
  BY DispFields DEF Drawings
<1>2. PICK a : a = [x.q[i] EXCEPT !.ready = TRUE]
  OBVIOUS
<1>3. a \in Op /\ a.type = x.q[i].type /\ a.id = x.q[i].id
  BY <1>1, <1>2 DEF Op
<1>4. PICK r : r = [x.q EXCEPT ![i] = a]
  OBVIOUS
<1>5. r \in Seq(Op) /\ Len(r) = Len(x.q) /\ \A k \in 1 .. Len(x.q) : r[k] = IF k = i THEN a ELSE x.q[k]
  BY <1>1, <1>3, <1>4
<1>6. PICK y : y = [x EXCEPT !.q = r]
  OBVIOUS
<1>7. y \in Disp /\ y.q = r /\ y.back = x.back /\ y.front = x.front /\ y.issued = x.issued /\ y.flips = x.flips
  BY <1>1, <1>5, <1>6 DEF Disp
<1>8. \A k \in 1 .. Len(x.q) : y.q[k].type = x.q[k].type /\ y.q[k].id = x.q[k].id
  BY <1>3, <1>5, <1>7
<1>9. Drawings(y)
  BY <1>5, <1>7, <1>8, DrawingsKept
<1>10. Loaded(x, i) = IF i = 1 THEN ScanRenderQ(y) ELSE y
  BY <1>2, <1>4, <1>6 DEF Loaded
<1> QED BY <1>9, <1>10, Scanned

LEMMA InitDrawings == Init => Drawings(d)
<1> SUFFICES ASSUME Init PROVE Drawings(d)
  OBVIOUS
<1>1. d.q = <<>> /\ d.back = <<>> /\ d.front = 0 /\ d.issued = 0 /\ d.flips = {0} /\ d.flush = "none"
      /\ d = [q |-> d.q, back |-> d.back, front |-> d.front, flush |-> d.flush, issued |-> d.issued, flips |-> d.flips]
  BY DEF Init, DInit
<1>2. d \in Disp
  <2>1. d.q \in Seq(Op) /\ d.back \in Seq(Nat)
    BY <1>1, EmptySeq
  <2>2. d.front \in Nat /\ d.issued \in Nat /\ d.flips \in SUBSET Nat /\ d.flush \in {"none", "waiting", "resolved"}
    BY <1>1
  <2>3. d = [q |-> d.q, back |-> d.back, front |-> d.front, flush |-> d.flush, issued |-> d.issued, flips |-> d.flips]
    BY <1>1, Zenon
  <2> QED BY ONLY <2>1, <2>2, <2>3 DEF Disp
<1>3. PICK f : f = [i \in 0 .. 0 |-> 0]
  OBVIOUS
<1>4. Len(d.q) = 0 /\ Len(d.back) = 0
  BY <1>1
<1>5. Counts(f, d, 0)
  BY <1>1, <1>3, <1>4 DEF Counts
<1>6. Shown(d)
  BY <1>1, <1>4 DEF Shown
<1> QED BY <1>2, <1>4, <1>5, <1>6, Zenon DEF Drawings

LEMMA ReadDraws ==
    ASSUME NEW n, NEW x, NEW y, Drawings(y), Read(n, x, y) \/ Done(n, x, y)
    PROVE  Drawings(d')
<1>1. d' = y \/ d' = Flip(y)
  BY DEF Read, Done
<1> QED BY <1>1, FlippedInOrder, Zenon

LEMMA WaitDraws ==
    ASSUME NEW n, NEW m, Drawings(d), Wait \/ Back(n, m) \/ WaitsFor(n, m)
    PROVE  Drawings(d')
<1>1. d' = d
  BY DEF Wait, Back, WaitsFor
<1> QED BY <1>1, Zenon

LEMMA InflatesDraws ==
    ASSUME NEW x, NEW y, Drawings(d), Drawings(y), Inflates(x, y)
    PROVE  Drawings(d')
BY ReadDraws, WaitDraws, Zenon DEF Inflates

LEMMA RectDraws ==
    ASSUME Typed, Drawings(d), HandleRect
    PROVE  Drawings(d')
<1>1. p.frame \in Nat
  BY DEF Typed, Parser
<1>2. Drawings(Drawn) /\ Drawings(Queued) /\ Drawings(Flip(d))
  BY <1>1, DrawnInOrder, FlippedInOrder DEF Drawn, Queued
<1>3. \A c : Drawings(IF c THEN Flip(d) ELSE d) /\ Drawings(IF c THEN Drawn ELSE d) /\ Drawings(IF c THEN d ELSE Drawn)
             /\ Drawings(IF c THEN Queued ELSE d)
  BY <1>2
<1>4. CASE LastRect
  BY <1>4, ReadDraws, Zenon DEF LastRect
<1>5. CASE Flags
  BY <1>3, <1>5, ReadDraws, Zenon DEF Flags
<1>6. CASE OneField
  BY <1>3, <1>6, ReadDraws, WaitDraws, Zenon DEF OneField
<1>7. CASE TwoFields
  BY <1>7, ReadDraws, WaitDraws, Zenon DEF TwoFields
<1>8. CASE ExtendedDesktopSize
  BY <1>2, <1>8, ReadDraws, WaitDraws, Zenon DEF ExtendedDesktopSize
<1>9. CASE Raw
  BY <1>2, <1>9, ReadDraws, Zenon DEF Raw
<1>10. CASE RRE
  BY <1>2, <1>10, ReadDraws, WaitDraws, Zenon DEF RRE
<1>11. CASE Hextile
  BY <1>3, <1>11, ReadDraws, Zenon DEF Hextile
<1>12. CASE Zlib
  BY <1>2, <1>12, ReadDraws, InflatesDraws, Zenon DEF Zlib
<1>13. CASE ZRLE
  BY <1>3, <1>13, InflatesDraws, Zenon DEF ZRLE
<1>14. CASE TightCtl
  BY <1>14, ReadDraws, WaitDraws, Zenon DEF TightCtl
<1>15. CASE TightFill
  BY <1>2, <1>15, ReadDraws, WaitDraws, Zenon DEF TightFill
<1>16. CASE TightJpeg
  BY <1>2, <1>16, InflatesDraws, Zenon DEF TightJpeg
<1>17. CASE TightFilter
  BY <1>17, ReadDraws, WaitDraws, Zenon DEF TightFilter
<1>18. CASE TightPalette
  BY <1>18, ReadDraws, WaitDraws, Zenon DEF TightPalette
<1>19. CASE TightPixels
  BY <1>2, <1>19, ReadDraws, WaitDraws, InflatesDraws, Zenon DEF TightPixels
<1>20. CASE Jpegs
  BY <1>3, <1>20, ReadDraws, WaitDraws, Zenon DEF Jpegs
<1>21. CASE H264
  BY <1>3, <1>21, ReadDraws, WaitDraws, Zenon DEF H264
<1> QED BY <1>4, <1>5, <1>6, <1>7, <1>8, <1>9, <1>10, <1>11, <1>12, <1>13, <1>14, <1>15, <1>16, <1>17, <1>18, <1>19,
           <1>20, <1>21, Zenon DEF HandleRect

LEMMA MessageDraws ==
    ASSUME Drawings(d), UpdateHeader \/ Bell \/ Xvp \/ ServerFence \/ ServerCutText \/ EndOfContinuousUpdates \/ RectHeader
    PROVE  Drawings(d')
<1>1. ASSUME NEW m, NEW n, Message1(m, n) PROVE d' = d
  BY <1>1 DEF Message1, Wait
<1>2. Bell \/ Xvp \/ EndOfContinuousUpdates => d' = d
  BY <1>1 DEF Bell, Xvp, EndOfContinuousUpdates
<1>3. ServerFence \/ ServerCutText => Drawings(d')
  BY <1>1, WaitDraws, Zenon DEF ServerFence, ServerCutText
<1>4. UpdateHeader => d' = d \/ d' = Flush(d) \/ d' = Flip(d)
  BY DEF UpdateHeader, UpdateBegins, Wait
<1>5. Drawings(Flush(d))
  BY FlushedInOrder DEF Flush
<1>6. RectHeader => Drawings(d')
  BY ReadDraws, WaitDraws, Zenon DEF RectHeader
<1>7. Drawings(Flip(d))
  BY FlippedInOrder
<1> QED BY <1>2, <1>3, <1>4, <1>5, <1>6, <1>7, Zenon

LEMMA StepDrawings ==
    ASSUME Typed, Drawings(d), [Next]_vars
    PROVE  Drawings(d')
<1>1. HandleMessage => Drawings(d')
  BY RectDraws, MessageDraws, Zenon DEF HandleMessage
<1>2. Receive \/ ServerUpdates \/ ServerEmptyUpdate \/ ServerMessage \/ UNCHANGED vars => d' = d
  BY DEF Receive, ServerUpdates, ServerEmptyUpdate, ServerMessage, Send, vars
<1>3. Flushed => Drawings(d')
  <2>1. Flushed => d' = [d EXCEPT !.flush = "none"]
    BY DEF Flushed
  <2>2. Drawings([d EXCEPT !.flush = "none"])
    BY FlushedInOrder
  <2> QED BY <2>1, <2>2, Zenon
<1>4. ImageLoads => Drawings(d')
  BY LoadedInOrder DEF ImageLoads
<1> QED BY <1>1, <1>2, <1>3, <1>4, Zenon DEF Next

(***************************************************************************)
(* The theorems.                                                            *)
(***************************************************************************)
LEMMA StreamInvariant == Spec => []StreamInv
BY InitStream, StreamStep, PTL DEF Spec

(* However the channel cuts the stream and however often a decoder starts    *)
(* over (websock.js rQwait, rfb.js _handleMessage and _framebufferUpdate),    *)
(* the parser stands where the server began a field of the kind that it is   *)
(* about to read, for every mix of rectangle types and messages and any      *)
(* number of them.                                                          *)
THEOREM ParserStaysAligned == Spec => []Aligned
BY StreamInvariant, InvAligned, PTL

(* When the loop of _handleMessage is done and nothing is on the way, all    *)
(* that came has been used: no whole message waits for the next one.         *)
THEOREM NothingIsLeftLying == Spec => []ArrivedIsHandled
BY StreamInvariant, InvArrived, PTL

(* Until the server knows continuous updates, there are never two update     *)
(* requests under way, whatever the sizes of the updates: exactly one is      *)
(* unanswered, on its way back or being read, unless an update of no          *)
(* rectangles came while the display was busy (_framebufferUpdate,            *)
(* _normalMsg): then none is, for good.                                      *)
THEOREM OneRequestAtATime == Spec => []OneUpdateAsked
BY StreamInvariant, InvAsked, PTL

(* Drawings reach the hidden canvas in the order of the calls (display.js    *)
(* _renderQPush and _scanRenderQ), whichever images are decoded first, and a *)
(* flip shows what had been drawn when it was called, for any number of      *)
(* drawings, images and flips in the queue.                                 *)
THEOREM DrawingsInOrder == Spec => []InOrder
<1>1. StreamInv /\ Drawings(d) /\ [Next]_vars => Drawings(d)'
  BY StepDrawings DEF StreamInv
<1>2. Drawings(d) => InOrder
  <2>1. ASSUME Drawings(d) PROVE DOMAIN d.back = 1 .. Len(d.back)
    BY <2>1, DispFields DEF Drawings
  <2> QED BY <2>1 DEF Drawings, Shown, InOrder
<1>3. Spec => []Drawings(d)
  BY <1>1, InitDrawings, StreamInvariant, PTL DEF Spec
<1> QED BY <1>2, <1>3, PTL
=============================================================================
