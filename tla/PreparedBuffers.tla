--------------------------- MODULE PreparedBuffers ---------------------------
(***************************************************************************)
(* The arithmetic of a wallpaper: how a client decodes an image once for   *)
(* the outputs it prepares, places it on each (src/src/image/fit.c,        *)
(* layout.c), samples it (image.c) and shares what it rendered between     *)
(* outputs of one size (ipc/client.c, ipc/prepared.c).                     *)
(*                                                                         *)
(* A pixel is where it is sampled: a buffer is its placement, and the      *)
(* source range each of its columns and rows averages.  uint32_t is % Word *)
(* where a sum or a difference may leave it; products are taken in 64 bits *)
(* by the code and never do.                                               *)
(***************************************************************************)
EXTENDS Integers, Sequences, FiniteSetsExt

CONSTANTS
  Word,         \* 2^32
  MaxSide,      \* MAX_DIMENSION of an image
  MaxPixels,    \* MAX_PIXELS of an image
  MaxExtent,    \* LAYOUT_MAX_EXTENT
  MaxBuffer,    \* MAX_PREPARE_DIMENSION of a buffer
  MaxArea,      \* pixels whose bytes INT32_MAX counts
  Images,       \* what may be in the file: its size, and whether it is a JPEG
  OutputLists   \* what the daemon may answer, in order, and which are selected

ASSUME WordAssumption ==
  /\ Word \in Nat /\ MaxSide \in Nat /\ MaxPixels \in Nat
  /\ MaxExtent \in Nat /\ MaxBuffer \in Nat /\ MaxArea \in Nat
  /\ 2 * MaxSide < Word /\ 2 * MaxBuffer < Word /\ MaxExtent < Word

Fits == {"cover", "contain", "center", "tile", "span"}

\* `box` is the logical place of an output, `width` and `height` its buffer.
\* The command prepares the selected outputs; all are in the layout.
ASSUME InputAssumption ==
  /\ Images \subseteq [width : 0..Word - 1, height : 0..Word - 1, jpeg : BOOLEAN]
  /\ \A list \in OutputLists :
       list \in Seq([box : [x : -Word..Word, y : -Word..Word, w : 0..Word - 1, h : 0..Word - 1],
                        width : 0..Word - 1, height : 0..Word - 1, fit : Fits,
                        selected : BOOLEAN])

VARIABLES
  file,      \* the image to be shown
  outputs,   \* the outputs of the reply
  decoded,   \* the decoded image
  made       \* what was made for the outputs so far: buffers or failures

vars == <<file, outputs, decoded, made>>

-----------------------------------------------------------------------------
(* fit.c.                                                                  *)

Lesser(a, b) == IF a < b THEN a ELSE b
Larger(a, b) == IF a < b THEN b ELSE a
Wrap(n) == n % Word

Rect(x, y, w, h) == [x |-> x, y |-> y, w |-> w, h |-> h]
Placement(src, dst) == [src |-> src, dst |-> dst]

\* mutant: the crop is taken along the other side
CoverRectSwapped(sw, sh, ow, oh) ==
  IF sw * oh < ow * sh
  THEN LET w == Lesser((sh * ow) \div oh, sw) IN Rect((sw - w) \div 2, 0, w, sh)
  ELSE LET h == Lesser((sw * oh) \div ow, sh) IN Rect(0, (sh - h) \div 2, sw, h)

CoverRect(sw, sh, ow, oh) ==
  IF sw * oh > ow * sh
  THEN LET w == Lesser((sh * ow) \div oh, sw) IN Rect((sw - w) \div 2, 0, w, sh)
  ELSE LET h == Lesser((sw * oh) \div ow, sh) IN Rect(0, (sh - h) \div 2, sw, h)

\* mutant: a letterbox or a slice may be empty
MaybeZero(n) == n

AtLeastOne(n) == IF n = 0 THEN 1 ELSE n

ContainRects(sw, sh, ow, oh) ==
  LET wider == sw * oh > ow * sh
      w == AtLeastOne(IF wider THEN ow ELSE (sw * oh) \div sh)
      h == AtLeastOne(IF wider THEN (sh * ow) \div sw ELSE oh)
  IN Placement(Rect(0, 0, sw, sh), Rect((ow - w) \div 2, (oh - h) \div 2, w, h))

CenterRects(sw, sh, ow, oh) ==
  LET w == Lesser(sw, ow)
      h == Lesser(sh, oh)
  IN Placement(Rect((sw - w) \div 2, (sh - h) \div 2, w, h),
               Rect((ow - w) \div 2, (oh - h) \div 2, w, h))

\* the part of a crop of `len` pixels that a slice of the layout shows
SpanAxis(at, len, slicePos, sliceLen, extent) ==
  LET limit == Wrap(at + len)
      rawPos == Wrap(at + (slicePos * len) \div extent)
      rawLen == AtLeastOne((sliceLen * len) \div extent)
      pos == IF rawPos >= limit THEN Wrap(limit - 1) ELSE rawPos
  IN [pos |-> pos,
      len |-> IF Wrap(pos + rawLen) > limit THEN Wrap(limit - pos) ELSE rawLen]

SpanRects(sw, sh, layout, dw, dh) ==
  LET s == layout.slice
      cover == CoverRect(sw, sh, layout.w, layout.h)
      x == SpanAxis(cover.x, cover.w, s.x, s.w, layout.w)
      y == SpanAxis(cover.y, cover.h, s.y, s.h, layout.h)
  IN Placement(Rect(x.pos, y.pos, x.len, y.len), Rect(0, 0, dw, dh))

FitPlacement(fit, sw, sh, ow, oh) ==
  CASE fit = "contain" -> ContainRects(sw, sh, ow, oh)
    [] fit = "center" -> CenterRects(sw, sh, ow, oh)
    [] OTHER -> Placement(CoverRect(sw, sh, ow, oh), Rect(0, 0, ow, oh))

-----------------------------------------------------------------------------
(* layout.c: the place of an output in the box around the outputs that     *)
(* have a place; NoLayout when this one has none or the box is too large.      *)

NoLayout == [w |-> 0, h |-> 0, slice |-> Rect(0, 0, 0, 0)]

Usable(box) == box.w \in 1..MaxExtent /\ box.h \in 1..MaxExtent

\* mutant: places are taken from the origin, not from the corner of the box
LayoutSliceFromOrigin(i) ==
  LET boxes == {outputs[k].box : k \in {k \in DOMAIN outputs : Usable(outputs[k].box)}}
      w == Max({b.x + b.w : b \in boxes}) - Min({b.x : b \in boxes})
      h == Max({b.y + b.h : b \in boxes}) - Min({b.y : b \in boxes})
      box == outputs[i].box
  IN IF Usable(box) /\ w <= MaxExtent /\ h <= MaxExtent
     THEN [w |-> w, h |-> h, slice |-> Rect(Wrap(box.x), Wrap(box.y), box.w, box.h)]
     ELSE NoLayout

LayoutSlice(i) ==
  LET boxes == {outputs[k].box : k \in {k \in DOMAIN outputs : Usable(outputs[k].box)}}
      left == Min({b.x : b \in boxes})
      top == Min({b.y : b \in boxes})
      w == Max({b.x + b.w : b \in boxes}) - left
      h == Max({b.y + b.h : b \in boxes}) - top
      box == outputs[i].box
  IN IF Usable(box) /\ w <= MaxExtent /\ h <= MaxExtent
     THEN [w |-> w, h |-> h, slice |-> Rect(box.x - left, box.y - top, box.w, box.h)]
     ELSE NoLayout

\* where an output takes its pixels from; a span without a layout is a cover
PlacementFor(i, sw, sh) ==
  LET o == outputs[i]
  IN IF o.fit = "span" /\ LayoutSlice(i) # NoLayout
     THEN SpanRects(sw, sh, LayoutSlice(i), o.width, o.height)
     ELSE FitPlacement(o.fit, sw, sh, o.width, o.height)

-----------------------------------------------------------------------------
(* Decoding: a JPEG is decoded at an eighth, a fourth or half of its size  *)
(* if that is enough for every selected output.                            *)

TargetFits(i, sw, sh) ==
  LET place == PlacementFor(i, sw, sh)
  IN /\ outputs[i].width # 0 /\ outputs[i].height # 0
     /\ outputs[i].fit \notin {"center", "tile"}
     /\ place.src.w >= place.dst.w /\ place.src.h >= place.dst.h

Selected == {i \in DOMAIN outputs : outputs[i].selected}

\* jpeg_calc_output_dimensions rounds up
Reduced(n, d) == (n + d - 1) \div d

Enough(d) ==
  /\ Selected # {}
  /\ \A i \in Selected : TargetFits(i, Reduced(file.width, d), Reduced(file.height, d))

Denominator == IF file.jpeg THEN Max({1} \cup {d \in {2, 4, 8} : Enough(d)}) ELSE 1

DimensionsOk(w, h) == w \in 1..MaxSide /\ h \in 1..MaxSide /\ w * h <= MaxPixels

-----------------------------------------------------------------------------
(* Rendering.                                                              *)

Skipped == [kind |-> "skipped"]
Failed == [kind |-> "failed"]
Tiled(o) == [kind |-> "tiled", width |-> o.width, height |-> o.height]
Blitted(place, o) ==
  [kind |-> "blitted", place |-> place, width |-> o.width, height |-> o.height]

\* sweetbg_prepared_buffer_size
Sized(o) ==
  /\ o.width \in 1..MaxBuffer /\ o.height \in 1..MaxBuffer
  /\ o.width * o.height <= MaxArea

Empty(rect) == rect.w = 0 \/ rect.h = 0
Inside(rect, w, h) == rect.x + rect.w <= w /\ rect.y + rect.h <= h

\* fill_spans: what column or row o of `out` averages
SpanStart(start, len, out, o) == start + (o * len) \div out

\* mutant: an output pixel smaller than an image pixel has none
SpanEndEmpty(start, len, out, o) == start + ((o + 1) * len) \div out

SpanEnd(start, len, out, o) ==
  Lesser(Larger(start + ((o + 1) * len) \div out, SpanStart(start, len, out, o) + 1), start + len)

\* sweetbg_prepared_buffer_for_output; only a span is checked for its bounds
Rendered(i) ==
  LET o == outputs[i]
      place == PlacementFor(i, decoded.width, decoded.height)
      spans == o.fit = "span" /\ LayoutSlice(i) # NoLayout
  IN CASE ~Sized(o) -> Failed
       [] Sized(o) /\ o.fit = "tile" -> Tiled(o)
       [] OTHER ->
            IF \/ Empty(place.src) \/ Empty(place.dst)
               \/ spans /\ ~(/\ Inside(place.src, decoded.width, decoded.height)
                             /\ Inside(place.dst, o.width, o.height))
            THEN Failed ELSE Blitted(place, o)

\* mutant: the slice of a span is stored like the rest
StoredAll(k) == made[k] \notin {Skipped, Failed}

\* buffers that later outputs may share
Stored(k) == made[k] \notin {Skipped, Failed} /\ outputs[k].fit # "span"

\* prepared_buffer_find
Sharable(i) ==
  {k \in DOMAIN made : /\ Stored(k)
                       /\ outputs[k].width = outputs[i].width
                       /\ outputs[k].height = outputs[i].height
                       /\ outputs[k].fit = outputs[i].fit}

-----------------------------------------------------------------------------
Unread == [width |-> 0, height |-> 0]
Unreadable == [width |-> -1, height |-> -1]

Init ==
  /\ file \in Images
  /\ outputs \in OutputLists
  /\ decoded = Unread
  /\ made = << >>

\* a command with nothing to prepare reads no image
Load ==
  /\ decoded = Unread
  /\ Selected # {}
  /\ decoded' = IF DimensionsOk(file.width, file.height)
                THEN [width |-> Reduced(file.width, Denominator),
                      height |-> Reduced(file.height, Denominator)]
                ELSE Unreadable
  /\ UNCHANGED <<file, outputs, made>>

\* the output whose turn it is
Due(i) ==
  /\ decoded \notin {Unread, Unreadable}
  /\ i = Len(made) + 1
  /\ i \in DOMAIN outputs

Skip(i) ==
  /\ Due(i)
  /\ i \notin Selected
  /\ made' = Append(made, Skipped)
  /\ UNCHANGED <<file, outputs, decoded>>

Share(i) ==
  /\ Due(i)
  /\ i \in Selected
  /\ \E k \in Sharable(i) : made' = Append(made, made[k])
  /\ UNCHANGED <<file, outputs, decoded>>

Render(i) ==
  /\ Due(i)
  /\ i \in Selected
  /\ Sharable(i) = {}
  /\ made' = Append(made, Rendered(i))
  /\ UNCHANGED <<file, outputs, decoded>>

Next == Load \/ \E i \in DOMAIN outputs : Skip(i) \/ Share(i) \/ Render(i)

Spec == Init /\ [][Next]_vars

-----------------------------------------------------------------------------
(* Properties.                                                             *)

\* Rendering averages at least one pixel for every column and row, reads
\* none outside the image and writes none outside the buffer, although only
\* spans are checked for that.
SamplesInside(start, len, out, size) ==
  \A o \in 0..out - 1 :
    /\ SpanStart(start, len, out, o) < SpanEnd(start, len, out, o)
    /\ SpanEnd(start, len, out, o) <= size

InBounds ==
  \A k \in DOMAIN made : made[k].kind = "blitted" =>
    LET src == made[k].place.src
        dst == made[k].place.dst
    IN /\ SamplesInside(src.x, src.w, dst.w, decoded.width)
       /\ SamplesInside(src.y, src.h, dst.h, decoded.height)
       /\ Inside(dst, outputs[k].width, outputs[k].height)

\* A buffer shared with an output before shows what the output would have
\* got for itself.
OwnPicture == \A k \in DOMAIN made \cap Selected : made[k] = Rendered(k)

\* One side of the image whole, and the other as long as the shape allows,
\* to the pixel: c of n pixels are to d as a are to b.
Proportional(c, n, a, b) == c * b <= a * n /\ a * n < (c + 1) * b

Centered(pos, len, size) == pos - (size - pos - len) \in {-1, 0}

\* Cover crops no more than it must and contain leaves no more margin than
\* it must (but for a letterbox of one pixel), and both are centred.
Undistorted ==
  \A k \in DOMAIN made : made[k].kind = "blitted" =>
    LET o == outputs[k]
        src == made[k].place.src
        dst == made[k].place.dst
        w == decoded.width
        h == decoded.height
    IN /\ o.fit = "cover" =>
            /\ \/ src.w = w /\ Proportional(src.h, w, o.height, o.width)
               \/ src.h = h /\ Proportional(src.w, h, o.width, o.height)
            /\ Centered(src.x, src.w, w) /\ Centered(src.y, src.h, h)
       /\ o.fit = "contain" =>
            /\ \/ dst.w = o.width /\ (dst.h = 1 \/ Proportional(dst.h, o.width, h, w))
               \/ dst.h = o.height /\ (dst.w = 1 \/ Proportional(dst.w, o.height, w, h))
            /\ Centered(dst.x, dst.w, o.width) /\ Centered(dst.y, dst.h, o.height)

Spanned(k) ==
  k \in DOMAIN made /\ made[k].kind = "blitted" /\ outputs[k].fit = "span" /\ LayoutSlice(k) # NoLayout

\* The slices of outputs that stand side by side, or one above the other,
\* meet in the image: at most one pixel of it falls between them or is shown
\* twice.
Meet(pos, len, next) == next - (pos + len) \in -1..1

SlicesMeet ==
  \A k, l \in DOMAIN made : Spanned(k) /\ Spanned(l) =>
    LET here == outputs[k].box
        there == outputs[l].box
        src == made[k].place.src
        next == made[l].place.src
    IN /\ here.x + here.w = there.x => Meet(src.x, src.w, next.x)
       /\ here.y + here.h = there.y => Meet(src.y, src.h, next.y)

\* The area whose shape a crop has to take
Frame(k) ==
  IF outputs[k].fit = "span" /\ LayoutSlice(k) # NoLayout
  THEN [w |-> LayoutSlice(k).w, h |-> LayoutSlice(k).h]
  ELSE [w |-> outputs[k].width, h |-> outputs[k].height]

\* An output whose buffer has a legal size is only refused a picture when
\* the crop is less than a pixel wide or high: an image so thin that the
\* shape of the output does not fit into it.
RefusesOnlyThin ==
  \A k \in DOMAIN made : made[k] = Failed /\ Sized(outputs[k]) =>
    /\ outputs[k].fit \in {"cover", "span"}
    /\ \/ decoded.height * Frame(k).w < Frame(k).h
       \/ decoded.width * Frame(k).h < Frame(k).w
=============================================================================
