------------------------ MODULE PreparedBuffersProofs ------------------------
(* What rendering does for images, outputs and limits of any size.          *)
EXTENDS PreparedBuffers, TLAPS, WellFoundedInduction

\* Bounded sets of integers have a least element.
LEMMA LeastExists ==
  ASSUME NEW S, S # {}, NEW low \in Int, \A n \in S : n \in Int /\ low <= n
  PROVE  \E m \in S : \A n \in S : m <= n
<1> DEFINE T == {n - low : n \in S}
           R == OpToRel(<, Nat)
<1>1. T \subseteq Nat /\ T # {}
  OBVIOUS
<1>2. PICK t \in T : \A n \in T : ~ (<<n, t>> \in R)
  <2>1. IsWellFoundedOn(R, Nat)
    BY NatLessThanWellFounded
  <2> HIDE DEF T, R
  <2>2. QED  BY <1>1, <2>1, WFMin
<1>3. ASSUME NEW n \in T PROVE t <= n
  <2>1. n \in Nat /\ t \in Nat
    BY <1>1
  <2> HIDE DEF T
  <2>2. <<n, t>> \in R <=> n < t
    BY <2>1 DEF OpToRel
  <2> HIDE DEF R
  <2>3. QED  BY <1>2, <2>1, <2>2
<1>4. PICK m \in S : t = m - low
  OBVIOUS
<1>5. ASSUME NEW n \in S PROVE m <= n
  <2>1. n - low \in T
    OBVIOUS
  <2>2. t <= n - low
    BY <1>3, <2>1
  <2> HIDE DEF T
  <2>3. QED  BY <1>4, <2>2
<1>6. QED  BY <1>5

LEMMA MinIsLeast ==
  ASSUME NEW S, S # {}, NEW low \in Int, \A n \in S : n \in Int /\ low <= n
  PROVE  Min(S) \in S /\ \A n \in S : Min(S) <= n
BY LeastExists DEF Min

LEMMA MaxIsGreatest ==
  ASSUME NEW S, S # {}, NEW high \in Int, \A n \in S : n \in Int /\ n <= high
  PROVE  Max(S) \in S /\ \A n \in S : n <= Max(S)
<1> DEFINE T == {- n : n \in S}
<1>1. T # {} /\ \A n \in T : n \in Int /\ - high <= n
  OBVIOUS
<1>2. PICK t \in T : \A n \in T : t <= n
  <2> HIDE DEF T
  <2>1. QED  BY <1>1, LeastExists
<1>3. PICK m \in S : t = - m
  OBVIOUS
<1>4. \A n \in S : m >= n
  BY <1>2, <1>3
<1>5. QED  BY <1>4 DEF Max

-----------------------------------------------------------------------------
(* Placements.                                                             *)

LEMMA QuotientIsNat ==
  \A a \in Nat, c \in Nat \ {0} : a \div c \in Nat
OBVIOUS

LEMMA QuotientAtMost ==
  ASSUME NEW a \in Nat, NEW b \in Nat, NEW c \in Nat \ {0}, a <= b * c
  PROVE  a \div c <= b
<1> DEFINE q == a \div c
<1>1. q \in Nat /\ c * q <= a
  OBVIOUS
<1> HIDE DEF q
<1>2. ASSUME b + 1 <= q PROVE FALSE
  <2>1. c * (b + 1) <= c * q
    BY <1>1, <1>2
  <2>2. QED  BY <1>1, <2>1
<1>3. QED  BY <1>1, <1>2 DEF q

LEMMA QuotientBelow ==
  ASSUME NEW a \in Nat, NEW b \in Nat, NEW c \in Nat \ {0}, a < b * c
  PROVE  a \div c < b
<1> DEFINE q == a \div c
<1>1. q \in Nat /\ c * q <= a
  OBVIOUS
<1> HIDE DEF q
<1>2. ASSUME b <= q PROVE FALSE
  <2>1. c * b <= c * q
    BY <1>1, <1>2
  <2>2. QED  BY <1>1, <2>1
<1>3. QED  BY <1>1, <1>2 DEF q

LEMMA QuotientAtLeast ==
  ASSUME NEW a \in Nat, NEW b \in Nat, NEW c \in Nat \ {0}, b * c <= a
  PROVE  b <= a \div c
<1> DEFINE q == a \div c
<1>1. q \in Nat /\ a < c * (q + 1)
  OBVIOUS
<1> HIDE DEF q
<1>2. ASSUME q + 1 <= b PROVE FALSE
  <2>1. c * (q + 1) <= c * b
    BY <1>1, <1>2
  <2>2. QED  BY <1>1, <2>1
<1>3. QED  BY <1>1, <1>2 DEF q

\* what two quotients lose is less than two
LEMMA QuotientSum ==
  ASSUME NEW a \in Nat, NEW b \in Nat, NEW c \in Nat \ {0}
  PROVE  /\ a \div c + b \div c <= (a + b) \div c
         /\ (a + b) \div c <= a \div c + b \div c + 1
<1> DEFINE q == a \div c
           r == b \div c
<1>1. q \in Nat /\ c * q <= a /\ a < c * q + c
  OBVIOUS
<1>2. r \in Nat /\ c * r <= b /\ b < c * r + c
  OBVIOUS
<1> HIDE DEF q, r
<1>3. (q + r) * c = c * q + c * r /\ (q + r + 2) * c = c * q + c * r + 2 * c
  BY <1>1, <1>2
<1>4. (q + r) * c <= a + b /\ a + b < (q + r + 2) * c
  BY <1>1, <1>2, <1>3
<1>5. q + r <= (a + b) \div c
  BY <1>1, <1>2, <1>4, QuotientAtLeast
<1>6. (a + b) \div c < q + r + 2
  BY <1>1, <1>2, <1>4, QuotientBelow
<1>7. QED  BY <1>1, <1>2, <1>5, <1>6, QuotientIsNat DEF q, r

LEMMA CoverInside ==
  ASSUME NEW sw \in Nat \ {0}, NEW sh \in Nat \ {0}, NEW ow \in Nat \ {0}, NEW oh \in Nat \ {0}
  PROVE  LET r == CoverRect(sw, sh, ow, oh)
         IN r \in [x : Nat, y : Nat, w : Nat, h : Nat] /\ Inside(r, sw, sh)
<1>1. (sh * ow) \div oh \in Nat /\ (sw * oh) \div ow \in Nat
  BY QuotientIsNat
<1>2. CASE sw * oh > ow * sh
  <2> DEFINE w == Lesser((sh * ow) \div oh, sw)
  <2>1. w \in Nat /\ w <= sw
    BY <1>1 DEF Lesser
  <2>2. CoverRect(sw, sh, ow, oh) = Rect((sw - w) \div 2, 0, w, sh)
    BY <1>2 DEF CoverRect
  <2> HIDE DEF w
  <2>3. QED  BY <2>1, <2>2 DEF Rect, Inside
<1>3. CASE ~(sw * oh > ow * sh)
  <2> DEFINE h == Lesser((sw * oh) \div ow, sh)
  <2>1. h \in Nat /\ h <= sh
    BY <1>1 DEF Lesser
  <2>2. CoverRect(sw, sh, ow, oh) = Rect(0, (sh - h) \div 2, sw, h)
    BY <1>3 DEF CoverRect
  <2> HIDE DEF h
  <2>3. QED  BY <2>1, <2>2 DEF Rect, Inside
<1>4. QED  BY <1>2, <1>3

\* what a placement must be for the loops of the blit
Safe(place, sw, sh, ow, oh) ==
  /\ place.src \in [x : Nat, y : Nat, w : Nat, h : Nat]
  /\ place.dst \in [x : Nat, y : Nat, w : Nat, h : Nat]
  /\ Inside(place.src, sw, sh) /\ Inside(place.dst, ow, oh)

LEMMA ContainInside ==
  ASSUME NEW sw \in Nat \ {0}, NEW sh \in Nat \ {0}, NEW ow \in Nat \ {0}, NEW oh \in Nat \ {0}
  PROVE  Safe(ContainRects(sw, sh, ow, oh), sw, sh, ow, oh)
<1> DEFINE wider == sw * oh > ow * sh
           w == AtLeastOne(IF wider THEN ow ELSE (sw * oh) \div sh)
           h == AtLeastOne(IF wider THEN (sh * ow) \div sw ELSE oh)
<1>1. w \in Nat /\ w <= ow
  <2>1. CASE wider
    BY <2>1 DEF AtLeastOne
  <2>2. CASE ~wider
    <3>1. (sw * oh) \div sh \in Nat
      BY QuotientIsNat
    <3>2. (sw * oh) \div sh <= ow
      BY <2>2, QuotientAtMost
    <3>3. QED  BY <2>2, <3>1, <3>2 DEF AtLeastOne
  <2>3. QED  BY <2>1, <2>2
<1>2. h \in Nat /\ h <= oh
  <2>1. CASE ~wider
    BY <2>1 DEF AtLeastOne
  <2>2. CASE wider
    <3>1. (sh * ow) \div sw \in Nat
      BY QuotientIsNat
    <3>2. sh * ow <= oh * sw
      BY <2>2
    <3>3. (sh * ow) \div sw <= oh
      BY <3>2, QuotientAtMost
    <3>4. QED  BY <2>2, <3>1, <3>3 DEF AtLeastOne
  <2>3. QED  BY <2>1, <2>2
<1>3. ContainRects(sw, sh, ow, oh)
        = Placement(Rect(0, 0, sw, sh), Rect((ow - w) \div 2, (oh - h) \div 2, w, h))
  BY DEF ContainRects
<1> HIDE DEF w, h
<1>4. QED  BY <1>1, <1>2, <1>3 DEF Safe, Placement, Rect, Inside

LEMMA CenterInside ==
  ASSUME NEW sw \in Nat \ {0}, NEW sh \in Nat \ {0}, NEW ow \in Nat \ {0}, NEW oh \in Nat \ {0}
  PROVE  Safe(CenterRects(sw, sh, ow, oh), sw, sh, ow, oh)
<1> DEFINE w == Lesser(sw, ow)
           h == Lesser(sh, oh)
<1>1. w \in Nat /\ w <= sw /\ w <= ow /\ h \in Nat /\ h <= sh /\ h <= oh
  BY DEF Lesser
<1>2. CenterRects(sw, sh, ow, oh)
        = Placement(Rect((sw - w) \div 2, (sh - h) \div 2, w, h),
                    Rect((ow - w) \div 2, (oh - h) \div 2, w, h))
  BY DEF CenterRects
<1> HIDE DEF w, h
<1>3. QED  BY <1>1, <1>2 DEF Safe, Placement, Rect, Inside

LEMMA FitInside ==
  ASSUME NEW fit, NEW sw \in Nat \ {0}, NEW sh \in Nat \ {0},
         NEW ow \in Nat \ {0}, NEW oh \in Nat \ {0}
  PROVE  Safe(FitPlacement(fit, sw, sh, ow, oh), sw, sh, ow, oh)
<1>1. CASE fit = "contain"
  BY <1>1, ContainInside DEF FitPlacement
<1>2. CASE fit = "center"
  BY <1>2, CenterInside DEF FitPlacement
<1>3. CASE fit \notin {"contain", "center"}
  <2> DEFINE r == CoverRect(sw, sh, ow, oh)
  <2>1. r \in [x : Nat, y : Nat, w : Nat, h : Nat] /\ Inside(r, sw, sh)
    BY CoverInside
  <2>2. FitPlacement(fit, sw, sh, ow, oh) = Placement(r, Rect(0, 0, ow, oh))
    BY <1>3 DEF FitPlacement
  <2> HIDE DEF r
  <2>3. QED  BY <2>1, <2>2 DEF Safe, Placement, Rect, Inside
<1>4. QED  BY <1>1, <1>2, <1>3

LEMMA WrapIsNat ==
  ASSUME NEW n \in Int PROVE Wrap(n) \in Nat
BY WordAssumption DEF Wrap

LEMMA SpanAxisTypes ==
  ASSUME NEW at \in Nat, NEW len \in Nat, NEW slicePos \in Int, NEW sliceLen \in Nat,
         NEW extent \in Nat \ {0}
  PROVE  LET a == SpanAxis(at, len, slicePos, sliceLen, extent)
         IN a.pos \in Nat /\ a.len \in Nat
<1> DEFINE limit == Wrap(at + len)
           rawPos == Wrap(at + (slicePos * len) \div extent)
           rawLen == AtLeastOne((sliceLen * len) \div extent)
           pos == IF rawPos >= limit THEN Wrap(limit - 1) ELSE rawPos
           end == Wrap(pos + rawLen)
           left == Wrap(limit - pos)
<1>1. limit \in Nat
  BY WrapIsNat
<1>2. rawPos \in Nat
  <2>1. at + (slicePos * len) \div extent \in Int
    OBVIOUS
  <2>2. QED  BY <2>1, WrapIsNat
<1>3. rawLen \in Nat
  <2>1. (sliceLen * len) \div extent \in Nat
    BY QuotientIsNat
  <2>2. QED  BY <2>1 DEF AtLeastOne
<1>4. pos \in Nat
  <2> HIDE DEF limit, rawPos
  <2>1. limit - 1 \in Int
    BY <1>1
  <2>2. Wrap(limit - 1) \in Nat
    BY <2>1, WrapIsNat
  <2>3. QED  BY <1>2, <2>2
<1>5. left \in Nat
  <2> HIDE DEF limit, pos
  <2>1. limit - pos \in Int
    BY <1>1, <1>4
  <2>2. QED  BY <2>1, WrapIsNat
<1>6. SpanAxis(at, len, slicePos, sliceLen, extent)
        = [pos |-> pos, len |-> IF end > limit THEN left ELSE rawLen]
  BY DEF SpanAxis
<1> HIDE DEF limit, rawPos, rawLen, pos, end, left
<1>7. QED  BY <1>3, <1>4, <1>5, <1>6

\* The part of a crop that a slice inside the layout shows: no sum leaves
\* its 32 bits, and it starts in the crop.
LEMMA SpanAxisAt ==
  ASSUME NEW at \in Nat, NEW len \in Nat \ {0}, at + len <= MaxSide,
         NEW slicePos \in Nat, NEW sliceLen \in Nat \ {0}, NEW extent \in Nat \ {0},
         slicePos + sliceLen <= extent
  PROVE  LET q == (slicePos * len) \div extent
             r == (sliceLen * len) \div extent
         IN /\ q \in Nat /\ r \in Nat /\ q < len
            /\ SpanAxis(at, len, slicePos, sliceLen, extent)
                 = [pos |-> at + q, len |-> Lesser(AtLeastOne(r), len - q)]
<1> DEFINE q == (slicePos * len) \div extent
           r == (sliceLen * len) \div extent
           n == AtLeastOne(r)
<1>1. /\ MaxSide \in Nat /\ 2 * MaxSide < Word /\ Word \in Nat
      /\ \A i \in Nat : i < Word => Wrap(i) = i
  BY WordAssumption DEF Wrap
<1>2. q \in Nat /\ r \in Nat
  BY QuotientIsNat
<1>3. q < len
  <2>1. slicePos * len < len * extent
    <3>1. slicePos + 1 <= extent
      OBVIOUS
    <3>2. (slicePos + 1) * len <= extent * len
      BY <3>1
    <3>3. QED  BY <3>2
  <2>2. slicePos * len \in Nat
    OBVIOUS
  <2>3. QED  BY <2>1, <2>2, QuotientBelow
<1>4. r <= len
  <2>1. sliceLen * len <= len * extent /\ sliceLen * len \in Nat
    <3>1. sliceLen <= extent
      OBVIOUS
    <3>2. QED  BY <3>1
  <2>2. QED  BY <2>1, QuotientAtMost
<1>5. SpanAxis(at, len, slicePos, sliceLen, extent)
        = [pos |-> IF Wrap(at + q) >= Wrap(at + len) THEN Wrap(Wrap(at + len) - 1) ELSE Wrap(at + q),
           len |-> IF Wrap((IF Wrap(at + q) >= Wrap(at + len) THEN Wrap(Wrap(at + len) - 1) ELSE Wrap(at + q)) + n)
                        > Wrap(at + len)
                   THEN Wrap(Wrap(at + len) - (IF Wrap(at + q) >= Wrap(at + len) THEN Wrap(Wrap(at + len) - 1) ELSE Wrap(at + q)))
                   ELSE n]
  BY DEF SpanAxis
<1> HIDE DEF q, r
<1>6. n \in Nat /\ 1 <= n /\ n <= len
  BY <1>2, <1>4 DEF AtLeastOne
<1> HIDE DEF n
<1>7. Wrap(at + len) = at + len /\ Wrap(at + q) = at + q
  BY <1>1, <1>2, <1>3
<1>8. Wrap(at + q + n) = at + q + n /\ Wrap((at + len) - (at + q)) = len - q
  <2>1. at + q + n < Word /\ at + q + n \in Nat /\ (at + len) - (at + q) = len - q
    BY <1>1, <1>2, <1>3, <1>6
  <2>2. len - q < Word /\ len - q \in Nat
    BY <1>1, <1>2, <1>3
  <2>3. QED  BY <1>1, <2>1, <2>2
<1>9. SpanAxis(at, len, slicePos, sliceLen, extent)
        = [pos |-> at + q, len |-> IF at + q + n > at + len THEN len - q ELSE n]
  <2>1. ~(at + q >= at + len)
    BY <1>2, <1>3
  <2>2. QED  BY <1>5, <1>7, <1>8, <2>1
<1>10. (IF at + q + n > at + len THEN len - q ELSE n) = Lesser(n, len - q)
  BY <1>2, <1>3, <1>6 DEF Lesser
<1>11. QED  BY <1>2, <1>3, <1>9, <1>10 DEF q, r, n

LEMMA SpanAxisInside ==
  ASSUME NEW at \in Nat, NEW len \in Nat \ {0}, at + len <= MaxSide,
         NEW slicePos \in Nat, NEW sliceLen \in Nat \ {0}, NEW extent \in Nat \ {0},
         slicePos + sliceLen <= extent
  PROVE  LET a == SpanAxis(at, len, slicePos, sliceLen, extent)
         IN a.pos \in Nat /\ a.len \in Nat \ {0} /\ a.pos + a.len <= at + len
<1> DEFINE q == (slicePos * len) \div extent
           r == (sliceLen * len) \div extent
<1>1. /\ q \in Nat /\ r \in Nat /\ q < len
      /\ SpanAxis(at, len, slicePos, sliceLen, extent)
           = [pos |-> at + q, len |-> Lesser(AtLeastOne(r), len - q)]
  BY SpanAxisAt
<1> HIDE DEF q, r
<1>2. QED  BY <1>1 DEF Lesser, AtLeastOne

\* Slices that share an edge show parts that meet, also of an empty crop.
LEMMA SpanAxesMeet ==
  ASSUME NEW at \in Nat, NEW len \in Nat, at + len <= MaxSide,
         NEW p \in Nat, NEW l \in Nat \ {0}, NEW m \in Nat \ {0}, NEW extent \in Nat \ {0},
         p + l + m <= extent
  PROVE  LET a == SpanAxis(at, len, p, l, extent)
             b == SpanAxis(at, len, p + l, m, extent)
         IN Meet(a.pos, a.len, b.pos)
<1>1. CASE len # 0
  <2> DEFINE q == (p * len) \div extent
             r == (l * len) \div extent
             q2 == ((p + l) * len) \div extent
             r2 == (m * len) \div extent
             a == SpanAxis(at, len, p, l, extent)
             b == SpanAxis(at, len, p + l, m, extent)
  <2>1. q \in Nat /\ r \in Nat /\ q < len /\ a = [pos |-> at + q, len |-> Lesser(AtLeastOne(r), len - q)]
    <3>1. p + l <= extent
      OBVIOUS
    <3>2. QED  BY <1>1, <3>1, SpanAxisAt
  <2>2. q2 \in Nat /\ q2 < len /\ b = [pos |-> at + q2, len |-> Lesser(AtLeastOne(r2), len - q2)]
    <3> DEFINE p2 == p + l
    <3>1. p2 \in Nat /\ p2 + m <= extent
      OBVIOUS
    <3> HIDE DEF p2
    <3>2. LET s == (p2 * len) \div extent
          IN /\ s \in Nat /\ s < len
             /\ SpanAxis(at, len, p2, m, extent) = [pos |-> at + s, len |-> Lesser(AtLeastOne(r2), len - s)]
      BY <1>1, <3>1, SpanAxisAt
    <3>3. QED  BY <3>2 DEF p2
  <2>3. q + r <= q2 /\ q2 <= q + r + 1
    <3>1. p * len \in Nat /\ l * len \in Nat /\ (p + l) * len = p * len + l * len
      OBVIOUS
    <3>2. QED  BY <3>1, QuotientSum
  <2> HIDE DEF q, r, q2, r2, a, b
  <2>4. a.pos = at + q /\ a.len = Lesser(AtLeastOne(r), len - q) /\ b.pos = at + q2
    BY <2>1, <2>2
  <2>5. Meet(a.pos, a.len, b.pos)
    BY <2>1, <2>2, <2>3, <2>4 DEF Meet, Lesser, AtLeastOne
  <2>6. QED  BY <2>5 DEF a, b
<1>2. CASE len = 0
  <2> DEFINE pos == IF Wrap(at) >= Wrap(at) THEN Wrap(Wrap(at) - 1) ELSE Wrap(at)
             size == IF Wrap(pos + 1) > Wrap(at) THEN Wrap(Wrap(at) - pos) ELSE 1
  <2>1. ASSUME NEW x \in Nat, NEW n \in Nat PROVE SpanAxis(at, 0, x, n, extent) = [pos |-> pos, len |-> size]
    <3>1. x * 0 = 0 /\ n * 0 = 0 /\ 0 \div extent = 0 /\ at + 0 = at /\ AtLeastOne(0) = 1
      BY DEF AtLeastOne
    <3>2. QED  BY <3>1 DEF SpanAxis
  <2>2. pos \in Int /\ size = 1
    <3>1. at \in 0..Word - 1 /\ Word \in Nat \ {0}
      BY WordAssumption
    <3>2. Wrap(at) = at /\ pos = Wrap(at - 1)
      BY <3>1 DEF Wrap
    <3>3. CASE at # 0
      <4>1. Wrap(at - 1) = at - 1
        BY <3>1, <3>3 DEF Wrap
      <4>2. QED  BY <3>1, <3>2, <4>1
    <3>4. CASE at = 0
      <4>1. Wrap(0 - 1) = Word - 1 /\ Wrap((Word - 1) + 1) = 0
        BY <3>1 DEF Wrap
      <4>2. QED  BY <3>1, <3>2, <3>4, <4>1
    <3>5. QED  BY <3>3, <3>4
  <2> HIDE DEF pos, size
  <2>3. SpanAxis(at, len, p, l, extent) = [pos |-> pos, len |-> size]
    BY <1>2, <2>1
  <2>4. SpanAxis(at, len, p + l, m, extent) = [pos |-> pos, len |-> size]
    BY <1>2, <2>1
  <2>5. Meet(pos, 1, pos)
    BY <2>2 DEF Meet
  <2>6. QED  BY <2>2, <2>3, <2>4, <2>5
<1>3. QED  BY <1>1, <1>2

-----------------------------------------------------------------------------
(* Layouts.                                                                *)

OutputTypes ==
  [box : [x : -Word..Word, y : -Word..Word, w : 0..Word - 1, h : 0..Word - 1],
   width : 0..Word - 1, height : 0..Word - 1, fit : Fits, selected : BOOLEAN]

\* the corner of the box around the outputs that have a place
Boxes == {outputs[k].box : k \in {k \in DOMAIN outputs : Usable(outputs[k].box)}}
Corner == [x |-> Min({b.x : b \in Boxes}), y |-> Min({b.y : b \in Boxes})]

\* A slice is the place of the output in a layout that is not empty.
LEMMA SliceTypes ==
  ASSUME outputs \in Seq(OutputTypes), NEW i \in DOMAIN outputs, LayoutSlice(i) # NoLayout
  PROVE  LET l == LayoutSlice(i)
             box == outputs[i].box
         IN /\ l.w \in Nat \ {0} /\ l.h \in Nat \ {0}
            /\ Corner.x \in Int /\ Corner.y \in Int
            /\ box.x \in Int /\ box.y \in Int /\ box.w \in Nat \ {0} /\ box.h \in Nat \ {0}
            /\ l.slice = Rect(box.x - Corner.x, box.y - Corner.y, box.w, box.h)
            /\ l.slice.x \in Nat /\ l.slice.y \in Nat
            /\ l.slice.w \in Nat \ {0} /\ l.slice.h \in Nat \ {0}
            /\ l.slice.x + l.slice.w <= l.w /\ l.slice.y + l.slice.h <= l.h
<1> DEFINE boxes == {outputs[k].box : k \in {k \in DOMAIN outputs : Usable(outputs[k].box)}}
           lefts == {b.x : b \in boxes}
           tops == {b.y : b \in boxes}
           rights == {b.x + b.w : b \in boxes}
           bottoms == {b.y + b.h : b \in boxes}
           box == outputs[i].box
           left == Min(lefts)
           top == Min(tops)
           right == Max(rights)
           bottom == Max(bottoms)
           w == right - left
           h == bottom - top
<1>1. LayoutSlice(i) = IF Usable(box) /\ w <= MaxExtent /\ h <= MaxExtent
                       THEN [w |-> w, h |-> h,
                             slice |-> Rect(box.x - left, box.y - top, box.w, box.h)]
                       ELSE NoLayout
  BY DEF LayoutSlice
<1>2. Usable(box)
  <2> HIDE DEF w, h, box, left, top
  <2>1. QED  BY <1>1
<1>3. \A b \in boxes : /\ b.x \in -Word..Word /\ b.y \in -Word..Word
                       /\ b.w \in 0..Word - 1 /\ b.h \in 0..Word - 1
  <2>1. \A k \in DOMAIN outputs : outputs[k] \in OutputTypes
    OBVIOUS
  <2>2. QED  BY <2>1 DEF OutputTypes
<1>4. box \in boxes
  BY <1>2
<1>11. Corner = [x |-> left, y |-> top]
  BY DEF Corner, Boxes
<1> HIDE DEF boxes, box
<1>5. /\ left \in Int /\ left <= box.x
      /\ top \in Int /\ top <= box.y
      /\ right \in Int /\ box.x + box.w <= right
      /\ bottom \in Int /\ box.y + box.h <= bottom
  <2>1. - Word \in Int /\ 2 * Word \in Int
    BY WordAssumption
  <2>2. /\ \A n \in lefts : n \in Int /\ - Word <= n
        /\ \A n \in tops : n \in Int /\ - Word <= n
        /\ \A n \in rights : n \in Int /\ n <= 2 * Word
        /\ \A n \in bottoms : n \in Int /\ n <= 2 * Word
    BY <1>3, WordAssumption
  <2>3. box.x \in lefts /\ box.y \in tops /\ box.x + box.w \in rights /\ box.y + box.h \in bottoms
    BY <1>4
  <2> HIDE DEF lefts, tops, rights, bottoms
  <2>4. lefts # {} /\ tops # {} /\ rights # {} /\ bottoms # {}
    BY <2>3
  <2>5. Min(lefts) \in lefts /\ \A n \in lefts : Min(lefts) <= n
    BY <2>1, <2>2, <2>4, MinIsLeast
  <2>6. Min(tops) \in tops /\ \A n \in tops : Min(tops) <= n
    BY <2>1, <2>2, <2>4, MinIsLeast
  <2>7. Max(rights) \in rights /\ \A n \in rights : n <= Max(rights)
    BY <2>1, <2>2, <2>4, MaxIsGreatest
  <2>8. Max(bottoms) \in bottoms /\ \A n \in bottoms : n <= Max(bottoms)
    BY <2>1, <2>2, <2>4, MaxIsGreatest
  <2>9. QED  BY <2>2, <2>3, <2>5, <2>6, <2>7, <2>8
<1>6. /\ box.x \in Int /\ box.y \in Int
      /\ box.w \in Nat \ {0} /\ box.h \in Nat \ {0}
  BY <1>2, <1>3, <1>4, WordAssumption DEF Usable
<1>7. w \in Nat \ {0} /\ h \in Nat \ {0}
  <2> HIDE DEF left, top, right, bottom
  <2>1. \A l, r, x \in Int, n \in Nat \ {0} : l <= x /\ x + n <= r => r - l \in Nat \ {0}
    OBVIOUS
  <2>2. box.x \in Int /\ box.w \in Nat \ {0} /\ box.y \in Int /\ box.h \in Nat \ {0}
    BY <1>6
  <2>3. left \in Int /\ right \in Int /\ left <= box.x /\ box.x + box.w <= right
    BY <1>5
  <2>4. top \in Int /\ bottom \in Int /\ top <= box.y /\ box.y + box.h <= bottom
    BY <1>5
  <2>5. right - left \in Nat \ {0}
    BY <2>1, <2>2, <2>3
  <2>6. bottom - top \in Nat \ {0}
    BY <2>1, <2>2, <2>4
  <2>7. QED  BY <2>5, <2>6
<1>8. LayoutSlice(i) = [w |-> w, h |-> h,
                        slice |-> Rect(box.x - left, box.y - top, box.w, box.h)]
  <2> HIDE DEF w, h, left, top
  <2>1. QED  BY <1>1
<1> HIDE DEF w, h, left, top, right, bottom
<1>9. /\ box.x - left \in Nat /\ (box.x - left) + box.w <= right - left
      /\ box.y - top \in Nat /\ (box.y - top) + box.h <= bottom - top
  <2>1. \A l, r, x, n \in Int : l <= x /\ x + n <= r => x - l \in Nat /\ (x - l) + n <= r - l
    OBVIOUS
  <2>2. box.x \in Int /\ box.y \in Int /\ box.w \in Int /\ box.h \in Int
    BY <1>6
  <2>3. left \in Int /\ top \in Int /\ right \in Int /\ bottom \in Int
    BY <1>5
  <2>4. /\ left <= box.x /\ box.x + box.w <= right
        /\ top <= box.y /\ box.y + box.h <= bottom
    BY <1>5
  <2>5. QED  BY <2>1, <2>2, <2>3, <2>4
<1>12. /\ LayoutSlice(i).w = w /\ LayoutSlice(i).h = h
       /\ LayoutSlice(i).slice = Rect(box.x - left, box.y - top, box.w, box.h)
       /\ Corner.x = left /\ Corner.y = top
  BY <1>8, <1>11
<1>13. w = right - left /\ h = bottom - top
  BY DEF w, h
<1>10. QED  BY <1>5, <1>6, <1>7, <1>9, <1>12, <1>13 DEF Rect, box

\* Outputs with a slice have it in the same layout.
LEMMA SameLayout ==
  ASSUME NEW i, NEW k, LayoutSlice(i) # NoLayout, LayoutSlice(k) # NoLayout
  PROVE  LayoutSlice(i).w = LayoutSlice(k).w /\ LayoutSlice(i).h = LayoutSlice(k).h
<1> DEFINE w == Max({b.x + b.w : b \in Boxes}) - Min({b.x : b \in Boxes})
           h == Max({b.y + b.h : b \in Boxes}) - Min({b.y : b \in Boxes})
           x == Min({b.x : b \in Boxes})
           y == Min({b.y : b \in Boxes})
<1>1. \A j : LayoutSlice(j) = IF Usable(outputs[j].box) /\ w <= MaxExtent /\ h <= MaxExtent
                              THEN [w |-> w, h |-> h,
                                    slice |-> Rect(outputs[j].box.x - x, outputs[j].box.y - y,
                                                   outputs[j].box.w, outputs[j].box.h)]
                              ELSE NoLayout
  BY DEF LayoutSlice, Boxes
<1> HIDE DEF w, h, x, y
<1>2. \A j : LayoutSlice(j) # NoLayout => LayoutSlice(j).w = w /\ LayoutSlice(j).h = h
  BY <1>1
<1>3. QED  BY <1>2

-----------------------------------------------------------------------------
(* Rendering.                                                              *)

Sides == [width : 1..MaxSide, height : 1..MaxSide]
Own(k) == IF k \in Selected THEN Rendered(k) ELSE Skipped
Pictures == {Own(k) : k \in DOMAIN outputs}

\* What is made for an output depends on what is to be shown where.
LEMMA RenderedStays ==
  ASSUME UNCHANGED <<outputs, decoded>>
  PROVE  Pictures' = Pictures /\ \A k : Own(k)' = Own(k)
BY DEF Pictures, Own, Selected, Rendered, PlacementFor, LayoutSlice

\* The image is decoded before anything is made, and what is made is made in
\* the order of the outputs.
IInv ==
  /\ file \in Images /\ outputs \in Seq(OutputTypes)
  /\ \/ decoded \in {Unread, Unreadable} /\ made = << >>
     \/ decoded \in Sides
  /\ made \in Seq(Pictures) /\ Len(made) <= Len(outputs)
  /\ \A k \in DOMAIN made : made[k] = Own(k)

\* Only a selected output has a picture, and it is its own.
LEMMA MadeIsOwn ==
  ASSUME IInv, NEW k \in DOMAIN made, made[k] # Skipped
  PROVE  k \in Selected /\ made[k] = Rendered(k)
BY DEF IInv, Own

LEMMA DecodedSides ==
  ASSUME file \in Images, DimensionsOk(file.width, file.height)
  PROVE  [width |-> Reduced(file.width, Denominator),
          height |-> Reduced(file.height, Denominator)] \in Sides
<1>1. file.width \in 1..MaxSide /\ file.height \in 1..MaxSide /\ MaxSide \in Nat
  BY WordAssumption DEF DimensionsOk
<1>2. Denominator \in {1, 2, 4, 8}
  <2> DEFINE S == {1} \cup {d \in {2, 4, 8} : Enough(d)}
  <2>1. S # {} /\ \A n \in S : n \in Int /\ n <= 8
    OBVIOUS
  <2>2. Max(S) \in S
    <3> HIDE DEF S
    <3>1. QED  BY <2>1, MaxIsGreatest
  <2>3. QED  BY <2>2 DEF Denominator
<1>3. \A n \in Nat \ {0}, d \in {1, 2, 4, 8} : Reduced(n, d) \in Nat \ {0} /\ Reduced(n, d) <= n
  BY DEF Reduced
<1>4. QED  BY <1>1, <1>2, <1>3 DEF Sides

LEMMA SharedIsOwn ==
  ASSUME NEW i, NEW k \in Sharable(i) PROVE Rendered(k) = Rendered(i)
<1>1. /\ outputs[k].width = outputs[i].width /\ outputs[k].height = outputs[i].height
      /\ outputs[k].fit = outputs[i].fit /\ outputs[i].fit # "span"
  BY DEF Sharable, Stored
<1>2. Sized(outputs[k]) <=> Sized(outputs[i])
  BY <1>1 DEF Sized
<1>3. PlacementFor(k, decoded.width, decoded.height) = PlacementFor(i, decoded.width, decoded.height)
  BY <1>1 DEF PlacementFor
<1>4. Tiled(outputs[k]) = Tiled(outputs[i])
  BY <1>1 DEF Tiled
<1>5. ASSUME NEW place PROVE Blitted(place, outputs[k]) = Blitted(place, outputs[i])
  BY <1>1 DEF Blitted
<1>6. QED  BY <1>1, <1>2, <1>3, <1>4, <1>5 DEF Rendered

\* What is added is for the output whose turn it is.
LEMMA AddedIsOwn ==
  ASSUME IInv, NEW i, Due(i), made' = Append(made, Own(i)),
         UNCHANGED <<file, outputs, decoded>>
  PROVE  IInv'
<1>1. Own(i) \in Pictures
  BY DEF Due, Pictures
<1>2. Pictures' = Pictures /\ \A k : Own(k)' = Own(k)
  BY RenderedStays
<1> DEFINE P == Pictures
<1>3. made \in Seq(P) /\ Own(i) \in P
  BY <1>1 DEF IInv
<1>4. i = Len(made) + 1 /\ i <= Len(outputs) /\ decoded \in Sides
  BY DEF IInv, Due
<1> HIDE DEF P
<1>5. made' \in Seq(P) /\ Len(made') = Len(made) + 1
  BY <1>3
<1>6. ASSUME NEW k \in DOMAIN made' PROVE made'[k] = Own(k)
  <2>1. CASE k = i
    BY <1>3, <1>4, <2>1
  <2>2. CASE k # i
    <3>1. k \in DOMAIN made /\ made'[k] = made[k]
      BY <1>3, <1>4, <1>5, <2>2
    <3>2. QED  BY <3>1 DEF IInv
  <2>3. QED  BY <2>1, <2>2
<1>7. \A k \in DOMAIN made' : made'[k] = Own(k)'
  BY <1>2, <1>6
<1>8. QED  BY <1>2, <1>4, <1>5, <1>7 DEF IInv, P

LEMMA InvariantHolds == Spec => []IInv
<1>1. Init => IInv
  <2> SUFFICES ASSUME Init PROVE IInv
    OBVIOUS
  <2>1. outputs \in Seq(OutputTypes)
    BY InputAssumption DEF Init, OutputTypes
  <2>2. made = << >>
    BY DEF Init
  <2>3. made \in Seq(Pictures) /\ Len(made) = 0 /\ DOMAIN made = {}
    BY <2>2
  <2>4. QED  BY <2>1, <2>2, <2>3 DEF Init, IInv
<1>2. IInv /\ [Next]_vars => IInv'
  <2> SUFFICES ASSUME IInv, [Next]_vars PROVE IInv'
    OBVIOUS
  <2>1. CASE UNCHANGED vars
    <3>1. UNCHANGED <<file, outputs, decoded, made>>
      BY <2>1 DEF vars
    <3>2. Pictures' = Pictures /\ \A k : Own(k)' = Own(k)
      BY <3>1, RenderedStays
    <3>3. \A k \in DOMAIN made' : made'[k] = Own(k)'
      BY <3>1, <3>2 DEF IInv
    <3>4. QED  BY <3>1, <3>2, <3>3 DEF IInv
  <2>2. CASE Load
    <3>1. made' = << >> /\ UNCHANGED <<file, outputs>>
      <4>1. decoded \notin Sides
        BY <2>2 DEF Load, Unread, Sides
      <4>2. QED  BY <2>2, <4>1 DEF Load, IInv
    <3>2. decoded' \in Sides \/ decoded' = Unreadable
      BY <2>2, DecodedSides DEF Load, IInv
    <3>3. made' \in Seq(Pictures') /\ Len(made') = 0 /\ DOMAIN made' = {}
      BY <3>1
    <3>4. QED  BY <3>1, <3>2, <3>3 DEF IInv
  <2>3. ASSUME NEW i, Share(i) PROVE IInv'
    <3>1. PICK k \in Sharable(i) : made' = Append(made, made[k])
      BY <2>3 DEF Share
    <3>2. made[k] = Own(i)
      <4>1. made[k] = Rendered(k)
        BY MadeIsOwn DEF Sharable, Stored
      <4>2. Rendered(i) = Own(i)
        BY <2>3 DEF Share, Own
      <4>3. QED  BY <4>1, <4>2, SharedIsOwn
    <3>3. QED  BY <2>3, <3>1, <3>2, AddedIsOwn DEF Share
  <2>4. ASSUME NEW i, Render(i) PROVE IInv'
    BY <2>4, AddedIsOwn DEF Render, Own
  <2>5. ASSUME NEW i, Skip(i) PROVE IInv'
    BY <2>5, AddedIsOwn DEF Skip, Own
  <2>6. QED  BY <2>1, <2>2, <2>3, <2>4, <2>5 DEF Next
<1>3. QED  BY <1>1, <1>2, PTL DEF Spec

\* However outputs share what was rendered, each shows what it would have
\* got for itself.
THEOREM SharingIsUnseen == Spec => []OwnPicture
<1>1. IInv => OwnPicture
  BY DEF IInv, Own, OwnPicture
<1>2. QED  BY <1>1, InvariantHolds, PTL
-----------------------------------------------------------------------------
(* Sampling.                                                               *)

LEMMA SamplesOfInside ==
  ASSUME NEW start \in Nat, NEW len \in Nat \ {0}, NEW out \in Nat \ {0}, NEW size \in Nat,
         start + len <= size
  PROVE  SamplesInside(start, len, out, size)
<1> SUFFICES ASSUME NEW o \in 0..out - 1
             PROVE  /\ SpanStart(start, len, out, o) < SpanEnd(start, len, out, o)
                    /\ SpanEnd(start, len, out, o) <= size
  BY DEF SamplesInside
<1> DEFINE s == SpanStart(start, len, out, o)
           e == start + ((o + 1) * len) \div out
<1>1. s \in Nat /\ s < start + len
  <2>1. o \in Nat /\ o * len \in Nat
    OBVIOUS
  <2>2. o * len < len * out
    <3>1. (o + 1) * len <= out * len
      OBVIOUS
    <3>2. QED  BY <2>1, <3>1
  <2>3. (o * len) \div out \in Nat /\ (o * len) \div out < len
    BY <2>1, <2>2, QuotientIsNat, QuotientBelow
  <2>4. QED  BY <2>3 DEF SpanStart
<1>2. e \in Nat
  <2>1. (o + 1) * len \in Nat
    OBVIOUS
  <2>2. ((o + 1) * len) \div out \in Nat
    BY <2>1, QuotientIsNat
  <2>3. QED  BY <2>2
<1>3. SpanEnd(start, len, out, o) = Lesser(Larger(e, s + 1), start + len)
  BY DEF SpanEnd
<1> HIDE DEF s, e
<1>4. QED  BY <1>1, <1>2, <1>3 DEF Lesser, Larger, s

\* The bounds a span is checked for, and those no other fit needs a check for.
LEMMA BlitIsSafe ==
  ASSUME IInv, decoded \in Sides, NEW i \in DOMAIN outputs, Rendered(i).kind = "blitted"
  PROVE  LET place == PlacementFor(i, decoded.width, decoded.height)
         IN /\ Rendered(i) = Blitted(place, outputs[i])
            /\ Safe(place, decoded.width, decoded.height, outputs[i].width, outputs[i].height)
            /\ ~Empty(place.src) /\ ~Empty(place.dst)
<1> DEFINE o == outputs[i]
           place == PlacementFor(i, decoded.width, decoded.height)
           spans == o.fit = "span" /\ LayoutSlice(i) # NoLayout
<1>1. /\ Sized(o) /\ Rendered(i) = Blitted(place, o)
      /\ ~Empty(place.src) /\ ~Empty(place.dst)
      /\ spans => /\ Inside(place.src, decoded.width, decoded.height)
                  /\ Inside(place.dst, o.width, o.height)
  BY DEF Rendered, Failed, Tiled
<1>2. decoded.width \in Nat \ {0} /\ decoded.height \in Nat \ {0}
  BY DEF Sides
<1>3. o.width \in Nat \ {0} /\ o.height \in Nat \ {0}
  BY <1>1, WordAssumption DEF Sized
<1>4. CASE ~spans
  <2>1. place = FitPlacement(o.fit, decoded.width, decoded.height, o.width, o.height)
    BY <1>4 DEF PlacementFor
  <2>2. Safe(place, decoded.width, decoded.height, o.width, o.height)
    BY <1>2, <1>3, <2>1, FitInside
  <2>3. QED  BY <1>1, <2>2
<1>5. CASE spans
  <2> DEFINE l == LayoutSlice(i)
             cover == CoverRect(decoded.width, decoded.height, l.w, l.h)
             x == SpanAxis(cover.x, cover.w, l.slice.x, l.slice.w, l.w)
             y == SpanAxis(cover.y, cover.h, l.slice.y, l.slice.h, l.h)
  <2>1. /\ l.w \in Nat \ {0} /\ l.h \in Nat \ {0}
        /\ l.slice.x \in Int /\ l.slice.y \in Int
        /\ l.slice.w \in Nat /\ l.slice.h \in Nat
    BY <1>5, SliceTypes DEF IInv
  <2>2. place = Placement(Rect(x.pos, y.pos, x.len, y.len), Rect(0, 0, o.width, o.height))
    BY <1>5 DEF PlacementFor, SpanRects
  <2> HIDE DEF l
  <2>3. cover.x \in Nat /\ cover.y \in Nat /\ cover.w \in Nat /\ cover.h \in Nat
    BY <1>2, <2>1, CoverInside
  <2> HIDE DEF cover
  <2>4. x.pos \in Nat /\ x.len \in Nat /\ y.pos \in Nat /\ y.len \in Nat
    BY <2>1, <2>3, SpanAxisTypes
  <2> HIDE DEF x, y
  <2>5. /\ place.src = Rect(x.pos, y.pos, x.len, y.len)
        /\ place.dst = Rect(0, 0, o.width, o.height)
    BY <2>2 DEF Placement
  <2>6. /\ place.src \in [x : Nat, y : Nat, w : Nat, h : Nat]
        /\ place.dst \in [x : Nat, y : Nat, w : Nat, h : Nat]
    BY <1>3, <2>4, <2>5 DEF Rect
  <2>7. QED  BY <1>1, <1>5, <2>6 DEF Safe
<1>6. QED  BY <1>4, <1>5

\* No rendering leaves the image or the buffer, whatever the sizes: of all
\* fits, only a span has its bounds checked when the program runs.
THEOREM RenderingInBounds == Spec => []InBounds
<1>1. ASSUME IInv PROVE InBounds
  <2> SUFFICES ASSUME NEW k \in DOMAIN made, made[k].kind = "blitted"
               PROVE  LET src == made[k].place.src
                          dst == made[k].place.dst
                      IN /\ SamplesInside(src.x, src.w, dst.w, decoded.width)
                         /\ SamplesInside(src.y, src.h, dst.h, decoded.height)
                         /\ Inside(dst, outputs[k].width, outputs[k].height)
    BY DEF InBounds
  <2> DEFINE place == PlacementFor(k, decoded.width, decoded.height)
             src == place.src
             dst == place.dst
  <2>1. decoded \in Sides /\ k \in DOMAIN outputs /\ made[k] = Rendered(k)
    BY <1>1, MadeIsOwn DEF IInv, Skipped
  <2>2. /\ made[k] = Blitted(place, outputs[k])
        /\ Safe(place, decoded.width, decoded.height, outputs[k].width, outputs[k].height)
        /\ ~Empty(src) /\ ~Empty(dst)
    BY <1>1, <2>1, BlitIsSafe
  <2>3. made[k].place = place
    BY <2>2 DEF Blitted
  <2>4. decoded.width \in Nat /\ decoded.height \in Nat
    BY <2>1 DEF Sides
  <2> HIDE DEF place
  <2>5. /\ src.x \in Nat /\ src.y \in Nat /\ src.w \in Nat \ {0} /\ src.h \in Nat \ {0}
        /\ dst.w \in Nat \ {0} /\ dst.h \in Nat \ {0}
        /\ src.x + src.w <= decoded.width /\ src.y + src.h <= decoded.height
        /\ Inside(dst, outputs[k].width, outputs[k].height)
    BY <2>2 DEF Safe, Empty, Inside
  <2> HIDE DEF src, dst
  <2>6. /\ SamplesInside(src.x, src.w, dst.w, decoded.width)
        /\ SamplesInside(src.y, src.h, dst.h, decoded.height)
    BY <2>4, <2>5, SamplesOfInside
  <2>7. QED  BY <2>3, <2>5, <2>6 DEF src, dst
<1>2. QED  BY <1>1, InvariantHolds, PTL
-----------------------------------------------------------------------------
(* Proportions.                                                            *)

LEMMA QuotientIsProportional ==
  ASSUME NEW n \in Nat, NEW a \in Nat, NEW b \in Nat \ {0}
  PROVE  Proportional((n * a) \div b, n, a, b)
<1> DEFINE q == (n * a) \div b
<1>1. n * a \in Nat /\ n * a = a * n
  OBVIOUS
<1>2. q \in Nat /\ b * q <= n * a /\ n * a < b * q + b
  BY <1>1
<1> HIDE DEF q
<1>3. q * b = b * q /\ (q + 1) * b = b * q + b
  BY <1>2
<1>4. Proportional(q, n, a, b)
  BY <1>1, <1>2, <1>3 DEF Proportional
<1>5. QED  BY <1>4 DEF q

LEMMA HalfIsCentered ==
  ASSUME NEW len \in Nat, NEW size \in Nat, len <= size
  PROVE  Centered((size - len) \div 2, len, size) /\ Centered(0, size, size)
BY DEF Centered

LEMMA CoverProportional ==
  ASSUME NEW sw \in Nat \ {0}, NEW sh \in Nat \ {0}, NEW ow \in Nat \ {0}, NEW oh \in Nat \ {0}
  PROVE  LET r == CoverRect(sw, sh, ow, oh)
         IN /\ \/ r.w = sw /\ Proportional(r.h, sw, oh, ow)
               \/ r.h = sh /\ Proportional(r.w, sh, ow, oh)
            /\ Centered(r.x, r.w, sw) /\ Centered(r.y, r.h, sh)
<1>1. CASE sw * oh > ow * sh
  <2> DEFINE w == (sh * ow) \div oh
  <2>1. w \in Nat /\ w <= sw
    <3>1. sh * ow <= sw * oh /\ sh * ow \in Nat
      BY <1>1
    <3>2. QED  BY <3>1, QuotientIsNat, QuotientAtMost
  <2>2. Proportional(w, sh, ow, oh)
    BY QuotientIsProportional
  <2>3. CoverRect(sw, sh, ow, oh) = Rect((sw - Lesser(w, sw)) \div 2, 0, Lesser(w, sw), sh)
    BY <1>1 DEF CoverRect
  <2> HIDE DEF w
  <2>4. Lesser(w, sw) = w
    BY <2>1 DEF Lesser
  <2>5. Centered((sw - w) \div 2, w, sw) /\ Centered(0, sh, sh)
    BY <2>1, HalfIsCentered
  <2>6. QED  BY <2>2, <2>3, <2>4, <2>5 DEF Rect
<1>2. CASE ~(sw * oh > ow * sh)
  <2> DEFINE h == (sw * oh) \div ow
  <2>1. h \in Nat /\ h <= sh
    <3>1. sw * oh <= sh * ow /\ sw * oh \in Nat
      BY <1>2
    <3>2. QED  BY <3>1, QuotientIsNat, QuotientAtMost
  <2>2. Proportional(h, sw, oh, ow)
    BY QuotientIsProportional
  <2>3. CoverRect(sw, sh, ow, oh) = Rect(0, (sh - Lesser(h, sh)) \div 2, sw, Lesser(h, sh))
    BY <1>2 DEF CoverRect
  <2> HIDE DEF h
  <2>4. Lesser(h, sh) = h
    BY <2>1 DEF Lesser
  <2>5. Centered((sh - h) \div 2, h, sh) /\ Centered(0, sw, sw)
    BY <2>1, HalfIsCentered
  <2>6. QED  BY <2>2, <2>3, <2>4, <2>5 DEF Rect
<1>3. QED  BY <1>1, <1>2

LEMMA ContainProportional ==
  ASSUME NEW sw \in Nat \ {0}, NEW sh \in Nat \ {0}, NEW ow \in Nat \ {0}, NEW oh \in Nat \ {0}
  PROVE  LET r == ContainRects(sw, sh, ow, oh).dst
         IN /\ \/ r.w = ow /\ (r.h = 1 \/ Proportional(r.h, ow, sh, sw))
               \/ r.h = oh /\ (r.w = 1 \/ Proportional(r.w, oh, sw, sh))
            /\ Centered(r.x, r.w, ow) /\ Centered(r.y, r.h, oh)
<1> DEFINE place == ContainRects(sw, sh, ow, oh)
           r == place.dst
<1>1. r.w \in Nat /\ r.w <= ow /\ r.h \in Nat /\ r.h <= oh
  <2>1. Safe(place, sw, sh, ow, oh)
    BY ContainInside
  <2> HIDE DEF place
  <2>2. QED  BY <2>1 DEF Safe, Inside
<1>2. r.x = (ow - r.w) \div 2 /\ r.y = (oh - r.h) \div 2
  BY DEF ContainRects, Placement, Rect
<1>3. \/ r.w = ow /\ (r.h = 1 \/ Proportional(r.h, ow, sh, sw))
      \/ r.h = oh /\ (r.w = 1 \/ Proportional(r.w, oh, sw, sh))
  <2>1. CASE sw * oh > ow * sh
    <3>1. r.w = ow /\ r.h = AtLeastOne((sh * ow) \div sw)
      BY <2>1 DEF ContainRects, Placement, Rect, AtLeastOne
    <3>2. Proportional((ow * sh) \div sw, ow, sh, sw) /\ ow * sh = sh * ow
      BY QuotientIsProportional
    <3>3. QED  BY <3>1, <3>2 DEF AtLeastOne
  <2>2. CASE ~(sw * oh > ow * sh)
    <3>1. r.h = oh /\ r.w = AtLeastOne((sw * oh) \div sh)
      BY <2>2 DEF ContainRects, Placement, Rect, AtLeastOne
    <3>2. Proportional((oh * sw) \div sh, oh, sw, sh) /\ oh * sw = sw * oh
      BY QuotientIsProportional
    <3>3. QED  BY <3>1, <3>2 DEF AtLeastOne
  <2>3. QED  BY <2>1, <2>2
<1> HIDE DEF place, r
<1>4. Centered(r.x, r.w, ow) /\ Centered(r.y, r.h, oh)
  BY <1>1, <1>2, HalfIsCentered
<1>5. QED  BY <1>3, <1>4 DEF r, place

\* Cover and contain keep the shape of the image to the pixel, for images and
\* outputs of any shape.
THEOREM ShapeIsKept == Spec => []Undistorted
<1>1. ASSUME IInv, NEW k \in DOMAIN made, made[k].kind = "blitted",
             outputs[k].fit \in {"cover", "contain"}
      PROVE  /\ decoded.width \in Nat \ {0} /\ decoded.height \in Nat \ {0}
             /\ outputs[k].width \in Nat \ {0} /\ outputs[k].height \in Nat \ {0}
             /\ made[k].place = FitPlacement(outputs[k].fit, decoded.width, decoded.height,
                                            outputs[k].width, outputs[k].height)
  <2>1. decoded \in Sides /\ k \in DOMAIN outputs /\ made[k] = Rendered(k)
    BY <1>1, MadeIsOwn DEF IInv, Skipped
  <2>2. Sized(outputs[k])
    BY <1>1, <2>1 DEF Rendered, Failed
  <2>3. made[k].place = PlacementFor(k, decoded.width, decoded.height)
    BY <1>1, <2>1, BlitIsSafe DEF Blitted
  <2>4. QED  BY <1>1, <2>1, <2>2, <2>3, WordAssumption DEF PlacementFor, Sized, Sides
<1>2. ASSUME IInv PROVE Undistorted
  <2> SUFFICES ASSUME NEW k \in DOMAIN made, made[k].kind = "blitted"
               PROVE  LET o == outputs[k]
                          src == made[k].place.src
                          dst == made[k].place.dst
                          w == decoded.width
                          h == decoded.height
                      IN /\ o.fit = "cover" =>
                              /\ \/ src.w = w /\ Proportional(src.h, w, o.height, o.width)
                                 \/ src.h = h /\ Proportional(src.w, h, o.width, o.height)
                              /\ Centered(src.x, src.w, w) /\ Centered(src.y, src.h, h)
                         /\ o.fit = "contain" =>
                              /\ \/ dst.w = o.width /\ (dst.h = 1 \/ Proportional(dst.h, o.width, h, w))
                                 \/ dst.h = o.height /\ (dst.w = 1 \/ Proportional(dst.w, o.height, w, h))
                              /\ Centered(dst.x, dst.w, o.width) /\ Centered(dst.y, dst.h, o.height)
    BY DEF Undistorted
  <2>1. CASE outputs[k].fit = "cover"
    <3> DEFINE w == decoded.width
               h == decoded.height
               ow == outputs[k].width
               oh == outputs[k].height
               src == made[k].place.src
    <3>1. w \in Nat \ {0} /\ h \in Nat \ {0} /\ ow \in Nat \ {0} /\ oh \in Nat \ {0}
      BY <1>1, <1>2, <2>1
    <3>2. made[k].place = FitPlacement("cover", w, h, ow, oh)
      BY <1>1, <1>2, <2>1
    <3> HIDE DEF w, h, ow, oh
    <3>3. src = CoverRect(w, h, ow, oh)
      BY <3>2 DEF FitPlacement, Placement
    <3> HIDE DEF src
    <3>4. /\ \/ src.w = w /\ Proportional(src.h, w, oh, ow)
             \/ src.h = h /\ Proportional(src.w, h, ow, oh)
          /\ Centered(src.x, src.w, w) /\ Centered(src.y, src.h, h)
      BY <3>1, <3>3, CoverProportional
    <3>5. QED  BY <2>1, <3>4 DEF w, h, ow, oh, src
  <2>2. CASE outputs[k].fit = "contain"
    <3> DEFINE w == decoded.width
               h == decoded.height
               ow == outputs[k].width
               oh == outputs[k].height
               dst == made[k].place.dst
    <3>1. w \in Nat \ {0} /\ h \in Nat \ {0} /\ ow \in Nat \ {0} /\ oh \in Nat \ {0}
      BY <1>1, <1>2, <2>2
    <3>2. made[k].place = FitPlacement("contain", w, h, ow, oh)
      BY <1>1, <1>2, <2>2
    <3> HIDE DEF w, h, ow, oh
    <3>3. dst = ContainRects(w, h, ow, oh).dst
      BY <3>2 DEF FitPlacement
    <3> HIDE DEF dst
    <3>4. /\ \/ dst.w = ow /\ (dst.h = 1 \/ Proportional(dst.h, ow, h, w))
             \/ dst.h = oh /\ (dst.w = 1 \/ Proportional(dst.w, oh, w, h))
          /\ Centered(dst.x, dst.w, ow) /\ Centered(dst.y, dst.h, oh)
      BY <3>1, <3>3, ContainProportional
    <3>5. QED  BY <2>2, <3>4 DEF w, h, ow, oh, dst
  <2>3. CASE outputs[k].fit \notin {"cover", "contain"}
    BY <2>3
  <2>4. QED  BY <2>1, <2>2, <2>3
<1>3. QED  BY <1>2, InvariantHolds, PTL

-----------------------------------------------------------------------------
(* Spans.                                                                  *)

\* where a span takes its pixels from
LEMMA SpanIs ==
  ASSUME IInv, decoded \in Sides, NEW i \in DOMAIN outputs,
         outputs[i].fit = "span", LayoutSlice(i) # NoLayout
  PROVE  LET l == LayoutSlice(i)
             s == l.slice
             cover == CoverRect(decoded.width, decoded.height, l.w, l.h)
             place == PlacementFor(i, decoded.width, decoded.height)
         IN /\ cover \in [x : Nat, y : Nat, w : Nat, h : Nat]
            /\ cover.x + cover.w <= decoded.width /\ decoded.width <= MaxSide
            /\ cover.y + cover.h <= decoded.height /\ decoded.height <= MaxSide
            /\ place.src.x = SpanAxis(cover.x, cover.w, s.x, s.w, l.w).pos
            /\ place.src.w = SpanAxis(cover.x, cover.w, s.x, s.w, l.w).len
            /\ place.src.y = SpanAxis(cover.y, cover.h, s.y, s.h, l.h).pos
            /\ place.src.h = SpanAxis(cover.y, cover.h, s.y, s.h, l.h).len
            /\ place.dst = Rect(0, 0, outputs[i].width, outputs[i].height)
<1> DEFINE l == LayoutSlice(i)
           s == l.slice
           cover == CoverRect(decoded.width, decoded.height, l.w, l.h)
           place == PlacementFor(i, decoded.width, decoded.height)
           x == SpanAxis(cover.x, cover.w, s.x, s.w, l.w)
           y == SpanAxis(cover.y, cover.h, s.y, s.h, l.h)
<1>1. l.w \in Nat \ {0} /\ l.h \in Nat \ {0}
  BY SliceTypes DEF IInv
<1>2. /\ decoded.width \in Nat \ {0} /\ decoded.width <= MaxSide
      /\ decoded.height \in Nat \ {0} /\ decoded.height <= MaxSide
  BY WordAssumption DEF Sides
<1>3. place = Placement(Rect(x.pos, y.pos, x.len, y.len), Rect(0, 0, outputs[i].width, outputs[i].height))
  BY DEF PlacementFor, SpanRects
<1> HIDE DEF l, s
<1>4. cover \in [x : Nat, y : Nat, w : Nat, h : Nat] /\ Inside(cover, decoded.width, decoded.height)
  BY <1>1, <1>2, CoverInside
<1> HIDE DEF cover, x, y
<1>5. /\ place.src.x = x.pos /\ place.src.w = x.len /\ place.src.y = y.pos /\ place.src.h = y.len
      /\ place.dst = Rect(0, 0, outputs[i].width, outputs[i].height)
  BY <1>3 DEF Placement, Rect
<1>6. QED  BY <1>2, <1>4, <1>5 DEF Inside, x, y, cover, l, s

\* The slices of outputs that share an edge meet in the image, to the pixel,
\* for layouts, images and outputs of any size: no sum of the 32 bits wraps.
THEOREM SlicesShareTheirEdges == Spec => []SlicesMeet
<1>1. ASSUME IInv, NEW k \in DOMAIN made, NEW i \in DOMAIN made, Spanned(k), Spanned(i)
      PROVE  LET here == outputs[k].box
                 there == outputs[i].box
                 src == made[k].place.src
                 next == made[i].place.src
             IN /\ here.x + here.w = there.x => Meet(src.x, src.w, next.x)
                /\ here.y + here.h = there.y => Meet(src.y, src.h, next.y)
  <2> DEFINE here == outputs[k].box
             there == outputs[i].box
             w == LayoutSlice(i).w
             h == LayoutSlice(i).h
             s == LayoutSlice(k).slice
             t == LayoutSlice(i).slice
             cover == CoverRect(decoded.width, decoded.height, w, h)
             src == made[k].place.src
             next == made[i].place.src
  <2>1. /\ decoded \in Sides /\ k \in DOMAIN outputs /\ i \in DOMAIN outputs
        /\ made[k] = Rendered(k) /\ made[i] = Rendered(i)
    BY <1>1, MadeIsOwn DEF IInv, Skipped, Spanned
  <2>2. /\ made[k].place = PlacementFor(k, decoded.width, decoded.height)
        /\ made[i].place = PlacementFor(i, decoded.width, decoded.height)
    BY <1>1, <2>1, BlitIsSafe DEF Spanned, Blitted
  <2>3. LayoutSlice(k).w = w /\ LayoutSlice(k).h = h
    BY <1>1, SameLayout DEF Spanned
  <2>4. /\ w \in Nat \ {0} /\ h \in Nat \ {0}
        /\ s.x \in Nat /\ s.y \in Nat /\ s.w \in Nat \ {0} /\ s.h \in Nat \ {0}
        /\ t.w \in Nat \ {0} /\ t.h \in Nat \ {0}
        /\ t.x + t.w <= w /\ t.y + t.h <= h
    BY <1>1, <2>1, SliceTypes DEF Spanned, IInv
  <2>5. /\ here.x + here.w = there.x => t.x = s.x + s.w
        /\ here.y + here.h = there.y => t.y = s.y + s.h
    <3>1. /\ Corner.x \in Int /\ Corner.y \in Int
          /\ here.x \in Int /\ here.y \in Int /\ here.w \in Nat /\ here.h \in Nat
          /\ there.x \in Int /\ there.y \in Int
          /\ s = Rect(here.x - Corner.x, here.y - Corner.y, here.w, here.h)
          /\ t = Rect(there.x - Corner.x, there.y - Corner.y, there.w, there.h)
      BY <1>1, <2>1, SliceTypes DEF Spanned, IInv
    <3> HIDE DEF here, there, s, t
    <3>2. QED  BY <3>1 DEF Rect
  <2>6. /\ cover \in [x : Nat, y : Nat, w : Nat, h : Nat] /\ MaxSide \in Nat
        /\ cover.x + cover.w <= MaxSide /\ cover.y + cover.h <= MaxSide
        /\ src.x = SpanAxis(cover.x, cover.w, s.x, s.w, w).pos
        /\ src.w = SpanAxis(cover.x, cover.w, s.x, s.w, w).len
        /\ src.y = SpanAxis(cover.y, cover.h, s.y, s.h, h).pos
        /\ src.h = SpanAxis(cover.y, cover.h, s.y, s.h, h).len
        /\ next.x = SpanAxis(cover.x, cover.w, t.x, t.w, w).pos
        /\ next.y = SpanAxis(cover.y, cover.h, t.y, t.h, h).pos
    <3>1. /\ cover \in [x : Nat, y : Nat, w : Nat, h : Nat]
          /\ cover.x + cover.w <= decoded.width /\ decoded.width <= MaxSide
          /\ cover.y + cover.h <= decoded.height /\ decoded.height <= MaxSide
          /\ next.x = SpanAxis(cover.x, cover.w, t.x, t.w, w).pos
          /\ next.y = SpanAxis(cover.y, cover.h, t.y, t.h, h).pos
      BY <1>1, <2>1, <2>2, SpanIs DEF Spanned
    <3>2. /\ src.x = SpanAxis(cover.x, cover.w, s.x, s.w, w).pos
          /\ src.w = SpanAxis(cover.x, cover.w, s.x, s.w, w).len
          /\ src.y = SpanAxis(cover.y, cover.h, s.y, s.h, h).pos
          /\ src.h = SpanAxis(cover.y, cover.h, s.y, s.h, h).len
      BY <1>1, <2>1, <2>2, <2>3, SpanIs DEF Spanned
    <3>3. decoded.width \in Nat /\ decoded.height \in Nat /\ MaxSide \in Nat
      BY <2>1, WordAssumption DEF Sides
    <3> HIDE DEF cover, src, next, s, t, w, h
    <3>4. QED  BY <3>1, <3>2, <3>3
  <2> HIDE DEF w, h, s, t, cover
  <2>7. ASSUME here.x + here.w = there.x PROVE Meet(src.x, src.w, next.x)
    <3>1. t.x = s.x + s.w /\ s.x + s.w + t.w <= w
      BY <2>4, <2>5, <2>7
    <3>2. cover.x \in Nat /\ cover.w \in Nat /\ cover.x + cover.w <= MaxSide
      BY <2>6
    <3> DEFINE a == SpanAxis(cover.x, cover.w, s.x, s.w, w)
               b == SpanAxis(cover.x, cover.w, s.x + s.w, t.w, w)
    <3>3. Meet(a.pos, a.len, b.pos)
      BY <2>4, <3>1, <3>2, SpanAxesMeet
    <3>4. src.x = a.pos /\ src.w = a.len /\ next.x = b.pos
      BY <2>6, <3>1
    <3> HIDE DEF a, b, src, next
    <3>5. QED  BY <3>3, <3>4
  <2>8. ASSUME here.y + here.h = there.y PROVE Meet(src.y, src.h, next.y)
    <3>1. t.y = s.y + s.h /\ s.y + s.h + t.h <= h
      BY <2>4, <2>5, <2>8
    <3>2. cover.y \in Nat /\ cover.h \in Nat /\ cover.y + cover.h <= MaxSide
      BY <2>6
    <3> DEFINE a == SpanAxis(cover.y, cover.h, s.y, s.h, h)
               b == SpanAxis(cover.y, cover.h, s.y + s.h, t.h, h)
    <3>3. Meet(a.pos, a.len, b.pos)
      BY <2>4, <3>1, <3>2, SpanAxesMeet
    <3>4. src.y = a.pos /\ src.h = a.len /\ next.y = b.pos
      BY <2>6, <3>1
    <3> HIDE DEF a, b, src, next
    <3>5. QED  BY <3>3, <3>4
  <2>9. QED  BY <2>7, <2>8
<1>2. IInv => SlicesMeet
  BY <1>1 DEF SlicesMeet
<1>3. QED  BY <1>2, InvariantHolds, PTL

\* a crop without a pixel
LEMMA CoverIsThin ==
  ASSUME NEW sw \in Nat \ {0}, NEW sh \in Nat \ {0}, NEW ow \in Nat \ {0}, NEW oh \in Nat \ {0},
         Empty(CoverRect(sw, sh, ow, oh))
  PROVE  sh * ow < oh \/ sw * oh < ow
<1> DEFINE w == (sh * ow) \div oh
           h == (sw * oh) \div ow
<1>1. \A a \in Nat, c \in Nat \ {0} : a \div c = 0 => a < c
  OBVIOUS
<1>2. sh * ow \in Nat /\ sw * oh \in Nat
  OBVIOUS
<1>3. w = 0 \/ h = 0
  <2>1. CASE sw * oh > ow * sh
    <3>1. CoverRect(sw, sh, ow, oh) = Rect((sw - Lesser(w, sw)) \div 2, 0, Lesser(w, sw), sh)
      BY <2>1 DEF CoverRect
    <3> HIDE DEF w
    <3>2. QED  BY <3>1 DEF Rect, Empty, Lesser
  <2>2. CASE ~(sw * oh > ow * sh)
    <3>1. CoverRect(sw, sh, ow, oh) = Rect(0, (sh - Lesser(h, sh)) \div 2, sw, Lesser(h, sh))
      BY <2>2 DEF CoverRect
    <3> HIDE DEF h
    <3>2. QED  BY <3>1 DEF Rect, Empty, Lesser
  <2>3. QED  BY <2>1, <2>2
<1>4. QED  BY <1>1, <1>2, <1>3

LEMMA ContainNotEmpty ==
  ASSUME NEW sw \in Nat \ {0}, NEW sh \in Nat \ {0}, NEW ow \in Nat \ {0}, NEW oh \in Nat \ {0},
         NEW fit \in {"contain", "center"}
  PROVE  LET place == FitPlacement(fit, sw, sh, ow, oh)
         IN ~Empty(place.src) /\ ~Empty(place.dst)
<1>1. CASE fit = "contain"
  <2> DEFINE w == IF sw * oh > ow * sh THEN ow ELSE (sw * oh) \div sh
             h == IF sw * oh > ow * sh THEN (sh * ow) \div sw ELSE oh
  <2>1. FitPlacement(fit, sw, sh, ow, oh)
          = Placement(Rect(0, 0, sw, sh), Rect((ow - AtLeastOne(w)) \div 2, (oh - AtLeastOne(h)) \div 2,
                                               AtLeastOne(w), AtLeastOne(h)))
    BY <1>1 DEF FitPlacement, ContainRects
  <2> HIDE DEF w, h
  <2>2. AtLeastOne(w) # 0 /\ AtLeastOne(h) # 0
    BY DEF AtLeastOne
  <2>3. QED  BY <2>1, <2>2 DEF Placement, Rect, Empty
<1>2. CASE fit = "center"
  <2>1. Lesser(sw, ow) # 0 /\ Lesser(sh, oh) # 0
    BY DEF Lesser
  <2>2. QED  BY <1>2, <2>1 DEF FitPlacement, CenterRects, Placement, Rect, Empty
<1>3. QED  BY <1>1, <1>2

\* Only an image too thin for the shape of an output is refused.
THEOREM OnlyThinIsRefused == Spec => []RefusesOnlyThin
<1>1. ASSUME IInv, NEW k \in DOMAIN made, made[k] = Failed, Sized(outputs[k])
      PROVE  /\ outputs[k].fit \in {"cover", "span"}
             /\ \/ decoded.height * Frame(k).w < Frame(k).h
                \/ decoded.width * Frame(k).h < Frame(k).w
  <2> DEFINE o == outputs[k]
             w == decoded.width
             h == decoded.height
             place == PlacementFor(k, w, h)
             spans == o.fit = "span" /\ LayoutSlice(k) # NoLayout
  <2>1. decoded \in Sides /\ k \in DOMAIN outputs /\ made[k] = Rendered(k) /\ o \in OutputTypes
    BY <1>1, MadeIsOwn DEF IInv, Skipped, Failed
  <2>2. /\ o.fit # "tile" /\ o.fit \in Fits
        /\ \/ Empty(place.src) \/ Empty(place.dst)
           \/ spans /\ ~(Inside(place.src, w, h) /\ Inside(place.dst, o.width, o.height))
    BY <1>1, <2>1 DEF Rendered, Failed, Tiled, Blitted, OutputTypes
  <2>3. /\ w \in Nat \ {0} /\ h \in Nat \ {0} /\ o.width \in Nat \ {0} /\ o.height \in Nat \ {0}
    BY <1>1, <2>1, WordAssumption DEF Sides, Sized
  <2>4. CASE ~spans
    <3>1. place = FitPlacement(o.fit, w, h, o.width, o.height)
      BY <2>4 DEF PlacementFor
    <3>2. Frame(k) = [w |-> o.width, h |-> o.height]
      BY <2>4 DEF Frame
    <3> HIDE DEF place, o, w, h
    <3>3. o.fit \notin {"contain", "center"}
      BY <2>2, <2>3, <2>4, <3>1, ContainNotEmpty
    <3>4. place = Placement(CoverRect(w, h, o.width, o.height), Rect(0, 0, o.width, o.height))
      BY <3>1, <3>3 DEF FitPlacement
    <3>5. Empty(CoverRect(w, h, o.width, o.height))
      <4>1. place.src = CoverRect(w, h, o.width, o.height) /\ place.dst = Rect(0, 0, o.width, o.height)
        BY <3>4 DEF Placement
      <4>2. ~Empty(place.dst)
        BY <2>3, <4>1 DEF Rect, Empty
      <4>3. QED  BY <2>2, <2>4, <4>1, <4>2
    <3>6. h * o.width < o.height \/ w * o.height < o.width
      BY <2>3, <3>5, CoverIsThin
    <3>7. QED  BY <2>2, <3>2, <3>3, <3>6 DEF Fits, o, w, h
  <2>5. CASE spans
    <3> DEFINE l == LayoutSlice(k)
               cover == CoverRect(w, h, l.w, l.h)
               s == l.slice
               x == SpanAxis(cover.x, cover.w, s.x, s.w, l.w)
               y == SpanAxis(cover.y, cover.h, s.y, s.h, l.h)
    <3>1. /\ cover \in [x : Nat, y : Nat, w : Nat, h : Nat]
          /\ cover.x + cover.w <= w /\ w <= MaxSide
          /\ cover.y + cover.h <= h /\ h <= MaxSide
          /\ place.src.x = x.pos /\ place.src.w = x.len /\ place.src.y = y.pos /\ place.src.h = y.len
          /\ place.dst = Rect(0, 0, o.width, o.height)
      BY <1>1, <2>1, <2>5, SpanIs
    <3>2. /\ l.w \in Nat \ {0} /\ l.h \in Nat \ {0}
          /\ s.x \in Nat /\ s.y \in Nat /\ s.w \in Nat \ {0} /\ s.h \in Nat \ {0}
          /\ s.x + s.w <= l.w /\ s.y + s.h <= l.h
      BY <1>1, <2>1, <2>5, SliceTypes DEF IInv
    <3>3. Frame(k) = [w |-> l.w, h |-> l.h] /\ o.fit = "span"
      BY <2>5 DEF Frame
    <3>4. MaxSide \in Nat
      BY WordAssumption
    <3> HIDE DEF l, s, cover, x, y, place, o, w, h
    <3>5. ASSUME ~Empty(cover) PROVE FALSE
      <4>1. cover.w \in Nat \ {0} /\ cover.h \in Nat \ {0} /\ cover.x \in Nat /\ cover.y \in Nat
        BY <3>1, <3>5 DEF Empty
      <4>2. cover.x + cover.w <= MaxSide /\ cover.y + cover.h <= MaxSide
        BY <2>3, <3>1, <3>4, <4>1
      <4>3. x.pos \in Nat /\ x.len \in Nat \ {0} /\ x.pos + x.len <= cover.x + cover.w
        BY <3>2, <4>1, <4>2, SpanAxisInside DEF x
      <4>4. y.pos \in Nat /\ y.len \in Nat \ {0} /\ y.pos + y.len <= cover.y + cover.h
        BY <3>2, <4>1, <4>2, SpanAxisInside DEF y
      <4>5. ~Empty(place.src) /\ Inside(place.src, w, h)
        BY <2>3, <3>1, <4>1, <4>3, <4>4 DEF Empty, Inside
      <4>6. ~Empty(place.dst) /\ Inside(place.dst, o.width, o.height)
        BY <2>3, <3>1 DEF Empty, Inside, Rect
      <4>7. QED  BY <2>2, <4>5, <4>6
    <3>6. h * l.w < l.h \/ w * l.h < l.w
      BY <2>3, <3>2, <3>5, CoverIsThin DEF cover
    <3>7. QED  BY <3>3, <3>6 DEF w, h, o
  <2>6. QED  BY <2>4, <2>5
<1>2. IInv => RefusesOnlyThin
  BY <1>1 DEF RefusesOnlyThin
<1>3. QED  BY <1>2, InvariantHolds, PTL
=============================================================================
