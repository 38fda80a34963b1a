--------------------------------- MODULE Twkb -------------------------------
(***************************************************************************)
(* Tiny WKB (rtout_twkb.c, rtin_twkb.c).  Ordinates are rounded to a       *)
(* precision and written as differences to the point before, which may be  *)
(* a point of another ring or part.  A word is a byte of the header or an  *)
(* unsigned varint.  `opts` says what is asked for: "BBOX", "SIZE" and     *)
(* "IDS" (an identifier for each part).  `drop` is how many of the last    *)
(* digits of x and y are dropped (the negative of the precision); z and m  *)
(* keep whole numbers.                                                     *)
(***************************************************************************)
EXTENDS Geometry, Varint

TwkbTypes == SubSeq(TypeName, 1, 7)

Abs(n) == IF n < 0 THEN -n ELSE n

\* llround: a half goes away from zero
RoundedBy(n, d) == Sign(n) * ((2 * Abs(n) + d) \div (2 * d))
Quantised(p, drop) == [j \in DOMAIN p |-> IF j <= 2 THEN RoundedBy(p[j], 10 ^ drop) ELSE p[j]]

-----------------------------------------------------------------------------
(* Writing.  The state of a writer (TWKB_STATE): the point the next one is *)
(* relative to, the box so far, the points written since the last count,   *)
(* and the output.                                                         *)

Byte(v) == << [k |-> "byte", v |-> v] >>
UVarint(n) == << [k |-> "varint", v |-> n] >>
SVarints(s) == [j \in DOMAIN s |-> [k |-> "varint", v |-> Zigzag(s[j])]]

TwkbBytes(words) ==
  SumOf([i \in DOMAIN words |-> IF words[i].k = "byte" THEN 1 ELSE VarintBytes(words[i].v)])

TwkbWriter(z, m) ==
  [z |-> z, m |-> m, accum |-> [j \in 1..NDims(z, m) |-> 0], box |-> NoBox, n |-> 0, out |-> <<>>]

Joined(box, b) == IF ~ IsBox(box) THEN b ELSE IF ~ IsBox(b) THEN box ELSE Merged(b, box)

\* The points of ps from the i-th on.  A point that adds nothing is left out
\* once there are enough of them.
RECURSIVE TwkbPoints(_, _, _, _)
TwkbPoints(w, ps, i, enough) ==
  IF i > Len(ps) THEN w
  ELSE LET delta == [j \in DOMAIN w.accum |-> ps[i][j] - w.accum[j]]
       IN  IF i - 1 > enough /\ \A j \in DOMAIN delta : delta[j] = 0
           THEN TwkbPoints(w, ps, i + 1, enough)
           ELSE TwkbPoints([w EXCEPT !.accum = ps[i], !.n = @ + 1,
                                     !.box = Joined(@, PointsBox(w.z, w.m, <<ps[i]>>)),
                                     !.out = @ \o SVarints(delta)], ps, i + 1, enough)

\* ptarray_to_twkb_buf: the count of what was kept goes before the points.
TwkbArray(w, ps, drop, enough, counted) ==
  LET quantised == [i \in DOMAIN ps |-> Quantised(ps[i], drop)]
      w1 == TwkbPoints([w EXCEPT !.n = 0, !.out = <<>>], quantised, 1, enough)
  IN  [w1 EXCEPT !.out = w.out \o (IF counted THEN UVarint(w1.n) ELSE <<>>) \o @]

RECURSIVE TwkbRings(_, _, _)
TwkbRings(w, rings, drop) ==
  IF rings = <<>> THEN w ELSE TwkbRings(TwkbArray(w, Head(rings), drop, 4, TRUE), Tail(rings), drop)

\* rtgeom_to_twkb_buf of what has no header of its own, and of the parts of
\* a multi-geometry, which go on with its state.
TwkbSimple(w, g, drop) ==
  CASE g.type = "Point" -> TwkbArray(w, g.arrays[1], drop, 1, FALSE)
    [] g.type = "Line" -> TwkbArray(w, g.arrays[1], drop, 2, TRUE)
    [] g.type = "Polygon" ->
         TwkbRings([w EXCEPT !.out = @ \o UVarint(Len(g.arrays))], g.arrays, drop)
RECURSIVE TwkbParts(_, _, _)
TwkbParts(w, geoms, drop) ==
  IF geoms = <<>> THEN w ELSE TwkbParts(TwkbSimple(w, Head(geoms), drop), Tail(geoms), drop)

\* A multi-point has no place for an empty point.
Written(g) == IF g.type = "MultiPoint" THEN SelectSeq(g.geoms, LAMBDA p : ~ IsEmpty(p)) ELSE g.geoms

\* The first count of a collection, and the identifiers if it is the first
\* that can have them.
TwkbCount(w, g, opts) ==
  [w EXCEPT !.out = @ \o UVarint(Len(Written(g)))
                      \o (IF "IDS" \in opts THEN SVarints([i \in DOMAIN Written(g) |-> i]) ELSE <<>>)]

Flag(condition, bit) == IF condition THEN bit ELSE 0

TwkbHeader(g, opts, drop) ==
  Byte(TypeCode(g.type) + 16 * Zigzag(-drop))
    \o Byte(Flag("BBOX" \in opts /\ ~ IsEmpty(g), 1) + Flag("SIZE" \in opts, 2)
            + Flag("IDS" \in opts /\ ~ IsEmpty(g), 4) + Flag(g.z \/ g.m, 8) + Flag(IsEmpty(g), 16))
    \o (IF g.z \/ g.m THEN Byte(Flag(g.z, 1) + Flag(g.m, 2)) ELSE <<>>)

TwkbBox(box) ==
  FlattenSeq([j \in DOMAIN box.lo |-> SVarints(<<box.lo[j], box.hi[j] - box.lo[j]>>)])

\* The size counts all that follows it, the box included.
TwkbFrame_mutant(g, w, opts, drop) ==
  TwkbHeader(g, opts, drop)
    \o (IF "SIZE" \in opts THEN UVarint(TwkbBytes(w.out)) ELSE <<>>)
    \o (IF "BBOX" \in opts THEN TwkbBox(w.box) ELSE <<>>) \o w.out
TwkbFrame(g, w, opts, drop) ==
  LET box == IF "BBOX" \in opts THEN TwkbBox(w.box) ELSE <<>>
  IN  TwkbHeader(g, opts, drop)
        \o (IF "SIZE" \in opts THEN UVarint(TwkbBytes(box) + TwkbBytes(w.out)) ELSE <<>>)
        \o box \o w.out

\* rtgeom_write_to_buffer: header and body of a geometry, and the box that it
\* adds to the box of a collection it is part of.
RECURSIVE TwkbWhole(_, _, _)
RECURSIVE TwkbMembers(_, _, _, _)
TwkbWhole(g, opts, drop) ==
  LET w0 == TwkbWriter(g.z, g.m)
      w == CASE g.type = "Collection" ->
                  TwkbMembers(TwkbCount(w0, g, opts), g.geoms, opts \ {"IDS"}, drop)
             [] IsCollection(g) -> TwkbParts(TwkbCount(w0, g, opts), Written(g), drop)
             [] OTHER -> TwkbSimple(w0, g, drop)
  IN  IF IsEmpty(g)
      THEN [out |-> TwkbHeader(g, opts, drop) \o (IF "SIZE" \in opts THEN Byte(0) ELSE <<>>),
            box |-> NoBox]
      ELSE [out |-> TwkbFrame(g, w, opts, drop), box |-> w.box]
TwkbMembers(w, geoms, opts, drop) ==
  IF geoms = <<>> THEN w
  ELSE LET part == TwkbWhole(Head(geoms), opts, drop)
       IN  TwkbMembers([w EXCEPT !.out = @ \o part.out, !.box = Joined(@, part.box)],
                       Tail(geoms), opts, drop)

\* rtgeom_to_twkb_with_idlist: nothing for types that TWKB has no number for.
RECURSIVE TwkbTyped(_)
TwkbTyped(g) == /\ g.type \in Range(TwkbTypes)
                /\ IsEmpty(g) \/ \A i \in DOMAIN g.geoms : TwkbTyped(g.geoms[i])
ToTwkb(g, opts, drop) ==
  IF ~ TwkbTyped(g) \/ ("IDS" \in opts /\ ~ IsCollection(g)) THEN <<>>
  ELSE TwkbWhole(g, opts, drop).out

-----------------------------------------------------------------------------
(* Reading.  The reader (twkb_parse_state) has the input that is left, what *)
(* the last header said, and the point the next one is relative to.        *)

TwkbReader(words, checks) ==
  [in |-> words, ok |-> TRUE, checks |-> checks, type |-> "Unknown", z |-> FALSE, m |-> FALSE,
   drop |-> 0, box |-> FALSE, size |-> FALSE, ids |-> FALSE, empty |-> FALSE, coords |-> <<>>, out |-> <<>>]

TwkbFail(r) == [r EXCEPT !.ok = FALSE, !.in = <<>>, !.out = <<>>]

\* n words of a kind, skipped; 0 stands for what is not there
Starts(r, k, n) == Len(r.in) >= n /\ \A i \in 1..n : r.in[i].k = k
Skip(r, k, n) == IF Starts(r, k, n) THEN [r EXCEPT !.in = SubSeq(@, n + 1, Len(@))] ELSE TwkbFail(r)
FirstOf(r, k) == IF Starts(r, k, 1) THEN r.in[1].v ELSE 0

Bit(n, bit) == (n \div bit) % 2 = 1

\* header_from_twkb_state: type and precision, flags, dimensions, and a size
\* that is read and not used
HeaderType(r, first) ==
  IF first % 16 \notin DOMAIN TwkbTypes THEN TwkbFail(r)
  ELSE [r EXCEPT !.type = TwkbTypes[first % 16], !.drop = -Unzigzag(first \div 16)]
HeaderFlags(r, flags) ==
  [r EXCEPT !.box = Bit(flags, 1), !.size = Bit(flags, 2), !.ids = Bit(flags, 4),
            !.z = Bit(flags, 8), !.empty = Bit(flags, 16)]
HeaderDims(r, dims) ==
  [r EXCEPT !.z = Bit(dims, 1), !.m = Bit(dims, 2), !.coords = [j \in 1..NDims(Bit(dims, 1), Bit(dims, 2)) |-> 0]]
WithType(r) == HeaderType(Skip(r, "byte", 1), FirstOf(r, "byte"))
WithFlags(r) == HeaderFlags(Skip(r, "byte", 1), FirstOf(r, "byte"))
WithDims(r) == IF r.z THEN HeaderDims(Skip(r, "byte", 1), FirstOf(r, "byte")) ELSE HeaderDims(r, 0)
WithoutSize(r) == IF r.size THEN Skip(r, IF r.empty THEN "byte" ELSE "varint", 1) ELSE r
TwkbReadHeader(r) == WithoutSize(WithDims(WithFlags(WithType(r))))

\* The ordinate j of a stored value.
Restored(n, j, drop) == IF j <= 2 THEN n * 10 ^ drop ELSE n

\* The bounds of the box: where z is, the reader looks for m as well, and
\* where only m is, for neither.  (Bounds of z that no box has are dropped.)
TwkbBounds(r) == IF r.z THEN 4 ELSE 2
TwkbReadBox(r) ==
  LET Bound(j) == Unzigzag(r.in[j].v)
      Lo(j) == IF j > TwkbBounds(r) THEN 0 ELSE Restored(Bound(2*j - 1), j, r.drop)
      Hi(j) == IF j > TwkbBounds(r) THEN 0 ELSE Restored(Bound(2*j - 1) + Bound(2*j), j, r.drop)
  IN  IF ~ Starts(r, "varint", 2 * TwkbBounds(r)) THEN NoBox
      ELSE [z |-> r.z, m |-> r.m, lo |-> [j \in DOMAIN r.coords |-> Lo(j)], hi |-> [j \in DOMAIN r.coords |-> Hi(j)]]

\* ptarray_from_twkb_state: n more points after ps
RECURSIVE TwkbReadPoints(_, _, _)
TwkbReadPoints(r, n, ps) ==
  IF n = 0 \/ ~ r.ok THEN [r EXCEPT !.out = <<ps>>]
  ELSE IF ~ Starts(r, "varint", Len(r.coords)) THEN TwkbFail(r)
  ELSE LET coords == [j \in DOMAIN r.coords |-> r.coords[j] + Unzigzag(r.in[j].v)]
       IN  TwkbReadPoints([Skip(r, "varint", Len(coords)) EXCEPT !.coords = coords], n - 1,
                          Append(ps, [j \in DOMAIN coords |-> Restored(coords[j], j, r.drop)]))

TwkbReadArray(r) ==
  LET n == FirstOf(r, "varint") IN TwkbReadPoints(Skip(r, "varint", 1), n, <<>>)

\* A ring that is not closed is closed.
ClosedRing(ps) ==
  IF ps = <<>> \/ (ps[1][1] = ps[Len(ps)][1] /\ ps[1][2] = ps[Len(ps)][2]) THEN ps
  ELSE Append(ps, ps[1])

RECURSIVE TwkbReadRings(_, _, _)
AfterRing(r, ring, n, rings) ==
  IF ~ r.ok \/ ("MINPOINTS" \in r.checks /\ Len(ring) < 4) THEN TwkbFail(r)
  ELSE TwkbReadRings(r, n - 1, Append(rings, ring))
RingRead(r, n, rings) == AfterRing(r, IF r.ok THEN ClosedRing(r.out[1]) ELSE <<>>, n, rings)
TwkbReadRings(r, n, rings) ==
  IF n = 0 \/ ~ r.ok THEN [r EXCEPT !.out = rings] ELSE RingRead(TwkbReadArray(r), n, rings)

\* The geometry that a reader has read the point arrays (or the parts) of
TwkbGeom(r, type, arrays, geoms) ==
  [r EXCEPT !.out = << NewGeom(type, SridUnknown, r.z, r.m, NoBox, arrays, geoms) >>]
OfArrays(r, type) ==
  IF ~ r.ok \/ (type = "Line" /\ "MINPOINTS" \in r.checks /\ Len(r.out[1]) = 1) THEN TwkbFail(r)
  ELSE TwkbGeom(r, type, r.out, <<>>)

TwkbReadSimple(r, type) ==
  CASE r.empty -> [r EXCEPT !.out = << ConstructEmpty(type, SridUnknown, r.z, r.m) >>]
    [] type = "Point" -> OfArrays(TwkbReadPoints(r, 1, <<>>), type)
    [] type = "Line" -> OfArrays(TwkbReadArray(r), type)
    [] OTHER -> OfArrays(TwkbReadRings(Skip(r, "varint", 1), FirstOf(r, "varint"), <<>>), type)

PartType(type) ==
  CASE type = "MultiPoint" -> "Point" [] type = "MultiLine" -> "Line" [] OTHER -> "Polygon"

\* rtgeom_from_twkb_state.  Parts of a multi-geometry have no header; those
\* of a collection do, and what they leave behind is not what it was.
RECURSIVE TwkbReadParts(_, _, _, _)
AfterIds(r, n) == IF r.ids THEN Skip(Skip(r, "varint", 1), "varint", n) ELSE Skip(r, "varint", 1)
TwkbReadMulti(r, n) == TwkbReadParts(r, AfterIds(r, n), n, <<>>)
TwkbBody(r) ==
  CASE ~ r.ok -> r
    [] ~ IsCollection([type |-> r.type]) -> TwkbReadSimple(r, r.type)
    [] r.empty -> TwkbGeom(r, r.type, <<>>, <<>>)
    [] OTHER -> TwkbReadMulti(r, FirstOf(r, "varint"))
Bounded(r, box) == IF r.ok THEN [r EXCEPT !.out[1].box = box] ELSE r
AfterHeader(h) ==
  IF h.box THEN Bounded(TwkbBody(Skip(h, "varint", 2 * TwkbBounds(h))), TwkbReadBox(h)) ELSE TwkbBody(h)
TwkbRead(r) == AfterHeader(TwkbReadHeader(r))
AfterTwkbPart(head, r, n, geoms) == TwkbReadParts(head, r, n - 1, geoms \o r.out)
TwkbReadParts(head, r, n, geoms) ==
  IF ~ r.ok THEN r
  ELSE IF n = 0
  THEN [r EXCEPT !.out = << NewGeom(head.type, SridUnknown, head.z, head.m, NoBox, <<>>, geoms) >>]
  ELSE AfterTwkbPart(head, IF head.type = "Collection" THEN TwkbRead(r)
                           ELSE TwkbReadSimple(r, PartType(head.type)), n, geoms)

\* rtgeom_from_twkb: a sequence of one geometry, or of none at an error.
Result(r) == IF r.ok THEN r.out ELSE <<>>
FromTwkb(words, checks) == Result(TwkbRead(TwkbReader(words, checks)))

-----------------------------------------------------------------------------
(* What a geometry has in TWKB: rounded ordinates, without the points that  *)
(* rounding made equal to the one before (once there are enough), without  *)
(* SRIDs and without the empty points of multi-points.                     *)

Rounded(ps, drop, enough) ==
  LET q == [i \in DOMAIN ps |-> [j \in DOMAIN ps[i] |-> Restored(Quantised(ps[i], drop)[j], j, drop)]]
      kept == {i \in DOMAIN q : i <= enough + 1 \/ q[i] # q[i - 1]}
  IN  [k \in 1..Cardinality(kept) |-> q[CHOOSE i \in kept : Cardinality({h \in kept : h <= i}) = k]]

RECURSIVE TwkbKept(_, _)
TwkbKept(g, drop) ==
  IF IsEmpty(g) THEN ConstructEmpty(g.type, SridUnknown, g.z, g.m)
  ELSE NewGeom(g.type, SridUnknown, g.z, g.m, NoBox,
         [i \in DOMAIN g.arrays |->
            Rounded(g.arrays[i], drop, CASE g.type = "Line" -> 2 [] g.type = "Polygon" -> 4 [] OTHER -> 1)],
         [i \in DOMAIN Written(g) |-> TwkbKept(Written(g)[i], drop)])
=============================================================================
