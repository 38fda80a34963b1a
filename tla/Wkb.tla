--------------------------------- MODULE Wkb --------------------------------
(***************************************************************************)
(* Well-known binary (rtout_wkb.c, rtin_wkb.c).  A WKB is a sequence of    *)
(* bytes, integers and doubles, each written in a byte order; the variant  *)
(* is the set of the flags asked for.  A reader is a record: the input     *)
(* that is left, what it remembers of the last header, and in `out` what   *)
(* it has just read.  Reading other than what was written is an error.     *)
(***************************************************************************)
EXTENDS Geometry

\* The numbers WKB gives to the types, two numbers of old files included.
WkbTypes ==
  [n \in (1..12) |-> <<"Point", "Line", "Polygon", "MultiPoint", "MultiLine",
     "MultiPolygon", "Collection", "CircString", "Compound", "CurvePoly",
     "MultiCurve", "MultiSurface">>[n]]
WkbNumber(type) ==
  CASE type = "PolyhedralSurface" -> 15
    [] type = "Tin" -> 16
    [] type = "Triangle" -> 17
    [] OTHER -> CHOOSE n \in DOMAIN WkbTypes : WkbTypes[n] = type
WkbType(n) ==
  CASE n \in DOMAIN WkbTypes -> WkbTypes[n]
    [] n = 13 -> "CurvePoly"
    [] n = 14 -> "MultiCurve"
    [] n = 15 -> "PolyhedralSurface"
    [] n = 16 -> "Tin"
    [] n = 17 -> "Triangle"
    [] OTHER -> "Unknown"

-----------------------------------------------------------------------------
(* Writing *)

Order(v) == IF "NDR" \in v THEN "NDR" ELSE "XDR"

\* `flags` are the high bits of an integer that says a type.
WkbByte(v) == << [k |-> "byte", v |-> 0, flags |-> {}, order |-> Order(v)] >>
WkbInt(n, v) == << [k |-> "int", v |-> n, flags |-> {}, order |-> Order(v)] >>
WkbDouble(x, v) == << [k |-> "double", v |-> x, flags |-> {}, order |-> Order(v)] >>
WkbNaN(v) == << [k |-> "nan", v |-> 0, flags |-> {}, order |-> Order(v)] >>

\* Parts inherit the SRID of the whole.
WkbNeedsSrid(g, v) ==
  "NO_SRID" \notin v /\ "EXTENDED" \in v /\ g.srid # SridUnknown

WkbTypeWord(g, v) ==
  [k |-> "int", order |-> Order(v),
   flags |-> IF "EXTENDED" \notin v THEN {}
             ELSE {f \in {"Z", "M", "SRID"} : \/ f = "Z" /\ g.z
                                              \/ f = "M" /\ g.m
                                              \/ f = "SRID" /\ WkbNeedsSrid(g, v)},
   v |-> WkbNumber(g.type) + IF "EXTENDED" \in v \/ "ISO" \notin v THEN 0
                             ELSE (IF g.z THEN 1000 ELSE 0) + (IF g.m THEN 2000 ELSE 0)]

WkbHeader(g, v) ==
  WkbByte(v) \o <<WkbTypeWord(g, v)>>
    \o (IF WkbNeedsSrid(g, v) THEN WkbInt(g.srid, v) ELSE <<>>)

Concat(seqs) == FlattenSeq(seqs)

\* An empty point has as many NaN as ordinates, also in the variant that has
\* two dimensions only.
WkbEmpty(g, v) ==
  WkbHeader(g, v) \o
  IF g.type = "Point" THEN Concat([i \in 1..NDims(g.z, g.m) |-> WkbNaN(v)])
  ELSE WkbInt(0, v)

WkbOrdinates(p, v) ==
  Concat([i \in 1..(IF v \cap {"ISO", "EXTENDED"} # {} THEN Len(p) ELSE 2) |->
            WkbDouble(p[i], v)])

WkbPoints(ps, v) ==
  (IF "NO_NPOINTS" \in v THEN <<>> ELSE WkbInt(Len(ps), v))
    \o Concat([i \in DOMAIN ps |-> WkbOrdinates(ps[i], v)])

\* What follows depends on the type.  The number of a point's points is not said.
WkbPoint(g, v) == WkbHeader(g, v) \o WkbPoints(g.arrays[1], v \cup {"NO_NPOINTS"})
WkbLine(g, v) == WkbHeader(g, v) \o WkbPoints(g.arrays[1], v)
WkbRings(g, v) ==
  WkbHeader(g, v) \o WkbInt(Len(g.arrays), v)
    \o Concat([i \in DOMAIN g.arrays |-> WkbPoints(g.arrays[i], v)])
WkbCollection(g, v, parts) ==
  WkbHeader(g, v) \o WkbInt(Len(g.geoms), v) \o Concat(parts)

\* rtgeom_to_wkb_buf.  The extended variant keeps the parts of empty collections.
RECURSIVE WkbWrite(_, _)
WkbWrite(g, v) ==
  CASE IsEmpty(g) /\ ~ ("EXTENDED" \in v /\ IsCollection(g)) -> WkbEmpty(g, v)
    [] g.type = "Point" -> WkbPoint(g, v)
    [] g.type \in {"Line", "CircString"} -> WkbLine(g, v)
    [] g.type \in {"Polygon", "Triangle"} -> WkbRings(g, v)
    [] OTHER -> WkbCollection(g, v, [i \in DOMAIN g.geoms |->
                                       WkbWrite(g.geoms[i], v \cup {"NO_SRID"})])

\* The sizes the buffer is allocated by, before anything is written.
WkbEmptySize(g, v) ==
  5 + (IF WkbNeedsSrid(g, v) THEN 4 ELSE 0)
    + (IF g.type = "Point" THEN 8 * NDims(g.z, g.m) ELSE 4)

WkbPointsSize(g, ps, v) ==
  (IF "NO_NPOINTS" \in v THEN 0 ELSE 4)
    + Len(ps) * 8 * (IF v \cap {"ISO", "EXTENDED"} # {} THEN NDims(g.z, g.m) ELSE 2)

RECURSIVE WkbSize_mutant(_, _)
WkbSize_mutant(g, v) ==
  IF IsEmpty(g) THEN WkbEmptySize(g, v)
  ELSE (IF g.type \in SimpleTypes \ {"Polygon", "Triangle"} THEN 5 ELSE 9)
         + (IF WkbNeedsSrid(g, v) THEN 4 ELSE 0)
         + SumOf([i \in DOMAIN g.arrays |->
                    WkbPointsSize(g, g.arrays[i], IF g.type = "Point" THEN v \cup {"NO_NPOINTS"} ELSE v)])
         + SumOf([i \in DOMAIN g.geoms |-> WkbSize_mutant(g.geoms[i], v \cup {"NO_SRID"})])
RECURSIVE WkbSize(_, _)
WkbSize(g, v) ==
  IF IsEmpty(g) /\ ~ ("EXTENDED" \in v /\ IsCollection(g)) THEN WkbEmptySize(g, v)
  ELSE (IF g.type \in SimpleTypes \ {"Polygon", "Triangle"} THEN 5 ELSE 9)
         + (IF WkbNeedsSrid(g, v) THEN 4 ELSE 0)
         + SumOf([i \in DOMAIN g.arrays |->
                    WkbPointsSize(g, g.arrays[i], IF g.type = "Point" THEN v \cup {"NO_NPOINTS"} ELSE v)])
         + SumOf([i \in DOMAIN g.geoms |-> WkbSize(g.geoms[i], v \cup {"NO_SRID"})])

WkbBytes(wkb) ==
  SumOf([i \in DOMAIN wkb |-> CASE wkb[i].k = "byte" -> 1 [] wkb[i].k = "int" -> 4 [] OTHER -> 8])

\* rtgeom_to_wkb: native order unless one is asked for; the end of the buffer
\* is where the size said it would be, or nothing is returned.  Hexadecimal
\* output is twice as long, and ends with a null.
WithOrder(v) ==
  IF ("NDR" \in v) = ("XDR" \in v) THEN v \cup {"NDR"} ELSE v

ToWkb(g, v) ==
  LET bytes == WkbWrite(g, WithOrder(v))
      Length(n) == IF "HEX" \in v THEN 2 * n + 1 ELSE n
  IN  IF Length(WkbBytes(bytes)) = Length(WkbSize(g, v)) THEN bytes ELSE <<>>

-----------------------------------------------------------------------------
(* Reading *)

WkbReader(wkb, checks) ==
  [in |-> wkb, order |-> "NDR", type |-> "Unknown", srid |-> SridUnknown,
   z |-> FALSE, m |-> FALSE, checks |-> checks, ok |-> TRUE, out |-> <<>>]

Fail(r) == [r EXCEPT !.ok = FALSE, !.in = <<>>, !.out = <<>>]

\* One byte, integer or double, in the order of the header.
Reads(r, k) == r.in # <<>> /\ r.in[1].k \in k /\ r.in[1].order = r.order
Past(r) == [r EXCEPT !.in = Tail(r.in)]

\* integer_from_wkb_state, 0 at an error
WkbCount(r) == IF Reads(r, {"int"}) THEN r.in[1].v ELSE 0
AfterCount(r) == IF Reads(r, {"int"}) THEN Past(r) ELSE Fail(r)

\* A point's ordinates; those of an empty point are no numbers.
WkbReadPoint(r) ==
  LET n == NDims(r.z, r.m)
  IN  IF Len(r.in) >= n /\ \A i \in 1..n : r.in[i].k \in {"double", "nan"} /\ r.in[i].order = r.order
      THEN [r EXCEPT !.in = SubSeq(@, n + 1, Len(@)),
                     !.out = IF r.in[1].k = "nan" /\ r.in[2].k = "nan" THEN << <<>> >>
                             ELSE << << [i \in 1..n |-> r.in[i].v] >> >>]
      ELSE Fail(r)

\* ptarray_from_wkb_state: n more points after ps
RECURSIVE WkbReadPoints(_, _, _)
WkbReadPoints(r, n, ps) ==
  IF ~ r.ok THEN r
  ELSE IF n = 0 THEN [r EXCEPT !.out = <<ps>>]
  ELSE LET r1 == WkbReadPoint(r)
       IN  IF r1.ok THEN WkbReadPoints(r1, n - 1, ps \o r1.out[1]) ELSE r1

WkbReadArray(r) == WkbReadPoints(AfterCount(r), WkbCount(r), <<>>)

Closed(ps, dims) == ps # <<>> /\ \A d \in 1..dims : ps[1][d] = ps[Len(ps)][d]

\* What a reader that checks demands of a point array of a type.
WkbAccepts(r, ps) ==
  /\ ("MINPOINTS" \in r.checks =>
        Len(ps) >= CASE r.type = "Line" -> 2 [] r.type = "CircString" -> 3 [] OTHER -> 4)
  /\ (r.type = "CircString" /\ "ODD" \in r.checks => Len(ps) % 2 = 1)
  /\ (r.type \in {"Polygon", "Triangle"} /\ "CLOSURE" \in r.checks => Closed(ps, 2))
  /\ (r.type = "Triangle" /\ r.z /\ "ZCLOSURE" \in r.checks => Closed(ps, 3))

WkbGeom(r, arrays, geoms) ==
  [r EXCEPT !.out = << NewGeom(r.type, r.srid, r.z, r.m, NoBox, arrays, geoms) >>]

\* n more rings after `rings`
RECURSIVE WkbReadRings(_, _, _)
WkbReadRings(r, n, rings) ==
  IF n = 0 THEN WkbGeom(r, rings, <<>>)
  ELSE LET r1 == WkbReadArray(r)
       IN  IF r1.ok /\ WkbAccepts(r1, r1.out[1])
           THEN WkbReadRings(r1, n - 1, Append(rings, r1.out[1])) ELSE Fail(r1)

\* The header sets what the reader knows of the geometry.  The SRID of a whole
\* stays for its parts, which have none of their own.
WkbReadHeader(r) ==
  LET r1 == [r EXCEPT !.order = r.in[1].order, !.in = Tail(@)]
      word == r1.in[1]
      r2 == [Past(r1) EXCEPT
               !.type = WkbType(word.v % 1000),
               !.z = "Z" \in word.flags \/ word.v \div 1000 \in {1, 3},
               !.m = "M" \in word.flags \/ word.v \div 1000 \in {2, 3}]
  IN  IF r.in = <<>> \/ r.in[1].k # "byte" \/ ~ Reads(r1, {"int"}) THEN Fail(r)
      ELSE IF "SRID" \in word.flags
      THEN [AfterCount(r2) EXCEPT !.srid = ClampSrid(WkbCount(r2))]
      ELSE r2

\* Parts after the head of a collection, with the reader r left by the last one.
RECURSIVE WkbRead(_)
RECURSIVE WkbReadParts(_, _, _, _)
WkbReadParts(head, r, n, geoms) ==
  IF n = 0
  THEN [r EXCEPT !.out =
          << NewGeom(head.type, head.srid, head.z, head.m, NoBox, <<>>, geoms) >>]
  ELSE LET r1 == WkbRead(r)
       IN  IF r1.ok /\ AllowsSubtype(head.type, r1.out[1].type)
           THEN WkbReadParts(head, r1, n - 1, Append(geoms, r1.out[1])) ELSE Fail(r1)

\* rtgeom_from_wkb_state.  A polyhedral surface makes the checks of all that
\* is read after it stricter.
WkbRead(r) ==
  LET h == WkbReadHeader(r)
      n == WkbCount(h)
      h1 == AfterCount(h)
      strict == IF h.type = "PolyhedralSurface" /\ n > 0
                THEN [h1 EXCEPT !.checks = @ \cup {"ZCLOSURE"}] ELSE h1
      line == WkbReadArray(h)
  IN  CASE ~ h.ok -> h
        [] h.type = "Unknown" -> Fail(h)
        [] h.type = "Point" ->
             IF WkbReadPoint(h).ok THEN WkbGeom(WkbReadPoint(h), WkbReadPoint(h).out, <<>>) ELSE Fail(h)
        [] h.type \in {"Line", "CircString"} ->
             IF line.ok /\ (line.out[1] = <<>> \/ WkbAccepts(line, line.out[1]))
             THEN WkbGeom(line, line.out, <<>>) ELSE Fail(line)
        [] h.type \in {"Polygon", "Triangle"} /\ n = 0 ->
             IF h1.ok THEN WkbGeom(h1, ConstructEmpty(h.type, 0, FALSE, FALSE).arrays, <<>>) ELSE h1
        [] h.type \in {"Polygon", "Triangle"} -> 
             IF h.type = "Triangle" /\ n # 1 THEN Fail(h1) ELSE WkbReadRings(h1, n, <<>>)
        [] OTHER -> IF h1.ok THEN WkbReadParts(h, strict, n, <<>>) ELSE h1

\* rtgeom_from_wkb: a sequence of one geometry, or of none at an error.
FromWkb(wkb, checks) ==
  LET r == WkbRead(WkbReader(wkb, checks)) IN  IF r.ok THEN r.out ELSE <<>>

-----------------------------------------------------------------------------
(* What a geometry has in each variant: the extended one keeps everything  *)
(* but the SRIDs of parts, ISO loses the SRID and the parts of empty       *)
(* collections, and the basic one has two dimensions.                      *)

Cut(p, v) == IF v \cap {"ISO", "EXTENDED"} # {} THEN p ELSE SubSeq(p, 1, 2)

RECURSIVE WkbContent(_, _, _)
WkbContent(g, v, srid) ==
  LET z == g.z /\ v \cap {"ISO", "EXTENDED"} # {}
      m == g.m /\ v \cap {"ISO", "EXTENDED"} # {}
  IN  IF IsEmpty(g) /\ ~ ("EXTENDED" \in v /\ IsCollection(g))
      THEN ConstructEmpty(g.type, srid, z, m)
      ELSE NewGeom(g.type, srid, z, m, NoBox,
             [i \in DOMAIN g.arrays |-> [j \in DOMAIN g.arrays[i] |-> Cut(g.arrays[i][j], v)]],
             [i \in DOMAIN g.geoms |-> WkbContent(g.geoms[i], v, srid)])

WkbKept(g, v) == WkbContent(g, v, IF "EXTENDED" \in v THEN ClampSrid(g.srid) ELSE SridUnknown)
=============================================================================
