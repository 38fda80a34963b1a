------------------------------ MODULE Serialized ----------------------------
(***************************************************************************)
(* The serialized form (g_serialized.c): a header with the SRID and the    *)
(* flags, the box as floats when there is one, then type numbers, counts   *)
(* and ordinates.  A word is an integer, a float or a double; `pos` is     *)
(* where a reader is.  A word of another kind than the reader expects is   *)
(* garbage, here an error.                                                 *)
(***************************************************************************)
EXTENDS Geometry

Word(k, n) == << [k |-> k, v |-> n] >>
Ints(s) == FlattenSeq([i \in DOMAIN s |-> Word("int", s[i])])
Doubles(ps) ==
  FlattenSeq([i \in DOMAIN ps |-> FlattenSeq([j \in DOMAIN ps[i] |-> Word("double", ps[i][j])])])

-----------------------------------------------------------------------------
(* Writing *)

\* The counts of the rings come before the rings, padded to a full double.
RingCounts_mutant(g) == [i \in DOMAIN g.arrays |-> Len(g.arrays[i])]
RingCounts(g) ==
  [i \in DOMAIN g.arrays |-> Len(g.arrays[i])] \o (IF Len(g.arrays) % 2 = 1 THEN <<0>> ELSE <<>>)

RECURSIVE SerializedBody(_)
SerializedBody(g) ==
  CASE IsCollection(g) ->
         Ints(<<TypeCode(g.type), Len(g.geoms)>>)
           \o FlattenSeq([i \in DOMAIN g.geoms |-> SerializedBody(g.geoms[i])])
    [] g.type = "Polygon" ->
         Ints(<<TypeCode(g.type), Len(g.arrays)>> \o RingCounts(g))
           \o FlattenSeq([i \in DOMAIN g.arrays |-> Doubles(g.arrays[i])])
    [] OTHER -> Ints(<<TypeCode(g.type), Len(g.arrays[1])>>) \o Doubles(g.arrays[1])

\* gserialized_from_gbox: lower bounds are rounded down and upper bounds up.
SerializedBox(b) ==
  FlattenSeq([i \in DOMAIN b.lo |-> Word("float", FloatDown(b.lo[i])) \o Word("float", FloatUp(b.hi[i]))])

\* gserialized_from_rtgeom_size, the header included
RECURSIVE BodySize(_)
BodySize(g) ==
  8 + (IF g.type = "Polygon" THEN 4 * (Len(g.arrays) + (Len(g.arrays) % 2)) ELSE 0)
    + SumOf([i \in DOMAIN g.arrays |-> 8 * NDims(g.z, g.m) * Len(g.arrays[i])])
    + SumOf([i \in DOMAIN g.geoms |-> BodySize(g.geoms[i])])
SerializedSize(g) == 8 + (IF IsBox(g.box) THEN 8 * NDims(g.z, g.m) ELSE 0) + BodySize(g)

WordBytes(ws) == SumOf([i \in DOMAIN ws |-> IF ws[i].k = "double" THEN 8 ELSE 4])

RECURSIVE UniformDims(_)
UniformDims(g) ==
  \A i \in DOMAIN g.geoms :
    <<g.geoms[i].z, g.geoms[i].m>> = <<g.z, g.m>> /\ UniformDims(g.geoms[i])

\* What gserialized_from_rtgeom does to the geometry it is given: it gets a
\* box when it should have one, and the flag that says so.
Flagged(g) == IF IsBox(g.box) THEN [g EXCEPT !.flag = TRUE] ELSE g
Prepared(g) == Flagged(IF NeedsBox(g) THEN AddBox(g) ELSE g)

\* gserialized_from_rtgeom of a prepared geometry: a sequence of one
\* serialization, or of none when sizes or dimensions do not agree.
ToSerialized(g) ==
  LET data == SerializedBox(g.box) \o SerializedBody(g)
  IN  IF UniformDims(g) /\ SerializedSize(g) = 8 + WordBytes(data)
      THEN << [srid |-> ClampSrid(g.srid), z |-> g.z, m |-> g.m, flag |-> g.flag, data |-> data] >>
      ELSE <<>>

-----------------------------------------------------------------------------
(* Looking into a serialization *)

\* gbox_serialized_size, in words
BoxWords(s) == IF s.flag THEN 2 * NDims(s.z, s.m) ELSE 0

IntAt(s, pos) == IF pos \in DOMAIN s.data /\ s.data[pos].k = "int" THEN s.data[pos].v ELSE 0
TypeAt(s, pos) == IF IntAt(s, pos) \in DOMAIN TypeName THEN TypeName[IntAt(s, pos)] ELSE "Unknown"

\* gserialized_is_empty_recurse: an empty geometry takes two words.
RECURSIVE EmptyFrom(_, _)
RECURSIVE EmptyParts(_, _, _)
AfterEmpty(s, part, n) == IF part.empty THEN EmptyParts(s, part.pos, n - 1) ELSE part
EmptyFrom(s, pos) ==
  IF TypeAt(s, pos) \in Collections THEN EmptyParts(s, pos + 2, IntAt(s, pos + 1))
  ELSE [empty |-> IntAt(s, pos + 1) = 0, pos |-> pos + 2]
EmptyParts(s, pos, n) ==
  IF n = 0 THEN [empty |-> TRUE, pos |-> pos] ELSE AfterEmpty(s, EmptyFrom(s, pos), n)
SerializedIsEmpty(s) == EmptyFrom(s, BoxWords(s) + 1).empty

DoublesAt(s, pos) == [i \in 1..NDims(s.z, s.m) |-> s.data[pos + i - 1].v]

\* gserialized_read_gbox_p
ReadBox(s) ==
  IF ~ s.flag THEN NoBox
  ELSE [z |-> s.z, m |-> s.m, lo |-> [i \in 1..NDims(s.z, s.m) |-> s.data[2*i - 1].v],
        hi |-> [i \in 1..NDims(s.z, s.m) |-> s.data[2*i].v]]

\* gserialized_peek_gbox_p: points, lines of two points, and collections of
\* one of these, are so simple that their words are enough.  A collection of
\* one empty point is taken for one of a point.
OneAt(s, pos) == FloatRound(PointsBox(s.z, s.m, <<DoublesAt(s, pos)>>))
TwoAt(s, pos) ==
  FloatRound(PointsBox(s.z, s.m, <<DoublesAt(s, pos), DoublesAt(s, pos + NDims(s.z, s.m))>>))
PeekBox(s) ==
  CASE TypeAt(s, 1) = "Point" /\ IntAt(s, 2) # 0 -> OneAt(s, 3)
    [] TypeAt(s, 1) = "Line" /\ IntAt(s, 2) = 2 -> TwoAt(s, 3)
    [] TypeAt(s, 1) = "MultiPoint" /\ IntAt(s, 2) = 1 -> OneAt(s, 5)
    [] TypeAt(s, 1) = "MultiLine" /\ IntAt(s, 2) = 1 /\ IntAt(s, 4) = 2 -> TwoAt(s, 5)
    [] OTHER -> NoBox

-----------------------------------------------------------------------------
(* Reading *)

Got(g, pos) == [ok |-> TRUE, g |-> <<g>>, pos |-> pos]
Unreadable == [ok |-> FALSE, g |-> <<>>, pos |-> 0]

\* n points from pos on
PointsAt(s, pos, n) == [i \in 1..n |-> DoublesAt(s, pos + (i - 1) * NDims(s.z, s.m))]
Holds(s, pos, n) ==
  \A i \in pos..(pos + n * NDims(s.z, s.m) - 1) : i \in DOMAIN s.data /\ s.data[i].k = "double"

\* Ring by ring, the counts at pos, the ordinates at ord.
RECURSIVE RingsAt(_, _, _, _, _)
RingsAt(s, pos, ord, n, rings) ==
  IF n = 0 THEN [ok |-> TRUE, g |-> rings, pos |-> ord]
  ELSE IF ~ Holds(s, ord, IntAt(s, pos)) THEN Unreadable
  ELSE RingsAt(s, pos + 1, ord + IntAt(s, pos) * NDims(s.z, s.m), n - 1,
               Append(rings, PointsAt(s, ord, IntAt(s, pos))))

\* rtgeom_from_gserialized_buffer: nothing below the top has the BBOX flag.
GeomOf(s, type, flag, arrays, geoms) ==
  [NewGeom(type, SridUnknown, s.z, s.m, NoBox, arrays, geoms) EXCEPT !.flag = flag]
PolygonOf(s, rings, flag) ==
  IF rings.ok THEN Got(GeomOf(s, "Polygon", flag, rings.g, <<>>), rings.pos) ELSE rings
RECURSIVE PartsAt(_, _, _, _, _, _)
\* The geometry of a type whose count n comes before pos.
GeomFrom(s, type, pos, n, flag) ==
  CASE type = "Unknown" -> Unreadable
    [] type \in Collections -> PartsAt(s, type, pos, n, flag, <<>>)
    [] type = "Polygon" -> PolygonOf(s, RingsAt(s, pos, pos + n + (n % 2), n, <<>>), flag)
    [] OTHER -> IF Holds(s, pos, n)
                THEN Got(GeomOf(s, type, flag, <<PointsAt(s, pos, n)>>, <<>>), pos + n * NDims(s.z, s.m))
                ELSE Unreadable
GeomAt(s, pos, flag) == GeomFrom(s, TypeAt(s, pos), pos + 2, IntAt(s, pos + 1), flag)
AfterPart(s, type, part, n, flag, geoms) ==
  IF part.ok /\ AllowsSubtype(type, part.g[1].type)
  THEN PartsAt(s, type, part.pos, n - 1, flag, geoms \o part.g) ELSE Unreadable
PartsAt(s, type, pos, n, flag, geoms) ==
  IF n = 0 THEN Got(GeomOf(s, type, flag, <<>>, geoms), pos)
  ELSE AfterPart(s, type, GeomAt(s, pos, FALSE), n, flag, geoms)

\* rtgeom_from_gserialized: with the stored box, or a new one where it pays;
\* a new box does not set the flag.
Boxed(s, g) ==
  [g EXCEPT !.box = IF s.flag THEN ReadBox(s) ELSE IF NeedsBox(g) THEN CalculateBox(g) ELSE NoBox]
Finished(s, r) == IF r.ok THEN << SetSrid(Boxed(s, r.g[1]), s.srid) >> ELSE <<>>
FromSerialized(s) == Finished(s, GeomAt(s, BoxWords(s) + 1, s.flag))

\* gserialized_get_gbox_p: the stored box, else what can be peeked, else the
\* geometry is read.
OrRead(s, peeked) ==
  IF IsBox(peeked) THEN peeked ELSE FloatRound(CalculateBox(FromSerialized(s)[1]))
GetBox(s) == IF s.flag THEN ReadBox(s) ELSE OrRead(s, PeekBox(s))

\* What is kept: everything but the boxes and SRIDs of parts.
SerializedKept(g) == SetSrid(Bare(g), ClampSrid(g.srid))
=============================================================================
