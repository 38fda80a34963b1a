# Verification of librttopo

librttopo is PostGIS's geometry library (`rtgeom*.c`) with, on top of it, an
editor of *topologies*: nodes, edges and faces that divide the plane, stored by a
backend the client supplies.  The editor, `src/src/rtgeom_topo.c`, is a long
sequence of table updates whose correctness rests on global conditions no single
call checks.  Below it are operations on geometries that keep boxes, flags and
binary forms in step with coordinates, and loops over arrays whose end and memory
depend on counts kept by hand.  This directory models these in TLA+, checks them
with TLC on small worlds, and proves some of the properties with TLAPS for worlds
of any size.

## 1. Inventory

| Component | State | Operations | What makes it correct |
|---|---|---|---|
| Topology editing (`rtgeom_topo.c` 413-4850, `librttopo.h`) | none of its own: NODE, EDGE and FACE rows behind callbacks | AddIsoNode, MoveIsoNode, RemoveIsoNode, AddIsoEdge, RemIsoEdge, ModEdgeSplit, NewEdgesSplit, AddEdgeModFace, AddEdgeNewFaces, RemEdgeModFace, RemEdgeNewFace, ModEdgeHeal, NewEdgeHeal, ChangeEdgeGeom | the rows describe one planar partition after any sequence of calls |
| Backend callbacks (`librttopo.h`, wrappers at `rtgeom_topo.c` 150-440) | the tables and the TopoGeometry objects | row reads and writes, spatial reads, `updateTopoGeom*`, `checkTopoGeom*` | external; TopoGeometry objects keep their meaning |
| Queries (2864-3295, 4852-5044), area building (`rtgeom_geos.c`) | - | GetFaceGeometry, GetFaceEdges, Get{Node,Edge,Face}ByPoint | labels, links and geometry give the same answer |
| Populating (5048-6165) | - | AddPoint, AddLine, AddLineNoFace, AddPolygon | compose the editing functions after snapping and noding |
| Polygonize (6167-7083) | - | Polygonize | gives a faceless topology the faces its rings bound |
| TpSnap (`rtt_tpsnap.c`) | edges fetched, extent | iterated snapping of a geometry to edges | ends; spares both ends of every line; leaves nothing to snap |
| Geometries in memory (`rtgeom.c`, `ptarray.c`, `rtcollection.c`, ..., `rthomogenize.c`) | coordinates, parts, flags, SRID, cached box | change in place, make, extract, merge, homogenize, simplify, force, ... | the flags and dimensions agree through all parts; a cached box covers what it is the box of |
| Boxes (`g_box.c`, `rtgeom_api.c`) | - | of arrays and arcs, merge, rounding to floats | cover |
| Serialized form (`g_serialized.c`), WKB (`rtin_wkb.c`, `rtout_wkb.c`), TWKB (`rtin_twkb.c`, `rtout_twkb.c`, `varint.c`) | a cursor; for TWKB the last point | size, write, read, box without reading | what is written is read back, within the size computed beforehand |
| Distances (`measures.c`) | the best so far | least and greatest distance, the line between, within a tolerance | the least of all, whichever way it is found |
| Loops and buffers (`ptarray_simplify`, `rtiterator.c`, `bytebuffer.c`) | a stack, a cursor, a capacity | one pass | end; stay inside their memory; miss nothing |
| Measured lines (`rtlinearreferencing.c`, `ptarray_substring`, `ptarray_locate_point`) | what the loop remembers of the last point | clip to a range of measures, locate along, part and place by length, closest point of approach | what is left is what lies in the range; the ways to say the same agree |
| Textual formats, stroking, geodetic and 3D measures, GEOS conversions | - | conversions | see section 7 |

The library is sequential and keeps nothing between calls but what the caller
holds.  Each editing function calls the backend many times: it reads rows, computes
turns and areas, writes rows and tells the TopoGeometry objects.  What is hard is
therefore not concurrency but *long sequences*: each call trusts the links, labels,
marks and boxes earlier calls left, patches only what it believes to be concerned,
and reads again what it has just written.  Two algorithms for the same thing (a face
by labels and by geometry, a size and what is written, a fast and a slow distance)
have to agree without any code in common.  The hazards in `PROJECT.json` list where.

## 2. Modules

| Module | Role |
|---|---|
| `PlanarGeometry` | points and lines with integer coordinates: turning order (`azimuth_pt_pt`), signed area, point in ring, crossing, boxes, cutting a line |
| `Topology` | a topology as a record of tables; darts (signed edge identifiers), rings (`getRingEdges`), the backend's spatial reads, adjacent edge ends (`_rtt_FindAdjacentEdges`), crossing (`_rtt_CheckEdgeCrossing`) |
| `TopoOps` | every editing function as a condition `CanX` and a resulting topology |
| `TopoValid` | the conditions of a planar partition |
| `TopoEdit` | the state machine: one action per function of `librttopo.h`, two for a client that creates TopoGeometry objects; the properties |
| `TopoQuery` | the queries as operators on the state of `TopoEdit`; building areas from lines |
| `TopoPopulate` | the populating functions and Polygonize: one action each, composed of the operations of `TopoOps`, and their properties |
| `FacePartition` | abstract specification: faces divide the plane, a TopoGeometry occupies whole faces |
| `TopoPartition` | `TopoEdit` with the views of `FacePartition`'s two variables, and the refinement |
| `Geometry` | geometries of all fifteen types as one record, boxes with arcs and rounding |
| `GeomOps`, `GeomMake` | operations on a geometry; operations that make one of others, and questions |
| `Serialized`, `Wkb`, `Twkb`, `Varint` | writers and readers of the binary forms, word by word |
| `Distances` | the distance functions, both orders of search |
| `GeomLife` | the state machine of one geometry that goes through any of the operations; the properties |
| `TpSnap`, `SimplifyLoop`, `PointIterator`, `ByteBuffer` | state machines of loops, one step per turn |
| `MeasuredLines` | two lines that grow point by point; clipping, locating and approach as operators on them |
| `Thinning` | abstract specification of what `ptarray_simplify` promises |
| `MCTopoEdit`, `MCTopoQuery`, `MCTopoPartition`, `MCTopoPopulate`, `MCGeomLife`, `MCLoops` | worlds for TLC; `MCLoops` runs the four loops and the measured lines beside one another |
| `FacePartition_proofs`, `PlanarGeometry_proofs`, `TopoEdit_proofs`, `TopoPlanar_proofs`, `TopoLinks_proofs`, `TopoGeoms_proofs`, `TopoPopulate_proofs`, `Loops_proofs` | theorems |

### Topologies

`node`, `point`, `edge`, `line`, `mbr` are the columns of `RTT_ISO_NODE`,
`RTT_ISO_EDGE`, `RTT_ISO_FACE`; `areal` and `lineal` are the faces and edges
composing one areal and one lineal TopoGeometry, which exist in the code only
through the callbacks that announce splits, heals and removals.  A signed edge
identifier is called a *dart*: `next_left` of an edge is `Next(s, e)` and
`next_right` is `Next(s, -e)`, so an operation that the code writes twice, once per
side, is written once.  An action is a whole call.  A call that reports an error
(`rterror`) changes nothing: `librttopo.h` leaves transactions to the client, who
rolls back.  New identifiers are the smallest free ones of a set, as sequences of a
backend would give.  The checks are those of `skipISOChecks = 0`.

`X_mutant` before an operator `X` is `X` with a plausible mistake; nothing uses it.
`PROJECT.json` names the property that fails when it takes the place of `X`.

### Queries

The queries change nothing, so they are operators that the property `QueriesAgree`
applies to every state.  GEOSPolygonize is external: it finds the regions that edges
bound by walking darts in rotation order (`FirstClockwise`) with no regard to the
stored links, and gives each as polygons whose rings do not touch themselves
(`LastClockwise`).  `findFaceHoles`, `countParens` and the choice of faces with an
even number of ancestors are those of the code.  The rings come back in any order of
the holes and from any start, and where the code chooses an edge by two vertices all
choices are followed; an answer is therefore a set.

### Populating

`TopoPopulate` composes editing operations as the code does.  A call is a set of
*outcomes*: each says whether the call succeeds and what topology it leaves, one for
every order in which GEOS may return the pieces of a line, every edge a point may
split, and every order in which the spatial index of Polygonize may return shells.
Each step runs on what the last one left, unless that one failed, so a piece finds
the edges that its own ends and the pieces before it split.  `_rtt_AddEdge` with modFace = -1
(no faces) is `NewEdgeSides` and `LinkEdge` without the face split and with the
checks of `SidesAgree` that remain.  Geometry is exact: the tolerance is smaller than
any distance, so snapping moves nothing and no piece collapses.  Noding, which GEOS
does, is `CutPoints`: a line is cut at nodes, where it passes twice, and where it
meets an edge or parts from it.

`loading` says that lines were loaded without faces and Polygonize is still to
come.  The header declares the topology invalid meanwhile, so callers only load more
lines then; and since Polygonize assigns no isolated node to a face, they call it
only when there is none.  `FaceIds` bounds the faces that Polygonize can number, as it bounds
those of the editing functions: without enough of them the action is not enabled.

### Calls the code accepts and callers must not make

Five kinds of call pass every check of the code and break the partition.
`TopoEdit` lets a configuration refrain from them (`Avoids`):

* `MovesOutOfFace`: MoveIsoNode into another face (a TODO of the code, ticket 3232);
* `RemovesUsedEdge`: RemIsoEdge of an edge a TopoGeometry is composed of (TODO, ticket 3248);
* `SplitsReferredEdge`: NewEdgesSplit of an edge some `next_right` refers to;
* `MovesOverChord`, `MovesOverTwin`: ChangeEdgeGeom over a node on the straight
  line between the ends of the edge, or over the other edge between its two nodes.

The passing runs avoid all five, and show that nothing else is needed.

### Geometries

A geometry is a record: type, SRID, the flags of Z and M, the cached box, `arrays`
(one per ring, or one) and `geoms` (parts).  A point is the sequence of its
ordinates.  `GeomLife` starts with a geometry of `Pool` and applies any operation,
each of which is an action with the name of the function: changes in place
(`rtgeom_change` with a swap of ordinates, a scale, an affine map or a longitude shift, points of lines,
`rtgeom_reverse`, boxes, SRIDs, added parts), functions that return another geometry
(`rtgeom_as_multi`, `rtgeom_force_dims`, `rtcollection_extract`, `rtgeom_homogenize`,
`rtgeom_simplify`, ...), and writing a binary form and going on with what is read.
`stale` is a history variable: it becomes true when a geometry with a box goes
through an operation that in the code changes coordinates or parts and leaves the
box alone (listed in section 5), and false when no box is left.

Binary forms are sequences of words with a kind (byte, integer, double, varint);
reading a word as another kind is garbage and counts as an error, so a reader that
is one word off is found out.  Doubles are integers, floats the multiples of
`FloatStep`, and boxes are rounded outwards to them.  TWKB's precision is `drop`,
the number of decimal digits dropped.

Distances are squared and fractions (`num`/`den`), so that they can be compared
exactly with the definition.  The one record all functions of `measures.c` pass on,
`DISTPTS`, is `DistPts`, and every function is an operator from a record to a record.
The quick search for two lines with separate boxes sorts vertices along a line; where
two have the same measure qsort may give either first, the model takes the one that
comes first.

### Loops

`TpSnap` takes one step for a vertex added, looked at or removed; what it is near to
is the backend's and GEOS's business.  `SimplifyLoop` sees of the coordinates only
which point is farthest from a segment, whether that is beyond the tolerance, and which points
are equal: `ptarray_simplify` appends without repeats, so a point equal to the last one written
is dropped (`WriteTop`), and a closed line may come down to one point, which `rtline_simplify` then
repeats (`SimplifiedFrom` in `GeomOps`).  Every set of near pairs is an input, with every way for
points to be equal (a stretch whose points all equal its ends is always near).  Arrays have two points or more.  `ByteBuffer` separates the doubling of the
capacity from the write.  `PointIterator` has the code's two stacks.

### Measured lines

`MeasuredLines` has two lines, to which points are added: the first has any measures,
also repeated and falling; the second joins it when both are the ways of moving points
(`rtline_is_trajectory`).  The functions of `rtlinearreferencing.c` keep nothing, so
they are operators on the state; the loops that remember something between points
(`rtline_clip_to_ordinate_range`, `ptarray_substring`) are folds over a record of what
they remember (`added`, `state`, ...).  The `x` of the points is given by a course whose steps can
be divided by every difference of measures (`InterpolationIsExact`), so that
interpolation needs no rounding; the closest moment of two lines is a fraction.

## 3. Runs

The worlds of `MCTopoEdit` are drawn in its header: a square, its diagonal in both
directions, a closed loop inside, a dangling spur, a line that crosses the diagonal,
a closed line around everything, and two detours.  They are small, and contain each
case the code distinguishes: an edge isolated at both ends, at one, at none; closed;
splitting the universe, a face, or nothing; enclosing another component, on either
side; healing two faces, or a face with the universe.

| Run | Question | States |
|---|---|---|
| `edges` | Do adding and removing nodes and edges, in any order and in all four face disciplines, keep every condition of the partition, each checked on its own?  Does removing what was added restore the tables exactly?  Do the queries answer the same from labels, links and geometry? | 7 412 |
| `splits` | Do splits and heals, also of closed edges, keep the partition and the shape of a lineal TopoGeometry, and undo each other, whatever TopoGeometry objects exist? | 38 466 |
| `reshape` | Do moves of isolated nodes, isolated edges and changes of geometry keep it? | 28 151 |
| `partition` | Does all that implement the abstract division of the plane (whose own promises are proved in section 6)? | 7 694 |
| `populate` | Does every point, line and polygon go in, whatever it meets and in whatever order its pieces are added?  Do faces built by Polygonize agree with faces kept by splitting? | 1 199 |
| `life` | Do boxes, binary forms, notation and distances stay right through any two operations on a geometry of any type? | 5 602 |
| `loops` | Does every loop end, inside its memory (but for what one varint can exceed it by) and with what it promises, and does simplifying implement thinning?  Are clips, places and closest approaches of measured lines what the measures say? | 94 136 |
| `new_edges_split`, `move_over_twin`, `snap_edges`, `shortest_line`, `simplify_minimum` | Counterexamples of the findings | |

**Topologies.**  `NodeIds`, `EdgeIds` and `FaceIds` are larger than what the curves can
use at a time, except that `partition` and `reshape` have three face identifiers: with
two faces besides the universe no further face is made.  An identifier is tied
to the place of a node and the shape of an edge (`IdAt`, `IdFor`), which only removes
copies of a state under renaming; three identifiers per shape let NewEdgesSplit and
NewEdgeHeal replace an edge by another of the same shape.  There is no counter to
cap: the tables of a finite world are finite.  Deadlock is checked in `edges`, where
something can always be done; in the other runs a world can be filled up, a life or
a call is over, or a buffer full.

`QueryPoints` are a node, points on edges, one in each part of the plane, and one
outside within reach of the square; `Tolerances` 0 and 2 ask for what is at a point
and for what is near.

The world of `MCTopoPopulate` has a square, its two diagonals, a line that runs along
a side in the other direction and leaves it, a triangle that touches nothing, and a
line that crosses itself.  `MaxEdges` = 2 bounds the edges a populating call may
find, of which one call can make more (the polygon on top of the diagonal D B leaves
five); the properties apply one more line or polygon to every state, so that more than
these are met.  ModEdgeHeal is called in between: it removes nodes that the next line
needs again.  The sample points (`Probes`, one in each stretch of a line, and
`Atoms`, one in each part of the plane) tell apart what the lines can bound.

**Lives.**  `MaxSteps` = 2 operations: one that leaves something behind and one that
trusts it; the invariants are the third, since they measure, write and read every
state.  The pool has a geometry of each kind that some code treats differently:
empty, with empty parts, of two, three and four dimensions, with repeated points, an
open ring, holes, arcs, nested and multi-types, surfaces with faces.  `FloatStep` = 4
makes most coordinates fall between floats.  `Reach` = 40 keeps squares and products
of distances inside TLC's 32-bit integers.

**Loops.**  `MaxPoints` = 5 for simplifying: all sets of near pairs at five points and all
52 ways for them to be equal, with every number of points to keep, also more than there are; four points
are enough for `simplify_minimum`.  `MaxWritten` = 48 lets
a buffer of one byte double five times, and `VarintSizes` are the smallest, the 8 bytes the code makes
room for and the 10 that a 64-bit value can take.  Lines to snap pass edges at a distance, turn
a corner, and go round a ring; the second array of one job is near another edge than
the first.  Varints are checked by the assumption `VarintsAreReadBack` in `MCLoops`, at the
boundaries of one, two and three bytes.

**Measured lines.**  The first has up to four points and the second up to three, with two
offsets and measures 0 to 3: a line can rise, fall, stand still, turn back at an end of
the range or jump over it, leave two parts, or one and a point.  `Winding` makes of the
measures a line along the axes that closes and repeats points, for the functions that
go by length; they are asked at quarters of it.  Two moving points run towards each other,
meet between points and at them, go side by side, or are never under way at once.

**Fairness.**  `MCLoops!Spec` states weak fairness of the steps of a call under way, and
nothing else: the code calls nobody who could make it wait, so a call that can take a
step takes it.  Whether a client starts another append is its own affair and not
fair.  An iterator makes one step per call, so for iterators fairness is that of a client who keeps
calling `rtpointiterator_next` until there is none left, as every loop over one in the library does.
`LoopsEnd` rests on that.  The other machines have no fairness and no
liveness property: their actions are whole calls, made whenever a client likes.

## 4. Properties

**Topologies.**  `Planar` (simple lines, meeting at nodes only), `LinksFollowRotation`, `RingsCarryOneFace`, `OneShellPerFace`,
`HolesInTheirFace`, `NodesInTheirFace` and `MbrsFitFaces` together say that the
tables describe one planar partition; `Valid` is their conjunction.  They relate
what the code keeps by patching identifiers to what the geometry says, computed
anew.  `AddThenRemoveRestores` and `SplitThenHealRestores` apply two operations in a
row to every reachable state and compare all tables.  `LinealShapeKept` is a property
of steps.  `ImplementsPartition` is a refinement: a point belongs to the face the
backend finds around it (`CellsOf`), and each call is one of the abstract steps or
changes nothing; it would fail if a split disturbed a third face, or if a
TopoGeometry lost ground when an edge was removed.

`QueriesAgree` compares three accounts: the edges that `rtt_GetFaceEdges` finds along
the rings of the built area are those labelled with the face, once each, in closed
walks from the smallest identifier, the outer one first; the built area has the
stored mbr and lies where the backend finds the face; and a point is located, at any
tolerance, in a face that is there.

`LineIsStored` adds each line to every state, in every order of its pieces: no check
of an editing operation may fail on the way, and the edges run exactly where they ran
and where the line runs.  `PolygonizeAgrees` compares two algorithms that share no
code: the faces kept by splitting edge by edge and those Polygonize builds at once.
`PolygonIsTiled` says that no face AddPolygon returns straddles the polygon, although
it looks at one point of each.  `PartitionUnlessLoading` is `IsValid` for the
populating functions; without faces it keeps planarity and links.

**Geometries.**  `BoxesCover`: a cached box covers the coordinates, of the whole and
of parts, unless `stale`.  `WkbRestores`, `SerializedRestores`, `TwkbRestores`: for
every geometry a life can reach, in every variant, what is written has the size
computed beforehand and is read back, up to what the form has no room for.
`SerializedRestores` also says that the boxes peeked from fixed positions of the bytes
cover, and equal the box computed after reading.  `ShapesKept`: operations that only
change notation keep area, dimension, rings, closure and extent, and homogenizing
keeps every part.
`DistancesAreExtreme` compares the distance with its definition over all pairs of
vertices and segments, for both orders of arguments and early ends.
`ShortestLineJoins`: its first point is on the first geometry and its second on the
second.

**Loops.**  `LoopsOK` types the four loops and says that the stack of simplifying is
descending and fits in its allocation.  `SnapKeepsEnds`, `SnapSettles`: the ends of
a line survive and nothing but vertices of edges comes in; with `iterate`, an array that was left could
get no further vertex of the edges known to it, nor lose one.  Those are the edges near the first array that had any
near it (`KnownFor`): an array visited before, which is farther than `snap` from them, may have
vertices within `removal` of them.  `SnapKeepsAdded`: no step takes a vertex of a known edge out of an array,
so that what additions put in is not lost again to removals, although these
look for a vertex at the nearest edge only and edges are looked at anew each time.  It rests on edges that meet
at their vertices only, as those of a topology do (`MeetAtVertices`, an assumption on the jobs).
`ExcessIsOfOneVarint`: the written bytes exceed the capacity by no more than one varint exceeds the 8
bytes it was given room for, and are back inside with whatever else is appended.
`IterationPassesAll`: the points
passed are those of the geometry, in order and once each.  `ImplementsThinning`: the
second refinement.  `Thinning` says that points are passed in order from the first to the last, that whatever is
skipped is within the tolerance of the segment that replaces it, that a passed point is kept unless it equals the
last one kept, and how many are kept: those asked for, but for one dropped at the end, or else every
point that differs from the one before it.  `MinimumKept`, checked in `simplify_minimum` only, is what the header
promises without that exception.  `LoopsEnd`: every call returns.

**Measured lines.**  `ClipsAreExact`: what clipping leaves of a line lies on it, is in the range,
has every vertex that is, and covers every twelfth of a segment that is, in parts that
are apart and of types the result allows; the same line in two parts, or only its
points, leaves the same.  What is located at a measure is what is left between it and itself.
The part of a line between two fractions of its length, whichever way the measures go, is the clip
of the line measured by its length, and the place of a point is where such a part
ends and no other point of the line is nearer.  `ApproachIsClosest`: at the moment found both
points are under way and as far apart as was said; at no sixth of a unit of time are
they closer, nor as close before; `rtgeom_cpa_within` answers alike.

## 5. Findings and observations

Each finding is shown by a run that lets the call happen.

1. `rtt_NewEdgesSplit` gives a neighbour's `next_right` the far half of the split edge
   (`new_edges_split`).
2. `rtt_ChangeEdgeGeom` accepts moving an edge across its twin: the test of
   topological isomorphism compares identifiers of adjacent edges, and there is only
   one (`move_over_twin`).
3. TpSnap keeps the edges it fetched for the first array when it goes on with the
   next, elsewhere (`snap_edges`).
4. The shortest line to a polygon whose later hole is nearest goes from the second
   geometry to the first (`shortest_line`).
5. `ptarray_simplify` counts on the points still on its stack to make up the number asked for, and
   drops the last one when it equals the one written before: of A, B, B, A with four asked for, three are
   left, and of a closed line thinned to its ends, one (`simplify_minimum`).
   Its callers ask for two points of a line, four of a shell that is to be preserved and none of other rings;
   `rtline_simplify` repeats or discards the only point left of a line.

Met while modelling, without a run of their own.  Topology: `rtt_ChangeEdgeGeom`
accepts a node on the chord (`rtgeom_topo.c:3299`); `rtt_AddEdgeModFace` leaves the
new face on the left where `librttopo.h:1239` says right; `rtt_AddLineNoFace` still
derives side faces and fails with "faces mismatch" where a labelled edge meets an
unlabelled one (`rtgeom_topo.c:2657`).  `rtt_GetFaceEdges` and `rtt_GetFaceGeometry` fail without
`rterror` when the edges bound no area (`rtgeom_buildarea` returns nothing for an
empty collection, which the comment at `rtgeom_topo.c:3166` rules out), and the
universe's edge list is refused when it surrounds several areas.  `rtt_GetFaceByPoint` answers for a
point on an edge beside the universe, which `librttopo.h:1016` calls an error.

Geometries: affine transformations, longitude shift, swaps of Z with M and added
parts leave the cached box as it was, and a negative scale inverts its bounds: these
make `stale` true.  `rtcollection_build_buffer` has no break after adding a single
geometry (`rthomogenize.c:78-116`): compound curves and curve polygons are added
whole and again in pieces, so `ShapesKept` leaves them out of homogenizing.
`header_from_twkb_state` reads the M range of a box when there is Z
(`rtin_twkb.c:602-607`), so a box is asked for where both or neither are there.
The SFSQL variant writes as many NaN for an empty point as it has dimensions,
though its type has no room for Z and M (`rtout_wkb.c:303-340`).  `AddBox` on a point
followed by `AsMulti` leaves a part whose flag promises a box it does not have.
Parsing a polyhedral surface leaves the Z closure check on for later siblings
(`rtin_wkb.c:643`).  `gbox_union` drops M.  `remove_repeated_points` with a tolerance may open a ring.
Added points of `ptarray_segmentize2d` are interpolated in Z and M where its comment says 0
(`ptarray.c:417-419`).

Distances: `rt_dist2d_recursive` stops at the first empty part although its comment says
the search goes on (`measures.c:353`); `rt_dist2d_line_poly` looks, for the greatest
distance of a line that starts inside the polygon, only at holes (734-795), which `LineStartsIn`
leaves out; a line of one point measures nothing; the quick search does not end early
at the tolerance; `rtgeom_furthest_point` always returns an empty collection (132-164).

Measured lines: a line that only crosses a single measure (from = to) leaves a line of
two equal points, where one that only touches it leaves a point.  When nothing is left, a line gives an empty
collection and a multiline nothing, which the caller reports as an error.
`rtmline_clip_to_ordinate_range` makes room for 16 more parts per line, however many
it left (`rtlinearreferencing.c:495-510`).  A segment along which the measure stands still is an
error for locating (46-59) and none for clipping.  `rtgeom_tcpa` takes the common time from boxes,
which may be wider than the points when floats cannot hold the measures (1109): then there may be no
measure in the range at all, and the code reads the first one all the same (1149); measures here are exact.
`ptarray_locate_point` gives 1 on a line of two equal points, where its comment
(`ptarray.c:1363`) says 0.

Others: the capacity of a merged buffer without bytes is 0;
`bytebuffer_append_varint` makes room for 8 bytes of at most 10 (`bytebuffer.c:192`), which
`ExcessIsOfOneVarint` bounds and `OnlyVarintsExceed` shows to be the only way out of the buffer;
an empty ring ends an iteration early (`rtiterator.c:208`); TWKB adds 64-bit deltas
up in an `int` (`rtout_twkb.c:172`).

## 6. Proofs

`FacePartition_proofs`: `FacesAlwaysDividePlane` and `CoveredIsAlwaysWholeFaces`.  The
conjunction of the two is inductive: a split or a heal preserves the disjointness of
faces, and merging keeps a TopoGeometry made of whole faces because both faces
belong to it or neither does.

`TopoEdit_proofs`: `TablesAreAlwaysTyped` and `IsolationAlwaysTracksEdges`, from
`IdentifiersArePositive` alone, for every set of points, lines and identifiers, every
choice of calls, and whatever callers avoid.  The inductive invariant is `Sound(db)`,
typing together with the isolation marks: typing alone is inductive, but the marks
need it (signed identifiers must be nonzero for a dart to tell its edge, and a face
put into `containing_face` must not be the placeholder -1).  The argument has two
layers.  Operations that touch only links, faces and mbrs (`AddFaceSplit`, `UnlinkEdge`,
`HealFaces`, ...) are *relabellings* (`Relabelled`), closed under composition, and
keep the marks.  The others (adding, removing, splitting and healing an edge) are
compared row by row; for a heal, the common node goes and both free ends keep the
healed edge because neither edge was closed and no third edge ended on the node.

`PlanarGeometry_proofs` and `TopoPlanar_proofs`: `TopologyIsAlwaysPlanar`, from the same
assumption and `InputsAreGeometries` (points are points, lines are lines).  `Planar` is not
inductive.  It sees two edges cross by their vertices and by signs of areas, while an edge
that is split or joined must be compared with others point by point; and it does not say that what is stored
are lines.  The invariant is `Sound(db) /\ Flat(db)`: nodes are points of their own, edges are
simple lines drawn between the points of their nodes, away from other nodes, and no two have an
inner point in common, of *any* rational coordinates (`ShareInterior`).  `CrossingTestIsExact`
says that the two ways of seeing agree: two segments cross or overlap exactly when they have a
point in common that is an end of neither, where a rational point is an integer point
of a picture drawn larger, so that all arithmetic stays in integers.  `BoxFilterHidesNoCrossing`
is why it is enough that `_rtt_CheckEdgeCrossing` looks at edges with boxes that meet.  The rest
are the points of a line cut in two (`PiecesOfLine`), walked backward and joined
(`JoinedIsSimple`): a piece has no other points than the line and the pieces share none, and
the healed line is simple because the two edges do not meet but at the common node, where no
third edge ends, and were not closed.  What is new passes the checks of the code, which is where
`UncrossedLine` uses them; moving a node needs the isolation marks of `Sound`, since an edge that
ended there would be left behind.

`TopoLinks_proofs`: `LinksAlwaysFollowRotation`, for callers that do not split a referred edge
with NewEdgesSplit (`SplitsReferredEdge`: the run `new_edges_split` shows that the code then sets a
link wrong).  No operation sorts the edges of a node; each patches the links it believes to be
concerned.  The invariant is `Turning(db)` beside `Sound(db) /\ Flat(db)`: at every node the links
are a `Rotation` of the edge ends there, which says of each end that its link is the first end met
when turning clockwise, and *also* that the links reach every end.  `LinksFollowRotation` is the first
half only and is not inductive: an operation that takes an end away, or puts one in, finds the one link
it has to change by its value, and that there is one is the second half.  `Planar` is needed
because a new edge must leave its nodes in a direction of its own: two lines that leave a node the same way
overlap.  The module goes from quarter turns (`Turn` splits directions into four, and cyclic
order is compared in each) to cyclic order (`MetBefore` is a strict order of the other ends as seen from one), then to
sets of ends: a rotation stays one when an end is inserted between what `_rtt_FindAdjacentEdges`
found on both sides, when an end is removed and its predecessor inherits its link, when ends get other
identifiers that leave the same way (the halves of a split, a healed edge), and when an end moves between the same
neighbours (the test of adjacent ends in `rtt_ChangeEdgeGeom`).  What remains is a lemma per
operation, that the links it writes are those of one of these four cases at each of the
nodes it touches, also where both ends of an edge are at one node.

In the same module `RingsAreAlwaysCycles`: a walk along the links comes back to the dart it
started with, so that `getRingEdges` ends and rings are the same for all their darts.  Rotations give that
every dart is the link of one dart only (`NextIsInjective`); the edge table is finite
(`FewMore`: no call adds more than two edges), so a walk repeats a dart, and the first one repeated
is its start.  The last argument is about the least number of a set, where one
would think of induction.

`TopoGeoms_proofs`: four theorems for clients that refrain from RemIsoEdge of an
edge in use (`RemovesUsedEdge`, whose check is a TODO of the code).
`TopoGeomsAlwaysReferToRows`: the invariant is `Refers(db)` beside those above.  Most parts
of an operation keep rows (`KeepsRows`, closed under
composition).  Of the others, healing with the universe is delicate: it puts the
universe into an areal object unless no object has either face, which
`TopoGeomAllowsRemEdge` gives because the universe has no row.  So is AddEdgeNewFaces: it asks
both sides of the edge for a face and would give the face 0 to an object if it found one only.
That it finds both or none is `RingsComeBack`: if one side is reached from the other, so is the other from the
one, because rings are cycles.  Hence the second hypothesis, that NewEdgesSplit splits no referred edge where clients
call AddEdgeNewFaces.
`LinealShapeIsKept`: whatever edges replace an edge of a lineal object cover the points that it
covered (`Covers`), since a line passes the points of its pieces and a joined
line those of its parts.  It is an action property and rests on the invariant of
`TopologyIsAlwaysPlanar`: the lines joined have to meet at their ends.
`SplittingThenHealingRestores`: the inverse of ModEdgeSplit is ModEdgeHeal, row by row
(`SplitRows`, `HealedRows`).  The two parts meet at the new node only, as no edge ended there
before, even if the edge was closed.  The split turns some links to the end of the edge, not all, into links to the end of
the new one, and the heal turns every such link back; a row that led there before the split would be turned
too.  That there is none is `Linked(db)`, which follows from `Turning(db)`: links lead to rows.
Equal tables are equal functions, hence `Tabular(db)` in the invariant.
`AddingThenRemovingRelinks`: removing the edge just added, by either function of each kind, gives back
everything but what the faces are (`SameButFaces`), and the objects never forbid it after
AddEdgeModFace.  How links are patched need not be looked at again: both calls keep `Turning`, and
a drawing has one way only to turn around its nodes (`DrawingTellsLinks`), so equal lines have equal
links.  The objects agree because the one that has the face split gets both parts, and
because a new identifier, or the universe, is in none.  It is the part of `AddThenRemoveRestores`
that does not depend on where faces are; that the faces and boxes come back too stays
with TLC.

`TopoPopulate_proofs`: `PopulatingKeepsTheDrawing`, `PopulatingTracksEdges` and
`PopulatedTablesAreTyped`, for every set of points, lines and polygons, every order of the pieces,
with and without faces, mixed with any editing calls; the condition on NewEdgesSplit is that of
`LinksAlwaysFollowRotation`.  A call is a sequence of editing operations whose length
and arguments depend on the geometry, so the proof has three layers.  (1) What is handed
on is a line: cutting at a point leaves lines of two vertices or more, each a run of the line cut and
the point (`PiecesAreLines`, on `HeadAtPart` and `TailAtPart` of `PlanarGeometry_proofs`); without
that, the checks of an editing operation would mean nothing.  (2) With faces, each operation leads from
`Good` to `Good`, the invariant of `LinksAlwaysFollowRotation`.  (3) Without faces `Sound` is not
preserved: sides have face -1, and AddPoint marks a node as not isolated before its edge is there.  The
invariant is then `Loaded`: *some* good topology is `Alike`, with the same nodes, lines and
links.  An operation that takes `s` to `t` takes the topology alike to `s` to one alike to `t`, with
the universe for the missing face, so that the drawing and the links need no second proof.
`Strays` are the nodes marked too early; they lie at the ends of the piece under way
(`StraysAt`), and are gone when the piece is joined, or when an equal edge is found,
whose ends they would have to be.  `PopulateInv` is `Good` unless `loading`, and
`Loaded` without strays otherwise.  Polygonize makes a good topology of a loaded
one (`LoadedWithFacesIsGood`) because every dart is in its ring and every ring is given a face, of which
it is only used that it *is* a face.  The recursions over sets of cut points and of pieces are recursive functions; that they exist and
what they keep is shown by the least size, and the least set, for which it would fail.

`Loops_proofs`, snapping: `SnappingKeepsEnds` and `SnappingSettles`, for all jobs that
`JobsAssumption` types.  The first says that what is inserted goes between two vertices, which is so
because `FirstNearest` and `FirstSnap` choose among what there is: nearness compares fractions
without dividing and is a preorder (`NearerOrders`), ties are broken by places in the array and by coordinates, and a
finite set with a total order has a first element (`FirstExists`).  A removal stays away from the ends by its index
alone.  `SettleInv` is what makes the second inductive: while a round of removals has removed nothing,
the additions before it have found nothing and what it has passed stays; arrays not yet
visited are untouched, so their extent is the one they came with; and edges once fetched are those
of `KnownFor`, whichever array asks.  `SnappingKeepsAdded`: a vertex of a known edge is at distance zero from
that edge, so the nearest edge is at distance zero too and passes through the vertex.  As edges
meet at vertices only, it is a vertex of that edge as well, and a removal spares it.

Simplifying: `StackFits`, that the stack never holds more than it was allocated
for, and `SimplifyImplementsThinning`, the refinement, for any number of points, any
near pairs, any equal points and any number asked for.  The invariant says that the stack descends from
the last point to one after the last visited; a descending stack of indexes has at
most as many entries as there are points, and a point is only visited when the pair
it closes is near, has nothing between, or (short of points) was split until then.  That dropping
equal points costs no more than the last one is its harder part: what is put on the stack was
chosen as the first farthest point of its stretch, hence equals no point between the last visited and it
(`StackFresh`), and is written when its turn comes; the exception is a point next to the last visited, split from a
stretch without extent, which happens only when short of points.  So either the points written and those on the stack are as many as asked for (`Counted`), or
nothing but repeats was dropped so far (`AllWritten`).

Buffers, from `BufferAssumption`: sizes are numbers, buffers are created with some room, and a
varint takes at most 10 bytes, what 64 bits in groups of seven need.
`ExcessStaysOfOneVarint`: the bytes never exceed the capacity by more than two, the 10 less the 8 of `VarintRoom`.
`OnlyVarintsExceed`: where no varint is longer than `VarintRoom`, no byte is written beyond the capacity,
whatever is appended in whatever order.  `ZigzagRoundTrip` for every integer, and that zigzag is small for
small magnitudes.

Only model-checked: what the faces say (five of the seven conditions of
section 4, hence `Valid` and `PartitionUnlessLoading`; that removing what was added restores the faces; queries), since a proof would need that a closed
line has an inside and an outside; that a populating call succeeds and stores its line (`LineIsStored`,
which also needs that noding leaves nothing to cross) and which faces it makes (`PolygonizeAgrees`,
`PolygonIsTiled`); the refinement of the partition, the
binary forms and boxes, distances, iteration, measured lines, and `LoopsEnd`.  No proof here
speaks of the recursive function `Sweep` or of the recursive readers and
writers: what a recursion computes for every input is induction over data, out of
the prover's reach, as are liveness and ENABLED.  (Where a set can stand in for the recursion, the
least number of a set is enough: that is how the bounds of a box are found in
`PlanarGeometry_proofs`, and what `RingIsLeast` says of the function `Ring`.)

## 7. Not modelled

* Rounding of coordinates (integers here, doubles there) and of azimuths; the
  tolerance of the populating functions; Z and M in topologies.
* Identifiers beyond 31 bits (some locals of the code are `int`); failing backends,
  whose transactions are assumed to roll back; memory; the variants with `skipChecks`.
* Distances of arcs, triangles and curve polygons; `rt_dist2d_recursive` also puts boxes
  into the parts it measures, which is left out.
* Offsets to the side in linear referencing, stroking, geodetic and 3D
  measures: roots and trigonometry on doubles.  Clipping by another ordinate than the measure,
  and Z, which is interpolated as the others are.  The textual formats (WKT, GML, KML, SVG, X3D, GeoJSON,
  polylines): layout without state.  Conversions to GEOS and its set operations; the
  spatial tree of geodetic distances; the string buffer.

## 8. Plan

Done: editing functions, validity, refinement, populating and Polygonize with exact
geometry, queries, snapping, geometries with their boxes and binary forms, distances,
loops with their liveness, measured lines; theorems of section 6, those on populating included.

What is left, in this order:
1. Populating with a tolerance: a point within reach of a node or an edge moves onto
   it, and pieces collapse.
2. Identifiers with the width of the code's locals, and tables that are written one
   after the other by a backend that may fail.
3. Proofs: what the faces say, from a theory of closed lines and their insides; the rest
   of `AddThenRemoveRestores` would follow.
