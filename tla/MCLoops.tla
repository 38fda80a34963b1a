-------------------------------- MODULE MCLoops ------------------------------
(***************************************************************************)
(* The loops of the library whose end is not a count in their head: one    *)
(* behaviour is one call of rtt_tpsnap or of ptarray_simplify, one point   *)
(* iterator, one byte buffer and the appends to it, or two measured lines  *)
(* that grow and are clipped and compared at every length.                 *)
(***************************************************************************)
EXTENDS PointIterator, TpSnap, SimplifyLoop, ByteBuffer, Varint, MeasuredLines

VARIABLE loop   \* which of them it is

vars == <<loop, snapVars, simplifyVars, bufferVars, iteratorVars, tracks>>

NoSnap == /\ job = 0 /\ arrays = <<>> /\ current = 1 /\ phase = "done"
          /\ extent = 0 /\ workedges = {} /\ vertex = 0 /\ removed = 0
NoSimplify == /\ npoints = 2 /\ minpts = 0 /\ same = <<1, 2>> /\ near = {}
              /\ out = <<1>> /\ p1 = 1 /\ stack = <<2>>
NoBuffer == capacity = 1 /\ written = 0 /\ wanted = 1 /\ call = NoCall
NoIterator == geom = 0 /\ geoms = <<>> /\ pointarrays = <<>> /\ i = 0 /\ passed = <<>>
NoTracks == tracks = << <<>>, <<>> >>

Init ==
  \/ loop = "snap" /\ SnapInit /\ NoSimplify /\ NoBuffer /\ NoIterator /\ NoTracks
  \/ loop = "simplify" /\ SimplifyInit /\ NoSnap /\ NoBuffer /\ NoIterator /\ NoTracks
  \/ loop = "buffer" /\ BufferInit /\ NoSnap /\ NoSimplify /\ NoIterator /\ NoTracks
  \/ loop = "iterator" /\ IteratorInit /\ NoSnap /\ NoSimplify /\ NoBuffer /\ NoTracks
  \/ loop = "measure" /\ TracksInit /\ NoSnap /\ NoSimplify /\ NoBuffer /\ NoIterator

Snaps == loop = "snap" /\ SnapNext /\ UNCHANGED <<simplifyVars, bufferVars, iteratorVars, tracks>>
Simplifies == loop = "simplify" /\ SimplifyNext /\ UNCHANGED <<snapVars, bufferVars, iteratorVars, tracks>>
Buffers == loop = "buffer" /\ BufferNext /\ UNCHANGED <<snapVars, simplifyVars, iteratorVars, tracks>>
Iterates == loop = "iterator" /\ IteratorNext /\ UNCHANGED <<snapVars, simplifyVars, bufferVars, tracks>>
Grows == loop = "measure" /\ AddToTrack /\ UNCHANGED <<snapVars, simplifyVars, bufferVars, iteratorVars>>

Next == (Snaps \/ Simplifies \/ Buffers \/ Iterates \/ Grows) /\ UNCHANGED loop
Returns == loop = "buffer" /\ (Double \/ WriteBytes) /\ UNCHANGED <<loop, snapVars, simplifyVars, iteratorVars, tracks>>

\* A call runs until it returns; nobody has to append to a buffer.
Spec == /\ Init /\ [][Next]_vars
        /\ WF_vars((Snaps \/ Simplifies \/ Iterates) /\ UNCHANGED loop)
        /\ WF_vars(Returns)

-----------------------------------------------------------------------------
(* Instances *)

Street == << <<0, 0>>, <<20, 0>>, <<40, 4>> >>
Side == << <<20, 0>>, <<20, 20>> >>
Remote == << <<0, 100>>, <<20, 104>>, <<40, 100>> >>
Along == << <<-2, 2>>, <<10, 2>>, <<42, 2>> >>
Corner == << <<2, 2>>, <<18, 2>>, <<18, 22>> >>
Beside == << <<10, -20>>, <<12, -3>>, <<14, -20>> >>
Over == << <<0, 102>>, <<40, 102>> >>
Ring == << <<0, 4>>, <<10, -2>>, <<30, 6>>, <<44, 4>>, <<0, 4>> >>

ConstJobs ==
  [arrays : {<<Along>>, <<Beside, Along>>, <<Corner, Over>>, <<Ring>>}, edges : {<<Street, Side, Remote>>, <<Street>>},
   snap : {2, 4}, removal : {-1, 2, 4}, iterate : BOOLEAN]

Of(type, points, parts) ==
  NewGeom(type, 0, FALSE, FALSE, NoBox, points, parts)
Here == Of("Point", << << <<1, 2>> >> >>, <<>>)
Nowhere == Of("Point", << <<>> >>, <<>>)
Road == Of("Line", << Along >>, <<>>)
Field == Of("Polygon", <<Corner, Corner>>, <<>>)
Lot == Of("Polygon", <<Along>>, <<>>)
ConstVisited ==
  { Here, Nowhere, Field, Of("MultiLine", <<>>, <<Road, Road>>),
    Of("Collection", <<>>, <<Nowhere, Of("Collection", <<>>, <<Nowhere, Here>>), Nowhere, Field>>),
    Of("Collection", <<>>, <<Of("MultiPolygon", <<>>, <<Field, Lot>>), Of("MultiPoint", <<>>, <<>>)>>) }
ConstCourses == << <<0, 6, 12, 18>>, <<18, 12, 6>> >>
ConstReplacements == {<<7, 7, 7, 7>>}

\* A varint is read back, also when more bytes follow it, and from no part of it.
ASSUME VarintsAreReadBack ==
  \A n \in (-140..140) \cup {-8193, -8192, 8191, 8192, 16383, 16384, 1000000} :
    LET bytes == Encoded(Zigzag(n)) IN
    /\ Unzigzag(Decoded(bytes \o <<130, 7>>)) = n
    /\ EncodedBytes(bytes \o <<130, 7>>) = Len(bytes)
    /\ EncodedBytes(SubSeq(bytes, 1, Len(bytes) - 1)) = 0

-----------------------------------------------------------------------------
(* Properties: those of the loop the behaviour is of *)

\* Type correctness, and the simplification stack is in order.
LoopsOK ==
  CASE loop = "snap" -> SnapTypeOK
    [] loop = "simplify" -> StackOK
    [] loop = "buffer" -> BufferOK
    [] loop = "iterator" -> IteratorOK
    [] loop = "measure" -> TracksOK

\* Properties of one loop, where its variables mean something.
SnappingToAllEdges == loop = "snap" => SnapsToAllEdges
MinimumKept == loop = "simplify" => MinimumIsKept
IterationPassesAll == loop = "iterator" => PassesEveryPoint

\* Every call returns, whatever it works on.
LoopsEnd ==
  /\ (loop = "snap") ~> (phase = "done")
  /\ (loop = "simplify") ~> (stack = <<>>)
  /\ (loop = "iterator") ~> (~ HasNext)
  /\ (call # NoCall) ~> (call = NoCall)
=============================================================================
